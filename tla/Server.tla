------------------------------- MODULE Server -------------------------------
(***************************************************************************)
(* The server of server.rs with its clients (client.rs): one thread per    *)
(* connection that reads a query, runs it in its Session and writes the    *)
(* answer.  Clients may go away at any moment, and a query may make its    *)
(* thread panic: outside the storage lock (the parser) or with the write   *)
(* lock held (a page that overflows), which poisons the RwLock.            *)
(*                                                                         *)
(* The gate is that of module Session; of the storage it is enough to know *)
(* which pagers are in a transaction, which have pages that are not in the *)
(* file, and which of them a failed statement left so.  The wire keeps the *)
(* order of messages and loses none while both ends are open; a message is *)
(* its query's number.                                                     *)
(***************************************************************************)
EXTENDS Integers, Sequences

CONSTANTS
  Clients,
  NoOne,        \* txn_owner is None
  Tables,       \* the tables, all open from the start
  MaxQueries,   \* bound on the queries of one client
  MaxPanics,    \* bound on the panics that are not a consequence of another
  MaxFaults     \* bound on the INSERTs, COMMITs and ROLLBACKs that fail half-way

ASSUME ServerAssumption ==
  NoOne \notin Clients /\ MaxQueries \in Nat /\ MaxPanics \in Nat /\ MaxFaults \in Nat

VARIABLES
  client,          \* each client: "new", "idle", "waiting" or "closed"
  sent, shown,     \* the number of its last query, and of the last answer shown
  inbox, outbox,   \* its socket: what the server, and the client, has to read
  thread,          \* where its server thread is
  kind, query,     \* the statement the thread executes, and its query's number
  in_transaction,  \* Session.in_transaction
  txn_owner,       \* Shared.txn_owner
  poisoned,        \* the storage RwLock is poisoned
  pagerTxn,        \* the tables whose Pager.in_transaction is set
  dirty,           \* the tables with pages that are only in the cache
  failed,          \* history: the tables that a failed statement left in a
                   \* transaction or dirty, until they are written or discarded
  alive,           \* the process has not aborted
  panics, faults

wire == <<client, sent, shown, inbox, outbox>>
session == <<in_transaction, txn_owner>>
statement == <<kind, query>>
storage == <<pagerTxn, dirty, failed>>
counters == <<panics, faults>>
vars == <<wire, thread, statement, session, poisoned, storage, alive, counters>>

Kind == {"begin", "commit", "rollback", "insert", "select"}

Init ==
  /\ client = [c \in Clients |-> "new"]
  /\ sent = [c \in Clients |-> 0] /\ shown = [c \in Clients |-> 0]
  /\ inbox = [c \in Clients |-> <<>>] /\ outbox = [c \in Clients |-> <<>>]
  /\ thread = [c \in Clients |-> "none"] /\ kind = [c \in Clients |-> "none"]
  /\ query = [c \in Clients |-> 0]
  /\ in_transaction = [c \in Clients |-> FALSE] /\ txn_owner = NoOne
  /\ poisoned = FALSE /\ pagerTxn = {} /\ dirty = {} /\ failed = {}
  /\ alive = TRUE /\ panics = 0 /\ faults = 0

Goto(c, l) == thread' = [thread EXCEPT ![c] = l]

-----------------------------------------------------------------------------
(***************************************************************************)
(* The client's loop: connect, send one query, wait for its answer.  It    *)
(* may leave whenever it likes (.exit, end of input, a kill).              *)
(***************************************************************************)
\* connect, and the server's accept, which starts the thread.
Connect(c) ==
  /\ client[c] = "new" /\ alive
  /\ client' = [client EXCEPT ![c] = "idle"]
  /\ Goto(c, "read")
  /\ UNCHANGED <<sent, shown, inbox, outbox, statement, session, poisoned, storage, alive, counters>>

Send(c) ==
  /\ client[c] = "idle" /\ sent[c] < MaxQueries
  /\ sent' = [sent EXCEPT ![c] = @ + 1]
  /\ inbox' = [inbox EXCEPT ![c] = Append(@, sent'[c])]
  /\ client' = [client EXCEPT ![c] = "waiting"]
  /\ UNCHANGED <<shown, outbox, thread, statement, session, poisoned, storage, alive, counters>>

Show(c) ==
  /\ client[c] = "waiting" /\ outbox[c] # <<>>
  /\ shown' = [shown EXCEPT ![c] = Head(outbox[c])]
  /\ outbox' = [outbox EXCEPT ![c] = Tail(@)]
  /\ client' = [client EXCEPT ![c] = "idle"]
  /\ UNCHANGED <<sent, inbox, thread, statement, session, poisoned, storage, alive, counters>>

\* "Connection lost": the server's end is closed and nothing is left to read.
Lose(c) ==
  /\ client[c] = "waiting" /\ outbox[c] = <<>> /\ thread[c] = "gone"
  /\ client' = [client EXCEPT ![c] = "closed"]
  /\ UNCHANGED <<sent, shown, inbox, outbox, thread, statement, session, poisoned, storage,
                 alive, counters>>

Leave(c) ==
  /\ client[c] \in {"idle", "waiting"}
  /\ client' = [client EXCEPT ![c] = "closed"]
  /\ UNCHANGED <<sent, shown, inbox, outbox, thread, statement, session, poisoned, storage,
                 alive, counters>>

-----------------------------------------------------------------------------
(***************************************************************************)
(* Panics.  A thread that unwinds drops its Session; a session in a        *)
(* transaction then needs the storage lock, and a second panic while       *)
(* unwinding aborts the process.                                           *)
(***************************************************************************)
Abort == alive' = FALSE /\ thread' = [c \in Clients |-> "gone"]

Unwind(c) == alive' = alive /\ Goto(c, IF in_transaction[c] THEN "unwind" ELSE "gone")

\* parse: the SQL names no table, say.  No lock is held.
PanicInParser(c) ==
  /\ thread[c] = "read" /\ inbox[c] # <<>>
  /\ panics < MaxPanics /\ panics' = panics + 1
  /\ inbox' = [inbox EXCEPT ![c] = Tail(@)]
  /\ Unwind(c)
  /\ UNCHANGED <<client, sent, shown, outbox, statement, session, poisoned, storage, faults>>

\* INSERT panics under the write lock; the table's pages stay as they are.
PanicInStorage(c) ==
  /\ thread[c] = "access" /\ kind[c] = "insert" /\ ~poisoned
  /\ panics < MaxPanics /\ panics' = panics + 1
  /\ poisoned' = TRUE
  /\ \E t \in Tables : dirty' = dirty \cup {t}
  /\ IF in_transaction[c] THEN Abort ELSE Unwind(c)
  /\ UNCHANGED <<wire, statement, session, pagerTxn, failed, faults>>

\* The expect of with_write and with_read on a poisoned lock.  BEGIN has claimed
\* the gate by then and has not set in_transaction.
PanicOnPoison(c) ==
  /\ thread[c] = "access" /\ poisoned
  /\ IF in_transaction[c] THEN Abort ELSE Unwind(c)
  /\ UNCHANGED <<wire, statement, session, poisoned, storage, counters>>

-----------------------------------------------------------------------------
(***************************************************************************)
(* session_loop and dispatch.                                              *)
(***************************************************************************)
\* A statement that the session refuses, or that the parser does not know, is
\* answered without the storage.
Refused(c, k) ==
  \/ k = "begin" /\ in_transaction[c]
  \/ k \in {"commit", "rollback"} /\ ~in_transaction[c]

\* Mutation of ReadQuery: what is not understood is not answered.
ReadQueryDrops(c, k) ==
  /\ thread[c] = "read" /\ inbox[c] # <<>>
  /\ inbox' = [inbox EXCEPT ![c] = Tail(@)]
  /\ kind' = [kind EXCEPT ![c] = k] /\ query' = [query EXCEPT ![c] = Head(inbox[c])]
  /\ Goto(c, IF Refused(c, k) THEN "read"
             ELSE IF k \in {"commit", "rollback"} THEN "access" ELSE "gate")
  /\ UNCHANGED <<client, sent, shown, outbox, session, poisoned, storage, alive, counters>>

ReadQuery(c, k) ==
  /\ thread[c] = "read" /\ inbox[c] # <<>>
  /\ inbox' = [inbox EXCEPT ![c] = Tail(@)]
  /\ kind' = [kind EXCEPT ![c] = k] /\ query' = [query EXCEPT ![c] = Head(inbox[c])]
  /\ Goto(c, IF Refused(c, k) THEN "write"
             ELSE IF k \in {"commit", "rollback"} THEN "access" ELSE "gate")
  /\ UNCHANGED <<client, sent, shown, outbox, session, poisoned, storage, alive, counters>>

\* Mutation of End: the Session is not dropped.
EndForgets(c) == Goto(c, "gone")

\* The loop returns and the Session is dropped.
End(c) == Goto(c, IF in_transaction[c] THEN "drop" ELSE "gone")

\* read_message meets the end of the stream.
ReadEof(c) ==
  /\ thread[c] = "read" /\ inbox[c] = <<>> /\ client[c] = "closed"
  /\ End(c)
  /\ UNCHANGED <<wire, statement, session, poisoned, storage, alive, counters>>

\* Mutation of WriteAnswer: the loop does not go back to reading.
WriteAnswerTwice(c) ==
  /\ thread[c] = "write"
  /\ outbox' = [outbox EXCEPT ![c] = Append(@, query[c])]
  /\ UNCHANGED <<client, sent, shown, inbox, thread, statement, session, poisoned, storage,
                 alive, counters>>

\* The statement and its query are forgotten with the answer.
WriteAnswer(c) ==
  /\ thread[c] = "write"
  /\ outbox' = [outbox EXCEPT ![c] = Append(@, query[c])]
  /\ kind' = [kind EXCEPT ![c] = "none"] /\ query' = [query EXCEPT ![c] = 0]
  /\ Goto(c, "read")
  /\ UNCHANGED <<client, sent, shown, inbox, session, poisoned, storage, alive, counters>>

\* write_message fails once the client has gone.
WriteFails(c) ==
  /\ thread[c] = "write" /\ client[c] = "closed"
  /\ End(c)
  /\ UNCHANGED <<wire, statement, session, poisoned, storage, alive, counters>>

-----------------------------------------------------------------------------
(***************************************************************************)
(* The gate: wait_for_txn_clear and begin, as in module Session.           *)
(***************************************************************************)
PassGate(c) ==
  /\ thread[c] = "gate"
  /\ txn_owner \in (IF kind[c] = "begin" THEN {NoOne} ELSE {NoOne, c})
  /\ txn_owner' = IF kind[c] = "begin" THEN c ELSE txn_owner
  /\ Goto(c, "access")
  /\ UNCHANGED <<wire, statement, in_transaction, poisoned, storage, alive, counters>>

Sleep(c) ==
  /\ thread[c] = "gate"
  /\ txn_owner \notin (IF kind[c] = "begin" THEN {NoOne} ELSE {NoOne, c})
  /\ Goto(c, "asleep")
  /\ UNCHANGED <<wire, statement, session, poisoned, storage, alive, counters>>

\* What a thread that gives the gate back makes of the threads: it goes on at l,
\* and notify_all wakes the sleepers.
Notify(c, l) ==
  thread' = [d \in Clients |-> IF d = c THEN l
                               ELSE IF thread[d] = "asleep" THEN "gate" ELSE thread[d]]

\* Mutation of Release: notify_all is left out.
ReleaseSilently(c) ==
  /\ thread[c] \in {"release", "dropped"}
  /\ txn_owner' = IF txn_owner = c THEN NoOne ELSE txn_owner
  /\ Goto(c, IF thread[c] = "release" THEN "write" ELSE "gone")
  /\ UNCHANGED <<wire, statement, in_transaction, poisoned, storage, alive, counters>>

\* release_txn_gate, after COMMIT or ROLLBACK and in Drop.
Release(c) ==
  /\ thread[c] \in {"release", "dropped"}
  /\ txn_owner' = IF txn_owner = c THEN NoOne ELSE txn_owner
  /\ Notify(c, IF thread[c] = "release" THEN "write" ELSE "gone")
  /\ UNCHANGED <<wire, statement, in_transaction, poisoned, storage, alive, counters>>

-----------------------------------------------------------------------------
(***************************************************************************)
(* The storage, under its write lock.  INSERT ends with a flush of its     *)
(* table unless that table's pager is in a transaction; BEGIN, COMMIT and  *)
(* ROLLBACK go through the tables one by one and stop at the first error,  *)
(* and the session then ends its transaction all the same.  `failed` names *)
(* the tables that an error left in a transaction or dirty.                *)
(***************************************************************************)
Accesses(c, k) == thread[c] = "access" /\ kind[c] = k /\ ~poisoned

Insert(c) ==
  /\ Accesses(c, "insert")
  /\ \E t \in Tables :
       /\ dirty' = IF t \in pagerTxn THEN dirty \cup {t} ELSE dirty \ {t}
       /\ failed' = IF t \in pagerTxn THEN failed ELSE failed \ {t}
  /\ Goto(c, "write")
  /\ UNCHANGED <<wire, statement, session, poisoned, pagerTxn, alive, counters>>

\* The tree is at the page limit after some of its pages have changed, or the flush
\* fails (it clears the flags of the pages one by one, so none may be left).
InsertFails(c) ==
  /\ Accesses(c, "insert")
  /\ faults < MaxFaults /\ faults' = faults + 1
  /\ \E t \in Tables :
       \/ /\ dirty' = dirty \cup {t}
          /\ failed' = IF t \in pagerTxn THEN failed ELSE failed \cup {t}
       \/ /\ t \notin pagerTxn
          /\ dirty' = dirty \ {t} /\ failed' = failed \ {t}
  /\ Goto(c, "write")
  /\ UNCHANGED <<wire, statement, session, poisoned, pagerTxn, alive, panics>>

\* A SELECT; an INSERT that is refused before it touches the tree changes as little,
\* and a CREATE TABLE leaves the tables that are open as they are.
Select(c) ==
  /\ Accesses(c, "select") \/ Accesses(c, "insert")
  /\ Goto(c, "write")
  /\ UNCHANGED <<wire, statement, session, poisoned, storage, alive, counters>>

Begin(c) ==
  /\ Accesses(c, "begin") /\ pagerTxn = {}
  /\ pagerTxn' = Tables
  /\ in_transaction' = [in_transaction EXCEPT ![c] = TRUE]
  /\ Goto(c, "write")
  /\ UNCHANGED <<wire, statement, txn_owner, poisoned, dirty, failed, alive, counters>>

\* BEGIN meets a pager that is in a transaction already, perhaps after it has begun
\* others: the session gives the gate back and answers the error.
BeginFails(c) ==
  /\ Accesses(c, "begin") /\ pagerTxn # {}
  /\ \E begun \in SUBSET (Tables \ pagerTxn) :
       /\ pagerTxn' = pagerTxn \cup begun
       /\ failed' = failed \cup begun
  /\ Goto(c, "release")
  /\ UNCHANGED <<wire, statement, session, poisoned, dirty, alive, counters>>

\* All tables are committed, or rolled back: nothing is left in the cache.
EndsAllTables == pagerTxn' = {} /\ dirty' = {} /\ failed' = {}

\* The loop over the tables stops at table t, with the tables in rest still to do.  A
\* commit that fails leaves t in its transaction, with or without dirty pages; a
\* rollback has discarded them, and may have left the transaction.
StopsAt(t, rest, isCommit) ==
  /\ faults < MaxFaults /\ faults' = faults + 1
  /\ \/ dirty' = dirty \cap rest
     \/ isCommit /\ dirty' = dirty \cap (rest \cup {t})
  /\ \/ pagerTxn' = pagerTxn \cap (rest \cup {t})
     \/ ~isCommit /\ pagerTxn' = pagerTxn \cap rest
  /\ failed' = dirty' \cup pagerTxn'

\* Session::commit and rollback: in_transaction is cleared whatever the storage
\* returns.
EndTransaction(c, l) ==
  /\ in_transaction' = [in_transaction EXCEPT ![c] = FALSE]
  /\ Goto(c, l)

CommitOrRollback(c) ==
  /\ Accesses(c, "commit") \/ Accesses(c, "rollback")
  /\ EndsAllTables
  /\ EndTransaction(c, "release")
  /\ UNCHANGED <<wire, statement, txn_owner, poisoned, alive, counters>>

CommitOrRollbackFails(c) ==
  /\ Accesses(c, "commit") \/ Accesses(c, "rollback")
  /\ \E t \in Tables : \E rest \in SUBSET (Tables \ {t}) : StopsAt(t, rest, kind[c] = "commit")
  /\ EndTransaction(c, "release")
  /\ UNCHANGED <<wire, statement, txn_owner, poisoned, alive, panics>>

\* Mutation of Drop: the gate is given back without a rollback.
DropWithoutRollback(c) ==
  /\ thread[c] \in {"drop", "unwind"} /\ ~poisoned
  /\ EndTransaction(c, "dropped")
  /\ UNCHANGED <<wire, statement, txn_owner, poisoned, storage, alive, counters>>

\* Mutation of Drop: the rollback is done and the gate kept.
DropKeepsGate(c) ==
  /\ thread[c] \in {"drop", "unwind"} /\ ~poisoned
  /\ EndsAllTables
  /\ EndTransaction(c, "gone")
  /\ UNCHANGED <<wire, statement, txn_owner, poisoned, alive, counters>>

\* Drop of a session in a transaction: rollback, then the gate.
Drop(c) ==
  /\ thread[c] \in {"drop", "unwind"} /\ ~poisoned
  /\ EndsAllTables
  /\ EndTransaction(c, "dropped")
  /\ UNCHANGED <<wire, statement, txn_owner, poisoned, alive, counters>>

\* Drop ignores the error of its rollback.
DropRollbackFails(c) ==
  /\ thread[c] \in {"drop", "unwind"} /\ ~poisoned
  /\ \E t \in Tables : \E rest \in SUBSET (Tables \ {t}) : StopsAt(t, rest, FALSE)
  /\ EndTransaction(c, "dropped")
  /\ UNCHANGED <<wire, statement, txn_owner, poisoned, alive, panics>>

\* The lock is poisoned: Drop panics.  That ends the thread, with the gate held,
\* or, if the thread was unwinding already, the process.
DropPanics(c) ==
  /\ thread[c] \in {"drop", "unwind"} /\ poisoned
  /\ IF thread[c] = "unwind" THEN Abort ELSE alive' = alive /\ Goto(c, "gone")
  /\ UNCHANGED <<wire, statement, session, poisoned, storage, counters>>

-----------------------------------------------------------------------------
Thread(c) ==
  \/ \E k \in Kind : ReadQuery(c, k)
  \/ ReadEof(c) \/ WriteAnswer(c) \/ WriteFails(c)
  \/ PassGate(c) \/ Sleep(c) \/ Release(c)
  \/ Insert(c) \/ InsertFails(c) \/ Select(c) \/ Begin(c) \/ BeginFails(c)
  \/ CommitOrRollback(c) \/ CommitOrRollbackFails(c)
  \/ Drop(c) \/ DropRollbackFails(c) \/ DropPanics(c)
  \/ PanicInParser(c) \/ PanicInStorage(c) \/ PanicOnPoison(c)

Receive(c) == Show(c) \/ Lose(c)

Next == \E c \in Clients : Connect(c) \/ Send(c) \/ Leave(c) \/ Receive(c) \/ Thread(c)

Spec == Init /\ [][Next]_vars

(***************************************************************************)
(* Fairness: a thread that can run is scheduled, and a client that waits   *)
(* reads what arrives.  No client has to send, or to leave.                *)
(***************************************************************************)
FairSpec == Spec /\ \A c \in Clients : WF_vars(Thread(c)) /\ WF_vars(Receive(c))

-----------------------------------------------------------------------------
TypeOK ==
  /\ client \in [Clients -> {"new", "idle", "waiting", "closed"}]
  /\ sent \in [Clients -> 0 .. MaxQueries] /\ shown \in [Clients -> 0 .. MaxQueries]
  /\ \A c \in Clients : inbox[c] \in {<<>>, <<sent[c]>>} /\ outbox[c] \in {<<>>, <<sent[c]>>}
  /\ thread \in [Clients -> {"none", "read", "gate", "asleep", "access", "release", "write",
                             "drop", "unwind", "dropped", "gone"}]
  /\ kind \in [Clients -> Kind \cup {"none"}] /\ query \in [Clients -> 0 .. MaxQueries]
  /\ in_transaction \in [Clients -> BOOLEAN]
  /\ txn_owner \in Clients \cup {NoOne}
  /\ poisoned \in BOOLEAN
  /\ pagerTxn \subseteq Tables /\ dirty \subseteq Tables /\ failed \subseteq Tables
  /\ alive \in BOOLEAN /\ panics \in 0 .. MaxPanics /\ faults \in 0 .. MaxFaults

\* A client that waits waits for something: its query is unread, is the one being
\* executed, or has its answer on the way, in exactly one of these places, or its
\* thread is at an end and the connection with it.
QueryIsSomewhere ==
  \A c \in Clients :
    client[c] = "waiting" =>
      /\ shown[c] = sent[c] - 1
      /\ \/ thread[c] \in {"drop", "unwind", "dropped", "gone"}
         \/ /\ thread[c] = "read"
            /\ \/ inbox[c] = <<sent[c]>> /\ outbox[c] = <<>>
               \/ inbox[c] = <<>> /\ outbox[c] = <<sent[c]>>
         \/ /\ thread[c] # "read" /\ query[c] = sent[c]
            /\ inbox[c] = <<>> /\ outbox[c] = <<>>

\* Whatever ends a session (its client leaves, a write fails, the parser panics),
\* it takes its hold on the gate with it.  Only a poisoned lock strands the gate.
StrandedOnlyByPoison ==
  \A c \in Clients : txn_owner = c /\ thread[c] = "gone" => poisoned

\* Pages that are not in the file, and pagers in a transaction, belong to a session
\* that will end the transaction, but for the tables that a statement that failed has
\* left so: no client leaves, and no panic outside the storage ends a thread, so
\* that uncommitted rows stay in the cache for the next flush to write.
UncommittedHasOwner ==
  ~poisoned =>
    \A t \in (dirty \cup pagerTxn) \ failed :
      \E c \in Clients : txn_owner = c /\ in_transaction[c] /\ thread[c] # "gone"

\* "A client disconnecting mid-transaction doesn't leak state" (PROGRESS.md): the
\* gate is free of a client that has gone, even one that went while its BEGIN
\* was waiting, as long as no storage panic has poisoned the lock.
DisconnectReleasesGate ==
  \A c \in Clients :
    (client[c] = "closed" /\ txn_owner = c) ~> (txn_owner # c \/ poisoned)

\* Its owner's thread has ended, and nobody will give the gate back.
GateIsStranded == \E c \in Clients : txn_owner = c /\ thread[c] = "gone"

\* Once every live session is out of its transaction, every query is answered or its
\* client learns that the connection is lost, after any panics, failures and
\* disconnections.  Only a thread that sleeps behind a stranded gate never wakes: a
\* BEGIN that has claimed the gate panics on the poisoned lock, or a session in a
\* transaction is dropped there, and StrandedOnlyByPoison says that nothing else
\* does this.
EveryQueryEnds ==
  <>[](\A c \in Clients : in_transaction[c] => thread[c] = "gone") =>
    \A c \in Clients :
      [](client[c] = "waiting" =>
           <>(client[c] # "waiting" \/ (thread[c] = "asleep" /\ GateIsStranded)))
=============================================================================
