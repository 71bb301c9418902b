---------------------------- MODULE ServerProofs ----------------------------
(***************************************************************************)
(* Proofs about Server, for any sets of clients and tables and any number  *)
(* of queries, panics and faults: no query is lost or answered twice, no   *)
(* session leaves its hold on the gate behind, and no table but those that *)
(* a failed statement left so has uncommitted pages without an owner,      *)
(* whoever disconnects and whatever panics, until the lock is poisoned.    *)
(***************************************************************************)
EXTENDS Server, TLAPS

-----------------------------------------------------------------------------
(***************************************************************************)
(* The inductive invariant.                                                *)
(***************************************************************************)
\* The thread is inside dispatch, or writes what dispatch returned.
Busy(c) == thread[c] \in {"gate", "asleep", "access", "release", "write"}

\* The wire of one client.  Its query is in one place at a time, and while the
\* thread is busy with it, on neither side of the socket; a client that does not
\* wait has seen the answer to all that it sent.
WireOK(c) ==
  /\ inbox[c] = <<>> \/ outbox[c] = <<>>
  /\ Busy(c) => inbox[c] = <<>> /\ outbox[c] = <<>> /\ query[c] = sent[c]
  /\ thread[c] = "none" => client[c] = "new"
  /\ client[c] = "new" =>
       /\ thread[c] \in {"none", "gone"} /\ inbox[c] = <<>> /\ outbox[c] = <<>>
       /\ shown[c] = sent[c]
  /\ client[c] = "idle" =>
       /\ thread[c] \in {"read", "gone"} /\ inbox[c] = <<>> /\ outbox[c] = <<>>
       /\ shown[c] = sent[c]
  /\ client[c] = "waiting" =>
       /\ shown[c] = sent[c] - 1
       /\ thread[c] = "read" => inbox[c] # <<>> \/ outbox[c] # <<>>
       /\ thread[c] \in {"drop", "unwind", "dropped"} => outbox[c] = <<>>

\* What the position of a thread says about its session.
SessionOK(c) ==
  /\ thread[c] \in {"gate", "asleep"} => kind[c] \in {"begin", "insert", "select"}
  /\ Busy(c) => kind[c] # "none"
  /\ thread[c] \in {"gate", "asleep", "access"} /\ kind[c] = "begin" => ~in_transaction[c]
  /\ thread[c] = "access" /\ kind[c] = "begin" => txn_owner = c
  /\ thread[c] = "access" /\ kind[c] \in {"commit", "rollback"} => in_transaction[c]
  /\ thread[c] \in {"drop", "unwind"} => in_transaction[c]
  /\ thread[c] \in {"release", "dropped"} => ~in_transaction[c] /\ txn_owner = c
  /\ in_transaction[c] => txn_owner = c
  /\ txn_owner = c /\ ~poisoned =>
       \/ in_transaction[c] /\ thread[c] \notin {"none", "gone"}
       \/ thread[c] \in {"release", "dropped"}
       \/ thread[c] = "access" /\ kind[c] = "begin"

\* As long as the lock is not poisoned, a pager that no failed statement has left
\* behind is in a transaction, or keeps pages out of the file, only while some
\* session is in a transaction.
StorageOK ==
  ~poisoned /\ (dirty \cup pagerTxn) \ failed # {} =>
    \E c \in Clients : in_transaction[c]

ServerInv ==
  /\ TypeOK
  /\ inbox \in [Clients -> Seq(Nat)] /\ outbox \in [Clients -> Seq(Nat)]
  /\ \A c \in Clients : WireOK(c)
  /\ \A c \in Clients : SessionOK(c)
  /\ StorageOK

-----------------------------------------------------------------------------
USE DEF Goto, Accesses

Position == {"none", "read", "gate", "asleep", "access", "release", "write",
             "drop", "unwind", "dropped", "gone"}

\* The statements, as they end under the storage lock, and Drop.
StorageAction(c) ==
  \/ Insert(c) \/ InsertFails(c) \/ Select(c) \/ Begin(c) \/ BeginFails(c)
  \/ CommitOrRollback(c) \/ CommitOrRollbackFails(c) \/ Drop(c) \/ DropRollbackFails(c)

\* They move no thread but their own.
LEMMA StorageThread ==
  ASSUME NEW c \in Clients, StorageAction(c)
  PROVE  \E l \in {"write", "release", "dropped"} : thread' = [thread EXCEPT ![c] = l]
<1>1. CASE Insert(c)
  BY <1>1 DEF Insert
<1>2. CASE InsertFails(c)
  BY <1>2 DEF InsertFails
<1>3. CASE Select(c)
  BY <1>3 DEF Select
<1>4. CASE Begin(c)
  BY <1>4 DEF Begin
<1>5. CASE BeginFails(c)
  BY <1>5 DEF BeginFails
<1>6. CASE CommitOrRollback(c) \/ CommitOrRollbackFails(c)
  BY <1>6 DEF CommitOrRollback, CommitOrRollbackFails, EndTransaction
<1>7. CASE Drop(c) \/ DropRollbackFails(c)
  BY <1>7 DEF Drop, DropRollbackFails, EndTransaction
<1> QED
  BY <1>1, <1>2, <1>3, <1>4, <1>5, <1>6, <1>7 DEF StorageAction

\* The statements go on from "access", and Drop from the end of the session.
LEMMA StorageFrom ==
  ASSUME NEW c \in Clients, StorageAction(c),
         NEW l \in {"write", "release", "dropped"}, thread' = [thread EXCEPT ![c] = l],
         thread \in [Clients -> Position]
  PROVE  \/ thread[c] = "access" /\ l \in {"write", "release"}
         \/ thread[c] \in {"drop", "unwind"} /\ l = "dropped"
<1>1. CASE Insert(c) \/ InsertFails(c)
  BY <1>1 DEF Insert, InsertFails
<1>2. CASE Select(c) \/ Begin(c) \/ BeginFails(c)
  BY <1>2 DEF Select, Begin, BeginFails
<1>3. CASE CommitOrRollback(c) \/ CommitOrRollbackFails(c)
  BY <1>3 DEF CommitOrRollback, CommitOrRollbackFails, EndTransaction
<1>4. CASE Drop(c) \/ DropRollbackFails(c)
  BY <1>4 DEF Drop, DropRollbackFails, EndTransaction
<1> QED
  BY <1>1, <1>2, <1>3, <1>4 DEF StorageAction

\* They leave the wire, the statement and the lock as they are.
LEMMA StorageFrame ==
  ASSUME NEW c \in Clients, StorageAction(c)
  PROVE  UNCHANGED <<wire, statement, txn_owner, poisoned, alive, panics>>
BY DEF StorageAction, Insert, InsertFails, Select, Begin, BeginFails, CommitOrRollback,
       CommitOrRollbackFails, Drop, DropRollbackFails, session, counters

\* A socket holds at most one message: what sending to an empty one and reading
\* from one that is not empty give.
LEMMA OneMessage ==
  ASSUME NEW n \in Nat
  PROVE  /\ <<n>> \in Seq(Nat) /\ <<n>> # <<>> /\ Len(<<n>>) = 1
         /\ Head(<<n>>) = n /\ Tail(<<n>>) = <<>>
         /\ Append(<<>>, n) = <<n>>
         /\ <<>> \in Seq(Nat) /\ Len(<<>>) = 0
<1>1. <<n>> \in Seq(Nat) /\ <<n>> # <<>> /\ Len(<<n>>) = 1
  OBVIOUS
<1>2. Head(<<n>>) = n /\ Append(<<>>, n) = <<n>>
  OBVIOUS
<1>3. Tail(<<n>>) = <<>>
  OBVIOUS
<1>4. <<>> \in Seq(Nat) /\ Len(<<>>) = 0
  OBVIOUS
<1> QED
  BY <1>1, <1>2, <1>3, <1>4

\* The inductive invariant holds before the first connection.
LEMMA InitServer == Init => ServerInv
<1> SUFFICES ASSUME Init PROVE ServerInv
  OBVIOUS
<1>1. TypeOK
  <2>1. in_transaction \in [Clients -> BOOLEAN]
    BY DEF Init
  <2>2. poisoned \in BOOLEAN /\ alive \in BOOLEAN
    BY DEF Init
  <2>3. /\ sent \in [Clients -> 0 .. MaxQueries] /\ shown \in [Clients -> 0 .. MaxQueries]
        /\ query \in [Clients -> 0 .. MaxQueries]
        /\ panics \in 0 .. MaxPanics /\ faults \in 0 .. MaxFaults
    BY ServerAssumption DEF Init
  <2>4. /\ client \in [Clients -> {"new", "idle", "waiting", "closed"}]
        /\ \A c \in Clients : inbox[c] \in {<<>>, <<sent[c]>>} /\ outbox[c] \in {<<>>, <<sent[c]>>}
        /\ thread \in [Clients -> {"none", "read", "gate", "asleep", "access", "release",
                                  "write", "drop", "unwind", "dropped", "gone"}]
        /\ kind \in [Clients -> Kind \cup {"none"}]
        /\ txn_owner \in Clients \cup {NoOne}
        /\ pagerTxn \subseteq Tables /\ dirty \subseteq Tables /\ failed \subseteq Tables
    BY DEF Init
  <2> QED
    BY <2>1, <2>2, <2>3, <2>4 DEF TypeOK
<1>2. inbox \in [Clients -> Seq(Nat)] /\ outbox \in [Clients -> Seq(Nat)]
  <2>1. <<>> \in Seq(Nat)
    OBVIOUS
  <2> QED
    BY <2>1 DEF Init
<1>3. \A c \in Clients : WireOK(c) /\ SessionOK(c)
  BY ServerAssumption DEF Init, WireOK, SessionOK, Busy
<1>4. StorageOK
  BY DEF Init, StorageOK
<1> QED
  BY <1>1, <1>2, <1>3, <1>4 DEF ServerInv

-----------------------------------------------------------------------------
(***************************************************************************)
(* Types.                                                                  *)
(***************************************************************************)
\* Every step leaves the threads at known positions.
LEMMA ThreadStep == ServerInv /\ [Next]_vars => thread' \in [Clients -> Position]
<1> SUFFICES ASSUME ServerInv, [Next]_vars PROVE thread' \in [Clients -> Position]
  OBVIOUS
<1> USE DEF ServerInv, TypeOK, Position
<1>0. CASE UNCHANGED vars
  BY <1>0 DEF vars
<1>1. ASSUME NEW c \in Clients,
             Connect(c) \/ Send(c) \/ Leave(c) \/ Show(c) \/ Lose(c)
      PROVE  thread' \in [Clients -> Position]
  BY <1>1 DEF Connect, Send, Leave, Show, Lose
<1>2. ASSUME NEW c \in Clients, NEW k \in Kind, ReadQuery(c, k)
      PROVE  thread' \in [Clients -> Position]
  BY <1>2 DEF ReadQuery
<1>3. ASSUME NEW c \in Clients, ReadEof(c) \/ WriteAnswer(c) \/ WriteFails(c)
      PROVE  thread' \in [Clients -> Position]
  BY <1>3 DEF ReadEof, WriteAnswer, WriteFails, End
<1>4. ASSUME NEW c \in Clients, PassGate(c) \/ Sleep(c) \/ Release(c)
      PROVE  thread' \in [Clients -> Position]
  <2>1. CASE PassGate(c) \/ Sleep(c)
    BY <2>1 DEF PassGate, Sleep
  <2>2. CASE Release(c)
    BY <2>2 DEF Release, Notify
  <2> QED
    BY <1>4, <2>1, <2>2
<1>5. ASSUME NEW c \in Clients, StorageAction(c) PROVE thread' \in [Clients -> Position]
  <2>1. PICK l \in {"write", "release", "dropped"} : thread' = [thread EXCEPT ![c] = l]
    BY <1>5, StorageThread
  <2> QED
    BY <2>1
<1>6. ASSUME NEW c \in Clients,
             DropPanics(c) \/ PanicInParser(c) \/ PanicInStorage(c) \/ PanicOnPoison(c)
      PROVE  thread' \in [Clients -> Position]
  BY <1>6 DEF DropPanics, PanicInParser, PanicInStorage, PanicOnPoison, Abort, Unwind
<1> QED
  BY <1>0, <1>1, <1>2, <1>3, <1>4, <1>5, <1>6 DEF Next, Thread, Receive, StorageAction

\* Every step leaves the two ends of a socket with at most the client's last query
\* to read.
SocketsOK ==
  /\ inbox \in [Clients -> Seq(Nat)] /\ outbox \in [Clients -> Seq(Nat)]
  /\ client \in [Clients -> {"new", "idle", "waiting", "closed"}]
  /\ sent \in [Clients -> 0 .. MaxQueries] /\ shown \in [Clients -> 0 .. MaxQueries]
  /\ \A c \in Clients : inbox[c] \in {<<>>, <<sent[c]>>} /\ outbox[c] \in {<<>>, <<sent[c]>>}

LEMMA SocketsStep == ServerInv /\ [Next]_vars => SocketsOK'
<1> SUFFICES ASSUME ServerInv, [Next]_vars PROVE SocketsOK'
  OBVIOUS
<1> USE ServerAssumption DEF SocketsOK
<1>a. SocketsOK
  BY DEF ServerInv, TypeOK
<1>0. ASSUME UNCHANGED wire PROVE SocketsOK'
  BY <1>0, <1>a DEF wire
<1>1. ASSUME NEW c \in Clients, Connect(c) \/ Leave(c) \/ Lose(c) PROVE SocketsOK'
  BY <1>1, <1>a DEF Connect, Leave, Lose
<1>2. ASSUME NEW c \in Clients, Send(c) PROVE SocketsOK'
  <2>1. inbox[c] = <<>> /\ outbox[c] = <<>>
    BY <1>2 DEF Send, ServerInv, WireOK
  <2>2. sent[c] + 1 \in 0 .. MaxQueries /\ sent[c] + 1 \in Nat
    BY <1>2, <1>a DEF Send
  <2>3. /\ sent' = [sent EXCEPT ![c] = sent[c] + 1]
        /\ inbox' = [inbox EXCEPT ![c] = <<sent[c] + 1>>]
        /\ client' = [client EXCEPT ![c] = "waiting"] /\ UNCHANGED <<shown, outbox>>
    BY <1>2, <1>a, <2>1, <2>2, OneMessage DEF Send
  <2> QED
    BY <1>a, <2>1, <2>2, <2>3, OneMessage
<1>3. ASSUME NEW c \in Clients, Show(c) PROVE SocketsOK'
  <2>1. outbox[c] = <<sent[c]>> /\ sent[c] \in Nat
    BY <1>3, <1>a DEF Show
  <2>2. /\ shown' = [shown EXCEPT ![c] = sent[c]]
        /\ outbox' = [outbox EXCEPT ![c] = <<>>]
        /\ client' = [client EXCEPT ![c] = "idle"] /\ UNCHANGED <<sent, inbox>>
    BY <1>3, <1>a, <2>1, OneMessage DEF Show
  <2> QED
    BY <1>a, <2>2, OneMessage
<1>4. ASSUME NEW c \in Clients, PanicInParser(c) \/ \E k \in Kind : ReadQuery(c, k)
      PROVE  SocketsOK'
  <2>1. inbox[c] = <<sent[c]>> /\ sent[c] \in Nat
    BY <1>4, <1>a DEF PanicInParser, ReadQuery
  <2>2. /\ inbox' = [inbox EXCEPT ![c] = <<>>]
        /\ UNCHANGED <<client, sent, shown, outbox>>
    BY <1>4, <1>a, <2>1, OneMessage DEF PanicInParser, ReadQuery
  <2> QED
    BY <1>a, <2>2, OneMessage
<1>5. ASSUME NEW c \in Clients, WriteAnswer(c) PROVE SocketsOK'
  <2>1. outbox[c] = <<>> /\ query[c] = sent[c] /\ sent[c] \in Nat
    BY <1>5, <1>a DEF WriteAnswer, ServerInv, WireOK, Busy
  <2>2. /\ outbox' = [outbox EXCEPT ![c] = <<sent[c]>>]
        /\ UNCHANGED <<client, sent, shown, inbox>>
    BY <1>5, <1>a, <2>1, OneMessage DEF WriteAnswer
  <2> QED
    BY <1>a, <2>1, <2>2, OneMessage
<1>6. ASSUME NEW c \in Clients,
             \/ ReadEof(c) \/ WriteFails(c) \/ PassGate(c) \/ Sleep(c) \/ Release(c)
             \/ StorageAction(c) \/ DropPanics(c) \/ PanicInStorage(c) \/ PanicOnPoison(c)
      PROVE  UNCHANGED wire
  BY <1>6, StorageFrame DEF ReadEof, WriteFails, PassGate, Sleep, Release, DropPanics,
                            PanicInStorage, PanicOnPoison
<1> QED
  BY <1>0, <1>1, <1>2, <1>3, <1>4, <1>5, <1>6 DEF Next, Thread, Receive, StorageAction, vars

\* Every step keeps the types of the statement, the session and the storage.
SessionTypes ==
  /\ kind \in [Clients -> Kind \cup {"none"}] /\ query \in [Clients -> 0 .. MaxQueries]
  /\ in_transaction \in [Clients -> BOOLEAN]
  /\ txn_owner \in Clients \cup {NoOne}
  /\ poisoned \in BOOLEAN
  /\ pagerTxn \subseteq Tables /\ dirty \subseteq Tables /\ failed \subseteq Tables
  /\ alive \in BOOLEAN /\ panics \in 0 .. MaxPanics /\ faults \in 0 .. MaxFaults

\* The statements and Drop keep the types of the storage.
LEMMA StorageTypesStep ==
  ASSUME ServerInv, NEW c \in Clients, StorageAction(c)
  PROVE  /\ pagerTxn' \subseteq Tables /\ dirty' \subseteq Tables /\ failed' \subseteq Tables
         /\ in_transaction' \in [Clients -> BOOLEAN] /\ faults' \in 0 .. MaxFaults
<1>a. /\ pagerTxn \subseteq Tables /\ dirty \subseteq Tables /\ failed \subseteq Tables
      /\ in_transaction \in [Clients -> BOOLEAN] /\ faults \in 0 .. MaxFaults
  BY DEF ServerInv, TypeOK
<1> USE ServerAssumption
<1>1. CASE Insert(c)
  BY <1>1, <1>a DEF Insert, session, counters
<1>2. CASE InsertFails(c)
  BY <1>2, <1>a DEF InsertFails, session
<1>3. CASE Select(c)
  BY <1>3, <1>a DEF Select, session, storage, counters
<1>4. CASE Begin(c)
  <2>1. /\ in_transaction' = [in_transaction EXCEPT ![c] = TRUE]
        /\ pagerTxn' = Tables /\ UNCHANGED <<dirty, failed, faults>>
    BY <1>4 DEF Begin, counters
  <2> QED
    BY <1>a, <2>1
<1>5. CASE BeginFails(c)
  BY <1>5, <1>a DEF BeginFails, session, counters
<1>6. CASE CommitOrRollback(c) \/ Drop(c)
  <2>1. /\ in_transaction' = [in_transaction EXCEPT ![c] = FALSE]
        /\ pagerTxn' = {} /\ dirty' = {} /\ failed' = {} /\ UNCHANGED faults
    BY <1>6 DEF CommitOrRollback, Drop, EndTransaction, EndsAllTables, counters
  <2> QED
    BY <1>a, <2>1
<1>7. CASE CommitOrRollbackFails(c) \/ DropRollbackFails(c)
  <2>1. in_transaction' = [in_transaction EXCEPT ![c] = FALSE]
    BY <1>7 DEF CommitOrRollbackFails, DropRollbackFails, EndTransaction
  <2>2. PICK t \in Tables, rest \in SUBSET Tables, b \in BOOLEAN : StopsAt(t, rest, b)
    <3>1. CASE CommitOrRollbackFails(c)
      BY <3>1 DEF CommitOrRollbackFails
    <3>2. CASE DropRollbackFails(c)
      BY <3>2 DEF DropRollbackFails
    <3> QED
      BY <1>7, <3>1, <3>2
  <2>3. pagerTxn' \subseteq Tables /\ dirty' \subseteq Tables /\ failed' = dirty' \cup pagerTxn'
    BY <1>a, <2>2 DEF StopsAt
  <2>4. faults' \in 0 .. MaxFaults
    BY <1>a, <2>2 DEF StopsAt
  <2> QED
    BY <1>a, <2>1, <2>3, <2>4
<1> QED
  BY <1>1, <1>2, <1>3, <1>4, <1>5, <1>6, <1>7 DEF StorageAction

LEMMA SessionTypesStep == ServerInv /\ [Next]_vars => SessionTypes'
<1> SUFFICES ASSUME ServerInv, [Next]_vars PROVE SessionTypes'
  OBVIOUS
<1> USE ServerAssumption DEF SessionTypes
<1>a. SessionTypes
  BY DEF ServerInv, TypeOK
<1>0. ASSUME UNCHANGED <<statement, session, poisoned, storage, alive, counters>>
      PROVE  SessionTypes'
  BY <1>0, <1>a DEF statement, session, storage, counters
<1>1. ASSUME NEW c \in Clients,
             \/ Connect(c) \/ Send(c) \/ Leave(c) \/ Show(c) \/ Lose(c)
             \/ ReadEof(c) \/ WriteFails(c) \/ Sleep(c)
      PROVE  UNCHANGED <<statement, session, poisoned, storage, alive, counters>>
  BY <1>1 DEF Connect, Send, Leave, Show, Lose, ReadEof, WriteFails, Sleep
<1>2. ASSUME NEW c \in Clients, NEW k \in Kind, ReadQuery(c, k) PROVE SessionTypes'
  <2>1. inbox[c] = <<sent[c]>> /\ sent[c] \in 0 .. MaxQueries
    BY <1>2 DEF ReadQuery, ServerInv, TypeOK
  <2>2. /\ kind' = [kind EXCEPT ![c] = k] /\ query' = [query EXCEPT ![c] = sent[c]]
        /\ UNCHANGED <<session, poisoned, storage, alive, counters>>
    BY <1>2, <2>1, OneMessage DEF ReadQuery
  <2> QED
    BY <1>a, <2>1, <2>2 DEF session, storage, counters
<1>3. ASSUME NEW c \in Clients, WriteAnswer(c) PROVE SessionTypes'
  <2>1. /\ kind' = [kind EXCEPT ![c] = "none"] /\ query' = [query EXCEPT ![c] = 0]
        /\ UNCHANGED <<session, poisoned, storage, alive, counters>>
    BY <1>3 DEF WriteAnswer
  <2> QED
    BY <1>a, <2>1 DEF session, storage, counters
<1>4. ASSUME NEW c \in Clients, PassGate(c) \/ Release(c) PROVE SessionTypes'
  BY <1>4, <1>a DEF PassGate, Release, statement, storage, counters
<1>5. ASSUME NEW c \in Clients, StorageAction(c) PROVE SessionTypes'
  BY <1>5, <1>a, StorageTypesStep, StorageFrame DEF statement
<1>6. ASSUME NEW c \in Clients, DropPanics(c) \/ PanicInParser(c) \/ PanicOnPoison(c)
      PROVE  SessionTypes'
  <2>0. alive' \in {alive, FALSE}
    BY <1>6 DEF DropPanics, PanicInParser, PanicOnPoison, Abort, Unwind
  <2>1. alive' \in BOOLEAN /\ panics' \in 0 .. MaxPanics /\ UNCHANGED faults
    <3>1. alive' \in BOOLEAN
      BY <1>a, <2>0
    <3>2. panics' \in 0 .. MaxPanics /\ UNCHANGED faults
      BY <1>6, <1>a DEF DropPanics, PanicInParser, PanicOnPoison, counters
    <3> QED
      BY <3>1, <3>2
  <2>2. UNCHANGED <<statement, session, poisoned, storage>>
    BY <1>6 DEF DropPanics, PanicInParser, PanicOnPoison
  <2> QED
    BY <1>a, <2>1, <2>2 DEF statement, session, storage
<1>7. ASSUME NEW c \in Clients, PanicInStorage(c) PROVE SessionTypes'
  <2>1. alive' \in BOOLEAN
    BY <1>7, <1>a DEF PanicInStorage, Abort, Unwind
  <2>2. panics' \in 0 .. MaxPanics
    BY <1>7, <1>a DEF PanicInStorage
  <2>3. /\ poisoned' = TRUE /\ dirty' \subseteq Tables
        /\ UNCHANGED <<statement, session, pagerTxn, failed, faults>>
    BY <1>7, <1>a DEF PanicInStorage
  <2> QED
    BY <1>a, <2>1, <2>2, <2>3 DEF statement, session
<1> QED
  BY <1>0, <1>1, <1>2, <1>3, <1>4, <1>5, <1>6, <1>7
     DEF Next, Thread, Receive, StorageAction, vars

LEMMA TypeStep == ServerInv /\ [Next]_vars => TypeOK'
  BY ThreadStep, SocketsStep, SessionTypesStep DEF TypeOK, Position, SocketsOK, SessionTypes

-----------------------------------------------------------------------------
(***************************************************************************)
(* The wire.                                                               *)
(***************************************************************************)
\* Every step keeps the query of every client in one place.
LEMMA WireStep == ServerInv /\ [Next]_vars => \A d \in Clients : WireOK(d)'
<1> SUFFICES ASSUME ServerInv, [Next]_vars, NEW d \in Clients PROVE WireOK(d)'
  OBVIOUS
<1>a. /\ SocketsOK /\ thread \in [Clients -> Position] /\ WireOK(d)
      /\ sent[d] \in Nat /\ shown[d] \in Nat
      /\ query \in [Clients -> 0 .. MaxQueries]
  BY ServerAssumption DEF ServerInv, TypeOK, SocketsOK, Position
<1>b. SocketsOK'
  BY SocketsStep
<1> USE DEF SocketsOK, Position
<1>0. CASE UNCHANGED vars
  BY <1>0, <1>a DEF vars, wire, statement, WireOK, Busy
<1>1. ASSUME NEW c \in Clients, Connect(c) PROVE WireOK(d)'
  BY <1>1, <1>a DEF Connect, statement, WireOK, Busy
<1>2. ASSUME NEW c \in Clients, Send(c) PROVE WireOK(d)'
  <2>1. CASE d = c
    <3>1. inbox'[d] # <<>> /\ sent'[d] = sent[d] + 1 /\ client'[d] = "waiting"
      <4>1. inbox[d] = <<>> /\ sent[d] + 1 \in Nat
        BY <1>2, <1>a, <2>1 DEF Send, WireOK
      <4> QED
        BY <1>2, <1>a, <2>1, <4>1, OneMessage DEF Send
    <3>2. UNCHANGED <<shown, outbox, thread>> /\ thread[d] \in {"read", "gone"}
      BY <1>2, <1>a, <2>1 DEF Send, WireOK
    <3>3. outbox'[d] = <<>> /\ shown'[d] = sent'[d] - 1
      BY <1>2, <1>a, <2>1, <3>1, <3>2 DEF Send, WireOK
    <3>4. thread'[d] \in {"read", "gone"}
      BY <3>2
    <3> QED
      BY <3>1, <3>3, <3>4 DEF WireOK, Busy
  <2>2. CASE d # c
    BY <1>2, <1>a, <2>2 DEF Send, statement, WireOK, Busy
  <2> QED
    BY <2>1, <2>2
<1>3. ASSUME NEW c \in Clients, Show(c) PROVE WireOK(d)'
  <2>1. CASE d = c
    <3>1. outbox[d] = <<sent[d]>>
      BY <1>3, <1>a, <2>1 DEF Show
    <3>2. outbox'[d] = <<>> /\ shown'[d] = sent[d] /\ client'[d] = "idle"
      BY <1>3, <1>a, <2>1, <3>1, OneMessage DEF Show
    <3> QED
      BY <1>3, <1>a, <2>1, <3>1, <3>2 DEF Show, statement, WireOK, Busy
  <2>2. CASE d # c
    BY <1>3, <1>a, <2>2 DEF Show, statement, WireOK, Busy
  <2> QED
    BY <2>1, <2>2
<1>4. ASSUME NEW c \in Clients, Leave(c) \/ Lose(c) PROVE WireOK(d)'
  BY <1>4, <1>a DEF Leave, Lose, statement, WireOK, Busy
<1>5. ASSUME NEW c \in Clients, PanicInParser(c) \/ \E k \in Kind : ReadQuery(c, k)
      PROVE  WireOK(d)'
  <2>1. CASE d = c
    <3>1. inbox[d] = <<sent[d]>> /\ thread[d] = "read" /\ outbox[d] = <<>>
      BY <1>5, <1>a, <2>1 DEF PanicInParser, ReadQuery, WireOK
    <3>2. inbox'[d] = <<>> /\ UNCHANGED <<client, sent, shown, outbox>>
      BY <1>5, <1>a, <2>1, <3>1, OneMessage DEF PanicInParser, ReadQuery
    <3>3. \/ thread'[d] \in {"unwind", "gone"}
          \/ thread'[d] \in {"write", "access", "gate"} /\ query'[d] = sent[d]
      <4>1. CASE PanicInParser(c)
        BY <1>a, <2>1, <4>1 DEF PanicInParser, Unwind
      <4>2. ASSUME NEW k \in Kind, ReadQuery(c, k)
            PROVE  thread'[d] \in {"write", "access", "gate"} /\ query'[d] = sent[d]
        <5>1. query' = [query EXCEPT ![d] = sent[d]]
          BY <2>1, <3>1, <4>2, <1>a, OneMessage DEF ReadQuery
        <5>2. thread'[d] \in {"write", "access", "gate"}
          BY <1>a, <2>1, <4>2 DEF ReadQuery
        <5> QED
          BY <1>a, <5>1, <5>2
      <4> QED
        BY <1>5, <4>1, <4>2
    <3> QED
      BY <1>a, <3>1, <3>2, <3>3 DEF WireOK, Busy
  <2>2. CASE d # c
    <3>1. /\ inbox'[d] = inbox[d] /\ thread'[d] = thread[d] /\ query'[d] = query[d]
          /\ UNCHANGED <<client, sent, shown, outbox>>
      BY <1>5, <1>a, <2>2 DEF PanicInParser, ReadQuery, Unwind, statement
    <3> QED
      BY <1>a, <3>1 DEF WireOK, Busy
  <2> QED
    BY <2>1, <2>2
<1>6. ASSUME NEW c \in Clients, WriteAnswer(c) PROVE WireOK(d)'
  <2>1. CASE d = c
    <3>1. outbox[d] = <<>> /\ inbox[d] = <<>> /\ thread[d] = "write" /\ query[d] = sent[d]
      BY <1>6, <1>a, <2>1 DEF WriteAnswer, WireOK, Busy
    <3>2. outbox'[d] # <<>> /\ thread'[d] = "read" /\ UNCHANGED <<client, sent, shown, inbox>>
      BY <1>6, <1>a, <2>1, <3>1, OneMessage DEF WriteAnswer
    <3> QED
      BY <1>a, <3>1, <3>2 DEF WireOK, Busy
  <2>2. CASE d # c
    BY <1>6, <1>a, <2>2 DEF WriteAnswer, WireOK, Busy
  <2> QED
    BY <2>1, <2>2
<1>7. ASSUME NEW c \in Clients,
             \/ ReadEof(c) \/ WriteFails(c) \/ PassGate(c) \/ Sleep(c) \/ Release(c)
             \/ StorageAction(c) \/ DropPanics(c) \/ PanicInStorage(c) \/ PanicOnPoison(c)
      PROVE  WireOK(d)'
  <2>1. UNCHANGED <<wire, query>>
    BY <1>7, StorageFrame DEF ReadEof, WriteFails, PassGate, Sleep, Release, DropPanics,
                              PanicInStorage, PanicOnPoison, statement
  <2>2. \/ thread'[d] \in {thread[d], "gone"}
        \/ Busy(d) /\ Busy(d)'
        \/ client[d] = "closed" /\ thread'[d] = "drop"
        \/ thread[d] \in {"drop", "unwind"} /\ thread'[d] = "dropped"
    <3>1. CASE ReadEof(c) \/ WriteFails(c)
      BY <1>a, <3>1 DEF ReadEof, WriteFails, End
    <3>2. CASE PassGate(c) \/ Sleep(c)
      BY <1>a, <3>2 DEF PassGate, Sleep, Busy
    <3>3. CASE Release(c)
      BY <1>a, <3>3 DEF Release, Notify, Busy
    <3>4. CASE StorageAction(c)
      <4>1. PICK l \in {"write", "release", "dropped"} : thread' = [thread EXCEPT ![c] = l]
        BY <3>4, StorageThread
      <4>2. \/ thread[c] = "access" /\ l \in {"write", "release"}
            \/ thread[c] \in {"drop", "unwind"} /\ l = "dropped"
        BY <1>a, <3>4, <4>1, StorageFrom
      <4> QED
        BY <1>a, <4>1, <4>2 DEF Busy
    <3>8. CASE DropPanics(c)
      BY <1>a, <3>8 DEF DropPanics, Abort
    <3>9. CASE PanicInStorage(c)
      BY <1>a, <3>9 DEF PanicInStorage, Abort, Unwind
    <3>10. CASE PanicOnPoison(c)
      BY <1>a, <3>10 DEF PanicOnPoison, Abort, Unwind
    <3> QED
      BY <1>7, <3>1, <3>2, <3>3, <3>4, <3>8, <3>9, <3>10
  <2> QED
    BY <1>a, <2>1, <2>2 DEF wire, WireOK, Busy
<1> QED
  BY <1>0, <1>1, <1>2, <1>3, <1>4, <1>5, <1>6, <1>7 DEF Next, Thread, Receive, StorageAction

-----------------------------------------------------------------------------
(***************************************************************************)
(* The gate and the storage.                                               *)
(***************************************************************************)
\* Every step keeps what the position of each thread says about its session.
LEMMA SessionStep == ServerInv /\ [Next]_vars => \A d \in Clients : SessionOK(d)'
<1> SUFFICES ASSUME ServerInv, [Next]_vars, NEW d \in Clients PROVE SessionOK(d)'
  OBVIOUS
<1>a. /\ SessionTypes /\ thread \in [Clients -> Position] /\ NoOne \notin Clients
      /\ \A c \in Clients : SessionOK(c)
  BY ServerAssumption DEF ServerInv, TypeOK, SessionTypes, Position
<1>b. \A c \in Clients : client[c] = "new" => thread[c] \in {"none", "gone"}
  BY DEF ServerInv, WireOK
<1> USE DEF SessionTypes, Position, SessionOK, Busy
<1>0. CASE UNCHANGED vars
  BY <1>0, <1>a DEF vars, session, statement
<1>1. ASSUME NEW c \in Clients, Connect(c) PROVE SessionOK(d)'
  <2>1. thread' = [thread EXCEPT ![c] = "read"] /\ UNCHANGED <<kind, session, poisoned>>
    BY <1>1 DEF Connect, statement
  <2>2. thread[c] \in {"none", "gone"}
    BY <1>1, <1>b DEF Connect
  <2> QED
    BY <1>a, <2>1, <2>2 DEF session
<1>2. ASSUME NEW c \in Clients, Send(c) \/ Leave(c) \/ Show(c) \/ Lose(c) PROVE SessionOK(d)'
  <2>1. UNCHANGED <<thread, kind, session, poisoned>>
    BY <1>2 DEF statement, Send, Leave, Show, Lose
  <2> QED
    BY <1>a, <2>1 DEF session
<1>3. ASSUME NEW c \in Clients, NEW k \in Kind, ReadQuery(c, k) PROVE SessionOK(d)'
  <2>1. /\ thread[c] = "read" /\ kind' = [kind EXCEPT ![c] = k]
        /\ thread' = [thread EXCEPT ![c] = IF Refused(c, k) THEN "write"
                                           ELSE IF k \in {"commit", "rollback"} THEN "access"
                                           ELSE "gate"]
        /\ UNCHANGED <<in_transaction, txn_owner, poisoned>>
    BY <1>3 DEF ReadQuery, session
  <2>2. CASE d = c
    BY <1>a, <2>1, <2>2 DEF Refused, Kind
  <2>3. CASE d # c
    BY <1>a, <2>1, <2>3
  <2> QED
    BY <2>2, <2>3
<1>4. ASSUME NEW c \in Clients, ReadEof(c) \/ WriteFails(c) PROVE SessionOK(d)'
  <2>1. /\ thread[c] \in {"read", "write"} /\ UNCHANGED <<kind, in_transaction, txn_owner, poisoned>>
        /\ thread' = [thread EXCEPT ![c] = IF in_transaction[c] THEN "drop" ELSE "gone"]
    BY <1>4 DEF ReadEof, WriteFails, End, session, statement
  <2> QED
    BY <1>a, <2>1
<1>5. ASSUME NEW c \in Clients, WriteAnswer(c) PROVE SessionOK(d)'
  <2>1. /\ thread[c] = "write" /\ kind' = [kind EXCEPT ![c] = "none"]
        /\ thread' = [thread EXCEPT ![c] = "read"]
        /\ UNCHANGED <<in_transaction, txn_owner, poisoned>>
    BY <1>5 DEF WriteAnswer, session
  <2> QED
    BY <1>a, <2>1
<1>6. ASSUME NEW c \in Clients, PassGate(c) PROVE SessionOK(d)'
  BY <1>6, <1>a DEF PassGate, statement
<1>7. ASSUME NEW c \in Clients, Sleep(c) PROVE SessionOK(d)'
  BY <1>7, <1>a DEF Sleep, session, statement
<1>8. ASSUME NEW c \in Clients, Release(c) PROVE SessionOK(d)'
  BY <1>8, <1>a DEF Release, Notify, statement
<1>9. ASSUME NEW c \in Clients, Insert(c) \/ InsertFails(c) \/ Select(c) PROVE SessionOK(d)'
  <2>1. /\ thread[c] = "access" /\ kind[c] \in {"insert", "select"}
        /\ thread' = [thread EXCEPT ![c] = "write"]
        /\ UNCHANGED <<kind, in_transaction, txn_owner, poisoned>>
    BY <1>9 DEF Insert, InsertFails, Select, session, statement
  <2> QED
    BY <1>a, <2>1
<1>10. ASSUME NEW c \in Clients, Begin(c) PROVE SessionOK(d)'
  <2>1. /\ thread[c] = "access" /\ kind[c] = "begin"
        /\ thread' = [thread EXCEPT ![c] = "write"]
        /\ in_transaction' = [in_transaction EXCEPT ![c] = TRUE]
        /\ UNCHANGED <<kind, txn_owner, poisoned>>
    BY <1>10 DEF Begin, statement
  <2> QED
    BY <1>a, <2>1
<1>14. ASSUME NEW c \in Clients, BeginFails(c) PROVE SessionOK(d)'
  <2>1. /\ thread[c] = "access" /\ kind[c] = "begin"
        /\ thread' = [thread EXCEPT ![c] = "release"]
        /\ UNCHANGED <<kind, in_transaction, txn_owner, poisoned>>
    BY <1>14 DEF BeginFails, session, statement
  <2> QED
    BY <1>a, <2>1
<1>11. ASSUME NEW c \in Clients,
              \/ CommitOrRollback(c) \/ CommitOrRollbackFails(c)
              \/ Drop(c) \/ DropRollbackFails(c)
       PROVE  SessionOK(d)'
  <2>1. /\ in_transaction[c] /\ thread[c] # "gone"
        /\ thread' = [thread EXCEPT ![c] = IF thread[c] = "access" THEN "release" ELSE "dropped"]
        /\ in_transaction' = [in_transaction EXCEPT ![c] = FALSE]
        /\ UNCHANGED <<kind, txn_owner, poisoned>>
    BY <1>11, <1>a DEF CommitOrRollback, CommitOrRollbackFails, Drop, DropRollbackFails,
                       EndTransaction, statement
  <2> QED
    BY <1>a, <2>1
<1>12. ASSUME NEW c \in Clients, PanicInParser(c) PROVE SessionOK(d)'
  <2>1. /\ thread[c] = "read" /\ UNCHANGED <<kind, in_transaction, txn_owner, poisoned>>
        /\ thread' = [thread EXCEPT ![c] = IF in_transaction[c] THEN "unwind" ELSE "gone"]
    BY <1>12 DEF PanicInParser, Unwind, session, statement
  <2> QED
    BY <1>a, <2>1
<1>13. ASSUME NEW c \in Clients, DropPanics(c) \/ PanicInStorage(c) \/ PanicOnPoison(c)
       PROVE  SessionOK(d)'
  <2>1. poisoned' = TRUE /\ UNCHANGED <<kind, in_transaction, txn_owner>>
    <3>1. CASE PanicInStorage(c)
      BY <3>1 DEF PanicInStorage, session, statement
    <3>2. CASE DropPanics(c) \/ PanicOnPoison(c)
      BY <1>a, <3>2 DEF DropPanics, PanicOnPoison, session, statement
    <3> QED
      BY <1>13, <3>1, <3>2
  <2>2. thread'[d] \in {thread[d], "gone"}
    BY <1>13, <1>a DEF PanicInStorage, PanicOnPoison, DropPanics, Abort, Unwind
  <2> QED
    BY <1>a, <2>1, <2>2
<1> QED
  BY <1>0, <1>1, <1>2, <1>3, <1>4, <1>5, <1>6, <1>7, <1>8, <1>9, <1>10, <1>11, <1>12, <1>13, <1>14
     DEF Next, Thread, Receive, StorageAction

\* Every step leaves the pagers in a transaction, and pages out of the file, only if
\* some session is in a transaction or a statement has failed on them.
LEMMA StorageStep == ServerInv /\ [Next]_vars => StorageOK'
<1> SUFFICES ASSUME ServerInv, [Next]_vars PROVE StorageOK'
  OBVIOUS
<1>a. in_transaction \in [Clients -> BOOLEAN] /\ StorageOK
  BY DEF ServerInv, TypeOK
<1> USE DEF StorageOK
<1>0. ASSUME UNCHANGED <<in_transaction, poisoned, storage>> PROVE StorageOK'
  BY <1>0, <1>a DEF storage
<1>1. ASSUME NEW c \in Clients,
             \/ Connect(c) \/ Send(c) \/ Leave(c) \/ Show(c) \/ Lose(c)
             \/ (\E k \in Kind : ReadQuery(c, k)) \/ ReadEof(c) \/ WriteAnswer(c) \/ WriteFails(c)
             \/ PassGate(c) \/ Sleep(c) \/ Release(c) \/ Select(c)
             \/ DropPanics(c) \/ PanicInParser(c) \/ PanicOnPoison(c)
      PROVE  UNCHANGED <<in_transaction, poisoned, storage>>
  BY <1>1 DEF Connect, Send, Leave, Show, Lose, ReadQuery, ReadEof, WriteAnswer, WriteFails,
              PassGate, Sleep, Release, Select, DropPanics, PanicInParser, PanicOnPoison, session
<1>2. ASSUME NEW c \in Clients, Insert(c) \/ InsertFails(c) PROVE StorageOK'
  <2>1. /\ UNCHANGED <<in_transaction, poisoned, pagerTxn>>
        /\ \E t \in Tables :
             \/ t \in pagerTxn /\ dirty' = dirty \cup {t} /\ failed' = failed
             \/ t \notin pagerTxn /\ dirty' = dirty \ {t} /\ failed' = failed \ {t}
             \/ t \notin pagerTxn /\ dirty' = dirty \cup {t} /\ failed' = failed \cup {t}
    BY <1>2 DEF Insert, InsertFails, session
  <2>2. (dirty' \cup pagerTxn') \ failed' \subseteq (dirty \cup pagerTxn) \ failed
    BY <2>1
  <2> QED
    BY <1>a, <2>1, <2>2
<1>3. ASSUME NEW c \in Clients, Begin(c) PROVE StorageOK'
  <2>1. in_transaction'[c] = TRUE
    BY <1>3, <1>a DEF Begin
  <2> QED
    BY <2>1
<1>4. ASSUME NEW c \in Clients, BeginFails(c) PROVE StorageOK'
  <2>1. /\ UNCHANGED <<in_transaction, poisoned, dirty>>
        /\ \E begun \in SUBSET Tables : pagerTxn' = pagerTxn \cup begun /\ failed' = failed \cup begun
    BY <1>4 DEF BeginFails, session
  <2>2. (dirty' \cup pagerTxn') \ failed' \subseteq (dirty \cup pagerTxn) \ failed
    BY <2>1
  <2> QED
    BY <1>a, <2>1, <2>2
<1>5. ASSUME NEW c \in Clients,
             \/ CommitOrRollback(c) \/ CommitOrRollbackFails(c)
             \/ Drop(c) \/ DropRollbackFails(c)
      PROVE  StorageOK'
  <2>1. failed' = dirty' \cup pagerTxn'
    BY <1>5 DEF CommitOrRollback, CommitOrRollbackFails, Drop, DropRollbackFails,
                EndsAllTables, StopsAt
  <2> QED
    BY <2>1
<1>6. ASSUME NEW c \in Clients, PanicInStorage(c) PROVE StorageOK'
  <2>1. poisoned' = TRUE
    BY <1>6 DEF PanicInStorage
  <2> QED
    BY <2>1
<1> QED
  BY <1>0, <1>1, <1>2, <1>3, <1>4, <1>5, <1>6
     DEF Next, Thread, Receive, vars, session

-----------------------------------------------------------------------------
(***************************************************************************)
(* The theorems.                                                           *)
(***************************************************************************)
\* Every reachable state of the server satisfies the inductive invariant.
THEOREM ServerInvariant == Spec => []ServerInv
<1>1. Init => ServerInv
  BY InitServer
<1>2. ServerInv /\ [Next]_vars => ServerInv'
  <2>1. ServerInv /\ [Next]_vars => (inbox \in [Clients -> Seq(Nat)] /\ outbox \in [Clients -> Seq(Nat)])'
    BY SocketsStep DEF SocketsOK
  <2> QED
    BY <2>1, TypeStep, WireStep, SessionStep, StorageStep DEF ServerInv
<1> QED
  BY <1>1, <1>2, PTL DEF Spec

\* The type invariant; a socket never holds more than the one message of the
\* client's last query.
THEOREM TypeCorrect == Spec => []TypeOK
<1>1. ServerInv => TypeOK
  BY DEF ServerInv
<1> QED
  BY <1>1, ServerInvariant, PTL

\* No query is lost and none is answered twice: session_loop and the client's loop
\* keep it in exactly one place while the client waits, whatever else panics or
\* disconnects.
THEOREM QueriesAreKept == Spec => []QueryIsSomewhere
<1>1. ServerInv => QueryIsSomewhere
  <2> SUFFICES ASSUME ServerInv PROVE QueryIsSomewhere
    OBVIOUS
  <2>1. /\ \A c \in Clients : WireOK(c)
        /\ \A c \in Clients : inbox[c] \in {<<>>, <<sent[c]>>} /\ outbox[c] \in {<<>>, <<sent[c]>>}
        /\ thread \in [Clients -> Position]
    BY DEF ServerInv, TypeOK, Position
  <2> QED
    BY <2>1 DEF WireOK, Busy, Position, QueryIsSomewhere
<1> QED
  BY <1>1, ServerInvariant, PTL

\* The end of a connection, by end of input, a failed write or a panic of the
\* parser, gives the gate back through Drop; only a poisoned lock strands it.
THEOREM NoSessionStrandsTheGate == Spec => []StrandedOnlyByPoison
<1>1. ServerInv => StrandedOnlyByPoison
  BY DEF ServerInv, SessionOK, StrandedOnlyByPoison
<1> QED
  BY <1>1, ServerInvariant, PTL

\* Pages that are only in the cache, and pagers in a transaction, belong to a session
\* whose thread lives, but for the tables on which a statement failed: no later flush
\* makes the rows of a departed client durable.
THEOREM NoOrphanedRows == Spec => []UncommittedHasOwner
<1>1. ServerInv => UncommittedHasOwner
  <2> SUFFICES ASSUME ServerInv, ~poisoned, (dirty \cup pagerTxn) \ failed # {}
               PROVE  \E c \in Clients : txn_owner = c /\ in_transaction[c] /\ thread[c] # "gone"
    BY DEF UncommittedHasOwner
  <2>1. PICK c \in Clients : in_transaction[c]
    BY DEF ServerInv, StorageOK
  <2>2. txn_owner = c /\ thread[c] # "gone"
    BY <2>1 DEF ServerInv, SessionOK
  <2> QED
    BY <2>1, <2>2
<1> QED
  BY <1>1, ServerInvariant, PTL
=============================================================================
