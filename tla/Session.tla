------------------------------ MODULE Session ------------------------------
(***************************************************************************)
(* The sessions of session.rs over the shared Storage of storage.rs: the   *)
(* transaction gate (txn_owner and its condition variable) that every      *)
(* statement passes, and the fan-out of BEGIN, COMMIT and ROLLBACK to the  *)
(* tables' pagers.                                                         *)
(*                                                                         *)
(* A session is a thread.  What it does with txn_owner locked is one step, *)
(* and what it does with the storage RwLock held is one step: nobody waits *)
(* for anything with either lock held.  The gate is one step and the       *)
(* access another, as wait_for_txn_clear unlocks txn_owner before the      *)
(* caller asks for the RwLock.                                             *)
(*                                                                         *)
(* A table is the set of its rows: in the pager's cache (mem) and in the   *)
(* `.db` file (db).  A row is named after the session that inserts it.     *)
(***************************************************************************)
EXTENDS Integers

CONSTANTS
  Sessions,
  Tables,      \* the names a table may have
  Preloaded,   \* the tables that exist when the first session connects
  NoOne,       \* txn_owner is None
  MaxInserts,  \* bound on the INSERTs of one session
  MaxFaults    \* bound on the I/O errors of flushes and commits

ASSUME SessionAssumption ==
  /\ NoOne \notin Sessions
  /\ Preloaded \subseteq Tables
  /\ MaxInserts \in Nat /\ MaxFaults \in Nat

VARIABLES
  pc,              \* where each session's thread is
  op,              \* the statement it executes
  in_transaction,  \* Session.in_transaction
  inserts,         \* how many rows it has tried to insert
  txn_owner,       \* Shared.txn_owner
  tables,          \* the keys of Storage.tables
  mem, db,         \* the rows of each table, in the cache and in the file
  pagerTxn,        \* Pager.in_transaction of each table
  faults,          \* how many I/O errors have occurred
  startTables,     \* history: the tables at the BEGIN of the open transaction
  txnRows,         \* history: <<table, row>> inserted by the open transaction
  undone,          \* history: what was inserted and rolled back, and whether
                   \* its table existed at BEGIN
  acked            \* history: what was inserted, with success, by a session
                   \* that had no transaction open

threads == <<pc, op, in_transaction, inserts>>
storage == <<tables, mem, db, pagerTxn, faults>>
history == <<startTables, txnRows, undone, acked>>
vars == <<threads, txn_owner, storage, history>>

Row == Sessions \X (1 .. MaxInserts)

Statement ==
  [kind : {"create", "insert", "select"}, table : Tables]
    \cup [kind : {"begin", "commit", "rollback", "drop"}]

NoStatement == [kind |-> "none"]

Init ==
  /\ pc = [s \in Sessions |-> "ready"]
  /\ op = [s \in Sessions |-> NoStatement]
  /\ in_transaction = [s \in Sessions |-> FALSE]
  /\ inserts = [s \in Sessions |-> 0]
  /\ txn_owner = NoOne
  /\ tables = Preloaded
  /\ mem = [t \in Tables |-> {}] /\ db = [t \in Tables |-> {}]
  /\ pagerTxn = [t \in Tables |-> FALSE]
  /\ faults = 0
  /\ startTables = {} /\ txnRows = {} /\ undone = {} /\ acked = {}

Goto(s, l) == pc' = [pc EXCEPT ![s] = l]

Return(s) == Goto(s, "ready") /\ op' = [op EXCEPT ![s] = NoStatement]

-----------------------------------------------------------------------------
(***************************************************************************)
(* The client's next statement.  create_table, insert, select_all and      *)
(* dump_btree (a "select" too) go to the gate, and so does begin; commit,  *)
(* rollback and the Drop of a session in a transaction go straight to the  *)
(* storage.  BEGIN inside a transaction and COMMIT or ROLLBACK outside one *)
(* are refused at once and change nothing; so does a Drop outside one.     *)
(***************************************************************************)
Request(s, o) ==
  /\ pc[s] = "ready"
  /\ CASE o.kind = "begin" -> ~in_transaction[s]
       [] o.kind \in {"commit", "rollback", "drop"} -> in_transaction[s]
       [] o.kind = "insert" -> inserts[s] < MaxInserts
       [] OTHER -> TRUE
  /\ op' = [op EXCEPT ![s] = o]
  /\ inserts' = IF o.kind = "insert" THEN [inserts EXCEPT ![s] = @ + 1] ELSE inserts
  /\ Goto(s, IF o.kind \in {"commit", "rollback", "drop"} THEN "access" ELSE "gate")
  /\ UNCHANGED <<in_transaction, txn_owner, storage, history>>

(***************************************************************************)
(* wait_for_txn_clear, and the waiting loop of begin, which also claims    *)
(* the gate.  One round of the loop: pass, or sleep on txn_cv.             *)
(***************************************************************************)
PassGate(s) ==
  /\ pc[s] = "gate" /\ op[s].kind # "begin"
  /\ txn_owner \in {NoOne, s}
  /\ Goto(s, "access")
  /\ UNCHANGED <<op, in_transaction, inserts, txn_owner, storage, history>>

ClaimGate(s) ==
  /\ pc[s] = "gate" /\ op[s].kind = "begin"
  /\ txn_owner = NoOne
  /\ txn_owner' = s
  /\ Goto(s, "access")
  /\ UNCHANGED <<op, in_transaction, inserts, storage, history>>

Sleep(s) ==
  /\ pc[s] = "gate"
  /\ txn_owner \notin (IF op[s].kind = "begin" THEN {NoOne} ELSE {NoOne, s})
  /\ Goto(s, "asleep")
  /\ UNCHANGED <<op, in_transaction, inserts, txn_owner, storage, history>>

\* Condvar::wait may return without a notification.
SpuriousWakeup(s) ==
  /\ pc[s] = "asleep"
  /\ Goto(s, "gate")
  /\ UNCHANGED <<op, in_transaction, inserts, txn_owner, storage, history>>

\* Mutation of Release: notify_all is forgotten.
ReleaseSilently(s) ==
  /\ pc[s] = "release"
  /\ txn_owner' = IF txn_owner = s THEN NoOne ELSE txn_owner
  /\ Return(s)
  /\ UNCHANGED <<in_transaction, inserts, storage, history>>

\* release_txn_gate: the owner clears the slot, and notify_all wakes everyone.
Release(s) ==
  /\ pc[s] = "release"
  /\ txn_owner' = IF txn_owner = s THEN NoOne ELSE txn_owner
  /\ pc' = [r \in Sessions |-> CASE r = s -> "ready"
                                 [] r # s /\ pc[r] = "asleep" -> "gate"
                                 [] OTHER -> pc[r]]
  /\ op' = [op EXCEPT ![s] = NoStatement]
  /\ UNCHANGED <<in_transaction, inserts, storage, history>>

-----------------------------------------------------------------------------
(***************************************************************************)
(* The statements, in the storage.  An unknown table, or a known one to    *)
(* create, is an error that changes nothing.                               *)
(***************************************************************************)
Accesses(s, kind) == pc[s] = "access" /\ op[s].kind = kind

\* The new table's pager is in no transaction, whoever creates it: its first
\* pages are flushed at once.
CreateTable(s) ==
  /\ Accesses(s, "create")
  /\ tables' = tables \cup {op[s].table}
  /\ Return(s)
  /\ UNCHANGED <<in_transaction, inserts, txn_owner, mem, db, pagerTxn, faults, history>>

Select(s) ==
  /\ Accesses(s, "select")
  /\ Return(s)
  /\ UNCHANGED <<in_transaction, inserts, txn_owner, storage, history>>

NewRow(s) == <<s, inserts[s]>>

\* Mutation of Insert: the flush does not look at Pager.in_transaction.
InsertAlwaysFlushes(s) ==
  LET t == op[s].table IN
  /\ Accesses(s, "insert") /\ t \in tables
  /\ mem' = [mem EXCEPT ![t] = @ \cup {NewRow(s)}]
  /\ db' = [db EXCEPT ![t] = mem'[t]]
  /\ txnRows' = IF in_transaction[s] THEN txnRows \cup {<<t, NewRow(s)>>} ELSE txnRows
  /\ acked' = IF in_transaction[s] THEN acked ELSE acked \cup {<<t, NewRow(s)>>}
  /\ Return(s)
  /\ UNCHANGED <<in_transaction, inserts, txn_owner, tables, pagerTxn, faults,
                 startTables, undone>>

\* Mutation of Insert: the name is not looked up first.
InsertAnywhere(s) ==
  LET t == op[s].table IN
  /\ Accesses(s, "insert")
  /\ mem' = [mem EXCEPT ![t] = @ \cup {NewRow(s)}]
  /\ db' = IF pagerTxn[t] THEN db ELSE [db EXCEPT ![t] = mem'[t]]
  /\ txnRows' = IF in_transaction[s] THEN txnRows \cup {<<t, NewRow(s)>>} ELSE txnRows
  /\ acked' = IF in_transaction[s] THEN acked ELSE acked \cup {<<t, NewRow(s)>>}
  /\ Return(s)
  /\ UNCHANGED <<in_transaction, inserts, txn_owner, tables, pagerTxn, faults,
                 startTables, undone>>

\* The row enters the cache; outside a pager transaction all that is dirty is
\* flushed with it.
Insert(s) ==
  LET t == op[s].table IN
  /\ Accesses(s, "insert") /\ t \in tables
  /\ mem' = [mem EXCEPT ![t] = @ \cup {NewRow(s)}]
  /\ db' = IF pagerTxn[t] THEN db ELSE [db EXCEPT ![t] = mem'[t]]
  /\ txnRows' = IF in_transaction[s] THEN txnRows \cup {<<t, NewRow(s)>>} ELSE txnRows
  /\ acked' = IF in_transaction[s] THEN acked ELSE acked \cup {<<t, NewRow(s)>>}
  /\ Return(s)
  /\ UNCHANGED <<in_transaction, inserts, txn_owner, tables, pagerTxn, faults,
                 startTables, undone>>

InsertUnknown(s) ==
  /\ Accesses(s, "insert") /\ op[s].table \notin tables
  /\ Return(s)
  /\ UNCHANGED <<in_transaction, inserts, txn_owner, storage, history>>

\* The flush fails before the file is touched: the client gets an error and the
\* row stays dirty in the cache.
InsertFault(s) ==
  LET t == op[s].table IN
  /\ Accesses(s, "insert") /\ t \in tables /\ ~pagerTxn[t]
  /\ faults < MaxFaults /\ faults' = faults + 1
  /\ mem' = [mem EXCEPT ![t] = @ \cup {NewRow(s)}]
  /\ Return(s)
  /\ UNCHANGED <<in_transaction, inserts, txn_owner, tables, db, pagerTxn, history>>

-----------------------------------------------------------------------------
(***************************************************************************)
(* BEGIN, COMMIT and ROLLBACK run over all the tables, in no particular    *)
(* order (Storage.tables is a HashMap).                                    *)
(***************************************************************************)
Begin(s) ==
  /\ Accesses(s, "begin")
  /\ \A t \in tables : ~pagerTxn[t]
  /\ pagerTxn' = [t \in Tables |-> pagerTxn[t] \/ t \in tables]
  /\ in_transaction' = [in_transaction EXCEPT ![s] = TRUE]
  /\ startTables' = tables
  /\ Return(s)
  /\ UNCHANGED <<inserts, txn_owner, tables, mem, db, faults,
                 txnRows, undone, acked>>

\* Mutation of BeginErr: the error is returned with the gate still claimed.
BeginErrKeepsGate(s) ==
  /\ Accesses(s, "begin")
  /\ \E t \in tables : pagerTxn[t]
  /\ \E begun \in SUBSET {t \in tables : ~pagerTxn[t]} :
       pagerTxn' = [t \in Tables |-> pagerTxn[t] \/ t \in begun]
  /\ Return(s)
  /\ UNCHANGED <<in_transaction, inserts, txn_owner, tables, mem, db, faults, history>>

\* A pager is in a transaction already: BEGIN fails there, the pagers that came
\* earlier in the loop stay begun, and the gate is given back.
BeginErr(s) ==
  /\ Accesses(s, "begin")
  /\ \E t \in tables : pagerTxn[t]
  /\ \E begun \in SUBSET {t \in tables : ~pagerTxn[t]} :
       pagerTxn' = [t \in Tables |-> pagerTxn[t] \/ t \in begun]
  /\ Goto(s, "release")
  /\ UNCHANGED <<op, in_transaction, inserts, txn_owner, tables, mem, db, faults, history>>

\* Pager::commit of each table in done.
CommitTables(done) ==
  /\ db' = [t \in Tables |-> IF t \in done THEN mem[t] ELSE db[t]]
  /\ pagerTxn' = [t \in Tables |-> pagerTxn[t] /\ t \notin done]

EndTransaction(s) ==
  /\ in_transaction' = [in_transaction EXCEPT ![s] = FALSE]
  /\ startTables' = {} /\ txnRows' = {}
  /\ Goto(s, "release")
  /\ UNCHANGED <<op, inserts, txn_owner, tables>>

Commit(s) ==
  /\ Accesses(s, "commit")
  /\ CommitTables(tables)
  /\ EndTransaction(s)
  /\ UNCHANGED <<mem, faults, undone, acked>>

\* Mutation of CommitFault: the error is returned before the gate is released.
CommitFaultKeepsGate(s) ==
  /\ Accesses(s, "commit")
  /\ faults < MaxFaults /\ faults' = faults + 1
  /\ \E failed \in tables : \E done \in SUBSET (tables \ {failed}) : CommitTables(done)
  /\ in_transaction' = [in_transaction EXCEPT ![s] = FALSE]
  /\ Return(s)
  /\ UNCHANGED <<inserts, txn_owner, tables, mem, history>>

\* One table's commit fails before its file is touched: the tables after it are
\* not committed, and the session is out of its transaction all the same.
CommitFault(s) ==
  /\ Accesses(s, "commit")
  /\ faults < MaxFaults /\ faults' = faults + 1
  /\ \E failed \in tables : \E done \in SUBSET (tables \ {failed}) : CommitTables(done)
  /\ EndTransaction(s)
  /\ UNCHANGED <<mem, undone, acked>>

\* ROLLBACK, and the Drop of a session whose client has gone.
Rollback(s) ==
  /\ Accesses(s, "rollback") \/ Accesses(s, "drop")
  /\ mem' = [t \in Tables |-> IF t \in tables THEN db[t] ELSE mem[t]]
  /\ pagerTxn' = [t \in Tables |-> FALSE]
  /\ undone' = undone \cup {[table |-> x[1], row |-> x[2], existed |-> x[1] \in startTables] :
                             x \in txnRows}
  /\ EndTransaction(s)
  /\ UNCHANGED <<db, faults, acked>>

-----------------------------------------------------------------------------
Step(s) ==
  \/ PassGate(s) \/ ClaimGate(s) \/ Sleep(s) \/ Release(s)
  \/ CreateTable(s) \/ Select(s) \/ Insert(s) \/ InsertUnknown(s)
  \/ Begin(s) \/ BeginErr(s) \/ Commit(s) \/ Rollback(s)

Next ==
  \E s \in Sessions :
    \/ \E o \in Statement : Request(s, o)
    \/ Step(s)
    \/ SpuriousWakeup(s) \/ InsertFault(s) \/ CommitFault(s)

Spec == Init /\ [][Next]_vars

(***************************************************************************)
(* Fairness: a thread that can run is scheduled.  No client is obliged to  *)
(* send anything, COMMIT included, and no I/O error has to happen.         *)
(***************************************************************************)
FairSpec == Spec /\ \A s \in Sessions : WF_vars(Step(s) \/ InsertFault(s) \/ CommitFault(s))

-----------------------------------------------------------------------------
\* A table that is not there has no rows, and its pager is in no transaction.
AbsentTablesAreEmpty ==
  \A t \in Tables \ tables : mem[t] = {} /\ db[t] = {} /\ ~pagerTxn[t]

\* The type invariant: the variables have their types, and nothing was done to a
\* table that CREATE TABLE has not made.
TypeOK ==
  /\ pc \in [Sessions -> {"ready", "gate", "asleep", "access", "release"}]
  /\ op \in [Sessions -> Statement \cup {NoStatement}]
  /\ in_transaction \in [Sessions -> BOOLEAN]
  /\ inserts \in [Sessions -> 0 .. MaxInserts]
  /\ txn_owner \in Sessions \cup {NoOne}
  /\ tables \in SUBSET Tables
  /\ mem \in [Tables -> SUBSET Row] /\ db \in [Tables -> SUBSET Row]
  /\ pagerTxn \in [Tables -> BOOLEAN]
  /\ faults \in 0 .. MaxFaults
  /\ startTables \in SUBSET Tables
  /\ txnRows \in SUBSET (Tables \X Row)
  /\ undone \in SUBSET [table : Tables, row : Row, existed : BOOLEAN]
  /\ acked \in SUBSET (Tables \X Row)
  /\ AbsentTablesAreEmpty

\* s is between claiming the gate and giving it back.
HoldsGate(s) ==
  \/ in_transaction[s]
  \/ pc[s] = "access" /\ op[s].kind = "begin"
  \/ pc[s] = "release"

\* The gate's owner is exactly the session that is in a transaction, enters one
\* or leaves one: at most one session is ever in a transaction, and the gate
\* never outlives it, whatever errors BEGIN or COMMIT meet.
GateMatchesTransaction ==
  \A s \in Sessions : HoldsGate(s) <=> txn_owner = s

\* Nobody sleeps on txn_cv while the gate is free: every release wakes every
\* sleeper, and nobody falls asleep after having seen a free gate.
NoLostWakeup ==
  txn_owner = NoOne => \A s \in Sessions : pc[s] # "asleep"

\* A row that was rolled back is gone for good, from the cache and from the
\* file, whatever other sessions were doing meanwhile; for tables that existed
\* when the transaction began.
RolledBackIsGone ==
  \A u \in undone : u.existed => u.row \notin mem[u.table] \cup db[u.table]

\* "The table's data inserts within the transaction are rollback-safe", of a
\* table created inside the transaction (PROGRESS.md).
CreatedTableIsRollbackSafe ==
  \A u \in undone : u.row \notin mem[u.table] \cup db[u.table]

\* "Without an explicit BEGIN, every statement auto-commits" (PROGRESS.md): a
\* row whose INSERT succeeded outside a transaction is in the file, for ever.
AutoCommitIsDurable ==
  \A x \in acked : x[2] \in db[x[1]]

\* Once no more transactions are opened every statement completes: nobody is
\* left asleep by the last transaction.
NobodyStuck ==
  <>[](txn_owner = NoOne) =>
    \A s \in Sessions : [](pc[s] # "ready" => <>(pc[s] = "ready"))

\* COMMIT, ROLLBACK and a lost connection give the gate back, also when the
\* storage reports an error.
GateIsReleased ==
  \A s \in Sessions :
    (pc[s] = "access" /\ op[s].kind \in {"commit", "rollback", "drop"}) ~> (txn_owner # s)
=============================================================================
