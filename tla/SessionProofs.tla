--------------------------- MODULE SessionProofs ---------------------------
(***************************************************************************)
(* Proofs about Session, for any set of sessions and tables and any number *)
(* of inserts and faults: the gate is held by the one session that is in a *)
(* transaction, no wakeup is lost, and what was rolled back stays away.    *)
(***************************************************************************)
EXTENDS Session, TLAPS

(***************************************************************************)
(* What the position of a thread says about its session: the statements    *)
(* that end a transaction run inside one, BEGIN runs outside one, and an   *)
(* INSERT under way has been numbered.                                     *)
(***************************************************************************)
PcOK ==
  \A s \in Sessions :
    /\ pc[s] \in {"gate", "asleep"} => op[s].kind \in {"create", "insert", "select", "begin"}
    /\ pc[s] = "access" /\ op[s].kind \in {"commit", "rollback", "drop"} => in_transaction[s]
    /\ pc[s] \in {"gate", "asleep", "access"} /\ op[s].kind = "begin" => ~in_transaction[s]
    /\ pc[s] \in {"gate", "asleep", "access"} /\ op[s].kind = "insert" => inserts[s] > 0
    /\ pc[s] = "release" => ~in_transaction[s]

GateInv == TypeOK /\ PcOK /\ GateMatchesTransaction /\ NoLostWakeup

USE DEF HoldsGate, Accesses, Goto, Return

LEMMA StatementKinds ==
  ASSUME NEW o \in Statement \cup {NoStatement}
  PROVE  /\ o.kind \in {"create", "insert", "select", "begin", "commit", "rollback", "drop", "none"}
         /\ o.kind \in {"create", "insert", "select"} => o.table \in Tables
  BY DEF Statement, NoStatement

\* The type invariant holds in the first state.
LEMMA InitGate == Init => GateInv
  BY SessionAssumption
     DEF Init, GateInv, TypeOK, AbsentTablesAreEmpty, PcOK, GateMatchesTransaction,
         NoLostWakeup, Statement, NoStatement

\* No statement does anything to a table that is not there.
LEMMA AbsentStep == TypeOK /\ [Next]_vars => AbsentTablesAreEmpty'
<1> SUFFICES ASSUME TypeOK, [Next]_vars, NEW t \in Tables, t \notin tables'
             PROVE  mem'[t] = {} /\ db'[t] = {} /\ ~pagerTxn'[t]
  BY DEF AbsentTablesAreEmpty
<1>a. t \notin tables /\ mem[t] = {} /\ db[t] = {} /\ ~pagerTxn[t]
  <2>1. tables \subseteq tables'
    BY DEF Next, Step, vars, threads, storage, Request, PassGate, ClaimGate, Sleep,
           SpuriousWakeup, Release, CreateTable, Select, Insert, InsertUnknown, InsertFault,
           Begin, BeginErr, Commit, CommitFault, Rollback, EndTransaction
  <2> QED
    BY <2>1 DEF TypeOK, AbsentTablesAreEmpty
<1>b. /\ mem \in [Tables -> SUBSET Row] /\ db \in [Tables -> SUBSET Row]
      /\ pagerTxn \in [Tables -> BOOLEAN]
  BY DEF TypeOK
<1>1. CASE UNCHANGED vars
  BY <1>1, <1>a DEF vars, storage
<1>2. ASSUME NEW s \in Sessions,
             \/ \E o \in Statement : Request(s, o)
             \/ PassGate(s) \/ ClaimGate(s) \/ Sleep(s) \/ SpuriousWakeup(s) \/ Release(s)
             \/ CreateTable(s) \/ Select(s) \/ InsertUnknown(s)
      PROVE  mem'[t] = {} /\ db'[t] = {} /\ ~pagerTxn'[t]
  BY <1>2, <1>a DEF Request, PassGate, ClaimGate, Sleep, SpuriousWakeup, Release, CreateTable,
                    Select, InsertUnknown, storage
<1>3. ASSUME NEW s \in Sessions, Insert(s) \/ InsertFault(s)
      PROVE  mem'[t] = {} /\ db'[t] = {} /\ ~pagerTxn'[t]
  BY <1>3, <1>a, <1>b DEF Insert, InsertFault
<1>4. ASSUME NEW s \in Sessions, Begin(s) \/ BeginErr(s)
      PROVE  mem'[t] = {} /\ db'[t] = {} /\ ~pagerTxn'[t]
  BY <1>4, <1>a, <1>b DEF Begin, BeginErr
<1>5. ASSUME NEW s \in Sessions, Commit(s) \/ CommitFault(s)
      PROVE  mem'[t] = {} /\ db'[t] = {} /\ ~pagerTxn'[t]
  BY <1>5, <1>a, <1>b DEF Commit, CommitFault, CommitTables
<1>6. ASSUME NEW s \in Sessions, Rollback(s)
      PROVE  mem'[t] = {} /\ db'[t] = {} /\ ~pagerTxn'[t]
  BY <1>6, <1>a, <1>b DEF Rollback
<1> QED
  BY <1>1, <1>2, <1>3, <1>4, <1>5, <1>6 DEF Next, Step

LEMMA TypeStep == GateInv /\ [Next]_vars => TypeOK'
<1> SUFFICES ASSUME GateInv, [Next]_vars PROVE TypeOK'
  OBVIOUS
<1>a. AbsentTablesAreEmpty'
  BY AbsentStep DEF GateInv
<1> USE <1>a, SessionAssumption DEF GateInv, TypeOK
<1>0. CASE UNCHANGED vars
  BY <1>0 DEF vars, threads, storage, history
<1>1. ASSUME NEW s \in Sessions, NEW o \in Statement, Request(s, o) PROVE TypeOK'
  BY <1>1 DEF Request, storage, history
<1>2. ASSUME NEW s \in Sessions, PassGate(s) \/ ClaimGate(s) \/ Sleep(s) \/ SpuriousWakeup(s)
      PROVE  TypeOK'
  BY <1>2 DEF PassGate, ClaimGate, Sleep, SpuriousWakeup, storage, history
<1>3. ASSUME NEW s \in Sessions, Release(s) PROVE TypeOK'
  BY <1>3 DEF Release, storage, history
<1>4. ASSUME NEW s \in Sessions, CreateTable(s) PROVE TypeOK'
  BY <1>4, StatementKinds DEF CreateTable, history
<1>5. ASSUME NEW s \in Sessions, Select(s) \/ InsertUnknown(s) PROVE TypeOK'
  BY <1>5 DEF Select, InsertUnknown, storage, history
<1>6. ASSUME NEW s \in Sessions, Insert(s) \/ InsertFault(s) PROVE TypeOK'
  <2>1. op[s].table \in Tables /\ NewRow(s) \in Row
    BY <1>6, StatementKinds DEF Insert, InsertFault, NewRow, Row, PcOK
  <2> QED
    BY <1>6, <2>1 DEF Insert, InsertFault, history
<1>7. ASSUME NEW s \in Sessions, Begin(s) \/ BeginErr(s) PROVE TypeOK'
  <2>1. pagerTxn' \in [Tables -> BOOLEAN]
    <3>1. CASE Begin(s)
      <4>1. pagerTxn' = [t \in Tables |-> pagerTxn[t] \/ t \in tables]
        BY <3>1 DEF Begin
      <4> QED
        BY ONLY <4>1, Zenon
    <3>2. CASE BeginErr(s)
      <4>1. PICK begun : pagerTxn' = [t \in Tables |-> pagerTxn[t] \/ t \in begun]
        BY <3>2 DEF BeginErr
      <4> QED
        BY ONLY <4>1, Zenon
    <3> QED
      BY <1>7, <3>1, <3>2
  <2> QED
    BY <1>7, <2>1 DEF Begin, BeginErr, history
<1>8. ASSUME NEW s \in Sessions, Commit(s) \/ CommitFault(s) PROVE TypeOK'
  <2>1. PICK done : CommitTables(done)
    BY <1>8 DEF Commit, CommitFault
  <2>2. pagerTxn' \in [Tables -> BOOLEAN]
    <3>1. pagerTxn' = [t \in Tables |-> pagerTxn[t] /\ t \notin done]
      BY <2>1 DEF CommitTables
    <3> QED
      BY ONLY <3>1, Zenon
  <2>3. db' \in [Tables -> SUBSET Row]
    BY <2>1 DEF CommitTables
  <2>4. EndTransaction(s) /\ faults' \in 0 .. MaxFaults /\ UNCHANGED <<mem, undone, acked>>
    BY <1>8 DEF Commit, CommitFault
  <2> QED
    BY <2>2, <2>3, <2>4 DEF EndTransaction
<1>9. ASSUME NEW s \in Sessions, Rollback(s) PROVE TypeOK'
  <2>1. undone' \in SUBSET [table : Tables, row : Row, existed : BOOLEAN]
    <3>1. undone' = undone \cup {[table |-> x[1], row |-> x[2], existed |-> x[1] \in startTables] :
                                  x \in txnRows}
      BY <1>9 DEF Rollback
    <3>2. ASSUME NEW x \in txnRows
          PROVE  [table |-> x[1], row |-> x[2], existed |-> x[1] \in startTables]
                   \in [table : Tables, row : Row, existed : BOOLEAN]
      <4>1. (x[1] \in startTables) \in BOOLEAN
        BY SMT
      <4>2. x[1] \in Tables /\ x[2] \in Row
        OBVIOUS
      <4> QED
        BY ONLY <4>1, <4>2, Zenon
    <3>3. undone \in SUBSET [table : Tables, row : Row, existed : BOOLEAN]
      OBVIOUS
    <3> QED
      BY ONLY <3>1, <3>2, <3>3, Zenon
  <2> QED
    BY <1>9, <2>1 DEF Rollback, EndTransaction
<1> QED
  BY <1>0, <1>1, <1>2, <1>3, <1>4, <1>5, <1>6, <1>7, <1>8, <1>9 DEF Next, Step

LEMMA PcStep == GateInv /\ [Next]_vars => PcOK'
<1> SUFFICES ASSUME GateInv, [Next]_vars PROVE PcOK'
  OBVIOUS
<1> USE SessionAssumption DEF GateInv, TypeOK, PcOK
<1>0. CASE UNCHANGED vars
  BY <1>0 DEF vars, threads
<1>1. ASSUME NEW s \in Sessions, NEW o \in Statement, Request(s, o) PROVE PcOK'
  <2>1. o.kind \in {"create", "insert", "select", "begin", "commit", "rollback", "drop"}
    BY DEF Statement
  <2>2. /\ o.kind = "begin" => ~in_transaction[s]
        /\ o.kind \in {"commit", "rollback", "drop"} => in_transaction[s]
        /\ o.kind = "insert" => inserts'[s] > 0
    BY <1>1 DEF Request
  <2>3. /\ pc' = [pc EXCEPT ![s] = IF o.kind \in {"commit", "rollback", "drop"}
                                   THEN "access" ELSE "gate"]
        /\ op' = [op EXCEPT ![s] = o]
        /\ in_transaction' = in_transaction
        /\ \A r \in Sessions : r # s => inserts'[r] = inserts[r]
    BY <1>1 DEF Request
  <2> QED
    BY <2>1, <2>2, <2>3
<1>2. ASSUME NEW s \in Sessions, PassGate(s) \/ ClaimGate(s) \/ Sleep(s) \/ SpuriousWakeup(s)
      PROVE  PcOK'
  BY <1>2 DEF PassGate, ClaimGate, Sleep, SpuriousWakeup
<1>3. ASSUME NEW s \in Sessions, Release(s) PROVE PcOK'
  BY <1>3 DEF Release, NoStatement
<1>4. ASSUME NEW s \in Sessions,
             CreateTable(s) \/ Select(s) \/ Insert(s) \/ InsertUnknown(s) \/ InsertFault(s)
      PROVE  PcOK'
  BY <1>4 DEF CreateTable, Select, Insert, InsertUnknown, InsertFault, NoStatement
<1>5. ASSUME NEW s \in Sessions, Begin(s) \/ BeginErr(s) PROVE PcOK'
  BY <1>5 DEF Begin, BeginErr, NoStatement
<1>6. ASSUME NEW s \in Sessions, Commit(s) \/ CommitFault(s) \/ Rollback(s) PROVE PcOK'
  BY <1>6 DEF Commit, CommitFault, Rollback, EndTransaction
<1> QED
  BY <1>0, <1>1, <1>2, <1>3, <1>4, <1>5, <1>6 DEF Next, Step

LEMMA GateStep == GateInv /\ [Next]_vars => GateMatchesTransaction' /\ NoLostWakeup'
<1> SUFFICES ASSUME GateInv, [Next]_vars PROVE GateMatchesTransaction' /\ NoLostWakeup'
  OBVIOUS
<1> USE SessionAssumption DEF GateInv, TypeOK, PcOK, GateMatchesTransaction, NoLostWakeup
<1>0. CASE UNCHANGED vars
  BY <1>0 DEF vars, threads
<1>1. ASSUME NEW s \in Sessions, NEW o \in Statement, Request(s, o)
      PROVE  GateMatchesTransaction' /\ NoLostWakeup'
  BY <1>1, StatementKinds DEF Request
<1>2. ASSUME NEW s \in Sessions, PassGate(s) \/ ClaimGate(s) \/ Sleep(s) \/ SpuriousWakeup(s)
      PROVE  GateMatchesTransaction' /\ NoLostWakeup'
  BY <1>2 DEF PassGate, ClaimGate, Sleep, SpuriousWakeup
<1>3. ASSUME NEW s \in Sessions, Release(s)
      PROVE  GateMatchesTransaction' /\ NoLostWakeup'
  BY <1>3 DEF Release, NoStatement
<1>4. ASSUME NEW s \in Sessions,
             CreateTable(s) \/ Select(s) \/ Insert(s) \/ InsertUnknown(s) \/ InsertFault(s)
      PROVE  GateMatchesTransaction' /\ NoLostWakeup'
  BY <1>4 DEF CreateTable, Select, Insert, InsertUnknown, InsertFault, NoStatement
<1>5. ASSUME NEW s \in Sessions, Begin(s) \/ BeginErr(s)
      PROVE  GateMatchesTransaction' /\ NoLostWakeup'
  BY <1>5 DEF Begin, BeginErr, NoStatement
<1>6. ASSUME NEW s \in Sessions, Commit(s) \/ CommitFault(s) \/ Rollback(s)
      PROVE  GateMatchesTransaction' /\ NoLostWakeup'
  BY <1>6 DEF Commit, CommitFault, Rollback, EndTransaction
<1> QED
  BY <1>0, <1>1, <1>2, <1>3, <1>4, <1>5, <1>6 DEF Next, Step

\* Every reachable state satisfies the inductive invariant.
THEOREM GateInvariant == Spec => []GateInv
<1>1. Init => GateInv
  BY InitGate
<1>2. GateInv /\ [Next]_vars => GateInv'
  BY TypeStep, PcStep, GateStep DEF GateInv
<1> QED
  BY <1>1, <1>2, PTL DEF Spec

\* The type invariant, for any sessions and tables.
THEOREM TypeCorrect == Spec => []TypeOK
<1>1. GateInv => TypeOK
  BY DEF GateInv
<1> QED
  BY <1>1, GateInvariant, PTL

\* The gate (Shared.txn_owner) belongs to exactly the session that is in a
\* transaction, enters one or leaves one, for any number of sessions and also
\* when BEGIN or COMMIT report errors.
THEOREM GateCorrect == Spec => []GateMatchesTransaction
<1>1. GateInv => GateMatchesTransaction
  BY DEF GateInv
<1> QED
  BY <1>1, GateInvariant, PTL

\* No session sleeps on txn_cv while the gate is free, for any number of them.
THEOREM WakeupsCorrect == Spec => []NoLostWakeup
<1>1. GateInv => NoLostWakeup
  BY DEF GateInv
<1> QED
  BY <1>1, GateInvariant, PTL

-----------------------------------------------------------------------------
(***************************************************************************)
(* Rolled-back rows.  Row numbers are handed out once, so that a row that  *)
(* was rolled back is never inserted again; while a transaction is open    *)
(* the pagers of the tables it began with do not flush.                    *)
(***************************************************************************)
InsertPending(s) == pc[s] \in {"gate", "asleep", "access"} /\ op[s].kind = "insert"

Spent(r) ==
  /\ r[2] <= inserts[r[1]]
  /\ InsertPending(r[1]) => r[2] < inserts[r[1]]

RowsSpent ==
  /\ \A x \in txnRows : Spent(x[2])
  /\ \A u \in undone : Spent(u.row)
  /\ \A t \in Tables : \A r \in mem[t] \cup db[t] : Spent(r)

TransactionHeld ==
  /\ (\E s \in Sessions : in_transaction[s]) =>
       \A t \in startTables : t \in tables /\ pagerTxn[t]
  /\ (\A s \in Sessions : ~in_transaction[s]) => txnRows = {} /\ startTables = {}
  /\ \A x \in txnRows : x[1] \in startTables => x[2] \notin db[x[1]]

RollbackInv == RowsSpent /\ TransactionHeld /\ RolledBackIsGone

\* A number once handed out stays handed out.
LEMMA SpentStep ==
  GateInv /\ [Next]_vars => \A r \in Row : Spent(r) => Spent(r)'
<1> SUFFICES ASSUME GateInv, [Next]_vars, NEW r \in Row, Spent(r) PROVE Spent(r)'
  OBVIOUS
<1> USE SessionAssumption DEF GateInv, TypeOK, Spent, InsertPending, Row
<1>0. CASE UNCHANGED vars
  BY <1>0 DEF vars, threads
<1>1. ASSUME NEW s \in Sessions, NEW o \in Statement, Request(s, o) PROVE Spent(r)'
  BY <1>1 DEF Request
<1>2. ASSUME NEW s \in Sessions, PassGate(s) \/ ClaimGate(s) \/ Sleep(s) \/ SpuriousWakeup(s)
      PROVE  Spent(r)'
  BY <1>2 DEF PassGate, ClaimGate, Sleep, SpuriousWakeup
<1>3. ASSUME NEW s \in Sessions, Release(s) PROVE Spent(r)'
  BY <1>3 DEF Release, NoStatement
<1>4. ASSUME NEW s \in Sessions,
             CreateTable(s) \/ Select(s) \/ Insert(s) \/ InsertUnknown(s) \/ InsertFault(s)
      PROVE  Spent(r)'
  BY <1>4 DEF CreateTable, Select, Insert, InsertUnknown, InsertFault, NoStatement
<1>5. ASSUME NEW s \in Sessions, Begin(s) \/ BeginErr(s) PROVE Spent(r)'
  BY <1>5 DEF Begin, BeginErr, NoStatement
<1>6. ASSUME NEW s \in Sessions, Commit(s) \/ CommitFault(s) \/ Rollback(s) PROVE Spent(r)'
  BY <1>6 DEF Commit, CommitFault, Rollback, EndTransaction
<1> QED
  BY <1>0, <1>1, <1>2, <1>3, <1>4, <1>5, <1>6 DEF Next, Step

\* An INSERT inserts a row that was never inserted before.
LEMMA NewRowIsNew ==
  ASSUME GateInv, NEW s \in Sessions, Insert(s) \/ InsertFault(s)
  PROVE  /\ op[s].table \in Tables
         /\ NewRow(s) \in Row
         /\ ~Spent(NewRow(s))
         /\ \A r \in Row : r = NewRow(s) => Spent(r)'
  BY StatementKinds, SessionAssumption
     DEF GateInv, TypeOK, PcOK, Insert, InsertFault, NewRow, Row, Spent, InsertPending

\* What a step can do to the sets of rows: an INSERT adds its own row, the end
\* of a transaction copies a table between the cache and the file.
LEMMA RowSources ==
  ASSUME GateInv, [Next]_vars
  PROVE  \/ \E s \in Sessions :
              /\ Insert(s) \/ InsertFault(s)
              /\ \A t \in Tables : mem'[t] \cup db'[t] \subseteq mem[t] \cup db[t] \cup {NewRow(s)}
         \/ \A t \in Tables : mem'[t] \cup db'[t] \subseteq mem[t] \cup db[t]
<1> USE SessionAssumption DEF GateInv, TypeOK
<1> DEFINE NoNewRows == \A t \in Tables : mem'[t] \cup db'[t] \subseteq mem[t] \cup db[t]
<1>0. CASE UNCHANGED vars
  BY <1>0 DEF vars, storage
<1>1. ASSUME NEW s \in Sessions, NEW o \in Statement, Request(s, o) PROVE NoNewRows
  BY <1>1 DEF Request, storage
<1>2. ASSUME NEW s \in Sessions,
             PassGate(s) \/ ClaimGate(s) \/ Sleep(s) \/ SpuriousWakeup(s) \/ Release(s)
             \/ CreateTable(s) \/ Select(s) \/ InsertUnknown(s) \/ Begin(s) \/ BeginErr(s)
      PROVE  NoNewRows
  BY <1>2 DEF PassGate, ClaimGate, Sleep, SpuriousWakeup, Release, CreateTable, Select,
              InsertUnknown, Begin, BeginErr, storage
<1>3. ASSUME NEW s \in Sessions, Insert(s) \/ InsertFault(s)
      PROVE  \A t \in Tables : mem'[t] \cup db'[t] \subseteq mem[t] \cup db[t] \cup {NewRow(s)}
  BY <1>3, NewRowIsNew DEF Insert, InsertFault
<1>4. ASSUME NEW s \in Sessions, Commit(s) \/ CommitFault(s) PROVE NoNewRows
  <2>1. PICK done : CommitTables(done)
    BY <1>4 DEF Commit, CommitFault
  <2> QED
    BY <1>4, <2>1 DEF Commit, CommitFault, CommitTables
<1>5. ASSUME NEW s \in Sessions, Rollback(s) PROVE NoNewRows
  BY <1>5 DEF Rollback
<1> QED
  BY <1>0, <1>1, <1>2, <1>3, <1>4, <1>5 DEF Next, Step

LEMMA RowsSpentStep == GateInv /\ RowsSpent /\ [Next]_vars => RowsSpent'
<1> SUFFICES ASSUME GateInv, RowsSpent, [Next]_vars PROVE RowsSpent'
  OBVIOUS
<1>1. \A r \in Row : Spent(r) => Spent(r)'
  BY SpentStep
<1>2. ASSUME NEW t \in Tables, NEW r \in mem'[t] \cup db'[t] PROVE Spent(r)'
  BY <1>1, <1>2, RowSources, NewRowIsNew DEF RowsSpent, GateInv, TypeOK
<1>3. ASSUME NEW x \in txnRows' PROVE Spent(x[2])'
  <2>1. x \in txnRows \/ \E s \in Sessions : Insert(s) /\ x[2] = NewRow(s)
    BY <1>3 DEF Next, Step, vars, history, Request, PassGate, ClaimGate, Sleep, SpuriousWakeup,
                Release, CreateTable, Select, Insert, InsertUnknown, InsertFault, Begin, BeginErr,
                Commit, CommitFault, Rollback, EndTransaction
  <2> QED
    BY <1>1, <2>1, NewRowIsNew DEF RowsSpent, GateInv, TypeOK
<1>4. ASSUME NEW u \in undone' PROVE Spent(u.row)'
  <2>1. u \in undone \/ \E x \in txnRows : u.row = x[2]
    BY <1>4 DEF Next, Step, vars, history, Request, PassGate, ClaimGate, Sleep, SpuriousWakeup,
                Release, CreateTable, Select, Insert, InsertUnknown, InsertFault, Begin, BeginErr,
                Commit, CommitFault, Rollback, EndTransaction
  <2> QED
    BY <1>1, <2>1 DEF RowsSpent, GateInv, TypeOK
<1> QED
  BY <1>2, <1>3, <1>4 DEF RowsSpent

\* While a session is in a transaction nobody else is.
LEMMA OneTransaction ==
  ASSUME GateInv, NEW r \in Sessions, NEW s \in Sessions, HoldsGate(r), HoldsGate(s)
  PROVE  r = s
  BY SessionAssumption DEF GateInv, GateMatchesTransaction

LEMMA TransactionHeldStep ==
  GateInv /\ RowsSpent /\ TransactionHeld /\ [Next]_vars => TransactionHeld'
<1> SUFFICES ASSUME GateInv, RowsSpent, TransactionHeld, [Next]_vars PROVE TransactionHeld'
  OBVIOUS
<1> USE SessionAssumption DEF GateInv, TypeOK, TransactionHeld
<1>0. CASE UNCHANGED vars
  BY <1>0 DEF vars, threads, storage, history
<1>1. ASSUME NEW s \in Sessions, NEW o \in Statement, Request(s, o) PROVE TransactionHeld'
  BY <1>1 DEF Request, storage, history
<1>2. ASSUME NEW s \in Sessions,
             PassGate(s) \/ ClaimGate(s) \/ Sleep(s) \/ SpuriousWakeup(s) \/ Release(s)
             \/ Select(s) \/ InsertUnknown(s) \/ InsertFault(s) \/ CreateTable(s)
      PROVE  TransactionHeld'
  BY <1>2 DEF PassGate, ClaimGate, Sleep, SpuriousWakeup, Release, Select, InsertUnknown,
              InsertFault, CreateTable, storage, history
<1>3. ASSUME NEW s \in Sessions, Insert(s) PROVE TransactionHeld'
  <2>1. /\ op[s].table \in Tables
        /\ \A t \in Tables : NewRow(s) \notin db[t]
    BY <1>3, NewRowIsNew DEF RowsSpent
  <2>2. /\ txnRows' = IF in_transaction[s] THEN txnRows \cup {<<op[s].table, NewRow(s)>>}
                                           ELSE txnRows
        /\ UNCHANGED <<in_transaction, tables, pagerTxn, startTables>>
        /\ db' = IF pagerTxn[op[s].table] THEN db
                 ELSE [db EXCEPT ![op[s].table] = mem'[op[s].table]]
    BY <1>3 DEF Insert
  <2>3. ASSUME NEW x \in txnRows', x[1] \in startTables PROVE x[2] \notin db'[x[1]]
    <3>1. \E r \in Sessions : in_transaction[r]
      BY <2>2, <2>3
    <3>2. pagerTxn[x[1]] /\ x[1] \in Tables
      BY <2>3, <3>1
    <3>3. db'[x[1]] = db[x[1]]
      BY <2>1, <2>2, <3>2
    <3> QED
      BY <2>1, <2>2, <2>3, <3>3
  <2> QED
    BY <2>2, <2>3
<1>4. ASSUME NEW s \in Sessions, Begin(s) PROVE TransactionHeld'
  <2>1. \A r \in Sessions : ~in_transaction[r]
    BY <1>4, OneTransaction DEF Begin, PcOK
  <2>2. \A t \in tables : pagerTxn'[t]
    BY <1>4 DEF Begin
  <2> QED
    BY <1>4, <2>1, <2>2 DEF Begin
<1>5. ASSUME NEW s \in Sessions, BeginErr(s) PROVE TransactionHeld'
  <2>1. \A t \in Tables : pagerTxn[t] => pagerTxn'[t]
    BY <1>5 DEF BeginErr
  <2> QED
    BY <1>5, <2>1 DEF BeginErr, history
<1>6. ASSUME NEW s \in Sessions, Commit(s) \/ CommitFault(s) \/ Rollback(s)
      PROVE  TransactionHeld'
  BY <1>6 DEF Commit, CommitFault, Rollback, EndTransaction
<1> QED
  BY <1>0, <1>1, <1>2, <1>3, <1>4, <1>5, <1>6 DEF Next, Step

LEMMA RolledBackStep == GateInv /\ RollbackInv /\ [Next]_vars => RolledBackIsGone'
<1> SUFFICES ASSUME GateInv, RollbackInv, [Next]_vars, NEW u \in undone', u.existed
             PROVE  u.row \notin mem'[u.table] \cup db'[u.table]
  BY DEF RolledBackIsGone
<1> USE SessionAssumption DEF GateInv, TypeOK
<1>1. CASE u \in undone
  <2>1. u.row \notin mem[u.table] \cup db[u.table] /\ Spent(u.row) /\ u.table \in Tables
    BY <1>1 DEF RollbackInv, RolledBackIsGone, RowsSpent
  <2> QED
    BY <2>1, RowSources, NewRowIsNew
<1>2. CASE u \notin undone
  <2>1. PICK s \in Sessions : Rollback(s)
    BY <1>2 DEF Next, Step, vars, history, Request, PassGate, ClaimGate, Sleep, SpuriousWakeup,
                Release, CreateTable, Select, Insert, InsertUnknown, InsertFault, Begin, BeginErr,
                Commit, CommitFault, EndTransaction
  <2>2. PICK x \in txnRows : u = [table |-> x[1], row |-> x[2], existed |-> x[1] \in startTables]
    BY <1>2, <2>1 DEF Rollback
  <2>3. in_transaction[s]
    BY <2>1 DEF Rollback, PcOK
  <2>4. x[1] \in startTables /\ u.table = x[1] /\ u.row = x[2]
    BY <2>2
  <2>5. x[1] \in tables /\ x[2] \notin db[x[1]]
    BY <2>3, <2>4 DEF RollbackInv, TransactionHeld
  <2> QED
    BY <2>1, <2>4, <2>5 DEF Rollback
<1> QED
  BY <1>1, <1>2

\* A rolled-back row stays out of the cache and of the `.db` for ever, for any
\* number of sessions that insert, commit and roll back around it and any I/O
\* errors on the way, in every table that existed at BEGIN.
THEOREM RollbackCorrect == Spec => []RolledBackIsGone
<1>1. Init => RollbackInv
  BY DEF Init, RollbackInv, RowsSpent, TransactionHeld, RolledBackIsGone
<1>2. GateInv /\ RollbackInv /\ [Next]_vars => RollbackInv'
  BY RowsSpentStep, TransactionHeldStep, RolledBackStep DEF RollbackInv
<1>3. RollbackInv => RolledBackIsGone
  BY DEF RollbackInv
<1> QED
  BY <1>1, <1>2, <1>3, GateInvariant, PTL DEF Spec
=============================================================================
