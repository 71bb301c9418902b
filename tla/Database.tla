------------------------------ MODULE Database ------------------------------
(***************************************************************************)
(* The catalog of storage.rs over the files of several tables: the         *)
(* start-up that loads every `.db` found, CREATE TABLE, and transactions   *)
(* that span tables, each with a pager and a log of its own.  The process  *)
(* may be killed at any step, and the disk may be full in any commit.      *)
(*                                                                         *)
(* A table is the set of its rows.  Of the pager (module Pager, where each *)
(* system call is a step) three moments of a commit remain: before the     *)
(* marker is durable, from there until the pages are in the `.db`, and     *)
(* after.  A file in which only some pages of a commit were written has    *)
(* mixed = TRUE.  Statements are one at a time: the storage RwLock is held *)
(* for the whole of each.                                                  *)
(***************************************************************************)
EXTENDS Integers

CONSTANTS
  Tables,     \* the names a table may have: those that name -> file -> name gives
              \* back.  A name that ends in `.db`, of which server.rs trims every
              \* one, or that has a directory, which find_db_files does not
              \* list, is not among them.
  NoTable,
  NoLog,      \* the log has nothing to replay
  MaxBoots,   \* bound on the starts of the process
  MaxRows,    \* bound on the rows ever inserted
  MaxFaults   \* bound on the commits that find the disk full

ASSUME DatabaseAssumption ==
  /\ NoTable \notin Tables /\ NoLog \notin [rows : SUBSET (1 .. MaxRows), mixed : BOOLEAN]
  /\ MaxBoots \in Nat /\ MaxRows \in Nat /\ MaxFaults \in Nat

VARIABLES
  pc,              \* "down", "load", "ready" or "flush"
  job,             \* in "flush": the statement and the table it names
  todo,            \* the tables its loop, or the loading loop, has left
  at,              \* the table whose marker is durable and pages are not yet
  catalog,         \* the keys of Storage.tables
  blank,           \* those with root_page 0 and no columns
  scanning,        \* a SELECT holds the storage lock and does not return
  in_transaction,  \* Session.in_transaction
  mem, pagerTxn,   \* each table's rows in the cache, and Pager.in_transaction
  size,            \* the `.db`: "absent", "empty", "odd" (no multiple of
                   \* PAGE_SIZE) or "whole"
  db,              \* its contents
  log,             \* what its log would replay
  rows, boots, faults,  \* counters
  startTables, txn,     \* history: the catalog at BEGIN; <<table, row>> since, or
                   \* of an INSERT by itself, until it is flushed
  done, undone,    \* history: <<table, row>> whose COMMIT, or INSERT by itself,
                   \* flushed and returned; and those rolled back, by ROLLBACK or
                   \* a crash
  created,         \* history: tables whose CREATE TABLE returned
  failed,          \* history: tables whose commit found the disk full
  acked, attempt   \* history: the contents last committed, and being committed

process == <<pc, job, todo, at, catalog, blank, scanning, in_transaction, mem, pagerTxn>>
disk == <<size, db, log>>
counters == <<rows, boots, faults>>
history == <<startTables, txn, done, undone, created, failed, acked, attempt>>
vars == <<process, disk, counters, history>>

Row == 1 .. MaxRows
Contents == [rows : SUBSET Row, mixed : BOOLEAN]
Job == [kind : {"create", "insert"}, table : Tables] \cup [kind : {"none", "commit"}]
NoJob == [kind |-> "none"]
Empty == [rows |-> {}, mixed |-> FALSE]

\* What Pager::open finds in the file of t.
Opening(t) == IF log[t] # NoLog THEN log[t] ELSE db[t]

Init ==
  /\ pc = "down" /\ job = NoJob /\ todo = {} /\ at = NoTable
  /\ catalog = {} /\ blank = {} /\ scanning = FALSE /\ in_transaction = FALSE
  /\ mem = [t \in Tables |-> Empty] /\ pagerTxn = [t \in Tables |-> FALSE]
  /\ size = [t \in Tables |-> "absent"] /\ db = [t \in Tables |-> Empty]
  /\ log = [t \in Tables |-> NoLog]
  /\ rows = 0 /\ boots = 0 /\ faults = 0
  /\ startTables = {} /\ txn = {} /\ done = {} /\ undone = {} /\ created = {} /\ failed = {}
  /\ acked = [t \in Tables |-> Empty] /\ attempt = [t \in Tables |-> Empty]

-----------------------------------------------------------------------------
(***************************************************************************)
(* Start-up: find_db_files, and open_table for each file, in directory     *)
(* order.  A file that fails to open is skipped with a warning.            *)
(***************************************************************************)
Start ==
  /\ pc = "down" /\ boots < MaxBoots
  /\ boots' = boots + 1
  /\ pc' = "load" /\ todo' = {t \in Tables : size[t] # "absent"}
  /\ UNCHANGED <<job, at, catalog, blank, scanning, in_transaction, mem, pagerTxn,
                 disk, rows, faults, history>>

\* Pager::open on a file of whole pages: a log with a marker is replayed over
\* the `.db` and truncated.
OpenPager(t) ==
  /\ db' = [db EXCEPT ![t] = Opening(t)]
  /\ log' = [log EXCEPT ![t] = NoLog]
  /\ size' = [size EXCEPT ![t] = IF log[t] # NoLog THEN "whole"
                                 ELSE IF @ = "absent" THEN "empty" ELSE @]

\* Mutation of OpenTable: the log is not replayed before the table is read.
OpenTableStale(t) ==
  /\ pc = "load" /\ t \in todo /\ size[t] # "odd"
  /\ mem' = [mem EXCEPT ![t] = db[t]]
  /\ catalog' = catalog \cup {t}
  /\ blank' = IF size[t] = "empty" THEN blank \cup {t} ELSE blank
  /\ todo' = todo \ {t}
  /\ acked' = [acked EXCEPT ![t] = db[t]] /\ attempt' = [attempt EXCEPT ![t] = db[t]]
  /\ log' = [log EXCEPT ![t] = NoLog]
  /\ UNCHANGED <<pc, job, at, scanning, in_transaction, pagerTxn, size, db, counters,
                 startTables, txn, done, undone, created, failed>>

\* open_table.  A file without pages reads as zeros: no columns, root page 0.
OpenTable(t) ==
  /\ pc = "load" /\ t \in todo /\ size[t] # "odd"
  /\ OpenPager(t)
  /\ mem' = [mem EXCEPT ![t] = db'[t]]
  /\ catalog' = catalog \cup {t}
  /\ blank' = IF size'[t] = "empty" THEN blank \cup {t} ELSE blank
  /\ todo' = todo \ {t}
  /\ acked' = [acked EXCEPT ![t] = db'[t]] /\ attempt' = [attempt EXCEPT ![t] = db'[t]]
  /\ UNCHANGED <<pc, job, at, scanning, in_transaction, pagerTxn, counters,
                 startTables, txn, done, undone, created, failed>>

\* Mutation of OpenRefused: the start-up does not get past a bad file.
OpenRefusedRetries(t) ==
  /\ pc = "load" /\ t \in todo /\ size[t] = "odd"
  /\ UNCHANGED vars

\* The length is checked before the log is looked at: a log that would mend the
\* file is not replayed.
OpenRefused(t) ==
  /\ pc = "load" /\ t \in todo /\ size[t] = "odd"
  /\ todo' = todo \ {t}
  /\ UNCHANGED <<pc, job, at, catalog, blank, scanning, in_transaction, mem, pagerTxn,
                 disk, counters, history>>

Listen ==
  /\ pc = "load" /\ todo = {}
  /\ pc' = "ready"
  /\ UNCHANGED <<job, todo, at, catalog, blank, scanning, in_transaction, mem, pagerTxn,
                 disk, counters, history>>

-----------------------------------------------------------------------------
(***************************************************************************)
(* Statements.  A table that is there already (CREATE), that is not there  *)
(* or has no columns (INSERT), or whose file is refused (CREATE) gives an  *)
(* error that changes nothing.                                             *)
(***************************************************************************)
Ready == pc = "ready" /\ ~scanning

Flush(j, ts) == pc' = "flush" /\ job' = j /\ todo' = ts

\* create_table: the pager is opened, which creates the file, and the new
\* table's two pages are flushed.
CreateTable(t) ==
  /\ Ready /\ t \notin catalog /\ size[t] # "odd"
  /\ OpenPager(t)
  /\ mem' = [mem EXCEPT ![t] = Empty]
  /\ Flush([kind |-> "create", table |-> t], {t})
  /\ attempt' = [attempt EXCEPT ![t] = Empty]
  /\ acked' = [acked EXCEPT ![t] = db'[t]]
  /\ UNCHANGED <<at, catalog, blank, scanning, in_transaction, pagerTxn, counters,
                 startTables, txn, done, undone, created, failed>>

Insert(t) ==
  /\ Ready /\ t \in catalog \ blank /\ rows < MaxRows
  /\ rows' = rows + 1
  /\ mem' = [mem EXCEPT ![t].rows = @ \cup {rows'}]
  /\ txn' = IF in_transaction THEN txn \cup {<<t, rows'>>} ELSE {<<t, rows'>>}
  /\ IF pagerTxn[t]
       THEN UNCHANGED <<pc, job, todo, attempt>>
       ELSE Flush([kind |-> "insert", table |-> t], {t}) /\ attempt' = [attempt EXCEPT ![t] = mem'[t]]
  /\ UNCHANGED <<at, catalog, blank, scanning, in_transaction, pagerTxn, disk, boots, faults,
                 startTables, done, undone, created, failed, acked>>

\* scan_all of a blank table starts at page 0, which is no leaf, has no keys and
\* names page 0 as its rightmost child: it never leaves its first loop.
SelectBlank(t) ==
  /\ Ready /\ t \in blank
  /\ scanning' = TRUE
  /\ UNCHANGED <<pc, job, todo, at, catalog, blank, in_transaction, mem, pagerTxn,
                 disk, counters, history>>

Begin ==
  /\ Ready /\ ~in_transaction
  /\ \A t \in catalog : ~pagerTxn[t]
  /\ pagerTxn' = [t \in Tables |-> t \in catalog]
  /\ in_transaction' = TRUE
  /\ startTables' = catalog /\ txn' = {}
  /\ UNCHANGED <<pc, job, todo, at, catalog, blank, scanning, mem, disk, counters,
                 done, undone, created, failed, acked, attempt>>

\* A pager that a failed COMMIT left in a transaction: BEGIN fails there, and
\* the pagers before it in the loop stay begun.
BeginErr ==
  /\ Ready /\ ~in_transaction
  /\ \E t \in catalog : pagerTxn[t]
  /\ \E begun \in SUBSET catalog :
       pagerTxn' = [t \in Tables |-> pagerTxn[t] \/ t \in begun]
  /\ UNCHANGED <<pc, job, todo, at, catalog, blank, scanning, in_transaction, mem,
                 disk, counters, history>>

Commit ==
  /\ Ready /\ in_transaction
  /\ Flush([kind |-> "commit"], catalog)
  /\ attempt' = [t \in Tables |-> IF t \in catalog THEN mem[t] ELSE attempt[t]]
  /\ UNCHANGED <<at, catalog, blank, scanning, in_transaction, mem, pagerTxn, disk, counters,
                 startTables, txn, done, undone, created, failed, acked>>

\* What a transaction that ends without its COMMIT leaves behind: nothing, in
\* the tables that it did not itself create.
Undo == undone' = undone \cup {x \in txn : x[1] \in startTables}

Rollback ==
  /\ Ready /\ in_transaction
  /\ mem' = [t \in Tables |-> IF t \in catalog THEN db[t] ELSE mem[t]]
  /\ log' = [t \in Tables |-> IF t \in catalog THEN NoLog ELSE log[t]]
  /\ pagerTxn' = [t \in Tables |-> FALSE]
  /\ in_transaction' = FALSE
  /\ Undo /\ txn' = {} /\ startTables' = {}
  /\ UNCHANGED <<pc, job, todo, at, catalog, blank, scanning, size, db, counters,
                 done, created, failed, acked, attempt>>

-----------------------------------------------------------------------------
(***************************************************************************)
(* Pager::commit of each table in todo, in any order (Storage.tables is a  *)
(* HashMap).  Only a new table, or one with rows that are not in the file, *)
(* has dirty pages.                                                        *)
(***************************************************************************)
\* Mutation of HasDirty: the pages of a new table are not marked dirty.
HasDirtyRows(t) == mem[t] # db[t]

HasDirty(t) == job.kind = "create" \/ mem[t] # db[t]

\* The pages and the marker are in the log.
LogTable(t) ==
  /\ pc = "flush" /\ at = NoTable /\ t \in todo /\ HasDirty(t)
  /\ log' = [log EXCEPT ![t] = mem[t]]
  /\ at' = t
  /\ UNCHANGED <<pc, job, todo, catalog, blank, scanning, in_transaction, mem, pagerTxn,
                 size, db, counters, history>>

\* Mutation of ApplyTable: the loop does not move on.
ApplyTableStays ==
  /\ pc = "flush" /\ at # NoTable
  /\ db' = [db EXCEPT ![at] = mem[at]] /\ size' = [size EXCEPT ![at] = "whole"]
  /\ log' = [log EXCEPT ![at] = NoLog]
  /\ pagerTxn' = [pagerTxn EXCEPT ![at] = FALSE]
  /\ todo' = todo \ {at}
  /\ UNCHANGED <<pc, job, at, catalog, blank, scanning, in_transaction, mem, counters, history>>

\* The pages are in the `.db` and the log is truncated.
ApplyTable ==
  /\ pc = "flush" /\ at # NoTable
  /\ db' = [db EXCEPT ![at] = mem[at]] /\ size' = [size EXCEPT ![at] = "whole"]
  /\ log' = [log EXCEPT ![at] = NoLog]
  /\ pagerTxn' = [pagerTxn EXCEPT ![at] = FALSE]
  /\ todo' = todo \ {at} /\ at' = NoTable
  /\ UNCHANGED <<pc, job, catalog, blank, scanning, in_transaction, mem, counters, history>>

\* Mutation of CommitClean: a table with nothing to write stays in its transaction.
CommitCleanStaysBegun(t) ==
  /\ pc = "flush" /\ at = NoTable /\ t \in todo /\ ~HasDirty(t)
  /\ log' = [log EXCEPT ![t] = NoLog]
  /\ todo' = todo \ {t}
  /\ UNCHANGED <<pc, job, at, catalog, blank, scanning, in_transaction, mem, pagerTxn, size, db,
                 counters, history>>

\* Mutation of CommitClean: a table with nothing to write is never finished.
CommitCleanSkips(t) ==
  /\ pc = "flush" /\ at = NoTable /\ t \in todo /\ ~HasDirty(t)
  /\ pagerTxn' = [pagerTxn EXCEPT ![t] = FALSE]
  /\ UNCHANGED <<pc, job, todo, at, catalog, blank, scanning, in_transaction, mem,
                 disk, counters, history>>

CommitClean(t) ==
  /\ pc = "flush" /\ at = NoTable /\ t \in todo /\ ~HasDirty(t)
  /\ log' = [log EXCEPT ![t] = NoLog]
  /\ pagerTxn' = [pagerTxn EXCEPT ![t] = FALSE]
  /\ todo' = todo \ {t}
  /\ UNCHANGED <<pc, job, at, catalog, blank, scanning, in_transaction, mem, size, db,
                 counters, history>>

\* A COMMIT, or an INSERT of its own, has made its rows durable.
Settles == job.kind = "commit" \/ (job.kind = "insert" /\ ~in_transaction)

Named == IF job.kind = "commit" THEN catalog ELSE {job.table}

Answer ==
  /\ pc' = "ready" /\ job' = NoJob /\ todo' = {} /\ at' = NoTable
  /\ in_transaction' = (in_transaction /\ job.kind # "commit")
  /\ startTables' = IF job.kind = "commit" THEN {} ELSE startTables
  /\ txn' = IF Settles THEN {} ELSE txn

\* The statement returns success.
Returns ==
  /\ catalog' = catalog \cup Named
  /\ created' = IF job.kind = "create" THEN created \cup {job.table} ELSE created
  /\ done' = IF Settles THEN done \cup txn ELSE done
  /\ acked' = [t \in Tables |-> IF t \in Named THEN attempt[t] ELSE acked[t]]
  /\ Answer
  /\ UNCHANGED <<blank, scanning, mem, pagerTxn, disk, counters, undone, failed, attempt>>

\* Mutation of FlushEnd: the loop ends with a table to go.
FlushEndEarly == pc = "flush" /\ at = NoTable /\ (\A t, u \in todo : t = u) /\ Returns

FlushEnd == pc = "flush" /\ at = NoTable /\ todo = {} /\ Returns

\* The disk is full: while the log is written, which leaves the `.db` alone (the
\* marker is written for a table without dirty pages too), or while the pages are,
\* of which some and a part of one may be in the `.db`.
\* The statement returns an error, and the tables after this one are skipped;
\* a COMMIT ends its session's transaction all the same.  The tables before it
\* are committed.
DiskFull(t) ==
  /\ pc = "flush" /\ t \in todo /\ at \in {t, NoTable}
  /\ faults < MaxFaults /\ faults' = faults + 1
  /\ \/ UNCHANGED <<size, db>>
     \/ at = t /\ size' = [size EXCEPT ![t] = "odd"] /\ UNCHANGED db
     \/ /\ at = t
        /\ db' = [db EXCEPT ![t] = [mem[t] EXCEPT !.mixed = TRUE]]
        /\ \E s \in {"odd", "whole"} : size' = [size EXCEPT ![t] = s]
  /\ failed' = failed \cup {t}
  /\ mem' = IF job.kind = "create" THEN [mem EXCEPT ![t] = Empty] ELSE mem
  /\ acked' = [u \in Tables |-> IF u \in Named \ todo THEN attempt[u] ELSE acked[u]]
  /\ Answer
  /\ UNCHANGED <<catalog, blank, scanning, pagerTxn, log, rows, boots,
                 done, undone, created, attempt>>

-----------------------------------------------------------------------------
\* The process is killed.  In the middle of ApplyTable it leaves any part of the
\* pages in the `.db`, and the log as it was.
Kill ==
  /\ pc # "down"
  /\ \/ UNCHANGED <<size, db>>
     \/ /\ at # NoTable
        /\ \E m \in BOOLEAN : db' = [db EXCEPT ![at] = [mem[at] EXCEPT !.mixed = @ \/ m]]
        /\ size' = [size EXCEPT ![at] = "whole"]
  /\ pc' = "down" /\ job' = NoJob /\ todo' = {} /\ at' = NoTable
  /\ catalog' = {} /\ blank' = {} /\ scanning' = FALSE /\ in_transaction' = FALSE
  /\ mem' = [t \in Tables |-> Empty] /\ pagerTxn' = [t \in Tables |-> FALSE]
  /\ IF job.kind = "commit" THEN UNCHANGED undone ELSE Undo
  /\ txn' = {} /\ startTables' = {}
  /\ UNCHANGED <<log, counters, done, created, failed, acked, attempt>>

Loading == (\E t \in Tables : OpenTable(t) \/ OpenRefused(t)) \/ Listen

Flushing ==
  \/ \E t \in Tables : LogTable(t) \/ CommitClean(t)
  \/ ApplyTable \/ FlushEnd

Next ==
  \/ Start \/ Loading \/ Flushing
  \/ \E t \in Tables : CreateTable(t) \/ Insert(t) \/ SelectBlank(t) \/ DiskFull(t)
  \/ Begin \/ BeginErr \/ Commit \/ Rollback
  \/ Kill

Spec == Init /\ [][Next]_vars

(***************************************************************************)
(* Fairness: start-up and commit are loops that nothing blocks.            *)
(***************************************************************************)
FairSpec == Spec /\ WF_vars(Loading) /\ WF_vars(Flushing)

-----------------------------------------------------------------------------
TypeOK ==
  /\ pc \in {"down", "load", "ready", "flush"} /\ job \in Job
  /\ todo \subseteq Tables /\ at \in todo \cup {NoTable}
  /\ catalog \subseteq Tables /\ blank \subseteq catalog
  /\ scanning \in BOOLEAN /\ in_transaction \in BOOLEAN
  /\ mem \in [Tables -> Contents] /\ pagerTxn \in [Tables -> BOOLEAN]
  /\ size \in [Tables -> {"absent", "empty", "odd", "whole"}]
  /\ db \in [Tables -> Contents] /\ log \in [Tables -> Contents \cup {NoLog}]
  /\ rows \in 0 .. MaxRows /\ boots \in 0 .. MaxBoots /\ faults \in 0 .. MaxFaults
  /\ startTables \subseteq Tables /\ txn \subseteq Tables \X Row
  /\ done \subseteq Tables \X Row /\ undone \subseteq Tables \X Row
  /\ created \subseteq Tables /\ failed \subseteq Tables
  /\ acked \in [Tables -> Contents] /\ attempt \in [Tables -> Contents]

\* Every table by itself is atomic through the start-up, also when the crash
\* came between the commits of two tables: its file opens as last committed or
\* as the commit under way was to leave it, and never as a mixture of the two,
\* unless the disk was full before.
OpensAsCommitted ==
  \A t \in Tables \ failed : Opening(t) \in {acked[t], attempt[t]} /\ ~Opening(t).mixed

\* A transaction whose COMMIT returned is on disk in all its tables, and one
\* that was rolled back, or cut off before its COMMIT, in none.  Only a crash
\* or an error inside COMMIT can leave it in some of them.
TransactionsAreWhole ==
  /\ \A x \in done : x[1] \notin failed => x[2] \in Opening(x[1]).rows
  /\ \A x \in undone : x[2] \notin Opening(x[1]).rows

\* A table whose CREATE TABLE returned is there after every start, with its
\* columns; a commit that met a full disk may leave a file that is refused.
CreatedTableLoads ==
  pc = "ready" =>
    \A t \in created : t \in catalog \ blank \/ (size[t] = "odd" /\ t \in failed)

\* Start-up gets past every file, whatever state it is in, and a statement that
\* flushes is answered, unless the process is killed.
StartupFinishes == pc = "load" ~> pc \in {"ready", "down"}
FlushFinishes == pc = "flush" ~> pc \in {"ready", "down"}

\* "Without an explicit `BEGIN`, every statement auto-commits" (PROGRESS.md): outside
\* transactions what a SELECT reads is on disk, so that no INSERT was acknowledged
\* without its flush.  Only a table whose pager a failed COMMIT, or the BEGIN that
\* failed on it, has left in a transaction may have rows in the cache alone, and
\* one whose own commit failed.
AcknowledgedIsDurable ==
  pc = "ready" /\ ~in_transaction =>
    \A t \in catalog \ failed :
      mem[t] = Opening(t) \/ (pagerTxn[t] /\ failed # {})

\* "Crash at any point is safe" (PROGRESS.md): in particular no table that a
\* start finds makes its readers wait for ever.
EveryScanEnds == ~scanning
=============================================================================
