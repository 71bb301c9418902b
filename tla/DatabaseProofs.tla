--------------------------- MODULE DatabaseProofs ---------------------------
(***************************************************************************)
(* Proofs about Database, for any set of tables and any number of rows,    *)
(* starts and full disks: every table opens as it was committed, finished  *)
(* transactions are whole, what CREATE TABLE returned loads, and each      *)
(* table by itself implements the durable store of its pager.              *)
(***************************************************************************)
EXTENDS DatabaseStore, TLAPS

-----------------------------------------------------------------------------
(***************************************************************************)
(* The inductive invariant.                                                *)
(***************************************************************************)
\* The control: which tables a statement under way may touch.  A transaction holds
\* every table that was there at its BEGIN, until its COMMIT; a statement that
\* flushes by itself names none of these.
ControlOK ==
  /\ pc # "flush" => job.kind = "none" /\ at = NoTable
  /\ pc \in {"down", "ready"} => todo = {}
  /\ pc \in {"down", "load"} => ~in_transaction /\ txn = {}
  /\ pc = "down" => catalog = {}
  /\ pc = "load" => todo \cap catalog = {} /\ \A t \in todo : size[t] # "absent"
  /\ pc = "flush" => job.kind # "none" /\ todo \subseteq Named
  /\ job.kind = "create" => job.table \notin catalog \cup created
  /\ job.kind = "insert" => job.table \in catalog /\ ~pagerTxn[job.table]
  /\ job.kind = "insert" /\ ~in_transaction => \A x \in txn : x[1] = job.table
  /\ job.kind = "commit" => in_transaction
  /\ startTables \subseteq catalog
  /\ ~in_transaction => startTables = {}
  /\ job.kind # "commit" => \A t \in startTables : pagerTxn[t]

\* The tables whose file the process has open.
Open == catalog \cup (IF pc = "flush" THEN Named ELSE {})

\* What a statement under way is about to make durable is what the cache holds.
FlushOK ==
  pc = "flush" =>
    /\ \A t \in Named : attempt[t] = mem[t]
    /\ at # NoTable => log[at] = mem[at]

\* One table whose commits have not met a full disk.  Its log is empty, or holds
\* the commit that is under way or was cut off; its file is whole but for that.
FileOK(t) ==
  /\ ~acked[t].mixed /\ ~attempt[t].mixed /\ ~mem[t].mixed
  /\ log[t] = NoLog => db[t] \in {acked[t], attempt[t]}
  /\ log[t] # NoLog => log[t] = attempt[t]
  /\ t \in Open /\ at # t => log[t] = NoLog
  /\ t \in Open => db[t] = IF pc = "flush" /\ t \in Named \ todo THEN attempt[t] ELSE acked[t]

\* Row numbers are given out in order.
FreshOK ==
  \A t \in Tables :
    /\ \A r \in mem[t].rows : r <= rows
    /\ \A r \in db[t].rows : r <= rows
    /\ log[t] # NoLog => \A r \in log[t].rows : r <= rows

\* A row is in neither the file of its table nor its log.
NotOnDisk(x) ==
  /\ x[2] \notin db[x[1]].rows
  /\ log[x[1]] # NoLog => x[2] \notin log[x[1]].rows

\* The rows of the transaction are in the cache and, in the tables that were there
\* at its BEGIN, nowhere else before its COMMIT.
TxnOK ==
  \A x \in txn :
    /\ x[1] \in catalog \ blank /\ x[2] \in mem[x[1]].rows
    /\ job.kind # "commit" /\ x[1] \in startTables => NotOnDisk(x)

\* A row that was rolled back is nowhere.
UndoneOK ==
  \A x \in undone : x[2] <= rows /\ x[2] \notin mem[x[1]].rows /\ NotOnDisk(x)

\* A row whose COMMIT returned is in the file, in what a commit under way leaves
\* and in the cache.
DoneOK ==
  \A x \in done :
    x[1] \notin failed =>
      /\ x[2] \in acked[x[1]].rows /\ x[2] \in attempt[x[1]].rows
      /\ x[1] \in catalog => x[2] \in mem[x[1]].rows
      /\ size[x[1]] = "whole"
      /\ pc \in {"ready", "flush"} => x[1] \in catalog
      /\ pc = "load" => x[1] \in catalog \cup todo

\* The length of a file, and which tables a start has found or has yet to.
SizeOK ==
  /\ \A t \in Tables : size[t] = "odd" => t \in failed
  /\ \A t \in catalog \ (blank \cup failed) : size[t] = "whole"
  /\ job.kind = "create" /\ job.table \notin todo => size[job.table] = "whole"
  /\ \A t \in created :
       /\ size[t] \in {"whole", "odd"}
       /\ \/ pc = "down"
          \/ t \in catalog \ blank
          \/ t \notin catalog /\ size[t] = "odd"
          \/ t \notin catalog /\ pc = "load" /\ t \in todo

DatabaseInv ==
  /\ TypeOK /\ ControlOK /\ FlushOK
  /\ \A t \in Tables \ failed : FileOK(t)
  /\ FreshOK /\ TxnOK /\ UndoneOK /\ DoneOK /\ SizeOK

-----------------------------------------------------------------------------
(***************************************************************************)
(* Facts about the data.                                                   *)
(***************************************************************************)
\* A statement under way names a table unless it is a COMMIT.
LEMMA JobCases ==
  ASSUME NEW j \in Job
  PROVE  /\ j.kind \in {"none", "create", "insert", "commit"}
         /\ j.kind \in {"create", "insert"} => j.table \in Tables
  BY DEF Job

LEMMA NoJobKind == NoJob \in Job /\ NoJob.kind = "none"
  BY DEF Job, NoJob

LEMMA EmptyContents == Empty \in Contents /\ Empty.rows = {} /\ ~Empty.mixed
<1>1. Empty \in [rows : SUBSET Row, mixed : BOOLEAN]
  <2>1. {} \in SUBSET Row /\ FALSE \in BOOLEAN
    OBVIOUS
  <2> QED
    BY <2>1, Zenon DEF Empty
<1>2. Empty.rows = {} /\ Empty.mixed = FALSE
  BY DEF Empty
<1> QED
  BY <1>1, <1>2 DEF Contents

LEMMA ContentsFields ==
  ASSUME NEW c \in Contents
  PROVE  c.rows \subseteq Row /\ c.mixed \in BOOLEAN
  BY Zenon DEF Contents

\* The file of a table, as the next open finds it, is a table's contents.
LEMMA OpeningType ==
  ASSUME TypeOK, NEW t \in Tables
  PROVE  Opening(t) \in Contents
  BY DEF TypeOK, Opening

\* The inductive invariant holds before the first start.
LEMMA InitDatabase == Init => DatabaseInv
<1> SUFFICES ASSUME Init PROVE DatabaseInv
  OBVIOUS
<1>a. job.kind = "none" /\ job \in Job
  BY NoJobKind DEF Init
<1>b. \A t \in Tables : /\ mem[t] = Empty /\ db[t] = Empty /\ acked[t] = Empty
                        /\ attempt[t] = Empty /\ log[t] = NoLog /\ size[t] = "absent"
  BY DEF Init
<1>1. TypeOK
  <2>1. /\ mem \in [Tables -> Contents] /\ db \in [Tables -> Contents]
        /\ acked \in [Tables -> Contents] /\ attempt \in [Tables -> Contents]
        /\ log \in [Tables -> Contents \cup {NoLog}]
    BY EmptyContents DEF Init
  <2>2. pagerTxn \in [Tables -> BOOLEAN] /\ scanning \in BOOLEAN /\ in_transaction \in BOOLEAN
    BY DEF Init
  <2>3. rows \in 0 .. MaxRows /\ boots \in 0 .. MaxBoots /\ faults \in 0 .. MaxFaults
    BY DatabaseAssumption DEF Init
  <2>4. /\ pc \in {"down", "load", "ready", "flush"}
        /\ todo \subseteq Tables /\ at \in todo \cup {NoTable}
        /\ catalog \subseteq Tables /\ blank \subseteq catalog
        /\ size \in [Tables -> {"absent", "empty", "odd", "whole"}]
        /\ startTables \subseteq Tables /\ txn \subseteq Tables \X Row
        /\ done \subseteq Tables \X Row /\ undone \subseteq Tables \X Row
        /\ created \subseteq Tables /\ failed \subseteq Tables
    BY DEF Init
  <2> QED
    BY <1>a, <2>1, <2>2, <2>3, <2>4 DEF TypeOK
<1>2. ControlOK
  BY <1>a DEF Init, ControlOK
<1>3. FlushOK /\ TxnOK /\ UndoneOK /\ DoneOK
  BY DEF Init, FlushOK, TxnOK, UndoneOK, DoneOK
<1>4. \A t \in Tables \ failed : FileOK(t)
  BY <1>b, EmptyContents DEF Init, FileOK, Open
<1>5. FreshOK
  BY <1>b, EmptyContents DEF FreshOK
<1>6. SizeOK
  BY <1>a, <1>b DEF Init, SizeOK
<1> QED
  BY <1>1, <1>2, <1>3, <1>4, <1>5, <1>6 DEF DatabaseInv

-----------------------------------------------------------------------------
(***************************************************************************)
(* Start-up.                                                               *)
(***************************************************************************)
\* A step that changes neither the tables nor the history keeps what is said of
\* the rows.
LEMMA RowsKept ==
  ASSUME DatabaseInv, UNCHANGED <<job, catalog, blank, mem, disk, rows, startTables, txn, undone>>
  PROVE  FreshOK' /\ TxnOK' /\ UndoneOK'
  BY DEF DatabaseInv, disk, FreshOK, TxnOK, UndoneOK, NotOnDisk

LEMMA StartStep == DatabaseInv /\ Start => DatabaseInv'
<1> SUFFICES ASSUME DatabaseInv, Start PROVE DatabaseInv'
  OBVIOUS
<1> USE DatabaseAssumption DEF Start, DatabaseInv, history, disk
<1>1. TypeOK'
  BY DEF TypeOK, ControlOK
<1>2. ControlOK'
  BY DEF ControlOK, TypeOK
<1>3. FlushOK'
  BY DEF FlushOK
<1>4. \A t \in Tables \ failed' : FileOK(t)'
  BY DEF FileOK, Open, ControlOK
<1>5. FreshOK' /\ TxnOK' /\ UndoneOK'
  BY RowsKept
<1>6. DoneOK'
  BY DEF DoneOK, TypeOK
<1>7. SizeOK'
  BY DEF SizeOK, ControlOK, TypeOK
<1> QED
  BY <1>1, <1>2, <1>3, <1>4, <1>5, <1>6, <1>7

LEMMA OpenRefusedStep ==
  ASSUME DatabaseInv, NEW t \in Tables, OpenRefused(t) PROVE DatabaseInv'
<1> USE DatabaseAssumption DEF OpenRefused, DatabaseInv, history, disk, counters
<1>1. TypeOK'
  BY DEF TypeOK, ControlOK
<1>2. ControlOK'
  BY DEF ControlOK, TypeOK
<1>3. FlushOK'
  BY DEF FlushOK
<1>4. \A u \in Tables \ failed' : FileOK(u)'
  BY DEF FileOK, Open
<1>5. FreshOK' /\ TxnOK' /\ UndoneOK'
  BY RowsKept
<1>6. DoneOK'
  BY DEF DoneOK, TypeOK
<1>7. SizeOK'
  BY DEF SizeOK, ControlOK, TypeOK
<1> QED
  BY <1>1, <1>2, <1>3, <1>4, <1>5, <1>6, <1>7

LEMMA ListenStep == DatabaseInv /\ Listen => DatabaseInv'
<1> SUFFICES ASSUME DatabaseInv, Listen PROVE DatabaseInv'
  OBVIOUS
<1> USE DatabaseAssumption DEF Listen, DatabaseInv, history, disk, counters
<1>1. TypeOK'
  BY DEF TypeOK
<1>2. ControlOK'
  BY DEF ControlOK
<1>3. FlushOK'
  BY DEF FlushOK
<1>4. \A u \in Tables \ failed' : FileOK(u)'
  BY DEF FileOK, Open
<1>5. FreshOK' /\ TxnOK' /\ UndoneOK'
  BY RowsKept
<1>6. DoneOK'
  BY DEF DoneOK, TypeOK
<1>7. SizeOK'
  BY DEF SizeOK
<1> QED
  BY <1>1, <1>2, <1>3, <1>4, <1>5, <1>6, <1>7

LEMMA SelectBlankStep ==
  ASSUME DatabaseInv, NEW t \in Tables, SelectBlank(t) PROVE DatabaseInv'
<1> USE DatabaseAssumption DEF SelectBlank, DatabaseInv, history, disk, counters
<1>1. TypeOK'
  BY DEF TypeOK
<1>2. ControlOK'
  BY DEF ControlOK, Named
<1>3. FlushOK'
  BY DEF FlushOK, Named
<1>4. \A u \in Tables \ failed' : FileOK(u)'
  BY DEF FileOK, Open, Named
<1>5. FreshOK' /\ TxnOK' /\ UndoneOK'
  BY RowsKept
<1>6. DoneOK'
  BY DEF DoneOK
<1>7. SizeOK'
  BY DEF SizeOK
<1> QED
  BY <1>1, <1>2, <1>3, <1>4, <1>5, <1>6, <1>7

\* Pager::open leaves in the `.db` what it found there or in the log, empties the
\* log and never shortens the file.
LEMMA OpenPagerEffect ==
  ASSUME TypeOK, NEW t \in Tables, OpenPager(t), size[t] # "odd"
  PROVE  /\ db' \in [Tables -> Contents] /\ log' \in [Tables -> Contents \cup {NoLog}]
         /\ size' \in [Tables -> {"absent", "empty", "odd", "whole"}]
         /\ db'[t] = Opening(t) /\ log'[t] = NoLog /\ size'[t] \in {"empty", "whole"}
         /\ size[t] = "whole" => size'[t] = "whole"
         /\ \A u \in Tables : u # t => db'[u] = db[u] /\ log'[u] = log[u] /\ size'[u] = size[u]
<1>1. db' \in [Tables -> Contents] /\ db'[t] = Opening(t)
  BY OpeningType DEF TypeOK, OpenPager
<1>2. log' \in [Tables -> Contents \cup {NoLog}] /\ log'[t] = NoLog
  BY DEF TypeOK, OpenPager
<1>3. /\ size' \in [Tables -> {"absent", "empty", "odd", "whole"}]
      /\ size'[t] \in {"empty", "whole"}
      /\ size[t] = "whole" => size'[t] = "whole"
  BY DEF TypeOK, OpenPager
<1>4. \A u \in Tables : u # t => db'[u] = db[u] /\ log'[u] = log[u] /\ size'[u] = size[u]
  BY DEF TypeOK, OpenPager
<1> QED
  BY <1>1, <1>2, <1>3, <1>4

\* What a row that is neither in the file nor in the log has to do with opening it.
LEMMA NotOnDiskOpening ==
  ASSUME NEW x, NotOnDisk(x)
  PROVE  x[2] \notin Opening(x[1]).rows
  BY DEF NotOnDisk, Opening

\* A table whose commits have not met a full disk opens as one of its two versions.
LEMMA FileOpening ==
  ASSUME NEW t, FileOK(t)
  PROVE  Opening(t) \in {acked[t], attempt[t]} /\ ~Opening(t).mixed
  BY DEF FileOK, Opening

LEMMA OpenTableStep ==
  ASSUME DatabaseInv, NEW t \in Tables, OpenTable(t) PROVE DatabaseInv'
<1>a. /\ pc = "load" /\ t \in todo /\ size[t] # "odd" /\ OpenPager(t)
      /\ mem' = [mem EXCEPT ![t] = db'[t]]
      /\ catalog' = catalog \cup {t}
      /\ blank' = IF size'[t] = "empty" THEN blank \cup {t} ELSE blank
      /\ todo' = todo \ {t}
      /\ acked' = [acked EXCEPT ![t] = db'[t]] /\ attempt' = [attempt EXCEPT ![t] = db'[t]]
      /\ UNCHANGED <<pc, job, at, scanning, in_transaction, pagerTxn, rows, boots, faults,
                     startTables, txn, done, undone, created, failed>>
  BY DEF OpenTable, counters
<1>b. /\ db' \in [Tables -> Contents] /\ log' \in [Tables -> Contents \cup {NoLog}]
      /\ size' \in [Tables -> {"absent", "empty", "odd", "whole"}]
      /\ db'[t] = Opening(t) /\ log'[t] = NoLog /\ size'[t] \in {"empty", "whole"}
      /\ size[t] = "whole" => size'[t] = "whole"
      /\ \A u \in Tables : u # t => db'[u] = db[u] /\ log'[u] = log[u] /\ size'[u] = size[u]
  BY <1>a, OpenPagerEffect DEF DatabaseInv
<1>c. /\ TypeOK /\ at = NoTable /\ job.kind = "none" /\ t \notin catalog /\ txn = {}
      /\ startTables = {} /\ ~in_transaction
  <2>1. at = NoTable /\ job.kind = "none" /\ t \notin catalog /\ ~in_transaction
    BY <1>a DEF DatabaseInv, ControlOK
  <2> QED
    BY <1>a, <2>1 DEF DatabaseInv, ControlOK, TxnOK
<1>1. TypeOK'
  <2>1. /\ mem' \in [Tables -> Contents]
        /\ acked' \in [Tables -> Contents] /\ attempt' \in [Tables -> Contents]
    BY <1>a, <1>b, <1>c DEF TypeOK
  <2> QED
    BY <1>a, <1>b, <1>c, <2>1 DEF TypeOK
<1>d. /\ mem'[t] = Opening(t) /\ acked'[t] = Opening(t) /\ attempt'[t] = Opening(t)
      /\ \A u \in Tables : u # t => /\ mem'[u] = mem[u] /\ acked'[u] = acked[u]
                                    /\ attempt'[u] = attempt[u]
  BY <1>a, <1>b, <1>c DEF TypeOK
<1>2. ControlOK'
  BY <1>a, <1>b, <1>c DEF DatabaseInv, ControlOK, TypeOK
<1>3. FlushOK'
  BY <1>a DEF FlushOK
<1>4. \A u \in Tables \ failed' : FileOK(u)'
  <2> SUFFICES ASSUME NEW u \in Tables \ failed PROVE FileOK(u)'
    BY <1>a
  <2>0. FileOK(u)
    BY DEF DatabaseInv
  <2>1. CASE u = t
    <3>1. ~Opening(u).mixed
      BY <2>0, FileOpening
    <3> QED
      BY <1>a, <1>b, <1>d, <2>1, <3>1 DEF FileOK
  <2>2. CASE u # t
    <3>1. u \in Open' => u \in Open
      BY <1>a, <2>2 DEF Open
    <3> QED
      BY <1>a, <1>b, <1>d, <2>0, <2>2, <3>1 DEF FileOK
  <2> QED
    BY <2>1, <2>2
<1>5. FreshOK'
  BY <1>a, <1>b, <1>d DEF DatabaseInv, FreshOK, Opening
<1>6. TxnOK'
  BY <1>a, <1>c DEF TxnOK
<1>7. UndoneOK'
  <2> SUFFICES ASSUME NEW x \in undone
               PROVE  x[2] <= rows /\ x[2] \notin mem'[x[1]].rows /\ NotOnDisk(x)'
    BY <1>a DEF UndoneOK
  <2>1. x[1] \in Tables /\ x[2] <= rows /\ x[2] \notin mem[x[1]].rows /\ NotOnDisk(x)
    BY <1>c DEF DatabaseInv, UndoneOK, TypeOK
  <2>2. x[2] \notin Opening(x[1]).rows
    BY <2>1, NotOnDiskOpening
  <2> QED
    BY <1>b, <1>d, <2>1, <2>2 DEF NotOnDisk
<1>8. DoneOK'
  <2> SUFFICES ASSUME NEW x \in done, x[1] \notin failed
               PROVE  /\ x[2] \in acked'[x[1]].rows /\ x[2] \in attempt'[x[1]].rows
                      /\ x[1] \in catalog' => x[2] \in mem'[x[1]].rows
                      /\ size'[x[1]] = "whole"
                      /\ x[1] \in catalog' \cup todo'
    BY <1>a DEF DoneOK
  <2>1. /\ x[1] \in Tables /\ x[2] \in acked[x[1]].rows /\ x[2] \in attempt[x[1]].rows
        /\ x[1] \in catalog => x[2] \in mem[x[1]].rows
        /\ size[x[1]] = "whole" /\ x[1] \in catalog \cup todo
    BY <1>a, <1>c DEF DatabaseInv, DoneOK, TypeOK
  <2>2. x[2] \in Opening(x[1]).rows
    BY <2>1, FileOpening DEF DatabaseInv
  <2> QED
    BY <1>a, <1>b, <1>d, <2>1, <2>2
<1>9. SizeOK'
  BY <1>a, <1>b, <1>c DEF DatabaseInv, SizeOK, TypeOK
<1> QED
  BY <1>1, <1>2, <1>3, <1>4, <1>5, <1>6, <1>7, <1>8, <1>9 DEF DatabaseInv

-----------------------------------------------------------------------------
(***************************************************************************)
(* Statements.                                                             *)
(***************************************************************************)
LEMMA CreateTableStep ==
  ASSUME DatabaseInv, NEW t \in Tables, CreateTable(t) PROVE DatabaseInv'
<1>a. /\ pc = "ready" /\ t \notin catalog /\ size[t] # "odd" /\ OpenPager(t)
      /\ mem' = [mem EXCEPT ![t] = Empty]
      /\ pc' = "flush" /\ job' = [kind |-> "create", table |-> t] /\ todo' = {t}
      /\ attempt' = [attempt EXCEPT ![t] = Empty]
      /\ acked' = [acked EXCEPT ![t] = db'[t]]
      /\ UNCHANGED <<at, catalog, blank, scanning, in_transaction, pagerTxn, rows, boots, faults,
                     startTables, txn, done, undone, created, failed>>
  BY DEF CreateTable, Ready, Flush, counters
<1>b. /\ db' \in [Tables -> Contents] /\ log' \in [Tables -> Contents \cup {NoLog}]
      /\ size' \in [Tables -> {"absent", "empty", "odd", "whole"}]
      /\ db'[t] = Opening(t) /\ log'[t] = NoLog /\ size'[t] \in {"empty", "whole"}
      /\ size[t] = "whole" => size'[t] = "whole"
      /\ \A u \in Tables : u # t => db'[u] = db[u] /\ log'[u] = log[u] /\ size'[u] = size[u]
  BY <1>a, OpenPagerEffect DEF DatabaseInv
<1>c. /\ TypeOK /\ at = NoTable /\ t # NoTable /\ t \notin created
      /\ \A x \in txn : x[1] # t
  <2>1. at = NoTable /\ TypeOK /\ t # NoTable
    BY <1>a, DatabaseAssumption DEF DatabaseInv, ControlOK
  <2>2. t \notin created
    BY <1>a DEF DatabaseInv, SizeOK
  <2>3. \A x \in txn : x[1] # t
    BY <1>a DEF DatabaseInv, TxnOK
  <2> QED
    BY <2>1, <2>2, <2>3
<1>d. /\ mem'[t] = Empty /\ acked'[t] = Opening(t) /\ attempt'[t] = Empty
      /\ \A u \in Tables : u # t => /\ mem'[u] = mem[u] /\ acked'[u] = acked[u]
                                    /\ attempt'[u] = attempt[u]
  BY <1>a, <1>b, <1>c DEF TypeOK
<1>e. /\ job' \in Job /\ job'.kind = "create" /\ job'.table = t /\ Named' = {t}
  BY <1>a DEF Job, Named
<1>1. TypeOK'
  <2>1. /\ mem' \in [Tables -> Contents]
        /\ acked' \in [Tables -> Contents] /\ attempt' \in [Tables -> Contents]
    BY <1>a, <1>b, <1>c, EmptyContents DEF TypeOK
  <2> QED
    BY <1>a, <1>b, <1>c, <1>e, <2>1 DEF TypeOK
<1>2. ControlOK'
  <2>1. job.kind = "none"
    BY <1>a DEF DatabaseInv, ControlOK
  <2> QED
    BY <1>a, <1>c, <1>e, <2>1 DEF DatabaseInv, ControlOK, TypeOK
<1>3. FlushOK'
  BY <1>a, <1>c, <1>d, <1>e DEF FlushOK
<1>4. \A u \in Tables \ failed' : FileOK(u)'
  <2> SUFFICES ASSUME NEW u \in Tables \ failed PROVE FileOK(u)'
    BY <1>a
  <2>0. FileOK(u)
    BY DEF DatabaseInv
  <2>1. CASE u = t
    <3>1. ~Opening(u).mixed
      BY <2>0, FileOpening
    <3> QED
      BY <1>a, <1>b, <1>d, <1>e, <2>1, <3>1, EmptyContents DEF FileOK
  <2>2. CASE u # t
    <3>1. u \in Open' => u \in Open
      BY <1>a, <1>e, <2>2 DEF Open
    <3> QED
      BY <1>a, <1>b, <1>d, <1>e, <2>0, <2>2, <3>1 DEF FileOK
  <2> QED
    BY <2>1, <2>2
<1>5. FreshOK'
  BY <1>a, <1>b, <1>d, EmptyContents DEF DatabaseInv, FreshOK, Opening
<1>6. TxnOK'
  <2> SUFFICES ASSUME NEW x \in txn
               PROVE  /\ x[1] \in catalog \ blank /\ x[2] \in mem'[x[1]].rows
                      /\ x[1] \in startTables => NotOnDisk(x)'
    BY <1>a, <1>e DEF TxnOK
  <2>1. /\ x[1] \in Tables /\ x[1] # t /\ x[1] \in catalog \ blank /\ x[2] \in mem[x[1]].rows
        /\ x[1] \in startTables => NotOnDisk(x)
    BY <1>a, <1>c DEF DatabaseInv, TxnOK, TypeOK, ControlOK
  <2> QED
    BY <1>b, <1>d, <2>1 DEF NotOnDisk
<1>7. UndoneOK'
  <2> SUFFICES ASSUME NEW x \in undone
               PROVE  x[2] <= rows /\ x[2] \notin mem'[x[1]].rows /\ NotOnDisk(x)'
    BY <1>a DEF UndoneOK
  <2>1. x[1] \in Tables /\ x[2] <= rows /\ x[2] \notin mem[x[1]].rows /\ NotOnDisk(x)
    BY <1>c DEF DatabaseInv, UndoneOK, TypeOK
  <2>2. x[2] \notin Opening(x[1]).rows
    BY <2>1, NotOnDiskOpening
  <2> QED
    BY <1>b, <1>d, <2>1, <2>2, EmptyContents DEF NotOnDisk
<1>8. DoneOK'
  <2> SUFFICES ASSUME NEW x \in done, x[1] \notin failed
               PROVE  /\ x[2] \in acked'[x[1]].rows /\ x[2] \in attempt'[x[1]].rows
                      /\ x[2] \in mem'[x[1]].rows
                      /\ size'[x[1]] = "whole" /\ x[1] \in catalog
    BY <1>a DEF DoneOK
  <2>1. /\ x[1] \in Tables /\ x[2] \in acked[x[1]].rows /\ x[2] \in attempt[x[1]].rows
        /\ x[1] \in catalog /\ x[2] \in mem[x[1]].rows /\ size[x[1]] = "whole"
    BY <1>a, <1>c DEF DatabaseInv, DoneOK, TypeOK
  <2> QED
    BY <1>a, <1>b, <1>d, <2>1
<1>9. SizeOK'
  BY <1>a, <1>b, <1>c, <1>e DEF DatabaseInv, SizeOK, TypeOK
<1> QED
  BY <1>1, <1>2, <1>3, <1>4, <1>5, <1>6, <1>7, <1>8, <1>9 DEF DatabaseInv

LEMMA InsertStep ==
  ASSUME DatabaseInv, NEW t \in Tables, Insert(t) PROVE DatabaseInv'
<1>a. /\ pc = "ready" /\ t \in catalog \ blank /\ rows < MaxRows
      /\ rows' = rows + 1
      /\ mem' = [mem EXCEPT ![t] = [mem[t] EXCEPT !.rows = mem[t].rows \cup {rows + 1}]]
      /\ txn' = IF in_transaction THEN txn \cup {<<t, rows + 1>>} ELSE {<<t, rows + 1>>}
      /\ UNCHANGED <<at, catalog, blank, scanning, in_transaction, pagerTxn, size, db, log,
                     boots, faults, startTables, done, undone, created, failed, acked>>
  BY DEF Insert, Ready, disk, DatabaseInv, TypeOK
<1>b. \/ /\ pagerTxn[t]
         /\ UNCHANGED <<pc, job, todo, attempt>>
      \/ /\ ~pagerTxn[t]
         /\ pc' = "flush" /\ job' = [kind |-> "insert", table |-> t] /\ todo' = {t}
         /\ attempt' = [attempt EXCEPT ![t] = mem'[t]]
  BY DEF Insert, Flush
<1>c. /\ TypeOK /\ at = NoTable /\ t # NoTable /\ job.kind = "none" /\ todo = {}
      /\ rows + 1 \in Row /\ rows \in Nat
  BY <1>a, DatabaseAssumption DEF DatabaseInv, ControlOK, TypeOK, Row
<1>d. /\ mem' \in [Tables -> Contents]
      /\ mem'[t].rows = mem[t].rows \cup {rows + 1} /\ mem'[t].mixed = mem[t].mixed
      /\ \A u \in Tables : u # t => mem'[u] = mem[u]
  <2> DEFINE m == [mem[t] EXCEPT !.rows = mem[t].rows \cup {rows + 1}]
  <2>1. mem[t] \in Contents /\ mem \in [Tables -> Contents]
    BY <1>c DEF TypeOK
  <2>2. mem[t].rows \cup {rows + 1} \in SUBSET Row
    BY <1>c, <2>1, ContentsFields
  <2>3. m \in Contents /\ m.rows = mem[t].rows \cup {rows + 1} /\ m.mixed = mem[t].mixed
    BY <2>1, <2>2 DEF Contents
  <2>4. mem' = [mem EXCEPT ![t] = m]
    BY <1>a
  <2> HIDE DEF m
  <2> QED
    BY <2>1, <2>3, <2>4
<1>e. /\ attempt' \in [Tables -> Contents] /\ job' \in Job
      /\ \A u \in Tables : u # t => attempt'[u] = attempt[u]
      /\ attempt'[t] \in {attempt[t], mem'[t]}
      /\ todo' \subseteq {t}
      /\ job'.kind \in {"none", "insert"}
      /\ pc' = "flush" => /\ job'.kind = "insert" /\ job'.table = t /\ Named' = {t} /\ todo' = {t}
                          /\ attempt'[t] = mem'[t] /\ ~pagerTxn[t]
      /\ pc' # "flush" => job'.kind = "none" /\ pc' = "ready" /\ todo' = {} /\ attempt' = attempt
  <2>1. attempt \in [Tables -> Contents] /\ mem'[t] \in Contents /\ job \in Job
    BY <1>c, <1>d DEF TypeOK
  <2>2. CASE UNCHANGED <<pc, job, todo, attempt>>
    BY <1>a, <1>c, <2>1, <2>2
  <2>3. CASE /\ pc' = "flush" /\ job' = [kind |-> "insert", table |-> t] /\ todo' = {t}
             /\ attempt' = [attempt EXCEPT ![t] = mem'[t]] /\ ~pagerTxn[t]
    <3>1. job' \in Job /\ job'.kind = "insert" /\ job'.table = t /\ Named' = {t}
      BY <2>3 DEF Job, Named
    <3> QED
      BY <2>1, <2>3, <3>1
  <2> QED
    BY <1>b, <2>2, <2>3
<1>1. TypeOK'
  <2>1. txn' \subseteq Tables \X Row /\ rows' \in 0 .. MaxRows
    BY <1>a, <1>c, DatabaseAssumption DEF TypeOK
  <2>2. pc' \in {"down", "load", "ready", "flush"} /\ todo' \subseteq Tables /\ at' \in todo' \cup {NoTable}
    BY <1>a, <1>c, <1>e
  <2> QED
    BY <1>a, <1>c, <1>d, <1>e, <2>1, <2>2 DEF TypeOK
<1>2. ControlOK'
  BY <1>a, <1>c, <1>e DEF DatabaseInv, ControlOK
<1>3. FlushOK'
  BY <1>a, <1>c, <1>e DEF FlushOK
<1>4. \A u \in Tables \ failed' : FileOK(u)'
  <2> SUFFICES ASSUME NEW u \in Tables \ failed PROVE FileOK(u)'
    BY <1>a
  <2>0. FileOK(u)
    BY DEF DatabaseInv
  <2>1. Open' = catalog /\ Open = catalog
    BY <1>a, <1>e DEF Open
  <2>2. CASE u = t
    <3>1. db[t] = acked[t] /\ log[t] = NoLog /\ ~acked[t].mixed /\ ~attempt[t].mixed /\ ~mem[t].mixed
      BY <1>a, <1>c, <2>0, <2>1, <2>2 DEF FileOK
    <3>2. ~mem'[t].mixed
      BY <1>d, <3>1
    <3> QED
      BY <1>a, <1>c, <1>e, <2>1, <2>2, <3>1, <3>2 DEF FileOK
  <2>3. CASE u # t
    BY <1>a, <1>c, <1>d, <1>e, <2>0, <2>1, <2>3 DEF FileOK
  <2> QED
    BY <2>2, <2>3
<1>5. FreshOK'
  <2>1. \A u \in Tables : /\ \A r \in db[u].rows : r <= rows + 1
                          /\ log[u] # NoLog => \A r \in log[u].rows : r <= rows + 1
                          /\ \A r \in mem'[u].rows : r <= rows + 1
    <3> SUFFICES ASSUME NEW u \in Tables
                 PROVE  /\ \A r \in db[u].rows : r <= rows + 1
                        /\ log[u] # NoLog => \A r \in log[u].rows : r <= rows + 1
                        /\ \A r \in mem'[u].rows : r <= rows + 1
      OBVIOUS
    <3>1. /\ db[u].rows \subseteq Row /\ mem[u].rows \subseteq Row
          /\ log[u] # NoLog => log[u].rows \subseteq Row
      BY <1>c, ContentsFields DEF TypeOK
    <3>2. \A r \in Row : r <= rows => r <= rows + 1
      BY <1>c, DatabaseAssumption DEF Row
    <3>3. mem'[u].rows \subseteq mem[u].rows \cup {rows + 1}
      BY <1>d
    <3> QED
      BY <1>c, <3>1, <3>2, <3>3 DEF DatabaseInv, FreshOK
  <2> QED
    BY <1>a, <2>1 DEF FreshOK
<1>6. TxnOK'
  <2> SUFFICES ASSUME NEW x \in txn'
               PROVE  /\ x[1] \in catalog \ blank /\ x[2] \in mem'[x[1]].rows
                      /\ x[1] \in startTables => NotOnDisk(x)'
    BY <1>a, <1>e DEF TxnOK
  <2>1. CASE x = <<t, rows + 1>>
    <3>1. x[1] = t /\ x[2] = rows + 1 /\ ~(rows + 1 <= rows)
      BY <1>c, <2>1
    <3>2. NotOnDisk(x)
      BY <3>1 DEF DatabaseInv, FreshOK, NotOnDisk
    <3> QED
      BY <1>a, <1>d, <3>1, <3>2 DEF NotOnDisk
  <2>2. CASE x \in txn
    <3>1. /\ x[1] \in Tables /\ x[1] \in catalog \ blank /\ x[2] \in mem[x[1]].rows
          /\ x[1] \in startTables => NotOnDisk(x)
      BY <1>c, <2>2 DEF DatabaseInv, TxnOK, TypeOK
    <3> QED
      BY <1>a, <1>d, <3>1 DEF NotOnDisk
  <2> QED
    BY <1>a, <2>1, <2>2
<1>7. UndoneOK'
  <2> SUFFICES ASSUME NEW x \in undone
               PROVE  x[2] <= rows + 1 /\ x[2] \notin mem'[x[1]].rows /\ NotOnDisk(x)'
    BY <1>a DEF UndoneOK
  <2>1. /\ x[1] \in Tables /\ x[2] \in Row /\ x[2] <= rows
        /\ x[2] \notin mem[x[1]].rows /\ NotOnDisk(x)
    BY <1>c DEF DatabaseInv, UndoneOK, TypeOK
  <2>2. x[2] # rows + 1 /\ x[2] <= rows + 1
    BY <1>c, <2>1 DEF Row
  <2> QED
    BY <1>a, <1>d, <2>1, <2>2 DEF NotOnDisk
<1>8. DoneOK'
  <2> SUFFICES ASSUME NEW x \in done, x[1] \notin failed
               PROVE  /\ x[2] \in acked[x[1]].rows /\ x[2] \in attempt'[x[1]].rows
                      /\ x[2] \in mem'[x[1]].rows
                      /\ size[x[1]] = "whole" /\ x[1] \in catalog
    BY <1>a, <1>e DEF DoneOK
  <2>1. /\ x[1] \in Tables /\ x[2] \in acked[x[1]].rows /\ x[2] \in attempt[x[1]].rows
        /\ x[1] \in catalog /\ x[2] \in mem[x[1]].rows /\ size[x[1]] = "whole"
    BY <1>a, <1>c DEF DatabaseInv, DoneOK, TypeOK
  <2>2. x[2] \in mem'[x[1]].rows
    BY <1>d, <2>1
  <2>3. x[2] \in attempt'[x[1]].rows
    BY <1>e, <2>1, <2>2
  <2> QED
    BY <2>1, <2>2, <2>3
<1>9. SizeOK'
  BY <1>a, <1>c, <1>e DEF DatabaseInv, SizeOK
<1> QED
  BY <1>1, <1>2, <1>3, <1>4, <1>5, <1>6, <1>7, <1>8, <1>9 DEF DatabaseInv

LEMMA BeginStep == DatabaseInv /\ Begin => DatabaseInv'
<1> SUFFICES ASSUME DatabaseInv, Begin PROVE DatabaseInv'
  OBVIOUS
<1>a. /\ pc = "ready" /\ ~in_transaction
      /\ pagerTxn' = [t \in Tables |-> t \in catalog]
      /\ in_transaction' = TRUE /\ startTables' = catalog /\ txn' = {}
      /\ UNCHANGED <<pc, job, todo, at, catalog, blank, scanning, mem, size, db, log, rows, boots,
                     faults, done, undone, created, failed, acked, attempt>>
  BY DEF Begin, Ready, disk, counters
<1>b. TypeOK /\ job.kind = "none" /\ todo = {} /\ at = NoTable
  BY <1>a DEF DatabaseInv, ControlOK
<1>c. pagerTxn' \in [Tables -> BOOLEAN]
  <2>1. pagerTxn' = [t \in Tables |-> t \in catalog]
    BY <1>a
  <2>2. \A t \in Tables : (t \in catalog) \in BOOLEAN
    BY SMT
  <2> QED
    BY ONLY <2>1, <2>2, Zenon
<1>d. \A t \in catalog : pagerTxn'[t]
  BY <1>a, <1>b DEF TypeOK
<1>1. TypeOK'
  BY <1>a, <1>b, <1>c DEF TypeOK
<1>2. ControlOK'
  BY <1>a, <1>b, <1>d DEF DatabaseInv, ControlOK
<1>3. FlushOK'
  BY <1>a DEF FlushOK
<1>4. \A u \in Tables \ failed' : FileOK(u)'
  BY <1>a DEF DatabaseInv, FileOK, Open
<1>5. FreshOK' /\ UndoneOK'
  BY <1>a DEF DatabaseInv, FreshOK, UndoneOK, NotOnDisk
<1>6. TxnOK'
  BY <1>a DEF TxnOK
<1>7. DoneOK'
  BY <1>a DEF DatabaseInv, DoneOK
<1>8. SizeOK'
  BY <1>a DEF DatabaseInv, SizeOK
<1> QED
  BY <1>1, <1>2, <1>3, <1>4, <1>5, <1>6, <1>7, <1>8 DEF DatabaseInv

LEMMA BeginErrStep == DatabaseInv /\ BeginErr => DatabaseInv'
<1> SUFFICES ASSUME DatabaseInv, BeginErr PROVE DatabaseInv'
  OBVIOUS
<1>a. /\ pc = "ready" /\ ~in_transaction
      /\ UNCHANGED <<pc, job, todo, at, catalog, blank, scanning, in_transaction, mem, size, db, log,
                     rows, boots, faults, startTables, txn, done, undone, created, failed, acked,
                     attempt>>
  BY DEF BeginErr, Ready, disk, counters, history
<1>b. TypeOK /\ job.kind = "none" /\ startTables = {}
  BY <1>a DEF DatabaseInv, ControlOK
<1>c. pagerTxn' \in [Tables -> BOOLEAN]
  <2>1. PICK begun : pagerTxn' = [t \in Tables |-> pagerTxn[t] \/ t \in begun]
    BY DEF BeginErr
  <2> QED
    BY ONLY <2>1, Zenon
<1>1. TypeOK'
  BY <1>a, <1>b, <1>c DEF TypeOK
<1>2. ControlOK'
  BY <1>a, <1>b DEF DatabaseInv, ControlOK
<1>3. FlushOK'
  BY <1>a DEF FlushOK
<1>4. \A u \in Tables \ failed' : FileOK(u)'
  BY <1>a DEF DatabaseInv, FileOK, Open
<1>5. FreshOK' /\ UndoneOK' /\ TxnOK'
  BY <1>a, RowsKept DEF disk
<1>6. DoneOK'
  BY <1>a DEF DatabaseInv, DoneOK
<1>7. SizeOK'
  BY <1>a DEF DatabaseInv, SizeOK
<1> QED
  BY <1>1, <1>2, <1>3, <1>4, <1>5, <1>6, <1>7 DEF DatabaseInv

LEMMA CommitStep == DatabaseInv /\ Commit => DatabaseInv'
<1> SUFFICES ASSUME DatabaseInv, Commit PROVE DatabaseInv'
  OBVIOUS
<1>a. /\ pc = "ready" /\ in_transaction
      /\ pc' = "flush" /\ job' = [kind |-> "commit"] /\ todo' = catalog
      /\ attempt' = [t \in Tables |-> IF t \in catalog THEN mem[t] ELSE attempt[t]]
      /\ UNCHANGED <<at, catalog, blank, scanning, in_transaction, mem, pagerTxn, size, db, log,
                     rows, boots, faults, startTables, txn, done, undone, created, failed, acked>>
  BY DEF Commit, Ready, Flush, disk, counters
<1>b. TypeOK /\ at = NoTable /\ catalog \subseteq Tables
  BY <1>a DEF DatabaseInv, ControlOK, TypeOK
<1>c. job' \in Job /\ job'.kind = "commit" /\ Named' = catalog
  BY <1>a DEF Job, Named
<1>1. TypeOK'
  <2>1. attempt' \in [Tables -> Contents]
    BY <1>a, <1>b DEF TypeOK
  <2> QED
    BY <1>a, <1>b, <1>c, <2>1 DEF TypeOK
<1>2. ControlOK'
  BY <1>a, <1>b, <1>c DEF DatabaseInv, ControlOK
<1>3. FlushOK'
  BY <1>a, <1>b, <1>c DEF FlushOK
<1>4. \A u \in Tables \ failed' : FileOK(u)'
  <2> SUFFICES ASSUME NEW u \in Tables \ failed PROVE FileOK(u)'
    BY <1>a
  <2>0. FileOK(u)
    BY DEF DatabaseInv
  <2>1. Open' = catalog /\ Open = catalog
    BY <1>a, <1>c DEF Open
  <2>2. CASE u \in catalog
    <3>1. attempt'[u] = mem[u] /\ db[u] = acked[u] /\ log[u] = NoLog
      BY <1>a, <1>b, <2>0, <2>1, <2>2, DatabaseAssumption DEF FileOK
    <3> QED
      BY <1>a, <1>b, <1>c, <2>0, <2>1, <2>2, <3>1 DEF FileOK
  <2>3. CASE u \notin catalog
    <3>1. attempt'[u] = attempt[u]
      BY <1>a, <2>3
    <3> QED
      BY <1>a, <1>b, <2>0, <2>1, <2>3, <3>1 DEF FileOK
  <2> QED
    BY <2>2, <2>3
<1>5. FreshOK' /\ UndoneOK'
  BY <1>a DEF DatabaseInv, FreshOK, UndoneOK, NotOnDisk
<1>6. TxnOK'
  BY <1>a, <1>c DEF DatabaseInv, TxnOK
<1>7. DoneOK'
  <2> SUFFICES ASSUME NEW x \in done, x[1] \notin failed
               PROVE  /\ x[2] \in acked[x[1]].rows /\ x[2] \in attempt'[x[1]].rows
                      /\ x[2] \in mem[x[1]].rows
                      /\ size[x[1]] = "whole" /\ x[1] \in catalog
    BY <1>a DEF DoneOK
  <2>1. /\ x[1] \in Tables /\ x[2] \in acked[x[1]].rows
        /\ x[1] \in catalog /\ x[2] \in mem[x[1]].rows /\ size[x[1]] = "whole"
    BY <1>a, <1>b DEF DatabaseInv, DoneOK, TypeOK
  <2>2. attempt'[x[1]] = mem[x[1]]
    BY <1>a, <2>1
  <2> QED
    BY <2>1, <2>2
<1>8. SizeOK'
  BY <1>a, <1>c DEF DatabaseInv, SizeOK
<1> QED
  BY <1>1, <1>2, <1>3, <1>4, <1>5, <1>6, <1>7, <1>8 DEF DatabaseInv

LEMMA RollbackStep == DatabaseInv /\ Rollback => DatabaseInv'
<1> SUFFICES ASSUME DatabaseInv, Rollback PROVE DatabaseInv'
  OBVIOUS
<1>a. /\ pc = "ready" /\ in_transaction
      /\ mem' = [t \in Tables |-> IF t \in catalog THEN db[t] ELSE mem[t]]
      /\ log' = [t \in Tables |-> IF t \in catalog THEN NoLog ELSE log[t]]
      /\ pagerTxn' = [t \in Tables |-> FALSE] /\ in_transaction' = FALSE
      /\ undone' = undone \cup {x \in txn : x[1] \in startTables}
      /\ txn' = {} /\ startTables' = {}
      /\ UNCHANGED <<pc, job, todo, at, catalog, blank, scanning, size, db, rows, boots, faults,
                     done, created, failed, acked, attempt>>
  BY DEF Rollback, Ready, Undo, counters
<1>b. TypeOK /\ at = NoTable /\ job.kind = "none" /\ todo = {}
  BY <1>a DEF DatabaseInv, ControlOK
<1>c. /\ \A t \in catalog : t \in Tables /\ mem'[t] = db[t] /\ log'[t] = NoLog
      /\ \A t \in Tables \ catalog : mem'[t] = mem[t] /\ log'[t] = log[t]
  BY <1>a, <1>b DEF TypeOK
<1>1. TypeOK'
  <2>1. mem' \in [Tables -> Contents] /\ log' \in [Tables -> Contents \cup {NoLog}]
    BY <1>a, <1>b DEF TypeOK
  <2>2. pagerTxn' \in [Tables -> BOOLEAN] /\ in_transaction' \in BOOLEAN
    BY <1>a
  <2>3. undone' \subseteq Tables \X Row
    BY <1>a, <1>b DEF TypeOK
  <2> QED
    BY <1>a, <1>b, <2>1, <2>2, <2>3 DEF TypeOK
<1>2. ControlOK'
  BY <1>a, <1>b DEF DatabaseInv, ControlOK
<1>3. FlushOK'
  BY <1>a DEF FlushOK
<1>4. \A u \in Tables \ failed' : FileOK(u)'
  <2> SUFFICES ASSUME NEW u \in Tables \ failed PROVE FileOK(u)'
    BY <1>a
  <2>0. FileOK(u)
    BY DEF DatabaseInv
  <2>1. Open' = catalog /\ Open = catalog
    BY <1>a DEF Open
  <2>2. CASE u \in catalog
    <3>1. mem'[u] = db[u] /\ db[u] = acked[u] /\ log'[u] = NoLog
      BY <1>a, <1>b, <1>c, <2>0, <2>1, <2>2 DEF FileOK
    <3> QED
      BY <1>a, <2>0, <2>1, <2>2, <3>1 DEF FileOK
  <2>3. CASE u \notin catalog
    <3>1. mem'[u] = mem[u] /\ log'[u] = log[u]
      BY <1>c, <2>3
    <3> QED
      BY <1>a, <2>0, <2>1, <2>3, <3>1 DEF FileOK
  <2> QED
    BY <2>2, <2>3
<1>5. FreshOK'
  BY <1>a, <1>c DEF DatabaseInv, FreshOK
<1>6. TxnOK'
  BY <1>a DEF TxnOK
<1>7. UndoneOK'
  <2> SUFFICES ASSUME NEW x \in undone'
               PROVE  x[2] <= rows /\ x[2] \notin mem'[x[1]].rows /\ NotOnDisk(x)'
    BY <1>a DEF UndoneOK
  <2>1. CASE x \in undone
    <3>1. x[1] \in Tables /\ x[2] <= rows /\ x[2] \notin mem[x[1]].rows /\ NotOnDisk(x)
      BY <1>b, <2>1 DEF DatabaseInv, UndoneOK, TypeOK
    <3> QED
      BY <1>a, <1>c, <3>1 DEF NotOnDisk
  <2>2. CASE x \in txn /\ x[1] \in startTables
    <3>1. /\ x[1] \in Tables /\ x[1] \in catalog /\ x[2] \in mem[x[1]].rows /\ NotOnDisk(x)
      BY <1>b, <2>2 DEF DatabaseInv, TxnOK, TypeOK
    <3>2. x[2] <= rows
      BY <3>1 DEF DatabaseInv, FreshOK
    <3> QED
      BY <1>a, <1>c, <3>1, <3>2 DEF NotOnDisk
  <2> QED
    BY <1>a, <2>1, <2>2
<1>8. DoneOK'
  <2> SUFFICES ASSUME NEW x \in done, x[1] \notin failed
               PROVE  /\ x[2] \in acked[x[1]].rows /\ x[2] \in attempt[x[1]].rows
                      /\ x[2] \in mem'[x[1]].rows
                      /\ size[x[1]] = "whole" /\ x[1] \in catalog
    BY <1>a DEF DoneOK
  <2>1. /\ x[1] \in Tables /\ x[2] \in acked[x[1]].rows /\ x[2] \in attempt[x[1]].rows
        /\ x[1] \in catalog /\ size[x[1]] = "whole"
    BY <1>a, <1>b DEF DatabaseInv, DoneOK, TypeOK
  <2>2. mem'[x[1]] = acked[x[1]]
    BY <1>a, <1>b, <1>c, <2>1 DEF DatabaseInv, FileOK, Open
  <2> QED
    BY <2>1, <2>2
<1>9. SizeOK'
  BY <1>a DEF DatabaseInv, SizeOK
<1> QED
  BY <1>1, <1>2, <1>3, <1>4, <1>5, <1>6, <1>7, <1>8, <1>9 DEF DatabaseInv

-----------------------------------------------------------------------------
(***************************************************************************)
(* The commit of each table.                                               *)
(***************************************************************************)
\* What a flush is about: its tables are known, and unless it is a COMMIT none of
\* them belongs to the open transaction.
LEMMA FlushFacts ==
  ASSUME DatabaseInv, pc = "flush"
  PROVE  /\ TypeOK /\ todo \subseteq Named /\ Named \subseteq Tables
         /\ at # NoTable => at \in todo /\ at \in Tables
         /\ job.kind \in {"create", "insert", "commit"}
         /\ job.kind # "commit" => Named = {job.table} /\ job.table \notin startTables
         /\ job.kind = "commit" => Named = catalog
         /\ \A t \in Named : attempt[t] = mem[t]
<1>1. /\ TypeOK /\ todo \subseteq Named /\ job.kind # "none"
      /\ \A t \in Named : attempt[t] = mem[t]
  BY DEF DatabaseInv, ControlOK, FlushOK
<1>2. /\ job.kind \in {"create", "insert", "commit"}
      /\ job.kind # "commit" => job.table \in Tables
  BY <1>1, JobCases DEF TypeOK
<1>3. /\ Named \subseteq Tables
      /\ job.kind # "commit" => Named = {job.table}
      /\ job.kind = "commit" => Named = catalog
  BY <1>1, <1>2 DEF Named, TypeOK
<1>4. job.kind # "commit" => job.table \notin startTables
  BY <1>2 DEF DatabaseInv, ControlOK
<1>5. at # NoTable => at \in todo /\ at \in Tables
  BY <1>1 DEF TypeOK
<1> QED
  BY <1>1, <1>2, <1>3, <1>4, <1>5

LEMMA LogTableStep ==
  ASSUME DatabaseInv, NEW t \in Tables, LogTable(t) PROVE DatabaseInv'
<1>a. /\ pc = "flush" /\ at = NoTable /\ t \in todo
      /\ log' = [log EXCEPT ![t] = mem[t]] /\ at' = t
      /\ UNCHANGED <<pc, job, todo, catalog, blank, scanning, in_transaction, mem, pagerTxn,
                     size, db, rows, boots, faults, startTables, txn, done, undone, created,
                     failed, acked, attempt>>
  BY DEF LogTable, counters, history
<1>b. /\ TypeOK /\ t \in Named /\ Named' = Named /\ t # NoTable
      /\ job.kind # "commit" => t \notin startTables
      /\ attempt[t] = mem[t]
  BY <1>a, FlushFacts, DatabaseAssumption DEF Named
<1>c. /\ log' \in [Tables -> Contents \cup {NoLog}] /\ log'[t] = mem[t] /\ log'[t] # NoLog
      /\ \A u \in Tables : u # t => log'[u] = log[u]
  BY <1>a, <1>b, DatabaseAssumption DEF TypeOK, Contents, Row
<1>1. TypeOK'
  BY <1>a, <1>b, <1>c DEF TypeOK
<1>2. ControlOK'
  BY <1>a, <1>b DEF DatabaseInv, ControlOK
<1>3. FlushOK'
  BY <1>a, <1>b, <1>c DEF DatabaseInv, FlushOK
<1>4. \A u \in Tables \ failed' : FileOK(u)'
  <2> SUFFICES ASSUME NEW u \in Tables \ failed PROVE FileOK(u)'
    BY <1>a
  <2>0. FileOK(u)
    BY DEF DatabaseInv
  <2>1. Open' = Open
    BY <1>a, <1>b DEF Open
  <2>2. CASE u = t
    BY <1>a, <1>b, <1>c, <2>0, <2>1, <2>2 DEF FileOK
  <2>3. CASE u # t
    BY <1>a, <1>b, <1>c, <2>0, <2>1, <2>3, DatabaseAssumption DEF FileOK
  <2> QED
    BY <2>2, <2>3
<1>5. FreshOK'
  BY <1>a, <1>c DEF DatabaseInv, FreshOK
<1>6. TxnOK'
  <2> SUFFICES ASSUME NEW x \in txn
               PROVE  /\ x[1] \in catalog \ blank /\ x[2] \in mem[x[1]].rows
                      /\ job.kind # "commit" /\ x[1] \in startTables => NotOnDisk(x)'
    BY <1>a DEF TxnOK
  <2>1. /\ x[1] \in Tables /\ x[1] \in catalog \ blank /\ x[2] \in mem[x[1]].rows
        /\ job.kind # "commit" /\ x[1] \in startTables => NotOnDisk(x)
    BY <1>b DEF DatabaseInv, TxnOK, TypeOK
  <2> QED
    BY <1>a, <1>b, <1>c, <2>1 DEF NotOnDisk
<1>7. UndoneOK'
  <2> SUFFICES ASSUME NEW x \in undone
               PROVE  x[2] <= rows /\ x[2] \notin mem[x[1]].rows /\ NotOnDisk(x)'
    BY <1>a DEF UndoneOK
  <2>1. x[1] \in Tables /\ x[2] <= rows /\ x[2] \notin mem[x[1]].rows /\ NotOnDisk(x)
    BY <1>b DEF DatabaseInv, UndoneOK, TypeOK
  <2> QED
    BY <1>a, <1>c, <2>1 DEF NotOnDisk
<1>8. DoneOK' /\ SizeOK'
  BY <1>a DEF DatabaseInv, DoneOK, SizeOK
<1> QED
  BY <1>1, <1>2, <1>3, <1>4, <1>5, <1>6, <1>7, <1>8 DEF DatabaseInv

LEMMA ApplyTableStep == DatabaseInv /\ ApplyTable => DatabaseInv'
<1> SUFFICES ASSUME DatabaseInv, ApplyTable PROVE DatabaseInv'
  OBVIOUS
<1>a. /\ pc = "flush" /\ at # NoTable
      /\ db' = [db EXCEPT ![at] = mem[at]] /\ size' = [size EXCEPT ![at] = "whole"]
      /\ log' = [log EXCEPT ![at] = NoLog]
      /\ pagerTxn' = [pagerTxn EXCEPT ![at] = FALSE]
      /\ todo' = todo \ {at} /\ at' = NoTable
      /\ UNCHANGED <<pc, job, catalog, blank, scanning, in_transaction, mem, rows, boots, faults,
                     startTables, txn, done, undone, created, failed, acked, attempt>>
  BY DEF ApplyTable, counters, history
<1>b. /\ TypeOK /\ at \in Tables /\ at \in todo /\ at \in Named /\ Named' = Named
      /\ todo \subseteq Named /\ Named \subseteq Tables
      /\ job.kind # "commit" => at \notin startTables /\ Named = {at} /\ job.table = at
      /\ job.kind = "commit" => Named = catalog
      /\ attempt[at] = mem[at]
  BY <1>a, FlushFacts DEF Named
<1>c. /\ db' \in [Tables -> Contents] /\ log' \in [Tables -> Contents \cup {NoLog}]
      /\ size' \in [Tables -> {"absent", "empty", "odd", "whole"}]
      /\ db'[at] = mem[at] /\ log'[at] = NoLog /\ size'[at] = "whole"
      /\ \A u \in Tables : u # at => db'[u] = db[u] /\ log'[u] = log[u] /\ size'[u] = size[u]
  BY <1>a, <1>b DEF TypeOK
<1>d. /\ pagerTxn' \in [Tables -> BOOLEAN] /\ ~pagerTxn'[at]
      /\ \A u \in Tables : u # at => pagerTxn'[u] = pagerTxn[u]
  BY <1>a, <1>b DEF TypeOK
<1>1. TypeOK'
  BY <1>a, <1>b, <1>c, <1>d DEF TypeOK
<1>2. ControlOK'
  <2>1. job.kind # "commit" => \A t \in startTables : pagerTxn'[t]
    BY <1>b, <1>d DEF DatabaseInv, ControlOK, TypeOK
  <2> QED
    BY <1>a, <1>b, <1>d, <2>1 DEF DatabaseInv, ControlOK
<1>3. FlushOK'
  BY <1>a, <1>b DEF DatabaseInv, FlushOK
<1>4. \A u \in Tables \ failed' : FileOK(u)'
  <2> SUFFICES ASSUME NEW u \in Tables \ failed PROVE FileOK(u)'
    BY <1>a
  <2>0. FileOK(u)
    BY DEF DatabaseInv
  <2>1. Open' = Open
    BY <1>a, <1>b DEF Open
  <2>2. CASE u = at
    BY <1>a, <1>b, <1>c, <2>0, <2>1, <2>2 DEF FileOK
  <2>3. CASE u # at
    BY <1>a, <1>b, <1>c, <2>0, <2>1, <2>3, DatabaseAssumption DEF FileOK
  <2> QED
    BY <2>2, <2>3
<1>5. FreshOK'
  BY <1>a, <1>b, <1>c DEF DatabaseInv, FreshOK
<1>6. TxnOK'
  <2> SUFFICES ASSUME NEW x \in txn
               PROVE  /\ x[1] \in catalog \ blank /\ x[2] \in mem[x[1]].rows
                      /\ job.kind # "commit" /\ x[1] \in startTables => NotOnDisk(x)'
    BY <1>a DEF TxnOK
  <2>1. /\ x[1] \in Tables /\ x[1] \in catalog \ blank /\ x[2] \in mem[x[1]].rows
        /\ job.kind # "commit" /\ x[1] \in startTables => NotOnDisk(x)
    BY <1>b DEF DatabaseInv, TxnOK, TypeOK
  <2> QED
    BY <1>a, <1>b, <1>c, <2>1 DEF NotOnDisk
<1>7. UndoneOK'
  <2> SUFFICES ASSUME NEW x \in undone
               PROVE  x[2] <= rows /\ x[2] \notin mem[x[1]].rows /\ NotOnDisk(x)'
    BY <1>a DEF UndoneOK
  <2>1. x[1] \in Tables /\ x[2] <= rows /\ x[2] \notin mem[x[1]].rows /\ NotOnDisk(x)
    BY <1>b DEF DatabaseInv, UndoneOK, TypeOK
  <2> QED
    BY <1>b, <1>c, <2>1 DEF NotOnDisk
<1>8. DoneOK'
  <2> SUFFICES ASSUME NEW x \in done, x[1] \notin failed
               PROVE  /\ x[2] \in acked[x[1]].rows /\ x[2] \in attempt[x[1]].rows
                      /\ x[2] \in mem[x[1]].rows
                      /\ size'[x[1]] = "whole" /\ x[1] \in catalog
    BY <1>a DEF DoneOK
  <2>1. /\ x[1] \in Tables /\ x[2] \in acked[x[1]].rows /\ x[2] \in attempt[x[1]].rows
        /\ x[1] \in catalog /\ x[2] \in mem[x[1]].rows /\ size[x[1]] = "whole"
    BY <1>a, <1>b DEF DatabaseInv, DoneOK, TypeOK
  <2> QED
    BY <1>c, <2>1
<1>9. SizeOK'
  <2>1. at \in catalog \/ job.kind = "create"
    BY <1>b, FlushFacts, <1>a DEF DatabaseInv, ControlOK
  <2>2. \A t \in Tables : size'[t] = "odd" => t \in failed
    BY <1>b, <1>c DEF DatabaseInv, SizeOK
  <2>3. \A t \in catalog \ (blank \cup failed) : size'[t] = "whole"
    BY <1>b, <1>c DEF DatabaseInv, SizeOK, TypeOK
  <2>4. job.kind = "create" /\ job.table \notin todo' => size'[job.table] = "whole"
    BY <1>b, <1>c
  <2>5. ASSUME NEW t \in created
        PROVE  /\ size'[t] \in {"whole", "odd"}
               /\ t \in catalog \ blank \/ (t \notin catalog /\ size'[t] = "odd")
    <3>1. /\ t \in Tables /\ size[t] \in {"whole", "odd"}
          /\ t \in catalog \ blank \/ (t \notin catalog /\ size[t] = "odd")
      BY <1>a, <1>b DEF DatabaseInv, SizeOK, TypeOK
    <3>2. t \notin catalog => t # at
      BY <1>b, <2>1 DEF DatabaseInv, ControlOK
    <3> QED
      BY <1>c, <3>1, <3>2
  <2> QED
    BY <1>a, <2>2, <2>3, <2>4, <2>5 DEF SizeOK
<1> QED
  BY <1>1, <1>2, <1>3, <1>4, <1>5, <1>6, <1>7, <1>8, <1>9 DEF DatabaseInv

LEMMA CommitCleanStep ==
  ASSUME DatabaseInv, NEW t \in Tables, CommitClean(t) PROVE DatabaseInv'
<1>a. /\ pc = "flush" /\ at = NoTable /\ t \in todo /\ job.kind # "create" /\ mem[t] = db[t]
      /\ log' = [log EXCEPT ![t] = NoLog]
      /\ pagerTxn' = [pagerTxn EXCEPT ![t] = FALSE]
      /\ todo' = todo \ {t}
      /\ UNCHANGED <<pc, job, at, catalog, blank, scanning, in_transaction, mem, size, db,
                     rows, boots, faults, startTables, txn, done, undone, created, failed,
                     acked, attempt>>
  BY DEF CommitClean, HasDirty, counters, history
<1>b. /\ TypeOK /\ t \in Named /\ Named' = Named
      /\ todo \subseteq Named /\ Named \subseteq Tables
      /\ job.kind # "commit" => t \notin startTables /\ job.table = t
      /\ attempt[t] = mem[t]
  BY <1>a, FlushFacts DEF Named
<1>c. /\ log' \in [Tables -> Contents \cup {NoLog}] /\ log'[t] = NoLog
      /\ \A u \in Tables : u # t => log'[u] = log[u]
  BY <1>a, <1>b DEF TypeOK
<1>d. /\ pagerTxn' \in [Tables -> BOOLEAN] /\ ~pagerTxn'[t]
      /\ \A u \in Tables : u # t => pagerTxn'[u] = pagerTxn[u]
  BY <1>a, <1>b DEF TypeOK
<1>1. TypeOK'
  BY <1>a, <1>b, <1>c, <1>d DEF TypeOK
<1>2. ControlOK'
  <2>1. job.kind # "commit" => \A u \in startTables : pagerTxn'[u]
    BY <1>b, <1>d DEF DatabaseInv, ControlOK, TypeOK
  <2> QED
    BY <1>a, <1>b, <1>d, <2>1 DEF DatabaseInv, ControlOK
<1>3. FlushOK'
  BY <1>a, <1>b DEF DatabaseInv, FlushOK
<1>4. \A u \in Tables \ failed' : FileOK(u)'
  <2> SUFFICES ASSUME NEW u \in Tables \ failed PROVE FileOK(u)'
    BY <1>a
  <2>0. FileOK(u)
    BY DEF DatabaseInv
  <2>1. Open' = Open
    BY <1>a, <1>b DEF Open
  <2>2. CASE u = t
    BY <1>a, <1>b, <1>c, <2>0, <2>1, <2>2 DEF FileOK
  <2>3. CASE u # t
    BY <1>a, <1>b, <1>c, <2>0, <2>1, <2>3 DEF FileOK
  <2> QED
    BY <2>2, <2>3
<1>5. FreshOK'
  BY <1>a, <1>c DEF DatabaseInv, FreshOK
<1>6. TxnOK'
  <2> SUFFICES ASSUME NEW x \in txn
               PROVE  /\ x[1] \in catalog \ blank /\ x[2] \in mem[x[1]].rows
                      /\ job.kind # "commit" /\ x[1] \in startTables => NotOnDisk(x)'
    BY <1>a DEF TxnOK
  <2>1. /\ x[1] \in Tables /\ x[1] \in catalog \ blank /\ x[2] \in mem[x[1]].rows
        /\ job.kind # "commit" /\ x[1] \in startTables => NotOnDisk(x)
    BY <1>b DEF DatabaseInv, TxnOK, TypeOK
  <2> QED
    BY <1>a, <1>c, <2>1 DEF NotOnDisk
<1>7. UndoneOK'
  <2> SUFFICES ASSUME NEW x \in undone
               PROVE  x[2] <= rows /\ x[2] \notin mem[x[1]].rows /\ NotOnDisk(x)'
    BY <1>a DEF UndoneOK
  <2>1. x[1] \in Tables /\ x[2] <= rows /\ x[2] \notin mem[x[1]].rows /\ NotOnDisk(x)
    BY <1>b DEF DatabaseInv, UndoneOK, TypeOK
  <2> QED
    BY <1>a, <1>c, <2>1 DEF NotOnDisk
<1>8. DoneOK' /\ SizeOK'
  BY <1>a DEF DatabaseInv, DoneOK, SizeOK
<1> QED
  BY <1>1, <1>2, <1>3, <1>4, <1>5, <1>6, <1>7, <1>8 DEF DatabaseInv

LEMMA FlushEndStep == DatabaseInv /\ FlushEnd => DatabaseInv'
<1> SUFFICES ASSUME DatabaseInv, FlushEnd PROVE DatabaseInv'
  OBVIOUS
<1>a. /\ pc = "flush" /\ at = NoTable /\ todo = {}
      /\ catalog' = catalog \cup Named
      /\ created' = IF job.kind = "create" THEN created \cup {job.table} ELSE created
      /\ done' = IF Settles THEN done \cup txn ELSE done
      /\ acked' = [t \in Tables |-> IF t \in Named THEN attempt[t] ELSE acked[t]]
      /\ pc' = "ready" /\ job' = NoJob /\ todo' = {} /\ at' = NoTable
      /\ in_transaction' = (in_transaction /\ job.kind # "commit")
      /\ startTables' = IF job.kind = "commit" THEN {} ELSE startTables
      /\ txn' = IF Settles THEN {} ELSE txn
      /\ UNCHANGED <<blank, scanning, mem, pagerTxn, size, db, log, rows, boots, faults,
                     undone, failed, attempt>>
  BY DEF FlushEnd, Returns, Answer, disk, counters
<1>b. /\ TypeOK /\ Named \subseteq Tables
      /\ job.kind \in {"create", "insert", "commit"}
      /\ job.kind # "commit" => Named = {job.table} /\ job.table \notin startTables
      /\ job.kind = "commit" => Named = catalog
      /\ \A t \in Named : attempt[t] = mem[t]
  BY <1>a, FlushFacts
<1>c. job' \in Job /\ job'.kind = "none"
  BY <1>a, NoJobKind
<1>d. /\ acked' \in [Tables -> Contents]
      /\ \A t \in Named : acked'[t] = attempt[t]
      /\ \A t \in Tables \ Named : acked'[t] = acked[t]
  BY <1>a, <1>b DEF TypeOK
<1>e. in_transaction' \in BOOLEAN
  <2>1. in_transaction' = (in_transaction /\ job.kind # "commit")
    BY <1>a
  <2> QED
    BY ONLY <2>1, Zenon
<1>1. TypeOK'
  <2>1. created' \subseteq Tables
    BY <1>a, <1>b DEF TypeOK
  <2>2. done' \subseteq Tables \X Row /\ txn' \subseteq Tables \X Row /\ startTables' \subseteq Tables
    BY <1>a, <1>b DEF TypeOK
  <2>3. catalog' \subseteq Tables /\ blank' \subseteq catalog'
    BY <1>a, <1>b DEF TypeOK
  <2> QED
    BY <1>a, <1>b, <1>c, <1>d, <1>e, <2>1, <2>2, <2>3 DEF TypeOK
<1>2. ControlOK'
  <2>1. startTables' \subseteq catalog' /\ (~in_transaction' => startTables' = {})
    BY <1>a, <1>b DEF DatabaseInv, ControlOK, TypeOK
  <2>2. \A t \in startTables' : pagerTxn[t]
    BY <1>a, <1>b DEF DatabaseInv, ControlOK
  <2> QED
    BY <1>a, <1>c, <2>1, <2>2 DEF ControlOK
<1>3. FlushOK'
  BY <1>a DEF FlushOK
<1>4. \A u \in Tables \ failed' : FileOK(u)'
  <2> SUFFICES ASSUME NEW u \in Tables \ failed PROVE FileOK(u)'
    BY <1>a
  <2>0. FileOK(u)
    BY DEF DatabaseInv
  <2>1. Open' = catalog \cup Named /\ Open = catalog \cup Named
    BY <1>a DEF Open
  <2>2. CASE u \in Named
    BY <1>a, <1>d, <2>0, <2>1, <2>2 DEF FileOK
  <2>3. CASE u \notin Named
    BY <1>a, <1>d, <2>0, <2>1, <2>3 DEF FileOK
  <2> QED
    BY <2>2, <2>3
<1>5. FreshOK' /\ UndoneOK'
  BY <1>a DEF DatabaseInv, FreshOK, UndoneOK, NotOnDisk
<1>6. TxnOK'
  <2> SUFFICES ASSUME NEW x \in txn, txn' = txn
               PROVE  /\ x[1] \in catalog' \ blank /\ x[2] \in mem[x[1]].rows
                      /\ x[1] \in startTables' => NotOnDisk(x)'
    BY <1>a, <1>c DEF TxnOK
  <2>1. /\ x[1] \in catalog \ blank /\ x[2] \in mem[x[1]].rows
        /\ job.kind # "commit" /\ x[1] \in startTables => NotOnDisk(x)
    BY DEF DatabaseInv, TxnOK
  <2> QED
    BY <1>a, <2>1 DEF NotOnDisk
<1>7. DoneOK'
  <2> SUFFICES ASSUME NEW x \in done', x[1] \notin failed
               PROVE  /\ x[2] \in acked'[x[1]].rows /\ x[2] \in attempt[x[1]].rows
                      /\ x[2] \in mem[x[1]].rows
                      /\ size[x[1]] = "whole" /\ x[1] \in catalog'
    BY <1>a DEF DoneOK
  <2>1. CASE x \in done
    <3>1. /\ x[1] \in Tables /\ x[2] \in acked[x[1]].rows /\ x[2] \in attempt[x[1]].rows
          /\ x[1] \in catalog /\ x[2] \in mem[x[1]].rows /\ size[x[1]] = "whole"
      BY <1>a, <1>b, <2>1 DEF DatabaseInv, DoneOK, TypeOK
    <3> QED
      BY <1>a, <1>d, <3>1
  <2>2. CASE Settles /\ x \in txn
    <3>1. x[1] \in Tables /\ x[1] \in catalog \ blank /\ x[2] \in mem[x[1]].rows
      BY <1>b, <2>2 DEF DatabaseInv, TxnOK, TypeOK
    <3>2. x[1] \in Named
      BY <1>b, <2>2, <3>1 DEF DatabaseInv, ControlOK, Settles
    <3>3. size[x[1]] = "whole"
      BY <3>1 DEF DatabaseInv, SizeOK
    <3> QED
      BY <1>a, <1>b, <1>d, <3>1, <3>2, <3>3
  <2> QED
    BY <1>a, <2>1, <2>2
<1>8. SizeOK'
  <2>1. job.kind = "create" => /\ size[job.table] = "whole"
                               /\ job.table \notin blank
    BY <1>a, <1>b DEF DatabaseInv, SizeOK, ControlOK, TypeOK
  <2>2. job.kind # "create" => catalog' = catalog
    BY <1>a, <1>b DEF DatabaseInv, ControlOK
  <2>3. job.kind = "create" => catalog' = catalog \cup {job.table}
    BY <1>a, <1>b
  <2>4. \A t \in catalog' \ (blank \cup failed) : size[t] = "whole"
    BY <1>b, <2>1, <2>2, <2>3 DEF DatabaseInv, SizeOK
  <2>5. ASSUME NEW t \in created'
        PROVE  /\ size[t] \in {"whole", "odd"}
               /\ t \in catalog' \ blank \/ (t \notin catalog' /\ size[t] = "odd")
    <3>1. CASE job.kind = "create" /\ t = job.table
      BY <2>1, <2>3, <3>1
    <3>2. CASE t \in created /\ t # job.table
      BY <1>a, <1>b, <2>2, <2>3, <3>2 DEF DatabaseInv, SizeOK
    <3>3. CASE t \in created /\ job.kind # "create"
      BY <1>a, <2>2, <3>3 DEF DatabaseInv, SizeOK
    <3> QED
      BY <1>a, <3>1, <3>2, <3>3
  <2> QED
    BY <1>a, <1>c, <2>4, <2>5 DEF DatabaseInv, SizeOK
<1> QED
  BY <1>1, <1>2, <1>3, <1>4, <1>5, <1>6, <1>7, <1>8 DEF DatabaseInv

\* Contents of which only some pages were written have the rows they were to have.
LEMMA MixedContents ==
  ASSUME NEW c \in Contents, NEW m \in BOOLEAN
  PROVE  /\ [c EXCEPT !.mixed = m] \in Contents
         /\ [c EXCEPT !.mixed = m].rows = c.rows
<1>1. c \in [rows : SUBSET Row, mixed : BOOLEAN]
  BY DEF Contents
<1>2. [c EXCEPT !.mixed = m] \in [rows : SUBSET Row, mixed : BOOLEAN]
  BY ONLY <1>1, m \in BOOLEAN, Zenon
<1>3. [c EXCEPT !.mixed = m].rows = c.rows
  BY <1>1
<1> QED
  BY <1>2, <1>3 DEF Contents

LEMMA DiskFullStep ==
  ASSUME DatabaseInv, NEW t \in Tables, DiskFull(t) PROVE DatabaseInv'
<1>a. /\ pc = "flush" /\ t \in todo /\ at \in {t, NoTable}
      /\ faults < MaxFaults /\ faults' = faults + 1
      /\ failed' = failed \cup {t}
      /\ mem' = IF job.kind = "create" THEN [mem EXCEPT ![t] = Empty] ELSE mem
      /\ acked' = [u \in Tables |-> IF u \in Named \ todo THEN attempt[u] ELSE acked[u]]
      /\ pc' = "ready" /\ job' = NoJob /\ todo' = {} /\ at' = NoTable
      /\ in_transaction' = (in_transaction /\ job.kind # "commit")
      /\ startTables' = IF job.kind = "commit" THEN {} ELSE startTables
      /\ txn' = IF Settles THEN {} ELSE txn
      /\ UNCHANGED <<catalog, blank, scanning, pagerTxn, log, rows, boots,
                     done, undone, created, attempt>>
  BY DEF DiskFull, Answer
<1>b. /\ TypeOK /\ todo \subseteq Named /\ Named \subseteq Tables /\ t \in Named
      /\ job.kind \in {"create", "insert", "commit"}
      /\ job.kind # "commit" => Named = {t} /\ t \notin startTables /\ job.table = t
      /\ job.kind = "commit" => Named = catalog
      /\ \A u \in Named : attempt[u] = mem[u]
  BY <1>a, FlushFacts
<1>c. job' \in Job /\ job'.kind = "none"
  BY <1>a, NoJobKind
<1>d. /\ acked' \in [Tables -> Contents]
      /\ \A u \in Named \ todo : acked'[u] = attempt[u]
      /\ \A u \in Tables \ (Named \ todo) : acked'[u] = acked[u]
  BY <1>a, <1>b DEF TypeOK
<1>e. in_transaction' \in BOOLEAN
  <2>1. in_transaction' = (in_transaction /\ job.kind # "commit")
    BY <1>a
  <2> QED
    BY ONLY <2>1, Zenon
<1>f. /\ mem' \in [Tables -> Contents]
      /\ \A u \in catalog : mem'[u] = mem[u]
      /\ \A u \in Tables : u # t => mem'[u] = mem[u]
      /\ mem'[t] \in {mem[t], Empty}
  <2>1. job.kind = "create" => t \notin catalog
    BY <1>b DEF DatabaseInv, ControlOK
  <2> QED
    BY <1>a, <1>b, <2>1, EmptyContents DEF TypeOK
<1>g. /\ size' \in [Tables -> {"absent", "empty", "odd", "whole"}]
      /\ size'[t] \in {size[t], "odd", "whole"}
      /\ \A u \in Tables : u # t => size'[u] = size[u]
  BY <1>b DEF DiskFull, TypeOK
<1>h. /\ db' \in [Tables -> Contents]
      /\ db'[t].rows \in {db[t].rows, mem[t].rows}
      /\ \A u \in Tables : u # t => db'[u] = db[u]
  <2>1. mem[t] \in Contents /\ db \in [Tables -> Contents]
    BY <1>b DEF TypeOK
  <2>2. CASE db' = db
    BY <2>1, <2>2
  <2>3. CASE db' = [db EXCEPT ![t] = [mem[t] EXCEPT !.mixed = TRUE]]
    <3> DEFINE m == [mem[t] EXCEPT !.mixed = TRUE]
    <3>1. m \in Contents /\ m.rows = mem[t].rows
      BY <2>1, MixedContents
    <3>2. db' = [db EXCEPT ![t] = m]
      BY <2>3
    <3> HIDE DEF m
    <3> QED
      BY <2>1, <3>1, <3>2
  <2> QED
    BY <2>2, <2>3 DEF DiskFull
<1>1. TypeOK'
  <2>1. txn' \subseteq Tables \X Row /\ startTables' \subseteq Tables /\ failed' \subseteq Tables
    BY <1>a, <1>b DEF TypeOK
  <2>2. faults' \in 0 .. MaxFaults
    BY <1>a, <1>b, DatabaseAssumption DEF TypeOK
  <2> QED
    BY <1>a, <1>b, <1>c, <1>d, <1>e, <1>f, <1>g, <1>h, <2>1, <2>2 DEF TypeOK
<1>2. ControlOK'
  <2>1. startTables' \subseteq catalog' /\ (~in_transaction' => startTables' = {})
    BY <1>a, <1>b DEF DatabaseInv, ControlOK, TypeOK
  <2>2. \A u \in startTables' : pagerTxn[u]
    BY <1>a, <1>b DEF DatabaseInv, ControlOK
  <2> QED
    BY <1>a, <1>c, <2>1, <2>2 DEF ControlOK
<1>3. FlushOK'
  BY <1>a DEF FlushOK
<1>4. \A u \in Tables \ failed' : FileOK(u)'
  <2> SUFFICES ASSUME NEW u \in Tables \ failed, u # t PROVE FileOK(u)'
    BY <1>a
  <2>0. FileOK(u)
    BY DEF DatabaseInv
  <2>1. Open' = catalog /\ Open = catalog \cup Named
    BY <1>a DEF Open
  <2>2. CASE u \in Named \ todo
    BY <1>a, <1>d, <1>f, <1>h, <2>0, <2>1, <2>2, DatabaseAssumption DEF FileOK
  <2>3. CASE u \notin Named \ todo
    BY <1>a, <1>d, <1>f, <1>h, <2>0, <2>1, <2>3, DatabaseAssumption DEF FileOK
  <2> QED
    BY <2>2, <2>3
<1>5. FreshOK'
  BY <1>a, <1>f, <1>h, EmptyContents DEF DatabaseInv, FreshOK
<1>6. TxnOK'
  <2> SUFFICES ASSUME NEW x \in txn
               PROVE  /\ x[1] \in catalog \ blank /\ x[2] \in mem'[x[1]].rows
                      /\ x[1] \in startTables' => NotOnDisk(x)'
    BY <1>a, <1>c DEF TxnOK
  <2>1. /\ x[1] \in Tables /\ x[1] \in catalog \ blank /\ x[2] \in mem[x[1]].rows
        /\ job.kind # "commit" /\ x[1] \in startTables => NotOnDisk(x)
    BY <1>b DEF DatabaseInv, TxnOK, TypeOK
  <2> QED
    BY <1>a, <1>b, <1>f, <1>h, <2>1 DEF NotOnDisk
<1>7. UndoneOK'
  <2> SUFFICES ASSUME NEW x \in undone
               PROVE  x[2] <= rows /\ x[2] \notin mem'[x[1]].rows /\ NotOnDisk(x)'
    BY <1>a DEF UndoneOK
  <2>1. x[1] \in Tables /\ x[2] <= rows /\ x[2] \notin mem[x[1]].rows /\ NotOnDisk(x)
    BY <1>b DEF DatabaseInv, UndoneOK, TypeOK
  <2> QED
    BY <1>a, <1>f, <1>h, <2>1, EmptyContents DEF NotOnDisk
<1>8. DoneOK'
  <2> SUFFICES ASSUME NEW x \in done, x[1] \notin failed, x[1] # t
               PROVE  /\ x[2] \in acked'[x[1]].rows /\ x[2] \in attempt[x[1]].rows
                      /\ x[2] \in mem'[x[1]].rows
                      /\ size'[x[1]] = "whole" /\ x[1] \in catalog
    BY <1>a DEF DoneOK
  <2>1. /\ x[1] \in Tables /\ x[2] \in acked[x[1]].rows /\ x[2] \in attempt[x[1]].rows
        /\ x[1] \in catalog /\ x[2] \in mem[x[1]].rows /\ size[x[1]] = "whole"
    BY <1>a, <1>b DEF DatabaseInv, DoneOK, TypeOK
  <2>2. acked'[x[1]] \in {acked[x[1]], attempt[x[1]]}
    BY <1>d, <2>1
  <2> QED
    BY <1>f, <1>g, <2>1, <2>2
<1>9. SizeOK'
  <2>1. \A u \in Tables : size'[u] = "odd" => u \in failed'
    BY <1>a, <1>g DEF DatabaseInv, SizeOK
  <2>2. \A u \in catalog \ (blank \cup failed') : size'[u] = "whole"
    BY <1>a, <1>b, <1>g DEF DatabaseInv, SizeOK, TypeOK
  <2>3. ASSUME NEW u \in created
        PROVE  /\ size'[u] \in {"whole", "odd"}
               /\ u \in catalog \ blank \/ (u \notin catalog /\ size'[u] = "odd")
    <3>1. /\ u \in Tables /\ size[u] \in {"whole", "odd"}
          /\ u \in catalog \ blank \/ (u \notin catalog /\ size[u] = "odd")
      BY <1>a, <1>b DEF DatabaseInv, SizeOK, TypeOK
    <3>2. u \notin catalog => u # t
      BY <1>b DEF DatabaseInv, ControlOK
    <3> QED
      BY <1>g, <3>1, <3>2
  <2> QED
    BY <1>a, <1>c, <2>1, <2>2, <2>3 DEF SizeOK
<1> QED
  BY <1>1, <1>2, <1>3, <1>4, <1>5, <1>6, <1>7, <1>8, <1>9 DEF DatabaseInv

LEMMA KillStep == DatabaseInv /\ Kill => DatabaseInv'
<1> SUFFICES ASSUME DatabaseInv, Kill PROVE DatabaseInv'
  OBVIOUS
<1>a. /\ pc' = "down" /\ job' = NoJob /\ todo' = {} /\ at' = NoTable
      /\ catalog' = {} /\ blank' = {} /\ scanning' = FALSE /\ in_transaction' = FALSE
      /\ mem' = [t \in Tables |-> Empty] /\ pagerTxn' = [t \in Tables |-> FALSE]
      /\ undone' = IF job.kind = "commit" THEN undone
                   ELSE undone \cup {x \in txn : x[1] \in startTables}
      /\ txn' = {} /\ startTables' = {}
      /\ UNCHANGED <<log, rows, boots, faults, done, created, failed, acked, attempt>>
  BY DEF Kill, Undo, counters
<1>b. /\ TypeOK
      /\ at # NoTable => /\ at \in Tables /\ log[at] = mem[at] /\ log[at] # NoLog
                         /\ job.kind # "commit" => at \notin startTables
  <2>1. TypeOK
    BY DEF DatabaseInv
  <2> SUFFICES ASSUME at # NoTable
               PROVE  /\ at \in Tables /\ log[at] = mem[at] /\ log[at] # NoLog
                      /\ job.kind # "commit" => at \notin startTables
    BY <2>1
  <2>2. pc = "flush"
    BY DEF DatabaseInv, ControlOK
  <2>3. at \in Tables /\ (job.kind # "commit" => at \notin startTables)
    BY <2>2, FlushFacts
  <2>4. log[at] = mem[at]
    BY <2>2 DEF DatabaseInv, FlushOK
  <2> QED
    BY <2>1, <2>3, <2>4, DatabaseAssumption DEF TypeOK, Contents, Row
<1>c. job' \in Job /\ job'.kind = "none"
  BY <1>a, NoJobKind
<1>d. mem' \in [Tables -> Contents] /\ \A t \in Tables : mem'[t] = Empty
  BY <1>a, EmptyContents
<1>e. /\ db' \in [Tables -> Contents] /\ size' \in [Tables -> {"absent", "empty", "odd", "whole"}]
      /\ \A t \in Tables : \/ db'[t] = db[t] /\ size'[t] \in {size[t], "whole"}
                           \/ at # NoTable /\ t = at /\ db'[t].rows = mem[t].rows /\ size'[t] = "whole"
  <2>1. CASE UNCHANGED <<size, db>>
    BY <1>b, <2>1 DEF TypeOK
  <2>2. CASE /\ at # NoTable
             /\ \E m \in BOOLEAN : db' = [db EXCEPT ![at] = [mem[at] EXCEPT !.mixed = @ \/ m]]
             /\ size' = [size EXCEPT ![at] = "whole"]
    <3>1. PICK m \in BOOLEAN : db' = [db EXCEPT ![at] = [mem[at] EXCEPT !.mixed = @ \/ m]]
      BY <2>2
    <3> DEFINE b == mem[at].mixed \/ m
               c == [mem[at] EXCEPT !.mixed = b]
    <3>2. mem[at] \in Contents /\ at \in Tables /\ db \in [Tables -> Contents]
      BY <1>b, <2>2 DEF TypeOK
    <3>3. b \in BOOLEAN
      BY Zenon
    <3>4. db' = [db EXCEPT ![at] = c]
      BY <3>1
    <3> HIDE DEF b
    <3>5. c \in Contents /\ c.rows = mem[at].rows
      BY <3>2, <3>3, MixedContents
    <3> HIDE DEF c
    <3>6. /\ db' \in [Tables -> Contents] /\ db'[at].rows = mem[at].rows
          /\ \A t \in Tables : t # at => db'[t] = db[t]
      BY <3>2, <3>4, <3>5
    <3>7. /\ size' \in [Tables -> {"absent", "empty", "odd", "whole"}] /\ size'[at] = "whole"
          /\ \A t \in Tables : t # at => size'[t] = size[t]
      BY <1>b, <2>2, <3>2 DEF TypeOK
    <3> QED
      BY <2>2, <3>6, <3>7
  <2> QED
    BY <2>1, <2>2 DEF Kill
<1>1. TypeOK'
  <2>1. pagerTxn' \in [Tables -> BOOLEAN] /\ scanning' \in BOOLEAN /\ in_transaction' \in BOOLEAN
    BY <1>a
  <2>2. undone' \subseteq Tables \X Row
    BY <1>a, <1>b DEF TypeOK
  <2> QED
    BY <1>a, <1>b, <1>c, <1>d, <1>e, <2>1, <2>2 DEF TypeOK
<1>2. ControlOK'
  BY <1>a, <1>c DEF ControlOK
<1>3. FlushOK' /\ TxnOK'
  BY <1>a DEF FlushOK, TxnOK
<1>4. \A u \in Tables \ failed' : FileOK(u)'
  <2> SUFFICES ASSUME NEW u \in Tables \ failed PROVE FileOK(u)'
    BY <1>a
  <2>0. FileOK(u)
    BY DEF DatabaseInv
  <2>1. Open' = {}
    BY <1>a DEF Open
  <2>2. log[u] = NoLog => db'[u] = db[u]
    BY <1>b, <1>e
  <2> QED
    BY <1>a, <1>d, <2>0, <2>1, <2>2, EmptyContents DEF FileOK
<1>5. FreshOK'
  BY <1>a, <1>d, <1>e, EmptyContents DEF DatabaseInv, FreshOK
<1>6. UndoneOK'
  <2> SUFFICES ASSUME NEW x \in undone'
               PROVE  x[2] <= rows /\ x[2] \notin mem'[x[1]].rows /\ NotOnDisk(x)'
    BY <1>a DEF UndoneOK
  <2>1. CASE x \in undone
    <3>1. x[1] \in Tables /\ x[2] <= rows /\ x[2] \notin mem[x[1]].rows /\ NotOnDisk(x)
      BY <1>b, <2>1 DEF DatabaseInv, UndoneOK, TypeOK
    <3> QED
      BY <1>a, <1>d, <1>e, <3>1, EmptyContents DEF NotOnDisk
  <2>2. CASE x \in txn /\ x[1] \in startTables /\ job.kind # "commit"
    <3>1. x[1] \in Tables /\ x[2] \in mem[x[1]].rows /\ NotOnDisk(x)
      BY <1>b, <2>2 DEF DatabaseInv, TxnOK, TypeOK
    <3>2. x[2] <= rows
      BY <3>1 DEF DatabaseInv, FreshOK
    <3>3. db'[x[1]] = db[x[1]]
      BY <1>b, <1>e, <2>2, <3>1
    <3> QED
      BY <1>a, <1>d, <3>1, <3>2, <3>3, EmptyContents DEF NotOnDisk
  <2> QED
    BY <1>a, <2>1, <2>2
<1>7. DoneOK'
  BY <1>a, <1>b, <1>e DEF DatabaseInv, DoneOK, TypeOK
<1>8. SizeOK'
  BY <1>a, <1>b, <1>c, <1>e DEF DatabaseInv, SizeOK, TypeOK
<1> QED
  BY <1>1, <1>2, <1>3, <1>4, <1>5, <1>6, <1>7, <1>8 DEF DatabaseInv

-----------------------------------------------------------------------------
(***************************************************************************)
(* The theorems.                                                           *)
(***************************************************************************)
LEMMA StutterStep == DatabaseInv /\ UNCHANGED vars => DatabaseInv'
<1> SUFFICES ASSUME DatabaseInv, UNCHANGED vars PROVE DatabaseInv'
  OBVIOUS
<1> USE DEF vars, process, disk, counters, history
<1>1. TypeOK' /\ ControlOK' /\ FlushOK'
  BY DEF DatabaseInv, TypeOK, ControlOK, FlushOK, Named
<1>2. \A t \in Tables \ failed' : FileOK(t)'
  BY DEF DatabaseInv, FileOK, Open, Named
<1>3. FreshOK' /\ TxnOK' /\ UndoneOK'
  BY RowsKept
<1>4. DoneOK' /\ SizeOK'
  BY DEF DatabaseInv, DoneOK, SizeOK
<1> QED
  BY <1>1, <1>2, <1>3, <1>4 DEF DatabaseInv

\* Every reachable state of the database satisfies the inductive invariant.
THEOREM DatabaseInvariant == Spec => []DatabaseInv
<1>1. Init => DatabaseInv
  BY InitDatabase
<1>2. DatabaseInv /\ [Next]_vars => DatabaseInv'
  <2> SUFFICES ASSUME DatabaseInv, [Next]_vars PROVE DatabaseInv'
    OBVIOUS
  <2>1. CASE Start \/ Loading
    BY <2>1, StartStep, OpenTableStep, OpenRefusedStep, ListenStep DEF Loading
  <2>2. CASE Flushing
    BY <2>2, LogTableStep, CommitCleanStep, ApplyTableStep, FlushEndStep DEF Flushing
  <2>3. CASE \E t \in Tables : CreateTable(t) \/ Insert(t) \/ SelectBlank(t) \/ DiskFull(t)
    BY <2>3, CreateTableStep, InsertStep, SelectBlankStep, DiskFullStep
  <2>4. CASE Begin \/ BeginErr \/ Commit \/ Rollback \/ Kill
    BY <2>4, BeginStep, BeginErrStep, CommitStep, RollbackStep, KillStep
  <2>5. CASE UNCHANGED vars
    BY <2>5, StutterStep
  <2> QED
    BY <2>1, <2>2, <2>3, <2>4, <2>5 DEF Next
<1> QED
  BY <1>1, <1>2, PTL DEF Spec

\* The type invariant, for any set of tables.
THEOREM TypeCorrect == Spec => []TypeOK
<1>1. DatabaseInv => TypeOK
  BY DEF DatabaseInv
<1> QED
  BY <1>1, DatabaseInvariant, PTL

\* Each file opens as last committed or as the commit under way was to leave it,
\* never as a mixture, wherever Pager::commit, the loop over the tables or the
\* start-up was cut off, unless a commit of this table has met a full disk.
THEOREM TablesOpenAsCommitted == Spec => []OpensAsCommitted
<1>1. DatabaseInv => OpensAsCommitted
  BY FileOpening DEF DatabaseInv, OpensAsCommitted
<1> QED
  BY <1>1, DatabaseInvariant, PTL

\* A transaction over several tables whose commit_transaction returned is durable in
\* all of them; one that was rolled back, or cut off before its COMMIT, in none.
THEOREM FinishedTransactionsAreWhole == Spec => []TransactionsAreWhole
<1>1. DatabaseInv => TransactionsAreWhole
  <2> SUFFICES ASSUME DatabaseInv
               PROVE  /\ \A x \in done : x[1] \notin failed => x[2] \in Opening(x[1]).rows
                      /\ \A x \in undone : x[2] \notin Opening(x[1]).rows
    BY DEF TransactionsAreWhole
  <2>1. ASSUME NEW x \in done, x[1] \notin failed PROVE x[2] \in Opening(x[1]).rows
    <3>1. x[1] \in Tables /\ x[2] \in acked[x[1]].rows /\ x[2] \in attempt[x[1]].rows
      BY <2>1 DEF DatabaseInv, DoneOK, TypeOK
    <3> QED
      BY <2>1, <3>1, FileOpening DEF DatabaseInv
  <2>2. ASSUME NEW x \in undone PROVE x[2] \notin Opening(x[1]).rows
    BY NotOnDiskOpening DEF DatabaseInv, UndoneOK
  <2> QED
    BY <2>1, <2>2
<1> QED
  BY <1>1, DatabaseInvariant, PTL

\* What create_table returned is in the catalog, with its columns, after every
\* start-up, unless a full disk has left its file at a length that is refused.
THEOREM CreatedTablesLoad == Spec => []CreatedTableLoads
<1>1. DatabaseInv => CreatedTableLoads
  BY DEF DatabaseInv, SizeOK, CreatedTableLoads, TypeOK
<1> QED
  BY <1>1, DatabaseInvariant, PTL

-----------------------------------------------------------------------------
(***************************************************************************)
(* Outside transactions the cache is on disk.                              *)
(***************************************************************************)
\* What is in the cache alone is in a pager's transaction, or about to be flushed by
\* an INSERT or CREATE TABLE.  A COMMIT has nothing else before it: a table that was
\* made inside its transaction has had every row flushed.
CacheOK ==
  \A t \in Open \ failed :
    \/ pagerTxn[t] \/ mem[t] = db[t]
    \/ t \in todo /\ job.kind # "commit"

\* Until a commit fails, a pager in a transaction is one of the session's, and one
\* that its COMMIT has yet to come to.
NoStrayTransaction ==
  failed = {} =>
    \A t \in Tables :
      pagerTxn[t] =>
        in_transaction /\ t \in catalog /\ (job.kind = "commit" => t \in todo)

\* Start-up, and the statements before they flush, put rows into the cache only.
LEMMA CacheStatement ==
  ASSUME DatabaseInv, CacheOK, NoStrayTransaction, NEW t \in Tables,
         Start \/ OpenTable(t) \/ OpenRefused(t) \/ Listen
           \/ CreateTable(t) \/ Insert(t) \/ SelectBlank(t)
           \/ Begin \/ BeginErr \/ Commit \/ Rollback
  PROVE  CacheOK' /\ NoStrayTransaction'
<1>0. TypeOK /\ ControlOK
  BY DEF DatabaseInv
<1> USE DEF CacheOK, NoStrayTransaction, Open, Named
<1>1. CASE Start
  BY <1>0, <1>1 DEF Start, TypeOK, ControlOK, history
<1>2. CASE OpenTable(t)
  BY <1>0, <1>2 DEF OpenTable, OpenPager, TypeOK, ControlOK
<1>3. CASE OpenRefused(t)
  BY <1>0, <1>3 DEF OpenRefused, TypeOK, ControlOK, disk, history
<1>4. CASE Listen
  BY <1>0, <1>4 DEF Listen, TypeOK, ControlOK, disk, history
<1>5. CASE CreateTable(t)
  BY <1>0, <1>5 DEF CreateTable, OpenPager, Ready, Flush, TypeOK, ControlOK
<1>6. CASE Insert(t)
  BY <1>0, <1>6 DEF Insert, Ready, Flush, TypeOK, ControlOK, disk
<1>7. CASE SelectBlank(t)
  BY <1>0, <1>7 DEF SelectBlank, Ready, TypeOK, ControlOK, disk, history
<1>8. CASE Begin
  BY <1>0, <1>8 DEF Begin, Ready, TypeOK, ControlOK, disk
<1>9. CASE BeginErr
  BY <1>0, <1>9 DEF BeginErr, Ready, TypeOK, ControlOK, disk, history
<1>10. CASE Commit
  BY <1>0, <1>10 DEF Commit, Ready, Flush, TypeOK, ControlOK, disk
<1>11. CASE Rollback
  BY <1>0, <1>11 DEF Rollback, Ready, Undo, TypeOK, ControlOK
<1> QED
  BY <1>1, <1>2, <1>3, <1>4, <1>5, <1>6, <1>7, <1>8, <1>9, <1>10, <1>11

\* The commit loop puts the cache into the file of each table it leaves; a kill
\* leaves no cache.
LEMMA CacheFlush ==
  ASSUME DatabaseInv, CacheOK, NoStrayTransaction, NEW t \in Tables,
         LogTable(t) \/ CommitClean(t) \/ ApplyTable \/ FlushEnd \/ DiskFull(t) \/ Kill
  PROVE  CacheOK' /\ NoStrayTransaction'
<1>0. TypeOK /\ ControlOK
  BY DEF DatabaseInv
<1>a. pc = "flush" => /\ todo \subseteq Named /\ job.kind \in {"create", "insert", "commit"}
                      /\ at # NoTable => at \in todo /\ at \in Tables
                      /\ job.kind # "commit" => Named = {job.table}
                      /\ job.kind = "commit" => Named = catalog
  BY FlushFacts
<1> USE DEF CacheOK, NoStrayTransaction, Open
<1>1. CASE LogTable(t)
  BY <1>0, <1>1 DEF LogTable, Named, counters, history
<1>2. CASE CommitClean(t)
  BY <1>0, <1>a, <1>2 DEF CommitClean, HasDirty, Named, TypeOK, counters, history
<1>3. CASE ApplyTable
  BY <1>0, <1>a, <1>3 DEF ApplyTable, Named, TypeOK, counters, history
<1>4. CASE FlushEnd
  BY <1>0, <1>a, <1>4, NoJobKind DEF FlushEnd, Returns, Answer, TypeOK, disk, counters
<1>5. CASE DiskFull(t)
  BY <1>0, <1>a, <1>5, NoJobKind DEF DiskFull, Answer, TypeOK
<1>6. CASE Kill
  BY <1>6 DEF Kill
<1> QED
  BY <1>1, <1>2, <1>3, <1>4, <1>5, <1>6

\* What execute_insert has acknowledged outside transactions is in the file, but for
\* the tables that a commit that failed in Storage::commit has left behind.
THEOREM AcknowledgedRowsAreDurable == Spec => []AcknowledgedIsDurable
<1>1. Init => CacheOK /\ NoStrayTransaction
  BY DEF Init, CacheOK, NoStrayTransaction, Open
<1>2. DatabaseInv /\ CacheOK /\ NoStrayTransaction /\ [Next]_vars
        => CacheOK' /\ NoStrayTransaction'
  <2> SUFFICES ASSUME DatabaseInv, CacheOK, NoStrayTransaction, [Next]_vars
               PROVE  CacheOK' /\ NoStrayTransaction'
    OBVIOUS
  <2>1. CASE UNCHANGED vars
    BY <2>1 DEF CacheOK, NoStrayTransaction, Open, Named, vars, process, disk, history
  <2>2. CASE Next
    BY <2>2, CacheStatement, CacheFlush, WatchedAssumption DEF Next, Loading, Flushing
  <2> QED
    BY <2>1, <2>2
<1>3. DatabaseInv /\ CacheOK /\ NoStrayTransaction => AcknowledgedIsDurable
  <2> SUFFICES ASSUME DatabaseInv, CacheOK, NoStrayTransaction,
                      pc = "ready", ~in_transaction, NEW t \in catalog \ failed
               PROVE  mem[t] = Opening(t) \/ (pagerTxn[t] /\ failed # {})
    BY DEF AcknowledgedIsDurable
  <2>1. t \in Tables /\ t \in Open /\ todo = {} /\ at = NoTable /\ t # NoTable
    BY DatabaseAssumption DEF DatabaseInv, TypeOK, ControlOK, Open
  <2>2. log[t] = NoLog
    BY <2>1 DEF DatabaseInv, FileOK
  <2>3. pagerTxn[t] => failed # {}
    BY <2>1 DEF NoStrayTransaction
  <2>4. pagerTxn[t] \/ mem[t] = db[t]
    BY <2>1 DEF CacheOK
  <2> QED
    BY <2>2, <2>3, <2>4 DEF Opening
<1> QED
  BY <1>1, <1>2, <1>3, DatabaseInvariant, PTL DEF Spec

-----------------------------------------------------------------------------
(***************************************************************************)
(* A table implements the durable store.                                   *)
(***************************************************************************)
\* What a table that is not in the catalog has on disk, as long as its commits have
\* not met a full disk: nothing at all, unless start-up has still to look at it or
\* CREATE TABLE is at work on it, and then nothing but blank pages.
StoreInv ==
  Watched \notin failed =>
    /\ \/ size[Watched] # "absent"
       \/ db[Watched] = Empty /\ log[Watched] = NoLog /\ Watched \notin Open
    /\ \/ Watched \in catalog \/ pc = "down" \/ size[Watched] = "absent"
       \/ pc = "load" /\ Watched \in todo
       \/ job.kind = "create" /\ job.table = Watched
    /\ \/ ~ (job.kind = "create" /\ job.table = Watched)
       \/ mem[Watched] = Empty /\ db[Watched] = Empty

\* Before the first start there is nothing on disk.
LEMMA InitStore == Init => StoreInv /\ Store!Init
BY WatchedAssumption
   DEF Init, StoreInv, Open, NoJob, Opening, Status, Stable, Working, Store!Init

\* A table stays among those whose commits met a full disk.
LEMMA FailedGrows == [Next]_vars => failed \subseteq failed'
BY DEF Next, vars, Start, Loading, OpenTable, OpenRefused, Listen, Flushing, LogTable,
       CommitClean, ApplyTable, FlushEnd, Returns, CreateTable, Insert, SelectBlank, DiskFull,
       Begin, BeginErr, Commit, Rollback, Kill, process, disk, counters, history

\* Start-up keeps StoreInv.
LEMMA StoreInvStartup ==
  ASSUME DatabaseInv, StoreInv, Start \/ Loading, Watched \notin failed'
  PROVE  StoreInv'
<1> USE WatchedAssumption
<1>0. TypeOK /\ ControlOK /\ SizeOK
  BY DEF DatabaseInv
<1>1. CASE Start
  BY <1>0, <1>1 DEF Start, StoreInv, Open, ControlOK, disk, history
<1>2. ASSUME NEW t \in Tables, OpenTable(t) PROVE StoreInv'
  <2>1. pc = "load" /\ t \in todo /\ size[t] # "odd" /\ OpenPager(t) /\ failed' = failed
    BY <1>2 DEF OpenTable
  <2>2. job.kind = "none"
    BY <1>0, <2>1 DEF ControlOK
  <2>3. CASE t = Watched
    BY <1>0, <1>2, <2>1, <2>2, <2>3, OpenPagerEffect DEF OpenTable, StoreInv
  <2>4. CASE t # Watched
    BY <1>0, <1>2, <2>1, <2>2, <2>4, OpenPagerEffect DEF OpenTable, StoreInv, Open
  <2> QED  BY <2>3, <2>4
<1>3. ASSUME NEW t \in Tables, OpenRefused(t) PROVE StoreInv'
  BY <1>0, <1>3 DEF OpenRefused, StoreInv, Open, ControlOK, SizeOK, disk, history
<1>4. CASE Listen
  BY <1>0, <1>4 DEF Listen, StoreInv, Open, ControlOK, disk, history
<1> QED  BY <1>1, <1>2, <1>3, <1>4 DEF Loading

\* So do the statements.
LEMMA StoreInvStatement ==
  ASSUME DatabaseInv, StoreInv, Watched \notin failed',
         \/ \E t \in Tables : CreateTable(t) \/ Insert(t) \/ SelectBlank(t)
         \/ Begin \/ BeginErr \/ Commit \/ Rollback
  PROVE  StoreInv'
<1> USE WatchedAssumption
<1>0. TypeOK /\ ControlOK /\ SizeOK
  BY DEF DatabaseInv
<1>1. ASSUME NEW t \in Tables, CreateTable(t) PROVE StoreInv'
  <2>1. /\ pc = "ready" /\ t \notin catalog /\ size[t] # "odd" /\ OpenPager(t) /\ failed' = failed
        /\ catalog' = catalog /\ pc' = "flush" /\ job' = [kind |-> "create", table |-> t]
        /\ mem' = [mem EXCEPT ![t] = Empty]
    BY <1>1 DEF CreateTable, Flush, Ready
  <2>2. job.kind = "none" /\ job'.kind = "create" /\ job'.table = t /\ Open' = catalog \cup {t} /\ Open = catalog
    BY <1>0, <2>1 DEF ControlOK, Open, Named
  <2>3. CASE t = Watched
    <3>1. db[t] = Empty /\ log[t] = NoLog
      BY <2>1, <2>2, <2>3 DEF StoreInv
    <3>2. db'[t] = Empty /\ size'[t] # "absent" /\ mem'[t] = Empty
      BY <1>0, <2>1, <3>1, OpenPagerEffect DEF TypeOK, Opening
    <3> QED  BY <2>2, <2>3, <3>2 DEF StoreInv
  <2>4. CASE t # Watched
    <3>1. db'[Watched] = db[Watched] /\ log'[Watched] = log[Watched] /\ size'[Watched] = size[Watched]
      BY <1>0, <2>1, <2>4, OpenPagerEffect
    <3> QED  BY <2>1, <2>2, <2>4, <3>1 DEF StoreInv
  <2> QED  BY <2>3, <2>4
<1>2. ASSUME NEW t \in Tables, Insert(t) PROVE StoreInv'
  <2>1. /\ pc = "ready" /\ t \in catalog /\ failed' = failed /\ catalog' = catalog
        /\ db' = db /\ log' = log /\ size' = size
        /\ \/ pc' = pc /\ job' = job
           \/ pc' = "flush" /\ job' = [kind |-> "insert", table |-> t]
    BY <1>2 DEF Insert, Flush, Ready, disk
  <2>2. job.kind = "none" /\ job'.kind # "create" /\ Open' = catalog /\ Open = catalog
    BY <1>0, <2>1 DEF ControlOK, Open, Named
  <2> QED  BY <2>1, <2>2 DEF StoreInv
<1>3. ASSUME NEW t \in Tables, SelectBlank(t) PROVE StoreInv'
  BY <1>0, <1>3 DEF SelectBlank, StoreInv, Open, Named, ControlOK, disk, history
<1>4. CASE Begin
  BY <1>0, <1>4 DEF Begin, Ready, StoreInv, Open, ControlOK, disk
<1>5. CASE BeginErr
  BY <1>0, <1>5 DEF BeginErr, Ready, StoreInv, Open, ControlOK, disk, history
<1>6. CASE Commit
  <2>1. job.kind = "none" /\ job'.kind = "commit" /\ Open' = catalog /\ Open = catalog
    BY <1>0, <1>6 DEF Commit, Flush, Ready, ControlOK, Open, Named
  <2> QED  BY <1>6, <2>1 DEF Commit, Flush, Ready, StoreInv, disk
<1>7. CASE Rollback
  BY <1>0, <1>7 DEF Rollback, Ready, StoreInv, Open, ControlOK, TypeOK
<1> QED  BY <1>1, <1>2, <1>3, <1>4, <1>5, <1>6, <1>7

\* So do the commits, a full disk and a kill.
LEMMA StoreInvFlush ==
  ASSUME DatabaseInv, StoreInv, Watched \notin failed',
         Flushing \/ (\E t \in Tables : DiskFull(t)) \/ Kill
  PROVE  StoreInv'
<1> USE WatchedAssumption
<1>0. TypeOK /\ ControlOK /\ SizeOK
  BY DEF DatabaseInv
<1>1. ASSUME NEW t \in Tables, LogTable(t) PROVE StoreInv'
  <2>1. /\ pc = "flush" /\ t \in Open /\ pc' = pc /\ job' = job /\ todo' = todo /\ catalog' = catalog
        /\ size' = size /\ db' = db /\ mem' = mem /\ failed' = failed
        /\ log' = [log EXCEPT ![t] = mem[t]]
    BY <1>0, <1>1 DEF LogTable, ControlOK, Open, counters, history
  <2>2. Open' = Open /\ (t # Watched => log'[Watched] = log[Watched])
    BY <1>0, <2>1 DEF Open, Named, TypeOK
  <2> QED  BY <2>1, <2>2 DEF StoreInv
<1>2. ASSUME NEW t \in Tables, CommitClean(t) PROVE StoreInv'
  <2>1. /\ pc = "flush" /\ pc' = pc /\ job' = job /\ catalog' = catalog
        /\ size' = size /\ db' = db /\ mem' = mem /\ failed' = failed
        /\ log' = [log EXCEPT ![t] = NoLog]
    BY <1>2 DEF CommitClean, counters, history
  <2>2. Open' = Open /\ (log'[Watched] = log[Watched] \/ log'[Watched] = NoLog)
    BY <1>0, <2>1 DEF Open, Named, TypeOK
  <2> QED  BY <2>1, <2>2 DEF StoreInv
<1>3. CASE ApplyTable
  <2>1. /\ pc = "flush" /\ at \in Tables /\ pc' = pc /\ job' = job /\ catalog' = catalog
        /\ mem' = mem /\ failed' = failed
        /\ log' = [log EXCEPT ![at] = NoLog] /\ db' = [db EXCEPT ![at] = mem[at]]
        /\ size' = [size EXCEPT ![at] = "whole"]
    BY <1>0, <1>3 DEF ApplyTable, TypeOK, counters, history
  <2>2. Open' = Open
    BY <2>1 DEF Open, Named
  <2>3. CASE at = Watched
    <3>1. Watched \in Open
      BY <1>0, <2>1, <2>3, DatabaseAssumption DEF TypeOK, ControlOK, Open
    <3>2. db'[Watched] = mem[Watched] /\ size'[Watched] = "whole"
      BY <1>0, <2>1, <2>3 DEF TypeOK
    <3> QED  BY <2>1, <2>2, <2>3, <3>1, <3>2 DEF StoreInv
  <2>4. CASE at # Watched
    BY <1>0, <2>1, <2>2, <2>4 DEF StoreInv, TypeOK
  <2> QED  BY <2>3, <2>4
<1>4. CASE FlushEnd
  <2>1. /\ pc = "flush" /\ pc' = "ready" /\ catalog' = catalog \cup Named /\ failed' = failed
        /\ size' = size /\ db' = db /\ log' = log /\ job' = NoJob
    BY <1>4 DEF FlushEnd, Returns, Answer, disk
  <2>2. job'.kind = "none" /\ Open' = Open /\ Open = catalog \cup Named
    BY <2>1, NoJobKind DEF Open
  <2>3. job.kind = "create" /\ job.table = Watched => Watched \in catalog'
    BY <2>1 DEF Named
  <2> QED  BY <2>1, <2>2, <2>3 DEF StoreInv
<1>5. ASSUME NEW t \in Tables, DiskFull(t) PROVE StoreInv'
  <2>1. /\ pc = "flush" /\ t \in todo /\ t # Watched /\ pc' = "ready" /\ catalog' = catalog
        /\ log' = log /\ job' = NoJob /\ Watched \notin failed
        /\ db'[Watched] = db[Watched] /\ size'[Watched] = size[Watched]
    BY <1>0, <1>5 DEF DiskFull, Answer, TypeOK
  <2>2. job'.kind = "none" /\ Open' = catalog /\ Open = catalog \cup Named /\ todo \subseteq Named
    BY <1>0, <2>1, NoJobKind DEF Open, ControlOK
  <2>3. ~ (job.kind = "create" /\ job.table = Watched)
    BY <2>1, <2>2 DEF Named
  <2> QED  BY <2>1, <2>2, <2>3 DEF StoreInv
<1>6. CASE Kill
  <2>1. /\ pc' = "down" /\ catalog' = {} /\ log' = log /\ job' = NoJob /\ failed' = failed
        /\ \/ db'[Watched] = db[Watched] /\ size'[Watched] = size[Watched]
           \/ size'[Watched] = "whole"
    BY <1>0, <1>6 DEF Kill, TypeOK
  <2>2. job'.kind = "none" /\ Open' = {}
    BY <2>1, NoJobKind DEF Open
  <2> QED  BY <2>1, <2>2 DEF StoreInv
<1> QED  BY <1>1, <1>2, <1>3, <1>4, <1>5, <1>6 DEF Flushing

LEMMA StoreInvStep == DatabaseInv /\ StoreInv /\ [Next]_vars => StoreInv'
<1> SUFFICES ASSUME DatabaseInv, StoreInv, [Next]_vars, Watched \notin failed' PROVE StoreInv'
  BY DEF StoreInv
<1>1. CASE UNCHANGED vars
  BY <1>1 DEF vars, process, disk, history, StoreInv, Open, Named
<1>2. CASE Next
  BY <1>2, StoreInvStartup, StoreInvStatement, StoreInvFlush DEF Next
<1> QED  BY <1>1, <1>2

\* What leaves the table's cache, file and log alone is a stutter.
LEMMA SameTable ==
  ASSUME Watched \in catalog' <=> Watched \in catalog, at' = Watched <=> at = Watched,
         log'[Watched] = log[Watched], db'[Watched] = db[Watched],
         log[Watched] # NoLog => acked'[Watched] = acked[Watched],
         Watched \in catalog => mem'[Watched] = mem[Watched],
         Watched \in failed' <=> Watched \in failed
  PROVE  UNCHANGED Store!vars
<1>1. UNCHANGED <<Status, Stable, Working>>
  BY DEF Status, Stable, Working
<1>2. (Opening(Watched))' = Opening(Watched)
  BY DEF Opening
<1>3. (Watched \notin failed)' = (Watched \notin failed)
  OBVIOUS
<1> QED  BY <1>1, <1>2, <1>3 DEF Store!vars

\* What the invariants say of the table.
LEMMA TableFacts ==
  ASSUME DatabaseInv, StoreInv, Watched \notin failed
  PROVE  /\ TypeOK /\ ControlOK /\ FlushOK /\ FileOK(Watched)
         /\ Opening(Watched) \in {Stable, Opening(Watched)}
         /\ Opening(Watched) \in Contents
         /\ Watched \in Open /\ at # Watched => log[Watched] = NoLog
         /\ at = Watched => Watched \in Named /\ pc = "flush" /\ log[Watched] = mem[Watched]
         /\ db[Watched] \in Contents /\ mem[Watched] \in Contents
<1>1. TypeOK /\ ControlOK /\ FlushOK /\ FileOK(Watched)
  BY WatchedAssumption DEF DatabaseInv
<1>2. at = Watched => Watched \in Named /\ pc = "flush" /\ log[Watched] = mem[Watched]
  BY <1>1, WatchedAssumption, DatabaseAssumption DEF TypeOK, ControlOK, FlushOK
<1> QED  BY <1>1, <1>2, OpeningType, WatchedAssumption DEF FileOK, TypeOK

\* What start-up does to the table is a stutter, or the opening of the store.
LEMMA StoreStartup ==
  ASSUME DatabaseInv, StoreInv, Watched \notin failed, Watched \notin failed', Start \/ Loading
  PROVE  Store!Next \/ UNCHANGED Store!vars
<1>0. TypeOK /\ ControlOK /\ Watched \in Tables
  BY WatchedAssumption DEF DatabaseInv
<1>1. CASE Start
  BY <1>1, SameTable DEF Start, disk, history
<1>2. ASSUME NEW t \in Tables, OpenTable(t) PROVE Store!Next \/ UNCHANGED Store!vars
  <2>1. /\ pc = "load" /\ t \in todo /\ size[t] # "odd" /\ OpenPager(t) /\ at' = at
        /\ mem' = [mem EXCEPT ![t] = db'[t]] /\ catalog' = catalog \cup {t}
        /\ acked' = [acked EXCEPT ![t] = db'[t]]
    BY <1>2 DEF OpenTable
  <2>2. CASE t = Watched
    <3>1. Watched \notin catalog /\ Watched \in catalog' /\ at # Watched /\ at' # Watched
      BY <1>0, <2>1, <2>2, DatabaseAssumption DEF ControlOK
    <3>2. db'[Watched] = Opening(Watched) /\ log'[Watched] = NoLog /\ mem'[Watched] = Opening(Watched)
      BY <1>0, <2>1, <2>2, OpenPagerEffect DEF TypeOK
    <3>3. (Opening(Watched))' = Opening(Watched)
      BY <3>2 DEF Opening
    <3>4. Status = "down" /\ Status' = "open" /\ Stable' = Opening(Watched) /\ Working' = Opening(Watched)
      BY <3>1, <3>2 DEF Status, Stable, Working
    <3>5. Store!Opened
      BY <3>3, <3>4 DEF Store!Opened, Store!Openings
    <3> QED  BY <3>5 DEF Store!Next
  <2>3. CASE t # Watched
    <3>1. db'[Watched] = db[Watched] /\ log'[Watched] = log[Watched]
      BY <1>0, <2>1, <2>3, OpenPagerEffect
    <3>2. mem'[Watched] = mem[Watched] /\ acked'[Watched] = acked[Watched]
      BY <1>0, <2>1, <2>3 DEF TypeOK
    <3> QED  BY <2>1, <2>3, <3>1, <3>2, SameTable
  <2> QED  BY <2>2, <2>3
<1>3. ASSUME NEW t \in Tables, OpenRefused(t) PROVE Store!Next \/ UNCHANGED Store!vars
  BY <1>3, SameTable DEF OpenRefused, disk, history
<1>4. CASE Listen
  BY <1>4, SameTable DEF Listen, disk, history
<1> QED  BY <1>1, <1>2, <1>3, <1>4 DEF Loading

\* An INSERT into the table writes to the working copy, ROLLBACK rolls it back, and no
\* other statement does anything to it before it flushes.
LEMMA StoreStatement ==
  ASSUME DatabaseInv, StoreInv, Watched \notin failed, Watched \notin failed',
         \/ \E t \in Tables : CreateTable(t) \/ Insert(t) \/ SelectBlank(t)
         \/ Begin \/ BeginErr \/ Commit \/ Rollback
  PROVE  Store!Next \/ UNCHANGED Store!vars
<1>0. TypeOK /\ ControlOK /\ Watched \in Tables
  BY WatchedAssumption DEF DatabaseInv
<1>1. ASSUME NEW t \in Tables, CreateTable(t) PROVE Store!Next \/ UNCHANGED Store!vars
  <2>1. /\ pc = "ready" /\ t \notin catalog /\ size[t] # "odd" /\ OpenPager(t) /\ at' = at
        /\ catalog' = catalog /\ mem' = [mem EXCEPT ![t] = Empty]
        /\ acked' = [acked EXCEPT ![t] = db'[t]]
    BY <1>1 DEF CreateTable, Ready
  <2>2. CASE t = Watched
    <3>1. log[Watched] = NoLog
      BY <1>0, <2>1, <2>2 DEF StoreInv, ControlOK
    <3>2. db'[Watched] = db[Watched] /\ log'[Watched] = NoLog
      BY <1>0, <2>1, <2>2, <3>1, OpenPagerEffect DEF Opening
    <3> QED  BY <2>1, <2>2, <3>1, <3>2, SameTable
  <2>3. CASE t # Watched
    <3>1. db'[Watched] = db[Watched] /\ log'[Watched] = log[Watched]
      BY <1>0, <2>1, <2>3, OpenPagerEffect
    <3>2. mem'[Watched] = mem[Watched] /\ acked'[Watched] = acked[Watched]
      BY <1>0, <2>1, <2>3 DEF TypeOK
    <3> QED  BY <2>1, <3>1, <3>2, SameTable
  <2> QED  BY <2>2, <2>3
<1>2. ASSUME NEW t \in Tables, Insert(t) PROVE Store!Next \/ UNCHANGED Store!vars
  <2>1. /\ pc = "ready" /\ t \in catalog /\ at' = at /\ catalog' = catalog
        /\ mem' = [mem EXCEPT ![t].rows = @ \cup {rows'}] /\ acked' = acked
        /\ db' = db /\ log' = log
    BY <1>2 DEF Insert, Ready, disk
  <2>2. CASE t = Watched
    <3>1. mem' \in [Tables -> Contents]
      BY <1>2, InsertStep DEF DatabaseInv, TypeOK
    <3>2. Watched \in catalog /\ at # Watched /\ at' # Watched
      BY <1>0, <2>1, <2>2, DatabaseAssumption DEF ControlOK
    <3>3. Status = "open" /\ Status' = "open" /\ Stable' = Stable /\ Working' \in Contents
      BY <1>0, <2>1, <3>1, <3>2 DEF Status, Stable, Working
    <3>4. (Opening(Watched))' = Opening(Watched)
      BY <2>1 DEF Opening
    <3>5. Store!Write
      BY <3>3, <3>4 DEF Store!Write
    <3> QED  BY <3>5 DEF Store!Next
  <2>3. CASE t # Watched
    <3>1. mem'[Watched] = mem[Watched]
      BY <1>0, <2>1, <2>3 DEF TypeOK
    <3> QED  BY <2>1, <3>1, SameTable
  <2> QED  BY <2>2, <2>3
<1>3. ASSUME NEW t \in Tables, SelectBlank(t) PROVE Store!Next \/ UNCHANGED Store!vars
  BY <1>3, SameTable DEF SelectBlank, disk, history
<1>4. CASE Begin
  BY <1>4, SameTable DEF Begin, disk
<1>5. CASE BeginErr
  BY <1>5, SameTable DEF BeginErr, disk, history
<1>6. CASE Commit
  BY <1>6, SameTable DEF Commit, disk
<1>7. CASE Rollback
  <2>1. /\ pc = "ready" /\ at' = at /\ catalog' = catalog /\ db' = db /\ acked' = acked
        /\ mem' = [t \in Tables |-> IF t \in catalog THEN db[t] ELSE mem[t]]
        /\ log' = [t \in Tables |-> IF t \in catalog THEN NoLog ELSE log[t]]
    BY <1>7 DEF Rollback, Ready
  <2>2. CASE Watched \in catalog
    <3>1. at # Watched /\ at' # Watched /\ log[Watched] = NoLog
      BY <1>0, <2>1, <2>2, DatabaseAssumption, TableFacts DEF ControlOK, Open
    <3>2. log'[Watched] = NoLog /\ mem'[Watched] = db[Watched] /\ db'[Watched] = db[Watched]
      BY <1>0, <2>1, <2>2
    <3>3. /\ Status = "open" /\ Status' = "open" /\ Stable = db[Watched] /\ Stable' = db[Watched]
          /\ Working' = db[Watched]
      BY <2>1, <2>2, <3>1, <3>2 DEF Status, Stable, Working
    <3>4. (Opening(Watched))' = Opening(Watched)
      BY <3>1, <3>2 DEF Opening
    <3>5. Store!Rollback
      BY <3>3, <3>4 DEF Store!Rollback
    <3> QED  BY <3>5 DEF Store!Next
  <2>3. CASE Watched \notin catalog
    BY <1>0, <2>1, <2>3, SameTable
  <2> QED  BY <2>2, <2>3
<1> QED  BY <1>1, <1>2, <1>3, <1>4, <1>5, <1>6, <1>7

\* From the marker in the table's log to the end of its truncation the store commits;
\* the pages of a new table are the blank ones it has already.
LEMMA StoreFlush ==
  ASSUME DatabaseInv, StoreInv, Watched \notin failed, Watched \notin failed', Flushing
  PROVE  Store!Next \/ UNCHANGED Store!vars
<1>0. TypeOK /\ ControlOK /\ FlushOK /\ FileOK(Watched) /\ Watched \in Tables
  BY TableFacts, WatchedAssumption
<1>a. mem[Watched] \in Contents /\ mem[Watched] # NoLog
  BY <1>0, DatabaseAssumption DEF TypeOK, Contents, Row
<1>b. pc = "flush" /\ Watched \in todo =>
        /\ Watched \in Named /\ Watched \in Open /\ db[Watched] = acked[Watched]
        /\ at # Watched => log[Watched] = NoLog
        /\ Watched \in catalog \/ (mem[Watched] = Empty /\ db[Watched] = Empty)
  BY <1>0 DEF ControlOK, FileOK, Open, Named, StoreInv
<1>1. ASSUME NEW t \in Tables, LogTable(t) PROVE Store!Next \/ UNCHANGED Store!vars
  <2>1. /\ pc = "flush" /\ at = NoTable /\ t \in todo /\ at' = t
        /\ catalog' = catalog /\ mem' = mem /\ db' = db /\ acked' = acked
        /\ log' = [log EXCEPT ![t] = mem[t]]
    BY <1>1 DEF LogTable, history
  <2>2. at # Watched
    BY <1>0, <2>1, DatabaseAssumption
  <2>3. CASE t = Watched
    <3>1. log'[Watched] = mem[Watched] /\ log[Watched] = NoLog /\ at' = Watched
      BY <1>0, <1>b, <2>1, <2>2, <2>3 DEF TypeOK
    <3>2. (Opening(Watched))' = mem[Watched] /\ Stable = db[Watched] /\ Stable' = db[Watched]
      BY <1>a, <1>b, <2>1, <2>3, <3>1 DEF Opening, Stable
    <3>3. CASE Watched \in catalog
      <4>1. Status = "open" /\ Status' = "committing"
        BY <2>1, <2>2, <3>1, <3>3 DEF Status
      <4>2. Working = mem[Watched] /\ Working' = mem[Watched]
        BY <2>1, <4>1 DEF Working
      <4>3. Store!CommitStart
        BY <3>2, <4>1, <4>2 DEF Store!CommitStart
      <4> QED  BY <4>3 DEF Store!Next
    <3>4. CASE Watched \notin catalog
      <4>1. Opening(Watched) = Empty /\ mem[Watched] = Empty
        BY <1>b, <2>1, <2>3, <3>1, <3>4 DEF Opening
      <4>2. Status = "down" /\ Status' = "down" /\ Working = Empty /\ Working' = Empty
        BY <2>1, <3>4 DEF Status, Working
      <4> QED  BY <3>2, <4>1, <4>2 DEF Store!vars
    <3> QED  BY <3>3, <3>4
  <2>4. CASE t # Watched
    <3>1. log'[Watched] = log[Watched]
      BY <1>0, <2>1, <2>4 DEF TypeOK
    <3> QED  BY <2>1, <2>2, <2>4, <3>1, SameTable
  <2> QED  BY <2>3, <2>4
<1>2. ASSUME NEW t \in Tables, CommitClean(t) PROVE Store!Next \/ UNCHANGED Store!vars
  <2>1. /\ pc = "flush" /\ at = NoTable /\ t \in todo /\ at' = at
        /\ catalog' = catalog /\ mem' = mem /\ db' = db /\ acked' = acked
        /\ log' = [log EXCEPT ![t] = NoLog]
    BY <1>2 DEF CommitClean, history
  <2>2. log'[Watched] = log[Watched]
    BY <1>0, <1>b, <2>1, DatabaseAssumption DEF TypeOK
  <2> QED  BY <2>1, <2>2, SameTable
<1>3. CASE ApplyTable
  <2>1. /\ pc = "flush" /\ at \in Tables /\ at \in todo /\ at' = NoTable
        /\ catalog' = catalog /\ mem' = mem /\ acked' = acked
        /\ log' = [log EXCEPT ![at] = NoLog] /\ db' = [db EXCEPT ![at] = mem[at]]
    BY <1>0, <1>3 DEF ApplyTable, TypeOK, history
  <2>2. at' # Watched
    BY <1>0, <2>1, DatabaseAssumption
  <2>3. CASE at = Watched
    <3>1. log[Watched] = mem[Watched] /\ log'[Watched] = NoLog /\ db'[Watched] = mem[Watched]
      BY <1>0, <2>1, <2>3, DatabaseAssumption DEF TypeOK, FlushOK
    <3>2. Opening(Watched) = mem[Watched] /\ (Opening(Watched))' = mem[Watched]
      BY <1>a, <3>1 DEF Opening
    <3>3. Stable = db[Watched] /\ Stable' = mem[Watched]
      BY <1>a, <1>b, <2>1, <2>3, <3>1 DEF Stable
    <3>4. CASE Watched \in catalog
      <4>1. Status = "committing" /\ Status' = "open"
        BY <2>1, <2>2, <2>3, <3>4 DEF Status
      <4>2. Working' = Working
        BY <2>1, <4>1 DEF Working
      <4>3. Store!Committed
        BY <3>2, <3>3, <4>1, <4>2 DEF Store!Committed
      <4> QED  BY <4>3 DEF Store!Next
    <3>5. CASE Watched \notin catalog
      <4>1. db[Watched] = Empty /\ mem[Watched] = Empty
        BY <1>b, <2>1, <2>3, <3>5
      <4>2. Status = "down" /\ Status' = "down" /\ Working = Empty /\ Working' = Empty
        BY <2>1, <3>5 DEF Status, Working
      <4> QED  BY <3>2, <3>3, <4>1, <4>2 DEF Store!vars
    <3> QED  BY <3>4, <3>5
  <2>4. CASE at # Watched
    <3>1. log'[Watched] = log[Watched] /\ db'[Watched] = db[Watched]
      BY <1>0, <2>1, <2>4 DEF TypeOK
    <3> QED  BY <2>1, <2>2, <2>4, <3>1, SameTable
  <2> QED  BY <2>3, <2>4
<1>4. CASE FlushEnd
  <2>1. /\ pc = "flush" /\ at = NoTable /\ at' = NoTable /\ catalog' = catalog \cup Named
        /\ mem' = mem /\ log' = log /\ db' = db
        /\ acked' = [t \in Tables |-> IF t \in Named THEN attempt[t] ELSE acked[t]]
    BY <1>4 DEF FlushEnd, Returns, Answer, disk
  <2>2. at # Watched /\ at' # Watched
    BY <1>0, <2>1, DatabaseAssumption
  <2>3. CASE Watched \in catalog
    <3>1. log[Watched] = NoLog
      BY <1>0, <2>2, <2>3 DEF FileOK, Open
    <3> QED  BY <2>1, <2>2, <2>3, <3>1, SameTable
  <2>4. CASE Watched \notin catalog /\ Watched \in Named
    <3>1. log[Watched] = NoLog /\ mem[Watched] = Empty /\ db[Watched] = Empty
      BY <1>0, <2>1, <2>2, <2>4 DEF FileOK, Open, Named, StoreInv, ControlOK
    <3>2. Status = "down" /\ Status' = "open" /\ Stable = Empty /\ Stable' = Empty
      BY <2>1, <2>2, <2>4, <3>1 DEF Status, Stable
    <3>3. (Opening(Watched))' = Empty /\ Working' = Empty
      BY <2>1, <3>1, <3>2 DEF Opening, Working
    <3>4. Store!Opened
      BY <3>2, <3>3 DEF Store!Opened, Store!Openings
    <3> QED  BY <3>4 DEF Store!Next
  <2>5. CASE Watched \notin catalog /\ Watched \notin Named
    BY <1>0, <2>1, <2>2, <2>5, SameTable
  <2> QED  BY <2>3, <2>4, <2>5
<1> QED  BY <1>1, <1>2, <1>3, <1>4 DEF Flushing

\* A full disk in the commit of another table is a stutter, and a kill is a crash that
\* leaves both the last commit and the one under way to be found.
LEMMA StoreFailure ==
  ASSUME DatabaseInv, StoreInv, Watched \notin failed, Watched \notin failed',
         (\E t \in Tables : DiskFull(t)) \/ Kill
  PROVE  Store!Next \/ UNCHANGED Store!vars
<1>0. TypeOK /\ ControlOK /\ FlushOK /\ FileOK(Watched) /\ Watched \in Tables
  BY TableFacts, WatchedAssumption
<1>1. ASSUME NEW t \in Tables, DiskFull(t) PROVE Store!Next \/ UNCHANGED Store!vars
  <2>1. /\ pc = "flush" /\ t \in todo /\ at \in {t, NoTable} /\ at' = NoTable /\ t # Watched
        /\ catalog' = catalog /\ log' = log
        /\ mem' = IF job.kind = "create" THEN [mem EXCEPT ![t] = Empty] ELSE mem
        /\ acked' = [u \in Tables |-> IF u \in Named \ todo THEN attempt[u] ELSE acked[u]]
    BY <1>1 DEF DiskFull, Answer
  <2>2. db'[Watched] = db[Watched]
    BY <1>0, <1>1, <2>1 DEF DiskFull, TypeOK
  <2>3. at # Watched /\ at' # Watched /\ mem'[Watched] = mem[Watched]
    BY <1>0, <2>1, DatabaseAssumption DEF TypeOK
  <2>4. log[Watched] # NoLog => Watched \notin Named
    BY <1>0, <2>1, <2>3 DEF FileOK, Open
  <2>5. log[Watched] # NoLog => acked'[Watched] = acked[Watched]
    BY <1>0, <2>1, <2>4
  <2> QED  BY <2>1, <2>2, <2>3, <2>5, SameTable
<1>2. CASE Kill
  <2>1. catalog' = {} /\ log' = log /\ acked' = acked
    BY <1>2 DEF Kill
  <2>2. log[Watched] = NoLog => at # Watched
    BY <1>0, DatabaseAssumption DEF TypeOK, ControlOK, FlushOK, Contents, Row
  <2>3. log[Watched] = NoLog => db'[Watched] = db[Watched]
    BY <1>0, <1>2, <2>2 DEF Kill, TypeOK
  <2>4. Status' = "down" /\ Working' = Empty /\ Stable' = Stable
    BY <2>1, <2>3 DEF Status, Working, Stable
  <2>5. (Opening(Watched))' = Opening(Watched)
    BY <2>1, <2>3 DEF Opening
  <2>6. Store!Crash
    BY <2>4, <2>5 DEF Store!Crash
  <2> QED  BY <2>6 DEF Store!Next
<1> QED  BY <1>1, <1>2

\* Every step of the database is a step of the table's store, or none.
LEMMA StoreStep ==
  DatabaseInv /\ StoreInv /\ [Next]_vars => [Store!Next \/ Store!CommitError]_(Store!vars)
<1> SUFFICES ASSUME DatabaseInv, StoreInv, [Next]_vars
             PROVE  Store!Next \/ Store!CommitError \/ UNCHANGED Store!vars
  OBVIOUS
<1>1. CASE Watched \in failed'
  BY <1>1 DEF Store!CommitError
<1>2. CASE Watched \notin failed'
  <2>1. Watched \notin failed
    BY <1>2, FailedGrows
  <2>2. CASE UNCHANGED vars
    BY <2>2, SameTable DEF vars, process, disk, history
  <2>3. CASE Next
    BY <1>2, <2>1, <2>3, StoreStartup, StoreStatement, StoreFlush, StoreFailure DEF Next
  <2> QED  BY <2>2, <2>3
<1> QED  BY <1>1, <1>2

\* Each table, whatever its database and the other tables go through, is the store of
\* DurableStore: Pager::commit makes durable just what the cache holds, no other step
\* changes what is durable, and open_table finds the last commit or the one under way
\* at the crash.  From the first full disk in a commit of this table on, nothing is
\* claimed of it.
THEOREM TableIsAStore == Spec => ImplementsStore
<1>1. Init => StoreInv /\ Store!Init
  BY InitStore
<1>2. DatabaseInv /\ StoreInv /\ [Next]_vars => StoreInv'
  BY StoreInvStep
<1>3. DatabaseInv /\ StoreInv /\ [Next]_vars => [Store!Next \/ Store!CommitError]_(Store!vars)
  BY StoreStep
<1> QED
  BY <1>1, <1>2, <1>3, DatabaseInvariant, PTL DEF Spec, ImplementsStore, Store!SpecWithErrors
=============================================================================
