------------------------------- MODULE Pager -------------------------------
(***************************************************************************)
(* One table's page store: the page cache and the `.db` file of pager.rs   *)
(* together with the write-ahead log of wal.rs.  Every system call of      *)
(* `commit` and of recovery is a step of its own, so that the process may  *)
(* be killed, or the machine lose power, between any two of them.          *)
(*                                                                         *)
(* A file has two contents: the one the operating system would return to a *)
(* read now (db, wal) and the one certainly on the medium (dbDur, walDur). *)
(* A kill leaves both alone; a power failure keeps, for each page of the   *)
(* `.db` written since its last fsync, the old image, the new one or a     *)
(* mixture (Torn), and of the log either the contents of its last fsync or *)
(* a prefix of what was appended since, its last record perhaps cut short. *)
(***************************************************************************)
EXTENDS Integers, Sequences, FiniteSetsExt

CONSTANTS
  MaxPages,   \* MAX_PAGES
  Data,       \* what a caller may put in a page
  ZeroPage,   \* the image of 4096 zero bytes
  Torn,       \* a page image that is a mixture of two writes
  NoPage,     \* in a file: nothing was ever written at this page number
  Absent,     \* in the cache: the slot is None
  FailureModels, \* each a set of failures that occur in one history
  MaxBoots,   \* bound on the number of times the process starts
  MaxTxns     \* bound on the commits of one process

ASSUME PagerAssumption ==
  /\ MaxPages \in Nat \ {0}
  /\ ZeroPage \in Data
  /\ Torn \notin Data /\ NoPage \notin Data /\ Absent \notin Data
  /\ Torn # NoPage /\ Torn # Absent /\ NoPage # Absent
  /\ FailureModels \subseteq SUBSET {"kill", "power"}
  /\ MaxBoots \in Nat /\ MaxTxns \in Nat

VARIABLES
  phase,           \* where the pager's only thread is
  cursor,          \* the loop index of that phase
  cache, dirty,    \* Cache.pages and the indices whose Cache.dirty is true
  file_length,     \* Pager.file_length, in pages
  in_transaction,  \* Pager.in_transaction
  txn_id,          \* Wal.txn_id
  db, dbDur,       \* the `.db` file: as read, and as last made durable
  wal, walDur,     \* the `.wal` file: as read, and as last made durable
  walSynced,       \* how many records of wal are durable
  boot,            \* history: how many times the process has started
  acked,           \* history: the file as the last commit or open that
                   \* returned left it
  attempt,         \* history: the file a commit or a recovery under way is
                   \* about to produce
  failures         \* the failure model of this history

memory == <<cache, dirty, file_length, in_transaction, txn_id>>
dbFile == <<db, dbDur>>
walFile == <<wal, walDur, walSynced>>
history == <<boot, acked, attempt, failures>>
vars == <<phase, cursor, memory, dbFile, walFile, history>>

Page == 0 .. MaxPages - 1
Image == Data \cup {Torn}
File == [Page -> Image \cup {NoPage}]

(***************************************************************************)
(* A log record.  `boot` is history: the process that wrote it.  A record  *)
(* cut short by a crash has kind "torn"; `recover` reads records at fixed  *)
(* offsets, so it finds nothing at or after one.                           *)
(***************************************************************************)
Record == [kind : {"page", "commit", "torn"}, txn : Nat, page : Page,
           data : Image, boot : Nat]

PageRecord(p) == [kind |-> "page", txn |-> txn_id, page |-> p,
                  data |-> cache[p], boot |-> boot]
\* Mutation of CommitRecord: the counter is advanced before the marker is built.
CommitRecordNextTxn == [kind |-> "commit", txn |-> txn_id + 1, page |-> 0,
                        data |-> ZeroPage, boot |-> boot]
CommitRecord == [kind |-> "commit", txn |-> txn_id, page |-> 0,
                 data |-> ZeroPage, boot |-> boot]
TornRecord(b) == [kind |-> "torn", txn |-> 0, page |-> 0,
                  data |-> ZeroPage, boot |-> b]

\* One past the last page of a file: metadata().len() / PAGE_SIZE.
Length(f) ==
  CHOOSE n \in 0 .. MaxPages :
    /\ \A p \in Page : p >= n => f[p] = NoPage
    /\ \A m \in 0 .. MaxPages : (\A p \in Page : p >= m => f[p] = NoPage) => n <= m

-----------------------------------------------------------------------------
(***************************************************************************)
(* Wal::recover: the page records whose transaction has a commit marker    *)
(* somewhere in the readable part of the log, in log order.                *)
(***************************************************************************)
Readable(w) == {i \in 1 .. Len(w) : \A j \in 1 .. i : w[j].kind # "torn"}
Committed(w) == {w[i].txn : i \in {j \in Readable(w) : w[j].kind = "commit"}}
Recovered(w) == {i \in Readable(w) : w[i].kind = "page" /\ w[i].txn \in Committed(w)}
ImagesOf(w, p) == {i \in Recovered(w) : w[i].page = p}

\* The file that replaying log w over file f leaves: the last image wins.
Replay(f, w) ==
  [p \in Page |-> IF ImagesOf(w, p) = {} THEN f[p] ELSE w[Max(ImagesOf(w, p))].data]

-----------------------------------------------------------------------------
\* The image of page p that the cache returns, reading the file on a miss.
Fetch(p) ==
  IF cache[p] # Absent THEN cache[p]
  ELSE IF p < file_length /\ db[p] # NoPage THEN db[p] ELSE ZeroPage

\* The file as commit would write it: dirty pages over the current `.db`.
Pending == [p \in Page |-> IF p \in dirty THEN cache[p] ELSE db[p]]

EmptyFile == [p \in Page |-> NoPage]

Init ==
  /\ phase = "down" /\ cursor = 0
  /\ cache = [p \in Page |-> Absent] /\ dirty = {}
  /\ file_length = 0 /\ in_transaction = FALSE /\ txn_id = 0
  /\ db = EmptyFile /\ dbDur = EmptyFile
  /\ wal = <<>> /\ walDur = <<>> /\ walSynced = 0
  /\ boot = 0 /\ acked = EmptyFile /\ attempt = EmptyFile
  /\ failures \in FailureModels

-----------------------------------------------------------------------------
(***************************************************************************)
(* Pager::open.  The log is truncated only after a replay: one that holds  *)
(* nothing to replay is kept, and txn_id restarts from 0 beside it.        *)
(* Nor is the log fsynced before it is replayed.  That open refuses a file *)
(* whose length is no multiple of the page size is in module Database,     *)
(* where a commit may fail half-way through a page.                        *)
(***************************************************************************)
FreshMemory(f) ==
  /\ cache' = [p \in Page |-> Absent] /\ dirty' = {}
  /\ file_length' = Length(f)
  /\ in_transaction' = FALSE /\ txn_id' = 0

\* Mutation of Open: the table opens without a replay of the log.
OpenWithoutReplay ==
  /\ phase = "down" /\ boot < MaxBoots
  /\ phase' = "idle" /\ cursor' = 1
  /\ FreshMemory(db)
  /\ boot' = boot + 1
  /\ attempt' = db /\ acked' = db
  /\ UNCHANGED <<dbFile, walFile, failures>>

Open ==
  /\ phase = "down" /\ boot < MaxBoots
  /\ phase' = IF Recovered(wal) = {} THEN "idle" ELSE "replay"
  /\ cursor' = 1
  /\ FreshMemory(db)
  /\ boot' = boot + 1
  /\ attempt' = Replay(db, wal)
  /\ acked' = IF Recovered(wal) = {} THEN attempt' ELSE acked
  /\ UNCHANGED <<dbFile, walFile, failures>>

\* Mutation of ReplayRecord: the loop index does not advance.
ReplayRecordStuck ==
  /\ phase = "replay"
  /\ \E i \in Recovered(wal) :
       /\ i >= cursor
       /\ \A j \in Recovered(wal) : j >= cursor => i <= j
       /\ db' = [db EXCEPT ![wal[i].page] = wal[i].data]
       /\ cursor' = i
  /\ UNCHANGED <<phase, memory, dbDur, walFile, history>>

\* The next recovered record at or after cursor is written to the `.db`.
ReplayRecord ==
  /\ phase = "replay"
  /\ \E i \in Recovered(wal) :
       /\ i >= cursor
       /\ \A j \in Recovered(wal) : j >= cursor => i <= j
       /\ db' = [db EXCEPT ![wal[i].page] = wal[i].data]
       /\ cursor' = i + 1
  /\ UNCHANGED <<phase, memory, dbDur, walFile, history>>

ReplaySync ==
  /\ phase = "replay"
  /\ \A i \in Recovered(wal) : i < cursor
  /\ dbDur' = db
  /\ phase' = "replayTruncate"
  /\ UNCHANGED <<cursor, memory, db, walFile, history>>

\* set_len(0): immediate for a reader, durable only with a later fsync.
TruncateWal == wal' = <<>> /\ walSynced' = 0 /\ walDur' = walDur

ReplayTruncate ==
  /\ phase = "replayTruncate"
  /\ TruncateWal
  /\ file_length' = Length(db)
  /\ acked' = attempt
  /\ phase' = "idle"
  /\ UNCHANGED <<cursor, cache, dirty, in_transaction, txn_id, dbFile, boot, attempt, failures>>

-----------------------------------------------------------------------------
(***************************************************************************)
(* The callers' accesses.  A statement writes pages and ends in one of     *)
(* three ways: with a flush (no transaction is open), without one (the     *)
(* flush is left to COMMIT), or with an error when the table is full; its  *)
(* pages then stay dirty.                                                  *)
(***************************************************************************)
\* read_page, get_page: a miss fills the slot.
ReadPage(p) ==
  /\ phase \in {"idle", "stmt"} /\ cache[p] = Absent
  /\ cache' = [cache EXCEPT ![p] = Fetch(p)]
  /\ UNCHANGED <<phase, cursor, dirty, file_length, in_transaction, txn_id,
                 dbFile, walFile, history>>

\* Mutation of WritePage: get_page does not compare with MAX_PAGES.
WritePageUnchecked(p, d) ==
  /\ phase \in {"idle", "stmt"} /\ p <= file_length
  /\ cache' = [cache EXCEPT ![p] = d]
  /\ dirty' = dirty \cup {p}
  /\ file_length' = IF p + 1 > file_length THEN p + 1 ELSE file_length
  /\ phase' = "stmt"
  /\ UNCHANGED <<cursor, in_transaction, txn_id, dbFile, walFile, history>>

\* get_page_mut on a page of the table, or allocate_page and the new page, which
\* get_page refuses before anything is counted if the table is full.
WritePage(p, d) ==
  /\ phase \in {"idle", "stmt"} /\ p <= file_length
  /\ p \in Page
  /\ cache' = [cache EXCEPT ![p] = d]
  /\ dirty' = dirty \cup {p}
  /\ file_length' = IF p + 1 > file_length THEN p + 1 ELSE file_length
  /\ phase' = "stmt"
  /\ UNCHANGED <<cursor, in_transaction, txn_id, dbFile, walFile, history>>

StmtEnd ==
  /\ phase = "stmt" /\ in_transaction
  /\ phase' = "idle"
  /\ UNCHANGED <<cursor, memory, dbFile, walFile, history>>

StmtErr ==
  /\ phase = "stmt" /\ file_length = MaxPages
  /\ phase' = "idle"
  /\ UNCHANGED <<cursor, memory, dbFile, walFile, history>>

Begin ==
  /\ phase = "idle" /\ ~in_transaction
  /\ in_transaction' = TRUE
  /\ UNCHANGED <<phase, cursor, cache, dirty, file_length, txn_id, dbFile, walFile, history>>

\* Mutation of Rollback: the dirty flags are cleared and the pages kept.
RollbackKeepsPages ==
  /\ phase = "idle"
  /\ dirty' = {}
  /\ file_length' = Length(db)
  /\ TruncateWal
  /\ in_transaction' = FALSE
  /\ UNCHANGED <<phase, cursor, cache, txn_id, dbFile, history>>

\* Dirty pages are dropped, to be read again from the file.
Rollback ==
  /\ phase = "idle"
  /\ cache' = [p \in Page |-> IF p \in dirty THEN Absent ELSE cache[p]]
  /\ dirty' = {}
  /\ file_length' = Length(db)
  /\ TruncateWal
  /\ in_transaction' = FALSE
  /\ UNCHANGED <<phase, cursor, txn_id, dbFile, history>>

-----------------------------------------------------------------------------
(***************************************************************************)
(* Pager::commit, called by COMMIT (on every table, also on one whose      *)
(* pager is in no transaction) and, through flush, by a statement outside  *)
(* a transaction.                                                          *)
(***************************************************************************)
CommitStart ==
  /\ phase = "idle" \/ (phase = "stmt" /\ ~in_transaction)
  /\ txn_id < MaxTxns
  /\ phase' = "log" /\ cursor' = 0
  /\ attempt' = Pending
  /\ UNCHANGED <<memory, dbFile, walFile, boot, acked, failures>>

\* append_page for the next dirty page.
LogPage ==
  /\ phase = "log"
  /\ \E p \in dirty :
       /\ p >= cursor
       /\ \A q \in dirty : q >= cursor => p <= q
       /\ wal' = Append(wal, PageRecord(p))
       /\ cursor' = p + 1
  /\ UNCHANGED <<phase, memory, dbFile, walDur, walSynced, history>>

\* append_commit: the marker is written ...
LogMarker ==
  /\ phase = "log"
  /\ \A p \in dirty : p < cursor
  /\ wal' = Append(wal, CommitRecord)
  /\ phase' = "walSync"
  /\ UNCHANGED <<cursor, memory, dbFile, walDur, walSynced, history>>

\* ... and the log fsynced.
WalSync ==
  /\ phase = "walSync"
  /\ walDur' = wal /\ walSynced' = Len(wal)
  /\ txn_id' = txn_id + 1
  /\ phase' = "apply"
  /\ UNCHANGED <<cursor, cache, dirty, file_length, in_transaction, dbFile, wal, history>>

\* Mutation of ApplyPage: the dirty flag is left set.
ApplyPageKeepsDirty ==
  /\ phase = "apply"
  /\ \E p \in dirty :
       /\ \A q \in dirty : p <= q
       /\ db' = [db EXCEPT ![p] = cache[p]]
  /\ UNCHANGED <<phase, cursor, memory, dbDur, walFile, history>>

\* The next dirty page is written to the `.db`.
ApplyPage ==
  /\ phase = "apply"
  /\ \E p \in dirty :
       /\ \A q \in dirty : p <= q
       /\ db' = [db EXCEPT ![p] = cache[p]]
       /\ dirty' = dirty \ {p}
  /\ UNCHANGED <<phase, cursor, cache, file_length, in_transaction, txn_id, dbDur,
                 walFile, history>>

\* Mutation of DbSync: the `.db` is flushed but not fsynced.
DbSyncOmitted ==
  /\ phase = "apply" /\ dirty = {}
  /\ phase' = "truncate"
  /\ UNCHANGED <<cursor, memory, dbFile, walFile, history>>

DbSync ==
  /\ phase = "apply" /\ dirty = {}
  /\ dbDur' = db
  /\ phase' = "truncate"
  /\ UNCHANGED <<cursor, memory, db, walFile, history>>

CommitEnd ==
  /\ phase = "truncate"
  /\ TruncateWal
  /\ in_transaction' = FALSE
  /\ acked' = attempt
  /\ phase' = "idle"
  /\ UNCHANGED <<cursor, cache, dirty, file_length, txn_id, dbFile, boot, attempt, failures>>

-----------------------------------------------------------------------------
(***************************************************************************)
(* Failures.  A kill during an append may leave part of the record.        *)
(***************************************************************************)
Dies ==
  /\ phase' = "down" /\ cursor' = 0
  /\ cache' = [p \in Page |-> Absent] /\ dirty' = {}
  /\ file_length' = 0 /\ in_transaction' = FALSE /\ txn_id' = 0
  /\ UNCHANGED history

Kill ==
  /\ "kill" \in failures /\ phase # "down"
  /\ wal' \in {wal} \cup
              IF phase = "log" THEN {Append(wal, TornRecord(boot))} ELSE {}
  /\ Dies
  /\ UNCHANGED <<dbFile, walDur, walSynced>>

\* What a power failure may leave of the log.
SurvivingLogs ==
  {walDur}
    \cup {SubSeq(wal, 1, n) : n \in walSynced .. Len(wal)}
    \cup {Append(SubSeq(wal, 1, n), TornRecord(wal[n + 1].boot)) :
            n \in walSynced .. Len(wal) - 1}

PowerFailure ==
  /\ "power" \in failures
  /\ \E w \in SurvivingLogs :
       wal' = w /\ walDur' = w /\ walSynced' = Len(w)
  /\ db' \in {f \in File : \A p \in Page :
                f[p] \in IF db[p] = dbDur[p] THEN {db[p]} ELSE {dbDur[p], db[p], Torn}}
  /\ dbDur' = db'
  /\ Dies

-----------------------------------------------------------------------------
RecoveryStep == ReplayRecord \/ ReplaySync \/ ReplayTruncate

CommitStep == LogPage \/ LogMarker \/ WalSync \/ ApplyPage \/ DbSync \/ CommitEnd

Next ==
  \/ Open \/ RecoveryStep
  \/ \E p \in Page : ReadPage(p)
  \/ \E p \in 0 .. MaxPages, d \in Data : WritePage(p, d)
  \/ StmtEnd \/ StmtErr \/ Begin \/ Rollback \/ CommitStart
  \/ CommitStep
  \/ Kill \/ PowerFailure

Spec == Init /\ [][Next]_vars

(***************************************************************************)
(* Fairness: recovery and commit are straight-line code on one thread; as  *)
(* long as the process lives its next statement is executed.               *)
(***************************************************************************)
FairSpec ==
  Spec /\ WF_vars(RecoveryStep) /\ WF_vars(CommitStep)

-----------------------------------------------------------------------------
TypeOK ==
  /\ phase \in {"down", "replay", "replayTruncate", "idle", "stmt", "log", "walSync",
                "apply", "truncate"}
  /\ cursor \in Nat
  /\ cache \in [Page -> Image \cup {Absent}]
  /\ dirty \in SUBSET Page
  /\ file_length \in 0 .. MaxPages
  /\ in_transaction \in BOOLEAN
  /\ txn_id \in Nat
  /\ db \in File /\ dbDur \in File
  /\ wal \in Seq(Record) /\ walDur \in Seq(Record)
  /\ walSynced \in 0 .. Len(wal)
  /\ boot \in Nat
  /\ acked \in File /\ attempt \in File
  /\ failures \in FailureModels

(***************************************************************************)
(* A log is clean when one process wrote all of it, or when it has no      *)
(* commit marker.  Open breaks this when it keeps an old log and txn_id    *)
(* restarts: two processes' records then share transaction number 0.       *)
(***************************************************************************)
Clean(w) ==
  \/ \A i, j \in 1 .. Len(w) : w[i].boot = w[j].boot
  \/ \A i \in 1 .. Len(w) : w[i].kind # "commit"

\* At every moment, and after every failure, replaying the log that is there
\* over the `.db` that is there gives the last committed file or the one a
\* commit was writing: never a mixture, never an older file, never pages of a
\* statement that was not committed.  Proviso: the log is clean.
AtomicRecovery == Clean(wal) => Replay(db, wal) \in {acked, attempt}

\* What PROGRESS.md promises of the commit sequence: "Crash at any point is
\* safe", whatever an earlier crash left in the log.
CrashIsSafe == Replay(db, wal) \in {acked, attempt}

Shown(x) == IF x = NoPage THEN ZeroPage ELSE x

\* Between commits a page nobody has modified reads as it was last committed,
\* whether it comes from the cache or from the file, and once nothing is dirty
\* (after a rollback, say) the table has its committed length again.
ReadsCommitted ==
  phase \in {"idle", "stmt", "log"} =>
    /\ \A p \in Page \ dirty : Fetch(p) = Shown(acked[p])
    /\ dirty = {} => file_length = Length(acked)

\* A live process empties a clean log only when the durable `.db` no longer
\* needs it: replaying the log over it would change nothing.
TruncateIsCleanup ==
  [][phase' # "down" /\ wal' = <<>> /\ Clean(wal) => Replay(dbDur, wal) = dbDur]_vars

\* A commit that has started returns, and a recovery that has started lets the
\* table open, unless the process dies first.
CommitFinishes == phase = "log" ~> phase \in {"idle", "down"}
RecoveryFinishes == phase = "replay" ~> phase \in {"idle", "down"}
=============================================================================
