# A TLA+ development for mukhidb

mukhidb is a small relational database in Rust: a B+Tree per table in a `.db`
file of 4096-byte pages, a write-ahead log beside each, and a TCP server in
which any number of sessions share the tables. This directory holds TLA+ models
of its core, the TLC configurations that check them on small instances, and
proofs, checked by TLAPS, of what matters most for every instance.

`PROJECT.json` lists the components, the runs, the mutations each property is
tested against, the source lines behind every definition, the findings, the
hazards and the theorems.

## The system

| Component | State | Operations | Talks to |
|---|---|---|---|
| `pager.rs` Pager | page cache with dirty flags, `file_length`, `in_transaction`, the open file | open (with recovery), read_page, get_page(_mut), allocate_page, begin, commit, rollback, flush | Wal, the file system |
| `wal.rs` Wal | the `.wal` file, `txn_id` | append_page, append_commit (fsync), truncate, recover | the file system |
| `btree.rs` | none of its own: nodes are pages | create_tree, insert, scan_all, dump_tree | Pager |
| `storage.rs` Storage | map from names to tables (pager, columns, root page) | open_table, create_table, insert, select_all, begin, commit, rollback | btree, Pager |
| `session.rs` | shared: RwLock of the storage, `txn_owner` with a condition variable; per session: `in_transaction` | the statements, begin, commit, rollback, Drop | Storage, other sessions through the two locks |
| `executor.rs`, `parser.rs`, `row.rs`, `types.rs` | none | parse, evaluate WHERE, JOIN, encode a row | Session |
| `server.rs`, `protocol.rs`, `client.rs`, `repl.rs` | one thread and one Session per connection | frame, dispatch, answer | Session |

What is hard about it, and what makes each part correct:

* **Pager and log: failures.** Commit is a sequence of system calls, and so is
  recovery. Whatever point they are stopped at, by a kill or by a power failure,
  the next open must find the last committed contents or those of the commit
  under way, and nothing else. A failure may strike recovery too. Reads between
  commits must see committed pages.
* **Sessions: interleaving.** One gate serialises transactions; it must be held
  by exactly the session in a transaction, be given back on every path, and wake
  everyone who waits. A transaction rolled back must leave nothing behind, and a
  statement outside any transaction must be durable once acknowledged.
* **Storage: partial failure.** BEGIN and COMMIT fan out to the tables one by
  one, and one of them may fail.
* **Catalog: files in any state.** Start-up takes every `.db` it finds for a
  table: one that a crash left empty, one of odd length, one whose log is to be
  replayed. It has only the file's name to tell which table it was. A transaction
  spans several tables with a log each.
* **Server: connections, errors and panics.** A client may go away while its query
  runs or waits; a statement may fail half-way; a thread may panic, inside or outside
  the storage lock. Every other client must still be served, or told.
* **B+Tree: long histories.** A wrong pointer after a split is seen only much
  later; a page limit reached half-way leaves a partly changed tree.
* **The data's way** through row encoding, slotted pages, executor and wire: an
  offset wrong by one is seen only when the neighbour is read; a JOIN reads its
  tables at two moments; a stream may end inside a message.

## The modules

| Module | Models | Composes |
|---|---|---|
| `Pager` | `pager.rs` + `wal.rs`, one table | |
| `MCPager` | its instances | `Pager` |
| `DurableStore` | what the pager promises: one value, atomic commits | |
| `PagerStore` | the refinement mapping | `Pager`, `DurableStore` |
| `PagerProofs` | type, cache, log and file invariants; atomic recovery; Pager implements DurableStore | `PagerStore` |
| `Session` | `session.rs` + the transactions of `storage.rs`, all tables | |
| `MCSession` | its instances | `Session` |
| `SessionProofs` | gate, wakeups, rollback | `Session` |
| `BTree` | `btree.rs`, one table | |
| `MCBTree` | its instances | `BTree` |
| `SequenceLemmas` | induction, recursive functions and the sequence operators, in a form the provers can use | |
| `BTreeProofs` | shape, leaf chain and contents of the tree; no row is lost | `BTree`, `SequenceLemmas` |
| `BTreeOrderProofs` | key order of the tree and of its scans | `BTreeProofs` |
| `Database` | `storage.rs` with `disk.rs` and the start-up of `server.rs` and `repl.rs`: all tables with crashes | |
| `DatabaseStore` | the refinement mapping, for one table | `Database`, `DurableStore` |
| `MCDatabase` | its instances | `DatabaseStore` |
| `DatabaseProofs` | what a start finds, whole transactions, loadable tables; each table implements DurableStore | `DatabaseStore` |
| `Server` | `server.rs`, `client.rs` and the sessions behind them, with statements that fail half-way and panics | |
| `MCServer` | its instance | `Server` |
| `ServerProofs` | queries, stranded gate, owners of what is uncommitted | `Server` |
| `Query` | `row.rs`, the leaf pages of `btree.rs`, `executor.rs`, `protocol.rs` | |
| `MCQuery` | its instance | `Query` |
| `QueryProofs` | codec, pages, tables, answers: all of Query's invariants | `Query`, `SequenceLemmas` |

### Pager

The pager's only writer thread is `phase` with a loop index `cursor`. Every
system call of `commit` (LogPage, LogMarker, WalSync, ApplyPage, DbSync,
CommitEnd) and of recovery in `open` (Open, ReplayRecord, ReplaySync,
ReplayTruncate) is an action. Statements are sequences of ReadPage and
WritePage, closed by StmtEnd (in a transaction), StmtErr (table full) or a
commit. WritePage is offered every page number up to the limit, the first one over it
included, and its guard is get_page's. A page image is an element of `Data`; what a page means is the concern
of `BTree`.

A file is described twice: as a read would see it (`db`, `wal`) and as it is
certainly on the medium (`dbDur`, `walDur`, `walSynced`). `Kill` ends the
process and keeps the former, perhaps with a torn record at the end of the log.
`PowerFailure` keeps, for each page written since the last fsync, the old
image, the new one or a mixture, and of the log the durable contents or a prefix
of what was appended since, its last record perhaps torn. Two assumptions are
made about the file system: appends to one file survive as a prefix, and
`recover`, which reads records of fixed size, recognises nothing at or after a
torn one. Set_len(0) is visible at once and durable only after a later fsync, so
an old log may come back.

`acked` is the file as the last returned commit or open left it, `attempt` the
file that a commit or recovery under way is to produce; they and `boot` are
history.

### Session

A session is a thread that executes one statement at a time: `Request` is what
precedes the gate, PassGate, ClaimGate, Sleep, SpuriousWakeup and Release are
`wait_for_txn_clear`, `begin` and `release_txn_gate`, and the others are the
storage operations under the RwLock. The gate and the access are separate
steps, as in the code: `txn_owner` is unlocked before the RwLock is requested.
No thread waits while it holds either lock, so each locked section is one step.
A session whose client has gone (`drop`) may be followed by a new one with the
same name.

A table is its set of rows in the cache (`mem`) and in the file (`db`); a pager's
commit or rollback copies one to the other. `InsertFault` and `CommitFault` are
I/O errors of a flush or commit, before the file is touched; BEGIN and COMMIT
run over the tables in any order, as over a HashMap. Errors of `rollback` are in Server.
TypeOK includes that nothing is done to a table before CREATE TABLE has made it.

### BTree

One action per round of the loops of `insert`: the descent, the insertion into a
leaf, the split, the promotion of a separator into each ancestor, the new root.
An allocation beyond the page limit returns an error where it stands, and the
pages changed so far stay changed. Nodes are records, `right_child` is the last
child; a cell is its key and the bytes it costs, so that the split point is
computed as in the code. When the right half does not fit (SplitLeafOverflow)
the code garbles the page or panics; the model stops there (`broken`).

### DurableStore, PagerStore and DatabaseStore

`DurableStore` has no pages, log or fsync: a stable value, a working copy that
statements change, a commit that makes the copy stable in one step, a rollback
that returns to the stable value, and crashes after which opening gives the
stable value or the one that was being committed. Its `trusted` flag is the gap
in the promise (finding 1): while it is FALSE, opening may give anything.
`PagerStore` maps the pager to it: `stable` is the file of the last commit,
`work` is what reads through the cache return, `trusted` is a clean log.
A commit's many system calls are stutters between `CommitStart` and `Committed`.

`DatabaseStore` maps one table of Database, `Watched`, to the same store, so that
the two levels at which a table is modelled promise the same. The table's commit
lasts from `LogTable` to `ApplyTable`; loading it, and the end of the CREATE TABLE that
makes it, open the store; everything done to the other tables, and the rest of a
COMMIT over several, is a stutter. Database has commits that return an error, of
which DurableStore knows nothing: `SpecWithErrors` promises nothing after the first
one in the table, and all of `Spec` before it.

### Database

Several tables, each with its file and log. Of a pager's commit three moments
remain, before its marker is durable, after it, and when the pages are in the
`.db`; that a table in between opens as the one or the other is what Pager's
`AtomicRecovery` shows for a clean log, and a clean log is assumed here. A table is
its name, and its file is that name's: `Tables` are the names that come back from
their files, which those that end in `.db` or have a directory do not. Start-up
(Start, OpenTable, OpenRefused, Listen), CREATE TABLE, INSERT, BEGIN, COMMIT and
ROLLBACK run one at a time, under the storage lock; COMMIT goes over the tables in
any order. `Kill` strikes at any step. `DiskFull` ends a commit with an error:
while the log is written, which every commit does, that of a table without dirty pages
too, or while the pages are, when it leaves some pages, or a part of a page, in the
`.db`. The file's length is "absent", "empty", "odd" or
"whole", which is all that `open` asks about it.

### Server

One thread per client around the gate of Session: read a query, pass the gate,
access the storage, write the answer, which carries the number of the query that was
executed. Of the storage only this is kept: which tables' pagers are in a transaction,
and which tables have pages that are not in the file. The paths that return an error
after something was changed are actions of their own: `InsertFails` (the page limit in
the middle of a split, or the flush), `BeginFails` (a pager that is in a transaction
already), `CommitOrRollbackFails` and `DropRollbackFails` (the loop over the tables stops
at one of them, `StopsAt`). As in the code they clear `in_transaction` and give the gate
back. `failed` is history: the tables that such an error has left in a transaction or
with dirty pages, until a flush, a commit or a rollback of them succeeds. A client may leave at any moment, also while its query runs; the thread notices at
its next read or write, as in the code. Half-open connections (a peer that
vanishes without a FIN) are never noticed by code without timeouts, and are an
idle client for the model.

A panic outside the locks (PanicInParser: `SELECT` without `FROM`) unwinds the
thread and drops its Session. A panic under the write lock (PanicInStorage)
poisons the lock; from then on every access panics. Two rules of Rust's runtime
follow: a Session in a transaction that is dropped while unwinding panics again on
the poisoned lock, which aborts the process; and a BEGIN that panics on the
poisoned lock has claimed the gate and will never give it back.

### Query

What an INSERT writes and a SELECT reads, counted in words: an integer, a
length, an offset or a character is one word, so that offsets and overlaps are
computed as in the code at a smaller scale. `serialize`, `deserialize`, the
metadata page with the root's number, the slotted leaf (`PutCell`, `write_leaf_cells`,
`leaf_free_space`), the filter, the join, the `Rows` payload and the frame are
operators; the actions put them together. INSERT is one step (write lock), SELECT
one read, JOIN two reads with anything in between, and the client gets the whole
stream or any prefix of it. A table's root is its first leaf until that is split, and
then a single internal node; its page number is in the handle (`root_page`) and in the
metadata page, and a walk that starts from a stale one finds the first leaf only. A split
goes on only when its right half fits in its page (finding 5 is about the ones that do
not).

Begin, Commit and Rollback are those of the session that has the gate. `saved` are the
pages as they were at BEGIN; ROLLBACK, and Reopen, which is a start of the server with
or without a transaction open, return to them, and take the root of every table from its
metadata page, as `Storage::rollback` and `open_table` do. An INSERT between a JOIN's
reads may be one of a transaction that is rolled back afterwards. ROLLBACK itself comes
between statements: the gate holds a JOIN of another session back while a transaction is
open, except by the slip of finding 2, which Session has and Query leaves out.

## The runs

| Run | Instance | Result |
|---|---|---|
| `pager` | 2 pages, 2 images, 2 boots, 2 commits per boot; histories with kills and histories with power failures | all hold |
| `pager_stale_log` | the same with 3 boots, kills | `CrashIsSafe` violated |
| `session` | 2 sessions, one table from the start and one to create, 1 insert each, 1 I/O error | all hold |
| `session_slip` | the same without errors | `AutoCommitIsDurable` violated |
| `session_create` | 1 session | `CreatedTableIsRollbackSafe` violated |
| `btree` | 7 keys, 7 inserts, 2-3 cells per leaf, 2 keys per internal node, page limits 3, 6 and 12 | all hold |
| `btree_duplicates` | 2 keys, 7 inserts | `ScanInKeyOrder` violated |
| `btree_overflow` | the real page size and three row sizes | `SplitsWork` violated |
| `database` | 2 tables, 3 rows, 3 starts, 1 full disk | all hold |
| `database_hang` | 2 tables, 2 starts, no rows | `EveryScanEnds` violated |
| `server` | 2 clients, 2 tables, 3 queries each, 1 statement that fails half-way, 1 panic besides those it causes | all hold |
| `query` | 2 tables, 4 inserts of 5 rows, 2 rows to a leaf, transactions and restarts, 10 statements | all hold |

Bounds. Two pages are enough for a commit to be cut between pages, two boots for
a failure of a commit, of the recovery that follows, and of a commit on top of a
kept log; two commits for a log that comes back after a truncation that was not
durable. Two sessions are enough for every conflict over the gate, one
of them being the owner; two tables for a COMMIT that fails between them and for
a table created inside a transaction. Seven inserts with small nodes build three
levels, so that leaf, internal and root splits all happen, and the three page
limits make the allocation fail in each of them. In `database` three starts show
what a crash left, what the next statements make of it and what is left of that, two
rows a transaction over both tables, and the third a commit after a commit that the
full disk cut short; in `server` three queries are a whole transaction, with the
other client waiting, asleep, or gone at each point of it, two tables are enough for a
COMMIT that stops between them, and what the failure left meets the statements that
follow; in `query` the third
row of a table splits its leaf and the fourth is routed, one row has the wrong
types and one is too long, and the statements include a join of a table with
itself, unknown tables and columns, and a WHERE on an unqualified column. The
proofs below remove the bounds for the safety of every model.

Deadlock is checked for Session. It is not for Pager, whose process may stay
down, nor for BTree, which stops after its last insert or when broken, nor for
Database (down for good), Server (all clients gone, or the process
aborted) and Query (its last insert).

Fairness. `Pager` assumes that commit and recovery, straight-line code on one
thread, take their next step as long as the process lives. `Session` assumes
that a thread that can run is scheduled; no client is obliged to send anything,
so an idle client with an open transaction may block all others (a documented
limitation), and `NobodyStuck` speaks of executions in which transactions stop.
`Database` assumes that the loops of start-up and commit go on while the process
lives. `Server` assumes that a thread that can run is scheduled and that a waiting
client reads what arrives; `EveryQueryEnds` speaks of executions in which from some point on
no live session is in a transaction, for the same reason as `NobodyStuck`. It says that
then the only queries without an end are those of sessions asleep behind a gate whose
owner's thread is gone, and `StrandedOnlyByPoison` that only a poisoned storage lock
makes such a gate.

## Findings

Six properties that the documentation or a comment states fail; each has a run
that shows it and an entry under `findings`:

1. an uncommitted log is kept by `open` while `txn_id` restarts at 0: after two
   crashes uncommitted pages are replayed (`CrashIsSafe`). `AtomicRecovery` says
   what holds nevertheless: recovery is atomic as long as the log is *clean*
   (written by one process, or without a commit marker);
2. an INSERT that passed the gate before another session's BEGIN is rolled back
   with that session's transaction after having been acknowledged;
3. rows inserted into a table created in the same transaction survive ROLLBACK;
4. with equal keys the scan is not in key order;
5. a leaf split can produce a right half that does not fit in a page, which panics
   under the storage lock (or garbles the page, if only the slots have no room);
6. a kill during CREATE TABLE leaves an empty `.db`; the next start loads it, and
   a SELECT on it never ends and never gives the storage lock back.

There is more behaviour of this kind, which no run is about; the models have it, but
for the names of tables:

* recovery replays a log it has not fsynced: a kill before the log's fsync and a
  power failure during the recovery that follows can lose both. This is why
  `AtomicRecovery` and the refinement are stated for histories with one kind of
  failure (with `FailureModels = {{"kill", "power"}}` and three boots TLC finds the
  counterexample);
* after a COMMIT that failed, the tables not committed stay in a pager
  transaction that no session owns (`CommitFault` in Session, `DiskFull` in Database,
  `CommitOrRollbackFails` in Server). Until the next start every BEGIN fails, the rows of
  the transaction stay in the cache, where everybody reads them, and INSERTs into these
  tables are acknowledged and never flushed. `OpensAsCommitted`, `TransactionsAreWhole`,
  `AcknowledgedIsDurable` and `UncommittedHasOwner` except a table whose commit failed,
  the last two also the tables left behind in this way, and no others;
* an INSERT that returns an error may have changed pages, which the next flush of the
  table writes (`InsertFails`);
* when the flush of an INSERT fails while it applies its pages, the log is kept, and the
  next ROLLBACK, or Drop of a session in a transaction, truncates it: the half-written
  `.db` stays as it is;
* when a thread panics under the storage lock, a BEGIN that has claimed the gate panics
  as well and keeps it: the sessions behind it sleep for ever. A session in a transaction
  that is dropped leaves the gate claimed too, or aborts the process if it was unwinding.
  PROGRESS.md's "guarantees rollback regardless of how the session ends" goes only up
  to that point;
* a table whose name ends in `.db` comes back from a restart under a shorter name, since
  `server.rs` and `repl.rs` trim every `.db` off the file's name: `x.db`, in the file
  `x.db.db`, becomes `x`, in the place of the table `x` if there is one, and CREATE TABLE
  of `x.db`, which is free again, opens the same file a second time. A table with a
  directory in its name does not come back. Database is about the other names;
* a WHERE on a JOIN finds nothing for an unqualified column, since the result's
  headers are qualified, while ON takes both and looks at no table name;
* a JOIN is no snapshot: `AnswerBetween` says how far it may be off.

## The proofs

No assumption is made on the constants beyond the named one of each model
(`PagerAssumption`, `SessionAssumption`, `BTreeAssumption`, `DatabaseAssumption`,
`WatchedAssumption`, `ServerAssumption`, `QueryAssumption`), which TLC evaluates in
the runs: any number of pages, images, sessions, clients, tables, rows, statements,
commits, restarts and errors, and any page and node size that the code's own limits
allow.
`QueryAssumption` types the schemas and rows, asks for a page larger than its header,
and for column names of at most `MaxName` characters (255): the metadata page cuts a
longer one, and the table would have another name for that column after a restart.

Every invariant and every safety property over steps that a passing run checks is
stated by a theorem; the runs show it on a small instance, and let a wrong one be found
cheaply.

**`SessionProofs`.** `GateInv` adds to the type invariant, the gate and the
wakeups what the position of a thread says about its session (`PcOK`): COMMIT and
ROLLBACK run inside a transaction, BEGIN outside one, `release` after it. It is
inductive and gives `TypeOK`, `GateMatchesTransaction` and `NoLostWakeup`. For
`RolledBackIsGone` two more facts are needed (`RollbackInv`): a row number that
was used is never used again (`RowsSpent`), so a rolled-back row cannot
come back by an INSERT; and while a transaction is open the tables it began with
are in a pager transaction and none of its rows are in their files
(`TransactionHeld`), so that copying the file over the cache removes them. `AbsentStep`
shows for each statement that a table that is not there stays as it was.

**`PagerProofs`.** `PagerInv` is inductive: the type invariant; `CacheInv` (a
clean page is absent or as in the file, and `file_length` is the length the next
commit gives the file); `LogInv` (before its marker is written, this process's
records are images of its dirty pages, and what older processes left recovers
nothing by itself); `FileInv` (the `.db` is as committed until a commit applies
its pages; during the application or a replay it is on its way to `attempt`).
It gives `TypeOK`, `ReadsCommitted` and the action property
`TruncateIsCleanup`, whatever failures occur. The key lemma is `CommittedLog`: a
clean log that ends in this process's marker replays to exactly the file the
commit is writing.

`RecoveryCorrect`: in every history without a mixture
of kills and power failures `AtomicRecovery` holds. While the process lives it
follows from `PagerInv` alone (`LiveAtomic`). For the state after a failure,
`DurInv` says how far the durable contents may be behind when only power fails:
outside of replay and application the `.db` is durable; during them every page
that differs from its durable image is in a log that is durable; and before the
next log is durable, the old log that may come back changes nothing. The
hypothesis is needed, as said under Findings.

`StoreImplemented`: in every history with one kind of
failure, `Spec` implies `ImplementsStore`. The step proof has one case per
action. Statements, commit and rollback need `CacheInv` (what a reader sees
through the cache is the file with the dirty pages over it, so a commit makes
stable what was seen) and `FileInv`; opening needs `RecoveryCorrect` (the file that
recovery produces is the stable or the pending value when the log is clean); the
other system calls are shown to be stutters.

**`ServerProofs`.** `ServerInv` is inductive: the type invariant; `WireOK` (what a
connection carries agrees with where the client and its thread are: a query on its
way, one being served, an answer on its way); `SessionOK` (what the position of a
thread says about its session: COMMIT and ROLLBACK run inside a transaction, whoever is
in one owns the gate, and before any poisoning the owner is on a path that gives it
back); `StorageOK` (before any poisoning, a table that no statement has failed on has its
pager in a transaction, or pages that are not in the file, only while some session is in
one). It gives `TypeOK`,
`QueryIsSomewhere`, `StrandedOnlyByPoison` and `UncommittedHasOwner` for any number
of clients, tables, panics and failures.

**`DatabaseProofs`.** `DatabaseInv` relates, for each table, the file, the log, the
cache and the history: `ControlOK` and `FlushOK` say where start-up and the commit
loop are and which tables they have dealt with; `FileOK` and `FreshOK` what is in a
`.db` and a log at each moment of a commit and of CREATE TABLE; `TxnOK`, `DoneOK` and
`UndoneOK` what a transaction has and has not put into the files; `SizeOK` which file
lengths go with which contents. It gives `TypeOK`, `OpensAsCommitted`,
`TransactionsAreWhole` and `CreatedTableLoads` for any number of tables. Two facts more
are needed for `AcknowledgedIsDurable`: what a table has in the cache alone is in its
pager's transaction, or about to be flushed by the INSERT or CREATE TABLE under way
(`CacheOK`), and until a commit fails a pager's transaction is one of the session's, to
which its COMMIT has yet to come (`NoStrayTransaction`). The attempt
found an error of the model: `DiskFull` left the history `acked` as it was for the
tables that the COMMIT had committed before the one that met the full disk. Two rows
did not show it; the bound of the run is now three.

`TableIsAStore` proves `ImplementsStore` for whichever table is `Watched`. Besides
`DatabaseInv` it needs `StoreInv`, about a table that is not in the catalog: while the
process lives it has no file and no log, unless start-up has still to come to it or
CREATE TABLE is at work on it, which has blank pages in the cache and on disk. Without
it, the CREATE TABLE of a name whose file has rows would be a step that loses what
was stable: `find_db_files` is what rules that out, for it lists every file. A
commit is `CommitStart` and `Committed` because `FileOK` says that the file is what
was last acknowledged until the pages are applied, and `FlushOK` that the log is the
cache. A kill leaves the stable and the pending value where they were.

**`BTreeProofs`.** `ShapeInv` is the local part: nodes have their types, an internal
node one child more than keys, no node is over its limits, and the path of a descent
leads through internal nodes from the root. `TreeInv` is the global part. It speaks of
an enumeration `ord` of the leaves: `ChainInv` says that next_leaf leads from each to
the one after it, the last to 0, so that no leaf is left out or met twice;
`SpineInv` that the first children from the root downwards end at the first of them;
`CellsInv` that their cells are, each once, the acknowledged rows, the one of the insert
under way after its leaf has been split, and perhaps rows of failed inserts. A split
inserts the new leaf after the old one in `ord`, an error half-way leaves the chain
alone. `NoRowIsLost` follows for a tree into which no key is inserted twice, and which
is hence a set of rows: `scan_all`, computed by three recursive functions, is the
concatenation of the leaves along `ord`.

**`BTreeOrderProofs`.** `OrderInv` gives every page a domain, the set of the keys that
a descent takes to it, and a level, its height above the leaves. The separators of an
internal node are in order and cut its domain into those of its children, one level
below; domains of one level are disjoint and none is empty; the domain of a leaf has the
keys of its cells, which are in order, and comes before that of its next_leaf; the root
has all integers. Two things make it inductive. Between the split of a page and the entry
of its new sibling into the parent the tree is not in order: the invariant speaks of the
parent as it will be with the new child (`NodeAt`), and of a root that is split as
sharing all keys with its sibling. And the descent goes left at a separator that equals
the key, while a leaf split promotes the first key of the right leaf: an equal key would
go to the wrong side. The invariant therefore also says that every separator is the key of a row
(`Separators`), which a new key never equals while keys are unique. Without unique keys
the order is lost (run `btree_duplicates`), as it is when an insert fails between a split
and the entry of the new child; both theorems are stated for what remains, trees of
unique keys until the first failed insert.
`ScanIsInKeyOrder` follows along the chain. For `TreeAgreesWithChain` the leaves below a
page are shown, by induction over its level, to share out its domain in order; below the
root that makes them all the leaves there are, sorted as the chain is, and two sorted
sequences with the same elements are equal.

**`QueryProofs`.** Two invariants, one about the tables and one about the SELECT under
way. `RowsSurvive` by itself says only what `select_all` returns, and an INSERT that
wrote over a neighbour's words, or a split that lost a pointer, starts from a state in
which nothing of that is visible yet. `StorageInv` therefore says where everything is.

* Every table has the columns of its schema, and its metadata page is what
  `write_metadata` makes of them and of the root's page number (`MetadataInverse`:
  `read_metadata` gives both back). The same is true of the pages as last committed, to
  which ROLLBACK and a restart return.
* `PageHolds`: the slots of a leaf end below its first cell, the cells lie between there
  and the end of the page without a common word, and the free space and the costs of the
  cells add up to the page. This is what makes `leaf_free_space` a test for room
  (`PutCellProperties`: a cell that is put in is there afterwards, and the others stay as
  they were; `WriteHolds`: the same for a leaf that is written anew over old bytes).
* `Stored`: there is an arrangement of the rows in the leaves, each row of `inserted` in
  one place of one leaf, and there are its serialized words. It is an arrangement of row
  numbers, not of rows, so that equal rows are told apart. A split cuts one leaf's part
  of it in two (`StoredSplit`); `LeftFits` shows that the left half always fits, from
  the limit on the length of a row.
* `Chained`: leaf 1, its next one and so on are all the leaves, each once; `RootOK`: the
  root has one child per leaf, the first of them leaf 1, and both the handle and the
  metadata page name it, which is `RootLeadsEverywhere`.

`CellsDoNotOverlap` follows from `PageHolds`. For `SelectsRead` the chain and the
arrangement give a permutation that takes what `select_all` reads to the rows inserted
(`ScanReads`), `CodecInverse` makes the words rows again, and two sequences that are
permutations of one another have the same bag (`BagSame`).

`SelectInv` says what a SELECT has between its steps: after the first read of a JOIN, the
left table as it was when the statement began (`FirstRead`); after that a well-formed
message, its words on the stream, and, if it is a result, one that lies between what the
reference definition yields of the tables as they began and as they ended (`Sent`). It
survives the INSERTs of others because rows are only appended: the reference speaks of
the first rows of each table, and these do not change (`AnsweredKept`). For
`AnswersLieBetween` the result of the nested loops is shown to pick pairs of rows that
match, none twice: every pick is one of the tables at the end, and every pair of the
tables at the beginning is picked (`JoinPairs`, `JoinAnswersRows`); an injection
between finite sets then bounds the number of times each row occurs (`PicksNoMore`,
`PicksNoLess`). `AnswersArriveWhole` is the round trip of the frame and of the `Rows`
payload (`ReadMessageInverse`, `DecodeRowsInverse`), together with the fact that a
proper prefix of a message is never taken for one.

`StorageInv` asks for arrangements and orders of the leaves, which are functions: TLC
cannot enumerate them, and checks only what follows from the invariant.

**`SequenceLemmas`.** The prover cannot instantiate the induction theorems of its
library. This module proves the ones that are needed in a form it can use, with a set in
the place of the predicate (`Induction`: a set that has m, and i + 1 with every i < n,
contains m .. n) and the existence of recursive functions on m .. n from it
(`Recursion`). The functions of `LeftmostLeaf`, `Chain`, `TreeOrder`, `FlattenSeq`,
`CostOf`, `write_leaf_cells`, `deserialize`, `read_metadata`, `scan_all`, `Keep` and
`Starts` are unfolded with these. The rest is about `FlattenSeq`, `InsertAt`, `SubSeq`
and counting.

Only model-checked: the liveness properties (`CommitFinishes`,
`RecoveryFinishes`, `NobodyStuck`, `GateIsReleased`, `StartupFinishes`,
`FlushFinishes`, `DisconnectReleasesGate`, `EveryQueryEnds`), which the prover
does not handle.

## Not modelled, and the plan

Not modelled: the text that the parser takes apart and the tables that client and
REPL print (pure functions of their input); the command line; `.btree`, of which
only the order of the leaves is in BTree; a list of columns too long for the
metadata page; table names that do not come back from their files (under Findings);
what is in the files after an error of `rollback` (Server has its control); a Wal with a
full disk inside a record followed by more appends (Database takes logs to be clean).

Left for later:

- `Query` over the tree of `BTree` instead of a single root.
