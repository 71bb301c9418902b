---------------------------- MODULE PagerProofs ----------------------------
(***************************************************************************)
(* Proofs about Pager, for any number of pages, any page contents and any  *)
(* number of commits, failures and restarts.                               *)
(***************************************************************************)
EXTENDS PagerStore, WellFoundedInduction, TLAPS

(***************************************************************************)
(* The cache: a page that is not dirty is absent or as in the file, a      *)
(* dirty one is there; file_length is the length the next commit gives the *)
(* file.                                                                   *)
(***************************************************************************)
CacheInv ==
  /\ \A p \in dirty : cache[p] \in Image
  /\ \A p \in Page \ dirty : cache[p] \in {Absent, Shown(db[p])}
  /\ phase \in {"down", "replay", "replayTruncate"} =>
       dirty = {} /\ \A p \in Page : cache[p] = Absent
  /\ phase \in {"idle", "stmt", "log", "walSync"} => file_length = Length(Pending)
  /\ phase \in {"apply", "truncate"} => file_length = Length(attempt)

(***************************************************************************)
(* The log.  Until the marker of a commit is written, this process's       *)
(* records are images of its dirty pages; what older processes left        *)
(* replays to nothing by itself.                                           *)
(***************************************************************************)
Ours(w, b) == {i \in 1 .. Len(w) : w[i].boot = b}

OldQuiet(w, b) ==
  \A i, j \in Readable(w) \ Ours(w, b) :
    w[i].kind = "page" /\ w[j].kind = "commit" => w[i].txn # w[j].txn

ImageOfDirty(r) ==
  r.kind = "page" /\ r.txn = txn_id /\ r.page \in dirty /\ r.data = cache[r.page]

LogInv ==
  /\ \A i \in 1 .. Len(wal) : wal[i].boot <= boot
  /\ \A i \in 1 .. Len(walDur) : walDur[i].boot <= boot
  /\ phase \in {"idle", "stmt"} => Ours(wal, boot) = {}
  /\ phase \in {"idle", "stmt", "log", "walSync"} => OldQuiet(wal, boot)
  /\ phase = "log" =>
       /\ \A i \in Ours(wal, boot) : ImageOfDirty(wal[i])
       /\ \A p \in dirty : p < cursor => \E i \in Ours(wal, boot) : wal[i].page = p
  /\ phase = "walSync" =>
       /\ Len(wal) > 0 /\ wal[Len(wal)] = CommitRecord
       /\ \A i \in Ours(wal, boot) \ {Len(wal)} : ImageOfDirty(wal[i])
       /\ \A p \in dirty : \E i \in Ours(wal, boot) \ {Len(wal)} : wal[i].page = p

(***************************************************************************)
(* The `.db`: as last committed until a commit applies its pages; during   *)
(* the application, and during a replay, on its way to attempt.            *)
(***************************************************************************)
Replayed(p) == {i \in ImagesOf(wal, p) : i < cursor}

FileInv ==
  /\ phase \in {"idle", "stmt", "log", "walSync"} => db = acked
  /\ phase \in {"log", "walSync"} => attempt = Pending
  /\ phase \in {"apply", "truncate"} =>
       /\ walDur = wal /\ walSynced = Len(wal)
       /\ attempt = Pending
       /\ Clean(wal) => Replay(db, wal) = attempt
       /\ Clean(wal) => \A p \in dirty : ImagesOf(wal, p) # {}
  /\ phase \in {"replay", "replayTruncate"} => Replay(db, wal) = attempt
  /\ phase = "replay" =>
       \A p \in Page : Replayed(p) # {} => db[p] = wal[Max(Replayed(p))].data
  /\ phase \in {"truncate", "replayTruncate"} => db = attempt /\ dbDur = db /\ dirty = {}

PagerInv == TypeOK /\ CacheInv /\ LogInv /\ FileInv

-----------------------------------------------------------------------------
(***************************************************************************)
(* Arithmetic: least elements, Max and Length exist.                       *)
(***************************************************************************)
LEMMA LeastNat ==
  ASSUME NEW S \in SUBSET Nat, S # {}
  PROVE  \E n \in S : \A m \in S : n <= m
<1>1. PICK n \in S : \A m \in S : ~(<<m, n>> \in OpToRel(<, Nat))
  BY ONLY S \in SUBSET Nat, S # {}, NatLessThanWellFounded, WFMin, Zenon
<1>2. \A m \in S : ~(m < n)
  BY <1>1 DEF OpToRel
<1> QED
  BY <1>2

LEMMA MaxBounded ==
  ASSUME NEW N \in Nat, NEW S \in SUBSET (0 .. N), S # {}
  PROVE  Max(S) \in S /\ \A y \in S : y <= Max(S)
<1> DEFINE U == {n \in Nat : \A y \in S : y <= n}
<1>1. PICK n \in U : \A m \in U : n <= m
  <2>1. N \in U
    OBVIOUS
  <2> HIDE DEF U
  <2>2. U \in SUBSET Nat /\ U # {}
    BY <2>1 DEF U
  <2> QED
    BY <2>2, LeastNat
<1>2. n \in S
  <2> SUFFICES ASSUME n \notin S PROVE FALSE
    OBVIOUS
  <2>0. n \in Nat /\ \A y \in S : y \in Nat /\ y <= n /\ y # n
    OBVIOUS
  <2>1. n - 1 \in U
    <3>1. \A y \in S : y <= n - 1
      BY <2>0
    <3>2. n - 1 \in Nat
      <4>1. PICK y \in S : TRUE
        OBVIOUS
      <4> QED
        BY <2>0, <4>1
    <3> QED
      BY <3>1, <3>2
  <2> QED
    BY <1>1, <2>1
<1>3. \E x \in S : \A y \in S : x >= y
  BY <1>2
<1> QED
  BY <1>3 DEF Max

\* Length(f) is the least bound on the pages that f has.
LEMMA LengthChar ==
  ASSUME NEW f
  PROVE  /\ Length(f) \in 0 .. MaxPages
         /\ \A p \in Page : p >= Length(f) => f[p] = NoPage
         /\ \A m \in 0 .. MaxPages : (\A p \in Page : p >= m => f[p] = NoPage) => Length(f) <= m
<1> DEFINE B == {n \in 0 .. MaxPages : \A p \in Page : p >= n => f[p] = NoPage}
<1>1. PICK n \in B : \A m \in B : n <= m
  <2>1. MaxPages \in B
    BY PagerAssumption DEF Page
  <2> HIDE DEF B
  <2>2. B \in SUBSET Nat /\ B # {}
    BY <2>1, PagerAssumption DEF B
  <2> QED
    BY <2>2, LeastNat
<1> QED
  BY <1>1 DEF Length

\* A page that is written last, or within the file, determines the length.
LEMMA LengthIs ==
  ASSUME NEW f, NEW n \in 0 .. MaxPages,
         \A p \in Page : p >= n => f[p] = NoPage,
         n > 0 => f[n - 1] # NoPage
  PROVE  Length(f) = n
<1>1. Length(f) <= n
  BY LengthChar
<1>2. n > 0 => ~(n - 1 >= Length(f))
  BY LengthChar, PagerAssumption DEF Page
<1> QED
  BY <1>1, <1>2, LengthChar, PagerAssumption

LEMMA LengthLast ==
  ASSUME NEW f, Length(f) > 0
  PROVE  f[Length(f) - 1] # NoPage
<1> SUFFICES ASSUME f[Length(f) - 1] = NoPage PROVE FALSE
  OBVIOUS
<1>1. Length(f) - 1 \in 0 .. MaxPages
  BY LengthChar, PagerAssumption
<1>2. \A p \in Page : p >= Length(f) - 1 => f[p] = NoPage
  BY LengthChar, PagerAssumption DEF Page
<1> QED
  BY <1>1, <1>2, LengthChar, PagerAssumption

-----------------------------------------------------------------------------
(***************************************************************************)
(* Replay.                                                                 *)
(***************************************************************************)
LEMMA LastImage ==
  ASSUME NEW w \in Seq(Record), NEW p \in Page, ImagesOf(w, p) # {}
  PROVE  /\ Max(ImagesOf(w, p)) \in ImagesOf(w, p)
         /\ \A i \in ImagesOf(w, p) : i <= Max(ImagesOf(w, p))
         /\ Max(ImagesOf(w, p)) \in 1 .. Len(w)
         /\ w[Max(ImagesOf(w, p))].data \in Image
<1>1. ImagesOf(w, p) \in SUBSET (1 .. Len(w))
  BY DEF ImagesOf, Recovered, Readable
<1>2. ImagesOf(w, p) \in SUBSET (0 .. Len(w)) /\ Len(w) \in Nat
  BY <1>1
<1> HIDE DEF ImagesOf
<1>3. Max(ImagesOf(w, p)) \in ImagesOf(w, p) /\ \A i \in ImagesOf(w, p) : i <= Max(ImagesOf(w, p))
  BY <1>2, MaxBounded
<1>4. Max(ImagesOf(w, p)) \in 1 .. Len(w)
  BY <1>1, <1>3
<1>5. w[Max(ImagesOf(w, p))] \in Record
  BY <1>4
<1> QED
  BY <1>3, <1>4, <1>5 DEF Record

LEMMA ReplayType ==
  ASSUME NEW w \in Seq(Record), NEW f \in File
  PROVE  Replay(f, w) \in File
  BY LastImage DEF Replay, File

\* A log with no recovered records changes nothing.
LEMMA ReplayNothing ==
  ASSUME NEW w, NEW f \in File, Recovered(w) = {}
  PROVE  Replay(f, w) = f
  BY DEF Replay, File, ImagesOf

LEMMA ReplayAt ==
  ASSUME NEW f, NEW w, NEW p \in Page
  PROVE  Replay(f, w)[p] = IF ImagesOf(w, p) = {} THEN f[p] ELSE w[Max(ImagesOf(w, p))].data
  BY DEF Replay

\* Files that differ only where the log has an image replay to the same file.
LEMMA ReplaySame ==
  ASSUME NEW w, NEW f, NEW g,
         \A p \in Page : f[p] # g[p] => ImagesOf(w, p) # {}
  PROVE  Replay(f, w) = Replay(g, w)
  BY DEF Replay

-----------------------------------------------------------------------------
(***************************************************************************)
(* Types.                                                                  *)
(***************************************************************************)
LEMMA RecordTypes ==
  ASSUME TypeOK, CacheInv
  PROVE  /\ \A p \in dirty : PageRecord(p) \in Record
         /\ CommitRecord \in Record
         /\ \A b \in Nat : TornRecord(b) \in Record
  BY PagerAssumption
     DEF TypeOK, CacheInv, PageRecord, CommitRecord, TornRecord, Record, Image, Page

\* A log that survives a power failure is the durable one, or a prefix of the
\* log, or a prefix with a torn record after it.
LEMMA Survivors ==
  ASSUME TypeOK, NEW w \in SurvivingLogs
  PROVE  \/ w = walDur
         \/ \E n \in walSynced .. Len(wal) : w = SubSeq(wal, 1, n)
         \/ \E n \in walSynced .. Len(wal) - 1 :
              w = Append(SubSeq(wal, 1, n), TornRecord(wal[n + 1].boot))
  BY DEF SurvivingLogs

LEMMA PrefixType ==
  ASSUME TypeOK, NEW n \in 0 .. Len(wal)
  PROVE  /\ SubSeq(wal, 1, n) \in Seq(Record)
         /\ Len(SubSeq(wal, 1, n)) = n
         /\ \A i \in 1 .. n : SubSeq(wal, 1, n)[i] = wal[i]
  BY DEF TypeOK

LEMMA SurvivorType ==
  ASSUME TypeOK, CacheInv, NEW w \in SurvivingLogs
  PROVE  w \in Seq(Record)
<1>1. CASE w = walDur
  BY <1>1 DEF TypeOK
<1>2. ASSUME NEW n \in walSynced .. Len(wal), w = SubSeq(wal, 1, n) PROVE w \in Seq(Record)
  BY <1>2, PrefixType DEF TypeOK
<1>3. ASSUME NEW n \in walSynced .. Len(wal) - 1,
             w = Append(SubSeq(wal, 1, n), TornRecord(wal[n + 1].boot))
      PROVE  w \in Seq(Record)
  <2>1. n \in 0 .. Len(wal) /\ n + 1 \in 1 .. Len(wal)
    BY DEF TypeOK
  <2>2. SubSeq(wal, 1, n) \in Seq(Record)
    BY <2>1, PrefixType
  <2>3. wal[n + 1].boot \in Nat
    <3>1. wal[n + 1] \in Record
      BY <2>1 DEF TypeOK
    <3> QED
      BY <3>1 DEF Record
  <2> QED
    BY <1>3, <2>2, <2>3, RecordTypes
<1> QED
  BY <1>1, <1>2, <1>3, Survivors

LEMMA InitPager == Init => PagerInv
<1> SUFFICES ASSUME Init PROVE PagerInv
  OBVIOUS
<1> USE PagerAssumption DEF Init
<1>1. EmptyFile \in File
  BY DEF EmptyFile, File
<1>2. TypeOK
  <2>1. in_transaction = FALSE
    OBVIOUS
  <2>2. in_transaction \in BOOLEAN
    BY ONLY <2>1
  <2> QED
    BY <1>1, <2>2 DEF TypeOK
<1>3. CacheInv /\ LogInv /\ FileInv
  BY DEF CacheInv, LogInv, FileInv, Ours
<1> QED
  BY <1>2, <1>3 DEF PagerInv

LEMMA TypeStep == PagerInv /\ [Next]_vars => TypeOK'
<1> SUFFICES ASSUME PagerInv, [Next]_vars PROVE TypeOK'
  OBVIOUS
<1>a. TypeOK /\ CacheInv
  BY DEF PagerInv
<1> USE PagerAssumption DEF TypeOK
<1>0. CASE UNCHANGED vars
  BY <1>a, <1>0 DEF vars, memory, dbFile, walFile, history
<1>1. CASE Open
  <2>1. Replay(db, wal) \in File
    BY <1>a, ReplayType
  <2>2. in_transaction' = FALSE
    BY <1>1 DEF Open, FreshMemory
  <2>3. in_transaction' \in BOOLEAN
    BY ONLY <2>2
  <2> QED
    BY <1>a, <1>1, <2>1, <2>3, LengthChar DEF Open, FreshMemory, dbFile, walFile
<1>2. CASE ReplayRecord
  <2>1. PICK i \in Recovered(wal) : /\ db' = [db EXCEPT ![wal[i].page] = wal[i].data]
                                    /\ cursor' = i + 1
    BY <1>2 DEF ReplayRecord
  <2>2. i \in Nat /\ wal[i] \in Record
    BY <1>a DEF Recovered, Readable
  <2>3. db' \in File
    BY <1>a, <2>1, <2>2 DEF File, Record
  <2> QED
    BY <1>a, <1>2, <2>1, <2>2, <2>3 DEF ReplayRecord, memory, walFile, history
<1>3. CASE ReplaySync
  BY <1>a, <1>3 DEF ReplaySync, memory, walFile, history
<1>4. CASE ReplayTruncate
  BY <1>a, <1>4, LengthChar DEF ReplayTruncate, TruncateWal, dbFile
<1>5. ASSUME NEW p \in Page, ReadPage(p) PROVE TypeOK'
  <2>1. Fetch(p) \in Image
    BY <1>a DEF Fetch, File, Image
  <2> QED
    BY <1>a, <1>5, <2>1 DEF ReadPage, dbFile, walFile, history
<1>6. ASSUME NEW p \in 0 .. MaxPages, NEW d \in Data, WritePage(p, d) PROVE TypeOK'
  BY <1>a, <1>6 DEF WritePage, dbFile, walFile, history, Image, Page
<1>7. CASE StmtEnd \/ StmtErr \/ Begin
  BY <1>a, <1>7 DEF StmtEnd, StmtErr, Begin, memory, dbFile, walFile, history
<1>8. CASE Rollback
  <2>1. in_transaction' = FALSE
    BY <1>8 DEF Rollback
  <2>2. in_transaction' \in BOOLEAN
    BY ONLY <2>1
  <2>3. wal' \in Seq(Record) /\ walSynced' \in 0 .. Len(wal') /\ walDur' \in Seq(Record)
    BY <1>a, <1>8 DEF Rollback, TruncateWal
  <2> QED
    BY <1>a, <1>8, <2>2, <2>3, LengthChar DEF Rollback, dbFile, history
<1>9. CASE CommitStart
  <2>1. Pending \in File
    BY <1>a DEF Pending, File, CacheInv
  <2> QED
    BY <1>a, <1>9, <2>1 DEF CommitStart, memory, dbFile, walFile
<1>10. CASE LogPage
  <2>1. PICK p \in dirty : wal' = Append(wal, PageRecord(p)) /\ cursor' = p + 1
    BY <1>10 DEF LogPage
  <2>2. wal' \in Seq(Record) /\ walSynced \in 0 .. Len(wal')
    BY <1>a, <2>1, RecordTypes
  <2>3. cursor' \in Nat
    BY <1>a, <2>1 DEF Page
  <2> QED
    BY <1>a, <1>10, <2>2, <2>3 DEF LogPage, memory, dbFile, history
<1>11. CASE LogMarker
  <2>1. wal' \in Seq(Record) /\ walSynced \in 0 .. Len(wal')
    BY <1>a, <1>11, RecordTypes DEF LogMarker
  <2> QED
    BY <1>a, <1>11, <2>1 DEF LogMarker, memory, dbFile, history
<1>12. CASE WalSync
  BY <1>a, <1>12 DEF WalSync, dbFile, history
<1>13. CASE ApplyPage
  <2>1. PICK p \in dirty : db' = [db EXCEPT ![p] = cache[p]] /\ dirty' = dirty \ {p}
    BY <1>13 DEF ApplyPage
  <2>2. db' \in File
    BY <1>a, <2>1 DEF File, CacheInv
  <2> QED
    BY <1>a, <1>13, <2>1, <2>2 DEF ApplyPage, walFile, history
<1>14. CASE DbSync
  BY <1>a, <1>14 DEF DbSync, memory, walFile, history
<1>15. CASE CommitEnd
  <2>1. in_transaction' = FALSE
    BY <1>15 DEF CommitEnd
  <2>2. in_transaction' \in BOOLEAN
    BY ONLY <2>1
  <2>3. wal' \in Seq(Record) /\ walSynced' \in 0 .. Len(wal') /\ walDur' \in Seq(Record)
    BY <1>a, <1>15 DEF CommitEnd, TruncateWal
  <2> QED
    BY <1>a, <1>15, <2>2, <2>3 DEF CommitEnd, dbFile
<1>16. CASE Kill
  <2>1. wal' \in Seq(Record) /\ walSynced \in 0 .. Len(wal')
    <3>1. TornRecord(boot) \in Record
      BY <1>a, RecordTypes
    <3> QED
      BY <1>a, <1>16, <3>1 DEF Kill
  <2>2. in_transaction' = FALSE
    BY <1>16 DEF Kill, Dies
  <2>3. in_transaction' \in BOOLEAN
    BY ONLY <2>2
  <2> QED
    BY <1>a, <1>16, <2>1, <2>3 DEF Kill, Dies, dbFile, history
<1>17. CASE PowerFailure
  <2>1. wal' \in Seq(Record) /\ walDur' \in Seq(Record) /\ walSynced' = Len(wal')
    BY <1>a, <1>17, SurvivorType DEF PowerFailure
  <2>2. db' \in File /\ dbDur' \in File
    BY <1>17 DEF PowerFailure
  <2>3. in_transaction' = FALSE
    BY <1>17 DEF PowerFailure, Dies
  <2>4. in_transaction' \in BOOLEAN
    BY ONLY <2>3
  <2> QED
    BY <1>a, <1>17, <2>1, <2>2, <2>4 DEF PowerFailure, Dies, history
<1> QED
  BY <1>0, <1>1, <1>2, <1>3, <1>4, <1>5, <1>6, <1>7, <1>8, <1>9, <1>10, <1>11, <1>12, <1>13,
     <1>14, <1>15, <1>16, <1>17 DEF Next, RecoveryStep, CommitStep

-----------------------------------------------------------------------------
(***************************************************************************)
(* The cache.                                                              *)
(***************************************************************************)
LEMMA PendingClean ==
  ASSUME NEW D, NEW c, NEW f \in File, D = {}
  PROVE  [p \in Page |-> IF p \in D THEN c[p] ELSE f[p]] = f
  BY DEF File

\* A page at or beyond file_length is neither dirty nor in the file.
LEMMA BeyondLength ==
  ASSUME TypeOK, CacheInv, phase \in {"idle", "stmt", "log"},
         NEW p \in Page, p >= file_length
  PROVE  p \notin dirty /\ db[p] = NoPage
<1>1. Pending[p] = NoPage
  BY LengthChar DEF CacheInv
<1> QED
  BY <1>1, PagerAssumption DEF Pending, CacheInv, Image

LEMMA CacheStep == PagerInv /\ [Next]_vars => CacheInv'
<1> SUFFICES ASSUME PagerInv, [Next]_vars PROVE CacheInv'
  OBVIOUS
<1>a. TypeOK /\ CacheInv /\ FileInv
  BY DEF PagerInv
<1>0. CASE UNCHANGED vars
  BY <1>a, <1>0 DEF CacheInv, vars, memory, dbFile, history, Pending
<1>1. CASE Open
  <2>1. Pending' = db
    BY <1>a, <1>1, PendingClean DEF Pending, Open, FreshMemory, dbFile, TypeOK
  <2> QED
    BY <1>a, <1>1, <2>1 DEF CacheInv, Open, FreshMemory, dbFile
<1>2. CASE ReplayRecord
  BY <1>a, <1>2 DEF CacheInv, ReplayRecord, memory
<1>3. CASE ReplaySync
  BY <1>a, <1>3 DEF CacheInv, ReplaySync, memory
<1>4. CASE ReplayTruncate
  <2>1. Pending' = db
    BY <1>a, <1>4, PendingClean DEF Pending, ReplayTruncate, dbFile, TypeOK, CacheInv
  <2> QED
    BY <1>a, <1>4, <2>1 DEF CacheInv, ReplayTruncate, dbFile
<1>5. ASSUME NEW p \in Page, ReadPage(p) PROVE CacheInv'
  <2>1. p \notin dirty
    BY <1>a, <1>5, PagerAssumption DEF CacheInv, ReadPage, Image
  <2>2. Fetch(p) = Shown(db[p])
    BY <1>a, <1>5, BeyondLength DEF ReadPage, Fetch, Shown, TypeOK, Page
  <2>3. Pending' = Pending
    BY <1>a, <1>5, <2>1 DEF Pending, ReadPage, dbFile, TypeOK
  <2> QED
    BY <1>a, <1>5, <2>1, <2>2, <2>3 DEF CacheInv, ReadPage, dbFile, history, TypeOK
<1>6. ASSUME NEW p \in Page, NEW d \in Data, WritePage(p, d) PROVE CacheInv'
  <2>1. /\ phase \in {"idle", "stmt"} /\ p <= file_length /\ phase' = "stmt"
        /\ cache' = [cache EXCEPT ![p] = d] /\ dirty' = dirty \cup {p} /\ db' = db
        /\ file_length' = IF p + 1 > file_length THEN p + 1 ELSE file_length
    BY <1>6 DEF WritePage, dbFile
  <2>2. \A q \in Page : Pending'[q] = IF q = p THEN d ELSE Pending[q]
    BY <1>a, <2>1 DEF Pending, TypeOK
  <2>3. file_length' \in 0 .. MaxPages /\ file_length' > 0
    BY <1>a, <2>1, PagerAssumption DEF TypeOK, Page
  <2>4. \A q \in Page : q >= file_length' => Pending'[q] = NoPage
    <3>1. \A q \in Page : q >= file_length => Pending[q] = NoPage
      BY <1>a, <2>1, LengthChar DEF CacheInv
    <3>2. \A q \in Page : q >= file_length' => q >= file_length /\ q # p
      BY <1>a, <2>1, PagerAssumption DEF TypeOK, Page
    <3> QED
      BY <2>2, <3>1, <3>2
  <2>5. Pending'[file_length' - 1] # NoPage
    <3>1. CASE file_length' = p + 1
      BY <2>2, <3>1, PagerAssumption DEF Page
    <3>2. CASE file_length' # p + 1
      <4>1. file_length' = file_length /\ p < file_length - 1 /\ file_length - 1 \in Page
        BY <1>a, <2>1, <3>2, PagerAssumption DEF TypeOK, Page
      <4>2. Pending[file_length - 1] # NoPage
        BY <1>a, <2>1, <2>3, <4>1, LengthLast DEF CacheInv
      <4> QED
        BY <2>2, <4>1, <4>2, PagerAssumption DEF Page
    <3> QED
      BY <3>1, <3>2
  <2>6. file_length' = Length(Pending)'
    BY <2>3, <2>4, <2>5, LengthIs
  <2> QED
    BY <1>a, <2>1, <2>6 DEF CacheInv, TypeOK, Image
<1>7. CASE StmtEnd \/ StmtErr \/ Begin
  BY <1>a, <1>7 DEF CacheInv, StmtEnd, StmtErr, Begin, memory, dbFile, history, Pending
<1>8. CASE Rollback
  <2>1. Pending' = db
    BY <1>a, <1>8, PendingClean DEF Pending, Rollback, dbFile, TypeOK
  <2> QED
    BY <1>a, <1>8, <2>1 DEF CacheInv, Rollback, dbFile, TypeOK
<1>9. CASE CommitStart \/ LogPage \/ LogMarker \/ WalSync \/ DbSync
  <2>1. UNCHANGED <<cache, dirty, file_length, db>>
    BY <1>9 DEF CommitStart, LogPage, LogMarker, WalSync, DbSync, memory, dbFile
  <2>2. Pending' = Pending
    BY <2>1 DEF Pending
  <2> QED
    BY <1>a, <1>9, <2>1, <2>2
       DEF CacheInv, FileInv, CommitStart, LogPage, LogMarker, WalSync, DbSync, history
<1>10. CASE ApplyPage
  <2>1. PICK p \in dirty : db' = [db EXCEPT ![p] = cache[p]] /\ dirty' = dirty \ {p}
    BY <1>10 DEF ApplyPage
  <2> QED
    BY <1>a, <1>10, <2>1, PagerAssumption
       DEF CacheInv, ApplyPage, history, Shown, TypeOK, File, Image
<1>11. CASE CommitEnd
  <2>1. Pending' = db
    BY <1>a, <1>11, PendingClean DEF Pending, CommitEnd, dbFile, TypeOK, FileInv
  <2> QED
    BY <1>a, <1>11, <2>1 DEF CacheInv, FileInv, CommitEnd, dbFile
<1>12. CASE Kill \/ PowerFailure
  BY <1>12 DEF CacheInv, Kill, PowerFailure, Dies
<1>13. ASSUME NEW p \in 0 .. MaxPages, NEW d \in Data, WritePage(p, d) PROVE CacheInv'
  <2>1. p \in Page
    BY <1>13 DEF WritePage
  <2> QED
    BY <1>6, <1>13, <2>1
<1> QED
  BY <1>0, <1>1, <1>2, <1>3, <1>4, <1>5, <1>7, <1>8, <1>9, <1>10, <1>11, <1>12, <1>13
     DEF Next, RecoveryStep, CommitStep

-----------------------------------------------------------------------------
(***************************************************************************)
(* The log.                                                                *)
(***************************************************************************)
LEMMA AppendLog ==
  ASSUME NEW w \in Seq(Record), NEW r \in Record
  PROVE  /\ Append(w, r) \in Seq(Record)
         /\ Len(Append(w, r)) = Len(w) + 1
         /\ \A i \in 1 .. Len(w) : Append(w, r)[i] = w[i]
         /\ Append(w, r)[Len(w) + 1] = r
  OBVIOUS

LEMMA ReadableAppend ==
  ASSUME NEW w \in Seq(Record), NEW r \in Record
  PROVE  Readable(w) = Readable(Append(w, r)) \cap (1 .. Len(w))
<1>1. \A i \in 1 .. Len(w) : 1 .. i \subseteq 1 .. Len(w)
  OBVIOUS
<1>2. \A i \in 1 .. Len(w) : Append(w, r)[i] = w[i]
  BY AppendLog
<1>3. Len(Append(w, r)) = Len(w) + 1
  BY AppendLog
<1> QED
  BY <1>1, <1>2, <1>3 DEF Readable

LEMMA OursAppend ==
  ASSUME NEW w \in Seq(Record), NEW r \in Record, NEW b, r.boot = b
  PROVE  Ours(Append(w, r), b) = Ours(w, b) \cup {Len(w) + 1}
  BY AppendLog DEF Ours

LEMMA QuietAppend ==
  ASSUME NEW w \in Seq(Record), NEW r \in Record, NEW b, r.boot = b, OldQuiet(w, b)
  PROVE  OldQuiet(Append(w, r), b)
<1>1. ASSUME NEW i \in Readable(Append(w, r)) \ Ours(Append(w, r), b)
      PROVE  i \in Readable(w) \ Ours(w, b) /\ Append(w, r)[i] = w[i]
  <2>1. i \in 1 .. Len(w) + 1
    BY AppendLog DEF Readable
  <2>2. i \in 1 .. Len(w)
    BY <2>1, OursAppend
  <2> QED
    BY <2>2, ReadableAppend, OursAppend, AppendLog
<1> SUFFICES ASSUME NEW i \in Readable(Append(w, r)) \ Ours(Append(w, r), b),
                    NEW j \in Readable(Append(w, r)) \ Ours(Append(w, r), b),
                    Append(w, r)[i].kind = "page", Append(w, r)[j].kind = "commit"
             PROVE  Append(w, r)[i].txn # Append(w, r)[j].txn
  BY DEF OldQuiet
<1>2. /\ i \in Readable(w) \ Ours(w, b) /\ Append(w, r)[i] = w[i]
      /\ j \in Readable(w) \ Ours(w, b) /\ Append(w, r)[j] = w[j]
  BY <1>1
<1> QED
  BY <1>2 DEF OldQuiet

LEMMA QuietWhenNothing ==
  ASSUME NEW w \in Seq(Record), NEW b, Recovered(w) = {}
  PROVE  OldQuiet(w, b)
  BY DEF OldQuiet, Recovered, Committed

LEMMA EmptyLog == /\ <<>> \in Seq(Record) /\ Len(<<>>) = 0 /\ Recovered(<<>>) = {}
                  /\ \A b : Ours(<<>>, b) = {} /\ OldQuiet(<<>>, b)
  BY DEF Ours, OldQuiet, Recovered, Readable

LEMMA SurvivorBoots ==
  ASSUME TypeOK, CacheInv, LogInv, NEW w \in SurvivingLogs
  PROVE  \A i \in 1 .. Len(w) : w[i].boot <= boot
<1>1. CASE w = walDur
  BY <1>1 DEF LogInv
<1>2. ASSUME NEW n \in walSynced .. Len(wal), w = SubSeq(wal, 1, n)
      PROVE  \A i \in 1 .. Len(w) : w[i].boot <= boot
  BY <1>2, PrefixType DEF TypeOK, LogInv
<1>3. ASSUME NEW n \in walSynced .. Len(wal) - 1,
             w = Append(SubSeq(wal, 1, n), TornRecord(wal[n + 1].boot))
      PROVE  \A i \in 1 .. Len(w) : w[i].boot <= boot
  <2>1. n \in 0 .. Len(wal) /\ n + 1 \in 1 .. Len(wal)
    BY DEF TypeOK
  <2>2. wal[n + 1].boot <= boot /\ wal[n + 1] \in Record
    BY <2>1 DEF LogInv, TypeOK
  <2>3. TornRecord(wal[n + 1].boot) \in Record
    BY <2>2, RecordTypes DEF Record
  <2>4. TornRecord(wal[n + 1].boot).boot <= boot
    BY <2>2 DEF TornRecord
  <2> QED
    BY <1>3, <2>1, <2>3, <2>4, PrefixType, AppendLog DEF LogInv
<1> QED
  BY <1>1, <1>2, <1>3, Survivors

LEMMA LogStep == PagerInv /\ [Next]_vars => LogInv'
<1> SUFFICES ASSUME PagerInv, [Next]_vars PROVE LogInv'
  OBVIOUS
<1>a. TypeOK /\ CacheInv /\ LogInv
  BY DEF PagerInv
<1>b. boot \in Nat /\ wal \in Seq(Record) /\ walDur \in Seq(Record)
  BY <1>a DEF TypeOK
<1>c. TypeOK'
  BY TypeStep
<1>d. wal' \in Seq(Record) /\ walDur' \in Seq(Record)
  BY <1>c DEF TypeOK
<1>e. /\ \A i \in 1 .. Len(wal) : wal[i].boot \in Nat
      /\ \A i \in 1 .. Len(walDur) : walDur[i].boot \in Nat
  <2>1. /\ \A i \in 1 .. Len(wal) : wal[i] \in Record
        /\ \A i \in 1 .. Len(walDur) : walDur[i] \in Record
    BY <1>b
  <2> QED
    BY <2>1 DEF Record
<1>0. CASE UNCHANGED vars
  BY <1>a, <1>0 DEF LogInv, ImageOfDirty, CommitRecord, vars, memory, walFile, history
<1>1. CASE Open
  <2>1. Recovered(wal) = {} => OldQuiet(wal, boot')
    BY <1>b, QuietWhenNothing
  <2>2. Ours(wal, boot') = {}
    BY <1>a, <1>b, <1>e, <1>1 DEF LogInv, Ours, Open
  <2>3. /\ \A i \in 1 .. Len(wal) : wal[i].boot <= boot'
        /\ \A i \in 1 .. Len(walDur) : walDur[i].boot <= boot'
    BY <1>a, <1>b, <1>e, <1>1 DEF LogInv, Open
  <2>4. wal' = wal /\ walDur' = walDur
    BY <1>1 DEF Open, walFile
  <2>5. phase' = "replay" \/ (phase' = "idle" /\ Recovered(wal) = {})
    BY <1>1 DEF Open
  <2> QED
    BY <2>1, <2>2, <2>3, <2>4, <2>5 DEF LogInv
<1>2. CASE ReplayRecord \/ ReplaySync
  BY <1>a, <1>2 DEF LogInv, ReplayRecord, ReplaySync, walFile, history
<1>3. CASE ReplayTruncate \/ CommitEnd \/ Rollback
  <2>1. wal' = <<>> /\ walDur' = walDur /\ boot' = boot /\ phase' = "idle"
    BY <1>3 DEF ReplayTruncate, CommitEnd, Rollback, TruncateWal, history
  <2> QED
    BY <1>a, <2>1, EmptyLog DEF LogInv
<1>4. CASE (\E p \in Page : ReadPage(p)) \/ (\E p \in 0 .. MaxPages, d \in Data : WritePage(p, d))
           \/ StmtEnd \/ StmtErr \/ Begin
  <2>1. phase \in {"idle", "stmt"} /\ phase' \in {"idle", "stmt"}
    BY <1>4 DEF ReadPage, WritePage, StmtEnd, StmtErr, Begin
  <2>2. UNCHANGED <<wal, walDur, boot>>
    BY <1>4 DEF ReadPage, WritePage, StmtEnd, StmtErr, Begin, walFile, history
  <2> QED
    BY <1>a, <2>1, <2>2 DEF LogInv
<1>5. CASE CommitStart
  <2>1. \A p \in dirty : ~(p < 0)
    BY <1>a, PagerAssumption DEF TypeOK, Page
  <2> QED
    BY <1>a, <1>5, <2>1 DEF LogInv, CommitStart, memory, walFile
<1>6. CASE LogPage
  <2>1. PICK p \in dirty : /\ p >= cursor
                           /\ \A q \in dirty : q >= cursor => p <= q
                           /\ wal' = Append(wal, PageRecord(p))
                           /\ cursor' = p + 1
    BY <1>6 DEF LogPage
  <2>2. PageRecord(p) \in Record
    BY <1>a, RecordTypes
  <2>3. PageRecord(p).boot = boot /\ ImageOfDirty(PageRecord(p)) /\ PageRecord(p).page = p
    BY DEF PageRecord, ImageOfDirty
  <2>4. phase = "log" /\ phase' = "log" /\ UNCHANGED <<cache, dirty, txn_id, walDur, boot>>
    BY <1>6 DEF LogPage, memory, history
  <2>5. Ours(wal', boot) = Ours(wal, boot) \cup {Len(wal) + 1} /\ OldQuiet(wal', boot)
    BY <1>a, <1>b, <2>1, <2>2, <2>3, <2>4, OursAppend, QuietAppend DEF LogInv
  <2>6. /\ \A i \in 1 .. Len(wal) : wal'[i] = wal[i]
        /\ wal'[Len(wal) + 1] = PageRecord(p) /\ Len(wal') = Len(wal) + 1
    BY <1>b, <2>1, <2>2, AppendLog
  <2>7. \A i \in 1 .. Len(wal') : wal'[i].boot <= boot
    BY <1>a, <1>b, <2>3, <2>6 DEF LogInv
  <2>8. \A i \in Ours(wal', boot) : ImageOfDirty(wal'[i])
    BY <1>a, <2>3, <2>4, <2>5, <2>6 DEF LogInv, Ours
  <2>9. \A q \in dirty : q < cursor' => \E i \in Ours(wal', boot) : wal'[i].page = q
    <3> SUFFICES ASSUME NEW q \in dirty, q < cursor'
                 PROVE  \E i \in Ours(wal', boot) : wal'[i].page = q
      OBVIOUS
    <3>1. q < cursor \/ q = p
      BY <1>a, <2>1 DEF TypeOK, Page
    <3> QED
      BY <1>a, <2>3, <2>4, <2>5, <2>6, <3>1 DEF LogInv, Ours
  <2> QED
    BY <1>a, <2>4, <2>5, <2>7, <2>8, <2>9 DEF LogInv, ImageOfDirty
<1>7. CASE LogMarker
  <2>1. /\ phase = "log" /\ phase' = "walSync" /\ wal' = Append(wal, CommitRecord)
        /\ UNCHANGED <<cache, dirty, txn_id, walDur, boot>>
        /\ \A p \in dirty : p < cursor
    BY <1>7 DEF LogMarker, memory, history
  <2>2. CommitRecord \in Record /\ CommitRecord.boot = boot
    BY <1>a, RecordTypes DEF CommitRecord
  <2>3. Ours(wal', boot) = Ours(wal, boot) \cup {Len(wal) + 1} /\ OldQuiet(wal', boot)
    BY <1>a, <1>b, <2>1, <2>2, OursAppend, QuietAppend DEF LogInv
  <2>4. /\ \A i \in 1 .. Len(wal) : wal'[i] = wal[i]
        /\ wal'[Len(wal) + 1] = CommitRecord /\ Len(wal') = Len(wal) + 1
    BY <1>b, <2>1, <2>2, AppendLog
  <2>5. \A i \in 1 .. Len(wal') : wal'[i].boot <= boot
    BY <1>a, <1>b, <2>2, <2>4 DEF LogInv
  <2>6. Ours(wal', boot) \ {Len(wal')} = Ours(wal, boot)
    BY <1>b, <2>3, <2>4 DEF Ours
  <2>7. \A i \in Ours(wal, boot) : wal'[i] = wal[i]
    BY <2>4 DEF Ours
  <2>8. CommitRecord' = CommitRecord
    BY <2>1 DEF CommitRecord
  <2>9. /\ \A i \in Ours(wal, boot) : ImageOfDirty(wal[i])'
        /\ \A p \in dirty : \E i \in Ours(wal, boot) : wal'[i].page = p
    BY <1>a, <2>1, <2>7 DEF LogInv, ImageOfDirty
  <2>10. Len(wal') > 0 /\ wal'[Len(wal')] = CommitRecord
    BY <1>b, <2>4
  <2>11. \A i \in 1 .. Len(walDur) : walDur[i].boot <= boot
    BY <1>a DEF LogInv
  <2> QED
    BY <2>1, <2>3, <2>5, <2>6, <2>8, <2>9, <2>10, <2>11 DEF LogInv
<1>8. CASE WalSync \/ ApplyPage \/ DbSync
  <2>1. /\ phase' \in {"apply", "truncate"} /\ wal' = wal /\ boot' = boot
        /\ walDur' \in {wal, walDur}
    BY <1>8 DEF WalSync, ApplyPage, DbSync, walFile, history
  <2> QED
    BY <1>a, <2>1 DEF LogInv
<1>9. CASE Kill
  <2>1. /\ phase' = "down" /\ boot' = boot /\ walDur' = walDur
        /\ wal' \in {wal, Append(wal, TornRecord(boot))}
    BY <1>9 DEF Kill, Dies, history
  <2>2. TornRecord(boot) \in Record /\ TornRecord(boot).boot = boot
    BY <1>a, <1>b, RecordTypes DEF TornRecord
  <2>3. \A i \in 1 .. Len(wal') : wal'[i].boot <= boot
    <3>1. CASE wal' = wal
      BY <1>a, <3>1 DEF LogInv
    <3>2. CASE wal' = Append(wal, TornRecord(boot))
      <4>1. /\ \A i \in 1 .. Len(wal) : wal'[i] = wal[i]
            /\ wal'[Len(wal) + 1] = TornRecord(boot) /\ Len(wal') = Len(wal) + 1
        BY <1>b, <2>2, <3>2, AppendLog
      <4> QED
        BY <1>a, <1>b, <2>2, <4>1 DEF LogInv
    <3> QED
      BY <2>1, <3>1, <3>2
  <2> QED
    BY <1>a, <2>1, <2>3 DEF LogInv
<1>10. CASE PowerFailure
  <2>1. /\ phase' = "down" /\ boot' = boot /\ walDur' = wal' /\ wal' \in SurvivingLogs
    BY <1>10 DEF PowerFailure, Dies, history
  <2>2. \A i \in 1 .. Len(wal') : wal'[i].boot <= boot
    BY <1>a, <2>1, SurvivorBoots
  <2> QED
    BY <2>1, <2>2 DEF LogInv
<1> QED
  BY <1>0, <1>1, <1>2, <1>3, <1>4, <1>5, <1>6, <1>7, <1>8, <1>9, <1>10
     DEF Next, RecoveryStep, CommitStep

-----------------------------------------------------------------------------
(***************************************************************************)
(* The `.db`.                                                              *)
(***************************************************************************)
\* A clean log with its marker holds exactly the pages of the commit.
LEMMA CommittedLog ==
  ASSUME PagerInv, phase = "walSync", Clean(wal)
  PROVE  /\ Replay(db, wal) = attempt
         /\ \A p \in dirty : ImagesOf(wal, p) # {}
<1> DEFINE N == Len(wal)
<1>1. /\ N \in Nat \ {0}
      /\ wal[N].kind = "commit" /\ wal[N].boot = boot /\ wal[N].txn = txn_id
  BY DEF PagerInv, LogInv, TypeOK, CommitRecord
<1>2. \A i \in 1 .. N : wal[i].boot = boot
  BY <1>1 DEF Clean
<1>3. /\ \A i \in 1 .. N - 1 : ImageOfDirty(wal[i])
      /\ \A p \in dirty : \E i \in 1 .. N - 1 : wal[i].page = p
  BY <1>1, <1>2 DEF PagerInv, LogInv, Ours
<1>4. Readable(wal) = 1 .. N
  BY <1>1, <1>3 DEF Readable, ImageOfDirty
<1>5. txn_id \in Committed(wal)
  BY <1>1, <1>4 DEF Committed
<1>6. \A i \in Recovered(wal) : i \in 1 .. N - 1
  BY <1>1, <1>4 DEF Recovered
<1>7. \A i \in 1 .. N - 1 : i \in Recovered(wal)
  BY <1>1, <1>3, <1>4, <1>5 DEF Recovered, ImageOfDirty
<1>8. \A p \in dirty : ImagesOf(wal, p) # {}
  BY <1>3, <1>7 DEF ImagesOf
<1>9. ASSUME NEW p \in Page PROVE Replay(db, wal)[p] = attempt[p]
  <2>1. attempt[p] = IF p \in dirty THEN cache[p] ELSE db[p]
    BY DEF PagerInv, FileInv, Pending
  <2>2. CASE ImagesOf(wal, p) = {}
    BY <1>8, <2>1, <2>2, ReplayAt
  <2>3. CASE ImagesOf(wal, p) # {}
    <3>1. Max(ImagesOf(wal, p)) \in ImagesOf(wal, p)
      BY <2>3, LastImage DEF PagerInv, TypeOK
    <3> DEFINE m == Max(ImagesOf(wal, p))
    <3>2. m \in 1 .. N - 1 /\ wal[m].page = p
      BY <1>6, <3>1 DEF ImagesOf
    <3>3. p \in dirty /\ wal[m].data = cache[p]
      BY <1>3, <3>2 DEF ImageOfDirty
    <3> QED
      BY <2>1, <2>3, <3>3, ReplayAt
  <2> QED
    BY <2>2, <2>3
<1>10. Replay(db, wal) \in File /\ attempt \in File
  BY ReplayType DEF PagerInv, TypeOK
<1> QED
  BY <1>8, <1>9, <1>10 DEF File

LEMMA FileStep == PagerInv /\ [Next]_vars => FileInv'
<1> SUFFICES ASSUME PagerInv, [Next]_vars PROVE FileInv'
  OBVIOUS
<1>a. TypeOK /\ CacheInv /\ FileInv
  BY DEF PagerInv
<1>b. db \in File /\ attempt \in File /\ wal \in Seq(Record) /\ cursor \in Nat
  BY <1>a DEF TypeOK
<1>0. CASE UNCHANGED vars
  BY <1>a, <1>0 DEF FileInv, Replayed, Pending, vars, memory, dbFile, walFile, history
<1>1. CASE Open
  <2>1. \A p \in Page : Replayed(p)' = {}
    BY <1>b, <1>1 DEF Replayed, Open, walFile, ImagesOf, Recovered, Readable
  <2>2. Recovered(wal) = {} => Replay(db, wal) = db
    BY <1>b, ReplayNothing
  <2>3. db' = db /\ wal' = wal /\ attempt' = Replay(db, wal)
    BY <1>1 DEF Open, dbFile, walFile
  <2>4. \/ phase' = "replay"
        \/ phase' = "idle" /\ Recovered(wal) = {} /\ acked' = attempt'
    BY <1>1 DEF Open
  <2> QED
    BY <2>1, <2>2, <2>3, <2>4 DEF FileInv
<1>2. CASE ReplayRecord
  <2>1. PICK i \in Recovered(wal) : /\ i >= cursor
                                    /\ \A j \in Recovered(wal) : j >= cursor => i <= j
                                    /\ db' = [db EXCEPT ![wal[i].page] = wal[i].data]
                                    /\ cursor' = i + 1
    BY <1>2 DEF ReplayRecord
  <2>2. phase = "replay" /\ phase' = "replay" /\ UNCHANGED <<wal, attempt>>
    BY <1>2 DEF ReplayRecord, walFile, history
  <2>3. wal[i].page \in Page /\ i \in 1 .. Len(wal)
    <3>1. i \in 1 .. Len(wal)
      BY DEF Recovered, Readable
    <3>2. wal[i] \in Record
      BY <1>b, <3>1
    <3> QED
      BY <3>1, <3>2 DEF Record
  <2>4. i \in ImagesOf(wal, wal[i].page)
    BY DEF ImagesOf
  <2>5. Replay(db', wal) = Replay(db, wal)
    <3>1. \A p \in Page : db'[p] # db[p] => ImagesOf(wal, p) # {}
      BY <1>b, <2>1, <2>4 DEF File
    <3> QED
      BY <3>1, ReplaySame
  <2>6. ASSUME NEW p \in Page, Replayed(p)' # {}
        PROVE  db'[p] = wal[Max(Replayed(p)')].data
    <3>0. \A j \in Recovered(wal) : j \in Nat
      BY DEF Recovered, Readable
    <3>r. Replayed(p)' = {j \in ImagesOf(wal, p) : j < i + 1}
      BY <2>1, <2>2 DEF Replayed
    <3>n. \A j \in ImagesOf(wal, p) : j \in Recovered(wal) /\ j \in Nat /\ wal[j].page = p
      BY <3>0 DEF ImagesOf
    <3>1. CASE p = wal[i].page
      <4>1. Replayed(p)' \in SUBSET (0 .. i) /\ i \in Replayed(p)' /\ i \in Nat
        BY <2>3, <2>4, <3>1, <3>r, <3>n
      <4>2. Max(Replayed(p)') \in Replayed(p)' /\ i <= Max(Replayed(p)')
        BY <4>1, MaxBounded
      <4>3. Max(Replayed(p)') = i
        BY <4>1, <4>2
      <4> QED
        BY <1>b, <2>1, <2>3, <3>1, <4>3 DEF File
    <3>2. CASE p # wal[i].page
      <4>1. Replayed(p)' = Replayed(p)
        <5>1. \A j \in ImagesOf(wal, p) : j < i + 1 <=> j < cursor
          BY <1>b, <2>1, <2>3, <3>2, <3>n
        <5> QED
          BY <3>r, <5>1 DEF Replayed
      <4>2. db'[p] = db[p]
        BY <1>b, <2>1, <3>2 DEF File
      <4> QED
        BY <1>a, <2>2, <2>6, <4>1, <4>2 DEF FileInv
    <3> QED
      BY <3>1, <3>2
  <2> QED
    BY <1>a, <2>2, <2>5, <2>6 DEF FileInv
<1>3. CASE ReplaySync
  <2>1. /\ phase = "replay" /\ phase' = "replayTruncate" /\ dbDur' = db
        /\ UNCHANGED <<db, wal, dirty, attempt>>
        /\ \A i \in Recovered(wal) : i < cursor
    BY <1>3 DEF ReplaySync, memory, walFile, history
  <2>2. ASSUME NEW p \in Page PROVE db[p] = Replay(db, wal)[p]
    <3>1. Replayed(p) = ImagesOf(wal, p)
      BY <2>1 DEF Replayed, ImagesOf
    <3> QED
      BY <1>a, <2>1, <3>1, ReplayAt DEF FileInv
  <2>3. db = attempt
    BY <1>a, <1>b, <2>1, <2>2 DEF FileInv, File
  <2> QED
    BY <1>a, <2>1, <2>3 DEF FileInv, CacheInv
<1>4. CASE ReplayTruncate \/ CommitEnd
  <2>1. phase \in {"truncate", "replayTruncate"} /\ phase' = "idle" /\ db' = db /\ acked' = attempt
    BY <1>4 DEF ReplayTruncate, CommitEnd, dbFile
  <2> QED
    BY <1>a, <2>1 DEF FileInv
<1>5. CASE (\E p \in Page : ReadPage(p)) \/ (\E p \in 0 .. MaxPages, d \in Data : WritePage(p, d))
           \/ StmtEnd \/ StmtErr \/ Begin \/ Rollback
  <2>1. phase \in {"idle", "stmt"} /\ phase' \in {"idle", "stmt"}
    BY <1>5 DEF ReadPage, WritePage, StmtEnd, StmtErr, Begin, Rollback
  <2>2. UNCHANGED <<db, acked>>
    BY <1>5 DEF ReadPage, WritePage, StmtEnd, StmtErr, Begin, Rollback, dbFile, history
  <2> QED
    BY <1>a, <2>1, <2>2 DEF FileInv
<1>6. CASE CommitStart \/ LogPage \/ LogMarker
  <2>1. Pending' = Pending /\ UNCHANGED <<db, acked>>
    BY <1>6 DEF CommitStart, LogPage, LogMarker, memory, dbFile, history, Pending
  <2>2. \/ phase \in {"idle", "stmt"} /\ phase' = "log" /\ attempt' = Pending
        \/ phase = "log" /\ phase' \in {"log", "walSync"} /\ attempt' = attempt
    BY <1>6 DEF CommitStart, LogPage, LogMarker, history
  <2> QED
    BY <1>a, <2>1, <2>2 DEF FileInv
<1>7. CASE WalSync
  <2>1. /\ phase = "walSync" /\ phase' = "apply"
        /\ walDur' = wal /\ wal' = wal /\ walSynced' = Len(wal)
        /\ UNCHANGED <<cache, dirty, db, attempt>>
    BY <1>7 DEF WalSync, dbFile, history
  <2>2. Pending' = Pending
    BY <2>1 DEF Pending
  <2>3. Clean(wal) => /\ Replay(db, wal) = attempt
                      /\ \A p \in dirty : ImagesOf(wal, p) # {}
    BY <2>1, CommittedLog
  <2> QED
    BY <1>a, <2>1, <2>2, <2>3 DEF FileInv
<1>8. CASE ApplyPage
  <2>1. PICK p \in dirty : db' = [db EXCEPT ![p] = cache[p]] /\ dirty' = dirty \ {p}
    BY <1>8 DEF ApplyPage
  <2>2. /\ phase = "apply" /\ phase' = "apply"
        /\ UNCHANGED <<cache, wal, walDur, walSynced, attempt>>
    BY <1>8 DEF ApplyPage, walFile, history
  <2>3. Pending' = Pending
    BY <1>a, <1>b, <2>1, <2>2 DEF Pending, File, TypeOK
  <2>4. Clean(wal) => Replay(db', wal) = Replay(db, wal)
    <3>1. Clean(wal) => \A q \in Page : db'[q] # db[q] => ImagesOf(wal, q) # {}
      BY <1>a, <1>b, <2>1, <2>2 DEF FileInv, File
    <3> QED
      BY <3>1, ReplaySame
  <2> QED
    BY <1>a, <2>1, <2>2, <2>3, <2>4 DEF FileInv
<1>9. CASE DbSync
  <2>1. /\ phase = "apply" /\ phase' = "truncate" /\ dirty = {} /\ dbDur' = db
        /\ UNCHANGED <<cache, dirty, db, wal, walDur, walSynced, attempt>>
    BY <1>9 DEF DbSync, memory, walFile, history
  <2>2. Pending' = Pending /\ Pending = db
    BY <1>b, <2>1, PendingClean DEF Pending
  <2> QED
    BY <1>a, <2>1, <2>2 DEF FileInv
<1>10. CASE Kill \/ PowerFailure
  BY <1>10 DEF FileInv, Kill, PowerFailure, Dies
<1> QED
  BY <1>0, <1>1, <1>2, <1>3, <1>4, <1>5, <1>6, <1>7, <1>8, <1>9, <1>10
     DEF Next, RecoveryStep, CommitStep

-----------------------------------------------------------------------------
(***************************************************************************)
(* The theorems that need no assumption on the failures.                   *)
(***************************************************************************)
\* Every reachable state satisfies the inductive invariant.
THEOREM PagerInvariant == Spec => []PagerInv
<1>1. Init => PagerInv
  BY InitPager
<1>2. PagerInv /\ [Next]_vars => PagerInv'
  BY TypeStep, CacheStep, LogStep, FileStep DEF PagerInv
<1> QED
  BY <1>1, <1>2, PTL DEF Spec

\* The type invariant: file_length never exceeds MAX_PAGES, and no slot that is
\* empty is ever logged or written to the `.db`.
THEOREM TypeCorrect == Spec => []TypeOK
<1>1. PagerInv => TypeOK
  BY DEF PagerInv
<1> QED
  BY <1>1, PagerInvariant, PTL

\* Between commits a page nobody modified reads as last committed, through
\* get_page or from the file, in every history of kills and power failures.
THEOREM ReadsCommittedCorrect == Spec => []ReadsCommitted
<1>1. PagerInv => ReadsCommitted
  <2> SUFFICES ASSUME PagerInv, phase \in {"idle", "stmt", "log"}
               PROVE  /\ \A p \in Page \ dirty : Fetch(p) = Shown(acked[p])
                      /\ dirty = {} => file_length = Length(acked)
    BY DEF ReadsCommitted
  <2>1. TypeOK /\ CacheInv /\ db = acked
    BY DEF PagerInv, FileInv
  <2>2. ASSUME NEW p \in Page \ dirty PROVE Fetch(p) = Shown(db[p])
    <3>1. cache[p] \in {Absent, Shown(db[p])}
      BY <2>1 DEF CacheInv
    <3>2. p >= file_length => db[p] = NoPage
      BY <2>1, BeyondLength
    <3>3. p < file_length \/ p >= file_length
      BY <2>1, PagerAssumption DEF TypeOK, Page
    <3> QED
      BY <3>1, <3>2, <3>3 DEF Fetch, Shown
  <2>3. ASSUME dirty = {} PROVE file_length = Length(db)
    <3>1. Pending = db
      BY <2>1, <2>3, PendingClean DEF Pending, TypeOK
    <3> QED
      BY <2>1, <3>1 DEF CacheInv
  <2> QED
    BY <2>1, <2>2, <2>3
<1> QED
  BY <1>1, PagerInvariant, PTL

\* A clean log with no marker of this process has nothing to recover.
LEMMA QuietLog ==
  ASSUME NEW w \in Seq(Record), NEW b, OldQuiet(w, b), Clean(w),
         \A i \in Ours(w, b) : w[i].kind # "commit"
  PROVE  Recovered(w) = {}
<1> SUFFICES ASSUME NEW i \in Recovered(w) PROVE FALSE
  OBVIOUS
<1>1. i \in Readable(w) /\ w[i].kind = "page" /\ w[i].txn \in Committed(w)
  BY DEF Recovered
<1>2. PICK j \in Readable(w) : w[j].kind = "commit" /\ w[j].txn = w[i].txn
  BY <1>1 DEF Committed
<1>3. i \in 1 .. Len(w) /\ j \in 1 .. Len(w)
  BY <1>1, <1>2 DEF Readable
<1>4. w[i].boot = w[j].boot
  BY <1>2, <1>3 DEF Clean
<1>5. j \notin Ours(w, b) /\ i \notin Ours(w, b)
  BY <1>2, <1>3, <1>4 DEF Ours
<1> QED
  BY <1>1, <1>2, <1>5 DEF OldQuiet

\* Wal::truncate on a clean log loses nothing: whenever a live process empties
\* the log, replaying it over the durable `.db` would change nothing.
THEOREM TruncateCorrect == Spec => TruncateIsCleanup
<1> DEFINE A == phase' # "down" /\ wal' = <<>> /\ Clean(wal) => Replay(dbDur, wal) = dbDur
<1>1. PagerInv /\ [Next]_vars => [A]_vars
  <2> SUFFICES ASSUME PagerInv, Next, phase' # "down", wal' = <<>>, Clean(wal)
               PROVE  Replay(dbDur, wal) = dbDur
    OBVIOUS
  <2>0. dbDur \in File /\ wal \in Seq(Record)
    BY DEF PagerInv, TypeOK
  <2>1. CASE wal' = wal
    BY <2>0, <2>1, EmptyLog, ReplayNothing
  <2>2. CASE ReplayTruncate \/ CommitEnd
    BY <2>2 DEF ReplayTruncate, CommitEnd, PagerInv, FileInv
  <2>3. CASE Rollback
    <3>1. Recovered(wal) = {}
      BY <2>0, <2>3, QuietLog DEF Rollback, PagerInv, LogInv
    <3> QED
      BY <2>0, <3>1, ReplayNothing
  <2>4. \A r : Append(wal, r) # <<>>
    BY <2>0
  <2>5. wal' = wal \/ ReplayTruncate \/ CommitEnd \/ Rollback
    BY <2>4 DEF Next, RecoveryStep, CommitStep, Open, ReplayRecord, ReplaySync, ReadPage, WritePage,
                StmtEnd, StmtErr, Begin, CommitStart, LogPage, LogMarker, WalSync, ApplyPage,
                DbSync, Kill, PowerFailure, Dies, walFile
  <2> QED
    BY <2>1, <2>2, <2>3, <2>5
<1> QED
  BY <1>1, PagerInvariant, PTL DEF Spec, TruncateIsCleanup

-----------------------------------------------------------------------------
(***************************************************************************)
(* The proof that recovery is atomic, for any number of pages, commits and *)
(* restarts, in the histories in which the failures are all kills or all   *)
(* power failures.  (With both, recovery replays a log that no fsync has   *)
(* reached and the property fails.)                                        *)
(***************************************************************************)
\* Kills and power failures do not occur in one history.
OneKind == failures # {"kill", "power"}

(***************************************************************************)
(* What is durable, when the only failures are power failures: a `.db` or  *)
(* log that differs from its durable copy can be made good from the log.   *)
(***************************************************************************)
DurInv ==
  failures = {"power"} =>
    /\ phase \notin {"replay", "apply"} => dbDur = db
    /\ phase \in {"down", "replay", "replayTruncate"} => walDur = wal /\ walSynced = Len(wal)
    /\ phase \in {"idle", "stmt", "log", "walSync"} /\ Clean(walDur) =>
         Replay(db, walDur) = db
    /\ phase = "replay" \/ (phase = "apply" /\ Clean(wal)) =>
         \A p \in Page : db[p] # dbDur[p] => ImagesOf(wal, p) # {}

DownAtomic == phase = "down" /\ OneKind => AtomicRecovery

RecoveryInv == DurInv /\ DownAtomic

-----------------------------------------------------------------------------
\* While the process lives, replaying the log over the `.db` gives a committed
\* file, whatever failures there were before.
LEMMA LiveAtomic ==
  ASSUME PagerInv, phase # "down"
  PROVE  AtomicRecovery
<1> SUFFICES ASSUME Clean(wal) PROVE Replay(db, wal) \in {acked, attempt}
  BY DEF AtomicRecovery
<1>1. CASE phase \in {"idle", "stmt", "log"}
  <2>1. \A i \in Ours(wal, boot) : wal[i].kind # "commit"
    BY <1>1 DEF PagerInv, LogInv, ImageOfDirty
  <2>2. Recovered(wal) = {}
    BY <1>1, <2>1, QuietLog DEF PagerInv, LogInv, TypeOK
  <2> QED
    BY <1>1, <2>2, ReplayNothing DEF PagerInv, FileInv, TypeOK
<1>2. CASE phase = "walSync"
  BY <1>2, CommittedLog
<1>3. CASE phase \in {"apply", "truncate", "replay", "replayTruncate"}
  BY <1>3 DEF PagerInv, FileInv
<1> QED
  BY <1>1, <1>2, <1>3 DEF PagerInv, TypeOK

\* A torn record hides nothing that was to be recovered, and adds nothing.
LEMMA QuietTorn ==
  ASSUME NEW w \in Seq(Record), NEW r \in Record, r.kind = "torn", NEW b, OldQuiet(w, b),
         \A i \in Ours(w, b) : w[i].kind # "commit"
  PROVE  /\ OldQuiet(Append(w, r), b)
         /\ \A i \in Ours(Append(w, r), b) : Append(w, r)[i].kind # "commit"
<1> DEFINE v == Append(w, r)
<1>1. ASSUME NEW i \in 1 .. Len(v) PROVE i \in 1 .. Len(w) \/ v[i].kind = "torn"
  BY AppendLog
<1>2. ASSUME NEW i \in Readable(v) PROVE i \in Readable(w) /\ v[i] = w[i]
  <2>1. i \in 1 .. Len(v) /\ v[i].kind # "torn"
    BY DEF Readable
  <2>2. i \in 1 .. Len(w)
    BY <1>1, <2>1
  <2> QED
    BY <2>2, ReadableAppend, AppendLog
<1>3. ASSUME NEW i \in Readable(v) \ Ours(v, b) PROVE i \in Readable(w) \ Ours(w, b)
  BY <1>2, AppendLog DEF Ours, Readable
<1>4. OldQuiet(v, b)
  <2> SUFFICES ASSUME NEW i \in Readable(v) \ Ours(v, b), NEW j \in Readable(v) \ Ours(v, b),
                      v[i].kind = "page", v[j].kind = "commit"
               PROVE  v[i].txn # v[j].txn
    BY DEF OldQuiet
  <2>1. /\ i \in Readable(w) \ Ours(w, b) /\ v[i] = w[i]
        /\ j \in Readable(w) \ Ours(w, b) /\ v[j] = w[j]
    BY <1>2, <1>3
  <2> HIDE DEF v
  <2> QED
    BY <2>1 DEF OldQuiet
<1>5. ASSUME NEW i \in Ours(v, b) PROVE v[i].kind # "commit"
  BY <1>1, AppendLog DEF Ours
<1> QED
  BY <1>4, <1>5

LEMMA QuietPrefix ==
  ASSUME TypeOK, NEW n \in 0 .. Len(wal), NEW b, OldQuiet(wal, b),
         \A i \in Ours(wal, b) : i <= n => wal[i].kind # "commit"
  PROVE  /\ OldQuiet(SubSeq(wal, 1, n), b)
         /\ \A i \in Ours(SubSeq(wal, 1, n), b) : SubSeq(wal, 1, n)[i].kind # "commit"
<1> DEFINE v == SubSeq(wal, 1, n)
<1>1. v \in Seq(Record) /\ Len(v) = n /\ \A i \in 1 .. n : v[i] = wal[i]
  BY PrefixType
<1>2. n \in Nat /\ Len(wal) \in Nat /\ n <= Len(wal)
  BY DEF TypeOK
<1> HIDE DEF v
<1>3. Ours(v, b) = Ours(wal, b) \cap (1 .. n)
  BY <1>1, <1>2 DEF Ours
<1>4. Readable(v) \subseteq Readable(wal) \cap (1 .. n)
  BY <1>1, <1>2 DEF Readable
<1>5. OldQuiet(v, b)
  <2> SUFFICES ASSUME NEW i \in Readable(v) \ Ours(v, b), NEW j \in Readable(v) \ Ours(v, b),
                      v[i].kind = "page", v[j].kind = "commit"
               PROVE  v[i].txn # v[j].txn
    BY DEF OldQuiet
  <2>1. /\ i \in Readable(wal) \ Ours(wal, b) /\ v[i] = wal[i]
        /\ j \in Readable(wal) \ Ours(wal, b) /\ v[j] = wal[j]
    BY <1>1, <1>3, <1>4
  <2> QED
    BY <2>1 DEF OldQuiet
<1>6. \A i \in Ours(v, b) : v[i].kind # "commit"
  BY <1>1, <1>3
<1> QED
  BY <1>5, <1>6 DEF v

-----------------------------------------------------------------------------
LEMMA InitRecovery == Init => RecoveryInv
<1> SUFFICES ASSUME Init PROVE RecoveryInv
  OBVIOUS
<1>1. EmptyFile \in File
  BY DEF EmptyFile, File
<1>2. Replay(db, wal) = db
  BY <1>1, EmptyLog, ReplayNothing DEF Init
<1> QED
  BY <1>2 DEF Init, RecoveryInv, DurInv, DownAtomic, AtomicRecovery

LEMMA DurStep == PagerInv /\ DurInv /\ [Next]_vars => DurInv'
<1> SUFFICES ASSUME PagerInv, DurInv, [Next]_vars, failures' = {"power"}
             PROVE  DurInv'
  BY DEF DurInv
<1>f. failures = {"power"}
  BY DEF Next, RecoveryStep, CommitStep, vars, history, Open, ReplayRecord, ReplaySync,
         ReplayTruncate, ReadPage, WritePage, StmtEnd, StmtErr, Begin, Rollback, CommitStart,
         LogPage, LogMarker, WalSync, ApplyPage, DbSync, CommitEnd, Kill, PowerFailure, Dies
<1>a. db \in File /\ wal \in Seq(Record)
  BY DEF PagerInv, TypeOK
<1>0. CASE UNCHANGED vars
  BY <1>f, <1>0 DEF DurInv, vars, dbFile, walFile
<1>1. CASE Open
  <2>1. UNCHANGED <<db, dbDur, wal, walDur, walSynced>> /\ phase = "down"
    BY <1>1 DEF Open, dbFile, walFile
  <2>2. phase' = "replay" \/ (phase' = "idle" /\ Recovered(wal) = {})
    BY <1>1 DEF Open
  <2>3. Recovered(wal) = {} => Replay(db, wal) = db
    BY <1>a, ReplayNothing
  <2> QED
    BY <1>f, <2>1, <2>2, <2>3 DEF DurInv
<1>2. CASE ReplayRecord
  <2>1. PICK i \in Recovered(wal) : db' = [db EXCEPT ![wal[i].page] = wal[i].data]
    BY <1>2 DEF ReplayRecord
  <2>2. /\ phase = "replay" /\ phase' = "replay"
        /\ UNCHANGED <<dbDur, wal, walDur, walSynced>>
    BY <1>2 DEF ReplayRecord, walFile
  <2>3. i \in ImagesOf(wal, wal[i].page)
    BY DEF ImagesOf
  <2>4. \A p \in Page : db'[p] # dbDur[p] => ImagesOf(wal, p) # {}
    BY <1>a, <1>f, <2>1, <2>2, <2>3 DEF DurInv, File
  <2> QED
    BY <1>f, <2>2, <2>4 DEF DurInv
<1>3. CASE ReplaySync
  BY <1>f, <1>3 DEF DurInv, ReplaySync, walFile
<1>4. CASE ReplayTruncate
  BY <1>f, <1>4 DEF DurInv, ReplayTruncate, TruncateWal, dbFile, PagerInv, FileInv
<1>5. CASE CommitEnd
  BY <1>f, <1>5 DEF DurInv, CommitEnd, TruncateWal, dbFile, PagerInv, FileInv
<1>6. CASE (\E p \in Page : ReadPage(p)) \/ (\E p \in 0 .. MaxPages, d \in Data : WritePage(p, d))
           \/ StmtEnd \/ StmtErr \/ Begin \/ Rollback \/ CommitStart \/ LogPage \/ LogMarker
  <2>1. /\ phase \in {"idle", "stmt", "log", "walSync"}
        /\ phase' \in {"idle", "stmt", "log", "walSync"}
    BY <1>6 DEF ReadPage, WritePage, StmtEnd, StmtErr, Begin, Rollback, CommitStart, LogPage,
                LogMarker
  <2>2. UNCHANGED <<db, dbDur, walDur>>
    BY <1>6 DEF ReadPage, WritePage, StmtEnd, StmtErr, Begin, Rollback, CommitStart, LogPage,
                LogMarker, TruncateWal, dbFile, walFile
  <2> QED
    BY <1>f, <2>1, <2>2 DEF DurInv
<1>7. CASE WalSync
  BY <1>f, <1>7 DEF DurInv, WalSync, dbFile
<1>8. CASE ApplyPage
  <2>1. PICK p \in dirty : db' = [db EXCEPT ![p] = cache[p]]
    BY <1>8 DEF ApplyPage
  <2>2. phase = "apply" /\ phase' = "apply" /\ UNCHANGED <<dbDur, wal>>
    BY <1>8 DEF ApplyPage, walFile
  <2>3. Clean(wal) => \A q \in Page : db'[q] # dbDur[q] => ImagesOf(wal, q) # {}
    BY <1>a, <1>f, <2>1, <2>2 DEF DurInv, File, PagerInv, FileInv
  <2> QED
    BY <2>2, <2>3 DEF DurInv
<1>9. CASE DbSync
  BY <1>9 DEF DurInv, DbSync
<1>10. CASE Kill
  BY <1>f, <1>10 DEF Kill
<1>11. CASE PowerFailure
  BY <1>11 DEF DurInv, PowerFailure, Dies
<1> QED
  BY <1>0, <1>1, <1>2, <1>3, <1>4, <1>5, <1>6, <1>7, <1>8, <1>9, <1>10, <1>11
     DEF Next, RecoveryStep, CommitStep

\* A kill leaves the log as it is, or with a torn record after it.
LEMMA KillAtomic == PagerInv /\ Kill => AtomicRecovery'
<1> SUFFICES ASSUME PagerInv, Kill, Clean(wal') PROVE Replay(db', wal') \in {acked', attempt'}
  BY DEF AtomicRecovery
<1>1. /\ phase # "down" /\ UNCHANGED <<db, acked, attempt>>
      /\ wal' = wal \/ (phase = "log" /\ wal' = Append(wal, TornRecord(boot)))
  BY DEF Kill, Dies, dbFile, history
<1>2. CASE wal' = wal
  BY <1>1, <1>2, LiveAtomic DEF AtomicRecovery
<1>3. CASE phase = "log" /\ wal' = Append(wal, TornRecord(boot))
  <2>1. wal \in Seq(Record) /\ TornRecord(boot) \in Record /\ TornRecord(boot).kind = "torn"
    BY RecordTypes DEF PagerInv, TypeOK, TornRecord
  <2>2. OldQuiet(wal, boot) /\ \A i \in Ours(wal, boot) : wal[i].kind # "commit"
    BY <1>3 DEF PagerInv, LogInv, ImageOfDirty
  <2>3. OldQuiet(wal', boot) /\ \A i \in Ours(wal', boot) : wal'[i].kind # "commit"
    BY <1>3, <2>1, <2>2, QuietTorn
  <2>4. wal' \in Seq(Record)
    BY <1>3, <2>1, AppendLog
  <2>5. Recovered(wal') = {}
    BY <2>3, <2>4, QuietLog
  <2> QED
    BY <1>1, <1>3, <2>5, ReplayNothing DEF PagerInv, TypeOK, FileInv
<1> QED
  BY <1>1, <1>2, <1>3

\* Once the log is durable a power failure leaves it alone.
LEMMA DurableLogSurvives ==
  ASSUME TypeOK, walDur = wal, walSynced = Len(wal), NEW w \in SurvivingLogs
  PROVE  w = wal
<1>1. Len(wal) \in Nat
  BY DEF TypeOK
<1>2. SubSeq(wal, 1, Len(wal)) = wal
  BY DEF TypeOK
<1> QED
  BY <1>1, <1>2, Survivors

\* Before the marker is durable, a log that a power failure leaves is the
\* durable one, the whole one, or one with nothing to recover.
LEMMA PrefixSurvives ==
  ASSUME PagerInv, phase \in {"idle", "stmt", "log", "walSync"},
         NEW w \in SurvivingLogs, Clean(w), w # walDur, w # wal
  PROVE  Recovered(w) = {}
<1>a. /\ wal \in Seq(Record) /\ Len(wal) \in Nat /\ walSynced \in 0 .. Len(wal)
      /\ TypeOK /\ CacheInv /\ OldQuiet(wal, boot)
  BY DEF PagerInv, TypeOK, LogInv
<1>b. \A i \in Ours(wal, boot) : i < Len(wal) => wal[i].kind # "commit"
  BY DEF PagerInv, LogInv, ImageOfDirty
<1>1. ASSUME NEW n \in walSynced .. Len(wal), w = SubSeq(wal, 1, n) PROVE Recovered(w) = {}
  <2>1. n # Len(wal)
    BY <1>a, <1>1
  <2>2. n \in 0 .. Len(wal) /\ \A i \in Ours(wal, boot) : i <= n => wal[i].kind # "commit"
    BY <1>a, <1>b, <2>1 DEF Ours
  <2>3. OldQuiet(w, boot) /\ \A i \in Ours(w, boot) : w[i].kind # "commit"
    BY <1>a, <1>1, <2>2, QuietPrefix
  <2>4. w \in Seq(Record)
    BY <1>a, SurvivorType
  <2> QED
    BY <2>3, <2>4, QuietLog
<1>2. ASSUME NEW n \in walSynced .. Len(wal) - 1,
             w = Append(SubSeq(wal, 1, n), TornRecord(wal[n + 1].boot))
      PROVE  Recovered(w) = {}
  <2> DEFINE v == SubSeq(wal, 1, n)
             r == TornRecord(wal[n + 1].boot)
  <2>1. n \in 0 .. Len(wal) /\ n + 1 \in 1 .. Len(wal) /\ n < Len(wal)
    BY <1>a
  <2>2. \A i \in Ours(wal, boot) : i <= n => wal[i].kind # "commit"
    BY <1>a, <1>b, <2>1 DEF Ours
  <2>3. OldQuiet(v, boot) /\ \A i \in Ours(v, boot) : v[i].kind # "commit"
    BY <1>a, <2>1, <2>2, QuietPrefix
  <2>4. v \in Seq(Record)
    BY <1>a, <2>1, PrefixType
  <2>5. r \in Record /\ r.kind = "torn"
    <3>1. wal[n + 1] \in Record
      BY <1>a, <2>1
    <3>2. wal[n + 1].boot \in Nat
      BY <3>1 DEF Record
    <3> QED
      BY <1>a, <3>2, RecordTypes DEF TornRecord
  <2> HIDE DEF v, r
  <2>6. w = Append(v, r)
    BY <1>2 DEF v, r
  <2>7. OldQuiet(w, boot) /\ \A i \in Ours(w, boot) : w[i].kind # "commit"
    BY <2>3, <2>4, <2>5, <2>6, QuietTorn
  <2> QED
    BY <2>4, <2>5, <2>6, <2>7, AppendLog, QuietLog
<1> QED
  BY <1>a, <1>1, <1>2, Survivors

LEMMA PowerAtomic == PagerInv /\ RecoveryInv /\ OneKind /\ PowerFailure => AtomicRecovery'
<1> SUFFICES ASSUME PagerInv, RecoveryInv, OneKind, PowerFailure, Clean(wal')
             PROVE  Replay(db', wal') \in {acked', attempt'}
  BY DEF AtomicRecovery
<1>1. failures = {"power"}
  <2>1. failures \in SUBSET {"kill", "power"} /\ "power" \in failures
    BY PagerAssumption DEF PowerFailure, PagerInv, TypeOK
  <2> QED
    BY <2>1 DEF OneKind
<1>2. wal' \in SurvivingLogs /\ UNCHANGED <<acked, attempt>>
  BY DEF PowerFailure, Dies, history
<1>3. db' \in File /\ \A p \in Page : db[p] = dbDur[p] => db'[p] = db[p]
  BY DEF PowerFailure
<1>4. db \in File /\ dbDur \in File /\ wal \in Seq(Record) /\ TypeOK
  BY DEF PagerInv, TypeOK
<1>5. CASE phase \in {"down", "replay", "replayTruncate", "apply", "truncate"}
  <2>1. walDur = wal /\ walSynced = Len(wal)
    BY <1>1, <1>5 DEF RecoveryInv, DurInv, PagerInv, FileInv
  <2>2. wal' = wal
    BY <1>2, <1>4, <2>1, DurableLogSurvives
  <2>3. \A p \in Page : db'[p] # db[p] => ImagesOf(wal, p) # {}
    BY <1>1, <1>3, <1>5, <2>2 DEF RecoveryInv, DurInv
  <2>4. Replay(db', wal) = Replay(db, wal)
    BY <2>3, ReplaySame
  <2>5. AtomicRecovery
    BY LiveAtomic DEF RecoveryInv, DownAtomic
  <2> QED
    BY <1>2, <2>2, <2>4, <2>5 DEF AtomicRecovery
<1>6. CASE phase \in {"idle", "stmt", "log", "walSync"}
  <2>1. db' = db
    BY <1>1, <1>3, <1>4, <1>6 DEF RecoveryInv, DurInv, File
  <2>2. CASE wal' = walDur
    BY <1>1, <1>2, <1>6, <2>1, <2>2 DEF RecoveryInv, DurInv, PagerInv, FileInv
  <2>3. CASE wal' = wal
    BY <1>2, <1>6, <2>1, <2>3, LiveAtomic DEF AtomicRecovery
  <2>4. CASE wal' # walDur /\ wal' # wal
    <3>1. Recovered(wal') = {}
      BY <1>2, <1>6, <2>4, PrefixSurvives
    <3> QED
      BY <1>2, <1>4, <1>6, <2>1, <3>1, ReplayNothing DEF PagerInv, FileInv
  <2> QED
    BY <2>2, <2>3, <2>4
<1> QED
  BY <1>4, <1>5, <1>6 DEF TypeOK

LEMMA DownStep == PagerInv /\ RecoveryInv /\ [Next]_vars => DownAtomic'
<1> SUFFICES ASSUME PagerInv, RecoveryInv, [Next]_vars, phase' = "down", OneKind'
             PROVE  AtomicRecovery'
  BY DEF DownAtomic
<1>1. Kill \/ PowerFailure \/ UNCHANGED vars
  BY DEF Next, RecoveryStep, CommitStep, Open, ReplayRecord, ReplaySync, ReplayTruncate, ReadPage,
         WritePage, StmtEnd, StmtErr, Begin, Rollback, CommitStart, LogPage, LogMarker, WalSync,
         ApplyPage, DbSync, CommitEnd
<1>2. OneKind
  BY <1>1 DEF OneKind, Kill, PowerFailure, Dies, vars, history
<1>3. CASE UNCHANGED vars
  BY <1>2, <1>3 DEF vars, dbFile, walFile, history, RecoveryInv, DownAtomic, AtomicRecovery
<1> QED
  BY <1>1, <1>2, <1>3, KillAtomic, PowerAtomic

\* Commit and recovery are atomic: as long as kills and power failures are not
\* mixed, a clean log replayed over the `.db` gives the last committed file or
\* the one a commit was writing, after any number of commits, rollbacks,
\* failures (recovery itself included) and restarts.
THEOREM RecoveryCorrect == Spec => [](OneKind => AtomicRecovery)
<1>1. Init => RecoveryInv
  BY InitRecovery
<1>2. PagerInv /\ RecoveryInv /\ [Next]_vars => RecoveryInv'
  BY DurStep, DownStep DEF RecoveryInv
<1>3. PagerInv /\ RecoveryInv => (OneKind => AtomicRecovery)
  BY LiveAtomic DEF RecoveryInv, DownAtomic
<1> QED
  BY <1>1, <1>2, <1>3, PagerInvariant, PTL DEF Spec

-----------------------------------------------------------------------------
(***************************************************************************)
(* The proof that the pager with its log implements the durable store, for *)
(* any number of pages, transactions, failures and restarts, as long as    *)
(* kills and power failures do not occur in one history.                   *)
(***************************************************************************)
Live == {"idle", "stmt", "log", "walSync", "apply", "truncate"}

\* What readers see is the file that a commit would leave, at any moment of a
\* live process's life.
MapInv == (phase \in Live => Working = Shows(Pending)) /\ Pending \in File

-----------------------------------------------------------------------------
LEMMA WorkingIsPending == PagerInv /\ phase \in Live => Working = Shows(Pending)
<1> SUFFICES ASSUME PagerInv, phase \in Live PROVE Working = Shows(Pending)
  OBVIOUS
<1>1. TypeOK /\ CacheInv /\ FileInv
  BY DEF PagerInv
<1>2. file_length = Length(Pending)
  BY <1>1 DEF CacheInv, FileInv, Live
<1>3. ASSUME NEW p \in Page, p < file_length PROVE Fetch(p) = Shown(Pending[p])
  <2>1. CASE p \in dirty
    BY <1>1, <2>1, PagerAssumption DEF CacheInv, Fetch, Pending, Shown, Image
  <2>2. CASE p \notin dirty
    BY <1>1, <1>3, <2>2, PagerAssumption DEF CacheInv, Fetch, Pending, Shown
  <2> QED
    BY <2>1, <2>2
<1>4. Status # "down"
  BY DEF Status, Live
<1> QED
  BY <1>2, <1>3, <1>4 DEF Working, Shows

LEMMA ShowsType == ASSUME NEW f \in File PROVE Shows(f) \in File
  BY PagerAssumption DEF Shows, Shown, File, Image

LEMMA PendingType == PagerInv => Pending \in File
  BY DEF PagerInv, TypeOK, CacheInv, Pending, File

LEMMA MapCorrect == PagerInv => MapInv
  BY WorkingIsPending, PendingType DEF MapInv

LEMMA EmptyClean == Clean(<<>>)
  BY DEF Clean

\* The value an opening finds is one the store allows.
LEMMA OpeningAllowed ==
  ASSUME PagerInv, RecoveryInv, OneKind, phase = "down"
  PROVE  Shows(Replay(db, wal)) \in Store!Openings
<1>1. Replay(db, wal) \in File
  BY ReplayType DEF PagerInv, TypeOK
<1>2. Clean(wal) => Replay(db, wal) \in {acked, attempt}
  BY DEF RecoveryInv, DownAtomic, AtomicRecovery
<1> QED
  BY <1>1, <1>2, ShowsType DEF Store!Openings

-----------------------------------------------------------------------------
LEMMA InitStore == Init => Store!Init
<1> SUFFICES ASSUME Init PROVE Store!Init
  OBVIOUS
<1>1. Shows(EmptyFile) = EmptyFile
  BY PagerAssumption, LengthIs DEF Shows, EmptyFile, Page
<1>2. Status = "down" /\ Working = EmptyFile
  BY DEF Init, Status, Working
<1> QED
  BY <1>1, <1>2, EmptyClean DEF Init, Store!Init

\* Every step of the pager is a step of the store, or leaves it alone.
LEMMA StepStore ==
  ASSUME PagerInv, PagerInv', MapInv, MapInv', RecoveryInv, OneKind, [Next]_vars
  PROVE  [Store!Next]_Store!vars
<1>a. /\ phase \in Live => Working = Shows(Pending)
      /\ phase' \in Live => Working' = Shows(Pending')
      /\ Pending \in File /\ Pending' \in File
  BY DEF MapInv, Shows
<1>b. phase' \in Live => Working' \in File
  BY <1>a, ShowsType
<1>c. TypeOK /\ FileInv /\ CacheInv /\ TypeOK' /\ FileInv'
  BY DEF PagerInv
<1> SUFFICES Store!Next \/ UNCHANGED Store!vars
  OBVIOUS
<1>0. CASE UNCHANGED vars
  <2>1. UNCHANGED <<Status, Working, acked, attempt, wal>>
    BY <1>0 DEF vars, memory, dbFile, walFile, history, Status, Working, Fetch
  <2> QED
    BY <2>1 DEF Store!vars, Shows
<1>1. CASE Open
  <2>1. Shows(Replay(db, wal)) \in Store!Openings
    BY <1>1, OpeningAllowed DEF Open
  <2>2. phase = "down" /\ attempt' = Replay(db, wal) /\ UNCHANGED <<db, wal>>
    BY <1>1 DEF Open, dbFile, walFile
  <2>3. CASE Recovered(wal) = {}
    <3>1. phase' = "idle" /\ acked' = attempt' /\ dirty' = {}
      BY <1>1, <2>3 DEF Open, FreshMemory
    <3>2. Pending' = db'
      BY <1>c, <3>1, PendingClean DEF Pending, TypeOK
    <3>3. db' = acked'
      BY <1>c, <3>1 DEF FileInv
    <3>4. Working' = Shows(acked')
      BY <1>a, <3>1, <3>2, <3>3 DEF Live
    <3>5. Store!Opened
      BY <2>1, <2>2, <3>1, <3>4 DEF Store!Opened, Status, Shows
    <3> QED
      BY <3>5 DEF Store!Next
  <2>4. CASE Recovered(wal) # {}
    <3>1. phase' = "replay" /\ acked' = acked
      BY <1>1, <2>4 DEF Open
    <3>2. Store!Resolve
      BY <2>1, <2>2, <3>1 DEF Store!Resolve, Status, Working, Shows
    <3> QED
      BY <3>2 DEF Store!Next
  <2> QED
    BY <2>3, <2>4
<1>2. CASE ReplayRecord \/ ReplaySync
  <2>1. /\ phase = "replay" /\ phase' \in {"replay", "replayTruncate"}
        /\ UNCHANGED <<acked, attempt, wal>>
    BY <1>2 DEF ReplayRecord, ReplaySync, walFile, history
  <2> QED
    BY <2>1 DEF Store!vars, Status, Working, Shows
<1>3. CASE ReplayTruncate
  <2>1. /\ phase = "replayTruncate" /\ phase' = "idle" /\ wal' = <<>>
        /\ acked' = attempt /\ UNCHANGED <<db, dirty, attempt>>
    BY <1>3 DEF ReplayTruncate, TruncateWal, dbFile
  <2>2. db' = acked' /\ dirty' = {}
    BY <1>c, <2>1 DEF FileInv
  <2>3. Pending' = db'
    BY <1>c, <2>2, PendingClean DEF Pending, TypeOK
  <2>4. Working' = Shows(acked')
    BY <1>a, <2>1, <2>2, <2>3 DEF Live
  <2>5. Shows(attempt) \in Store!Openings
    BY <1>c, ShowsType DEF Store!Openings, TypeOK
  <2>6. Store!Opened
    BY <2>1, <2>4, <2>5, EmptyClean DEF Store!Opened, Status, Shows
  <2> QED
    BY <2>6 DEF Store!Next
<1>4. CASE \E p \in Page : ReadPage(p)
  <2>1. PICK p \in Page : ReadPage(p)
    BY <1>4
  <2>2. /\ phase \in {"idle", "stmt"}
        /\ UNCHANGED <<phase, dirty, db, acked, attempt, wal, file_length>>
        /\ cache[p] = Absent /\ cache' = [cache EXCEPT ![p] = Fetch(p)]
    BY <2>1 DEF ReadPage, dbFile, walFile, history
  <2>3. p \notin dirty
    BY <1>c, <2>2, PagerAssumption DEF CacheInv, Image
  <2>4. Pending' = Pending
    BY <1>c, <2>2, <2>3 DEF Pending, TypeOK
  <2>5. Working' = Working
    BY <1>a, <2>2, <2>4 DEF Live
  <2> QED
    BY <2>2, <2>5 DEF Store!vars, Status, Shows
<1>5. CASE \E p \in 0 .. MaxPages, d \in Data : WritePage(p, d)
  <2>1. /\ phase \in {"idle", "stmt"} /\ phase' = "stmt"
        /\ UNCHANGED <<acked, attempt, wal>>
    BY <1>5 DEF WritePage, walFile, history
  <2>2. Store!Write
    BY <1>b, <2>1 DEF Store!Write, Status, Shows, Live
  <2> QED
    BY <2>2 DEF Store!Next
<1>6. CASE StmtEnd \/ StmtErr \/ Begin
  <2>1. /\ phase \in {"idle", "stmt"} /\ phase' \in {"idle", "stmt"}
        /\ UNCHANGED <<cache, dirty, file_length, db, acked, attempt, wal>>
    BY <1>6 DEF StmtEnd, StmtErr, Begin, memory, dbFile, walFile, history
  <2> QED
    BY <2>1 DEF Store!vars, Status, Shows, Working, Fetch
<1>7. CASE Rollback
  <2>1. /\ phase = "idle" /\ phase' = "idle" /\ wal' = <<>> /\ dirty' = {}
        /\ UNCHANGED <<acked, attempt, db>>
    BY <1>7 DEF Rollback, TruncateWal, dbFile, history
  <2>2. Pending' = db' /\ db' = acked'
    BY <1>c, <2>1, PendingClean DEF Pending, TypeOK, FileInv
  <2>3. Working' = Shows(acked)
    BY <1>a, <2>1, <2>2 DEF Live
  <2>4. Store!Rollback
    BY <2>1, <2>3, EmptyClean DEF Store!Rollback, Status, Shows
  <2> QED
    BY <2>4 DEF Store!Next
<1>8. CASE CommitStart
  <2>1. /\ phase \in {"idle", "stmt"} /\ phase' = "log" /\ attempt' = Pending
        /\ UNCHANGED <<cache, dirty, file_length, db, acked, wal>>
    BY <1>8 DEF CommitStart, memory, dbFile, walFile
  <2>2. Working' = Working
    BY <2>1 DEF Working, Fetch, Status
  <2>3. Store!CommitStart
    BY <1>a, <2>1, <2>2 DEF Store!CommitStart, Status, Shows, Live
  <2> QED
    BY <2>3 DEF Store!Next
<1>9. CASE LogPage \/ LogMarker \/ WalSync \/ DbSync
  <2>1. /\ phase \in {"log", "walSync", "apply"} /\ phase' \in {"log", "walSync", "apply", "truncate"}
        /\ UNCHANGED <<cache, dirty, file_length, db, acked, attempt>>
    BY <1>9 DEF LogPage, LogMarker, WalSync, DbSync, memory, dbFile, history
  <2>2. Working' = Working
    BY <2>1 DEF Working, Fetch, Status
  <2>3. Clean(wal') \in BOOLEAN
    BY DEF Clean
  <2>4. Store!Prepare
    BY <2>1, <2>2, <2>3 DEF Store!Prepare, Status, Shows
  <2> QED
    BY <2>4 DEF Store!Next
<1>10. CASE ApplyPage
  <2>1. PICK p \in dirty : db' = [db EXCEPT ![p] = cache[p]] /\ dirty' = dirty \ {p}
    BY <1>10 DEF ApplyPage
  <2>2. /\ phase = "apply" /\ phase' = "apply"
        /\ UNCHANGED <<cache, acked, attempt, wal>>
    BY <1>10 DEF ApplyPage, walFile, history
  <2>3. Pending' = Pending
    BY <1>c, <2>1, <2>2 DEF Pending, TypeOK, File
  <2>4. Working' = Working
    BY <1>a, <2>2, <2>3 DEF Live
  <2> QED
    BY <2>2, <2>4 DEF Store!vars, Status, Shows
<1>11. CASE CommitEnd
  <2>1. /\ phase = "truncate" /\ phase' = "idle" /\ wal' = <<>> /\ acked' = attempt
        /\ UNCHANGED <<cache, dirty, file_length, db, attempt>>
    BY <1>11 DEF CommitEnd, TruncateWal, dbFile
  <2>2. Working' = Working
    BY <2>1 DEF Working, Fetch, Status
  <2>3. Store!Committed
    BY <2>1, <2>2, EmptyClean DEF Store!Committed, Status, Shows
  <2> QED
    BY <2>3 DEF Store!Next
<1>12. CASE Kill \/ PowerFailure
  <2>1. phase' = "down" /\ UNCHANGED <<acked, attempt>>
    BY <1>12 DEF Kill, PowerFailure, Dies, history
  <2>2. Clean(wal') \in BOOLEAN
    BY DEF Clean
  <2>3. Store!Crash
    BY <2>1, <2>2 DEF Store!Crash, Status, Working, Shows
  <2> QED
    BY <2>3 DEF Store!Next
<1> QED
  BY <1>0, <1>1, <1>2, <1>3, <1>4, <1>5, <1>6, <1>7, <1>8, <1>9, <1>10, <1>11, <1>12
     DEF Next, RecoveryStep, CommitStep

\* The pager implements the durable store: commit, rollback and recovery, seen
\* through the page cache, are the atomic operations that the session layer
\* takes them for, in every history whose failures are of one kind.
THEOREM StoreImplemented == Spec /\ []OneKind => ImplementsStore
<1>1. PagerInv /\ RecoveryInv /\ [Next]_vars => RecoveryInv'
  BY DurStep, DownStep DEF RecoveryInv
<1>2. PagerInv /\ PagerInv' /\ MapInv /\ MapInv' /\ RecoveryInv /\ OneKind /\ [Next]_vars
        => [Store!Next]_Store!vars
  BY StepStore
<1> QED
  BY <1>1, <1>2, InitStore, InitRecovery, MapCorrect, PagerInvariant, PTL
     DEF Spec, ImplementsStore, Store!Spec
=============================================================================
