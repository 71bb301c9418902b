------------------------------- MODULE BTree -------------------------------
(***************************************************************************)
(* The B+Tree of btree.rs: insertion with its descent, leaf split and the  *)
(* promotion of separators up the path, one step per round of each loop,   *)
(* and the scan of the leaf chain.  An insert that cannot allocate a page  *)
(* returns an error where it stands; the pages it has changed stay.        *)
(*                                                                         *)
(* A leaf is the sequence of its cells in slot order with its next_leaf    *)
(* pointer; an internal node is its keys and children, right_child last.   *)
(* A cell is its key and its cost in the page (slot, key and row).         *)
(***************************************************************************)
EXTENDS Integers, Sequences, SequencesExt, FiniteSetsExt

CONSTANTS
  Keys,         \* values of the key column
  Costs,        \* costs of a cell: SLOT_SIZE + KEY_SIZE + the row's length
  Capacity,     \* PAGE_SIZE - LEAF_HEADER_SIZE
  MaxKeys,      \* internal_max_keys()
  PageLimits,   \* values of MAX_PAGES to consider
  UniqueKeys,   \* whether callers never insert a key twice
  MaxInserts    \* bound on the number of inserts

ASSUME BTreeAssumption ==
  /\ Keys \subseteq Int
  /\ Capacity \in Nat
  /\ Costs \subseteq Nat \ {0}
  /\ \A c \in Costs : 2 * c <= Capacity   \* Storage::insert: max_row_data_size
  /\ MaxKeys \in Nat /\ MaxKeys >= 2
  /\ PageLimits \subseteq Nat \ {0, 1}
  /\ MaxInserts \in Nat

VARIABLES
  pc,            \* where the insert under way is
  pages,         \* the nodes, from page 1 on; page 0 holds the metadata
  root_page,     \* TableStore.root_page
  limit,         \* MAX_PAGES
  cell,          \* the cell to insert
  cur, path,     \* the descent: the current page and its ancestors
  promote_key, promote_child,
  inserts,       \* how many inserts have been called
  acked,         \* history: the cells whose INSERT succeeded
  failed         \* history: the cells whose INSERT returned an error

insertion == <<cell, cur, path, promote_key, promote_child, inserts>>
vars == <<pc, pages, root_page, limit, insertion, acked, failed>>

Leaf(cells, next) == [type |-> "leaf", cells |-> cells, next |-> next]
Internal(keys, kids) == [type |-> "internal", keys |-> keys, kids |-> kids]
IsLeaf(p) == pages[p].type = "leaf"

-----------------------------------------------------------------------------
\* The first index whose key is not below k, which every search loop computes.
Position(keys, k) ==
  Min({i \in 1 .. Len(keys) : keys[i] >= k} \cup {Len(keys) + 1})

KeysOf(cells) == [i \in 1 .. Len(cells) |-> cells[i].key]
WithCell(cells, c) == InsertAt(cells, Position(KeysOf(cells), c.key), c)

\* Bytes used by the first n cells.
Used(cells, n) == MapThenSumSet(LAMBDA i : cells[i].cost, 1 .. n)

leaf_free_space(p) == Capacity - Used(pages[p].cells, Len(pages[p].cells))

\* How many cells stay in the left half: as many as fit in half of the bytes,
\* at least one on each side.
LeftCount(cells) ==
  LET n == Len(cells)
      half == Used(cells, n) \div 2
  IN  Min({Max({1} \cup {m \in 1 .. n : Used(cells, m) <= half}), n - 1})

\* Mutation of WithChild: the new child goes to the left of its separator.
WithChildLeft(node, key, child) ==
  LET pos == Position(node.keys, key)
  IN  Internal(InsertAt(node.keys, pos, key), InsertAt(node.kids, pos, child))

\* The new separator goes where its key belongs, the new child to its right.
WithChild(node, key, child) ==
  LET pos == Position(node.keys, key)
  IN  Internal(InsertAt(node.keys, pos, key), InsertAt(node.kids, pos + 1, child))

\* Mutation of AllocationFails: `idx > MAX_PAGES` instead of `idx >= MAX_PAGES`.
AllocationFailsLate == Len(pages) + 1 > limit

AllocationFails == Len(pages) + 1 >= limit

-----------------------------------------------------------------------------
NoCell == [key |-> 0, cost |-> 0]

Init ==
  /\ pc = "idle"
  /\ pages = <<Leaf(<<>>, 0)>> /\ root_page = 1
  /\ limit \in PageLimits
  /\ cell = NoCell
  /\ cur = 0 /\ path = <<>> /\ promote_key = 0 /\ promote_child = 0
  /\ inserts = 0 /\ acked = {} /\ failed = {}

\* insert is called for a new row.
Insert(k, c) ==
  /\ pc = "idle" /\ inserts < MaxInserts
  /\ UniqueKeys => \A x \in acked \cup failed : x.key # k
  /\ cell' = [key |-> k, cost |-> c] /\ inserts' = inserts + 1
  /\ cur' = root_page
  /\ pc' = "descend"
  /\ UNCHANGED <<pages, root_page, limit, path, promote_key, promote_child, acked, failed>>

Descend ==
  /\ pc = "descend" /\ ~IsLeaf(cur)
  /\ cur' = pages[cur].kids[Position(pages[cur].keys, cell.key)]
  /\ path' = Append(path, cur)
  /\ UNCHANGED <<pc, pages, root_page, limit, cell, promote_key, promote_child,
                 inserts, acked, failed>>

\* insert returns, with success or with an error, and its locals are gone.
Return ==
  /\ pc' = "idle"
  /\ cell' = NoCell /\ cur' = 0 /\ path' = <<>> /\ promote_key' = 0 /\ promote_child' = 0
  /\ UNCHANGED inserts
Succeed == Return /\ acked' = acked \cup {cell} /\ UNCHANGED failed
Fail == Return /\ failed' = failed \cup {cell} /\ UNCHANGED acked

InsertIntoLeaf ==
  /\ pc = "descend" /\ IsLeaf(cur)
  /\ leaf_free_space(cur) >= cell.cost
  /\ pages' = [pages EXCEPT ![cur].cells = WithCell(@, cell)]
  /\ Succeed
  /\ UNCHANGED <<root_page, limit>>

NoRoom == pc = "descend" /\ IsLeaf(cur) /\ leaf_free_space(cur) < cell.cost

\* Mutation of SplitLeaf: the old leaf's next_leaf is not inherited.
SplitLeafDropsNext ==
  LET cells == WithCell(pages[cur].cells, cell)
      n == LeftCount(cells)
      left == SubSeq(cells, 1, n)
      right == SubSeq(cells, n + 1, Len(cells))
      new == Len(pages) + 1
  IN
  /\ NoRoom /\ ~AllocationFails
  /\ Used(right, Len(right)) <= Capacity
  /\ pages' = Append([pages EXCEPT ![cur] = Leaf(left, new)], Leaf(right, 0))
  /\ promote_key' = right[1].key /\ promote_child' = new
  /\ pc' = "promote"
  /\ UNCHANGED <<root_page, limit, cell, cur, path, inserts, acked, failed>>

\* Mutation of SplitLeaf: the separator is taken from the wrong half.
SplitLeafPromotesLeft ==
  LET cells == WithCell(pages[cur].cells, cell)
      n == LeftCount(cells)
      left == SubSeq(cells, 1, n)
      right == SubSeq(cells, n + 1, Len(cells))
      new == Len(pages) + 1
  IN
  /\ NoRoom /\ ~AllocationFails
  /\ Used(right, Len(right)) <= Capacity
  /\ pages' = Append([pages EXCEPT ![cur] = Leaf(left, new)], Leaf(right, pages[cur].next))
  /\ promote_key' = left[1].key /\ promote_child' = new
  /\ pc' = "promote"
  /\ UNCHANGED <<root_page, limit, cell, cur, path, inserts, acked, failed>>

SplitLeaf ==
  LET cells == WithCell(pages[cur].cells, cell)
      n == LeftCount(cells)
      left == SubSeq(cells, 1, n)
      right == SubSeq(cells, n + 1, Len(cells))
      new == Len(pages) + 1
  IN
  /\ NoRoom /\ ~AllocationFails
  /\ Used(right, Len(right)) <= Capacity
  /\ pages' = Append([pages EXCEPT ![cur] = Leaf(left, new)], Leaf(right, pages[cur].next))
  /\ promote_key' = right[1].key /\ promote_child' = new
  /\ pc' = "promote"
  /\ UNCHANGED <<root_page, limit, cell, cur, path, inserts, acked, failed>>

\* The right half does not fit in a page: write_leaf_cells runs into the slots
\* or below the start of the page, and the thread garbles the page or panics.
\* Nothing is said of what happens after that.
SplitLeafOverflow ==
  LET cells == WithCell(pages[cur].cells, cell)
      n == LeftCount(cells)
  IN
  /\ NoRoom /\ ~AllocationFails
  /\ Used(cells, Len(cells)) - Used(cells, n) > Capacity
  /\ pc' = "broken"
  /\ UNCHANGED <<pages, root_page, limit, insertion, acked, failed>>

\* allocate_page fails before anything is written.
SplitLeafErr ==
  /\ NoRoom /\ AllocationFails
  /\ Fail
  /\ UNCHANGED <<pages, root_page, limit>>

-----------------------------------------------------------------------------
(***************************************************************************)
(* The promotion loop: a separator for the new right sibling enters the    *)
(* parent, which is split in turn when it is full.                         *)
(***************************************************************************)
Parent == Last(path)

InsertIntoInternal ==
  /\ pc = "promote" /\ path # <<>>
  /\ Len(pages[Parent].keys) < MaxKeys
  /\ pages' = [pages EXCEPT ![Parent] = WithChild(@, promote_key, promote_child)]
  /\ Succeed
  /\ UNCHANGED <<root_page, limit>>

ParentFull == pc = "promote" /\ path # <<>> /\ Len(pages[Parent].keys) = MaxKeys

\* The two halves of a full node with one more child; the key at Middle goes up.
Middle == (MaxKeys + 1) \div 2 + 1
Combined == WithChild(pages[Parent], promote_key, promote_child)
LeftHalf == Internal(SubSeq(Combined.keys, 1, Middle - 1), SubSeq(Combined.kids, 1, Middle))
RightHalf == Internal(SubSeq(Combined.keys, Middle + 1, MaxKeys + 1),
                      SubSeq(Combined.kids, Middle + 1, MaxKeys + 2))

SplitInternal ==
  /\ ParentFull /\ ~AllocationFails
  /\ pages' = Append([pages EXCEPT ![Parent] = LeftHalf], RightHalf)
  /\ promote_key' = Combined.keys[Middle] /\ promote_child' = Len(pages) + 1
  /\ path' = Front(path)
  /\ UNCHANGED <<pc, root_page, limit, cell, cur, inserts, acked, failed>>

\* The left half is in place when allocate_page fails.
SplitInternalErr ==
  /\ ParentFull /\ AllocationFails
  /\ pages' = [pages EXCEPT ![Parent] = LeftHalf]
  /\ Fail
  /\ UNCHANGED <<root_page, limit>>

NewRoot ==
  /\ pc = "promote" /\ path = <<>> /\ ~AllocationFails
  /\ pages' = Append(pages, Internal(<<promote_key>>, <<root_page, promote_child>>))
  /\ root_page' = Len(pages) + 1
  /\ Succeed
  /\ UNCHANGED limit

NewRootErr ==
  /\ pc = "promote" /\ path = <<>> /\ AllocationFails
  /\ Fail
  /\ UNCHANGED <<pages, root_page, limit>>

-----------------------------------------------------------------------------
Step ==
  \/ Descend \/ InsertIntoLeaf
  \/ SplitLeaf \/ SplitLeafOverflow \/ SplitLeafErr
  \/ InsertIntoInternal \/ SplitInternal \/ SplitInternalErr
  \/ NewRoot \/ NewRootErr

Next == (\E k \in Keys, c \in Costs : Insert(k, c)) \/ Step

Spec == Init /\ [][Next]_vars

-----------------------------------------------------------------------------
(***************************************************************************)
(* scan_all: down the first children to the leftmost leaf, then along the  *)
(* next_leaf pointers.  Both walks are cut off after as many steps as      *)
(* there are pages.                                                        *)
(***************************************************************************)
LeftmostLeaf ==
  LET down[n \in 0 .. Len(pages)] ==
        IF n = 0 THEN root_page
        ELSE LET p == down[n - 1] IN IF IsLeaf(p) THEN p ELSE pages[p].kids[1]
  IN  down[Len(pages)]

Chain ==
  LET walk[n \in 0 .. Len(pages)] ==
        IF n = 0 THEN <<LeftmostLeaf>>
        ELSE LET seen == walk[n - 1]
                 next == pages[Last(seen)].next
             IN  IF next = 0 THEN seen ELSE Append(seen, next)
  IN  walk[Len(pages)]

scan_all ==
  LET chain == Chain IN FlattenSeq([i \in 1 .. Len(chain) |-> pages[chain[i]].cells])

\* The leaves in the order of the tree, as dump_tree visits them.
TreeOrder ==
  LET leaves[n \in 0 .. Len(pages)] ==
        LET below == leaves[n - 1] IN
        [p \in 1 .. Len(pages) |->
           IF n = 0 \/ IsLeaf(p) THEN <<p>>
           ELSE FlattenSeq([i \in 1 .. Len(pages[p].kids) |-> below[pages[p].kids[i]]])]
  IN  leaves[Len(pages)][root_page]

-----------------------------------------------------------------------------
Cell == [key : Keys, cost : Costs]

TypeOK ==
  /\ pc \in {"idle", "descend", "promote", "broken"}
  /\ root_page \in 1 .. Len(pages) /\ Len(pages) < limit
  /\ \A p \in 1 .. Len(pages) :
       \/ IsLeaf(p) /\ pages[p].next \in 0 .. Len(pages)
            /\ ToSet(pages[p].cells) \subseteq Cell
       \/ ~IsLeaf(p) /\ ToSet(pages[p].keys) \subseteq Keys
            /\ ToSet(pages[p].kids) \subseteq 1 .. Len(pages)
            /\ Len(pages[p].kids) = Len(pages[p].keys) + 1
  /\ acked \subseteq Cell /\ failed \subseteq Cell
  /\ UniqueKeys => acked \cap failed = {}

\* Between inserts a scan returns every acknowledged row, each exactly once,
\* and besides them at most rows whose INSERT failed: no split and no error
\* half-way loses or repeats a row.
NothingLost ==
  pc = "idle" =>
    LET rows == scan_all IN
    /\ acked \subseteq ToSet(rows)
    /\ ToSet(rows) \subseteq acked \cup failed
    /\ Cardinality(ToSet(rows)) = Len(rows)

\* "Scan all rows in key order" (scan_all).
ScanInKeyOrder ==
  pc = "idle" =>
    LET rows == scan_all IN
    \A i, j \in 1 .. Len(rows) : i < j => rows[i].key <= rows[j].key

\* The same, as long as no INSERT has failed.
ScanInKeyOrderUntilFull == failed = {} => ScanInKeyOrder

\* The tree above the leaves agrees with the chain of the leaves: the descent
\* of the next insert and the scan see the leaves in one and the same order.
TreeMatchesChain == pc = "idle" /\ failed = {} => TreeOrder = Chain

\* "This guarantees every leaf can hold at least 2 cells, which is required for
\* B+Tree splits to work" (PROGRESS.md, of the row size limit): a split works.
SplitsWork == pc # "broken"
=============================================================================
