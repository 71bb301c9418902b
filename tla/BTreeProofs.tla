---------------------------- MODULE BTreeProofs ----------------------------
(***************************************************************************)
(* Proofs about BTree, for any keys, cell costs, page capacity, number of  *)
(* keys in an internal node and page limit: insert keeps the tree well     *)
(* formed, and a scan loses and repeats no row.                            *)
(***************************************************************************)
EXTENDS BTree, SequenceLemmas

\* The search loops: the keys before the position are below k, the others not.
LEMMA PositionProperties ==
  ASSUME NEW keys \in Seq(Int), NEW k \in Int
  PROVE  /\ Position(keys, k) \in 1 .. Len(keys) + 1
         /\ \A i \in 1 .. Position(keys, k) - 1 : keys[i] < k
         /\ Position(keys, k) <= Len(keys) => keys[Position(keys, k)] >= k
<1> DEFINE S == {i \in 1 .. Len(keys) : keys[i] >= k} \cup {Len(keys) + 1}
<1>1. Min(S) \in S /\ \A y \in S : Min(S) <= y
  <2>1. S \subseteq Nat /\ S # {}  OBVIOUS
  <2> HIDE DEF S
  <2> QED  BY <2>1, MinProperties, Zenon
<1>2. Position(keys, k) = Min(S)
  BY DEF Position
<1> DEFINE q == Position(keys, k)
<1>3. q \in S /\ \A y \in S : q <= y
  BY <1>1, <1>2
<1> HIDE DEF q
<1>4. q \in 1 .. Len(keys) + 1 /\ (q <= Len(keys) => keys[q] >= k)
  BY <1>3
<1>5. \A i \in 1 .. q - 1 : keys[i] \in Int /\ i \in 1 .. Len(keys) /\ ~ (keys[i] >= k)
  BY <1>3, <1>4
<1> QED  BY <1>4, <1>5 DEF q

\* No cell takes no bytes.
LEMMA UsedEmpty == ASSUME NEW s PROVE Used(s, 0) = 0
<1>1. 1 .. 0 = {}
  OBVIOUS
<1> QED  BY <1>1 DEF Used, MapThenSumSet, MapThenFoldSet

\* A split leaves a cell on either side.
LEMMA LeftCountRange ==
  ASSUME NEW s, Len(s) \in Nat, Len(s) >= 2
  PROVE  LeftCount(s) \in 1 .. Len(s) - 1
<1> DEFINE n == Len(s)
           half == Used(s, n) \div 2
           few(m) == Used(s, m) <= half
           S == {1} \cup {m \in 1 .. n : few(m)}
<1>1. S \subseteq 0 .. n /\ S # {} /\ \A x \in S : x >= 1
  <2> HIDE DEF few
  <2> QED  OBVIOUS
<1>2. Max(S) \in S
  <2> HIDE DEF S
  <2> QED BY <1>1, MaxProperties
<1> DEFINE T == {Max(S), n - 1}
<1>3. T \subseteq 1 .. n /\ n - 1 \in T
  <2> DEFINE x == Max(S)
  <2>1. x \in S
    BY <1>2
  <2>2. x \in 1 .. n
    <3> HIDE DEF S, x
    <3> QED  BY <1>1, <2>1
  <2>3. T = {x, n - 1}
    OBVIOUS
  <2> HIDE DEF x, T
  <2> QED  BY <2>2, <2>3
<1>4. Min(T) \in T /\ Min(T) <= n - 1
  <2> HIDE DEF T
  <2>1. T \subseteq Nat /\ T # {}
    BY <1>3
  <2> QED  BY <1>3, <2>1, MinProperties
<1>5. LeftCount(s) = Min(T)
  BY Zenon DEF LeftCount
<1> DEFINE y == LeftCount(s)
<1>6. y \in T /\ y <= n - 1
  BY <1>4, <1>5
<1>7. y \in 1 .. n - 1
  <2> HIDE DEF y, T
  <2> QED  BY <1>3, <1>6
<1> QED  BY <1>7

-----------------------------------------------------------------------------
(***************************************************************************)
(* The shape of the tree, and the first half of the inductive invariant.   *)
(***************************************************************************)
\* The pages of the tree, and the nodes they hold.
Page == 1 .. Len(pages)

LeafNode == [type : {"leaf"}, cells : Seq(Cell), next : Nat]
InternalNode == [type : {"internal"}, keys : Seq(Keys), kids : Seq(Nat)]

\* A leaf's next_leaf names a page or none; an internal node has a child more than
\* keys, and its first child is the older page: splits move to the right.
NodeOK(p) ==
  /\ IsLeaf(p) => pages[p].next \in 0 .. Len(pages)
  /\ ~IsLeaf(p) =>
       /\ Len(pages[p].keys) \in 1 .. MaxKeys
       /\ Len(pages[p].kids) = Len(pages[p].keys) + 1
       /\ \A i \in 1 .. Len(pages[p].kids) : pages[p].kids[i] \in Page
       /\ pages[p].kids[1] < p

PagesOK ==
  /\ pages \in Seq(LeafNode \cup InternalNode)
  /\ \A p \in Page : NodeOK(p)

\* The locals of the insert under way; the path holds internal nodes.
InsertOK ==
  /\ pc \in {"idle", "descend", "promote", "broken"}
  /\ root_page \in Page
  /\ limit \in Nat /\ Len(pages) < limit
  /\ path \in Seq(Page) /\ \A i \in 1 .. Len(path) : ~IsLeaf(path[i])
  /\ pc = "idle" => path = <<>>
  /\ pc = "descend" => cur \in Page
  /\ pc = "promote" => promote_key \in Keys /\ promote_child \in Page

\* The cell under way is new, and no cell has both succeeded and failed.
HistoryOK ==
  /\ acked \subseteq Cell /\ failed \subseteq Cell
  /\ pc # "idle" => cell \in Cell
  /\ UniqueKeys =>
       /\ acked \cap failed = {}
       /\ pc # "idle" => \A x \in acked \cup failed : x.key # cell.key

ShapeInv == PagesOK /\ InsertOK /\ HistoryOK

\* What a leaf and an internal node consist of.
LEMMA LeafFields ==
  ASSUME PagesOK, NEW p \in Page, IsLeaf(p)
  PROVE  pages[p] \in LeafNode /\ pages[p].cells \in Seq(Cell) /\ pages[p].next \in 0 .. Len(pages)
<1>1. pages[p] \in LeafNode \cup InternalNode
  BY DEF PagesOK, Page
<1>2. pages[p] \in LeafNode
  BY <1>1 DEF IsLeaf, LeafNode, InternalNode
<1> QED  BY <1>2 DEF PagesOK, NodeOK, LeafNode

LEMMA InternalFields ==
  ASSUME PagesOK, NEW p \in Page, ~IsLeaf(p)
  PROVE  /\ pages[p] \in InternalNode
         /\ pages[p].keys \in Seq(Keys) /\ pages[p].kids \in Seq(Page)
         /\ pages[p].keys \in Seq(Int)
         /\ Len(pages[p].keys) \in 1 .. MaxKeys
         /\ Len(pages[p].kids) = Len(pages[p].keys) + 1
         /\ pages[p].kids[1] < p
<1>1. pages[p] \in LeafNode \cup InternalNode
  BY DEF PagesOK, Page
<1>2. pages[p] \in InternalNode
  BY <1>1 DEF IsLeaf, LeafNode, InternalNode
<1>3. pages[p].keys \in Seq(Keys) /\ pages[p].kids \in Seq(Nat)
  BY <1>2 DEF InternalNode
<1>4. NodeOK(p)
  BY DEF PagesOK
<1>5. pages[p].kids \in Seq(Page)
  <2> DEFINE s == pages[p].kids
  <2>1. s \in Seq(Nat) /\ \A i \in 1 .. Len(s) : s[i] \in Page
    BY <1>3, <1>4 DEF NodeOK
  <2> HIDE DEF s
  <2>2. s \in Seq(Page)  BY <2>1
  <2> QED  BY <2>2 DEF s
<1>6. pages[p].keys \in Seq(Int)
  BY <1>3, BTreeAssumption, SeqMonotonic
<1> QED  BY <1>2, <1>3, <1>4, <1>5, <1>6 DEF NodeOK

LEMMA InitShape == Init => ShapeInv
<1> SUFFICES ASSUME Init PROVE ShapeInv  OBVIOUS
<1>1. pages \in Seq(LeafNode) /\ Len(pages) = 1 /\ pages[1] = Leaf(<<>>, 0)
  <2>1. Leaf(<<>>, 0) \in LeafNode
    BY DEF Leaf, LeafNode
  <2> DEFINE x == Leaf(<<>>, 0)
  <2> HIDE DEF x
  <2>2. <<x>> \in Seq(LeafNode) /\ Len(<<x>>) = 1 /\ <<x>>[1] = x
    BY <2>1 DEF x
  <2> QED  BY <2>2 DEF Init, x
<1>2. PagesOK
  <2>1. pages \in Seq(LeafNode \cup InternalNode)
    BY <1>1, SeqMonotonic
  <2>2. \A p \in Page : p = 1
    BY <1>1 DEF Page
  <2>3. NodeOK(1)
    BY <1>1 DEF NodeOK, IsLeaf, Leaf
  <2> QED  BY <2>1, <2>2, <2>3 DEF PagesOK
<1>3. InsertOK
  BY <1>1, BTreeAssumption DEF Init, InsertOK, Page
<1>4. HistoryOK
  BY DEF Init, HistoryOK
<1> QED  BY <1>2, <1>3, <1>4 DEF ShapeInv

\* t is the leaf s with c put in at position q, which is where its key belongs.
CellAdded(t, s, c, q) ==
  /\ q \in 1 .. Len(s) + 1
  /\ InsertedAt(t, s, q, c)
  /\ \A j \in 1 .. q - 1 : s[j].key < c.key
  /\ q <= Len(s) => s[q].key >= c.key

\* A cell added where its key belongs.
LEMMA WithCellProperties ==
  ASSUME NEW s \in Seq(Cell), NEW c \in Cell
  PROVE  /\ WithCell(s, c) \in Seq(Cell) /\ Len(WithCell(s, c)) = Len(s) + 1
         /\ \E q \in 1 .. Len(s) + 1 : CellAdded(WithCell(s, c), s, c, q)
<1> DEFINE keys == KeysOf(s)
           q == Position(keys, c.key)
<1>1. \A x \in Cell : x.key \in Int
  BY BTreeAssumption DEF Cell
<1>2. \A i \in 1 .. Len(s) : s[i].key \in Int
  BY <1>1
<1>3. keys \in Seq(Int) /\ Len(keys) = Len(s) /\ \A i \in 1 .. Len(s) : keys[i] = s[i].key
  BY <1>2 DEF KeysOf
<1> HIDE DEF keys
<1>4. /\ q \in 1 .. Len(s) + 1
      /\ \A i \in 1 .. q - 1 : keys[i] < c.key
      /\ q <= Len(s) => keys[q] >= c.key
  BY <1>1, <1>3, PositionProperties
<1>5. WithCell(s, c) = InsertAt(s, q, c)
  BY DEF WithCell, keys
<1> HIDE DEF q
<1>6. WithCell(s, c) \in Seq(Cell) /\ InsertedAt(WithCell(s, c), s, q, c)
  BY <1>4, <1>5, InsertAtProperties
<1>7. \A j \in 1 .. q - 1 : s[j].key < c.key
  BY <1>3, <1>4
<1>8. q <= Len(s) => s[q].key >= c.key
  BY <1>3, <1>4
<1>9. Len(WithCell(s, c)) = Len(s) + 1
  BY <1>6 DEF InsertedAt
<1>10. CellAdded(WithCell(s, c), s, c, q)
  BY <1>4, <1>6, <1>7, <1>8 DEF CellAdded
<1> QED  BY <1>4, <1>6, <1>9, <1>10

\* keys and kids are those of the node, with separator k at q and child c after it.
ChildAdded(keys, kids, node, k, c, q) ==
  /\ q \in 1 .. Len(node.keys) + 1
  /\ InsertedAt(keys, node.keys, q, k)
  /\ InsertedAt(kids, node.kids, q + 1, c)
  /\ \A j \in 1 .. q - 1 : node.keys[j] < k
  /\ q <= Len(node.keys) => node.keys[q] >= k

\* A separator and a child added to an internal node.
LEMMA WithChildProperties ==
  ASSUME NEW node, node.keys \in Seq(Keys), NEW S, node.kids \in Seq(S),
         Len(node.kids) = Len(node.keys) + 1, NEW k \in Keys, NEW c \in S
  PROVE  \E keys \in Seq(Keys), kids \in Seq(S), q \in 1 .. Len(node.keys) + 1 :
           /\ WithChild(node, k, c) = Internal(keys, kids)
           /\ ChildAdded(keys, kids, node, k, c, q)
<1> DEFINE s == node.keys
           t == node.kids
           q == Position(s, k)
           r == q + 1
           keys == InsertAt(s, q, k)
           kids == InsertAt(t, r, c)
<1>1. s \in Seq(Int) /\ k \in Int
  BY BTreeAssumption, SeqMonotonic
<1>2. s \in Seq(Keys) /\ t \in Seq(S) /\ Len(t) = Len(s) + 1
  OBVIOUS
<1>3. WithChild(node, k, c) = Internal(keys, kids)
  BY DEF WithChild
<1> HIDE DEF s, t
<1>4. /\ q \in 1 .. Len(s) + 1
      /\ \A i \in 1 .. q - 1 : s[i] < k
      /\ q <= Len(s) => s[q] >= k
  BY <1>1, PositionProperties
<1> HIDE DEF q
<1>5. keys \in Seq(Keys) /\ InsertedAt(keys, s, q, k)
  BY <1>2, <1>4, InsertAtProperties
<1>6. r \in 1 .. Len(t) + 1
  BY <1>2, <1>4
<1>7. kids \in Seq(S) /\ InsertedAt(kids, t, r, c)
  <2> HIDE DEF r
  <2> QED  BY <1>2, <1>6, InsertAtProperties
<1> HIDE DEF keys, kids
<1>8. ChildAdded(keys, kids, node, k, c, q)
  BY <1>4, <1>5, <1>7 DEF ChildAdded, s, t
<1> QED  BY <1>3, <1>4, <1>5, <1>7, <1>8 DEF s

\* An internal split leaves a key on either side and one to promote.
LEMMA MiddleRange ==
  /\ Middle \in 2 .. MaxKeys
  /\ MaxKeys + 1 - Middle >= 1
  /\ Middle - 1 >= 1
BY BTreeAssumption DEF Middle

\* A half of a sequence.
LEMMA HalfProperties ==
  ASSUME NEW S, NEW s \in Seq(S), NEW m \in 1 .. Len(s), NEW n \in m - 1 .. Len(s)
  PROVE  /\ SubSeq(s, m, n) \in Seq(S) /\ Len(SubSeq(s, m, n)) = n - m + 1
         /\ \A i \in 1 .. n - m + 1 : SubSeq(s, m, n)[i] = s[m + i - 1]
<1>1. \A i \in m .. n : s[i] \in S
  OBVIOUS
<1> QED  BY <1>1, SubSeqProperties

-----------------------------------------------------------------------------
(***************************************************************************)
(* Adding a cell and a child, and what each action does to the pages.      *)
(***************************************************************************)
Node == LeafNode \cup InternalNode

LEMMA LeafType ==
  ASSUME NEW s \in Seq(Cell), NEW n \in Nat
  PROVE  /\ Leaf(s, n) \in Node
         /\ Leaf(s, n).type = "leaf" /\ Leaf(s, n).cells = s /\ Leaf(s, n).next = n
BY DEF Leaf, Node, LeafNode

LEMMA InternalType ==
  ASSUME NEW s \in Seq(Keys), NEW t \in Seq(Page), Len(pages) \in Nat
  PROVE  /\ Internal(s, t) \in Node
         /\ Internal(s, t).type = "internal"
         /\ Internal(s, t).keys = s /\ Internal(s, t).kids = t
<1>1. t \in Seq(Nat)
  <2>1. Page \subseteq Nat  BY DEF Page
  <2> QED  BY <2>1, SeqMonotonic
<1> QED  BY <1>1 DEF Internal, Node, InternalNode

LEMMA LenPages == ASSUME PagesOK PROVE Len(pages) \in Nat /\ pages \in Seq(Node)
BY DEF PagesOK, Node

\* What each action does to the pages, free of the sequence operators.
LEMMA InsertIntoLeafEffect ==
  ASSUME ShapeInv, InsertIntoLeaf
  PROVE  /\ pc = "descend" /\ cur \in Page /\ IsLeaf(cur) /\ Succeed
         /\ pages' \in Seq(Node) /\ Len(pages') = Len(pages)
         /\ \A p \in Page : p # cur => pages'[p] = pages[p]
         /\ pages'[cur].type = "leaf"
         /\ pages'[cur].cells = WithCell(pages[cur].cells, cell)
         /\ pages'[cur].next = pages[cur].next
         /\ UNCHANGED <<root_page, limit>>
<1>1. pc = "descend" /\ cur \in Page /\ IsLeaf(cur) /\ cell \in Cell
  BY DEF InsertIntoLeaf, ShapeInv, InsertOK, HistoryOK
<1>2. pages[cur] \in LeafNode /\ pages[cur].cells \in Seq(Cell)
  BY <1>1, LeafFields DEF ShapeInv
<1>3. pages \in Seq(Node) /\ Len(pages) \in Nat
  BY LenPages DEF ShapeInv
<1> DEFINE w == WithCell(pages[cur].cells, cell)
           n == [pages[cur] EXCEPT !.cells = w]
<1>4. w \in Seq(Cell)
  BY <1>1, <1>2, WithCellProperties
<1>5. pages' = [pages EXCEPT ![cur] = n]
  BY DEF InsertIntoLeaf
<1> HIDE DEF w
<1>6. n \in Node /\ n.type = "leaf" /\ n.cells = w /\ n.next = pages[cur].next
  BY <1>2, <1>4 DEF LeafNode, Node
<1> HIDE DEF n
<1>7. /\ pages' \in Seq(Node) /\ Len(pages') = Len(pages)
      /\ \A j \in Page : pages'[j] = IF j = cur THEN n ELSE pages[j]
  BY <1>1, <1>3, <1>5, <1>6, ExceptSeq DEF Page
<1>8. Succeed /\ UNCHANGED <<root_page, limit>>
  BY DEF InsertIntoLeaf
<1> QED  BY <1>1, <1>6, <1>7, <1>8 DEF w

LEMMA SplitLeafEffect ==
  ASSUME ShapeInv, SplitLeaf
  PROVE  /\ pc = "descend" /\ cur \in Page /\ IsLeaf(cur)
         /\ pages' \in Seq(Node) /\ Len(pages') = Len(pages) + 1 /\ Len(pages') < limit
         /\ \A p \in Page : p # cur => pages'[p] = pages[p]
         /\ pages'[cur].type = "leaf" /\ pages'[cur].next = Len(pages) + 1
         /\ pages'[Len(pages) + 1].type = "leaf"
         /\ pages'[Len(pages) + 1].next = pages[cur].next
         /\ promote_child' = Len(pages) + 1 /\ pc' = "promote"
         /\ UNCHANGED <<root_page, limit, cell, cur, path, inserts, acked, failed>>
         /\ \E s \in Seq(Cell) : \E n \in 1 .. Len(s) - 1 :
              /\ s = WithCell(pages[cur].cells, cell) /\ Len(s) = Len(pages[cur].cells) + 1
              /\ pages'[cur].cells = SubSeq(s, 1, n)
              /\ pages'[Len(pages) + 1].cells = SubSeq(s, n + 1, Len(s))
              /\ promote_key' = s[n + 1].key
<1> DEFINE s == WithCell(pages[cur].cells, cell)
           n == LeftCount(s)
           left == SubSeq(s, 1, n)
           right == SubSeq(s, n + 1, Len(s))
           new == Len(pages) + 1
<1>1. pc = "descend" /\ cur \in Page /\ IsLeaf(cur) /\ cell \in Cell
  BY DEF SplitLeaf, NoRoom, ShapeInv, InsertOK, HistoryOK
<1>2. pages[cur].cells \in Seq(Cell) /\ pages[cur].next \in 0 .. Len(pages)
  BY <1>1, LeafFields DEF ShapeInv
<1>3. pages \in Seq(Node) /\ Len(pages) \in Nat
  BY LenPages DEF ShapeInv
<1>4. s \in Seq(Cell) /\ Len(s) = Len(pages[cur].cells) + 1
  BY <1>1, <1>2, WithCellProperties
<1>5. Len(pages[cur].cells) # 0
  <2> SUFFICES ASSUME Len(pages[cur].cells) = 0 PROVE FALSE  OBVIOUS
  <2>1. leaf_free_space(cur) = Capacity - 0
    BY UsedEmpty DEF leaf_free_space
  <2>2. leaf_free_space(cur) < cell.cost
    BY DEF SplitLeaf, NoRoom
  <2>3. cell.cost \in Nat /\ 2 * cell.cost <= Capacity /\ Capacity \in Nat
    BY <1>1, BTreeAssumption DEF Cell
  <2> QED  BY <2>1, <2>2, <2>3
<1>6. /\ ~AllocationFails
      /\ pages' = Append([pages EXCEPT ![cur] = Leaf(left, new)], Leaf(right, pages[cur].next))
      /\ promote_key' = right[1].key /\ promote_child' = new /\ pc' = "promote"
      /\ UNCHANGED <<root_page, limit, cell, cur, path, inserts, acked, failed>>
  BY Zenon DEF SplitLeaf
<1>7. Len(s) \in Nat /\ Len(s) >= 2
  BY <1>2, <1>4, <1>5
<1> HIDE DEF s
<1>8. n \in 1 .. Len(s) - 1
  BY <1>7, LeftCountRange
<1> HIDE DEF n
<1>9. /\ left \in Seq(Cell)
      /\ right \in Seq(Cell) /\ right[1] = s[n + 1]
  <2>1. /\ 1 \in 1 .. Len(s) /\ n \in 1 - 1 .. Len(s)
        /\ n + 1 \in 1 .. Len(s) /\ Len(s) \in (n + 1) - 1 .. Len(s)
        /\ 1 \in 1 .. Len(s) - (n + 1) + 1 /\ (n + 1) + 1 - 1 = n + 1
    BY <1>7, <1>8
  <2>2. left \in Seq(Cell)
    BY <1>4, <2>1, HalfProperties
  <2>3. right \in Seq(Cell) /\ \A i \in 1 .. Len(s) - (n + 1) + 1 : right[i] = s[(n + 1) + i - 1]
    BY <1>4, <2>1, HalfProperties
  <2> QED  BY <2>1, <2>2, <2>3
<1> HIDE DEF left, right
<1>10. /\ Leaf(left, new) \in Node /\ Leaf(left, new).type = "leaf"
       /\ Leaf(left, new).cells = left /\ Leaf(left, new).next = new
  BY <1>3, <1>9, LeafType
<1>11. /\ Leaf(right, pages[cur].next) \in Node /\ Leaf(right, pages[cur].next).type = "leaf"
       /\ Leaf(right, pages[cur].next).cells = right
       /\ Leaf(right, pages[cur].next).next = pages[cur].next
  BY <1>2, <1>3, <1>9, LeafType
<1> DEFINE a == Leaf(left, new)
           b == Leaf(right, pages[cur].next)
<1>12. cur \in 1 .. Len(pages)
  BY <1>1 DEF Page
<1>13. /\ pages' \in Seq(Node) /\ Len(pages') = Len(pages) + 1
       /\ pages'[cur] = a /\ pages'[Len(pages) + 1] = b
       /\ \A j \in 1 .. Len(pages) : j # cur => pages'[j] = pages[j]
  <2> HIDE DEF a, b
  <2>1. a \in Node /\ b \in Node /\ pages' = Append([pages EXCEPT ![cur] = a], b)
    BY <1>6, <1>10, <1>11 DEF a, b
  <2> QED  BY <1>3, <1>12, <2>1, ReplaceAppend
<1>14. Len(pages) + 1 < limit
  BY <1>3, <1>6 DEF AllocationFails, ShapeInv, InsertOK
<1>15. /\ pages'[cur].cells = SubSeq(s, 1, n)
       /\ pages'[Len(pages) + 1].cells = SubSeq(s, n + 1, Len(s))
       /\ promote_key' = s[n + 1].key
  BY <1>6, <1>9, <1>10, <1>11, <1>13 DEF left, right
<1>16. /\ pages'[cur].type = "leaf" /\ pages'[cur].next = Len(pages) + 1
       /\ pages'[Len(pages) + 1].type = "leaf"
       /\ pages'[Len(pages) + 1].next = pages[cur].next
  BY <1>10, <1>11, <1>13
<1>17. \E u \in Seq(Cell) : \E m \in 1 .. Len(u) - 1 :
          /\ u = WithCell(pages[cur].cells, cell) /\ Len(u) = Len(pages[cur].cells) + 1
          /\ pages'[cur].cells = SubSeq(u, 1, m)
          /\ pages'[Len(pages) + 1].cells = SubSeq(u, m + 1, Len(u))
          /\ promote_key' = u[m + 1].key
  <2>1. s = WithCell(pages[cur].cells, cell)
    BY DEF s
  <2> QED  BY <1>4, <1>8, <1>15, <2>1
<1> QED  BY <1>1, <1>6, <1>12, <1>13, <1>14, <1>16, <1>17 DEF Page

\* The promotion loop works on an internal node of the path.
LEMMA ParentFacts ==
  ASSUME ShapeInv, pc = "promote", path # <<>>
  PROVE  /\ Len(path) \in Nat /\ Len(path) >= 1 /\ Parent = path[Len(path)]
         /\ Parent \in Page /\ ~IsLeaf(Parent)
         /\ promote_key \in Keys /\ promote_child \in Page
<1>1. path \in Seq(Page) /\ \A i \in 1 .. Len(path) : ~IsLeaf(path[i])
  BY DEF ShapeInv, InsertOK
<1>2. Len(path) \in Nat /\ Len(path) >= 1
  BY <1>1, EmptySeq
<1>3. Parent = path[Len(path)]
  BY DEF Parent, Last
<1>4. promote_key \in Keys /\ promote_child \in Page
  BY DEF ShapeInv, InsertOK
<1>5. Len(path) \in 1 .. Len(path)
  BY <1>2
<1>6. path[Len(path)] \in Page /\ ~IsLeaf(path[Len(path)])
  BY <1>1, <1>5, ElementOfSeq
<1> QED  BY <1>2, <1>3, <1>4, <1>6

\* The node of a full parent with one more child, and its two halves.
LEMMA CombinedProperties ==
  ASSUME ShapeInv, pc = "promote", path # <<>>
  PROVE  \E keys \in Seq(Keys), kids \in Seq(Page), q \in 1 .. Len(pages[Parent].keys) + 1 :
           /\ Combined = Internal(keys, kids)
           /\ Len(keys) = Len(pages[Parent].keys) + 1
           /\ Len(kids) = Len(pages[Parent].keys) + 2
           /\ ChildAdded(keys, kids, pages[Parent], promote_key, promote_child, q)
<1>1. Parent \in Page /\ ~IsLeaf(Parent) /\ promote_key \in Keys /\ promote_child \in Page
  BY ParentFacts
<1> DEFINE node == pages[Parent]
<1>2. /\ node.keys \in Seq(Keys) /\ node.kids \in Seq(Page)
      /\ Len(node.kids) = Len(node.keys) + 1 /\ Len(node.keys) \in Nat
  BY <1>1, InternalFields DEF ShapeInv
<1>3. Combined = WithChild(node, promote_key, promote_child)
  BY DEF Combined
<1> HIDE DEF node
<1>4. PICK keys \in Seq(Keys), kids \in Seq(Page), q \in 1 .. Len(node.keys) + 1 :
           /\ WithChild(node, promote_key, promote_child) = Internal(keys, kids)
           /\ ChildAdded(keys, kids, node, promote_key, promote_child, q)
  BY <1>1, <1>2, WithChildProperties, Zenon
<1>5. Len(keys) = Len(node.keys) + 1 /\ Len(kids) = Len(node.keys) + 2
  BY <1>2, <1>4 DEF ChildAdded, InsertedAt
<1> QED  BY <1>3, <1>4, <1>5 DEF node

LEMMA HalvesType ==
  ASSUME NEW keys \in Seq(Keys), NEW kids \in Seq(Page), Len(pages) \in Nat,
         Combined = Internal(keys, kids), Len(keys) = MaxKeys + 1, Len(kids) = MaxKeys + 2
  PROVE  /\ LeftHalf \in Node /\ LeftHalf.type = "internal"
         /\ LeftHalf.keys \in Seq(Keys) /\ LeftHalf.kids \in Seq(Page)
         /\ Len(LeftHalf.keys) = Middle - 1 /\ Len(LeftHalf.kids) = Middle
         /\ \A i \in 1 .. Middle - 1 : LeftHalf.keys[i] = keys[i]
         /\ \A i \in 1 .. Middle : LeftHalf.kids[i] = kids[i]
         /\ RightHalf \in Node /\ RightHalf.type = "internal"
         /\ RightHalf.keys \in Seq(Keys) /\ RightHalf.kids \in Seq(Page)
         /\ Len(RightHalf.keys) = MaxKeys + 1 - Middle
         /\ Len(RightHalf.kids) = MaxKeys + 2 - Middle
         /\ \A i \in 1 .. MaxKeys + 1 - Middle : RightHalf.keys[i] = keys[Middle + i]
         /\ \A i \in 1 .. MaxKeys + 2 - Middle : RightHalf.kids[i] = kids[Middle + i]
         /\ Combined.keys[Middle] = keys[Middle]
<1>1. Combined.keys = keys /\ Combined.kids = kids
  BY InternalType
<1>2. Middle \in 2 .. MaxKeys /\ MaxKeys \in Nat
  BY MiddleRange, BTreeAssumption
<1> DEFINE m == Middle
<1>3. m \in 2 .. MaxKeys
  BY <1>2
<1> HIDE DEF m
<1>4. /\ SubSeq(keys, 1, m - 1) \in Seq(Keys) /\ Len(SubSeq(keys, 1, m - 1)) = m - 1
      /\ \A i \in 1 .. m - 1 : SubSeq(keys, 1, m - 1)[i] = keys[i]
  <2>1. 1 \in 1 .. Len(keys) /\ m - 1 \in 1 - 1 .. Len(keys)
    BY <1>2, <1>3
  <2>2. /\ SubSeq(keys, 1, m - 1) \in Seq(Keys) /\ Len(SubSeq(keys, 1, m - 1)) = (m - 1) - 1 + 1
        /\ \A i \in 1 .. (m - 1) - 1 + 1 : SubSeq(keys, 1, m - 1)[i] = keys[1 + i - 1]
    BY <2>1, HalfProperties
  <2> QED  BY <1>3, <2>2
<1>5. /\ SubSeq(kids, 1, m) \in Seq(Page) /\ Len(SubSeq(kids, 1, m)) = m
      /\ \A i \in 1 .. m : SubSeq(kids, 1, m)[i] = kids[i]
  <2>1. 1 \in 1 .. Len(kids) /\ m \in 1 - 1 .. Len(kids)
    BY <1>2, <1>3
  <2>2. /\ SubSeq(kids, 1, m) \in Seq(Page) /\ Len(SubSeq(kids, 1, m)) = m - 1 + 1
        /\ \A i \in 1 .. m - 1 + 1 : SubSeq(kids, 1, m)[i] = kids[1 + i - 1]
    BY <2>1, HalfProperties
  <2> QED  BY <1>3, <2>2
<1>6. /\ SubSeq(keys, m + 1, MaxKeys + 1) \in Seq(Keys)
      /\ Len(SubSeq(keys, m + 1, MaxKeys + 1)) = MaxKeys + 1 - m
      /\ \A i \in 1 .. MaxKeys + 1 - m : SubSeq(keys, m + 1, MaxKeys + 1)[i] = keys[m + i]
  <2>1. m + 1 \in 1 .. Len(keys) /\ MaxKeys + 1 \in (m + 1) - 1 .. Len(keys)
    BY <1>2, <1>3
  <2>2. /\ SubSeq(keys, m + 1, MaxKeys + 1) \in Seq(Keys)
        /\ Len(SubSeq(keys, m + 1, MaxKeys + 1)) = (MaxKeys + 1) - (m + 1) + 1
        /\ \A i \in 1 .. (MaxKeys + 1) - (m + 1) + 1 :
              SubSeq(keys, m + 1, MaxKeys + 1)[i] = keys[(m + 1) + i - 1]
    BY <2>1, HalfProperties
  <2> QED  BY <1>2, <1>3, <2>2
<1>7. /\ SubSeq(kids, m + 1, MaxKeys + 2) \in Seq(Page)
      /\ Len(SubSeq(kids, m + 1, MaxKeys + 2)) = MaxKeys + 2 - m
      /\ \A i \in 1 .. MaxKeys + 2 - m : SubSeq(kids, m + 1, MaxKeys + 2)[i] = kids[m + i]
  <2>1. m + 1 \in 1 .. Len(kids) /\ MaxKeys + 2 \in (m + 1) - 1 .. Len(kids)
    BY <1>2, <1>3
  <2>2. /\ SubSeq(kids, m + 1, MaxKeys + 2) \in Seq(Page)
        /\ Len(SubSeq(kids, m + 1, MaxKeys + 2)) = (MaxKeys + 2) - (m + 1) + 1
        /\ \A i \in 1 .. (MaxKeys + 2) - (m + 1) + 1 :
              SubSeq(kids, m + 1, MaxKeys + 2)[i] = kids[(m + 1) + i - 1]
    BY <2>1, HalfProperties
  <2> QED  BY <1>2, <1>3, <2>2
<1>8. /\ LeftHalf = Internal(SubSeq(keys, 1, m - 1), SubSeq(kids, 1, m))
      /\ RightHalf = Internal(SubSeq(keys, m + 1, MaxKeys + 1), SubSeq(kids, m + 1, MaxKeys + 2))
  BY <1>1 DEF LeftHalf, RightHalf, m
<1>9. /\ LeftHalf \in Node /\ LeftHalf.type = "internal"
      /\ LeftHalf.keys = SubSeq(keys, 1, m - 1) /\ LeftHalf.kids = SubSeq(kids, 1, m)
  BY <1>4, <1>5, <1>8, InternalType
<1>10. /\ RightHalf \in Node /\ RightHalf.type = "internal"
       /\ RightHalf.keys = SubSeq(keys, m + 1, MaxKeys + 1)
       /\ RightHalf.kids = SubSeq(kids, m + 1, MaxKeys + 2)
  BY <1>6, <1>7, <1>8, InternalType
<1> QED  BY <1>1, <1>4, <1>5, <1>6, <1>7, <1>9, <1>10 DEF m

LEMMA InsertIntoInternalEffect ==
  ASSUME ShapeInv, InsertIntoInternal
  PROVE  /\ pc = "promote" /\ path # <<>> /\ Len(pages[Parent].keys) < MaxKeys
         /\ pages' \in Seq(Node) /\ Len(pages') = Len(pages)
         /\ \A p \in Page : p # Parent => pages'[p] = pages[p]
         /\ pages'[Parent] = Combined
         /\ Succeed /\ UNCHANGED <<root_page, limit>>
<1>1. /\ pc = "promote" /\ path # <<>> /\ Len(pages[Parent].keys) < MaxKeys
      /\ pages' = [pages EXCEPT ![Parent] = Combined]
      /\ Succeed /\ UNCHANGED <<root_page, limit>>
  BY DEF InsertIntoInternal, Combined
<1>2. Parent \in Page
  BY <1>1, ParentFacts
<1>3. pages \in Seq(Node) /\ Len(pages) \in Nat
  BY LenPages DEF ShapeInv
<1>4. Combined \in Node
  BY <1>1, <1>3, CombinedProperties, InternalType
<1> DEFINE c == Combined
           p == Parent
<1> HIDE DEF c, p
<1>5. p \in 1 .. Len(pages) /\ c \in Node /\ pages' = [pages EXCEPT ![p] = c]
  BY <1>1, <1>2, <1>4 DEF c, p, Page
<1>6. /\ pages' \in Seq(Node) /\ Len(pages') = Len(pages)
      /\ \A j \in 1 .. Len(pages) : pages'[j] = IF j = p THEN c ELSE pages[j]
  BY <1>3, <1>5, ExceptSeq
<1> QED  BY <1>1, <1>5, <1>6 DEF c, p, Page

LEMMA FullParent ==
  ASSUME ShapeInv, ParentFull
  PROVE  \E keys \in Seq(Keys), kids \in Seq(Page), q \in 1 .. MaxKeys + 1 :
           /\ Combined = Internal(keys, kids)
           /\ Len(keys) = MaxKeys + 1 /\ Len(kids) = MaxKeys + 2
           /\ ChildAdded(keys, kids, pages[Parent], promote_key, promote_child, q)
BY CombinedProperties DEF ParentFull

LEMMA SplitInternalEffect ==
  ASSUME ShapeInv, SplitInternal
  PROVE  /\ pc = "promote" /\ path # <<>> /\ ParentFull
         /\ pages' \in Seq(Node) /\ Len(pages') = Len(pages) + 1 /\ Len(pages') < limit
         /\ \A p \in Page : p # Parent => pages'[p] = pages[p]
         /\ pages'[Parent] = LeftHalf /\ pages'[Len(pages) + 1] = RightHalf
         /\ promote_key' = Combined.keys[Middle] /\ promote_child' = Len(pages) + 1
         /\ path' = Front(path)
         /\ UNCHANGED <<pc, root_page, limit, cell, cur, inserts, acked, failed>>
<1>1. /\ pc = "promote" /\ path # <<>> /\ ParentFull /\ ~AllocationFails
      /\ pages' = Append([pages EXCEPT ![Parent] = LeftHalf], RightHalf)
      /\ promote_key' = Combined.keys[Middle] /\ promote_child' = Len(pages) + 1
      /\ path' = Front(path)
      /\ UNCHANGED <<pc, root_page, limit, cell, cur, inserts, acked, failed>>
  BY DEF SplitInternal, ParentFull
<1>2. Parent \in Page
  BY <1>1, ParentFacts
<1>3. pages \in Seq(Node) /\ Len(pages) \in Nat
  BY LenPages DEF ShapeInv
<1>4. LeftHalf \in Node /\ RightHalf \in Node
  BY <1>1, <1>3, FullParent, HalvesType
<1> DEFINE a == LeftHalf
           b == RightHalf
           p == Parent
<1> HIDE DEF a, b, p
<1>5. /\ p \in 1 .. Len(pages) /\ a \in Node /\ b \in Node
      /\ pages' = Append([pages EXCEPT ![p] = a], b)
  BY <1>1, <1>2, <1>4 DEF a, b, p, Page
<1>6. /\ pages' \in Seq(Node) /\ Len(pages') = Len(pages) + 1
      /\ pages'[p] = a /\ pages'[Len(pages) + 1] = b
      /\ \A j \in 1 .. Len(pages) : j # p => pages'[j] = pages[j]
  BY <1>3, <1>5, ReplaceAppend
<1>7. Len(pages) + 1 < limit
  BY <1>1, <1>3 DEF AllocationFails, ShapeInv, InsertOK
<1> QED  BY <1>1, <1>6, <1>7 DEF a, b, p, Page

LEMMA SplitInternalErrEffect ==
  ASSUME ShapeInv, SplitInternalErr
  PROVE  /\ pc = "promote" /\ path # <<>> /\ ParentFull
         /\ pages' \in Seq(Node) /\ Len(pages') = Len(pages)
         /\ \A p \in Page : p # Parent => pages'[p] = pages[p]
         /\ pages'[Parent] = LeftHalf
         /\ Fail /\ UNCHANGED <<root_page, limit>>
<1>1. /\ pc = "promote" /\ path # <<>> /\ ParentFull
      /\ pages' = [pages EXCEPT ![Parent] = LeftHalf]
      /\ Fail /\ UNCHANGED <<root_page, limit>>
  BY DEF SplitInternalErr, ParentFull
<1>2. Parent \in Page
  BY <1>1, ParentFacts
<1>3. pages \in Seq(Node) /\ Len(pages) \in Nat
  BY LenPages DEF ShapeInv
<1>4. LeftHalf \in Node
  BY <1>1, <1>3, FullParent, HalvesType
<1> DEFINE c == LeftHalf
           p == Parent
<1> HIDE DEF c, p
<1>5. p \in 1 .. Len(pages) /\ c \in Node /\ pages' = [pages EXCEPT ![p] = c]
  BY <1>1, <1>2, <1>4 DEF c, p, Page
<1>6. /\ pages' \in Seq(Node) /\ Len(pages') = Len(pages)
      /\ \A j \in 1 .. Len(pages) : pages'[j] = IF j = p THEN c ELSE pages[j]
  BY <1>3, <1>5, ExceptSeq
<1> QED  BY <1>1, <1>5, <1>6 DEF c, p, Page

LEMMA NewRootEffect ==
  ASSUME ShapeInv, NewRoot
  PROVE  /\ pc = "promote" /\ path = <<>>
         /\ promote_key \in Keys /\ promote_child \in Page /\ root_page \in Page
         /\ pages' \in Seq(Node) /\ Len(pages') = Len(pages) + 1 /\ Len(pages') < limit
         /\ \A p \in Page : pages'[p] = pages[p]
         /\ pages'[Len(pages) + 1].type = "internal"
         /\ pages'[Len(pages) + 1].keys = <<promote_key>>
         /\ pages'[Len(pages) + 1].kids = <<root_page, promote_child>>
         /\ root_page' = Len(pages) + 1
         /\ Succeed /\ UNCHANGED limit
<1> DEFINE n == Internal(<<promote_key>>, <<root_page, promote_child>>)
<1>1. /\ pc = "promote" /\ path = <<>> /\ ~AllocationFails
      /\ pages' = Append(pages, n)
      /\ root_page' = Len(pages) + 1
      /\ Succeed /\ UNCHANGED limit
  BY DEF NewRoot
<1>2. promote_key \in Keys /\ promote_child \in Page /\ root_page \in Page
  BY <1>1 DEF ShapeInv, InsertOK
<1>3. pages \in Seq(Node) /\ Len(pages) \in Nat
  BY LenPages DEF ShapeInv
<1>4. <<promote_key>> \in Seq(Keys) /\ <<root_page, promote_child>> \in Seq(Page)
  BY <1>2
<1>5. /\ n \in Node /\ n.type = "internal"
      /\ n.keys = <<promote_key>> /\ n.kids = <<root_page, promote_child>>
  BY <1>3, <1>4, InternalType
<1> HIDE DEF n
<1>6. /\ pages' \in Seq(Node) /\ Len(pages') = Len(pages) + 1
      /\ \A i \in 1 .. Len(pages) : pages'[i] = pages[i]
      /\ pages'[Len(pages) + 1] = n
  BY <1>1, <1>3, <1>5, AppendProperties
<1>7. Len(pages) + 1 < limit
  BY <1>1, <1>3 DEF AllocationFails, ShapeInv, InsertOK
<1> QED  BY <1>1, <1>2, <1>5, <1>6, <1>7 DEF Page

-----------------------------------------------------------------------------
(***************************************************************************)
(* The shape is preserved, action by action.                               *)
(***************************************************************************)
\* A node that a step leaves alone stays well formed when pages are added.
LEMMA NodeKept ==
  ASSUME NEW p \in Page, NodeOK(p), pages'[p] = pages[p],
         Len(pages) \in Nat, Len(pages') \in Nat, Len(pages') >= Len(pages)
  PROVE  NodeOK(p)'
<1>1. Page \subseteq Page'
  BY DEF Page
<1> QED  BY <1>1 DEF NodeOK, IsLeaf

\* The end of an insert: its cell goes to the history, its locals are gone.
LEMMA ReturnHistory ==
  ASSUME HistoryOK, pc # "idle", Succeed \/ Fail
  PROVE  HistoryOK'
<1>1. pc' = "idle" /\ cell \in Cell
  BY DEF Succeed, Fail, Return, HistoryOK
<1>2. \/ acked' = acked \cup {cell} /\ failed' = failed
      \/ failed' = failed \cup {cell} /\ acked' = acked
  BY DEF Succeed, Fail
<1>3. acked' \subseteq Cell /\ failed' \subseteq Cell
  BY <1>1, <1>2 DEF HistoryOK
<1>4. UniqueKeys => acked' \cap failed' = {}
  BY <1>2 DEF HistoryOK
<1> QED  BY <1>1, <1>3, <1>4 DEF HistoryOK

LEMMA KeptHistory ==
  ASSUME HistoryOK, pc # "idle", UNCHANGED <<cell, acked, failed>>
  PROVE  HistoryOK'
BY DEF HistoryOK

LEMMA ReturnInsert ==
  ASSUME Succeed \/ Fail, limit' = limit, limit \in Nat, Len(pages') < limit,
         root_page' \in Page'
  PROVE  InsertOK'
<1>1. pc' = "idle" /\ path' = <<>>
  BY DEF Succeed, Fail, Return
<1>2. path' \in Seq(Page)' /\ Len(path') = 0
  BY <1>1
<1>3. \A i \in 1 .. Len(path') : FALSE
  BY <1>2
<1> QED  BY <1>1, <1>2, <1>3 DEF InsertOK

\* Each action preserves the shape.
LEMMA InsertShape == ASSUME ShapeInv, NEW k \in Keys, NEW c \in Costs, Insert(k, c) PROVE ShapeInv'
<1>1. pages' = pages /\ path' = path /\ path = <<>> /\ pc' = "descend" /\ cur' = root_page
  BY DEF Insert, ShapeInv, InsertOK
<1>2. PagesOK'
  BY <1>1 DEF ShapeInv, PagesOK, NodeOK, Page, IsLeaf
<1>3. InsertOK'
  BY <1>1 DEF Insert, ShapeInv, InsertOK, Page, IsLeaf
<1>4. cell' = [key |-> k, cost |-> c] /\ UNCHANGED <<acked, failed>>
      /\ (UniqueKeys => \A x \in acked \cup failed : x.key # k)
  BY DEF Insert
<1>5. cell' \in Cell /\ cell'.key = k
  BY <1>4 DEF Cell
<1>6. HistoryOK'
  BY <1>4, <1>5 DEF ShapeInv, HistoryOK
<1> QED  BY <1>2, <1>3, <1>6 DEF ShapeInv

\* The descent goes from an internal node to one of its children.
LEMMA DescendFacts ==
  ASSUME ShapeInv, Descend
  PROVE  /\ pc = "descend" /\ cur \in Page /\ ~IsLeaf(cur) /\ cell \in Cell
         /\ Position(pages[cur].keys, cell.key) \in 1 .. Len(pages[cur].kids)
         /\ cur' = pages[cur].kids[Position(pages[cur].keys, cell.key)] /\ cur' \in Page
         /\ path' = Append(path, cur)
         /\ path' \in Seq(Page) /\ Len(path') = Len(path) + 1
         /\ path'[Len(path) + 1] = cur /\ \A i \in 1 .. Len(path) : path'[i] = path[i]
         /\ UNCHANGED <<pc, pages, root_page, limit, cell, promote_key, promote_child,
                 inserts, acked, failed>>
<1>1. pc = "descend" /\ cur \in Page /\ ~IsLeaf(cur) /\ cell \in Cell
  BY DEF Descend, ShapeInv, InsertOK, HistoryOK
<1>2. /\ pages[cur].keys \in Seq(Int) /\ pages[cur].kids \in Seq(Page)
      /\ Len(pages[cur].kids) = Len(pages[cur].keys) + 1
  BY <1>1, InternalFields DEF ShapeInv
<1>3. cell.key \in Int
  BY <1>1, BTreeAssumption DEF Cell
<1>4. Position(pages[cur].keys, cell.key) \in 1 .. Len(pages[cur].keys) + 1
  BY <1>2, <1>3, PositionProperties
<1>5. cur' = pages[cur].kids[Position(pages[cur].keys, cell.key)]
  BY DEF Descend
<1>6. cur' \in Page
  BY <1>2, <1>4, <1>5, ElementOfSeq
<1>7. path \in Seq(Page) /\ path' = Append(path, cur)
  BY DEF ShapeInv, InsertOK, Descend
<1>8. /\ path' \in Seq(Page) /\ Len(path') = Len(path) + 1
      /\ path'[Len(path) + 1] = cur /\ \A i \in 1 .. Len(path) : path'[i] = path[i]
  BY <1>1, <1>7, AppendProperties
<1>9. UNCHANGED <<pc, pages, root_page, limit, cell, promote_key, promote_child,
                 inserts, acked, failed>>
  BY DEF Descend
<1> QED  BY <1>1, <1>2, <1>4, <1>5, <1>6, <1>7, <1>8, <1>9

LEMMA DescendShape == ASSUME ShapeInv, Descend PROVE ShapeInv'
<1>1. /\ cur \in Page /\ ~IsLeaf(cur)
      /\ cur' \in Page /\ path' \in Seq(Page) /\ Len(path') = Len(path) + 1
      /\ path'[Len(path) + 1] = cur /\ \A i \in 1 .. Len(path) : path'[i] = path[i]
      /\ UNCHANGED <<pc, pages, root_page, limit, cell, promote_key, promote_child,
                 inserts, acked, failed>>
      /\ pc = "descend"
  BY DescendFacts
<1>2. PagesOK'
  BY <1>1 DEF ShapeInv, PagesOK, NodeOK, Page, IsLeaf
<1>3. \A i \in 1 .. Len(path') : ~IsLeaf(path'[i])
  <2>1. path \in Seq(Page) /\ \A i \in 1 .. Len(path) : ~IsLeaf(path[i])
    BY DEF ShapeInv, InsertOK
  <2>2. \A i \in 1 .. Len(path') : i \in 1 .. Len(path) \/ i = Len(path) + 1
    BY <1>1, <2>1
  <2> QED  BY <1>1, <2>1, <2>2
<1>4. InsertOK'
  BY <1>1, <1>3 DEF ShapeInv, InsertOK, Page, IsLeaf
<1>5. HistoryOK'
  BY <1>1, KeptHistory DEF ShapeInv
<1> QED  BY <1>2, <1>4, <1>5 DEF ShapeInv

LEMMA InsertIntoLeafShape == ASSUME ShapeInv, InsertIntoLeaf PROVE ShapeInv'
<1>1. /\ pc = "descend" /\ cur \in Page /\ IsLeaf(cur) /\ Succeed
      /\ pages' \in Seq(Node) /\ Len(pages') = Len(pages)
      /\ \A p \in Page : p # cur => pages'[p] = pages[p]
      /\ pages'[cur].type = "leaf" /\ pages'[cur].next = pages[cur].next
      /\ UNCHANGED <<root_page, limit>>
  BY InsertIntoLeafEffect
<1>2. Page' = Page /\ Len(pages) \in Nat
  BY <1>1, LenPages DEF Page, ShapeInv
<1>3. ASSUME NEW p \in Page, p = cur PROVE NodeOK(p)'
  BY <1>1, <1>3, LeafFields DEF NodeOK, IsLeaf, ShapeInv
<1>4. ASSUME NEW p \in Page PROVE NodeOK(p)'
  BY <1>1, <1>2, <1>3, NodeKept DEF ShapeInv, PagesOK
<1>5. PagesOK'
  BY <1>1, <1>2, <1>4 DEF PagesOK, Node
<1>6. InsertOK'
  BY <1>1, <1>2, ReturnInsert DEF ShapeInv, InsertOK
<1>7. HistoryOK'
  BY <1>1, ReturnHistory DEF ShapeInv
<1> QED  BY <1>5, <1>6, <1>7 DEF ShapeInv

LEMMA SplitLeafShape == ASSUME ShapeInv, SplitLeaf PROVE ShapeInv'
<1> DEFINE new == Len(pages) + 1
<1>1. /\ pc = "descend" /\ cur \in Page /\ IsLeaf(cur)
      /\ pages' \in Seq(Node) /\ Len(pages') = new /\ Len(pages') < limit
      /\ \A p \in Page : p # cur => pages'[p] = pages[p]
      /\ pages'[cur].type = "leaf" /\ pages'[cur].next = new
      /\ pages'[new].type = "leaf" /\ pages'[new].next = pages[cur].next
      /\ promote_child' = new /\ pc' = "promote"
      /\ UNCHANGED <<root_page, limit, cell, cur, path, inserts, acked, failed>>
  BY SplitLeafEffect
<1>2. promote_key' \in Keys
  <2>1. \E s \in Seq(Cell) : \E n \in 1 .. Len(s) - 1 : promote_key' = s[n + 1].key
    BY SplitLeafEffect
  <2>2. PICK s \in Seq(Cell) : \E n \in 1 .. Len(s) - 1 : promote_key' = s[n + 1].key
    BY <2>1
  <2>3. PICK n \in 1 .. Len(s) - 1 : promote_key' = s[n + 1].key
    BY <2>2
  <2>4. s[n + 1] \in Cell
    OBVIOUS
  <2> QED  BY <2>3, <2>4 DEF Cell
<1>3. Len(pages) \in Nat
  BY LenPages DEF ShapeInv
<1>4. Page' = Page \cup {new} /\ new \notin Page
  BY <1>1, <1>3 DEF Page
<1>5. ASSUME NEW p \in Page', p = cur \/ p = new PROVE NodeOK(p)'
  <2>1. pages[cur].next \in 0 .. Len(pages)
    BY <1>1, LeafFields DEF ShapeInv
  <2> QED  BY <1>1, <1>3, <1>5, <2>1 DEF NodeOK, IsLeaf
<1>6. ASSUME NEW p \in Page' PROVE NodeOK(p)'
  <2>1. CASE p = cur \/ p = new
    BY <1>5, <2>1
  <2>2. CASE p \in Page /\ p # cur
    BY <1>1, <1>3, <2>2, NodeKept DEF ShapeInv, PagesOK
  <2> QED  BY <1>4, <2>1, <2>2
<1>7. PagesOK'
  BY <1>1, <1>6 DEF PagesOK, Node
<1>8. path' \in Seq(Page)' /\ \A i \in 1 .. Len(path') : ~IsLeaf(path[i])'
  <2>1. path \in Seq(Page) /\ \A i \in 1 .. Len(path) : ~IsLeaf(path[i])
    BY DEF ShapeInv, InsertOK
  <2>2. path' = path
    BY <1>1
  <2>3. path' \in Seq(Page')
    BY <1>4, <2>1, <2>2, SeqMonotonic
  <2>4. ASSUME NEW i \in 1 .. Len(path) PROVE pages'[path[i]].type # "leaf"
    <3>1. path[i] \in Page /\ pages[path[i]].type # "leaf"
      BY <2>1 DEF IsLeaf
    <3> QED  BY <1>1, <3>1 DEF IsLeaf
  <2> QED  BY <2>2, <2>3, <2>4 DEF IsLeaf
<1>9. InsertOK'
  BY <1>1, <1>2, <1>4, <1>8 DEF ShapeInv, InsertOK
<1>10. HistoryOK'
  BY <1>1, KeptHistory DEF ShapeInv
<1> QED  BY <1>7, <1>9, <1>10 DEF ShapeInv

LEMMA SplitLeafOverflowShape == ASSUME ShapeInv, SplitLeafOverflow PROVE ShapeInv'
<1>1. pc # "idle" /\ pc' = "broken" /\ UNCHANGED <<pages, root_page, limit, insertion, acked, failed>>
  BY Zenon DEF SplitLeafOverflow, NoRoom
<1>2. PagesOK'
  BY <1>1 DEF ShapeInv, PagesOK, NodeOK, Page, IsLeaf
<1>3. InsertOK'
  BY <1>1 DEF ShapeInv, InsertOK, Page, IsLeaf, insertion
<1>4. HistoryOK'
  BY <1>1, KeptHistory DEF ShapeInv, insertion
<1> QED  BY <1>2, <1>3, <1>4 DEF ShapeInv

\* The error paths that write nothing.
LEMMA NothingWrittenShape ==
  ASSUME ShapeInv, pc # "idle", Fail, UNCHANGED <<pages, root_page, limit>> PROVE ShapeInv'
<1>1. PagesOK'
  BY DEF ShapeInv, PagesOK, NodeOK, Page, IsLeaf
<1>2. InsertOK'
  BY ReturnInsert DEF ShapeInv, InsertOK, Page
<1>3. HistoryOK'
  BY ReturnHistory DEF ShapeInv
<1> QED  BY <1>1, <1>2, <1>3 DEF ShapeInv

\* The three actions that write to the parent.
LEMMA CombinedShape ==
  ASSUME ShapeInv, pc = "promote", path # <<>>, NEW keys \in Seq(Keys), NEW kids \in Seq(Page),
         NEW q \in 1 .. Len(pages[Parent].keys) + 1,
         Len(kids) = Len(pages[Parent].keys) + 2,
         ChildAdded(keys, kids, pages[Parent], promote_key, promote_child, q)
  PROVE  /\ \A i \in 1 .. Len(kids) : kids[i] \in Page
         /\ kids[1] = pages[Parent].kids[1] /\ kids[1] < Parent
<1>1. Parent \in Page /\ ~IsLeaf(Parent)
  BY ParentFacts
<1>2. pages[Parent].kids[1] < Parent
  BY <1>1, InternalFields DEF ShapeInv
<1>3. kids[1] = pages[Parent].kids[1]
  BY DEF ChildAdded, InsertedAt
<1> QED  BY <1>2, <1>3

LEMMA InsertIntoInternalShape == ASSUME ShapeInv, InsertIntoInternal PROVE ShapeInv'
<1>1. /\ pc = "promote" /\ path # <<>> /\ Len(pages[Parent].keys) < MaxKeys
      /\ pages' \in Seq(Node) /\ Len(pages') = Len(pages)
      /\ \A p \in Page : p # Parent => pages'[p] = pages[p]
      /\ pages'[Parent] = Combined
      /\ Succeed /\ UNCHANGED <<root_page, limit>>
  BY InsertIntoInternalEffect
<1>2. Page' = Page /\ Len(pages) \in Nat
  BY <1>1, LenPages DEF Page, ShapeInv
<1>3. PICK keys \in Seq(Keys), kids \in Seq(Page), q \in 1 .. Len(pages[Parent].keys) + 1 :
           /\ Combined = Internal(keys, kids)
           /\ Len(keys) = Len(pages[Parent].keys) + 1
           /\ Len(kids) = Len(pages[Parent].keys) + 2
           /\ ChildAdded(keys, kids, pages[Parent], promote_key, promote_child, q)
  BY <1>1, CombinedProperties
<1>4. /\ \A i \in 1 .. Len(kids) : kids[i] \in Page
      /\ kids[1] < Parent
  BY <1>1, <1>3, CombinedShape
<1>5. Combined.type = "internal" /\ Combined.keys = keys /\ Combined.kids = kids
  BY <1>2, <1>3, InternalType
<1>6. Len(pages[Parent].keys) \in Nat
  BY <1>1, ParentFacts, InternalFields DEF ShapeInv
<1>7. ASSUME NEW p \in Page PROVE NodeOK(p)'
  <2>1. CASE p = Parent
    <3>1. pages'[p].type = "internal" /\ pages'[p].keys = keys /\ pages'[p].kids = kids
      BY <1>1, <1>5, <2>1
    <3>2. Len(keys) \in 1 .. MaxKeys /\ Len(kids) = Len(keys) + 1
      BY <1>1, <1>3, <1>6, BTreeAssumption
    <3> QED  BY <1>2, <1>4, <2>1, <3>1, <3>2 DEF NodeOK, IsLeaf
  <2>2. CASE p # Parent
    BY <1>1, <1>2, <2>2, NodeKept DEF ShapeInv, PagesOK
  <2> QED  BY <2>1, <2>2
<1>8. PagesOK'
  BY <1>1, <1>2, <1>7 DEF PagesOK, Node
<1>9. InsertOK'
  BY <1>1, <1>2, ReturnInsert DEF ShapeInv, InsertOK
<1>10. HistoryOK'
  BY <1>1, ReturnHistory DEF ShapeInv
<1> QED  BY <1>8, <1>9, <1>10 DEF ShapeInv

LEMMA HalvesShape ==
  ASSUME ShapeInv, ParentFull
  PROVE  /\ LeftHalf.type = "internal" /\ RightHalf.type = "internal"
         /\ Len(LeftHalf.keys) \in 1 .. MaxKeys /\ Len(LeftHalf.kids) = Len(LeftHalf.keys) + 1
         /\ \A i \in 1 .. Len(LeftHalf.kids) : LeftHalf.kids[i] \in Page
         /\ LeftHalf.kids[1] = pages[Parent].kids[1]
         /\ LeftHalf.kids[1] < Parent
         /\ Len(RightHalf.keys) \in 1 .. MaxKeys /\ Len(RightHalf.kids) = Len(RightHalf.keys) + 1
         /\ \A i \in 1 .. Len(RightHalf.kids) : RightHalf.kids[i] \in Page
         /\ RightHalf.kids[1] < Len(pages) + 1
         /\ Combined.keys[Middle] \in Keys
<1>1. Len(pages) \in Nat /\ pc = "promote" /\ path # <<>> /\ Len(pages[Parent].keys) = MaxKeys
  BY LenPages DEF ShapeInv, ParentFull
<1>2. PICK keys \in Seq(Keys), kids \in Seq(Page), q \in 1 .. MaxKeys + 1 :
           /\ Combined = Internal(keys, kids)
           /\ Len(keys) = MaxKeys + 1 /\ Len(kids) = MaxKeys + 2
           /\ ChildAdded(keys, kids, pages[Parent], promote_key, promote_child, q)
  BY FullParent
<1>3. /\ kids[1] = pages[Parent].kids[1] /\ kids[1] < Parent
  BY <1>1, <1>2, CombinedShape
<1>4. Middle \in 2 .. MaxKeys /\ MaxKeys \in Nat
  BY MiddleRange, BTreeAssumption
<1>5. /\ LeftHalf.type = "internal"
      /\ LeftHalf.kids \in Seq(Page)
      /\ Len(LeftHalf.keys) = Middle - 1 /\ Len(LeftHalf.kids) = Middle
      /\ \A i \in 1 .. Middle : LeftHalf.kids[i] = kids[i]
      /\ RightHalf.type = "internal"
      /\ RightHalf.kids \in Seq(Page)
      /\ Len(RightHalf.keys) = MaxKeys + 1 - Middle
      /\ Len(RightHalf.kids) = MaxKeys + 2 - Middle
      /\ Combined.keys[Middle] = keys[Middle]
  BY <1>1, <1>2, HalvesType
<1> DEFINE m == Middle
<1> HIDE DEF m
<1>6. m \in 2 .. MaxKeys /\ keys[m] \in Keys
  BY <1>2, <1>4, ElementOfSeq DEF m
<1>7. /\ Len(LeftHalf.keys) \in 1 .. MaxKeys /\ Len(LeftHalf.kids) = Len(LeftHalf.keys) + 1
      /\ Len(RightHalf.keys) \in 1 .. MaxKeys /\ Len(RightHalf.kids) = Len(RightHalf.keys) + 1
      /\ 1 \in 1 .. m /\ 1 \in 1 .. Len(RightHalf.kids)
  BY <1>4, <1>5, <1>6 DEF m
<1>8. /\ \A i \in 1 .. Len(LeftHalf.kids) : LeftHalf.kids[i] \in Page
      /\ \A i \in 1 .. Len(RightHalf.kids) : RightHalf.kids[i] \in Page
  BY <1>5, ElementOfSeq
<1>9. RightHalf.kids[1] \in Page
  BY <1>7, <1>8
<1>10. RightHalf.kids[1] < Len(pages) + 1
  BY <1>1, <1>9 DEF Page
<1>11. LeftHalf.kids[1] = kids[1]
  BY <1>5, <1>7 DEF m
<1> QED  BY <1>3, <1>5, <1>6, <1>7, <1>8, <1>10, <1>11 DEF m

LEMMA SplitInternalErrShape == ASSUME ShapeInv, SplitInternalErr PROVE ShapeInv'
<1>1. /\ pc = "promote" /\ path # <<>> /\ ParentFull
      /\ pages' \in Seq(Node) /\ Len(pages') = Len(pages)
      /\ \A p \in Page : p # Parent => pages'[p] = pages[p]
      /\ pages'[Parent] = LeftHalf
      /\ Fail /\ UNCHANGED <<root_page, limit>>
  BY SplitInternalErrEffect
<1>2. Page' = Page /\ Len(pages) \in Nat
  BY <1>1, LenPages DEF Page, ShapeInv
<1>3. /\ LeftHalf.type = "internal"
      /\ Len(LeftHalf.keys) \in 1 .. MaxKeys /\ Len(LeftHalf.kids) = Len(LeftHalf.keys) + 1
      /\ \A i \in 1 .. Len(LeftHalf.kids) : LeftHalf.kids[i] \in Page
      /\ LeftHalf.kids[1] < Parent
  BY <1>1, HalvesShape
<1>4. ASSUME NEW p \in Page PROVE NodeOK(p)'
  <2>1. CASE p = Parent
    <3>1. pages'[p] = LeftHalf
      BY <1>1, <2>1
    <3> QED  BY <1>2, <1>3, <2>1, <3>1 DEF NodeOK, IsLeaf
  <2>2. CASE p # Parent
    BY <1>1, <1>2, <2>2, NodeKept DEF ShapeInv, PagesOK
  <2> QED  BY <2>1, <2>2
<1>5. PagesOK'
  BY <1>1, <1>2, <1>4 DEF PagesOK, Node
<1>6. InsertOK'
  BY <1>1, <1>2, ReturnInsert DEF ShapeInv, InsertOK
<1>7. HistoryOK'
  BY <1>1, ReturnHistory DEF ShapeInv
<1> QED  BY <1>5, <1>6, <1>7 DEF ShapeInv

LEMMA FrontPath ==
  ASSUME ShapeInv, pc = "promote", path # <<>>
  PROVE  /\ Front(path) \in Seq(Page) /\ Len(Front(path)) = Len(path) - 1
         /\ \A i \in 1 .. Len(path) - 1 : Front(path)[i] = path[i]
<1>1. path \in Seq(Page) /\ Len(path) \in Nat /\ Len(path) >= 1
  BY ParentFacts DEF ShapeInv, InsertOK
<1> DEFINE n == Len(path) - 1
<1>2. n \in 1 - 1 .. Len(path) /\ 1 \in 1 .. Len(path)
  BY <1>1
<1>3. /\ SubSeq(path, 1, n) \in Seq(Page) /\ Len(SubSeq(path, 1, n)) = n - 1 + 1
      /\ \A i \in 1 .. n - 1 + 1 : SubSeq(path, 1, n)[i] = path[1 + i - 1]
  <2> HIDE DEF n
  <2> QED  BY <1>1, <1>2, HalfProperties
<1> QED  BY <1>1, <1>3 DEF Front

LEMMA SplitInternalShape == ASSUME ShapeInv, SplitInternal PROVE ShapeInv'
<1> DEFINE new == Len(pages) + 1
<1>1. /\ pc = "promote" /\ path # <<>> /\ ParentFull
      /\ pages' \in Seq(Node) /\ Len(pages') = new /\ Len(pages') < limit
      /\ \A p \in Page : p # Parent => pages'[p] = pages[p]
      /\ pages'[Parent] = LeftHalf /\ pages'[new] = RightHalf
      /\ promote_key' = Combined.keys[Middle] /\ promote_child' = new
      /\ path' = Front(path)
      /\ UNCHANGED <<pc, root_page, limit, cell, cur, inserts, acked, failed>>
  BY SplitInternalEffect
<1>2. Len(pages) \in Nat
  BY LenPages DEF ShapeInv
<1>3. Page' = Page \cup {new} /\ new \notin Page
  BY <1>1, <1>2 DEF Page
<1>4. /\ LeftHalf.type = "internal" /\ RightHalf.type = "internal"
      /\ Len(LeftHalf.keys) \in 1 .. MaxKeys /\ Len(LeftHalf.kids) = Len(LeftHalf.keys) + 1
      /\ \A i \in 1 .. Len(LeftHalf.kids) : LeftHalf.kids[i] \in Page
      /\ LeftHalf.kids[1] < Parent
      /\ Len(RightHalf.keys) \in 1 .. MaxKeys /\ Len(RightHalf.kids) = Len(RightHalf.keys) + 1
      /\ \A i \in 1 .. Len(RightHalf.kids) : RightHalf.kids[i] \in Page
      /\ RightHalf.kids[1] < new
      /\ Combined.keys[Middle] \in Keys
  BY <1>1, HalvesShape
<1>5. ASSUME NEW p \in Page' PROVE NodeOK(p)'
  <2>1. CASE p = Parent
    <3>1. pages'[p] = LeftHalf
      BY <1>1, <2>1
    <3> QED  BY <1>3, <1>4, <2>1, <3>1 DEF NodeOK, IsLeaf
  <2>2. CASE p = new
    <3>1. pages'[p] = RightHalf
      BY <1>1, <2>2
    <3> QED  BY <1>3, <1>4, <2>2, <3>1 DEF NodeOK, IsLeaf
  <2>3. CASE p \in Page /\ p # Parent
    BY <1>1, <1>2, <2>3, NodeKept DEF ShapeInv, PagesOK
  <2> QED  BY <1>3, <2>1, <2>2, <2>3
<1>6. PagesOK'
  BY <1>1, <1>5 DEF PagesOK, Node
<1>7. path' \in Seq(Page)' /\ \A i \in 1 .. Len(path') : ~IsLeaf(path[i])'
  <2>1. path \in Seq(Page) /\ \A i \in 1 .. Len(path) : ~IsLeaf(path[i])
    BY DEF ShapeInv, InsertOK
  <2>2. /\ path' \in Seq(Page) /\ Len(path') = Len(path) - 1
        /\ \A i \in 1 .. Len(path) - 1 : path'[i] = path[i]
    BY <1>1, FrontPath
  <2>3. path' \in Seq(Page')
    BY <1>3, <2>2, SeqMonotonic
  <2>4. ASSUME NEW i \in 1 .. Len(path') PROVE pages'[path'[i]].type # "leaf"
    <3>1. path'[i] \in Page /\ pages[path'[i]].type # "leaf"
      BY <2>1, <2>2 DEF IsLeaf
    <3> QED  BY <1>1, <1>4, <3>1
  <2> QED  BY <2>3, <2>4 DEF IsLeaf
<1>8. InsertOK'
  BY <1>1, <1>3, <1>4, <1>7 DEF ShapeInv, InsertOK
<1>9. HistoryOK'
  BY <1>1, KeptHistory DEF ShapeInv
<1> QED  BY <1>6, <1>8, <1>9 DEF ShapeInv

LEMMA NewRootShape == ASSUME ShapeInv, NewRoot PROVE ShapeInv'
<1> DEFINE new == Len(pages) + 1
<1>1. /\ pc = "promote" /\ path = <<>>
      /\ promote_key \in Keys /\ promote_child \in Page /\ root_page \in Page
      /\ pages' \in Seq(Node) /\ Len(pages') = new /\ Len(pages') < limit
      /\ \A p \in Page : pages'[p] = pages[p]
      /\ pages'[new].type = "internal"
      /\ pages'[new].keys = <<promote_key>>
      /\ pages'[new].kids = <<root_page, promote_child>>
      /\ root_page' = new
      /\ Succeed /\ UNCHANGED limit
  BY NewRootEffect
<1>2. Len(pages) \in Nat
  BY LenPages DEF ShapeInv
<1>3. Page' = Page \cup {new} /\ new \notin Page
  BY <1>1, <1>2 DEF Page
<1>4. ASSUME NEW p \in Page' PROVE NodeOK(p)'
  <2>1. CASE p = new
    <3>1. /\ Len(pages'[p].keys) = 1 /\ Len(pages'[p].kids) = 2
          /\ pages'[p].kids[1] = root_page /\ pages'[p].kids[2] = promote_child
      <4>1. pages'[p].keys = <<promote_key>> /\ pages'[p].kids = <<root_page, promote_child>>
        BY <1>1, <2>1
      <4>2. \A x, y : /\ Len(<<x>>) = 1 /\ Len(<<x, y>>) = 2
                      /\ <<x, y>>[1] = x /\ <<x, y>>[2] = y
        OBVIOUS
      <4>3. Len(pages'[p].keys) = 1
        BY <4>1, <4>2, Zenon
      <4> DEFINE k == pages'[p].kids
      <4>4. k = <<root_page, promote_child>>
        BY <4>1
      <4> HIDE DEF k
      <4>5. Len(k) = 2 /\ k[1] = root_page /\ k[2] = promote_child
        BY <4>4
      <4> QED  BY <4>3, <4>5 DEF k
    <3>2. root_page < new
      BY <1>1, <1>2 DEF Page
    <3>3. \A i \in 1 .. Len(pages'[p].kids) : pages'[p].kids[i] \in Page'
      <4>1. \A i \in 1 .. 2 : i = 1 \/ i = 2
        OBVIOUS
      <4> QED  BY <1>1, <1>3, <3>1, <4>1
    <3>4. Len(pages'[p].keys) \in 1 .. MaxKeys
      BY <3>1, BTreeAssumption
    <3> QED  BY <1>1, <2>1, <3>1, <3>2, <3>3, <3>4 DEF NodeOK, IsLeaf
  <2>2. CASE p \in Page
    BY <1>1, <1>2, <2>2, NodeKept DEF ShapeInv, PagesOK
  <2> QED  BY <1>3, <2>1, <2>2
<1>5. PagesOK'
  BY <1>1, <1>4 DEF PagesOK, Node
<1>6. InsertOK'
  BY <1>1, <1>3, ReturnInsert DEF ShapeInv, InsertOK
<1>7. HistoryOK'
  BY <1>1, ReturnHistory DEF ShapeInv
<1> QED  BY <1>5, <1>6, <1>7 DEF ShapeInv

LEMMA ShapeStep == ShapeInv /\ [Next]_vars => ShapeInv'
<1> SUFFICES ASSUME ShapeInv, [Next]_vars PROVE ShapeInv'  OBVIOUS
<1>1. ASSUME NEW k \in Keys, NEW c \in Costs, Insert(k, c) PROVE ShapeInv'
  BY <1>1, InsertShape
<1>2. CASE Descend
  BY <1>2, DescendShape
<1>3. CASE InsertIntoLeaf
  BY <1>3, InsertIntoLeafShape
<1>4. CASE SplitLeaf
  BY <1>4, SplitLeafShape
<1>5. CASE SplitLeafOverflow
  BY <1>5, SplitLeafOverflowShape
<1>6. CASE SplitLeafErr
  BY <1>6, NothingWrittenShape DEF SplitLeafErr, NoRoom
<1>7. CASE InsertIntoInternal
  BY <1>7, InsertIntoInternalShape
<1>8. CASE SplitInternal
  BY <1>8, SplitInternalShape
<1>9. CASE SplitInternalErr
  BY <1>9, SplitInternalErrShape
<1>10. CASE NewRoot
  BY <1>10, NewRootShape
<1>11. CASE NewRootErr
  BY <1>11, NothingWrittenShape DEF NewRootErr
<1>12. CASE UNCHANGED vars
  BY <1>12 DEF vars, insertion, ShapeInv, PagesOK, NodeOK, InsertOK, HistoryOK, Page, IsLeaf
<1> QED
  BY <1>1, <1>2, <1>3, <1>4, <1>5, <1>6, <1>7, <1>8, <1>9, <1>10, <1>11, <1>12 DEF Next, Step

\* Every reachable tree is well formed: nodes hold what insert puts there, links lead
\* to pages, and the locals of an insert under way fit its place in the code.
THEOREM ShapeInvariant == Spec => []ShapeInv
BY InitShape, ShapeStep, PTL DEF Spec

\* The type invariant of the runs, for trees of any size: the page limit is respected,
\* every child and next_leaf pointer leads to a page, a node has one child more than
\* keys, and (with unique keys) no INSERT both succeeds and fails.
THEOREM TypeCorrect == Spec => []TypeOK
<1>1. ShapeInv => TypeOK
  <2> SUFFICES ASSUME ShapeInv PROVE TypeOK  OBVIOUS
  <2>1. PagesOK /\ InsertOK /\ HistoryOK
    BY DEF ShapeInv
  <2>2. ASSUME NEW p \in 1 .. Len(pages)
        PROVE  \/ /\ IsLeaf(p) /\ pages[p].next \in 0 .. Len(pages)
                  /\ ToSet(pages[p].cells) \subseteq Cell
               \/ /\ ~IsLeaf(p) /\ ToSet(pages[p].keys) \subseteq Keys
                  /\ ToSet(pages[p].kids) \subseteq 1 .. Len(pages)
                  /\ Len(pages[p].kids) = Len(pages[p].keys) + 1
    <3>1. p \in Page
      BY DEF Page
    <3>2. \A S : \A s \in Seq(S) : ToSet(s) \subseteq S
      BY LenProperties DEF ToSet
    <3>3. CASE IsLeaf(p)
      BY <2>1, <3>1, <3>2, <3>3, LeafFields
    <3>4. CASE ~IsLeaf(p)
      BY <2>1, <3>1, <3>2, <3>4, InternalFields DEF Page
    <3> QED  BY <3>3, <3>4
  <2> QED  BY <2>1, <2>2 DEF TypeOK, InsertOK, HistoryOK, Page
<1> QED  BY <1>1, ShapeInvariant, PTL

-----------------------------------------------------------------------------
(***************************************************************************)
(* The second half of the inductive invariant: the chain of the leaves, the*)
(* way down to its first leaf, and the cells.                              *)
(***************************************************************************)
\* ord is the chain of the leaves: it starts at page 1, follows next_leaf, visits
\* every leaf once and ends.
ChainOf(ord) ==
  /\ ord \in Seq(Page) /\ Len(ord) \in 1 .. Len(pages)
  /\ ord[1] = 1
  /\ \A i \in 1 .. Len(ord) : IsLeaf(ord[i])
  /\ \A i, j \in 1 .. Len(ord) : ord[i] = ord[j] => i = j
  /\ \A p \in Page : IsLeaf(p) => \E i \in 1 .. Len(ord) : ord[i] = p
  /\ \A i \in 1 .. Len(ord) - 1 : pages[ord[i]].next = ord[i + 1]
  /\ pages[ord[Len(ord)]].next = 0

ChainInv == \E ord : ChainOf(ord)

\* The first children lead from the root to page 1.
SpineInv ==
  \E spine \in SUBSET Page :
    /\ root_page \in spine
    /\ \A p \in spine : IF IsLeaf(p) THEN p = 1 ELSE pages[p].kids[1] \in spine

\* A cell is in some leaf.
Stored(x) == \E p \in Page : IsLeaf(p) /\ \E i \in 1 .. Len(pages[p].cells) : pages[p].cells[i] = x

\* No key is in two places.
KeysApart ==
  \A p, q \in Page : IsLeaf(p) /\ IsLeaf(q) =>
    \A i \in 1 .. Len(pages[p].cells), j \in 1 .. Len(pages[q].cells) :
      pages[p].cells[i].key = pages[q].cells[j].key => p = q /\ i = j

\* The cells in the leaves are those of the history: every acknowledged one, and
\* besides them at most failed ones and the one of an insert that still promotes.
CellsInv ==
  /\ KeysApart
  /\ \A x \in acked : Stored(x)
  /\ \A x : Stored(x) => x \in acked \cup failed \/ (pc = "promote" /\ x = cell)
  /\ pc = "promote" => Stored(cell)

TreeInv == ShapeInv /\ ChainInv /\ SpineInv /\ (UniqueKeys => CellsInv)

\* A step that keeps the leaves and their links: pages it adds are internal nodes.
LinksKept ==
  /\ Page \subseteq Page' /\ Len(pages) <= Len(pages')
  /\ \A p \in Page :
       /\ pages'[p].type = "leaf" <=> pages[p].type = "leaf"
       /\ IsLeaf(p) => pages'[p].next = pages[p].next
  /\ \A p \in Page' \ Page : pages'[p].type # "leaf"

\* A step that leaves the leaves alone.
LeavesKept ==
  /\ Page \subseteq Page' /\ Len(pages) <= Len(pages')
  /\ \A p \in Page :
       /\ pages'[p].type = "leaf" <=> pages[p].type = "leaf"
       /\ IsLeaf(p) => pages'[p] = pages[p]
  /\ \A p \in Page' \ Page : pages'[p].type # "leaf"

\* What a step that keeps the leaves preserves.
LEMMA ChainKept ==
  ASSUME ChainInv, LinksKept, Len(pages) \in Nat, Len(pages') \in Nat
  PROVE  ChainInv'
<1>1. PICK ord : ChainOf(ord)
  BY DEF ChainInv
<1>2. /\ ord \in Seq(Page) /\ Len(ord) \in 1 .. Len(pages)
      /\ ord[1] = 1
      /\ \A i \in 1 .. Len(ord) : ord[i] \in Page /\ IsLeaf(ord[i])
      /\ \A i, j \in 1 .. Len(ord) : ord[i] = ord[j] => i = j
      /\ \A p \in Page : IsLeaf(p) => \E i \in 1 .. Len(ord) : ord[i] = p
      /\ \A i \in 1 .. Len(ord) - 1 : pages[ord[i]].next = ord[i + 1]
      /\ pages[ord[Len(ord)]].next = 0
  BY <1>1, ElementOfSeq DEF ChainOf
<1>3. ord \in Seq(Page')
  BY <1>2, SeqMonotonic DEF LinksKept
<1>4. Len(ord) \in 1 .. Len(pages')
  BY <1>2 DEF LinksKept
<1>5. \A i \in 1 .. Len(ord) : pages'[ord[i]].next = pages[ord[i]].next /\ pages'[ord[i]].type = "leaf"
  BY <1>2 DEF LinksKept, IsLeaf
<1>6. \A p \in Page' : pages'[p].type = "leaf" => \E i \in 1 .. Len(ord) : ord[i] = p
  BY <1>2 DEF LinksKept, IsLeaf
<1>7. \A i \in 1 .. Len(ord) - 1 : i \in 1 .. Len(ord)
  BY <1>2
<1>8. Len(ord) \in 1 .. Len(ord)
  BY <1>2
<1>9. /\ \A i \in 1 .. Len(ord) - 1 : pages'[ord[i]].next = ord[i + 1]
      /\ pages'[ord[Len(ord)]].next = 0
  <2>1. ASSUME NEW i \in 1 .. Len(ord) - 1 PROVE pages'[ord[i]].next = ord[i + 1]
    <3>1. pages'[ord[i]].next = pages[ord[i]].next
      BY <1>5, <1>7
    <3>2. pages[ord[i]].next = ord[i + 1]
      BY <1>2
    <3> QED  BY <3>1, <3>2
  <2>2. pages'[ord[Len(ord)]].next = 0
    <3>1. pages'[ord[Len(ord)]].next = pages[ord[Len(ord)]].next
      BY <1>5, <1>8
    <3> QED  BY <1>2, <3>1
  <2> QED  BY <2>1, <2>2
<1>10. ChainOf(ord)'
  BY <1>2, <1>3, <1>4, <1>5, <1>6, <1>9 DEF ChainOf, IsLeaf
<1> QED  BY <1>10 DEF ChainInv

LEMMA SpineKept ==
  ASSUME SpineInv, Page \subseteq Page', root_page' = root_page,
         \A p \in Page : /\ pages'[p].type = "leaf" <=> pages[p].type = "leaf"
                         /\ ~IsLeaf(p) => pages'[p].kids[1] = pages[p].kids[1]
  PROVE  SpineInv'
<1>1. PICK spine \in SUBSET Page :
        /\ root_page \in spine
        /\ \A p \in spine : IF IsLeaf(p) THEN p = 1 ELSE pages[p].kids[1] \in spine
  BY DEF SpineInv
<1>2. \A p \in spine : IF pages'[p].type = "leaf" THEN p = 1 ELSE pages'[p].kids[1] \in spine
  BY <1>1 DEF IsLeaf
<1>3. spine \in SUBSET Page' /\ root_page' \in spine
  BY <1>1
<1> QED  BY <1>2, <1>3 DEF SpineInv, IsLeaf

LEMMA StoredKept ==
  ASSUME LeavesKept, NEW x
  PROVE  Stored(x)' <=> Stored(x)
<1>1. ASSUME NEW p \in Page, IsLeaf(p), NEW i \in 1 .. Len(pages[p].cells), pages[p].cells[i] = x
      PROVE  Stored(x)'
  BY <1>1 DEF LeavesKept, Stored, IsLeaf
<1>2. ASSUME NEW p \in Page', pages'[p].type = "leaf", NEW i \in 1 .. Len(pages'[p].cells),
             pages'[p].cells[i] = x
      PROVE  Stored(x)
  BY <1>2 DEF LeavesKept, Stored, IsLeaf
<1> QED  BY <1>1, <1>2 DEF Stored, IsLeaf

LEMMA KeysApartKept ==
  ASSUME LeavesKept, KeysApart
  PROVE  KeysApart'
<1>1. \A p \in Page' : pages'[p].type = "leaf" => p \in Page /\ pages[p].type = "leaf" /\ pages'[p] = pages[p]
  BY DEF LeavesKept, IsLeaf
<1>2. ASSUME NEW p \in Page', NEW q \in Page', pages'[p].type = "leaf", pages'[q].type = "leaf",
             NEW i \in 1 .. Len(pages'[p].cells), NEW j \in 1 .. Len(pages'[q].cells),
             pages'[p].cells[i].key = pages'[q].cells[j].key
      PROVE  p = q /\ i = j
  <2>1. /\ p \in Page /\ pages[p].type = "leaf" /\ pages'[p] = pages[p]
        /\ q \in Page /\ pages[q].type = "leaf" /\ pages'[q] = pages[q]
    BY <1>1, <1>2
  <2>2. /\ i \in 1 .. Len(pages[p].cells) /\ j \in 1 .. Len(pages[q].cells)
        /\ pages[p].cells[i].key = pages[q].cells[j].key
    BY <1>2, <2>1
  <2> QED  BY <2>1, <2>2 DEF KeysApart, IsLeaf
<1> QED  BY <1>2 DEF KeysApart, IsLeaf

LEMMA CellsKept ==
  ASSUME LeavesKept, CellsInv,
         \/ pc # "promote" /\ pc' # "promote" /\ acked' = acked /\ failed \subseteq failed'
         \/ pc = "promote" /\ pc' = "promote" /\ UNCHANGED <<cell, acked, failed>>
         \/ pc = "promote" /\ (Succeed \/ Fail)
  PROVE  CellsInv'
<1>1. \A x : Stored(x)' <=> Stored(x)
  BY StoredKept
<1>2. KeysApart'
  BY KeysApartKept DEF CellsInv
<1>3. CASE pc # "promote" /\ pc' # "promote" /\ acked' = acked /\ failed \subseteq failed'
  BY <1>1, <1>2, <1>3 DEF CellsInv
<1>4. CASE pc = "promote" /\ pc' = "promote" /\ UNCHANGED <<cell, acked, failed>>
  <2>1. Stored(cell)' 
    <3>1. Stored(cell)
      BY <1>4 DEF CellsInv
    <3> DEFINE c == cell
    <3>2. c' = c  BY <1>4
    <3> QED  BY <1>4, <3>1, <1>1 DEF Stored
  <2> QED  BY <1>1, <1>2, <1>4, <2>1 DEF CellsInv
<1>5. CASE pc = "promote" /\ (Succeed \/ Fail)
  <2>1. pc' = "idle" /\ acked \subseteq acked' /\ failed \subseteq failed'
        /\ cell \in acked' \cup failed' /\ acked' \subseteq acked \cup {cell}
    BY <1>5 DEF Succeed, Fail, Return
  <2> QED  BY <1>1, <1>2, <1>5, <2>1 DEF CellsInv
<1> QED  BY <1>3, <1>4, <1>5

\* t has the cells of s and c, each once.
OneMore(t, s, c) ==
  /\ \A i, j \in 1 .. Len(t) : t[i].key = t[j].key => i = j
  /\ \A i \in 1 .. Len(t) : t[i] = c \/ \E j \in 1 .. Len(s) : t[i] = s[j]
  /\ \A j \in 1 .. Len(s) : \E i \in 1 .. Len(t) : t[i] = s[j]
  /\ \E i \in 1 .. Len(t) : t[i] = c

\* The cells of a leaf with one more, by place.
LEMMA AddedCells ==
  ASSUME NEW s \in Seq(Cell), NEW t \in Seq(Cell), NEW c \in Cell, NEW q, CellAdded(t, s, c, q),
         \A i, j \in 1 .. Len(s) : s[i].key = s[j].key => i = j,
         \A i \in 1 .. Len(s) : s[i].key # c.key
  PROVE  OneMore(t, s, c)
<1>1. /\ q \in 1 .. Len(s) + 1 /\ Len(t) = Len(s) + 1
      /\ \A j \in 1 .. q - 1 : t[j] = s[j]
      /\ t[q] = c
      /\ \A j \in q + 1 .. Len(s) + 1 : t[j] = s[j - 1]
  BY DEF CellAdded, InsertedAt
<1> DEFINE old(i) == IF i < q THEN i ELSE i - 1
<1>2. \A i \in 1 .. Len(t) : i # q => old(i) \in 1 .. Len(s) /\ t[i] = s[old(i)]
  <2>1. \A i \in 1 .. Len(t) : i < q => i \in 1 .. q - 1 /\ i \in 1 .. Len(s)
    BY <1>1
  <2>2. \A i \in 1 .. Len(t) : i > q => i \in q + 1 .. Len(s) + 1 /\ i - 1 \in 1 .. Len(s)
    BY <1>1
  <2>3. \A i \in 1 .. Len(t) : i # q => i < q \/ i > q
    BY <1>1
  <2> QED  BY <1>1, <2>1, <2>2, <2>3
<1>3. \A i, j \in 1 .. Len(t) : i # q /\ j # q /\ old(i) = old(j) => i = j
  BY <1>1
<1>4. ASSUME NEW i \in 1 .. Len(t), NEW j \in 1 .. Len(t), t[i].key = t[j].key PROVE i = j
  <2> HIDE DEF old
  <2>1. CASE i # q /\ j # q
    BY <1>2, <1>3, <1>4, <2>1
  <2>2. CASE i = q /\ j # q
    BY <1>1, <1>2, <1>4, <2>2
  <2>3. CASE i # q /\ j = q
    <3>1. t[i] = s[old(i)] /\ old(i) \in 1 .. Len(s)
      BY <1>2, <2>3
    <3> QED  BY <1>1, <1>4, <2>3, <3>1
  <2> QED  BY <2>1, <2>2, <2>3
<1>5. ASSUME NEW i \in 1 .. Len(t) PROVE t[i] = c \/ \E j \in 1 .. Len(s) : t[i] = s[j]
  <2> HIDE DEF old
  <2> QED  BY <1>1, <1>2
<1>6. ASSUME NEW j \in 1 .. Len(s) PROVE \E i \in 1 .. Len(t) : t[i] = s[j]
  <2>1. CASE j < q
    BY <1>1, <2>1
  <2>2. CASE j >= q
    <3>1. j + 1 \in q + 1 .. Len(s) + 1 /\ j + 1 \in 1 .. Len(t) /\ (j + 1) - 1 = j
      BY <1>1, <2>2
    <3>2. t[j + 1] = s[j]
      BY <1>1, <3>1
    <3> QED  BY <3>1, <3>2
  <2> QED  BY <1>1, <2>1, <2>2
<1>7. q \in 1 .. Len(t)
  BY <1>1
<1> QED  BY <1>1, <1>4, <1>5, <1>6, <1>7 DEF OneMore

\* With unique keys, the cell to insert is new to every leaf.
LEMMA FreshCell ==
  ASSUME ShapeInv, CellsInv, UniqueKeys, pc = "descend", cur \in Page, IsLeaf(cur)
  PROVE  /\ cell \in Cell /\ pages[cur].cells \in Seq(Cell)
         /\ \A p \in Page : IsLeaf(p) => \A i \in 1 .. Len(pages[p].cells) : pages[p].cells[i].key # cell.key
         /\ \A i, j \in 1 .. Len(pages[cur].cells) :
               pages[cur].cells[i].key = pages[cur].cells[j].key => i = j
<1>1. cell \in Cell /\ \A x \in acked \cup failed : x.key # cell.key
  BY DEF ShapeInv, HistoryOK
<1>2. pages[cur].cells \in Seq(Cell)
  BY LeafFields DEF ShapeInv
<1>3. ASSUME NEW p \in Page, IsLeaf(p), NEW i \in 1 .. Len(pages[p].cells)
      PROVE  pages[p].cells[i].key # cell.key
  <2>1. Stored(pages[p].cells[i])
    BY <1>3 DEF Stored
  <2>2. pages[p].cells[i] \in acked \cup failed
    BY <2>1 DEF CellsInv
  <2> QED  BY <1>1, <2>2
<1>4. \A i, j \in 1 .. Len(pages[cur].cells) :
               pages[cur].cells[i].key = pages[cur].cells[j].key => i = j
  BY DEF CellsInv, KeysApart
<1> QED  BY <1>1, <1>2, <1>3, <1>4

\* The two actions that add a cell: it is new, the others keep their places or move
\* to the new leaf with their neighbours.
LEMMA InsertIntoLeafCells ==
  ASSUME ShapeInv, CellsInv, UniqueKeys, InsertIntoLeaf
  PROVE  CellsInv'
<1>1. /\ pc = "descend" /\ cur \in Page /\ IsLeaf(cur) /\ Succeed
      /\ Len(pages') = Len(pages)
      /\ \A p \in Page : p # cur => pages'[p] = pages[p]
      /\ pages'[cur].type = "leaf"
      /\ pages'[cur].cells = WithCell(pages[cur].cells, cell)
  BY InsertIntoLeafEffect
<1> DEFINE s == pages[cur].cells
           t == WithCell(pages[cur].cells, cell)
           c == cell
           u == cur
<1>2. /\ c \in Cell /\ s \in Seq(Cell)
      /\ \A p \in Page : IsLeaf(p) => \A i \in 1 .. Len(pages[p].cells) : pages[p].cells[i].key # c.key
      /\ \A i, j \in 1 .. Len(s) : s[i].key = s[j].key => i = j
  BY <1>1, FreshCell
<1>3. t \in Seq(Cell) /\ \E q \in 1 .. Len(s) + 1 : CellAdded(t, s, c, q)
  BY <1>2, WithCellProperties
<1>4. /\ Page' = Page
      /\ pages'[u].type = "leaf" /\ pages'[u].cells = t /\ u \in Page /\ pages[u].cells = s
      /\ pages[u].type = "leaf"
      /\ \A p \in Page : p # u => pages'[p] = pages[p]
  BY <1>1 DEF Page, IsLeaf
<1>5. pc' = "idle" /\ acked' = acked \cup {c} /\ failed' = failed
  BY <1>1 DEF Succeed, Return
<1> HIDE DEF s, t, c, u
<1>6. \A i \in 1 .. Len(s) : s[i].key # c.key
  BY <1>2, <1>4 DEF IsLeaf
<1>7. /\ \A i, j \in 1 .. Len(t) : t[i].key = t[j].key => i = j
      /\ \A i \in 1 .. Len(t) : t[i] = c \/ \E j \in 1 .. Len(s) : t[i] = s[j]
      /\ \A j \in 1 .. Len(s) : \E i \in 1 .. Len(t) : t[i] = s[j]
      /\ \E i \in 1 .. Len(t) : t[i] = c
  <2>1. PICK q : CellAdded(t, s, c, q)
    BY <1>3
  <2>2. OneMore(t, s, c)
    BY <1>2, <1>3, <1>6, <2>1, AddedCells
  <2> QED  BY <2>2 DEF OneMore
<1>8. \A x : Stored(x)' <=> Stored(x) \/ x = c
  <2>1. ASSUME NEW x, Stored(x) PROVE Stored(x)'
    <3>1. PICK p \in Page : pages[p].type = "leaf" /\ \E i \in 1 .. Len(pages[p].cells) : pages[p].cells[i] = x
      BY <2>1 DEF Stored, IsLeaf
    <3>2. CASE p = u
      BY <1>4, <1>7, <3>1, <3>2 DEF Stored, IsLeaf
    <3>3. CASE p # u
      BY <1>4, <3>1, <3>3 DEF Stored, IsLeaf
    <3> QED  BY <3>2, <3>3
  <2>3. ASSUME NEW x, x = c PROVE Stored(x)'
    BY <1>4, <1>7, <2>3 DEF Stored, IsLeaf
  <2>4. ASSUME NEW x, Stored(x)' PROVE Stored(x) \/ x = c
    <3>1. PICK p \in Page : pages'[p].type = "leaf" /\ \E i \in 1 .. Len(pages'[p].cells) : pages'[p].cells[i] = x
      BY <1>4, <2>4 DEF Stored, IsLeaf
    <3>2. CASE p = u
      BY <1>4, <1>7, <3>1, <3>2 DEF Stored, IsLeaf
    <3>3. CASE p # u
      BY <1>4, <3>1, <3>3 DEF Stored, IsLeaf
    <3> QED  BY <3>2, <3>3
  <2> QED  BY <2>1, <2>3, <2>4
<1>9. KeysApart'
  <2>1. ASSUME NEW p \in Page, NEW q \in Page, pages'[p].type = "leaf", pages'[q].type = "leaf",
               NEW i \in 1 .. Len(pages'[p].cells), NEW j \in 1 .. Len(pages'[q].cells),
               pages'[p].cells[i].key = pages'[q].cells[j].key
        PROVE  p = q /\ i = j
    <3>1. CASE p # u /\ q # u
      <4>1. pages'[p] = pages[p] /\ pages'[q] = pages[q]
        BY <1>4, <3>1
      <4>2. /\ pages[p].type = "leaf" /\ pages[q].type = "leaf"
            /\ i \in 1 .. Len(pages[p].cells) /\ j \in 1 .. Len(pages[q].cells)
            /\ pages[p].cells[i].key = pages[q].cells[j].key
        BY <2>1, <4>1
      <4> QED  BY <4>2 DEF CellsInv, KeysApart, IsLeaf
    <3>2. CASE p = u /\ q = u
      BY <1>4, <1>7, <2>1, <3>2
    <3>3. \A y, z \in Page : y = u /\ z # u /\ pages'[z].type = "leaf" =>
            \A k \in 1 .. Len(pages'[y].cells), l \in 1 .. Len(pages'[z].cells) :
               pages'[y].cells[k].key # pages'[z].cells[l].key
      <4> SUFFICES ASSUME NEW z \in Page, z # u, pages[z].type = "leaf",
                          NEW k \in 1 .. Len(t), NEW l \in 1 .. Len(pages[z].cells)
                   PROVE  t[k].key # pages[z].cells[l].key
        BY <1>4
      <4>1. CASE t[k] = c
        BY <1>2, <4>1 DEF IsLeaf
      <4>2. CASE \E m \in 1 .. Len(s) : t[k] = s[m]
        <5>1. PICK m \in 1 .. Len(s) : t[k] = s[m]
          BY <4>2
        <5>2. m \in 1 .. Len(pages[u].cells) /\ pages[u].cells[m] = t[k]
          BY <1>4, <5>1
        <5>3. KeysApart
          BY DEF CellsInv
        <5> QED  BY <1>4, <5>2, <5>3 DEF KeysApart, IsLeaf
      <4> QED  BY <1>7, <4>1, <4>2
    <3>4. CASE p = u /\ q # u
      BY <2>1, <3>3, <3>4
    <3>5. CASE p # u /\ q = u
      BY <2>1, <3>3, <3>5
    <3> QED  BY <3>1, <3>2, <3>4, <3>5
  <2> QED  BY <1>4, <2>1 DEF KeysApart, IsLeaf
<1>10. \A x \in acked' : Stored(x)'
  BY <1>5, <1>8 DEF CellsInv
<1>11. \A x : Stored(x)' => x \in acked' \cup failed'
  BY <1>1, <1>5, <1>8 DEF CellsInv
<1> QED  BY <1>5, <1>9, <1>10, <1>11 DEF CellsInv

LEMMA SplitLeafCells ==
  ASSUME ShapeInv, CellsInv, UniqueKeys, SplitLeaf
  PROVE  CellsInv'
<1> DEFINE new == Len(pages) + 1
           s == pages[cur].cells
           t == WithCell(pages[cur].cells, cell)
           c == cell
           u == cur
           w == new
<1>1. /\ pc = "descend" /\ cur \in Page /\ IsLeaf(cur)
      /\ Len(pages') = new
      /\ \A p \in Page : p # cur => pages'[p] = pages[p]
      /\ pages'[cur].type = "leaf" /\ pages'[new].type = "leaf"
      /\ pc' = "promote" /\ UNCHANGED <<cell, acked, failed>>
  BY SplitLeafEffect
<1>2. /\ c \in Cell /\ s \in Seq(Cell)
      /\ \A p \in Page : IsLeaf(p) => \A i \in 1 .. Len(pages[p].cells) : pages[p].cells[i].key # c.key
      /\ \A i, j \in 1 .. Len(s) : s[i].key = s[j].key => i = j
  BY <1>1, FreshCell
<1>3. t \in Seq(Cell) /\ \E q \in 1 .. Len(s) + 1 : CellAdded(t, s, c, q)
  BY <1>2, WithCellProperties
<1>4. \E n \in 1 .. Len(t) - 1 :
        /\ pages'[cur].cells = SubSeq(t, 1, n)
        /\ pages'[new].cells = SubSeq(t, n + 1, Len(t))
  <2>1. PICK r \in Seq(Cell) : \E n \in 1 .. Len(r) - 1 :
              /\ r = WithCell(pages[cur].cells, cell)
              /\ pages'[cur].cells = SubSeq(r, 1, n)
              /\ pages'[new].cells = SubSeq(r, n + 1, Len(r))
    BY SplitLeafEffect
  <2> QED  BY <2>1
<1>5. /\ Page' = Page \cup {w} /\ w \notin Page
      /\ u \in Page /\ pages[u].cells = s /\ pages[u].type = "leaf"
      /\ pages'[u].type = "leaf" /\ pages'[w].type = "leaf"
      /\ \A p \in Page : p # u => pages'[p] = pages[p]
      /\ Len(pages) \in Nat
  BY <1>1, LenPages DEF Page, IsLeaf, ShapeInv
<1>6. pc' = "promote" /\ c' = c /\ acked' = acked /\ failed' = failed /\ pc # "promote"
  BY <1>1
<1>7. PICK n \in 1 .. Len(t) - 1 :
        /\ pages'[u].cells = SubSeq(t, 1, n)
        /\ pages'[w].cells = SubSeq(t, n + 1, Len(t))
  BY <1>4
<1> HIDE DEF s, t, u, w
<1>8. /\ Len(pages'[u].cells) = n /\ \A i \in 1 .. n : pages'[u].cells[i] = t[i]
      /\ Len(pages'[w].cells) = Len(t) - n /\ \A i \in 1 .. Len(t) - n : pages'[w].cells[i] = t[n + i]
  <2>1. /\ 1 \in 1 .. Len(t) /\ n \in 1 - 1 .. Len(t) /\ Len(t) \in Nat
        /\ n + 1 \in 1 .. Len(t) /\ Len(t) \in (n + 1) - 1 .. Len(t)
    BY <1>3
  <2>2. Len(SubSeq(t, 1, n)) = n - 1 + 1 /\ \A i \in 1 .. n - 1 + 1 : SubSeq(t, 1, n)[i] = t[1 + i - 1]
    BY <1>3, <2>1, HalfProperties
  <2>3. /\ Len(SubSeq(t, n + 1, Len(t))) = Len(t) - (n + 1) + 1
        /\ \A i \in 1 .. Len(t) - (n + 1) + 1 : SubSeq(t, n + 1, Len(t))[i] = t[(n + 1) + i - 1]
    <3> DEFINE m == n + 1
    <3>1. m \in 1 .. Len(t) /\ Len(t) \in m - 1 .. Len(t)
      BY <2>1
    <3> HIDE DEF m
    <3>2. /\ Len(SubSeq(t, m, Len(t))) = Len(t) - m + 1
          /\ \A i \in 1 .. Len(t) - m + 1 : SubSeq(t, m, Len(t))[i] = t[m + i - 1]
      BY <1>3, <3>1, HalfProperties
    <3> QED  BY <3>2 DEF m
  <2> QED  BY <1>7, <2>1, <2>2, <2>3
<1>9. \A i \in 1 .. Len(s) : s[i].key # c.key
  BY <1>2, <1>5 DEF IsLeaf
<1>10. OneMore(t, s, c)
  <2>1. PICK q : CellAdded(t, s, c, q)
    BY <1>3
  <2> HIDE DEF c
  <2> QED  BY <1>2, <1>3, <1>9, <2>1, AddedCells
<1> HIDE DEF c
\* Every slot of the two halves is a slot of t, and conversely.
<1> DEFINE slot(p, i) == IF p = u THEN i ELSE n + i
<1>11. \A p \in {u, w} : \A i \in 1 .. Len(pages'[p].cells) :
          slot(p, i) \in 1 .. Len(t) /\ pages'[p].cells[i] = t[slot(p, i)]
  <2>1. Len(t) \in Nat /\ u # w
    BY <1>3, <1>5
  <2>2. \A i \in 1 .. Len(pages'[u].cells) : slot(u, i) \in 1 .. Len(t) /\ pages'[u].cells[i] = t[slot(u, i)]
    BY <1>8, <2>1
  <2>3. \A i \in 1 .. Len(pages'[w].cells) : slot(w, i) \in 1 .. Len(t) /\ pages'[w].cells[i] = t[slot(w, i)]
    BY <1>8, <2>1
  <2> QED  BY <2>2, <2>3
<1>12. \A p, q \in {u, w} : \A i \in 1 .. Len(pages'[p].cells), j \in 1 .. Len(pages'[q].cells) :
          slot(p, i) = slot(q, j) => p = q /\ i = j
  <2>1. Len(t) \in Nat /\ u # w
    BY <1>3, <1>5
  <2> QED  BY <1>8, <2>1
<1>13. \A k \in 1 .. Len(t) : \E p \in {u, w} : \E i \in 1 .. Len(pages'[p].cells) : pages'[p].cells[i] = t[k]
  <2> SUFFICES ASSUME NEW k \in 1 .. Len(t)
               PROVE  \E p \in {u, w} : \E i \in 1 .. Len(pages'[p].cells) : pages'[p].cells[i] = t[k]
    OBVIOUS
  <2>1. Len(t) \in Nat
    BY <1>3
  <2>2. CASE k <= n
    <3>1. k \in 1 .. n
      BY <2>2
    <3> QED  BY <1>8, <3>1
  <2>3. CASE k > n
    <3>1. k - n \in 1 .. Len(t) - n /\ n + (k - n) = k
      BY <2>1, <2>3
    <3> QED  BY <1>8, <3>1
  <2> QED  BY <2>1, <2>2, <2>3
<1> HIDE DEF slot
<1>14. \A x : Stored(x)' <=> Stored(x) \/ x = c
  <2>0. ASSUME NEW x, NEW k \in 1 .. Len(t), t[k] = x PROVE Stored(x)'
    <3>1. PICK p \in {u, w} : \E i \in 1 .. Len(pages'[p].cells) : pages'[p].cells[i] = t[k]
      BY <1>13
    <3>2. p \in Page' /\ pages'[p].type = "leaf"
      BY <1>5
    <3> QED  BY <2>0, <3>1, <3>2 DEF Stored, IsLeaf
  <2>1. ASSUME NEW x, Stored(x) PROVE Stored(x)'
    <3>1. PICK p \in Page : pages[p].type = "leaf" /\ \E i \in 1 .. Len(pages[p].cells) : pages[p].cells[i] = x
      BY <2>1 DEF Stored, IsLeaf
    <3>2. CASE p = u
      <4>1. \E k \in 1 .. Len(t) : t[k] = x
        BY <1>5, <1>10, <3>1, <3>2 DEF OneMore
      <4> QED  BY <2>0, <4>1
    <3>3. CASE p # u
      BY <1>5, <3>1, <3>3 DEF Stored, IsLeaf
    <3> QED  BY <3>2, <3>3
  <2>2. ASSUME NEW x, x = c PROVE Stored(x)'
    <3>1. \E k \in 1 .. Len(t) : t[k] = x
      BY <1>10, <2>2 DEF OneMore
    <3> QED  BY <2>0, <3>1
  <2>3. ASSUME NEW x, Stored(x)' PROVE Stored(x) \/ x = c
    <3>1. PICK p \in Page' : pages'[p].type = "leaf" /\ \E i \in 1 .. Len(pages'[p].cells) : pages'[p].cells[i] = x
      BY <2>3 DEF Stored, IsLeaf
    <3>2. CASE p \in {u, w}
      <4>1. \E k \in 1 .. Len(t) : t[k] = x
        BY <1>11, <3>1, <3>2
      <4>2. x = c \/ \E j \in 1 .. Len(s) : s[j] = x
        BY <1>10, <4>1 DEF OneMore
      <4> QED  BY <1>5, <4>2 DEF Stored, IsLeaf
    <3>3. CASE p \notin {u, w}
      BY <1>5, <3>1, <3>3 DEF Stored, IsLeaf
    <3> QED  BY <3>2, <3>3
  <2> QED  BY <2>1, <2>2, <2>3
<1>15. KeysApart'
  <2>1. ASSUME NEW y \in {u, w}, NEW z \in Page, z # u, pages[z].type = "leaf",
               NEW k \in 1 .. Len(pages'[y].cells), NEW l \in 1 .. Len(pages[z].cells)
        PROVE  pages'[y].cells[k].key # pages[z].cells[l].key
    <3>1. PICK m \in 1 .. Len(t) : pages'[y].cells[k] = t[m]
      BY <1>11
    <3>2. CASE t[m] = c
      BY <1>2, <2>1, <3>1, <3>2 DEF IsLeaf
    <3>3. CASE \E j \in 1 .. Len(s) : t[m] = s[j]
      <4>1. PICK j \in 1 .. Len(s) : t[m] = s[j]
        BY <3>3
      <4>2. j \in 1 .. Len(pages[u].cells) /\ pages[u].cells[j] = t[m]
        BY <1>5, <4>1
      <4>3. KeysApart
        BY DEF CellsInv
      <4> QED  BY <1>5, <2>1, <3>1, <4>2, <4>3 DEF KeysApart, IsLeaf
    <3> QED  BY <1>10, <3>2, <3>3 DEF OneMore
  <2>2. ASSUME NEW p \in Page', NEW q \in Page', pages'[p].type = "leaf", pages'[q].type = "leaf",
               NEW i \in 1 .. Len(pages'[p].cells), NEW j \in 1 .. Len(pages'[q].cells),
               pages'[p].cells[i].key = pages'[q].cells[j].key
        PROVE  p = q /\ i = j
    <3>1. CASE p \notin {u, w} /\ q \notin {u, w}
      <4>1. p \in Page /\ q \in Page /\ pages'[p] = pages[p] /\ pages'[q] = pages[q]
        BY <1>5, <3>1
      <4>2. /\ pages[p].type = "leaf" /\ pages[q].type = "leaf"
            /\ i \in 1 .. Len(pages[p].cells) /\ j \in 1 .. Len(pages[q].cells)
            /\ pages[p].cells[i].key = pages[q].cells[j].key
        BY <2>2, <4>1
      <4> QED  BY <4>1, <4>2 DEF CellsInv, KeysApart, IsLeaf
    <3>2. CASE p \in {u, w} /\ q \in {u, w}
      <4>1. /\ slot(p, i) \in 1 .. Len(t) /\ pages'[p].cells[i] = t[slot(p, i)]
            /\ slot(q, j) \in 1 .. Len(t) /\ pages'[q].cells[j] = t[slot(q, j)]
        BY <1>11, <3>2
      <4>2. slot(p, i) = slot(q, j)
        BY <1>10, <2>2, <4>1 DEF OneMore
      <4> QED  BY <1>12, <3>2, <4>2
    <3>3. CASE p \in {u, w} /\ q \notin {u, w}
      <4>1. q \in Page /\ q # u /\ pages'[q] = pages[q]
        BY <1>5, <3>3
      <4> QED  BY <2>1, <2>2, <3>3, <4>1
    <3>4. CASE p \notin {u, w} /\ q \in {u, w}
      <4>1. p \in Page /\ p # u /\ pages'[p] = pages[p]
        BY <1>5, <3>4
      <4>2. pages'[q].cells[j].key # pages[p].cells[i].key
        BY <2>1, <2>2, <3>4, <4>1
      <4> QED  BY <2>2, <4>1, <4>2
    <3> QED  BY <3>1, <3>2, <3>3, <3>4
  <2> QED  BY <2>2 DEF KeysApart, IsLeaf
<1>16. \A x \in acked' : Stored(x)'
  BY <1>6, <1>14 DEF CellsInv
<1>17. \A x : Stored(x)' => x \in acked' \cup failed' \/ x = c
  BY <1>6, <1>14 DEF CellsInv
<1>18. Stored(c)'
  <2>1. \A x : x = c => Stored(x)'
    BY <1>14
  <2> QED  BY <1>6, <2>1
<1> QED  BY <1>6, <1>15, <1>16, <1>17, <1>18 DEF CellsInv, c

\* The new leaf enters the chain after the one that was split.
LEMMA SplitLeafChain ==
  ASSUME ShapeInv, ChainInv, SplitLeaf
  PROVE  ChainInv'
<1> DEFINE w == Len(pages) + 1
           u == cur
           after == pages[cur].next
<1>1. /\ u \in Page /\ pages[u].type = "leaf" /\ pages[u].next = after
      /\ Len(pages') = w /\ Len(pages) \in Nat
      /\ \A p \in Page : p # u => pages'[p] = pages[p]
      /\ pages'[u].type = "leaf" /\ pages'[u].next = w
      /\ pages'[w].type = "leaf" /\ pages'[w].next = after
  BY SplitLeafEffect, LenPages DEF IsLeaf, ShapeInv
<1>2. Page' = Page \cup {w} /\ w \notin Page
  BY <1>1 DEF Page
<1>3. PICK ord : ChainOf(ord)
  BY DEF ChainInv
<1>4. /\ ord \in Seq(Page) /\ Len(ord) \in 1 .. Len(pages)
      /\ ord[1] = 1
      /\ \A i \in 1 .. Len(ord) : ord[i] \in Page /\ pages[ord[i]].type = "leaf"
      /\ \A i, j \in 1 .. Len(ord) : ord[i] = ord[j] => i = j
      /\ \A p \in Page : pages[p].type = "leaf" => \E i \in 1 .. Len(ord) : ord[i] = p
      /\ \A i \in 1 .. Len(ord) - 1 : pages[ord[i]].next = ord[i + 1]
      /\ pages[ord[Len(ord)]].next = 0
  BY <1>3, ElementOfSeq DEF ChainOf, IsLeaf
<1> HIDE DEF u, w, after
<1>5. PICK k \in 1 .. Len(ord) : ord[k] = u
  BY <1>1, <1>4
<1> DEFINE o == InsertAt(ord, k + 1, w)
           n == Len(ord)
<1>6. n \in Nat /\ n >= 1 /\ k \in 1 .. n
  BY <1>4
<1>7. /\ o \in Seq(Page') /\ Len(o) = n + 1
      /\ \A j \in 1 .. k : o[j] = ord[j]
      /\ o[k + 1] = w
      /\ \A j \in k + 2 .. n + 1 : o[j] = ord[j - 1]
  <2>1. ord \in Seq(Page') /\ w \in Page'
    BY <1>2, <1>4, SeqMonotonic
  <2> DEFINE r == k + 1
  <2>2. r \in 1 .. Len(ord) + 1
    BY <1>6
  <2> HIDE DEF r
  <2>3. InsertAt(ord, r, w) \in Seq(Page') /\ InsertedAt(InsertAt(ord, r, w), ord, r, w)
    BY <2>1, <2>2, InsertAtProperties
  <2> QED  BY <1>6, <2>3 DEF InsertedAt, r
<1> HIDE DEF o, n
<1>8. \A i \in 1 .. n : ord[i] # w
  BY <1>2, <1>4 DEF n
<1> DEFINE old(i) == IF i <= k THEN i ELSE i - 1
<1>9. \A i \in 1 .. n + 1 : i # k + 1 => old(i) \in 1 .. n /\ o[i] = ord[old(i)]
  <2>1. \A i \in 1 .. n + 1 : i # k + 1 => i \in 1 .. k \/ i \in k + 2 .. n + 1
    BY <1>6
  <2> QED  BY <1>6, <1>7, <2>1
<1>10. \A i, j \in 1 .. n + 1 : i # k + 1 /\ j # k + 1 /\ old(i) = old(j) => i = j
  BY <1>6
<1>11. \A i \in 1 .. n + 1 : i # k + 1 /\ i # k => old(i) # k
  BY <1>6
<1> HIDE DEF old
<1>12. \A i \in 1 .. n + 1 : pages'[o[i]].type = "leaf"
  <2>1. ASSUME NEW i \in 1 .. n PROVE pages'[ord[i]].type = "leaf"
    BY <1>1, <1>4 DEF n
  <2> QED  BY <1>1, <1>7, <1>9, <2>1
<1>13. ASSUME NEW i \in 1 .. n + 1, NEW j \in 1 .. n + 1, o[i] = o[j] PROVE i = j
  <2>1. CASE i # k + 1 /\ j # k + 1
    <3>1. ord[old(i)] = ord[old(j)] /\ old(i) \in 1 .. n /\ old(j) \in 1 .. n
      BY <1>9, <1>13, <2>1
    <3>2. old(i) = old(j)
      BY <1>4, <3>1 DEF n
    <3> QED  BY <1>10, <2>1, <3>2
  <2>2. CASE i = k + 1 /\ j # k + 1
    BY <1>7, <1>8, <1>9, <1>13, <2>2
  <2>3. CASE i # k + 1 /\ j = k + 1
    BY <1>7, <1>8, <1>9, <1>13, <2>3
  <2> QED  BY <2>1, <2>2, <2>3
<1>14. ASSUME NEW p \in Page', pages'[p].type = "leaf" PROVE \E i \in 1 .. n + 1 : o[i] = p
  <2>1. CASE p = w
    <3>1. k + 1 \in 1 .. n + 1
      BY <1>6
    <3> QED  BY <1>7, <2>1, <3>1
  <2>2. CASE p \in Page
    <3>1. pages[p].type = "leaf"
      BY <1>1, <1>14, <2>2
    <3>2. PICK j \in 1 .. n : ord[j] = p
      BY <1>4, <2>2, <3>1 DEF n
    <3>3. CASE j <= k
      BY <1>6, <1>7, <3>2, <3>3
    <3>4. CASE j > k
      <4>1. j + 1 \in k + 2 .. n + 1 /\ j + 1 \in 1 .. n + 1 /\ (j + 1) - 1 = j
        BY <1>6, <3>4
      <4> QED  BY <1>7, <3>2, <4>1
    <3> QED  BY <1>6, <3>3, <3>4
  <2> QED  BY <1>2, <2>1, <2>2
<1>15. \A i \in 1 .. n : i # k => pages'[ord[i]] = pages[ord[i]]
  BY <1>1, <1>4, <1>5 DEF n
<1>16. ASSUME NEW i \in 1 .. n PROVE pages'[o[i]].next = o[i + 1]
  <2>1. CASE i < k
    <3>1. o[i] = ord[i] /\ o[i + 1] = ord[i + 1] /\ i \in 1 .. n - 1
      BY <1>6, <1>7, <2>1
    <3>2. pages'[ord[i]] = pages[ord[i]]
      BY <1>15, <2>1
    <3>3. pages[ord[i]].next = ord[i + 1]
      BY <1>4, <3>1 DEF n
    <3> QED  BY <3>1, <3>2, <3>3
  <2>2. CASE i = k
    BY <1>1, <1>5, <1>6, <1>7, <2>2
  <2>3. CASE i = k + 1
    <3>1. o[i] = w /\ i + 1 \in k + 2 .. n + 1 /\ (i + 1) - 1 = k + 1 /\ k \in 1 .. n - 1
      BY <1>6, <1>7, <2>3
    <3>2. o[i + 1] = ord[k + 1]
      BY <1>7, <3>1
    <3>3. pages[ord[k]].next = ord[k + 1]
      BY <1>4, <3>1 DEF n
    <3> QED  BY <1>1, <1>5, <3>1, <3>2, <3>3
  <2>4. CASE i > k + 1
    <3>1. i \in k + 2 .. n + 1 /\ i + 1 \in k + 2 .. n + 1 /\ i - 1 \in 1 .. n - 1 /\ i - 1 # k
          /\ (i + 1) - 1 = i /\ (i - 1) + 1 = i /\ i - 1 \in 1 .. n
      BY <1>6, <2>4
    <3>2. o[i] = ord[i - 1] /\ o[i + 1] = ord[i]
      BY <1>7, <3>1
    <3>3. pages'[ord[i - 1]] = pages[ord[i - 1]]
      BY <1>15, <3>1
    <3>4. pages[ord[i - 1]].next = ord[i]
      BY <1>4, <3>1 DEF n
    <3> QED  BY <3>2, <3>3, <3>4
  <2> QED  BY <1>6, <2>1, <2>2, <2>3, <2>4
<1>17. pages'[o[n + 1]].next = 0
  <2>1. CASE k = n
    BY <1>1, <1>4, <1>5, <1>7, <2>1 DEF n
  <2>2. CASE k # n
    <3>1. n + 1 \in k + 2 .. n + 1 /\ (n + 1) - 1 = n /\ n \in 1 .. n
      BY <1>6, <2>2
    <3>2. o[n + 1] = ord[n]
      BY <1>7, <3>1
    <3>3. pages'[ord[n]] = pages[ord[n]]
      BY <1>15, <2>2, <3>1
    <3>4. pages[ord[n]].next = 0
      BY <1>4 DEF n
    <3> QED  BY <3>2, <3>3, <3>4
  <2> QED  BY <2>1, <2>2
<1>18. o[1] = 1
  BY <1>4, <1>6, <1>7
<1>19. n + 1 \in 1 .. Len(pages') /\ n + 1 - 1 = n
  BY <1>1, <1>4, <1>6 DEF n, w
<1>20. ASSUME NEW r, r = o PROVE ChainOf(r)'
  <2>1. \A i \in 1 .. Len(r) - 1 : pages'[r[i]].next = r[i + 1]
    BY <1>6, <1>7, <1>16, <1>19, <1>20
  <2>2. pages'[r[Len(r)]].next = 0
    BY <1>7, <1>17, <1>20
  <2>3. r \in Seq(Page') /\ Len(r) \in 1 .. Len(pages') /\ r[1] = 1
    BY <1>7, <1>18, <1>19, <1>20
  <2>4. \A i \in 1 .. Len(r) : pages'[r[i]].type = "leaf"
    BY <1>7, <1>12, <1>20
  <2>5. \A i, j \in 1 .. Len(r) : r[i] = r[j] => i = j
    BY <1>7, <1>13, <1>20
  <2>6. \A p \in Page' : pages'[p].type = "leaf" => \E i \in 1 .. Len(r) : r[i] = p
    BY <1>7, <1>14, <1>20
  <2> QED  BY <2>1, <2>2, <2>3, <2>4, <2>5, <2>6 DEF ChainOf, IsLeaf
<1> QED  BY <1>20 DEF ChainInv

-----------------------------------------------------------------------------
(***************************************************************************)
(* The second half is preserved, action by action.                         *)
(***************************************************************************)
LEMMA InitTree == Init => TreeInv
<1> SUFFICES ASSUME Init PROVE TreeInv  OBVIOUS
<1>1. ShapeInv
  BY InitShape
<1>2. Len(pages) = 1 /\ pages[1].type = "leaf" /\ pages[1].cells = <<>> /\ pages[1].next = 0
  <2>1. pages = <<Leaf(<<>>, 0)>>
    BY DEF Init
  <2> DEFINE x == Leaf(<<>>, 0)
  <2>2. x.type = "leaf" /\ x.cells = <<>> /\ x.next = 0
    BY DEF Leaf
  <2>3. pages = <<x>>
    BY <2>1
  <2> HIDE DEF x
  <2> QED  BY <2>2, <2>3
<1>3. Page = {1} /\ root_page = 1 /\ pc = "idle" /\ acked = {}
  BY <1>2 DEF Init, Page
<1>4. ChainInv
  <2> DEFINE o == <<1>>
  <2>1. o \in Seq(Page) /\ Len(o) = 1 /\ o[1] = 1
    BY <1>3
  <2> HIDE DEF o
  <2>2. ChainOf(o)
    BY <1>2, <1>3, <2>1 DEF ChainOf, IsLeaf
  <2> QED  BY <2>2 DEF ChainInv
<1>5. SpineInv
  BY <1>2, <1>3 DEF SpineInv, IsLeaf
<1>6. CellsInv
  <2>1. \A p \in Page : Len(pages[p].cells) = 0
    BY <1>2, <1>3
  <2>2. \A x : ~Stored(x)
    BY <2>1 DEF Stored
  <2>3. KeysApart
    BY <2>1 DEF KeysApart
  <2> QED  BY <1>3, <2>2, <2>3 DEF CellsInv
<1> QED  BY <1>1, <1>4, <1>5, <1>6 DEF TreeInv

\* The other actions: the leaves stay as they are.
LEMMA UnchangedLeaves ==
  ASSUME ShapeInv, UNCHANGED pages
  PROVE  LeavesKept
<1>1. Len(pages) \in Nat
  BY LenPages DEF ShapeInv
<1> QED  BY <1>1 DEF LeavesKept, Page

\* A step that keeps the leaves and the first children keeps chain and spine.
LEMMA LeavesKeptStep ==
  ASSUME TreeInv, ShapeInv', LeavesKept
  PROVE  ChainInv'
<1>1. Len(pages) \in Nat /\ Len(pages') \in Nat
  <2>1. ShapeInv /\ ShapeInv'
    BY DEF TreeInv
  <2>2. PagesOK /\ PagesOK'
    BY <2>1 DEF ShapeInv
  <2>3. pages \in Seq(Node) /\ pages' \in Seq(Node)
    BY <2>2 DEF PagesOK, Node, LeafNode, InternalNode
  <2> QED  BY <2>3
<1>2. LinksKept
  BY DEF LeavesKept, LinksKept
<1> QED  BY <1>1, <1>2, ChainKept DEF TreeInv

LEMMA UnchangedTree ==
  ASSUME TreeInv, ShapeInv', UNCHANGED <<pages, root_page>>
  PROVE  LeavesKept /\ ChainInv' /\ SpineInv'
<1>1. LeavesKept
  BY UnchangedLeaves DEF TreeInv
<1>2. ChainInv'
  BY <1>1, LeavesKeptStep
<1>3. SpineInv'
  BY SpineKept DEF TreeInv, Page
<1> QED  BY <1>1, <1>2, <1>3

LEMMA InternalTree ==
  ASSUME TreeInv, ShapeInv',
         InsertIntoInternal \/ SplitInternal \/ SplitInternalErr \/ NewRoot
  PROVE  LeavesKept
<1>1. ShapeInv /\ Len(pages) \in Nat
  BY LenPages DEF TreeInv, ShapeInv
<1>2. CASE InsertIntoInternal
  <2>1. /\ pc = "promote" /\ path # <<>> /\ Len(pages') = Len(pages)
        /\ \A p \in Page : p # Parent => pages'[p] = pages[p]
        /\ pages'[Parent] = Combined
    BY <1>1, <1>2, InsertIntoInternalEffect
  <2>2. ~IsLeaf(Parent)
    BY <1>1, <2>1, ParentFacts
  <2>3. Combined.type = "internal"
    BY <1>1, <2>1, CombinedProperties, InternalType
  <2> QED  BY <1>1, <2>1, <2>2, <2>3 DEF LeavesKept, Page, IsLeaf
<1>3. CASE SplitInternal
  <2>1. /\ pc = "promote" /\ path # <<>> /\ Len(pages') = Len(pages) + 1 /\ ParentFull
        /\ \A p \in Page : p # Parent => pages'[p] = pages[p]
        /\ pages'[Parent] = LeftHalf /\ pages'[Len(pages) + 1] = RightHalf
    BY <1>1, <1>3, SplitInternalEffect
  <2>2. ~IsLeaf(Parent)
    BY <1>1, <2>1, ParentFacts
  <2>3. LeftHalf.type = "internal" /\ RightHalf.type = "internal"
    BY <1>1, <2>1, HalvesShape
  <2>4. \A p \in Page' \ Page : p = Len(pages) + 1
    BY <1>1, <2>1 DEF Page
  <2> QED  BY <1>1, <2>1, <2>2, <2>3, <2>4 DEF LeavesKept, Page, IsLeaf
<1>4. CASE SplitInternalErr
  <2>1. /\ pc = "promote" /\ path # <<>> /\ Len(pages') = Len(pages) /\ ParentFull
        /\ \A p \in Page : p # Parent => pages'[p] = pages[p]
        /\ pages'[Parent] = LeftHalf
    BY <1>1, <1>4, SplitInternalErrEffect
  <2>2. ~IsLeaf(Parent)
    BY <1>1, <2>1, ParentFacts
  <2>3. LeftHalf.type = "internal"
    BY <1>1, <2>1, HalvesShape
  <2> QED  BY <1>1, <2>1, <2>2, <2>3 DEF LeavesKept, Page, IsLeaf
<1>5. CASE NewRoot
  <2>1. /\ Len(pages') = Len(pages) + 1
        /\ \A p \in Page : pages'[p] = pages[p]
        /\ pages'[Len(pages) + 1].type = "internal"
    BY <1>1, <1>5, NewRootEffect
  <2>2. \A p \in Page' \ Page : p = Len(pages) + 1
    BY <1>1, <2>1 DEF Page
  <2> QED  BY <1>1, <2>1, <2>2 DEF LeavesKept, Page, IsLeaf
<1> QED  BY <1>2, <1>3, <1>4, <1>5

\* The spine through a change of an internal node, a new root and a change of a leaf.
LEMMA InternalSpine ==
  ASSUME TreeInv, InsertIntoInternal \/ SplitInternal \/ SplitInternalErr
  PROVE  SpineInv'
<1>1. ShapeInv /\ Len(pages) \in Nat
  BY LenPages DEF TreeInv, ShapeInv
<1>2. /\ pc = "promote" /\ path # <<>>
      /\ Len(pages') \in Nat /\ Len(pages') >= Len(pages) /\ root_page' = root_page
      /\ \A p \in Page : p # Parent => pages'[p] = pages[p]
      /\ pages'[Parent].type = "internal"
      /\ pages'[Parent].kids[1] = pages[Parent].kids[1]
  <2>1. CASE InsertIntoInternal
    <3>1. /\ pc = "promote" /\ path # <<>> /\ Len(pages') = Len(pages) /\ root_page' = root_page
          /\ \A p \in Page : p # Parent => pages'[p] = pages[p]
          /\ pages'[Parent] = Combined
      BY <1>1, <2>1, InsertIntoInternalEffect
    <3>2. PICK keys \in Seq(Keys), kids \in Seq(Page), q \in 1 .. Len(pages[Parent].keys) + 1 :
           /\ Combined = Internal(keys, kids)
           /\ Len(kids) = Len(pages[Parent].keys) + 2
           /\ ChildAdded(keys, kids, pages[Parent], promote_key, promote_child, q)
      BY <1>1, <3>1, CombinedProperties
    <3>3. Combined.type = "internal" /\ Combined.kids = kids
      BY <1>1, <3>2, InternalType
    <3>4. kids[1] = pages[Parent].kids[1]
      BY <1>1, <3>1, <3>2, CombinedShape
    <3> QED  BY <1>1, <3>1, <3>3, <3>4
  <2>2. CASE SplitInternal
    <3>1. /\ pc = "promote" /\ path # <<>> /\ Len(pages') = Len(pages) + 1 /\ ParentFull
          /\ root_page' = root_page
          /\ \A p \in Page : p # Parent => pages'[p] = pages[p]
          /\ pages'[Parent] = LeftHalf
      BY <1>1, <2>2, SplitInternalEffect
    <3> QED  BY <1>1, <3>1, HalvesShape
  <2>3. CASE SplitInternalErr
    <3>1. /\ pc = "promote" /\ path # <<>> /\ Len(pages') = Len(pages) /\ ParentFull
          /\ root_page' = root_page
          /\ \A p \in Page : p # Parent => pages'[p] = pages[p]
          /\ pages'[Parent] = LeftHalf
      BY <1>1, <2>3, SplitInternalErrEffect
    <3> QED  BY <1>1, <3>1, HalvesShape
  <2> QED  BY <2>1, <2>2, <2>3
<1>3. ~IsLeaf(Parent)
  BY <1>1, <1>2, ParentFacts
<1>4. \A p \in Page : /\ pages'[p].type = "leaf" <=> pages[p].type = "leaf"
                      /\ ~IsLeaf(p) => pages'[p].kids[1] = pages[p].kids[1]
  BY <1>2, <1>3 DEF IsLeaf
<1>5. Page \subseteq Page'
  BY <1>1, <1>2 DEF Page
<1> QED  BY <1>2, <1>4, <1>5, SpineKept DEF TreeInv

LEMMA NewRootSpine == ASSUME TreeInv, NewRoot PROVE SpineInv'
<1> DEFINE w == Len(pages) + 1
<1>1. ShapeInv /\ Len(pages) \in Nat
  BY LenPages DEF TreeInv, ShapeInv
<1>2. /\ Len(pages') = w /\ root_page' = w
      /\ \A p \in Page : pages'[p] = pages[p]
      /\ pages'[w].type = "internal" /\ pages'[w].kids = <<root_page, promote_child>>
  BY <1>1, NewRootEffect
<1>3. PICK spine \in SUBSET Page :
        /\ root_page \in spine
        /\ \A p \in spine : IF IsLeaf(p) THEN p = 1 ELSE pages[p].kids[1] \in spine
  BY DEF TreeInv, SpineInv
<1>4. pages'[w].kids[1] = root_page
  <2> DEFINE k == pages'[w].kids
  <2>1. k = <<root_page, promote_child>>
    BY <1>2
  <2> HIDE DEF k
  <2>2. k[1] = root_page
    BY <2>1
  <2> QED  BY <2>2 DEF k
<1>5. ASSUME NEW s, s = spine \cup {w} PROVE SpineInv'
  <2>1. s \in SUBSET Page' /\ root_page' \in s
    <3>1. Page' = Page \cup {w}
      BY <1>1, <1>2 DEF Page
    <3> QED  BY <1>2, <1>3, <1>5, <3>1
  <2>2. ASSUME NEW p \in s
        PROVE  IF pages'[p].type = "leaf" THEN p = 1 ELSE pages'[p].kids[1] \in s
    <3>1. CASE p = w
      BY <1>2, <1>3, <1>4, <1>5, <3>1
    <3>2. CASE p \in spine
      <4>1. pages'[p] = pages[p]
        BY <1>2, <1>3, <3>2
      <4> QED  BY <1>3, <1>5, <3>2, <4>1 DEF IsLeaf
    <3> QED  BY <1>5, <3>1, <3>2
  <2> QED  BY <2>1, <2>2 DEF SpineInv, IsLeaf
<1> QED  BY <1>5

LEMMA LeafSpine == ASSUME TreeInv, InsertIntoLeaf \/ SplitLeaf PROVE SpineInv'
<1>1. ShapeInv /\ Len(pages) \in Nat
  BY LenPages DEF TreeInv, ShapeInv
<1>2. /\ cur \in Page /\ IsLeaf(cur) /\ root_page' = root_page
      /\ Len(pages') \in Nat /\ Len(pages') >= Len(pages)
      /\ \A p \in Page : p # cur => pages'[p] = pages[p]
      /\ pages'[cur].type = "leaf"
  <2>1. CASE InsertIntoLeaf
    BY <1>1, <2>1, InsertIntoLeafEffect
  <2>2. CASE SplitLeaf
    BY <1>1, <2>2, SplitLeafEffect
  <2> QED  BY <2>1, <2>2
<1>3. \A p \in Page : /\ pages'[p].type = "leaf" <=> pages[p].type = "leaf"
                      /\ ~IsLeaf(p) => pages'[p].kids[1] = pages[p].kids[1]
  BY <1>2 DEF IsLeaf
<1>4. Page \subseteq Page'
  BY <1>1, <1>2 DEF Page
<1> QED  BY <1>2, <1>3, <1>4, SpineKept DEF TreeInv

LEMMA InsertIntoLeafChain == ASSUME TreeInv, InsertIntoLeaf PROVE ChainInv'
<1>1. ShapeInv /\ Len(pages) \in Nat
  BY LenPages DEF TreeInv, ShapeInv
<1>2. /\ cur \in Page /\ IsLeaf(cur) /\ Len(pages') = Len(pages)
      /\ \A p \in Page : p # cur => pages'[p] = pages[p]
      /\ pages'[cur].type = "leaf" /\ pages'[cur].next = pages[cur].next
  BY <1>1, InsertIntoLeafEffect
<1>3. LinksKept
  BY <1>1, <1>2 DEF LinksKept, Page, IsLeaf
<1> QED  BY <1>1, <1>2, <1>3, ChainKept DEF TreeInv

LEMMA TreeStep == TreeInv /\ [Next]_vars => TreeInv'
<1> SUFFICES ASSUME TreeInv, [Next]_vars PROVE TreeInv'  OBVIOUS
<1>1. ShapeInv'
  BY ShapeStep DEF TreeInv
<1>2. ShapeInv /\ ChainInv /\ SpineInv /\ (UniqueKeys => CellsInv)
  BY DEF TreeInv
<1>3. ASSUME UNCHANGED <<pages, root_page>>,
             \/ pc # "promote" /\ pc' # "promote" /\ acked' = acked /\ failed \subseteq failed'
             \/ pc = "promote" /\ pc' = "promote" /\ UNCHANGED <<cell, acked, failed>>
             \/ pc = "promote" /\ (Succeed \/ Fail)
      PROVE  TreeInv'
  <2>1. LeavesKept /\ ChainInv' /\ SpineInv'
    BY <1>1, <1>3, UnchangedTree
  <2>2. UniqueKeys => CellsInv'
    BY <1>2, <1>3, <2>1, CellsKept
  <2> QED  BY <1>1, <2>1, <2>2 DEF TreeInv
<1>4. ASSUME NEW k \in Keys, NEW c \in Costs, Insert(k, c) PROVE TreeInv'
  BY <1>3, <1>4 DEF Insert
<1>5. CASE Descend
  BY <1>3, <1>5 DEF Descend
<1>6. CASE InsertIntoLeaf
  BY <1>1, <1>2, <1>6, InsertIntoLeafChain, LeafSpine, InsertIntoLeafCells DEF TreeInv
<1>7. CASE SplitLeaf
  BY <1>1, <1>2, <1>7, SplitLeafChain, LeafSpine, SplitLeafCells DEF TreeInv
<1>8. CASE SplitLeafOverflow
  <2>1. pc = "descend" /\ pc' = "broken" /\ UNCHANGED <<pages, root_page, acked, failed>>
    BY <1>8, Zenon DEF SplitLeafOverflow, NoRoom
  <2> QED  BY <1>3, <2>1
<1>9. CASE SplitLeafErr
  BY <1>3, <1>9 DEF SplitLeafErr, NoRoom, Fail, Return
<1>10. ASSUME InsertIntoInternal \/ SplitInternal \/ SplitInternalErr \/ NewRoot PROVE TreeInv'
  <2>1. LeavesKept
    BY <1>1, <1>10, InternalTree
  <2>2. ChainInv'
    BY <1>1, <2>1, LeavesKeptStep
  <2>3. SpineInv'
    BY <1>10, InternalSpine, NewRootSpine
  <2>4. UniqueKeys => CellsInv'
    <3>1. pc = "promote"
      BY <1>10 DEF InsertIntoInternal, SplitInternal, SplitInternalErr, ParentFull, NewRoot
    <3>2. \/ pc' = "promote" /\ UNCHANGED <<cell, acked, failed>>
          \/ Succeed \/ Fail
      BY <1>10, <3>1 DEF InsertIntoInternal, SplitInternal, SplitInternalErr, NewRoot
    <3> QED  BY <1>2, <2>1, <3>1, <3>2, CellsKept
  <2> QED  BY <1>1, <2>2, <2>3, <2>4 DEF TreeInv
<1>11. CASE NewRootErr
  BY <1>3, <1>11 DEF NewRootErr
<1>12. CASE UNCHANGED vars
  BY <1>3, <1>12 DEF vars, insertion
<1> QED
  BY <1>4, <1>5, <1>6, <1>7, <1>8, <1>9, <1>10, <1>11, <1>12 DEF Next, Step

\* The leaves of every reachable tree form one chain from the leftmost leaf that
\* visits each of them once, and with unique keys they hold the acknowledged cells,
\* no key twice, through every split and every allocation failure on the way.
THEOREM TreeInvariant == Spec => []TreeInv
BY InitTree, TreeStep, PTL DEF Spec


-----------------------------------------------------------------------------
(***************************************************************************)
(* What scan_all computes on such a tree.                                  *)
(***************************************************************************)
\* The equations of the two walks of scan_all.
DownRec(f, n) ==
  IF n = 0 THEN root_page
  ELSE IF IsLeaf(f[n - 1]) THEN f[n - 1] ELSE pages[f[n - 1]].kids[1]

WalkRec(f, n) ==
  IF n = 0 THEN <<LeftmostLeaf>>
  ELSE IF pages[Last(f[n - 1])].next = 0 THEN f[n - 1]
       ELSE Append(f[n - 1], pages[Last(f[n - 1])].next)

\* The first walk goes down the spine and ends at page 1.
LEMMA LeftmostLeafIsFirst == ASSUME TreeInv PROVE LeftmostLeaf = 1
<1>1. PagesOK /\ InsertOK /\ Len(pages) \in Nat
  BY LenPages DEF TreeInv, ShapeInv
<1>2. PICK spine \in SUBSET Page :
        /\ root_page \in spine
        /\ \A p \in spine : IF IsLeaf(p) THEN p = 1 ELSE pages[p].kids[1] \in spine
  BY DEF TreeInv, SpineInv
<1> DEFINE n == Len(pages)
           G == [x \in (1 .. n) \X spine |-> IF IsLeaf(x[2]) THEN x[2] ELSE pages[x[2]].kids[1]]
<1>3. G \in [(1 .. n) \X spine -> spine]
  BY <1>2
<1>4. PICK f \in [0 .. n -> spine] : f[0] = root_page /\ \A i \in 1 .. n : f[i] = G[<<i, f[i - 1]>>]
  <2> DEFINE m == 0
             a == root_page
  <2>1. m \in Int /\ n \in Int /\ m <= n /\ m + 1 = 1 /\ a \in spine
    BY <1>1, <1>2
  <2> HIDE DEF G, n, m, a
  <2>2. G \in [(m + 1 .. n) \X spine -> spine]
    BY <1>3, <2>1
  <2>3. Recursive(m, n, spine, a, G)
    BY <2>1, <2>2, Recursion
  <2> QED  BY <2>1, <2>3 DEF m, a, Recursive, Follows
<1>5. ASSUME NEW i \in 0 .. n PROVE f[i] = DownRec(f, i)
  <2>1. CASE i = 0
    BY <1>4, <2>1 DEF DownRec
  <2>2. CASE i # 0
    <3>1. i \in 1 .. n /\ i - 1 \in 0 .. n
      BY <1>1, <2>2
    <3>2. f[i - 1] \in spine
      <4> HIDE DEF G, n
      <4> QED  BY <3>1
    <3>3. <<i, f[i - 1]>> \in (1 .. n) \X spine
      BY <3>1, <3>2
    <3>4. G[<<i, f[i - 1]>>] = IF IsLeaf(f[i - 1]) THEN f[i - 1] ELSE pages[f[i - 1]].kids[1]
      BY <3>3
    <3>5. f[i] = G[<<i, f[i - 1]>>]
      <4> HIDE DEF G, n
      <4> QED  BY <1>4, <3>1
    <3> QED  BY <2>2, <3>4, <3>5, Zenon DEF DownRec
  <2> QED  BY <2>1, <2>2
<1>6. f = [i \in 0 .. n |-> DownRec(f, i)]
  BY <1>4, <1>5
<1> DEFINE down == CHOOSE g : g = [i \in 0 .. Len(pages) |-> DownRec(g, i)]
<1>7. down = [i \in 0 .. n |-> DownRec(down, i)]
  BY <1>6, Zenon
<1>8. LeftmostLeaf = down[n]
  BY Zenon DEF LeftmostLeaf, DownRec
<1> HIDE DEF down
<1>9. \A i \in 0 .. n : down[i] = DownRec(down, i)
  BY <1>7
<1> DEFINE T == {i \in 0 .. n : down[i] \in spine /\ (IsLeaf(down[i]) \/ down[i] <= root_page - i)}
<1>10. 0 \in T
  BY <1>1, <1>2, <1>9 DEF DownRec, InsertOK, Page
<1>11. ASSUME NEW i \in 0 .. n - 1, i \in T PROVE i + 1 \in T
  <2>1. i + 1 \in 0 .. n /\ i + 1 # 0 /\ (i + 1) - 1 = i
    BY <1>1
  <2>2. down[i + 1] = IF IsLeaf(down[i]) THEN down[i] ELSE pages[down[i]].kids[1]
    <3>1. down[i + 1] = DownRec(down, i + 1)
      BY <1>9, <2>1
    <3> QED  BY <2>1, <3>1 DEF DownRec
  <2>3. down[i] \in spine /\ (IsLeaf(down[i]) \/ down[i] <= root_page - i)
    BY <1>11
  <2>4. CASE IsLeaf(down[i])
    <3>1. down[i + 1] = down[i]
      BY <2>2, <2>4
    <3> QED  BY <2>1, <2>3, <2>4, <3>1
  <2>5. CASE ~IsLeaf(down[i])
    <3>1. down[i] \in Page /\ down[i] \in Int /\ root_page \in Int
      BY <1>1, <1>2, <2>3 DEF Page, InsertOK
    <3>2. pages[down[i]].kids[1] < down[i] /\ pages[down[i]].kids[1] \in Page
      <4>1. NodeOK(down[i])
        BY <1>1, <3>1 DEF PagesOK
      <4> QED  BY <1>2, <2>3, <2>5, <4>1 DEF NodeOK
    <3>3. down[i + 1] = pages[down[i]].kids[1] /\ down[i + 1] \in spine
      BY <1>2, <2>2, <2>3, <2>5
    <3>4. down[i + 1] <= root_page - (i + 1)
      BY <2>3, <2>5, <3>1, <3>2, <3>3 DEF Page
    <3> QED  BY <2>1, <3>3, <3>4
  <2> QED  BY <2>4, <2>5
<1>12. n \in T
  <2> DEFINE m == 0
  <2>1. m \in Int /\ n \in Int /\ m = 0 /\ n \in 0 .. n
    BY <1>1
  <2> HIDE DEF T, n, m
  <2>2. m .. n \subseteq T
    BY <1>10, <1>11, <2>1, Induction
  <2> QED  BY <2>1, <2>2
<1>13. down[n] \in spine /\ (IsLeaf(down[n]) \/ down[n] <= root_page - n)
  BY <1>12
<1>14. down[n] \in 1 .. n /\ root_page \in 1 .. n
  BY <1>1, <1>2, <1>13 DEF Page, InsertOK
<1>15. IsLeaf(down[n])
  BY <1>1, <1>13, <1>14
<1> QED  BY <1>2, <1>8, <1>13, <1>15

\* The second walk visits the leaves of the chain, all of them.
LEMMA ChainIsOrder == ASSUME TreeInv, NEW ord, ChainOf(ord) PROVE Chain = ord
<1>1. PagesOK /\ Len(pages) \in Nat
  BY LenPages DEF TreeInv, ShapeInv
<1> DEFINE n == Len(pages)
           l == Len(ord)
           upto(i) == IF i < l THEN i + 1 ELSE l
           f == [i \in 0 .. n |-> SubSeq(ord, 1, upto(i))]
<1>2. /\ ord \in Seq(Page) /\ l \in 1 .. n /\ l \in Nat /\ n \in Nat
      /\ ord[1] = 1 /\ \A i \in 1 .. l : ord[i] \in Page /\ ord[i] # 0
  BY <1>1 DEF ChainOf, Page
<1>3. /\ \A i \in 1 .. l - 1 : pages[ord[i]].next = ord[i + 1]
      /\ pages[ord[l]].next = 0
  BY DEF ChainOf
<1>4. ASSUME NEW k \in 1 .. l
      PROVE  /\ SubSeq(ord, 1, k) \in Seq(Page) /\ Len(SubSeq(ord, 1, k)) = k
             /\ \A i \in 1 .. k : SubSeq(ord, 1, k)[i] = ord[i]
             /\ Last(SubSeq(ord, 1, k)) = ord[k]
  <2>1. /\ SubSeq(ord, 1, k) \in Seq(Page) /\ Len(SubSeq(ord, 1, k)) = k
        /\ \A i \in 1 .. k : SubSeq(ord, 1, k)[i] = ord[i]
    BY <1>2, SubSeqProperties
  <2> QED  BY <2>1 DEF Last
<1>5. ASSUME NEW k \in 1 .. l - 1 PROVE Append(SubSeq(ord, 1, k), ord[k + 1]) = SubSeq(ord, 1, k + 1)
  <2> DEFINE s == SubSeq(ord, 1, k)
             t == SubSeq(ord, 1, k + 1)
             e == ord[k + 1]
  <2>1. k \in 1 .. l /\ k + 1 \in 1 .. l
    BY <1>2
  <2>2. /\ s \in Seq(Page) /\ Len(s) = k /\ \A i \in 1 .. k : s[i] = ord[i]
        /\ t \in Seq(Page) /\ Len(t) = k + 1 /\ \A i \in 1 .. k + 1 : t[i] = ord[i]
        /\ e \in Page /\ e = ord[k + 1]
    BY <1>2, <1>4, <2>1
  <2> HIDE DEF s, t, e
  <2>3. Append(s, e) \in Seq(Page) /\ Len(Append(s, e)) = k + 1
        /\ \A i \in 1 .. k + 1 : Append(s, e)[i] = t[i]
    BY <2>2, AppendProperties
  <2>4. Append(s, e) = t
    BY <2>2, <2>3, SeqEqual
  <2> QED  BY <2>4 DEF s, t, e
<1>6. ASSUME NEW g, NEW i \in 1 .. n, g[i - 1] = f[i - 1]
      PROVE  f[i] = WalkRec(g, i)
  <2>1. i - 1 \in 0 .. n /\ i \in 0 .. n /\ i # 0 /\ upto(i - 1) \in 1 .. l
    BY <1>2
  <2>2. g[i - 1] = SubSeq(ord, 1, upto(i - 1)) /\ Last(g[i - 1]) = ord[upto(i - 1)]
    <3>1. f[i - 1] = SubSeq(ord, 1, upto(i - 1))
      BY <2>1
    <3> QED  BY <1>4, <1>6, <2>1, <3>1
  <2>3. f[i] = SubSeq(ord, 1, upto(i))
    BY <2>1
  <2>4. CASE i < l
    <3>1. upto(i - 1) = i /\ upto(i) = i + 1 /\ i \in 1 .. l - 1 /\ i + 1 \in 1 .. l
      BY <1>2, <2>4
    <3>2. pages[Last(g[i - 1])].next = ord[i + 1] /\ ord[i + 1] # 0
      BY <1>2, <1>3, <2>2, <3>1
    <3>3. f[i] = Append(g[i - 1], ord[i + 1])
      BY <1>5, <2>2, <2>3, <3>1
    <3> QED  BY <2>1, <3>2, <3>3, Zenon DEF WalkRec
  <2>5. CASE i >= l
    <3>1. upto(i - 1) = l /\ upto(i) = l
      BY <1>2, <2>5
    <3>2. pages[Last(g[i - 1])].next = 0
      BY <1>3, <2>2, <3>1
    <3>3. f[i] = g[i - 1]
      BY <2>2, <2>3, <3>1
    <3> QED  BY <2>1, <3>2, <3>3, Zenon DEF WalkRec
  <2> QED  BY <1>2, <2>4, <2>5
<1>7. \A g : f[0] = WalkRec(g, 0)
  <2>1. f[0] = SubSeq(ord, 1, 1)
    BY <1>2
  <2> DEFINE s == SubSeq(ord, 1, 1)
  <2>2. s \in Seq(Page) /\ Len(s) = 1 /\ s[1] = 1
    BY <1>2, <1>4
  <2> HIDE DEF s
  <2>3. s = <<1>>
    BY <2>2
  <2> QED  BY <2>1, <2>3, LeftmostLeafIsFirst DEF WalkRec, s
<1>8. ASSUME NEW i \in 0 .. n PROVE f[i] = WalkRec(f, i)
  <2>1. CASE i = 0
    BY <1>7, <2>1
  <2>2. CASE i \in 1 .. n
    BY <1>6, <2>2
  <2> QED  BY <1>2, <2>1, <2>2
<1>9. f = [i \in 0 .. n |-> WalkRec(f, i)]
  BY <1>8
<1> DEFINE walk == CHOOSE g : g = [i \in 0 .. Len(pages) |-> WalkRec(g, i)]
<1>10. walk = [i \in 0 .. n |-> WalkRec(walk, i)]
  <2> HIDE DEF f
  <2> QED  BY <1>9, Zenon
<1>11. Chain = walk[n]
  BY Zenon DEF Chain, WalkRec
<1> HIDE DEF walk
<1>12. \A i \in 0 .. n : walk[i] = WalkRec(walk, i)
  BY <1>10
<1> DEFINE T == {i \in 0 .. n : walk[i] = f[i]}
<1>13. 0 \in T
  <2> HIDE DEF f
  <2> QED  BY <1>2, <1>7, <1>12
<1>14. ASSUME NEW i \in 0 .. n - 1, i \in T PROVE i + 1 \in T
  <2>1. i + 1 \in 1 .. n /\ (i + 1) - 1 = i /\ i + 1 \in 0 .. n
    BY <1>2
  <2> HIDE DEF f
  <2>2. walk[i] = f[i]
    BY <1>14
  <2>3. f[i + 1] = WalkRec(walk, i + 1)
    BY <1>6, <2>1, <2>2
  <2> QED  BY <1>12, <2>1, <2>3
<1>15. n \in T
  <2> DEFINE m == 0
  <2>1. m \in Int /\ n \in Int /\ m = 0 /\ n \in 0 .. n
    BY <1>2
  <2> HIDE DEF T, n, m
  <2>2. m .. n \subseteq T
    BY <1>13, <1>14, <2>1, Induction
  <2> QED  BY <2>1, <2>2
<1>16. walk[n] = SubSeq(ord, 1, l)
  <2>1. n \in 0 .. n /\ upto(n) = l
    BY <1>2
  <2> QED  BY <1>15, <2>1
<1>17. SubSeq(ord, 1, l) = ord
  <2> DEFINE s == SubSeq(ord, 1, l)
  <2>1. s \in Seq(Page) /\ Len(s) = l /\ \A i \in 1 .. l : s[i] = ord[i]
    BY <1>2, <1>4
  <2> HIDE DEF s
  <2>2. s = ord
    BY <1>2, <2>1, SeqEqual
  <2> QED  BY <2>2 DEF s
<1> QED  BY <1>11, <1>16, <1>17


\* A scan returns the cells of the leaves, leaf after leaf along the chain.
ScanOf(ord, t, seg, off) ==
  /\ ChainOf(ord)
  /\ t \in Seq(Cell)
  /\ seg \in [1 .. Len(t) -> Nat] /\ off \in [1 .. Len(t) -> Nat]
  /\ \A r \in 1 .. Len(t) : /\ seg[r] \in 1 .. Len(ord)
                            /\ off[r] \in 1 .. Len(pages[ord[seg[r]]].cells)
                            /\ t[r] = pages[ord[seg[r]]].cells[off[r]]
  /\ \A r, q \in 1 .. Len(t) : r < q =>
       seg[r] < seg[q] \/ (seg[r] = seg[q] /\ off[r] < off[q])
  /\ \A i \in 1 .. Len(ord) : \A j \in 1 .. Len(pages[ord[i]].cells) :
       \E r \in 1 .. Len(t) : seg[r] = i /\ off[r] = j

LEMMA ScanProperties ==
  ASSUME TreeInv, NEW ord, ChainOf(ord)
  PROVE  \E seg, off : ScanOf(ord, scan_all, seg, off)
<1>1. PagesOK /\ Len(pages) \in Nat
  BY LenPages DEF TreeInv, ShapeInv
<1> DEFINE l == Len(ord)
           ss == [i \in 1 .. l |-> pages[ord[i]].cells]
           t == FlattenSeq(ss)
<1>2. l \in Nat /\ l >= 1 /\ \A i \in 1 .. l : ord[i] \in Page /\ IsLeaf(ord[i])
  BY <1>1 DEF ChainOf
<1>3. \A i \in 1 .. l : pages[ord[i]].cells \in Seq(Cell)
  BY <1>1, <1>2, LeafFields
<1>4. ss \in Seq(Seq(Cell)) /\ Len(ss) = l /\ \A i \in 1 .. l : ss[i] = pages[ord[i]].cells
  BY <1>2, <1>3
<1>5. t \in Seq(Cell) /\ IsFlat(t, ss, l)
  <2> HIDE DEF ss, l
  <2> QED  BY <1>2, <1>4, FlattenProperties
<1>6. scan_all = t
  <2>1. Chain = ord
    BY ChainIsOrder
  <2> QED  BY <2>1, Zenon DEF scan_all
<1> HIDE DEF ss, t
<1>7. PICK seg \in [1 .. Len(t) -> Nat], off \in [1 .. Len(t) -> Nat] : FlatOf(t, ss, l, seg, off)
  BY <1>5 DEF IsFlat
<1>8. ASSUME NEW r \in 1 .. Len(t)
      PROVE  /\ seg[r] \in 1 .. l /\ off[r] \in 1 .. Len(pages[ord[seg[r]]].cells)
             /\ t[r] = pages[ord[seg[r]]].cells[off[r]]
  <2>1. seg[r] \in 1 .. l /\ off[r] \in 1 .. Len(ss[seg[r]]) /\ t[r] = ss[seg[r]][off[r]]
    BY <1>7 DEF FlatOf
  <2> QED  BY <1>4, <2>1
<1>9. ASSUME NEW i \in 1 .. l, NEW j \in 1 .. Len(pages[ord[i]].cells)
      PROVE  \E r \in 1 .. Len(t) : seg[r] = i /\ off[r] = j
  <2>1. j \in 1 .. Len(ss[i])
    BY <1>4
  <2> QED  BY <1>7, <2>1 DEF FlatOf
<1>10. \A r, q \in 1 .. Len(t) : r < q => seg[r] < seg[q] \/ (seg[r] = seg[q] /\ off[r] < off[q])
  BY <1>7 DEF FlatOf
<1>11. ScanOf(ord, t, seg, off)
  BY <1>5, <1>7, <1>8, <1>9, <1>10, Zenon DEF ScanOf
<1> QED  BY <1>6, <1>11

\* What the invariant says of the cells, said of the rows of a scan.
LEMMA ScanComplete == ASSUME UniqueKeys, TreeInv PROVE NothingLost
<1> SUFFICES ASSUME pc = "idle"
             PROVE  /\ acked \subseteq ToSet(scan_all)
                    /\ ToSet(scan_all) \subseteq acked \cup failed
                    /\ Cardinality(ToSet(scan_all)) = Len(scan_all)
  BY Zenon DEF NothingLost
<1>1. PICK ord : ChainOf(ord)
  BY DEF TreeInv, ChainInv
<1>2. PICK seg, off : ScanOf(ord, scan_all, seg, off)
  BY <1>1, ScanProperties
<1> DEFINE t == scan_all
<1> HIDE DEF t
<1>3. /\ ord \in Seq(Page) /\ \A i \in 1 .. Len(ord) : ord[i] \in Page /\ IsLeaf(ord[i])
      /\ \A i, j \in 1 .. Len(ord) : ord[i] = ord[j] => i = j
      /\ \A p \in Page : IsLeaf(p) => \E i \in 1 .. Len(ord) : ord[i] = p
  BY <1>1 DEF ChainOf
<1>4. t \in Seq(Cell) /\ Len(t) \in Nat /\ DOMAIN t = 1 .. Len(t)
  BY <1>2 DEF ScanOf, t
<1>5. \A r \in 1 .. Len(t) : /\ seg[r] \in 1 .. Len(ord)
                             /\ off[r] \in 1 .. Len(pages[ord[seg[r]]].cells)
                             /\ t[r] = pages[ord[seg[r]]].cells[off[r]]
  BY <1>2 DEF ScanOf, t
<1>6. \A r, q \in 1 .. Len(t) : r < q => seg[r] < seg[q] \/ (seg[r] = seg[q] /\ off[r] < off[q])
  BY <1>2 DEF ScanOf, t
<1>7. \A i \in 1 .. Len(ord) : \A j \in 1 .. Len(pages[ord[i]].cells) :
        \E r \in 1 .. Len(t) : seg[r] = i /\ off[r] = j
  BY <1>2 DEF ScanOf, t
<1>8. CellsInv
  BY DEF TreeInv
<1>9. ASSUME NEW x PROVE x \in ToSet(t) <=> Stored(x)
  <2>1. ASSUME x \in ToSet(t) PROVE Stored(x)
    <3>1. PICK r \in 1 .. Len(t) : x = t[r]
      BY <1>4, <2>1 DEF ToSet
    <3>2. /\ seg[r] \in 1 .. Len(ord) /\ off[r] \in 1 .. Len(pages[ord[seg[r]]].cells)
          /\ t[r] = pages[ord[seg[r]]].cells[off[r]]
      BY <1>5
    <3>3. ord[seg[r]] \in Page /\ IsLeaf(ord[seg[r]])
      BY <1>3, <3>2
    <3> QED  BY <3>1, <3>2, <3>3, Zenon DEF Stored
  <2>2. ASSUME Stored(x) PROVE x \in ToSet(t)
    <3>1. PICK p \in Page : IsLeaf(p) /\ \E j \in 1 .. Len(pages[p].cells) : pages[p].cells[j] = x
      BY <2>2 DEF Stored
    <3>2. PICK j \in 1 .. Len(pages[p].cells) : pages[p].cells[j] = x
      BY <3>1
    <3>3. PICK i \in 1 .. Len(ord) : ord[i] = p
      BY <1>3, <3>1
    <3>4. PICK r \in 1 .. Len(t) : seg[r] = i /\ off[r] = j
      BY <1>7, <3>2, <3>3
    <3>5. t[r] = x
      BY <1>5, <3>2, <3>3, <3>4
    <3> QED  BY <1>4, <3>5 DEF ToSet
  <2> QED  BY <2>1, <2>2
<1>10. ASSUME NEW r \in 1 .. Len(t), NEW q \in 1 .. Len(t), t[r] = t[q] PROVE r = q
  <2>1. /\ ord[seg[r]] \in Page /\ IsLeaf(ord[seg[r]])
        /\ ord[seg[q]] \in Page /\ IsLeaf(ord[seg[q]])
    BY <1>3, <1>5
  <2>2. ord[seg[r]] = ord[seg[q]] /\ off[r] = off[q]
    <3> DEFINE p == ord[seg[r]]
               p2 == ord[seg[q]]
               i == off[r]
               j == off[q]
    <3>1. /\ p \in Page /\ p2 \in Page /\ IsLeaf(p) /\ IsLeaf(p2)
          /\ i \in 1 .. Len(pages[p].cells) /\ j \in 1 .. Len(pages[p2].cells)
          /\ pages[p].cells[i] = pages[p2].cells[j]
      BY <1>5, <1>10, <2>1
    <3> HIDE DEF p, p2, i, j
    <3>2. p = p2 /\ i = j
      BY <1>8, <3>1 DEF CellsInv, KeysApart
    <3> QED  BY <3>2 DEF p, p2, i, j
  <2>3. seg[r] = seg[q]
    BY <1>3, <1>5, <2>2
  <2>4. seg[r] \in Int /\ off[r] \in Int
    BY <1>5
  <2>5. ~(r < q) /\ ~(q < r)
    BY <1>6, <2>2, <2>3, <2>4
  <2> QED  BY <1>4, <2>5
<1>11. Cardinality(ToSet(t)) = Len(t)
  BY <1>4, <1>10, CountDistinct
<1>12. acked \subseteq ToSet(t) /\ ToSet(t) \subseteq acked \cup failed
  BY <1>8, <1>9 DEF CellsInv
<1> QED  BY <1>11, <1>12 DEF t

\* With unique keys a scan between inserts returns every acknowledged row exactly
\* once, and besides them at most rows whose INSERT failed: scan_all and insert
\* agree, for trees of any size and failures anywhere in an insert.
THEOREM NoRowIsLost == ASSUME UniqueKeys PROVE Spec => []NothingLost
BY ScanComplete, TreeInvariant, PTL
=============================================================================
