-------------------------- MODULE BTreeOrderProofs --------------------------
(***************************************************************************)
(* Proofs about BTree: until an insert fails, the keys are in order in     *)
(* every tree that inserts of distinct keys can build, of any size.        *)
(***************************************************************************)
EXTENDS BTreeProofs

-----------------------------------------------------------------------------
(***************************************************************************)
(* Key ranges.  Each page has a domain, the keys that a descent takes to   *)
(* it, and a level, its height above the leaves.                           *)
(***************************************************************************)
Before(A, B) == \A x \in A, y \in B : x < y
Lower(D, k) == {x \in D : x < k}
Upper(D, k) == {x \in D : x >= k}
Sorted(keys) == \A i, j \in 1 .. Len(keys) : i < j => keys[i] < keys[j]

\* The keys of D that belong to child number i of a node with these separators.
Slice(keys, D, i) ==
  {x \in D : (i > 1 => keys[i - 1] <= x) /\ (i <= Len(keys) => x < keys[i])}

\* An internal node p whose children share out its domain, one level below.
Fits(keys, kids, p, dom, lev) ==
  /\ Sorted(keys) /\ \A i \in 1 .. Len(keys) : keys[i] \in dom[p]
  /\ \A i \in 1 .. Len(kids) : lev[kids[i]] + 1 = lev[p] /\ dom[kids[i]] = Slice(keys, dom[p], i)

\* Page P is split at key k: the page n + 1 gets the keys from k on.
SplitOf(dom2, lev2, dom, lev, n, P, k) ==
  /\ dom2 \in [1 .. n + 1 -> SUBSET Int] /\ lev2 \in [1 .. n + 1 -> Nat]
  /\ dom2[P] = Lower(dom[P], k) /\ dom2[n + 1] = Upper(dom[P], k)
  /\ lev2[n + 1] = lev[P]
  /\ \A p \in 1 .. n : lev2[p] = lev[p] /\ (p # P => dom2[p] = dom[p])

\* The types of the domains and the levels of n pages.
Ranked(n, dom, lev) == dom \in [1 .. n -> SUBSET Int] /\ lev \in [1 .. n -> Nat]

\* The place of k among the keys.
Place(q, keys, k) ==
  /\ q \in 1 .. Len(keys) + 1
  /\ \A i \in 1 .. q - 1 : keys[i] < k
  /\ q <= Len(keys) => keys[q] >= k

\* Integer keys, without the machinery of sequences.
IntKeys(keys) == Len(keys) \in Nat /\ keys \in [1 .. Len(keys) -> Int]

\* Of two keys of a sorted node the later one is not smaller.
LEMMA SortedKeys ==
  ASSUME NEW keys, IntKeys(keys), Sorted(keys),
         NEW i \in 1 .. Len(keys), NEW j \in 1 .. Len(keys), i <= j
  PROVE  keys[i] <= keys[j]
<1>1. CASE i = j
  BY <1>1 DEF IntKeys
<1>2. CASE i < j
  BY <1>2 DEF Sorted, IntKeys
<1> QED  BY <1>1, <1>2 DEF IntKeys

\* Of two children the left one's domain comes first.
LEMMA SlicesApart ==
  ASSUME NEW keys, IntKeys(keys), Sorted(keys), NEW D \in SUBSET Int,
         NEW i \in 1 .. Len(keys) + 1, NEW j \in 1 .. Len(keys) + 1, i < j
  PROVE  Before(Slice(keys, D, i), Slice(keys, D, j))
<1>1. i \in 1 .. Len(keys) /\ j - 1 \in 1 .. Len(keys) /\ i <= j - 1 /\ j > 1
  BY DEF IntKeys
<1>2. keys[i] \in Int /\ keys[j - 1] \in Int
  BY <1>1 DEF IntKeys
<1>3. keys[i] <= keys[j - 1]
  BY <1>1, SortedKeys
<1>4. ASSUME NEW x \in Slice(keys, D, i), NEW y \in Slice(keys, D, j) PROVE x < y
  <2>1. x \in Int /\ y \in Int
    BY DEF Slice
  <2>2. x < keys[i] /\ keys[j - 1] <= y
    BY <1>1 DEF Slice
  <2> QED  BY <1>2, <1>3, <2>1, <2>2
<1> QED  BY <1>4 DEF Before

\* Every key of the domain belongs to some child.
LEMMA SlicesCover ==
  ASSUME NEW keys \in Seq(Int), NEW D \in SUBSET Int, NEW x \in D
  PROVE  \E i \in 1 .. Len(keys) + 1 : x \in Slice(keys, D, i)
<1> DEFINE y == x + 1
           q == Position(keys, y)
<1>1. y \in Int /\ x \in Int
  OBVIOUS
<1>2. q \in 1 .. Len(keys) + 1 /\ (\A i \in 1 .. q - 1 : keys[i] < y) /\ (q <= Len(keys) => keys[q] >= y)
  <2> HIDE DEF y
  <2> QED  BY <1>1, PositionProperties
<1> HIDE DEF q
<1>3. q > 1 => keys[q - 1] <= x
  <2> SUFFICES ASSUME q > 1 PROVE keys[q - 1] <= x  OBVIOUS
  <2>1. q - 1 \in 1 .. q - 1 /\ q - 1 \in 1 .. Len(keys)
    BY <1>2
  <2> QED  BY <1>1, <1>2, <2>1
<1>4. q <= Len(keys) => x < keys[q]
  <2> SUFFICES ASSUME q <= Len(keys) PROVE x < keys[q]  OBVIOUS
  <2>1. q \in 1 .. Len(keys)
    BY <1>2
  <2> QED  BY <1>1, <1>2, <2>1
<1> QED  BY <1>2, <1>3, <1>4 DEF Slice

\* No page is two children of a node.
LEMMA KidsApart ==
  ASSUME NEW keys, IntKeys(keys), NEW kids, Len(kids) = Len(keys) + 1,
         NEW p, NEW dom, NEW lev, dom[p] \in SUBSET Int, Fits(keys, kids, p, dom, lev),
         NEW i \in 1 .. Len(kids), NEW j \in 1 .. Len(kids), kids[i] = kids[j], dom[kids[i]] # {}
  PROVE  i = j
<1>1. Sorted(keys) /\ dom[kids[i]] = Slice(keys, dom[p], i) /\ dom[kids[j]] = Slice(keys, dom[p], j)
  BY DEF Fits
<1>2. PICK x \in dom[kids[i]] : TRUE
  OBVIOUS
<1> DEFINE D == dom[p]
<1>3. x \in Slice(keys, D, i) /\ x \in Slice(keys, D, j)
  BY <1>1, <1>2
<1>4. x \in Int /\ D \in SUBSET Int
  BY <1>3 DEF Slice
<1>5. i \in 1 .. Len(keys) + 1 /\ j \in 1 .. Len(keys) + 1
  OBVIOUS
<1> HIDE DEF D
<1>6. ~(i < j)
  <2>1. i < j => x < x
    BY <1>1, <1>3, <1>4, <1>5, SlicesApart DEF Before
  <2> QED  BY <1>4, <2>1
<1>7. ~(j < i)
  <2>1. j < i => x < x
    BY <1>1, <1>3, <1>4, <1>5, SlicesApart DEF Before
  <2> QED  BY <1>4, <2>1
<1> QED  BY <1>5, <1>6, <1>7 DEF IntKeys

\* Page P, the child number j of node g, has been split at k, and the new page n + 1
\* is put behind the new separator k, at place q of g.
ChildSplit(n, l, keys, kids, dom, lev, g, j, P, k, dom2, lev2, keys2, kids2, q) ==
  /\ n \in Nat /\ l \in Nat /\ keys \in [1 .. l -> Int] /\ kids \in [1 .. l + 1 -> 1 .. n]
  /\ g \in 1 .. n /\ j \in 1 .. l + 1 /\ P \in 1 .. n /\ k \in Int
  /\ keys2 \in [1 .. l + 1 -> Int] /\ q \in 1 .. l + 1
  /\ Len(keys) = l /\ Len(kids) = l + 1
  /\ Ranked(n, dom, lev) /\ Fits(keys, kids, g, dom, lev)
  /\ kids[j] = P /\ k \in dom[P] /\ Lower(dom[P], k) # {}
  /\ SplitOf(dom2, lev2, dom, lev, n, P, k)
  /\ Place(q, keys, k) /\ InsertedAt(keys2, keys, q, k) /\ InsertedAt(kids2, kids, q + 1, n + 1)

\* The node above a page that is split fits again with the new child.
LEMMA FitsSplitChild ==
  ASSUME NEW n, NEW l, NEW keys, NEW kids, NEW dom, NEW lev, NEW g, NEW j, NEW P, NEW k,
         NEW dom2, NEW lev2, NEW keys2, NEW kids2, NEW q,
         ChildSplit(n, l, keys, kids, dom, lev, g, j, P, k, dom2, lev2, keys2, kids2, q)
  PROVE  Fits(keys2, kids2, g, dom2, lev2)
<1>t. /\ n \in Nat /\ l \in Nat /\ keys \in [1 .. l -> Int] /\ kids \in [1 .. l + 1 -> 1 .. n]
      /\ g \in 1 .. n /\ j \in 1 .. l + 1 /\ P \in 1 .. n /\ k \in Int
      /\ keys2 \in [1 .. l + 1 -> Int] /\ q \in 1 .. l + 1
  BY DEF ChildSplit
<1> USE <1>t
<1>h. /\ Len(keys) = l /\ Len(kids) = l + 1
      /\ Ranked(n, dom, lev) /\ Fits(keys, kids, g, dom, lev)
      /\ kids[j] = P /\ k \in dom[P] /\ Lower(dom[P], k) # {}
      /\ SplitOf(dom2, lev2, dom, lev, n, P, k)
      /\ Place(q, keys, k) /\ InsertedAt(keys2, keys, q, k) /\ InsertedAt(kids2, kids, q + 1, n + 1)
  BY DEF ChildSplit
<1> DEFINE D == dom[g]
<1>l. Len(keys) = l /\ Len(kids) = l + 1
  BY <1>h
<1>1. /\ \A i \in 1 .. l : keys[i] \in Int
      /\ \A i \in 1 .. l + 1 : kids[i] \in 1 .. n
  OBVIOUS
<1>0. IntKeys(keys) /\ D \in SUBSET Int /\ lev[g] \in Nat /\ lev[P] \in Nat
  BY <1>h DEF IntKeys, Ranked
<1>00. \A x \in D : x \in Int
  BY <1>0
<1>2. /\ Sorted(keys) /\ \A i \in 1 .. l : keys[i] \in D
      /\ \A i \in 1 .. l + 1 : lev[kids[i]] + 1 = lev[g] /\ dom[kids[i]] = Slice(keys, D, i)
  BY <1>h, <1>1 DEF Fits
<1>3. lev[P] + 1 = lev[g] /\ dom[P] = Slice(keys, D, j)
  BY <1>h, <1>1, <1>2
<1> HIDE DEF D
<1>4. /\ k \in D
      /\ j > 1 => keys[j - 1] < k
      /\ j <= l => k < keys[j]
  <2>1. k \in Slice(keys, D, j)
    BY <1>h, <1>3
  <2>2. PICK x \in Slice(keys, D, j) : x < k
    BY <1>h, <1>3 DEF Lower
  <2>3. ASSUME j > 1 PROVE keys[j - 1] < k
    <3>1. j - 1 \in 1 .. l
      BY <1>1, <2>3
    <3>2. keys[j - 1] <= x /\ x \in D
      BY <2>2, <2>3 DEF Slice
    <3>3. keys[j - 1] \in Int /\ x \in Int
      BY <1>00, <1>1, <3>1, <3>2
    <3>4. k \in Int
      OBVIOUS
    <3> HIDE <1>t
    <3> QED  BY <2>2, <3>2, <3>3, <3>4
  <2> QED  BY <2>1, <2>3 DEF Slice
<1>5. /\ \A i \in 1 .. j - 1 : keys[i] < k
      /\ \A i \in j .. l : k < keys[i]
  <2>1. ASSUME NEW i \in 1 .. j - 1 PROVE keys[i] < k
    <3>1. j > 1 /\ j - 1 \in 1 .. l /\ i \in 1 .. l /\ i <= j - 1
      BY <1>1
    <3>2. keys[i] <= keys[j - 1]
      BY <1>l, <1>0, <1>2, <3>1, SortedKeys
    <3>3. keys[i] \in Int /\ keys[j - 1] \in Int /\ keys[j - 1] < k
      BY <1>1, <1>4, <3>1
    <3>4. k \in Int
      OBVIOUS
    <3> HIDE <1>t
    <3> QED  BY <3>2, <3>3, <3>4
  <2>2. ASSUME NEW i \in j .. l PROVE k < keys[i]
    <3>1. j <= l /\ j \in 1 .. l /\ i \in 1 .. l /\ j <= i
      BY <1>1
    <3>2. keys[j] <= keys[i]
      BY <1>l, <1>0, <1>2, <3>1, SortedKeys
    <3>3. keys[i] \in Int /\ keys[j] \in Int /\ k < keys[j]
      BY <1>1, <1>4, <3>1
    <3>4. k \in Int
      OBVIOUS
    <3> HIDE <1>t
    <3> QED  BY <3>2, <3>3, <3>4
  <2> QED  BY <2>1, <2>2
<1>6. q = j
  <2>1. ASSUME q < j PROVE FALSE
    <3>1. q \in 1 .. j - 1 /\ q <= l /\ q \in 1 .. l
      BY <1>1, <2>1
    <3>2. keys[q] \in Int /\ keys[q] < k /\ keys[q] >= k
      BY <1>h, <1>1, <1>5, <3>1 DEF Place
    <3> QED  BY <3>2
  <2>2. ASSUME j < q PROVE FALSE
    <3>1. j \in 1 .. q - 1 /\ j \in j .. l /\ j \in 1 .. l
      BY <1>1, <2>2
    <3>2. keys[j] \in Int /\ keys[j] < k /\ k < keys[j]
      BY <1>h, <1>1, <1>5, <3>1 DEF Place
    <3> QED  BY <3>2
  <2> QED  BY <1>1, <2>1, <2>2
<1>7. /\ Len(keys2) = l + 1
      /\ \A i \in 1 .. j - 1 : keys2[i] = keys[i]
      /\ keys2[j] = k
      /\ \A i \in j + 1 .. l + 1 : keys2[i] = keys[i - 1]
  BY <1>h, <1>6 DEF InsertedAt
<1>7k. /\ Len(kids2) = l + 2
       /\ \A i \in 1 .. j : kids2[i] = kids[i]
       /\ kids2[j + 1] = n + 1
       /\ \A i \in j + 2 .. l + 2 : kids2[i] = kids[i - 1]
  <2>1. (j + 1) - 1 = j /\ (j + 1) + 1 = j + 2 /\ (l + 1) + 1 = l + 2
    OBVIOUS
  <2>2. InsertedAt(kids2, kids, j + 1, n + 1)
    BY <1>h, <1>6
  <2> QED  BY <1>l, <2>1, <2>2 DEF InsertedAt
<1>7l. Len(keys2) = l + 1
  BY <1>7
<1>8. dom2[g] = D /\ lev2[g] = lev[g]
  <2>1. g # P
    BY <1>0, <1>3
  <2> QED  BY <1>h, <2>1 DEF SplitOf, D
<1>9. ASSUME NEW a \in 1 .. l + 1, NEW b \in 1 .. l + 1, a < b PROVE keys2[a] < keys2[b]
  <2>1. CASE b < j
    <3>1. a \in 1 .. j - 1 /\ b \in 1 .. j - 1 /\ a \in 1 .. l /\ b \in 1 .. l
      BY <1>9, <2>1
    <3>2. keys[a] < keys[b]
      BY <1>l, <1>2, <1>9, <3>1 DEF Sorted
    <3> QED  BY <1>7, <3>1, <3>2
  <2>2. CASE b = j
    BY <1>1, <1>5, <1>7, <1>9, <2>2
  <2>3. CASE a < j /\ b > j
    <3>1. a \in 1 .. j - 1 /\ b \in j + 1 .. l + 1 /\ b - 1 \in j .. l /\ a \in 1 .. l /\ b - 1 \in 1 .. l
      BY <1>1, <2>3
    <3>2. keys[a] < k /\ k < keys[b - 1]
      BY <1>5, <3>1
    <3>3. keys2[a] = keys[a] /\ keys2[b] = keys[b - 1]
      BY <1>7, <3>1
    <3>4. keys2[a] \in Int /\ keys2[b] \in Int
      OBVIOUS
    <3>5. keys2[a] < k /\ k < keys2[b]
      BY <3>2, <3>3
    <3> QED  BY <3>4, <3>5
  <2>4. CASE a = j
    <3>1. b \in j + 1 .. l + 1 /\ b - 1 \in j .. l
      BY <1>1, <1>9, <2>4
    <3> QED  BY <1>5, <1>7, <2>4, <3>1
  <2>5. CASE a > j
    <3>1. a \in j + 1 .. l + 1 /\ b \in j + 1 .. l + 1 /\ a - 1 \in 1 .. l /\ b - 1 \in 1 .. l /\ a - 1 < b - 1
      BY <1>1, <1>9, <2>5
    <3>2. keys[a - 1] < keys[b - 1]
      BY <1>l, <1>2, <3>1 DEF Sorted
    <3>3. keys2[a] = keys[a - 1] /\ keys2[b] = keys[b - 1]
      BY <1>7, <3>1
    <3> QED  BY <3>2, <3>3
  <2> QED  BY <1>1, <1>9, <2>1, <2>2, <2>3, <2>4, <2>5
<1>10. ASSUME NEW i \in 1 .. l + 1 PROVE keys2[i] \in D
  <2>1. CASE i < j
    BY <1>1, <1>2, <1>7, <2>1
  <2>2. CASE i = j
    BY <1>4, <1>7, <2>2
  <2>3. CASE i > j
    <3>1. i \in j + 1 .. l + 1 /\ i - 1 \in 1 .. l
      BY <1>1, <2>3
    <3> QED  BY <1>2, <1>7, <3>1
  <2> QED  BY <1>1, <2>1, <2>2, <2>3
<1>11. \A i \in 1 .. l + 1 : i # j => kids[i] # P
  <2>1. \A i \in 1 .. Len(kids) : kids[i] = kids[j] => i = j
    BY <1>h, <1>0, KidsApart DEF D
  <2> QED  BY <1>h, <2>1
<1>12. ASSUME NEW i \in 1 .. l + 2
       PROVE  lev2[kids2[i]] + 1 = lev[g] /\ dom2[kids2[i]] = Slice(keys2, D, i)
  <2>1. CASE i < j
    <3>1. i \in 1 .. j - 1 /\ i \in 1 .. l + 1 /\ i \in 1 .. j /\ i <= l /\ i <= l + 1
      BY <1>1, <2>1
    <3>2. kids2[i] = kids[i] /\ keys2[i] = keys[i]
      BY <1>7, <1>7k, <3>1
    <3>21. i > 1 => i - 1 \in 1 .. j - 1
      BY <3>1
    <3>22. i > 1 => keys2[i - 1] = keys[i - 1]
      BY <1>7, <3>21
    <3>3. kids[i] \in 1 .. n /\ kids[i] # P
      BY <1>1, <1>11, <2>1, <3>1
    <3>4. dom2[kids[i]] = dom[kids[i]] /\ lev2[kids[i]] = lev[kids[i]]
      BY <1>h, <3>3 DEF SplitOf
    <3>5. Slice(keys2, D, i) = Slice(keys, D, i)
      BY <1>l, <1>7l, <3>1, <3>2, <3>22 DEF Slice
    <3> QED  BY <1>2, <3>1, <3>2, <3>4, <3>5
  <2>2. CASE i = j
    <3>0. kids2[i] = P
      <4>1. kids2[i] = kids[j]
        BY <1>7k, <2>2
      <4> QED  BY <1>h, <4>1
    <3>1. kids2[i] = P /\ keys2[i] = k /\ (i > 1 => keys2[i - 1] = keys[i - 1]) /\ i <= l + 1
      BY <1>7, <2>2, <3>0
    <3>2. Slice(keys2, D, i) = {x \in D : (i > 1 => keys[i - 1] <= x) /\ x < k}
      BY <1>7l, <3>1 DEF Slice
    <3>3. \A x \in D : x \in Int
      BY <1>00
    <3>4. Lower(Slice(keys, D, i), k) = {x \in D : (i > 1 => keys[i - 1] <= x) /\ x < k}
      <4>1. ASSUME NEW x \in D, x < k PROVE i <= l => x < keys[i]
        <5> SUFFICES ASSUME i <= l PROVE x < keys[i]
          OBVIOUS
        <5>1. k < keys[i] /\ keys[i] \in Int /\ x \in Int
          BY <1>1, <1>4, <2>2, <3>3
        <5> QED  BY <4>1, <5>1
      <4> QED  BY <1>l, <4>1 DEF Slice, Lower
    <3>5. dom2[P] = Lower(dom[P], k) /\ lev2[P] = lev[P]
      BY <1>h, <1>1 DEF SplitOf
    <3> QED  BY <1>3, <2>2, <3>1, <3>2, <3>4, <3>5
  <2>3. CASE i = j + 1
    <3>1. kids2[i] = n + 1 /\ i > 1 /\ keys2[i - 1] = k /\ (i <= l + 1 => keys2[i] = keys[j] /\ j <= l)
          /\ (j <= l => i <= l + 1)
      BY <1>7, <1>7k, <2>3
    <3>2. Slice(keys2, D, i) = {x \in D : k <= x /\ (j <= l => x < keys[j])}
      BY <1>7l, <3>1 DEF Slice
    <3>3. \A x \in D : x \in Int
      BY <1>00
    <3>4. j > 1 => keys[j - 1] \in Int
      BY <1>1
    <3>5. Upper(Slice(keys, D, j), k) = {x \in D : k <= x /\ (j <= l => x < keys[j])}
      <4>1. ASSUME NEW x \in D, k <= x PROVE j > 1 => keys[j - 1] <= x
        <5> SUFFICES ASSUME j > 1 PROVE keys[j - 1] <= x
          OBVIOUS
        <5>1. keys[j - 1] < k /\ keys[j - 1] \in Int /\ x \in Int
          BY <1>4, <3>3, <3>4
        <5> QED  BY <4>1, <5>1
      <4>2. \A x \in D : x >= k <=> k <= x
        BY <3>3
      <4> QED  BY <1>l, <4>1, <4>2 DEF Slice, Upper
    <3>6. dom2[n + 1] = Upper(dom[P], k) /\ lev2[n + 1] = lev[P]
      BY <1>h DEF SplitOf
    <3> QED  BY <1>3, <3>1, <3>2, <3>5, <3>6
  <2>4. CASE i > j + 1
    <3> DEFINE h == i - 1
    <3>1. /\ i \in j + 2 .. l + 2 /\ h \in 1 .. l + 1 /\ h # j /\ h > 1 /\ i > 1
          /\ h - 1 = i - 2 /\ i - 1 \in j + 1 .. l + 1
          /\ (i <= l + 1 => i \in j + 1 .. l + 1) /\ (h <= l <=> i <= l + 1)
      BY <1>1, <2>4
    <3>2. kids2[i] = kids[h] /\ keys2[i - 1] = keys[h - 1] /\ (i <= l + 1 => keys2[i] = keys[h])
      <4>1. (i - 1) - 1 = h - 1
        BY <3>1
      <4> QED  BY <1>7, <1>7k, <3>1, <4>1
    <3>3. kids[h] \in 1 .. n /\ kids[h] # P
      BY <1>1, <1>11, <3>1
    <3>4. dom2[kids[h]] = dom[kids[h]] /\ lev2[kids[h]] = lev[kids[h]]
      BY <1>h, <3>3 DEF SplitOf
    <3>5. Slice(keys2, D, i) = Slice(keys, D, h)
      <4> HIDE DEF h
      <4> QED  BY <1>l, <1>7l, <3>1, <3>2 DEF Slice
    <3> QED  BY <1>2, <3>1, <3>2, <3>4, <3>5
  <2> QED  BY <1>1, <2>1, <2>2, <2>3, <2>4
<1> QED  BY <1>7l, <1>7k, <1>8, <1>9, <1>10, <1>12 DEF Fits, Sorted, D

\* The two halves of an internal node that is split at its key number m fit the
\* two halves of its domain.
LowerHalf(n, l, keys, kids, dom, lev, P, m, k, dom2, lev2, keys2, kids2) ==
  /\ n \in Nat /\ l \in Nat /\ keys \in [1 .. l -> Int] /\ kids \in [1 .. l + 1 -> 1 .. n]
  /\ P \in 1 .. n /\ m \in 1 .. l /\ k \in Int /\ keys2 \in [1 .. m - 1 -> Int]
  /\ Len(keys) = l /\ Len(kids) = l + 1 /\ Len(keys2) = m - 1 /\ Len(kids2) = m
  /\ Ranked(n, dom, lev) /\ Fits(keys, kids, P, dom, lev)
  /\ k = keys[m] /\ SplitOf(dom2, lev2, dom, lev, n, P, k)
  /\ \A i \in 1 .. m - 1 : keys2[i] = keys[i]
  /\ \A i \in 1 .. m : kids2[i] = kids[i]

\* The left half keeps the keys and children before the promoted key.
LEMMA FitsLowerHalf ==
  ASSUME NEW n, NEW l, NEW keys, NEW kids, NEW dom, NEW lev, NEW P, NEW m, NEW k, NEW dom2, NEW lev2,
         NEW keys2, NEW kids2, LowerHalf(n, l, keys, kids, dom, lev, P, m, k, dom2, lev2, keys2, kids2)
  PROVE  Fits(keys2, kids2, P, dom2, lev2)
<1>t. /\ n \in Nat /\ l \in Nat /\ keys \in [1 .. l -> Int] /\ kids \in [1 .. l + 1 -> 1 .. n]
      /\ P \in 1 .. n /\ m \in 1 .. l /\ k \in Int /\ keys2 \in [1 .. m - 1 -> Int]
  BY DEF LowerHalf
<1> USE <1>t
<1>h. /\ Len(keys) = l /\ Len(kids) = l + 1 /\ Len(keys2) = m - 1 /\ Len(kids2) = m
      /\ Ranked(n, dom, lev) /\ Fits(keys, kids, P, dom, lev)
      /\ k = keys[m] /\ SplitOf(dom2, lev2, dom, lev, n, P, k)
      /\ \A i \in 1 .. m - 1 : keys2[i] = keys[i]
      /\ \A i \in 1 .. m : kids2[i] = kids[i]
  BY DEF LowerHalf
<1> DEFINE D == dom[P]
           E == Lower(D, k)
<1>l. Len(keys) = l /\ Len(keys2) = m - 1 /\ Len(kids2) = m
  BY <1>h
<1>0. IntKeys(keys) /\ D \in SUBSET Int /\ lev \in [1 .. n -> Nat]
  BY <1>h DEF IntKeys, Ranked
<1>1. /\ Sorted(keys) /\ \A i \in 1 .. l : keys[i] \in D
      /\ \A i \in 1 .. l + 1 : lev[kids[i]] + 1 = lev[P] /\ dom[kids[i]] = Slice(keys, D, i)
  BY <1>h DEF Fits
<1> HIDE DEF D
<1>2. dom2[P] = E /\ lev2[P] = lev[P]
  BY <1>h DEF SplitOf, D
<1>3. \A i \in 1 .. l + 1 : kids[i] # P
  <2>1. ASSUME NEW i \in 1 .. l + 1, kids[i] = P PROVE FALSE
    <3>1. lev[P] + 1 = lev[P]
      BY <1>1, <2>1
    <3>2. lev[P] \in Nat
      BY <1>0
    <3> QED  BY <3>1, <3>2
  <2> QED  BY <2>1
<1>4. \A i \in 1 .. l + 1 : dom2[kids[i]] = dom[kids[i]] /\ lev2[kids[i]] = lev[kids[i]]
  <2>1. \A i \in 1 .. l + 1 : kids[i] \in 1 .. n
    OBVIOUS
  <2> QED  BY <1>h, <1>3, <2>1 DEF SplitOf
<1>5. \A x \in D : x \in Int
  BY <1>0
<1>6. ASSUME NEW i \in 1 .. m - 1 PROVE keys2[i] = keys[i] /\ i \in 1 .. l /\ keys[i] < k
  <2>1. i \in 1 .. l /\ i < m
    OBVIOUS
  <2>2. keys[i] < keys[m]
    BY <1>l, <1>1, <2>1 DEF Sorted
  <2> QED  BY <1>h, <2>1, <2>2
<1>7. Sorted(keys2)
  BY <1>l, <1>1, <1>6 DEF Sorted
<1>8. \A i \in 1 .. m - 1 : keys2[i] \in E
  BY <1>1, <1>6 DEF Lower
<1>9. ASSUME NEW i \in 1 .. m
      PROVE  lev2[kids2[i]] + 1 = lev[P] /\ dom2[kids2[i]] = Slice(keys2, E, i)
  <2>1. i \in 1 .. l + 1 /\ kids2[i] = kids[i]
    BY <1>h
  <2>2. Slice(keys2, E, i) = Slice(keys, D, i)
    <3>1. i > 1 => keys2[i - 1] = keys[i - 1]
      <4>1. i > 1 => i - 1 \in 1 .. m - 1
        OBVIOUS
      <4> QED  BY <1>6, <4>1
    <3>2. CASE i < m
      <4>1. i \in 1 .. m - 1 /\ i <= m - 1 /\ i <= l
        BY <3>2
      <4>2. keys2[i] = keys[i] /\ keys[i] < k /\ keys[i] \in Int
        BY <1>6, <4>1
      <4>3. \A x \in D : x < keys[i] => x < k
        BY <1>5, <4>2
      <4> QED  BY <1>l, <3>1, <4>1, <4>2, <4>3 DEF Slice, Lower
    <3>3. CASE i = m
      <4>1. ~(i <= m - 1) /\ i <= l
        BY <3>3
      <4>2. keys[i] = k
        BY <1>h, <3>3
      <4> QED  BY <1>l, <3>1, <4>1, <4>2 DEF Slice, Lower
    <3> QED  BY <3>2, <3>3
  <2> QED  BY <1>1, <1>4, <2>1, <2>2
<1> QED  BY <1>l, <1>2, <1>7, <1>8, <1>9 DEF Fits

UpperHalf(n, l, keys, kids, dom, lev, P, m, k, dom2, lev2, r, keys2, kids2) ==
  /\ n \in Nat /\ l \in Nat /\ keys \in [1 .. l -> Int] /\ kids \in [1 .. l + 1 -> 1 .. n]
  /\ P \in 1 .. n /\ m \in 1 .. l /\ k \in Int /\ r \in Nat /\ keys2 \in [1 .. r -> Int]
  /\ Len(keys) = l /\ Len(kids) = l + 1 /\ r = l - m /\ Len(keys2) = r /\ Len(kids2) = r + 1
  /\ Ranked(n, dom, lev) /\ Fits(keys, kids, P, dom, lev)
  /\ k = keys[m] /\ SplitOf(dom2, lev2, dom, lev, n, P, k)
  /\ \A i \in 1 .. r : keys2[i] = keys[m + i]
  /\ \A i \in 1 .. r + 1 : kids2[i] = kids[m + i]

\* The right half gets those behind it.
LEMMA FitsUpperHalf ==
  ASSUME NEW n, NEW l, NEW keys, NEW kids, NEW dom, NEW lev, NEW P, NEW m, NEW k, NEW dom2, NEW lev2,
         NEW r, NEW keys2, NEW kids2, UpperHalf(n, l, keys, kids, dom, lev, P, m, k, dom2, lev2, r, keys2, kids2)
  PROVE  Fits(keys2, kids2, n + 1, dom2, lev2)
<1>t. /\ n \in Nat /\ l \in Nat /\ keys \in [1 .. l -> Int] /\ kids \in [1 .. l + 1 -> 1 .. n]
      /\ P \in 1 .. n /\ m \in 1 .. l /\ k \in Int /\ r \in Nat /\ keys2 \in [1 .. r -> Int]
  BY DEF UpperHalf
<1> USE <1>t
<1>h. /\ Len(keys) = l /\ Len(kids) = l + 1 /\ r = l - m /\ Len(keys2) = r /\ Len(kids2) = r + 1
      /\ Ranked(n, dom, lev) /\ Fits(keys, kids, P, dom, lev)
      /\ k = keys[m] /\ SplitOf(dom2, lev2, dom, lev, n, P, k)
      /\ \A i \in 1 .. r : keys2[i] = keys[m + i]
      /\ \A i \in 1 .. r + 1 : kids2[i] = kids[m + i]
  BY DEF UpperHalf
<1> DEFINE D == dom[P]
           E == Upper(D, k)
<1>l. Len(keys) = l /\ Len(keys2) = r /\ Len(kids2) = r + 1
  BY <1>h
<1>r. r = l - m
  BY <1>h
<1>0. IntKeys(keys) /\ D \in SUBSET Int /\ lev \in [1 .. n -> Nat]
  BY <1>h DEF IntKeys, Ranked
<1>1. /\ Sorted(keys) /\ \A i \in 1 .. l : keys[i] \in D
      /\ \A i \in 1 .. l + 1 : lev[kids[i]] + 1 = lev[P] /\ dom[kids[i]] = Slice(keys, D, i)
  BY <1>h DEF Fits
<1> HIDE DEF D
<1>2. dom2[n + 1] = E /\ lev2[n + 1] = lev[P]
  BY <1>h DEF SplitOf, D
<1>3. \A i \in 1 .. l + 1 : kids[i] # P
  <2>1. ASSUME NEW i \in 1 .. l + 1, kids[i] = P PROVE FALSE
    <3>1. lev[P] + 1 = lev[P]
      BY <1>1, <2>1
    <3>2. lev[P] \in Nat
      BY <1>0
    <3> QED  BY <3>1, <3>2
  <2> QED  BY <2>1
<1>4. \A i \in 1 .. l + 1 : dom2[kids[i]] = dom[kids[i]] /\ lev2[kids[i]] = lev[kids[i]]
  <2>1. \A i \in 1 .. l + 1 : kids[i] \in 1 .. n
    OBVIOUS
  <2> QED  BY <1>h, <1>3, <2>1 DEF SplitOf
<1>5. \A x \in D : x \in Int
  BY <1>0
<1>6. ASSUME NEW i \in 1 .. r
      PROVE  keys2[i] = keys[m + i] /\ m + i \in 1 .. l /\ k < keys[m + i] /\ keys[m + i] \in Int
  <2>1. m + i \in 1 .. l /\ m < m + i
    BY <1>r
  <2>2. keys[m] < keys[m + i]
    BY <1>l, <1>1, <2>1 DEF Sorted
  <2> QED  BY <1>h, <2>1, <2>2
<1>7. Sorted(keys2)
  <2>1. ASSUME NEW a \in 1 .. r, NEW b \in 1 .. r, a < b PROVE keys2[a] < keys2[b]
    <3>1. m + a \in 1 .. l /\ m + b \in 1 .. l /\ m + a < m + b
      BY <1>r, <2>1
    <3>2. keys[m + a] < keys[m + b]
      BY <1>l, <1>1, <3>1 DEF Sorted
    <3> QED  BY <1>6, <3>2
  <2> QED  BY <1>l, <2>1 DEF Sorted
<1>8. \A i \in 1 .. r : keys2[i] \in E
  BY <1>1, <1>6 DEF Upper
<1>9. ASSUME NEW i \in 1 .. r + 1
      PROVE  lev2[kids2[i]] + 1 = lev[P] /\ dom2[kids2[i]] = Slice(keys2, E, i)
  <2>1. m + i \in 1 .. l + 1 /\ kids2[i] = kids[m + i]
    BY <1>h
  <2>2. Slice(keys2, E, i) = Slice(keys, D, m + i)
    <3> DEFINE h == m + i
    <3>1. h \in Nat /\ h > 1 /\ (h <= l <=> i <= r)
      BY <1>r
    <3>2. i <= r => keys2[i] = keys[h]
      BY <1>6
    <3>3. CASE i = 1
      <4>1. keys[h - 1] = k
        BY <1>h, <3>3
      <4>2. \A x \in D : x >= k <=> k <= x
        BY <1>5
      <4> HIDE DEF h
      <4>3. Slice(keys2, E, i) = Slice(keys, D, h)
        <5>1. ~(i > 1)
          BY <3>3
        <5>2. Slice(keys2, E, i) = {x \in D : k <= x /\ (i <= r => x < keys2[i])}
          BY <1>l, <4>2, <5>1 DEF Slice, Upper
        <5>3. Slice(keys, D, h) = {x \in D : k <= x /\ (h <= l => x < keys[h])}
          BY <1>l, <3>1, <4>1 DEF Slice
        <5> QED  BY <3>1, <3>2, <5>2, <5>3
      <4> QED  BY <4>3 DEF h
    <3>4. CASE i > 1
      <4>1. i - 1 \in 1 .. r /\ h - 1 = m + (i - 1)
        BY <3>4
      <4>2. keys2[i - 1] = keys[h - 1] /\ k < keys[h - 1] /\ keys[h - 1] \in Int
        BY <1>6, <4>1
      <4> HIDE DEF h
      <4>3. \A x \in D : keys[h - 1] <= x => x >= k
        BY <1>5, <4>2
      <4>4. Slice(keys2, E, i) = Slice(keys, D, h)
        BY <1>l, <3>1, <3>2, <3>4, <4>2, <4>3 DEF Slice, Upper
      <4> QED  BY <4>4 DEF h
    <3> QED  BY <3>3, <3>4
  <2> QED  BY <1>1, <1>4, <2>1, <2>2
<1> QED  BY <1>l, <1>2, <1>7, <1>8, <1>9 DEF Fits

-----------------------------------------------------------------------------
(***************************************************************************)
(* Nodes in their domains.                                                 *)
(***************************************************************************)
Kid(node, p) == \E s \in 1 .. Len(node.kids) : node.kids[s] = p

\* The cells of a leaf are in key order and in its domain.
LeafFits(cells, D) ==
  /\ \A i \in 1 .. Len(cells) : cells[i].key \in D
  /\ \A i, j \in 1 .. Len(cells) : i < j => cells[i].key < cells[j].key

NodeFits(node, p, dom, lev) ==
  IF node.type = "leaf"
  THEN /\ lev[p] = 0 /\ LeafFits(node.cells, dom[p])
       /\ node.next # 0 => Before(dom[p], dom[node.next])
  ELSE lev[p] > 0 /\ Fits(node.keys, node.kids, p, dom, lev)

\* What the shape says of a node, for n pages.
NodeTyped(node, n) ==
  IF node.type = "leaf" THEN node.next \in 0 .. n
  ELSE /\ IntKeys(node.keys) /\ Len(node.kids) = Len(node.keys) + 1
       /\ node.kids \in [1 .. Len(node.keys) + 1 -> 1 .. n]

\* No domain is empty, and domains of one level have no key in common.
Apart(n, dom, lev) ==
  /\ \A p \in 1 .. n : dom[p] # {}
  /\ \A p, q \in 1 .. n : p # q /\ lev[p] = lev[q] => dom[p] \cap dom[q] = {}

\* A split leaves no domain empty and keeps the domains of a level apart.
LEMMA SplitApart ==
  ASSUME NEW n \in Nat, NEW P \in 1 .. n, NEW k \in Int, NEW dom, NEW lev, NEW dom2, NEW lev2
  PROVE  /\ Ranked(n, dom, lev) /\ Apart(n, dom, lev) /\ SplitOf(dom2, lev2, dom, lev, n, P, k)
         /\ k \in dom[P] /\ Lower(dom[P], k) # {}
         => Ranked(n + 1, dom2, lev2) /\ Apart(n + 1, dom2, lev2)
<1>h. SUFFICES ASSUME Ranked(n, dom, lev), Apart(n, dom, lev), SplitOf(dom2, lev2, dom, lev, n, P, k),
                      k \in dom[P], Lower(dom[P], k) # {}
               PROVE  Ranked(n + 1, dom2, lev2) /\ Apart(n + 1, dom2, lev2)
  OBVIOUS
<1>1. Ranked(n + 1, dom2, lev2)
  BY <1>h DEF Ranked, SplitOf
<1>2. /\ dom2[P] = Lower(dom[P], k) /\ dom2[n + 1] = Upper(dom[P], k) /\ lev2[n + 1] = lev[P]
      /\ \A p \in 1 .. n : lev2[p] = lev[p] /\ (p # P => dom2[p] = dom[p])
  BY <1>h DEF SplitOf
<1>3. \A p \in 1 .. n : dom2[p] \subseteq dom[p]
  BY <1>2 DEF Lower
<1>4. dom2[n + 1] \subseteq dom[P] /\ dom2[n + 1] # {} /\ dom2[P] # {}
  BY <1>h, <1>2 DEF Upper
<1>5. dom2[P] \cap dom2[n + 1] = {}
  <2>1. \A x \in dom[P] : x \in Int
    BY <1>h DEF Ranked
  <2> QED  BY <1>2, <2>1 DEF Lower, Upper
<1>6. ASSUME NEW p \in 1 .. n + 1 PROVE dom2[p] # {}
  <2>1. CASE p \in 1 .. n
    BY <1>h, <1>2, <1>4, <2>1 DEF Apart
  <2>2. CASE p = n + 1
    BY <1>4, <2>2
  <2> QED  BY <2>1, <2>2
<1>7. ASSUME NEW p \in 1 .. n, lev2[p] = lev2[n + 1] PROVE dom2[p] \cap dom2[n + 1] = {}
  <2>1. CASE p = P
    BY <1>5, <2>1
  <2>2. CASE p # P
    <3>1. dom[p] \cap dom[P] = {}
      BY <1>h, <1>2, <1>7, <2>2 DEF Apart
    <3> QED  BY <1>3, <1>4, <3>1
  <2> QED  BY <2>1, <2>2
<1>8. ASSUME NEW p \in 1 .. n, NEW q \in 1 .. n, p # q, lev2[p] = lev2[q] PROVE dom2[p] \cap dom2[q] = {}
  <2>1. dom[p] \cap dom[q] = {}
    BY <1>h, <1>2, <1>8 DEF Apart
  <2> QED  BY <1>3, <2>1
<1>9. \A p \in 1 .. n + 1 : p \in 1 .. n \/ p = n + 1
  OBVIOUS
<1>10. ASSUME NEW p \in 1 .. n + 1, NEW q \in 1 .. n + 1, p # q, lev2[p] = lev2[q]
       PROVE  dom2[p] \cap dom2[q] = {}
  <2>1. CASE p \in 1 .. n /\ q \in 1 .. n
    BY <1>8, <1>10, <2>1
  <2>2. CASE p \in 1 .. n /\ q = n + 1
    BY <1>7, <1>10, <2>2
  <2>3. CASE p = n + 1 /\ q \in 1 .. n
    <3>1. lev2[q] = lev2[n + 1]
      BY <1>10, <2>3
    <3>2. dom2[q] \cap dom2[n + 1] = {}
      BY <1>7, <2>3, <3>1
    <3> QED  BY <2>3, <3>2
  <2> QED  BY <1>9, <1>10, <2>1, <2>2, <2>3
<1> QED  BY <1>1, <1>6, <1>10 DEF Apart

\* A node that does not have P as a child is not concerned.
LEMMA SplitOther ==
  ASSUME NEW n \in Nat, NEW P \in 1 .. n, NEW k \in Int, NEW dom, NEW lev, NEW dom2, NEW lev2,
         NEW p \in 1 .. n, NEW node
  PROVE  /\ SplitOf(dom2, lev2, dom, lev, n, P, k)
         /\ NodeTyped(node, n) /\ NodeFits(node, p, dom, lev)
         /\ p # P /\ (node.type # "leaf" => ~Kid(node, P))
         => NodeFits(node, p, dom2, lev2)
<1>h. SUFFICES ASSUME SplitOf(dom2, lev2, dom, lev, n, P, k),
                      NodeTyped(node, n), NodeFits(node, p, dom, lev),
                      p # P, node.type # "leaf" => ~Kid(node, P)
               PROVE  NodeFits(node, p, dom2, lev2)
  OBVIOUS
<1>1. \A q \in 1 .. n : lev2[q] = lev[q] /\ (q # P => dom2[q] = dom[q]) /\ dom2[q] \subseteq dom[q]
  BY <1>h DEF SplitOf, Lower
<1>2. dom2[p] = dom[p] /\ lev2[p] = lev[p]
  BY <1>h, <1>1
<1>3. CASE node.type = "leaf"
  <2>1. lev[p] = 0 /\ LeafFits(node.cells, dom[p]) /\ (node.next # 0 => Before(dom[p], dom[node.next]))
    BY <1>h, <1>3 DEF NodeFits
  <2>2. node.next \in 0 .. n
    BY <1>h, <1>3 DEF NodeTyped
  <2>3. node.next # 0 => dom2[node.next] \subseteq dom[node.next]
    BY <1>1, <2>2
  <2>4. node.next # 0 => Before(dom[p], dom2[node.next])
    BY <2>1, <2>3 DEF Before
  <2>5. LeafFits(node.cells, dom2[p]) /\ lev2[p] = 0
    BY <1>2, <2>1
  <2>6. node.next # 0 => Before(dom2[p], dom2[node.next])
    BY <1>2, <2>4
  <2> QED  BY <1>3, <2>5, <2>6 DEF NodeFits
<1>4. CASE node.type # "leaf"
  <2> DEFINE keys == node.keys
             kids == node.kids
  <2>1. lev[p] > 0 /\ Fits(keys, kids, p, dom, lev)
    BY <1>h, <1>4 DEF NodeFits
  <2>2. Len(kids) = Len(keys) + 1 /\ kids \in [1 .. Len(keys) + 1 -> 1 .. n]
    BY <1>h, <1>4 DEF NodeTyped
  <2>3. \A i \in 1 .. Len(kids) : kids[i] # P
    BY <1>h, <1>4 DEF Kid
  <2> HIDE DEF keys, kids
  <2>4. \A i \in 1 .. Len(kids) : dom2[kids[i]] = dom[kids[i]] /\ lev2[kids[i]] = lev[kids[i]]
    BY <1>1, <2>2, <2>3
  <2>5. Fits(keys, kids, p, dom2, lev2)
    BY <1>2, <2>1, <2>4 DEF Fits
  <2>6. lev2[p] > 0
    BY <1>2, <2>1
  <2> QED  BY <1>4, <2>5, <2>6 DEF NodeFits, keys, kids
<1> QED  BY <1>3, <1>4

\* The node above P takes the new page in.
LEMMA SplitAbove ==
  ASSUME NEW n \in Nat, NEW P \in 1 .. n, NEW k \in Int, NEW dom, NEW lev, NEW dom2, NEW lev2,
         NEW g \in 1 .. n, NEW node, NEW node2, NEW q
  PROVE  /\ Ranked(n, dom, lev) /\ SplitOf(dom2, lev2, dom, lev, n, P, k)
         /\ k \in dom[P] /\ Lower(dom[P], k) # {}
         /\ node.type # "leaf" /\ NodeTyped(node, n) /\ NodeFits(node, g, dom, lev) /\ Kid(node, P)
         /\ node2.type # "leaf" /\ IntKeys(node2.keys)
         /\ ChildAdded(node2.keys, node2.kids, node, k, n + 1, q)
         => NodeFits(node2, g, dom2, lev2)
<1>h. SUFFICES ASSUME Ranked(n, dom, lev), SplitOf(dom2, lev2, dom, lev, n, P, k),
                      k \in dom[P], Lower(dom[P], k) # {},
                      node.type # "leaf", NodeTyped(node, n), NodeFits(node, g, dom, lev), Kid(node, P),
                      node2.type # "leaf", IntKeys(node2.keys),
                      ChildAdded(node2.keys, node2.kids, node, k, n + 1, q)
               PROVE  NodeFits(node2, g, dom2, lev2)
  OBVIOUS
<1> DEFINE keys == node.keys
           kids == node.kids
           keys2 == node2.keys
           kids2 == node2.kids
           l == Len(keys)
<1>1. l \in Nat /\ keys \in [1 .. l -> Int] /\ kids \in [1 .. l + 1 -> 1 .. n] /\ Len(kids) = l + 1
  BY <1>h DEF NodeTyped, IntKeys
<1>2. lev[g] > 0 /\ Fits(keys, kids, g, dom, lev)
  BY <1>h DEF NodeFits
<1>3. PICK j \in 1 .. Len(kids) : kids[j] = P
  BY <1>h DEF Kid
<1>4. /\ q \in 1 .. l + 1 /\ Place(q, keys, k) /\ InsertedAt(keys2, keys, q, k)
      /\ InsertedAt(kids2, kids, q + 1, n + 1)
  BY <1>h DEF ChildAdded, Place
<1>5. keys2 \in [1 .. Len(keys2) -> Int]
  BY <1>h DEF IntKeys
<1> HIDE DEF keys, kids, keys2, kids2
<1>6. Len(keys2) = l + 1
  BY <1>4 DEF InsertedAt
<1> HIDE DEF l
<1>7. keys2 \in [1 .. l + 1 -> Int] /\ j \in 1 .. l + 1
  BY <1>1, <1>3, <1>5, <1>6
<1>8. Len(keys) = l
  BY DEF l
<1>a. Ranked(n, dom, lev) /\ SplitOf(dom2, lev2, dom, lev, n, P, k) /\ k \in dom[P] /\ Lower(dom[P], k) # {}
  BY <1>h
<1>9. Fits(keys2, kids2, g, dom2, lev2)
  <2>1. ChildSplit(n, l, keys, kids, dom, lev, g, j, P, k, dom2, lev2, keys2, kids2, q)
    BY <1>a, <1>1, <1>2, <1>3, <1>4, <1>7, <1>8, Zenon DEF ChildSplit
  <2> QED  BY <2>1, FitsSplitChild
<1>10. lev2[g] > 0
  BY <1>h, <1>2 DEF SplitOf
<1> QED  BY <1>h, <1>9, <1>10 DEF NodeFits, keys2, kids2

\* A page is a child of one node only.
LEMMA OneParent ==
  ASSUME NEW n \in Nat, NEW P \in 1 .. n, NEW dom, NEW lev,
         NEW g \in 1 .. n, NEW p \in 1 .. n, NEW node, NEW node2
  PROVE  /\ Ranked(n, dom, lev) /\ Apart(n, dom, lev)
         /\ node.type # "leaf" /\ NodeFits(node, g, dom, lev) /\ Kid(node, P)
         /\ node2.type # "leaf" /\ NodeFits(node2, p, dom, lev) /\ Kid(node2, P)
         => g = p
<1>h. SUFFICES ASSUME Ranked(n, dom, lev), Apart(n, dom, lev),
                      node.type # "leaf", NodeFits(node, g, dom, lev), Kid(node, P),
                      node2.type # "leaf", NodeFits(node2, p, dom, lev), Kid(node2, P)
               PROVE  g = p
  OBVIOUS
<1>1. lev[P] + 1 = lev[g] /\ dom[P] \subseteq dom[g]
  BY <1>h DEF NodeFits, Fits, Kid, Slice
<1>2. lev[P] + 1 = lev[p] /\ dom[P] \subseteq dom[p]
  BY <1>h DEF NodeFits, Fits, Kid, Slice
<1>3. dom[P] # {}
  BY <1>h DEF Apart
<1> QED  BY <1>h, <1>1, <1>2, <1>3 DEF Apart

-----------------------------------------------------------------------------
(***************************************************************************)
(* What an insertion and a split do to the cells of a leaf.                *)
(***************************************************************************)
\* A cell whose key is new to the leaf, put at its place, keeps the cells in order.
LEMMA LeafInsertFits ==
  ASSUME NEW s \in Seq(Cell), NEW t \in Seq(Cell), NEW c \in Cell, NEW q, NEW D
  PROVE  /\ CellAdded(t, s, c, q) /\ LeafFits(s, D) /\ c.key \in D
         /\ \A i \in 1 .. Len(s) : s[i].key # c.key
         => LeafFits(t, D)
<1>h. SUFFICES ASSUME CellAdded(t, s, c, q), LeafFits(s, D), c.key \in D,
                      \A i \in 1 .. Len(s) : s[i].key # c.key
               PROVE  LeafFits(t, D)
  OBVIOUS
<1> DEFINE l == Len(s)
<1>1. l \in Nat /\ Len(t) = l + 1 /\ q \in 1 .. l + 1
  BY <1>h DEF CellAdded, InsertedAt
<1>2. /\ \A j \in 1 .. q - 1 : t[j] = s[j]
      /\ t[q] = c
      /\ \A j \in q + 1 .. l + 1 : t[j] = s[j - 1]
  BY <1>h DEF CellAdded, InsertedAt
<1>3. \A i \in 1 .. l : s[i].key \in Int
  <2>1. \A i \in 1 .. l : s[i] \in Cell
    OBVIOUS
  <2> QED  BY <2>1, BTreeAssumption DEF Cell
<1>4. c.key \in Int
  BY BTreeAssumption DEF Cell
<1>5. /\ \A i \in 1 .. l : s[i].key \in D
      /\ \A i, j \in 1 .. l : i < j => s[i].key < s[j].key
  BY <1>h DEF LeafFits
<1>6. \A j \in 1 .. q - 1 : s[j].key < c.key
  BY <1>h DEF CellAdded
<1>7. \A j \in q .. l : c.key < s[j].key
  <2>1. ASSUME NEW j \in q .. l PROVE c.key < s[j].key
    <3>1. q \in 1 .. l /\ j \in 1 .. l
      BY <1>1
    <3>2. s[q].key >= c.key /\ s[q].key # c.key
      BY <1>h, <3>1 DEF CellAdded
    <3>3. CASE j = q
      BY <1>3, <1>4, <3>1, <3>2, <3>3
    <3>4. CASE q < j
      <4>1. s[q].key < s[j].key
        BY <1>5, <3>1, <3>4
      <4> QED  BY <1>3, <1>4, <3>1, <3>2, <4>1
    <3> QED  BY <3>1, <3>3, <3>4
  <2> QED  BY <2>1
<1> HIDE DEF l
<1>8. ASSUME NEW i \in 1 .. l + 1
      PROVE  \/ i < q /\ i \in 1 .. q - 1 /\ i \in 1 .. l /\ t[i] = s[i]
             \/ i = q /\ t[i] = c
             \/ i > q /\ i - 1 \in q .. l /\ i - 1 \in 1 .. l /\ t[i] = s[i - 1]
  <2>1. CASE i < q
    BY <1>1, <1>2, <2>1
  <2>2. CASE i = q
    BY <1>2, <2>2
  <2>3. CASE i > q
    <3>1. i \in q + 1 .. l + 1 /\ i - 1 \in q .. l /\ i - 1 \in 1 .. l
      BY <1>1, <2>3
    <3> QED  BY <1>2, <2>3, <3>1
  <2> QED  BY <1>1, <2>1, <2>2, <2>3
<1>9. ASSUME NEW i \in 1 .. l + 1 PROVE t[i].key \in D
  BY <1>h, <1>5, <1>8
<1>10. ASSUME NEW i \in 1 .. l + 1, NEW j \in 1 .. l + 1, i < j PROVE t[i].key < t[j].key
  <2>1. CASE i < q
    <3>1. i \in 1 .. q - 1 /\ i \in 1 .. l /\ t[i] = s[i]
      BY <1>1, <1>8, <2>1
    <3>2. CASE j < q
      <4>1. j \in 1 .. l /\ t[j] = s[j]
        BY <1>1, <1>8, <3>2
      <4> QED  BY <1>5, <1>10, <3>1, <4>1
    <3>3. CASE j = q
      BY <1>2, <1>6, <3>1, <3>3
    <3>4. CASE j > q
      <4>1. j - 1 \in 1 .. l /\ t[j] = s[j - 1] /\ i < j - 1
        BY <1>1, <1>8, <2>1, <3>4
      <4> QED  BY <1>5, <3>1, <4>1
    <3> QED  BY <1>1, <3>2, <3>3, <3>4
  <2>2. CASE i = q
    <3>1. j - 1 \in q .. l /\ t[j] = s[j - 1]
      BY <1>1, <1>8, <1>10, <2>2
    <3> QED  BY <1>2, <1>7, <2>2, <3>1
  <2>3. CASE i > q
    <3>1. i - 1 \in 1 .. l /\ t[i] = s[i - 1] /\ j - 1 \in 1 .. l /\ t[j] = s[j - 1] /\ i - 1 < j - 1
      <4>1. j > q
        BY <1>1, <1>10, <2>3
      <4> QED  BY <1>1, <1>8, <1>10, <2>3, <4>1
    <3> QED  BY <1>5, <3>1
  <2> QED  BY <1>1, <2>1, <2>2, <2>3
<1> QED  BY <1>1, <1>9, <1>10 DEF LeafFits

\* The halves of a leaf that is split are in the two parts of its domain.
LEMMA LeafHalves ==
  ASSUME NEW t \in Seq(Cell), NEW n \in 1 .. Len(t) - 1, NEW D \in SUBSET Int, LeafFits(t, D)
  PROVE  /\ t[n + 1].key \in D /\ Lower(D, t[n + 1].key) # {}
         /\ LeafFits(SubSeq(t, 1, n), Lower(D, t[n + 1].key))
         /\ LeafFits(SubSeq(t, n + 1, Len(t)), Upper(D, t[n + 1].key))
<1> DEFINE l == Len(t)
           k == t[n + 1].key
           left == SubSeq(t, 1, n)
           right == SubSeq(t, n + 1, l)
<1>1. l \in Nat /\ n \in Nat /\ n >= 1 /\ n + 1 <= l /\ n + 1 \in 1 .. l
  OBVIOUS
<1>2. Len(left) = n /\ \A i \in 1 .. n : left[i] = t[i]
  <2>1. 1 \in 1 .. Len(t) /\ n \in 1 - 1 .. Len(t)
    BY <1>1
  <2> HIDE DEF left
  <2>2. Len(left) = n - 1 + 1 /\ \A i \in 1 .. n - 1 + 1 : left[i] = t[1 + i - 1]
    BY <2>1, HalfProperties DEF left
  <2>3. n - 1 + 1 = n /\ \A i \in 1 .. n : 1 + i - 1 = i
    OBVIOUS
  <2> QED  BY <2>2, <2>3
<1>3. Len(right) = l - n /\ \A i \in 1 .. l - n : right[i] = t[n + i]
  <2>1. n + 1 \in 1 .. Len(t) /\ l \in n + 1 - 1 .. Len(t)
    BY <1>1
  <2> HIDE DEF right
  <2>2. Len(right) = l - (n + 1) + 1 /\ \A i \in 1 .. l - (n + 1) + 1 : right[i] = t[n + 1 + i - 1]
    BY <2>1, HalfProperties DEF right
  <2>3. l - (n + 1) + 1 = l - n /\ \A i \in 1 .. l - n : n + 1 + i - 1 = n + i
    BY <1>1
  <2> QED  BY <2>2, <2>3
<1>4. /\ \A i \in 1 .. l : t[i].key \in D /\ t[i].key \in Int
      /\ \A i, j \in 1 .. l : i < j => t[i].key < t[j].key
  BY DEF LeafFits
<1>5. k \in D
  BY <1>1, <1>4
<1> HIDE DEF left, right, l
<1>6. \A i \in 1 .. n : i \in 1 .. l /\ t[i].key < k
  BY <1>1, <1>4
<1>7. \A i \in 1 .. l - n : n + i \in 1 .. l /\ t[n + i].key >= k
  <2>1. ASSUME NEW i \in 1 .. l - n PROVE n + i \in 1 .. l /\ t[n + i].key >= k
    <3>1. n + i \in 1 .. l /\ (n + i = n + 1 \/ n + 1 < n + i)
      BY <1>1
    <3> QED  BY <1>1, <1>4, <3>1
  <2> QED  BY <2>1
<1>8. Lower(D, k) # {}
  BY <1>1, <1>4, <1>6 DEF Lower
<1> HIDE DEF k
<1>9. LeafFits(left, Lower(D, k))
  BY <1>1, <1>2, <1>4, <1>6 DEF LeafFits, Lower
<1>10. LeafFits(right, Upper(D, k))
  <2>1. \A i \in 1 .. l - n : right[i].key \in Upper(D, k)
    BY <1>3, <1>4, <1>7 DEF Upper
  <2>2. ASSUME NEW i \in 1 .. l - n, NEW j \in 1 .. l - n, i < j PROVE right[i].key < right[j].key
    <3>1. n + i < n + j
      BY <1>1, <2>2
    <3> QED  BY <1>3, <1>4, <1>7, <3>1
  <2> QED  BY <1>3, <2>1, <2>2 DEF LeafFits
<1> QED  BY <1>5, <1>8, <1>9, <1>10 DEF left, right, k, l

-----------------------------------------------------------------------------
(***************************************************************************)
(* A split, for all the nodes at once.                                     *)
(***************************************************************************)
\* The domains and levels after a split.
LEMMA SplitExists ==
  ASSUME NEW n \in Nat, NEW P \in 1 .. n, NEW k \in Int, NEW dom, NEW lev, Ranked(n, dom, lev)
  PROVE  \E dom2, lev2 : SplitOf(dom2, lev2, dom, lev, n, P, k)
<1> DEFINE dom2 == [p \in 1 .. n + 1 |-> IF p = P THEN Lower(dom[P], k)
                                         ELSE IF p = n + 1 THEN Upper(dom[P], k) ELSE dom[p]]
           lev2 == [p \in 1 .. n + 1 |-> IF p = n + 1 THEN lev[P] ELSE lev[p]]
<1>1. dom \in [1 .. n -> SUBSET Int] /\ lev \in [1 .. n -> Nat]
  BY DEF Ranked
<1>2. \A p \in 1 .. n + 1 : p \in 1 .. n \/ p = n + 1
  OBVIOUS
<1>3. Lower(dom[P], k) \in SUBSET Int /\ Upper(dom[P], k) \in SUBSET Int
  BY <1>1 DEF Lower, Upper
<1>4. dom2 \in [1 .. n + 1 -> SUBSET Int]
  BY <1>1, <1>2, <1>3
<1>5. lev2 \in [1 .. n + 1 -> Nat]
  BY <1>1, <1>2
<1>6. P # n + 1 /\ n + 1 \in 1 .. n + 1 /\ \A p \in 1 .. n : p \in 1 .. n + 1 /\ p # n + 1
  OBVIOUS
<1>7. dom2[P] = Lower(dom[P], k) /\ dom2[n + 1] = Upper(dom[P], k) /\ lev2[n + 1] = lev[P]
  BY <1>6
<1>8. \A p \in 1 .. n : lev2[p] = lev[p] /\ (p # P => dom2[p] = dom[p])
  BY <1>6
<1> HIDE DEF dom2, lev2
<1>9. SplitOf(dom2, lev2, dom, lev, n, P, k)
  BY <1>4, <1>5, <1>7, <1>8 DEF SplitOf
<1> QED  BY <1>9

\* g is the node above P, or P is the root; new has the halves of P at P and n + 1.
SplitNodes(n, P, k, dom, lev, dom2, lev2, old, new, g, q) ==
  /\ n \in Nat /\ P \in 1 .. n /\ k \in Int
  /\ Ranked(n, dom, lev) /\ Apart(n, dom, lev) /\ SplitOf(dom2, lev2, dom, lev, n, P, k)
  /\ k \in dom[P] /\ Lower(dom[P], k) # {}
  /\ \A p \in 1 .. n : NodeTyped(old[p], n) /\ NodeFits(old[p], p, dom, lev)
  /\ \A p \in 1 .. n : p # P /\ p # g => new[p] = old[p]
  /\ NodeFits(new[P], P, dom2, lev2) /\ NodeFits(new[n + 1], n + 1, dom2, lev2)
  /\ \/ g = P /\ \A p \in 1 .. n : lev[p] <= lev[P]
     \/ /\ g \in 1 .. n
        /\ old[g].type # "leaf" /\ Kid(old[g], P)
        /\ new[g].type # "leaf" /\ IntKeys(new[g].keys)
        /\ ChildAdded(new[g].keys, new[g].kids, old[g], k, n + 1, q)

\* After a split every node fits the new domains.
LEMMA SplitFits ==
  ASSUME NEW n, NEW P, NEW k, NEW dom, NEW lev, NEW dom2, NEW lev2, NEW old, NEW new, NEW g, NEW q,
         SplitNodes(n, P, k, dom, lev, dom2, lev2, old, new, g, q), NEW p \in 1 .. n + 1
  PROVE  NodeFits(new[p], p, dom2, lev2)
<1>t. n \in Nat /\ P \in 1 .. n /\ k \in Int
  BY DEF SplitNodes
<1> USE <1>t
<1>h. /\ Ranked(n, dom, lev) /\ Apart(n, dom, lev) /\ SplitOf(dom2, lev2, dom, lev, n, P, k)
      /\ k \in dom[P] /\ Lower(dom[P], k) # {}
      /\ \A r \in 1 .. n : NodeTyped(old[r], n) /\ NodeFits(old[r], r, dom, lev)
      /\ \A r \in 1 .. n : r # P /\ r # g => new[r] = old[r]
      /\ NodeFits(new[P], P, dom2, lev2) /\ NodeFits(new[n + 1], n + 1, dom2, lev2)
      /\ \/ g = P /\ \A r \in 1 .. n : lev[r] <= lev[P]
         \/ /\ g \in 1 .. n
            /\ old[g].type # "leaf" /\ Kid(old[g], P)
            /\ new[g].type # "leaf" /\ IntKeys(new[g].keys)
            /\ ChildAdded(new[g].keys, new[g].kids, old[g], k, n + 1, q)
  BY DEF SplitNodes
<1>1. CASE p = n + 1 \/ p = P
  BY <1>h, <1>1
<1>2. CASE p \in 1 .. n /\ p = g /\ p # P
  <2>1. /\ g \in 1 .. n /\ old[g].type # "leaf" /\ Kid(old[g], P)
        /\ new[g].type # "leaf" /\ IntKeys(new[g].keys)
        /\ ChildAdded(new[g].keys, new[g].kids, old[g], k, n + 1, q)
    BY <1>h, <1>2
  <2>2. NodeTyped(old[g], n) /\ NodeFits(old[g], g, dom, lev)
    BY <1>h, <2>1
  <2> DEFINE o == old[g]
             w == new[g]
  <2>3. /\ g \in 1 .. n /\ o.type # "leaf" /\ NodeTyped(o, n) /\ NodeFits(o, g, dom, lev) /\ Kid(o, P)
        /\ w.type # "leaf" /\ IntKeys(w.keys) /\ ChildAdded(w.keys, w.kids, o, k, n + 1, q)
    BY <2>1, <2>2
  <2>4. Ranked(n, dom, lev) /\ SplitOf(dom2, lev2, dom, lev, n, P, k) /\ k \in dom[P] /\ Lower(dom[P], k) # {}
    BY <1>h
  <2> HIDE DEF o, w
  <2>5. NodeFits(w, g, dom2, lev2)
    BY <2>3, <2>4, SplitAbove, Zenon
  <2> QED  BY <1>2, <2>5 DEF w
<1>3. CASE p \in 1 .. n /\ p # g /\ p # P
  <2> DEFINE o == old[p]
  <2>1. NodeTyped(o, n) /\ NodeFits(o, p, dom, lev) /\ new[p] = o
    BY <1>h, <1>3
  <2>2. ASSUME o.type # "leaf", Kid(o, P) PROVE FALSE
    <3>1. CASE g = P /\ \A r \in 1 .. n : lev[r] <= lev[P]
      <4>1. lev[P] + 1 = lev[p]
        BY <2>1, <2>2 DEF NodeFits, Fits, Kid
      <4>2. lev[p] <= lev[P] /\ lev[p] \in Nat /\ lev[P] \in Nat
        BY <1>h, <1>3, <3>1 DEF Ranked
      <4> QED  BY <4>1, <4>2
    <3>2. CASE g \in 1 .. n /\ old[g].type # "leaf" /\ Kid(old[g], P)
      <4>1. NodeFits(old[g], g, dom, lev)
        BY <1>h, <3>2
      <4> HIDE DEF o
      <4>2. Ranked(n, dom, lev) /\ Apart(n, dom, lev)
        BY <1>h
      <4>3. g = p
        BY <1>3, <2>1, <2>2, <3>2, <4>1, <4>2, OneParent, Zenon
      <4> QED  BY <1>3, <4>3
    <3> QED  BY <1>h, <3>1, <3>2
  <2> HIDE DEF o
  <2>3. SplitOf(dom2, lev2, dom, lev, n, P, k)
    BY <1>h
  <2>4. NodeFits(o, p, dom2, lev2)
    BY <1>3, <2>1, <2>2, <2>3, SplitOther, Zenon
  <2> QED  BY <2>1, <2>4
<1> QED  BY <1>1, <1>2, <1>3

-----------------------------------------------------------------------------
(***************************************************************************)
(* The order invariant.                                                    *)
(***************************************************************************)
\* The node as it is once the insert under way has put the new child into it.
NodeAt(p) == IF pc = "promote" /\ path # <<>> /\ p = Parent THEN Combined ELSE pages[p]

\* The root is above all pages and has every key.  After its split, and before there
\* is a new root, it shares them with its new sibling.
RootFits(dom, lev) ==
  /\ \A p \in Page : lev[p] <= lev[root_page]
  /\ lev[root_page] < Len(pages)
  /\ IF pc = "promote" /\ path = <<>>
     THEN /\ dom[root_page] = Lower(Int, promote_key)
          /\ dom[promote_child] = Upper(Int, promote_key)
          /\ lev[promote_child] = lev[root_page]
     ELSE dom[root_page] = Int

\* The path leads from the root downwards, from parent to child.
PathFits(lev) ==
  /\ path # <<>> => path[1] = root_page
  /\ \A i \in 1 .. Len(path) : lev[path[i]] + i = lev[root_page] + 1
  /\ \A i \in 1 .. Len(path) - 1 : Kid(pages[path[i]], path[i + 1])

\* The descent is on the way to where the new key belongs.
CurFits(dom) ==
  pc = "descend" =>
    /\ cell.key \in dom[cur]
    /\ path = <<>> => cur = root_page
    /\ path # <<>> => Kid(pages[path[Len(path)]], cur)

Ordered(dom, lev) ==
  /\ Ranked(Len(pages), dom, lev) /\ Apart(Len(pages), dom, lev)
  /\ \A p \in Page : NodeFits(NodeAt(p), p, dom, lev)
  /\ RootFits(dom, lev) /\ PathFits(lev) /\ CurFits(dom)

\* A separator is the key of a row: of a stored one or, during its promotion, of the
\* one that is being inserted.
RowKey(k) == (\E x \in acked : x.key = k) \/ (pc = "promote" /\ k = cell.key)
Separators ==
  /\ \A p \in Page : ~IsLeaf(p) => \A i \in 1 .. Len(pages[p].keys) : RowKey(pages[p].keys[i])
  /\ pc = "promote" => RowKey(promote_key)

\* Until an insert fails, or a split does.
OrderInv ==
  failed = {} /\ pc # "broken" => Separators /\ \E dom, lev : Ordered(dom, lev)

\* The node with the promoted child in it is well formed too.
LEMMA NodeAtTyped == ASSUME ShapeInv, NEW p \in Page PROVE NodeTyped(NodeAt(p), Len(pages))
<1>0. PagesOK /\ Len(pages) \in Nat
  BY LenPages DEF ShapeInv
<1>1. CASE pc = "promote" /\ path # <<>> /\ p = Parent
  <2>1. PICK keys \in Seq(Keys), kids \in Seq(Page) :
          Combined = Internal(keys, kids) /\ Len(keys) = Len(pages[Parent].keys) + 1
            /\ Len(kids) = Len(pages[Parent].keys) + 2
    BY <1>1, CombinedProperties
  <2>2. Len(pages[Parent].keys) \in Nat
    <3>1. Parent \in Page /\ ~IsLeaf(Parent)
      BY <1>1, ParentFacts
    <3> QED  BY <1>0, <3>1, InternalFields
  <2>3. Len(keys) \in Nat /\ keys \in [1 .. Len(keys) -> Keys]
    OBVIOUS
  <2>4. IntKeys(keys) /\ Len(kids) = Len(keys) + 1
    <3>1. \A i \in 1 .. Len(keys) : keys[i] \in Int
      BY <2>3, BTreeAssumption
    <3> QED  BY <2>1, <2>2, <2>3, <3>1 DEF IntKeys
  <2>5. kids \in [1 .. Len(keys) + 1 -> 1 .. Len(pages)]
    BY <2>4 DEF Page
  <2>6. NodeAt(p) = [type |-> "internal", keys |-> keys, kids |-> kids]
    BY <1>1, <2>1 DEF NodeAt, Internal
  <2> QED  BY <2>4, <2>5, <2>6 DEF NodeTyped
<1>2. CASE ~(pc = "promote" /\ path # <<>> /\ p = Parent)
  <2>1. NodeAt(p) = pages[p]
    BY <1>2 DEF NodeAt
  <2>2. CASE IsLeaf(p)
    BY <1>0, <2>1, <2>2, LeafFields DEF NodeTyped, IsLeaf
  <2>3. CASE ~IsLeaf(p)
    <3> DEFINE keys == pages[p].keys
               kids == pages[p].kids
    <3>1. keys \in Seq(Int) /\ kids \in Seq(Page) /\ Len(kids) = Len(keys) + 1
      BY <1>0, <2>3, InternalFields
    <3>2. IntKeys(keys)
      <4> HIDE DEF keys, kids
      <4> QED  BY <3>1 DEF IntKeys
    <3>3. kids \in [1 .. Len(keys) + 1 -> 1 .. Len(pages)]
      <4> HIDE DEF keys, kids
      <4> QED  BY <3>1 DEF Page
    <3> QED  BY <2>1, <2>3, <3>1, <3>2, <3>3 DEF NodeTyped, IsLeaf
  <2> QED  BY <2>2, <2>3
<1> QED  BY <1>1, <1>2

\* Outside of the promotion the nodes are as they are.
LEMMA NodeAtPage == ASSUME pc # "promote" PROVE \A p : NodeAt(p) = pages[p]
BY DEF NodeAt

-----------------------------------------------------------------------------
(***************************************************************************)
(* The order invariant, action by action.                                  *)
(***************************************************************************)
\* The empty leaf has every key in its domain.
LEMMA InitOrder == Init => OrderInv
<1> SUFFICES ASSUME Init PROVE Separators /\ \E dom, lev : Ordered(dom, lev)
  BY DEF OrderInv
<1>1. /\ pc = "idle" /\ path = <<>> /\ root_page = 1
      /\ pages = <<[type |-> "leaf", cells |-> <<>>, next |-> 0]>>
  BY DEF Init, Leaf
<1>2. Len(pages) = 1 /\ pages[1] = [type |-> "leaf", cells |-> <<>>, next |-> 0]
  BY <1>1
<1>3. Page = {1}
  BY <1>2 DEF Page
<1>4. Separators
  BY <1>1, <1>2, <1>3 DEF Separators, IsLeaf
<1> DEFINE dom == [p \in 1 .. 1 |-> Int]
           lev == [p \in 1 .. 1 |-> 0]
<1>5. Ranked(1, dom, lev)
  BY DEF Ranked
<1>6. Apart(1, dom, lev)
  <2>1. 0 \in Int /\ \A p \in 1 .. 1 : p = 1
    OBVIOUS
  <2> QED  BY <2>1 DEF Apart
<1>7. dom[1] = Int /\ lev[1] = 0
  OBVIOUS
<1> HIDE DEF dom, lev
<1>8. NodeFits(pages[1], 1, dom, lev)
  BY <1>2, <1>7 DEF NodeFits, LeafFits
<1>9. \A p \in Page : NodeFits(NodeAt(p), p, dom, lev)
  BY <1>1, <1>3, <1>8 DEF NodeAt
<1>10. RootFits(dom, lev) /\ PathFits(lev) /\ CurFits(dom)
  BY <1>1, <1>2, <1>3, <1>7 DEF RootFits, PathFits, CurFits
<1>11. Ordered(dom, lev)
  BY <1>2, <1>5, <1>6, <1>9, <1>10 DEF Ordered
<1> QED  BY <1>4, <1>11

\* An insert starts at the root, which has every key in its domain.
LEMMA InsertOrder ==
  ASSUME ShapeInv, Separators, NEW dom, NEW lev, Ordered(dom, lev), NEW k \in Keys, NEW c \in Costs, Insert(k, c)
  PROVE  Separators' /\ Ordered(dom, lev)'
<1>1. /\ pc = "idle" /\ pc' = "descend" /\ cur' = root_page /\ cell' = [key |-> k, cost |-> c]
      /\ UNCHANGED <<pages, root_page, limit, path, promote_key, promote_child, acked, failed>>
  BY DEF Insert
<1>2. path = <<>> /\ k \in Int
  BY <1>1, BTreeAssumption DEF ShapeInv, InsertOK
<1>3. Separators'
  BY <1>1 DEF Separators, RowKey, Page, IsLeaf
<1>4. Page' = Page /\ \A p : NodeAt(p)' = NodeAt(p)
  BY <1>1 DEF NodeAt, Page
<1>5. RootFits(dom, lev)' /\ dom[root_page] = Int
  BY <1>1, <1>4 DEF Ordered, RootFits
<1>6. PathFits(lev)'
  BY <1>1 DEF Ordered, PathFits
<1>7. CurFits(dom)'
  BY <1>1, <1>2, <1>5 DEF CurFits
<1> QED  BY <1>1, <1>3, <1>4, <1>5, <1>6, <1>7 DEF Ordered

\* The child of an internal node is one level below it.
LEMMA KidLevel ==
  ASSUME NEW node, NEW p, NEW c, NEW dom, NEW lev,
         node.type # "leaf", NodeFits(node, p, dom, lev), Kid(node, c)
  PROVE  lev[c] + 1 = lev[p]
BY DEF NodeFits, Fits, Kid

\* The path below the root, and the page that the descent is at.
LEMMA CurLevel ==
  ASSUME ShapeInv, NEW dom, NEW lev, Ordered(dom, lev), pc = "descend"
  PROVE  lev[cur] + Len(path) = lev[root_page]
<1>1. Len(path) \in Nat /\ root_page \in Page /\ cur \in Page /\ path \in Seq(Page)
  BY DEF ShapeInv, InsertOK
<1>2. lev \in [Page -> Nat]
  BY DEF Ordered, Ranked, Page
<1>3. CASE path = <<>>
  BY <1>1, <1>2, <1>3 DEF Ordered, CurFits
<1>4. CASE path # <<>>
  <2> DEFINE l == Len(path)
             P == path[l]
  <2>1. l \in 1 .. Len(path) /\ P \in Page /\ ~IsLeaf(P)
    BY <1>1, <1>4 DEF ShapeInv, InsertOK
  <2>2. Kid(pages[P], cur)
    BY <1>4 DEF Ordered, CurFits
  <2>3. NodeFits(pages[P], P, dom, lev)
    BY <2>1, NodeAtPage DEF Ordered
  <2>4. pages[P].type # "leaf"
    BY <2>1 DEF IsLeaf
  <2>5. lev[P] + l = lev[root_page] + 1
    BY <2>1 DEF Ordered, PathFits
  <2> HIDE DEF P, l
  <2>6. lev[cur] + 1 = lev[P]
    BY <2>2, <2>3, <2>4, KidLevel
  <2>7. lev[cur] \in Nat /\ lev[P] \in Nat /\ lev[root_page] \in Nat /\ l \in Nat
    BY <1>1, <1>2, <2>1
  <2>8. lev[cur] + l = lev[root_page]
    BY <2>5, <2>6, <2>7
  <2> QED  BY <2>8 DEF l
<1> QED  BY <1>3, <1>4

\* find_leaf goes to the child whose domain has the key: it differs from every separator.
LEMMA DescendOrder ==
  ASSUME UniqueKeys, ShapeInv, failed = {}, Separators, NEW dom, NEW lev, Ordered(dom, lev), Descend
  PROVE  Separators' /\ Ordered(dom, lev)'
<1>1. /\ pc = "descend" /\ cur \in Page /\ ~IsLeaf(cur) /\ cell \in Cell
      /\ cur' = pages[cur].kids[Position(pages[cur].keys, cell.key)]
      /\ Position(pages[cur].keys, cell.key) \in 1 .. Len(pages[cur].kids)
      /\ Len(path') = Len(path) + 1
      /\ path'[Len(path) + 1] = cur /\ \A i \in 1 .. Len(path) : path'[i] = path[i]
      /\ UNCHANGED <<pc, pages, root_page, limit, cell, promote_key, promote_child, inserts, acked, failed>>
  BY DescendFacts
<1>2. PagesOK /\ Len(path) \in Nat /\ root_page \in Page
  BY DEF ShapeInv, InsertOK
<1>3. Separators'
  BY <1>1 DEF Separators, RowKey, Page, IsLeaf
<1>4. Page' = Page /\ pages' = pages
  BY <1>1 DEF Page
<1>5. \A p : NodeAt(p) = pages[p] /\ NodeAt(p)' = pages[p]
  BY <1>1 DEF NodeAt
<1>6. path' # <<>>
  BY <1>1, <1>2
<1>7. RootFits(dom, lev)'
  BY <1>1, <1>4 DEF Ordered, RootFits
<1>8. lev[cur] + Len(path) = lev[root_page]
  BY <1>1, CurLevel
<1>9. lev[cur] \in Nat /\ lev[root_page] \in Nat
  BY <1>1, <1>2 DEF Ordered, Ranked, Page
<1>10. PathFits(lev)'
  <2>1. path'[1] = root_page
    <3>1. CASE path = <<>>
      BY <1>1, <3>1 DEF Ordered, CurFits
    <3>2. CASE path # <<>>
      <4>1. 1 \in 1 .. Len(path)
        BY <1>2, <3>2 DEF ShapeInv, InsertOK
      <4> QED  BY <1>1, <3>2, <4>1 DEF Ordered, PathFits
    <3> QED  BY <3>1, <3>2
  <2>2. ASSUME NEW i \in 1 .. Len(path) + 1 PROVE lev[path'[i]] + i = lev[root_page] + 1
    <3>1. CASE i \in 1 .. Len(path)
      <4>1. path'[i] = path[i] /\ lev[path[i]] + i = lev[root_page] + 1
        BY <1>1, <3>1 DEF Ordered, PathFits
      <4> QED  BY <4>1
    <3>2. CASE i = Len(path) + 1
      <4>1. path'[i] = cur
        BY <1>1, <3>2
      <4>2. lev[cur] + (Len(path) + 1) = lev[root_page] + 1
        BY <1>2, <1>8, <1>9
      <4> QED  BY <3>2, <4>1, <4>2
    <3> QED  BY <1>2, <3>1, <3>2
  <2>3. ASSUME NEW i \in 1 .. Len(path) PROVE Kid(pages[path'[i]], path'[i + 1])
    <3>1. CASE i \in 1 .. Len(path) - 1
      <4>1. path'[i] = path[i] /\ path'[i + 1] = path[i + 1]
        BY <1>1, <1>2, <3>1
      <4> QED  BY <3>1, <4>1 DEF Ordered, PathFits
    <3>2. CASE i = Len(path)
      <4>1. path # <<>> /\ path'[i] = path[Len(path)] /\ path'[i + 1] = cur
        BY <1>1, <1>2, <3>2
      <4> QED  BY <1>1, <4>1 DEF Ordered, CurFits
    <3> QED  BY <1>2, <3>1, <3>2
  <2>4. Len(path') - 1 = Len(path)
    BY <1>1, <1>2
  <2> QED  BY <1>1, <1>4, <2>1, <2>2, <2>3, <2>4 DEF PathFits
<1>11. CurFits(dom)'
  <2> DEFINE keys == pages[cur].keys
             kids == pages[cur].kids
             D == dom[cur]
             k == cell.key
             q == Position(keys, k)
  <2>1. keys \in Seq(Int) /\ k \in Int /\ Len(kids) = Len(keys) + 1
    BY <1>1, <1>2, InternalFields, BTreeAssumption DEF Cell
  <2>2. k \in D
    BY <1>1 DEF Ordered, CurFits
  <2>3. \A i \in 1 .. Len(keys) : keys[i] # k
    <3>1. \A x \in acked : x.key # k
      BY <1>1 DEF ShapeInv, HistoryOK
    <3>2. \A i \in 1 .. Len(keys) : \E x \in acked : x.key = keys[i]
      BY <1>1 DEF Separators, RowKey
    <3> QED  BY <3>1, <3>2
  <2>4. NodeFits(pages[cur], cur, dom, lev) /\ pages[cur].type # "leaf"
    BY <1>1, <1>5 DEF Ordered, IsLeaf
  <2>5. \A i \in 1 .. Len(kids) : dom[kids[i]] = Slice(keys, D, i)
    BY <2>4 DEF NodeFits, Fits
  <2>6. cur' = kids[q] /\ q \in 1 .. Len(kids)
    BY <1>1
  <2>7. Kid(pages[cur], cur')
    BY <2>6 DEF Kid
  <2> HIDE DEF keys, kids, D, k
  <2>8. (\A i \in 1 .. q - 1 : keys[i] < k) /\ (q <= Len(keys) => keys[q] >= k) /\ q \in 1 .. Len(keys) + 1
    BY <2>1, PositionProperties
  <2> HIDE DEF q
  <2>9. q > 1 => keys[q - 1] <= k
    <3>1. q > 1 => q - 1 \in 1 .. q - 1 /\ q - 1 \in 1 .. Len(keys)
      BY <2>1, <2>8
    <3> QED  BY <2>1, <2>8, <3>1
  <2>10. q <= Len(keys) => k < keys[q]
    <3>1. q <= Len(keys) => q \in 1 .. Len(keys)
      BY <2>1, <2>8
    <3> QED  BY <2>1, <2>3, <2>8, <3>1
  <2>11. k \in Slice(keys, D, q)
    BY <2>2, <2>9, <2>10 DEF Slice
  <2>12. k \in dom[cur']
    BY <2>5, <2>6, <2>11
  <2>13. path'[Len(path')] = cur
    BY <1>1
  <2> QED  BY <1>1, <1>4, <1>6, <2>7, <2>12, <2>13 DEF CurFits, k
<1> QED  BY <1>3, <1>4, <1>5, <1>7, <1>10, <1>11 DEF Ordered

\* The cells of the leaf where the descent has ended, with the new one.
LEMMA LeafWithCell ==
  ASSUME UniqueKeys, ShapeInv, CellsInv, NEW dom, NEW lev, Ordered(dom, lev),
         pc = "descend", cur \in Page, IsLeaf(cur)
  PROVE  /\ WithCell(pages[cur].cells, cell) \in Seq(Cell)
         /\ LeafFits(WithCell(pages[cur].cells, cell), dom[cur])
         /\ lev[cur] = 0 /\ (pages[cur].next # 0 => Before(dom[cur], dom[pages[cur].next]))
         /\ \A i \in 1 .. Len(WithCell(pages[cur].cells, cell)) :
              \/ WithCell(pages[cur].cells, cell)[i] = cell
              \/ \E j \in 1 .. Len(pages[cur].cells) :
                   WithCell(pages[cur].cells, cell)[i] = pages[cur].cells[j]
<1> DEFINE s == pages[cur].cells
           t == WithCell(s, cell)
<1>1. /\ cell \in Cell /\ s \in Seq(Cell) /\ \A i \in 1 .. Len(s) : s[i].key # cell.key
      /\ \A i, j \in 1 .. Len(s) : s[i].key = s[j].key => i = j
  BY FreshCell
<1>2. NodeFits(pages[cur], cur, dom, lev)
  BY NodeAtPage DEF Ordered
<1>3. lev[cur] = 0 /\ LeafFits(s, dom[cur]) /\ (pages[cur].next # 0 => Before(dom[cur], dom[pages[cur].next]))
  BY <1>2 DEF NodeFits, IsLeaf
<1>4. cell.key \in dom[cur]
  BY DEF Ordered, CurFits
<1> HIDE DEF s
<1>5. t \in Seq(Cell) /\ \E q \in 1 .. Len(s) + 1 : CellAdded(t, s, cell, q)
  BY <1>1, WithCellProperties
<1>6. PICK q : CellAdded(t, s, cell, q)
  BY <1>5
<1> HIDE DEF t
<1>7. LeafFits(t, dom[cur])
  BY <1>1, <1>3, <1>4, <1>5, <1>6, LeafInsertFits
<1>8. OneMore(t, s, cell)
  BY <1>1, <1>5, <1>6, AddedCells
<1> QED  BY <1>3, <1>5, <1>7, <1>8 DEF OneMore, s, t

\* A leaf with room takes the cell; no domain changes.
LEMMA InsertIntoLeafOrder ==
  ASSUME UniqueKeys, ShapeInv, CellsInv, Separators, NEW dom, NEW lev, Ordered(dom, lev), InsertIntoLeaf
  PROVE  Separators' /\ Ordered(dom, lev)'
<1>1. /\ pc = "descend" /\ cur \in Page /\ IsLeaf(cur) /\ Succeed
      /\ Len(pages') = Len(pages)
      /\ \A p \in Page : p # cur => pages'[p] = pages[p]
      /\ pages'[cur].type = "leaf" /\ pages'[cur].cells = WithCell(pages[cur].cells, cell)
      /\ pages'[cur].next = pages[cur].next
      /\ root_page' = root_page
  BY InsertIntoLeafEffect
<1>2. pc' = "idle" /\ path' = <<>> /\ acked' = acked \cup {cell}
  BY <1>1 DEF Succeed, Return
<1>3. Page' = Page
  BY <1>1 DEF Page
<1>4. /\ LeafFits(WithCell(pages[cur].cells, cell), dom[cur]) /\ lev[cur] = 0
      /\ pages[cur].next # 0 => Before(dom[cur], dom[pages[cur].next])
  BY <1>1, LeafWithCell
<1>5. \A p : NodeAt(p) = pages[p] /\ NodeAt(p)' = pages'[p]
  BY <1>1, <1>2 DEF NodeAt
<1>6. ASSUME NEW p \in Page PROVE NodeFits(pages'[p], p, dom, lev)
  <2>1. CASE p = cur
    <3> DEFINE w == pages'[cur]
    <3>1. w.type = "leaf" /\ LeafFits(w.cells, dom[cur]) /\ lev[cur] = 0
            /\ (w.next # 0 => Before(dom[cur], dom[w.next]))
      BY <1>1, <1>4
    <3> QED  BY <2>1, <3>1 DEF NodeFits
  <2>2. CASE p # cur
    BY <1>1, <1>5, <2>2 DEF Ordered
  <2> QED  BY <2>1, <2>2
<1>7. RootFits(dom, lev)'
  BY <1>1, <1>2, <1>3 DEF Ordered, RootFits
<1>8. PathFits(lev)' /\ CurFits(dom)'
  BY <1>2 DEF PathFits, CurFits
<1>9. Separators'
  <2>1. ASSUME NEW p \in Page, ~IsLeaf(p)' PROVE p # cur /\ pages'[p] = pages[p] /\ ~IsLeaf(p)
    BY <1>1, <2>1 DEF IsLeaf
  <2>2. ASSUME NEW k, RowKey(k) PROVE RowKey(k)'
    BY <1>1, <1>2, <2>2 DEF RowKey
  <2> QED  BY <1>2, <1>3, <2>1, <2>2 DEF Separators
<1>10. Ranked(Len(pages), dom, lev)' /\ Apart(Len(pages), dom, lev)'
  BY <1>1 DEF Ordered
<1> QED  BY <1>3, <1>5, <1>6, <1>7, <1>8, <1>9, <1>10 DEF Ordered

\* The node above a page that is split, with the new page as a child.
LEMMA ParentWithChild ==
  ASSUME PagesOK, NEW g \in Page, ~IsLeaf(g), NEW k \in Keys
  PROVE  \E q : /\ WithChild(pages[g], k, Len(pages) + 1).type # "leaf"
                /\ IntKeys(WithChild(pages[g], k, Len(pages) + 1).keys)
                /\ ChildAdded(WithChild(pages[g], k, Len(pages) + 1).keys,
                              WithChild(pages[g], k, Len(pages) + 1).kids, pages[g], k, Len(pages) + 1, q)
<1> DEFINE node == pages[g]
           n == Len(pages)
           w == WithChild(node, k, n + 1)
<1>1. n \in Nat
  BY LenPages
<1>2. node.keys \in Seq(Keys) /\ node.kids \in Seq(Page) /\ Len(node.kids) = Len(node.keys) + 1
  BY InternalFields
<1>3. node.kids \in Seq(1 .. n + 1)
  <2>1. Page \subseteq 1 .. n + 1
    BY <1>1 DEF Page
  <2> QED  BY <1>2, <2>1, SeqMonotonic
<1>4. n + 1 \in 1 .. n + 1
  BY <1>1
<1> HIDE DEF node, n
<1>5. PICK keys \in Seq(Keys), kids \in Seq(1 .. n + 1), q \in 1 .. Len(node.keys) + 1 :
        w = Internal(keys, kids) /\ ChildAdded(keys, kids, node, k, n + 1, q)
  BY <1>2, <1>3, <1>4, WithChildProperties
<1> HIDE DEF w
<1>6. w.type = "internal" /\ w.keys = keys /\ w.kids = kids
  BY <1>5 DEF Internal
<1>7. IntKeys(keys)
  <2>1. Len(keys) \in Nat /\ keys \in [1 .. Len(keys) -> Keys]
    OBVIOUS
  <2>2. \A i \in 1 .. Len(keys) : keys[i] \in Int
    BY <2>1, BTreeAssumption
  <2> QED  BY <2>1, <2>2 DEF IntKeys
<1>8. w.type # "leaf" /\ IntKeys(w.keys) /\ ChildAdded(w.keys, w.kids, node, k, n + 1, q)
  BY <1>5, <1>6, <1>7
<1> QED  BY <1>8 DEF w, node, n

\* The promoted key is that of the first cell of the right leaf.
LEMMA SplitLeafSeparators ==
  ASSUME UniqueKeys, ShapeInv, CellsInv, failed = {}, Separators, NEW dom, NEW lev, Ordered(dom, lev), SplitLeaf
  PROVE  Separators'
<1>1. /\ pc = "descend" /\ cur \in Page /\ IsLeaf(cur) /\ Len(pages') = Len(pages) + 1
      /\ \A p \in Page : p # cur => pages'[p] = pages[p]
      /\ pages'[cur].type = "leaf" /\ pages'[Len(pages) + 1].type = "leaf" /\ pc' = "promote"
      /\ UNCHANGED <<cell, acked>>
  BY SplitLeafEffect
<1>2. PICK s \in Seq(Cell), n \in Nat :
        n \in 1 .. Len(s) - 1 /\
        s = WithCell(pages[cur].cells, cell) /\ promote_key' = s[n + 1].key
  BY SplitLeafEffect
<1>3. \A i \in 1 .. Len(s) : s[i] = cell \/ \E j \in 1 .. Len(pages[cur].cells) : s[i] = pages[cur].cells[j]
  BY <1>1, <1>2, LeafWithCell
<1>4. n + 1 \in 1 .. Len(s)
  BY <1>2
<1>5. s[n + 1] = cell \/ s[n + 1] \in acked
  <2>1. ASSUME NEW j \in 1 .. Len(pages[cur].cells) PROVE pages[cur].cells[j] \in acked
    <3>1. Stored(pages[cur].cells[j])
      BY <1>1 DEF Stored
    <3> QED  BY <1>1, <3>1 DEF CellsInv
  <2> QED  BY <1>3, <1>4, <2>1
<1>6. RowKey(promote_key)'
  BY <1>1, <1>2, <1>5 DEF RowKey
<1>7. \A k : RowKey(k) => RowKey(k)'
  BY <1>1 DEF RowKey
<1>8. ASSUME NEW p \in Page', ~IsLeaf(p)' PROVE p \in Page /\ ~IsLeaf(p) /\ pages'[p] = pages[p]
  <2>1. Len(pages) \in Nat
    BY LenPages DEF ShapeInv
  <2>2. p \in Page \/ p = Len(pages) + 1
    BY <1>1, <2>1 DEF Page
  <2> QED  BY <1>1, <1>8, <2>2 DEF IsLeaf
<1> QED  BY <1>6, <1>7, <1>8 DEF Separators

\* The split leaf shares its domain with its new sibling, at the promoted key.
LEMMA SplitLeafOrder ==
  ASSUME UniqueKeys, ShapeInv, CellsInv, NEW dom, NEW lev, Ordered(dom, lev), SplitLeaf
  PROVE  \E dom2, lev2 : Ordered(dom2, lev2)'
<1> DEFINE n == Len(pages)
           P == cur
           k == promote_key'
           D == dom[P]
<1>1. /\ pc = "descend" /\ P \in Page /\ IsLeaf(P) /\ Len(pages') = n + 1
      /\ \A p \in Page : p # P => pages'[p] = pages[p]
      /\ pages'[P].type = "leaf" /\ pages'[P].next = n + 1
      /\ pages'[n + 1].type = "leaf" /\ pages'[n + 1].next = pages[P].next
      /\ promote_child' = n + 1 /\ pc' = "promote"
      /\ UNCHANGED <<root_page, path>>
  BY SplitLeafEffect
<1>2. PICK s \in Seq(Cell), m \in Nat :
        /\ m \in 1 .. Len(s) - 1
        /\ s = WithCell(pages[P].cells, cell)
        /\ pages'[P].cells = SubSeq(s, 1, m)
        /\ pages'[n + 1].cells = SubSeq(s, m + 1, Len(s))
        /\ k = s[m + 1].key
  BY SplitLeafEffect
<1>3. /\ PagesOK /\ n \in Nat /\ P \in 1 .. n /\ Page = 1 .. n /\ Page' = 1 .. n + 1
      /\ root_page \in 1 .. n /\ path \in Seq(1 .. n)
      /\ \A i \in 1 .. Len(path) : ~IsLeaf(path[i])
  BY <1>1, LenPages DEF ShapeInv, InsertOK, Page
<1>4. Ranked(n, dom, lev) /\ Apart(n, dom, lev)
  BY DEF Ordered
<1>5. dom \in [1 .. n -> SUBSET Int] /\ lev \in [1 .. n -> Nat] /\ D \in SUBSET Int
  BY <1>3, <1>4 DEF Ranked
<1>6. /\ LeafFits(s, D) /\ lev[P] = 0
      /\ pages[P].next # 0 => Before(D, dom[pages[P].next])
  BY <1>1, <1>2, LeafWithCell
<1>7. /\ k \in D /\ Lower(D, k) # {}
      /\ LeafFits(pages'[P].cells, Lower(D, k)) /\ LeafFits(pages'[n + 1].cells, Upper(D, k))
  BY <1>2, <1>5, <1>6, LeafHalves
<1>8. k \in Int /\ k \in Keys
  <2>1. s[m + 1] \in Cell
    BY <1>2
  <2> QED  BY <1>2, <2>1, BTreeAssumption DEF Cell
<1> HIDE DEF k, n, D, P
<1>9. PICK dom2, lev2 : SplitOf(dom2, lev2, dom, lev, n, P, k)
  BY <1>3, <1>4, <1>8, SplitExists
<1>10. Ranked(n + 1, dom2, lev2) /\ Apart(n + 1, dom2, lev2)
  BY <1>3, <1>4, <1>7, <1>8, <1>9, SplitApart DEF D
<1>11. /\ dom2[P] = Lower(D, k) /\ dom2[n + 1] = Upper(D, k) /\ lev2[n + 1] = lev[P]
       /\ \A p \in 1 .. n : lev2[p] = lev[p] /\ (p # P => dom2[p] = dom[p])
  BY <1>9 DEF SplitOf, D
<1>12. \A x \in D : x \in Int
  BY <1>5
<1>13. NodeFits(pages'[P], P, dom2, lev2)
  <2> DEFINE w == pages'[P]
  <2>1. w.type = "leaf" /\ w.next = n + 1 /\ LeafFits(w.cells, dom2[P]) /\ lev2[P] = 0
    BY <1>1, <1>3, <1>6, <1>7, <1>11
  <2>2. Before(dom2[P], dom2[n + 1])
    BY <1>8, <1>11, <1>12 DEF Before, Lower, Upper
  <2> QED  BY <2>1, <2>2 DEF NodeFits
<1>14. NodeFits(pages'[n + 1], n + 1, dom2, lev2)
  <2> DEFINE w == pages'[n + 1]
             nx == pages[P].next
  <2>1. w.type = "leaf" /\ w.next = nx /\ LeafFits(w.cells, dom2[n + 1]) /\ lev2[n + 1] = 0
    BY <1>1, <1>6, <1>7, <1>11
  <2>2. nx \in 0 .. n
    BY <1>1, <1>3, LeafFields DEF n
  <2>3. nx # 0 => dom2[nx] \subseteq dom[nx]
    <3>1. nx # 0 => nx \in 1 .. n
      BY <1>3, <2>2
    <3> QED  BY <1>11, <3>1 DEF Lower, D
  <2>4. nx # 0 => Before(dom2[n + 1], dom2[nx])
    BY <1>6, <1>11, <2>3 DEF Before, Upper
  <2> QED  BY <2>1, <2>4 DEF NodeFits
<1> DEFINE old == [p \in 1 .. n |-> NodeAt(p)]
           new == [p \in 1 .. n + 1 |-> NodeAt(p)']
           g == IF path = <<>> THEN P ELSE path[Len(path)]
<1>15. path # <<>> => path[Len(path)] \in 1 .. n /\ ~IsLeaf(path[Len(path)]) /\ path[Len(path)] # P
  BY <1>1, <1>3
<1>16. path # <<>> => Parent' = path[Len(path)]
  BY <1>1, <1>3 DEF Parent, Last
<1>17. \A p \in 1 .. n : old[p] = pages[p]
  BY <1>1 DEF NodeAt
<1>18. \A p \in 1 .. n + 1 : p # g \/ p = P => new[p] = pages'[p]
  <2>1. ASSUME NEW p \in 1 .. n + 1, p # g \/ p = P PROVE NodeAt(p)' = pages'[p]
    BY <1>1, <1>15, <1>16, <2>1 DEF NodeAt
  <2> QED  BY <2>1
<1>19. P # n + 1 /\ P \in 1 .. n + 1 /\ n + 1 \in 1 .. n + 1 /\ n + 1 # g /\ \A p \in 1 .. n : p \in 1 .. n + 1
  BY <1>3, <1>15
<1>20. \A p \in 1 .. n : NodeTyped(old[p], n) /\ NodeFits(old[p], p, dom, lev)
  <2>1. ASSUME NEW p \in 1 .. n PROVE NodeTyped(old[p], n) /\ NodeFits(old[p], p, dom, lev)
    BY <1>3, NodeAtTyped DEF Ordered, n
  <2> QED  BY <2>1
<1>21. \A p \in 1 .. n : p # P /\ p # g => new[p] = old[p]
  <2> HIDE DEF old, new, g
  <2> QED  BY <1>1, <1>3, <1>17, <1>18, <1>19
<1>22. NodeFits(new[P], P, dom2, lev2) /\ NodeFits(new[n + 1], n + 1, dom2, lev2)
  <2> HIDE DEF old, new, g
  <2> QED  BY <1>13, <1>14, <1>18, <1>19
<1>23. \E q : \/ g = P /\ \A p \in 1 .. n : lev[p] <= lev[P]
              \/ /\ g \in 1 .. n
                 /\ old[g].type # "leaf" /\ Kid(old[g], P)
                 /\ new[g].type # "leaf" /\ IntKeys(new[g].keys)
                 /\ ChildAdded(new[g].keys, new[g].kids, old[g], k, n + 1, q)
  <2>1. CASE path = <<>>
    <3>1. P = root_page
      BY <1>1, <2>1 DEF Ordered, CurFits, P
    <3> QED  BY <1>3, <2>1, <3>1 DEF Ordered, RootFits
  <2>2. CASE path # <<>>
    <3>0. PICK h \in 1 .. n : h = path[Len(path)]
      BY <1>15, <2>2
    <3>1. h = g /\ ~IsLeaf(h) /\ h # P
      BY <1>15, <2>2, <3>0
    <3>2. Kid(pages[h], P)
      BY <1>1, <2>2, <3>0 DEF Ordered, CurFits, P
    <3>3. NodeAt(h)' = WithChild(pages[h], k, n + 1)
      <4>1. pages'[h] = pages[h] /\ Parent' = h
        BY <1>1, <1>3, <1>16, <2>2, <3>0, <3>1
      <4> QED  BY <1>1, <2>2, <4>1 DEF NodeAt, Combined, k
    <3>4. new[h] = WithChild(pages[h], k, n + 1) /\ old[h] = pages[h]
      BY <1>17, <1>19, <3>3
    <3> HIDE DEF old, new, g
    <3>5. \E q : /\ WithChild(pages[h], k, n + 1).type # "leaf"
                 /\ IntKeys(WithChild(pages[h], k, n + 1).keys)
                 /\ ChildAdded(WithChild(pages[h], k, n + 1).keys,
                               WithChild(pages[h], k, n + 1).kids, pages[h], k, n + 1, q)
      BY <1>3, <1>8, <3>1, ParentWithChild DEF n
    <3>6. old[h].type # "leaf"
      BY <3>1, <3>4 DEF IsLeaf
    <3> QED  BY <3>1, <3>2, <3>4, <3>5, <3>6
  <2> QED  BY <2>1, <2>2
<1>24. \A p \in 1 .. n + 1 : NodeFits(new[p], p, dom2, lev2)
  <2> HIDE DEF old, new, g
  <2>1. PICK q : \/ g = P /\ \A p \in 1 .. n : lev[p] <= lev[P]
                 \/ /\ g \in 1 .. n
                    /\ old[g].type # "leaf" /\ Kid(old[g], P)
                    /\ new[g].type # "leaf" /\ IntKeys(new[g].keys)
                    /\ ChildAdded(new[g].keys, new[g].kids, old[g], k, n + 1, q)
    BY <1>23
  <2>2. k \in dom[P] /\ Lower(dom[P], k) # {}
    BY <1>7 DEF D
  <2>3. SplitNodes(n, P, k, dom, lev, dom2, lev2, old, new, g, q)
    BY <1>3, <1>4, <1>8, <1>9, <1>20, <1>21, <1>22, <2>1, <2>2, Zenon DEF SplitNodes
  <2> QED  BY <2>3, SplitFits
<1>25. \A p \in Page' : NodeFits(NodeAt(p)', p, dom2, lev2)
  BY <1>3, <1>24
<1> HIDE DEF old, new, g
<1>26. root_page' = root_page /\ path' = path /\ pc' = "promote" /\ promote_child' = n + 1
  BY <1>1
<1>27. /\ \A p \in 1 .. n : lev[p] <= lev[root_page]
       /\ lev[root_page] < n /\ dom[root_page] = Int
  BY <1>1, <1>3 DEF Ordered, RootFits, n
<1>28. RootFits(dom2, lev2)'
  <2>1. \A p \in 1 .. n + 1 : lev2[p] <= lev2[root_page]
    <3>1. \A p \in 1 .. n + 1 : p \in 1 .. n \/ p = n + 1
      BY <1>3
    <3> QED  BY <1>3, <1>11, <1>27, <3>1
  <2>2. lev2[root_page] < n + 1
    BY <1>3, <1>5, <1>11, <1>27
  <2>3. CASE path = <<>>
    <3>1. P = root_page
      BY <1>1, <2>3 DEF Ordered, CurFits, P
    <3>2. dom2[root_page] = Lower(Int, k) /\ dom2[n + 1] = Upper(Int, k) /\ lev2[n + 1] = lev2[root_page]
      BY <1>3, <1>11, <1>27, <3>1 DEF D
    <3> QED  BY <1>1, <1>3, <1>26, <2>1, <2>2, <2>3, <3>2 DEF RootFits, k
  <2>4. CASE path # <<>>
    <3>1. root_page = path[1] /\ 1 \in 1 .. Len(path)
      BY <1>3, <2>4 DEF Ordered, PathFits
    <3>2. root_page # P
      BY <1>1, <1>3, <3>1
    <3>3. dom2[root_page] = Int
      BY <1>3, <1>11, <1>27, <3>2
    <3> QED  BY <1>1, <1>3, <1>26, <2>1, <2>2, <2>4, <3>3 DEF RootFits
  <2> QED  BY <2>3, <2>4
<1>29. PathFits(lev2)'
  <2>1. \A i \in 1 .. Len(path) : path[i] \in 1 .. n /\ pages'[path[i]] = pages[path[i]] /\ path[i] # P
    BY <1>1, <1>3
  <2>2. ASSUME NEW i \in 1 .. Len(path) PROVE lev2[path[i]] + i = lev2[root_page] + 1
    BY <1>3, <1>11, <2>1 DEF Ordered, PathFits
  <2>3. ASSUME NEW i \in 1 .. Len(path) - 1 PROVE Kid(pages'[path[i]], path[i + 1])
    <3>1. i \in 1 .. Len(path)
      BY <1>3
    <3> QED  BY <2>1, <3>1 DEF Ordered, PathFits
  <2>4. path # <<>> => path[1] = root_page
    BY DEF Ordered, PathFits
  <2> QED  BY <1>26, <2>2, <2>3, <2>4 DEF PathFits
<1>30. CurFits(dom2)'
  BY <1>26 DEF CurFits
<1>31. Ranked(Len(pages), dom2, lev2)' /\ Apart(Len(pages), dom2, lev2)'
  BY <1>1, <1>10
<1>32. Ordered(dom2, lev2)'
  BY <1>25, <1>28, <1>29, <1>30, <1>31 DEF Ordered
<1> QED  BY <1>32

\* Every separator of the node that a child has entered is one it had or the new one.
LEMMA CombinedSeparators ==
  ASSUME ShapeInv, Separators, pc = "promote", path # <<>>, NEW keys, NEW kids, NEW q,
         ChildAdded(keys, kids, pages[Parent], promote_key, promote_child, q), Len(pages[Parent].keys) \in Nat
  PROVE  \A i \in 1 .. Len(keys) : RowKey(keys[i])
<1> DEFINE s == pages[Parent].keys
           l == Len(s)
<1>1. /\ q \in 1 .. l + 1 /\ Len(keys) = l + 1
      /\ \A j \in 1 .. q - 1 : keys[j] = s[j]
      /\ keys[q] = promote_key
      /\ \A j \in q + 1 .. l + 1 : keys[j] = s[j - 1]
  BY DEF ChildAdded, InsertedAt
<1>2. Parent \in Page /\ ~IsLeaf(Parent)
  BY ParentFacts
<1>3. (\A i \in 1 .. l : RowKey(s[i])) /\ RowKey(promote_key)
  BY <1>2 DEF Separators
<1> HIDE DEF s, l
<1>4. l \in Nat
  BY DEF l, s
<1>5. ASSUME NEW i \in 1 .. l + 1 PROVE RowKey(keys[i])
  <2>1. CASE i < q
    <3>1. i \in 1 .. q - 1 /\ i \in 1 .. l
      BY <1>1, <1>4, <2>1
    <3> QED  BY <1>1, <1>3, <3>1
  <2>2. CASE i = q
    BY <1>1, <1>3, <2>2
  <2>3. CASE i > q
    <3>1. i \in q + 1 .. l + 1 /\ i - 1 \in 1 .. l
      BY <1>1, <1>4, <2>3
    <3> QED  BY <1>1, <1>3, <3>1
  <2> QED  BY <1>1, <1>4, <2>1, <2>2, <2>3
<1> QED  BY <1>1, <1>5

\* A parent with room takes the child that was already counted as its own.
LEMMA InsertIntoInternalOrder ==
  ASSUME ShapeInv, Separators, NEW dom, NEW lev, Ordered(dom, lev), InsertIntoInternal
  PROVE  Separators' /\ Ordered(dom, lev)'
<1>1. /\ pc = "promote" /\ path # <<>> /\ Len(pages') = Len(pages)
      /\ \A p \in Page : p # Parent => pages'[p] = pages[p]
      /\ pages'[Parent] = Combined
      /\ Succeed /\ root_page' = root_page
  BY InsertIntoInternalEffect
<1>2. pc' = "idle" /\ path' = <<>> /\ acked' = acked \cup {cell}
  BY <1>1 DEF Succeed, Return
<1>3. Page' = Page /\ PagesOK
  BY <1>1 DEF Page, ShapeInv
<1>4. Parent \in Page /\ ~IsLeaf(Parent)
  BY <1>1, ParentFacts
<1>5. \A p \in Page : NodeAt(p)' = NodeAt(p)
  BY <1>1, <1>2 DEF NodeAt
<1>6. RootFits(dom, lev)'
  BY <1>1, <1>2, <1>3 DEF Ordered, RootFits
<1>7. PathFits(lev)' /\ CurFits(dom)'
  BY <1>2 DEF PathFits, CurFits
<1>8. Separators'
  <2>1. PICK keys, kids, q : /\ Combined = [type |-> "internal", keys |-> keys, kids |-> kids]
                             /\ ChildAdded(keys, kids, pages[Parent], promote_key, promote_child, q)
    BY <1>1, CombinedProperties DEF Internal
  <2>2. Len(pages[Parent].keys) \in Nat
    BY <1>3, <1>4, InternalFields
  <2>3. \A i \in 1 .. Len(keys) : RowKey(keys[i])
    BY <1>1, <2>1, <2>2, CombinedSeparators
  <2>4. ASSUME NEW k, RowKey(k) PROVE RowKey(k)'
    BY <1>2, <2>4 DEF RowKey
  <2>5. ASSUME NEW p \in Page, ~IsLeaf(p)', NEW i \in 1 .. Len(pages'[p].keys) PROVE RowKey(pages'[p].keys[i])
    <3>1. CASE p = Parent
      BY <1>1, <2>1, <2>3, <2>5, <3>1
    <3>2. CASE p # Parent
      <4>1. pages'[p] = pages[p] /\ ~IsLeaf(p)
        BY <1>1, <2>5, <3>2 DEF IsLeaf
      <4> QED  BY <2>5, <4>1 DEF Separators
    <3> QED  BY <3>1, <3>2
  <2> QED  BY <1>2, <1>3, <2>4, <2>5 DEF Separators
<1>9. Ranked(Len(pages), dom, lev)' /\ Apart(Len(pages), dom, lev)'
  BY <1>1 DEF Ordered
<1> QED  BY <1>3, <1>5, <1>6, <1>7, <1>8, <1>9 DEF Ordered

\* The new root is one level above the old one and its sibling.
LEMMA NewRootOrder ==
  ASSUME ShapeInv, Separators, NEW dom, NEW lev, Ordered(dom, lev), NewRoot
  PROVE  Separators' /\ \E dom2, lev2 : Ordered(dom2, lev2)'
<1> DEFINE n == Len(pages)
           k == promote_key
           r == root_page
           c == promote_child
<1>1. /\ pc = "promote" /\ path = <<>>
      /\ k \in Keys /\ c \in Page /\ r \in Page /\ Len(pages') = n + 1
      /\ \A p \in Page : pages'[p] = pages[p]
      /\ pages'[n + 1].type = "internal"
      /\ pages'[n + 1].keys = <<k>> /\ pages'[n + 1].kids = <<r, c>>
      /\ root_page' = n + 1 /\ Succeed
  BY NewRootEffect
<1>2. pc' = "idle" /\ path' = <<>> /\ acked' = acked \cup {cell}
  BY <1>1 DEF Succeed, Return
<1>3. n \in Nat /\ Page = 1 .. n /\ Page' = 1 .. n + 1 /\ k \in Int
  BY <1>1, LenPages, BTreeAssumption DEF Page, ShapeInv
<1>4. Separators'
  <2>1. ASSUME NEW x, RowKey(x) PROVE RowKey(x)'
    BY <1>2, <2>1 DEF RowKey
  <2>2. ASSUME NEW p \in Page', ~IsLeaf(p)', NEW i \in 1 .. Len(pages'[p].keys) PROVE RowKey(pages'[p].keys[i])
    <3>1. CASE p = n + 1
      <4>1. pages'[p].keys[i] = k
        BY <1>1, <2>2, <3>1
      <4> QED  BY <1>1, <4>1 DEF Separators
    <3>2. CASE p \in Page
      <4>1. pages'[p] = pages[p] /\ ~IsLeaf(p)
        BY <1>1, <2>2, <3>2 DEF IsLeaf
      <4> QED  BY <2>2, <3>2, <4>1 DEF Separators
    <3> QED  BY <1>3, <3>1, <3>2
  <2> QED  BY <1>2, <2>1, <2>2 DEF Separators
<1>5. Ranked(n, dom, lev) /\ Apart(n, dom, lev)
  BY DEF Ordered
<1>6. /\ \A p \in 1 .. n : lev[p] <= lev[r]
      /\ lev[r] < n /\ lev[c] = lev[r]
      /\ dom[r] = Lower(Int, k) /\ dom[c] = Upper(Int, k)
  BY <1>1, <1>3 DEF Ordered, RootFits
<1>7. dom \in [1 .. n -> SUBSET Int] /\ lev \in [1 .. n -> Nat]
  BY <1>5 DEF Ranked
<1>8. PICK dom2 \in [1 .. n + 1 -> SUBSET Int], lev2 \in [1 .. n + 1 -> Nat] :
        /\ dom2[n + 1] = Int /\ lev2[n + 1] = lev[r] + 1
        /\ \A p \in 1 .. n : dom2[p] = dom[p] /\ lev2[p] = lev[p]
  <2> DEFINE d == [p \in 1 .. n + 1 |-> IF p = n + 1 THEN Int ELSE dom[p]]
             e == [p \in 1 .. n + 1 |-> IF p = n + 1 THEN lev[r] + 1 ELSE lev[p]]
  <2>1. \A p \in 1 .. n + 1 : p \in 1 .. n \/ p = n + 1
    BY <1>3
  <2>2. n + 1 \in 1 .. n + 1 /\ \A p \in 1 .. n : p \in 1 .. n + 1 /\ p # n + 1
    BY <1>3
  <2>3. d \in [1 .. n + 1 -> SUBSET Int]
    BY <1>7, <2>1
  <2>4. e \in [1 .. n + 1 -> Nat]
    BY <1>1, <1>3, <1>7, <2>1
  <2>5. /\ d[n + 1] = Int /\ e[n + 1] = lev[r] + 1
        /\ \A p \in 1 .. n : d[p] = dom[p] /\ e[p] = lev[p]
    BY <2>2
  <2> QED  BY <2>3, <2>4, <2>5
<1>9. /\ r \in 1 .. n /\ c \in 1 .. n /\ lev[r] \in Nat
      /\ \A p \in 1 .. n : NodeFits(pages[p], p, dom, lev) /\ NodeTyped(pages[p], n)
  <2>1. \A p \in Page : NodeAt(p) = pages[p]
    BY <1>1 DEF NodeAt
  <2>2. \A p \in 1 .. n : NodeFits(pages[p], p, dom, lev)
    BY <1>3, <2>1 DEF Ordered
  <2>3. \A p \in 1 .. n : NodeTyped(pages[p], n)
    BY <1>3, <2>1, NodeAtTyped
  <2> QED  BY <1>1, <1>3, <1>7, <2>2, <2>3
<1> DEFINE w == pages'[n + 1]
<1>10. NodeFits(w, n + 1, dom2, lev2)
  <2> DEFINE keys == <<k>>
             kids == <<r, c>>
  <2>1. w.type # "leaf" /\ w.keys = keys /\ w.kids = kids
    BY <1>1
  <2>2. Len(keys) = 1 /\ keys[1] = k /\ Len(kids) = 2 /\ kids[1] = r /\ kids[2] = c
    OBVIOUS
  <2> HIDE DEF keys, kids, n, r, c, k, w
  <2>3. Sorted(keys) /\ \A i \in 1 .. 1 : keys[i] \in Int
    BY <1>3, <2>2 DEF Sorted
  <2>4. Slice(keys, Int, 1) = Lower(Int, k)
    BY <2>2 DEF Slice, Lower
  <2>5. Slice(keys, Int, 2) = Upper(Int, k)
    <3>1. \A x \in Int : x >= k <=> k <= x
      BY <1>3
    <3>2. Slice(keys, Int, 2) = {x \in Int : k <= x}
      BY <2>2 DEF Slice
    <3> QED  BY <3>1, <3>2 DEF Upper
  <2>6. \A i \in 1 .. 2 : lev2[kids[i]] + 1 = lev2[n + 1] /\ dom2[kids[i]] = Slice(keys, Int, i)
    <3>1. \A i \in 1 .. 2 : i = 1 \/ i = 2
      OBVIOUS
    <3>2. lev2[r] + 1 = lev2[n + 1] /\ lev2[c] + 1 = lev2[n + 1] /\ dom2[r] = Lower(Int, k) /\ dom2[c] = Upper(Int, k)
      BY <1>6, <1>8, <1>9
    <3> QED  BY <2>2, <2>4, <2>5, <3>1, <3>2
  <2>7. Fits(keys, kids, n + 1, dom2, lev2)
    BY <1>8, <2>2, <2>3, <2>6 DEF Fits
  <2>8. lev2[n + 1] > 0
    BY <1>8, <1>9
  <2> QED  BY <2>1, <2>7, <2>8 DEF NodeFits
<1>11. ASSUME NEW p \in 1 .. n PROVE NodeFits(pages[p], p, dom2, lev2)
  <2> DEFINE o == pages[p]
  <2>1. NodeFits(o, p, dom, lev) /\ NodeTyped(o, n)
    BY <1>9
  <2> HIDE DEF o, n
  <2>2. CASE o.type = "leaf"
    <3>1. o.next \in 0 .. n
      BY <2>1, <2>2 DEF NodeTyped
    <3>2. o.next # 0 => o.next \in 1 .. n
      BY <1>3, <3>1
    <3>3. lev[p] = 0 /\ LeafFits(o.cells, dom[p]) /\ (o.next # 0 => Before(dom[p], dom[o.next]))
      BY <2>1, <2>2 DEF NodeFits
    <3>4. lev2[p] = lev[p] /\ dom2[p] = dom[p] /\ (o.next # 0 => dom2[o.next] = dom[o.next])
      BY <1>8, <3>2
    <3>5. lev2[p] = 0 /\ LeafFits(o.cells, dom2[p]) /\ (o.next # 0 => Before(dom2[p], dom2[o.next]))
      BY <3>3, <3>4
    <3> QED  BY <2>2, <3>5 DEF NodeFits, o
  <2>3. CASE o.type # "leaf"
    <3>1. lev[p] > 0 /\ Fits(o.keys, o.kids, p, dom, lev)
      BY <2>1, <2>3 DEF NodeFits
    <3>2. Len(o.kids) = Len(o.keys) + 1 /\ o.kids \in [1 .. Len(o.keys) + 1 -> 1 .. n]
      BY <2>1, <2>3 DEF NodeTyped
    <3>3. \A i \in 1 .. Len(o.kids) : o.kids[i] \in 1 .. n
      BY <3>2
    <3>4. Fits(o.keys, o.kids, p, dom2, lev2)
      BY <1>8, <3>1, <3>3 DEF Fits
    <3>5. lev2[p] > 0
      BY <1>8, <3>1
    <3> QED  BY <2>3, <3>4, <3>5 DEF NodeFits, o
  <2> QED  BY <2>2, <2>3 DEF o
<1>12. \A p \in Page' : NodeFits(NodeAt(p)', p, dom2, lev2)
  <2>1. ASSUME NEW p \in Page' PROVE NodeFits(NodeAt(p)', p, dom2, lev2)
    <3>1. NodeAt(p)' = pages'[p]
      BY <1>2 DEF NodeAt
    <3>2. p \in 1 .. n \/ p = n + 1
      BY <1>3
    <3>3. p \in 1 .. n => pages'[p] = pages[p]
      BY <1>1, <1>3
    <3> HIDE DEF n
    <3> QED  BY <1>10, <1>11, <3>1, <3>2, <3>3
  <2> QED  BY <2>1
<1>13. Ranked(n + 1, dom2, lev2)
  BY <1>8 DEF Ranked
<1>14. Apart(n + 1, dom2, lev2)
  <2> HIDE DEF n, r
  <2>1. \A p \in 1 .. n + 1 : p \in 1 .. n \/ p = n + 1
    BY <1>3
  <2>2. \A p \in 1 .. n : lev2[p] # lev2[n + 1]
    <3>1. \A p \in 1 .. n : lev[p] \in Nat /\ lev[p] <= lev[r]
      BY <1>6, <1>7
    <3> QED  BY <1>8, <1>9, <3>1
  <2>3. 0 \in Int
    OBVIOUS
  <2>4. \A p \in 1 .. n + 1 : dom2[p] # {}
    BY <1>5, <1>8, <2>1, <2>3 DEF Apart
  <2>5. \A p, q \in 1 .. n : p # q /\ lev2[p] = lev2[q] => dom2[p] \cap dom2[q] = {}
    BY <1>5, <1>8 DEF Apart
  <2>6. \A p, q \in 1 .. n + 1 : p # q /\ lev2[p] = lev2[q] => p \in 1 .. n /\ q \in 1 .. n
    BY <2>1, <2>2
  <2> QED  BY <2>4, <2>5, <2>6 DEF Apart
<1>15. RootFits(dom2, lev2)'
  <2>1. \A p \in 1 .. n + 1 : lev2[p] <= lev2[n + 1]
    <3>1. \A p \in 1 .. n + 1 : p \in 1 .. n \/ p = n + 1
      BY <1>3
    <3>2. \A p \in 1 .. n : lev[p] \in Nat /\ lev[p] <= lev[r]
      BY <1>6, <1>7
    <3> HIDE DEF n, r
    <3> QED  BY <1>8, <1>9, <3>1, <3>2
  <2>2. lev2[n + 1] < n + 1
    BY <1>3, <1>6, <1>8, <1>9
  <2> QED  BY <1>1, <1>2, <1>3, <1>8, <2>1, <2>2 DEF RootFits
<1>16. PathFits(lev2)' /\ CurFits(dom2)'
  BY <1>2 DEF PathFits, CurFits
<1>17. Ranked(Len(pages), dom2, lev2)' /\ Apart(Len(pages), dom2, lev2)'
  BY <1>1, <1>13, <1>14
<1>18. Ordered(dom2, lev2)'
  BY <1>12, <1>15, <1>16, <1>17 DEF Ordered
<1> QED  BY <1>4, <1>18

\* The key that moves up was a separator of the split node, or the promoted one.
LEMMA SplitInternalSeparators ==
  ASSUME ShapeInv, Separators, SplitInternal
  PROVE  Separators'
<1> DEFINE n == Len(pages)
<1>1. /\ pc = "promote" /\ path # <<>> /\ ParentFull /\ Len(pages') = n + 1
      /\ \A p \in Page : p # Parent => pages'[p] = pages[p]
      /\ pages'[Parent] = LeftHalf /\ pages'[n + 1] = RightHalf
      /\ promote_key' = Combined.keys[Middle]
      /\ UNCHANGED <<pc, cell, acked>>
  BY SplitInternalEffect
<1>2. PagesOK /\ n \in Nat /\ Page' = 1 .. n + 1 /\ Page = 1 .. n
  BY <1>1, LenPages DEF ShapeInv, Page
<1>3. PICK keys, kids, q :
        /\ keys \in Seq(Keys) /\ kids \in Seq(Page)
        /\ Combined = Internal(keys, kids)
        /\ Len(keys) = MaxKeys + 1 /\ Len(kids) = MaxKeys + 2
        /\ ChildAdded(keys, kids, pages[Parent], promote_key, promote_child, q)
  BY <1>1, FullParent
<1>4. Len(pages[Parent].keys) \in Nat
  BY <1>1, <1>2, ParentFacts, InternalFields
<1>5. \A i \in 1 .. Len(keys) : RowKey(keys[i])
  BY <1>1, <1>3, <1>4, CombinedSeparators
<1>6. /\ Len(LeftHalf.keys) = Middle - 1 /\ \A i \in 1 .. Middle - 1 : LeftHalf.keys[i] = keys[i]
      /\ Len(RightHalf.keys) = MaxKeys + 1 - Middle
      /\ \A i \in 1 .. MaxKeys + 1 - Middle : RightHalf.keys[i] = keys[Middle + i]
      /\ Combined.keys[Middle] = keys[Middle]
  BY <1>2, <1>3, HalvesType
<1>7. Middle \in 2 .. MaxKeys /\ MaxKeys \in Nat
  BY MiddleRange, BTreeAssumption
<1>8. \A i \in 1 .. Middle - 1 : RowKey(LeftHalf.keys[i])
  <2>1. \A i \in 1 .. Middle - 1 : i \in 1 .. Len(keys)
    BY <1>3, <1>7
  <2> QED  BY <1>5, <1>6, <2>1
<1>9. \A i \in 1 .. MaxKeys + 1 - Middle : RowKey(RightHalf.keys[i])
  <2>1. \A i \in 1 .. MaxKeys + 1 - Middle : Middle + i \in 1 .. Len(keys)
    BY <1>3, <1>7
  <2> QED  BY <1>5, <1>6, <2>1
<1>10. RowKey(Combined.keys[Middle])
  <2>1. Middle \in 1 .. Len(keys)
    BY <1>3, <1>7
  <2> QED  BY <1>5, <1>6, <2>1
<1>11. ASSUME NEW x, RowKey(x) PROVE RowKey(x)'
  BY <1>1, <1>11 DEF RowKey
<1>12. RowKey(promote_key)'
  BY <1>1, <1>10, <1>11 DEF RowKey
<1> HIDE DEF n
<1>13. ASSUME NEW p \in 1 .. n + 1, ~IsLeaf(p)', NEW i \in 1 .. Len(pages'[p].keys) PROVE RowKey(pages'[p].keys[i])
  <2>1. CASE p = n + 1
    BY <1>1, <1>6, <1>9, <1>13, <2>1
  <2>2. CASE p = Parent
    BY <1>1, <1>6, <1>8, <1>13, <2>2
  <2>3. CASE p \in 1 .. n /\ p # Parent
    <3>1. p \in Page /\ pages'[p] = pages[p] /\ ~IsLeaf(p)
      BY <1>1, <1>2, <1>13, <2>3 DEF IsLeaf
    <3> QED  BY <1>13, <3>1 DEF Separators
  <2> QED  BY <1>2, <2>1, <2>2, <2>3
<1> QED  BY <1>2, <1>11, <1>12, <1>13 DEF Separators

\* The split node shares its domain with its new sibling, which its parent takes in.
LEMMA SplitInternalOrder ==
  ASSUME ShapeInv, NEW dom, NEW lev, Ordered(dom, lev), SplitInternal
  PROVE  \E dom2, lev2 : Ordered(dom2, lev2)'
<1> DEFINE n == Len(pages)
           k == promote_key'
           L == Len(path)
<1>1. /\ pc = "promote" /\ path # <<>> /\ ParentFull /\ Len(pages') = n + 1
      /\ \A p \in Page : p # Parent => pages'[p] = pages[p]
      /\ pages'[Parent] = LeftHalf /\ pages'[n + 1] = RightHalf
      /\ k = Combined.keys[Middle] /\ promote_child' = n + 1
      /\ path' = Front(path) /\ pc' = "promote" /\ root_page' = root_page
  BY SplitInternalEffect
<1>2. /\ PagesOK /\ n \in Nat /\ Page' = 1 .. n + 1 /\ Page = 1 .. n
      /\ root_page \in 1 .. n /\ path \in Seq(1 .. n)
      /\ \A i \in 1 .. L : ~IsLeaf(path[i])
  BY <1>1, LenPages DEF ShapeInv, InsertOK, Page
<1>3. L \in Nat /\ L >= 1 /\ Parent = path[L] /\ Parent \in 1 .. n /\ ~IsLeaf(Parent)
  BY <1>1, <1>2, ParentFacts
<1>4. path' \in Seq(1 .. n) /\ Len(path') = L - 1 /\ \A i \in 1 .. L - 1 : path'[i] = path[i]
  BY <1>1, <1>2, FrontPath
<1>5. PICK P \in 1 .. n : P = Parent
  BY <1>3
<1>p. P \in 1 .. n /\ n \in Nat
  BY <1>2, <1>5
<1>6. Ranked(n, dom, lev) /\ Apart(n, dom, lev)
  BY DEF Ordered
<1>7. dom \in [1 .. n -> SUBSET Int] /\ lev \in [1 .. n -> Nat]
  BY <1>6 DEF Ranked
<1>8. PICK keys \in Seq(Keys), kids \in Seq(Page) :
        /\ Combined = Internal(keys, kids)
        /\ Len(keys) = MaxKeys + 1 /\ Len(kids) = MaxKeys + 2
  BY <1>1, FullParent
<1>9. NodeAt(P) = [type |-> "internal", keys |-> keys, kids |-> kids]
  BY <1>1, <1>5, <1>8 DEF NodeAt, Internal
<1>10. NodeFits(NodeAt(P), P, dom, lev)
  BY <1>2 DEF Ordered
<1>11. lev[P] > 0 /\ Fits(keys, kids, P, dom, lev)
  BY <1>9, <1>10 DEF NodeFits
<1> DEFINE l == MaxKeys + 1
           m == Middle
<1>12. m \in 1 .. l /\ m >= 2 /\ m < l /\ l \in Nat
  BY MiddleRange, BTreeAssumption
<1>13. keys \in [1 .. l -> Int] /\ kids \in [1 .. l + 1 -> 1 .. n] /\ Len(keys) = l /\ Len(kids) = l + 1
  <2>1. Len(keys) = l /\ Len(kids) = l + 1
    BY <1>8, BTreeAssumption
  <2>2. keys \in [1 .. l -> Keys]
    BY <2>1
  <2>3. kids \in [1 .. l + 1 -> 1 .. n]
    <3>1. kids \in Seq(1 .. n)
      BY <1>2
    <3>2. kids \in [1 .. Len(kids) -> 1 .. n]
      BY <3>1
    <3> QED  BY <2>1, <3>2
  <2>4. \A i \in 1 .. l : keys[i] \in Int
    BY <2>2, BTreeAssumption
  <2> QED  BY <2>1, <2>2, <2>3, <2>4
<1>14. k = keys[m] /\ k \in Int /\ k \in Keys
  BY <1>1, <1>8, <1>12, <1>13 DEF Internal
<1>15. k \in dom[P] /\ Lower(dom[P], k) # {}
  <2>1. /\ Sorted(keys) /\ \A i \in 1 .. l : keys[i] \in dom[P]
    BY <1>11, <1>13 DEF Fits
  <2>2. keys[1] < keys[m]
    BY <1>12, <1>13, <2>1 DEF Sorted
  <2>3. keys[1] \in dom[P]
    BY <1>12, <2>1
  <2> QED  BY <1>12, <1>14, <2>1, <2>2, <2>3 DEF Lower
<1> HIDE DEF k, n, l, m, L
<1>16. PICK dom2, lev2 : SplitOf(dom2, lev2, dom, lev, n, P, k)
  BY <1>2, <1>6, <1>14, SplitExists
<1>17. Ranked(n + 1, dom2, lev2) /\ Apart(n + 1, dom2, lev2)
  BY <1>2, <1>6, <1>14, <1>15, <1>16, SplitApart
<1>18. /\ dom2[P] = Lower(dom[P], k) /\ dom2[n + 1] = Upper(dom[P], k) /\ lev2[n + 1] = lev[P]
       /\ \A p \in 1 .. n : lev2[p] = lev[p] /\ (p # P => dom2[p] = dom[p])
  BY <1>16 DEF SplitOf
<1> DEFINE a == pages'[P]
           b == pages'[n + 1]
           r == l - m
<1>19. /\ a.type # "leaf" /\ a.keys \in [1 .. m - 1 -> Int] /\ Len(a.keys) = m - 1 /\ Len(a.kids) = m
       /\ \A i \in 1 .. m - 1 : a.keys[i] = keys[i]
       /\ \A i \in 1 .. m : a.kids[i] = kids[i]
       /\ b.type # "leaf" /\ b.keys \in [1 .. r -> Int] /\ Len(b.keys) = r /\ Len(b.kids) = r + 1
       /\ \A i \in 1 .. r : b.keys[i] = keys[m + i]
       /\ \A i \in 1 .. r + 1 : b.kids[i] = kids[m + i]
  <2>1. /\ a.type = "internal" /\ a.keys \in Seq(Keys) /\ Len(a.keys) = m - 1 /\ Len(a.kids) = m
        /\ \A i \in 1 .. m - 1 : a.keys[i] = keys[i]
        /\ \A i \in 1 .. m : a.kids[i] = kids[i]
        /\ b.type = "internal" /\ b.keys \in Seq(Keys)
        /\ Len(b.keys) = MaxKeys + 1 - m /\ Len(b.kids) = MaxKeys + 2 - m
        /\ \A i \in 1 .. MaxKeys + 1 - m : b.keys[i] = keys[m + i]
        /\ \A i \in 1 .. MaxKeys + 2 - m : b.kids[i] = kids[m + i]
    BY <1>1, <1>2, <1>5, <1>8, HalvesType DEF m, n
  <2> HIDE DEF a, b
  <2>2. MaxKeys + 1 - m = r /\ MaxKeys + 2 - m = r + 1 /\ m - 1 \in Nat /\ r \in Nat
    <3>1. MaxKeys \in Nat
      BY BTreeAssumption
    <3>2. m \in Nat /\ m >= 1 /\ l = MaxKeys + 1 /\ m < l
      BY <1>12, <3>1 DEF l
    <3> QED  BY <3>1, <3>2
  <2> HIDE DEF r
  <2>3. a.keys \in [1 .. m - 1 -> Keys] /\ b.keys \in [1 .. r -> Keys]
    BY <2>1, <2>2
  <2>4. a.keys \in [1 .. m - 1 -> Int] /\ b.keys \in [1 .. r -> Int]
    BY <2>3, BTreeAssumption
  <2> QED  BY <2>1, <2>2, <2>4
<1>20. r \in Nat /\ r = l - m
  BY <1>12
<1> HIDE DEF a, b, r
<1>21. NodeFits(a, P, dom2, lev2)
  <2> DEFINE ak == a.keys
             ac == a.kids
  <2>1. /\ ak \in [1 .. m - 1 -> Int] /\ Len(ak) = m - 1 /\ Len(ac) = m
        /\ \A i \in 1 .. m - 1 : ak[i] = keys[i]
        /\ \A i \in 1 .. m : ac[i] = kids[i]
    BY <1>19
  <2> HIDE DEF ak, ac
  <2>2. Fits(ak, ac, P, dom2, lev2)
    <3>1. LowerHalf(n, l, keys, kids, dom, lev, P, m, k, dom2, lev2, ak, ac)
      BY <1>p, <1>6, <1>11, <1>12, <1>13, <1>14, <1>16, <2>1, Zenon DEF LowerHalf
    <3> QED  BY <3>1, FitsLowerHalf
  <2>3. lev2[P] > 0
    BY <1>11, <1>18
  <2> QED  BY <1>19, <2>2, <2>3 DEF NodeFits, ak, ac
<1>22. NodeFits(b, n + 1, dom2, lev2)
  <2> DEFINE bk == b.keys
             bc == b.kids
  <2>1. /\ bk \in [1 .. r -> Int] /\ Len(bk) = r /\ Len(bc) = r + 1
        /\ \A i \in 1 .. r : bk[i] = keys[m + i]
        /\ \A i \in 1 .. r + 1 : bc[i] = kids[m + i]
    BY <1>19
  <2> HIDE DEF bk, bc
  <2>2. Fits(bk, bc, n + 1, dom2, lev2)
    <3>1. UpperHalf(n, l, keys, kids, dom, lev, P, m, k, dom2, lev2, r, bk, bc)
      BY <1>p, <1>6, <1>11, <1>12, <1>13, <1>14, <1>16, <1>20, <2>1, Zenon DEF UpperHalf
    <3> QED  BY <3>1, FitsUpperHalf
  <2>3. lev2[n + 1] > 0
    BY <1>11, <1>18
  <2> QED  BY <1>19, <2>2, <2>3 DEF NodeFits, bk, bc
<1>23. /\ path[1] = root_page
       /\ \A i \in 1 .. L : lev[path[i]] + i = lev[root_page] + 1
       /\ \A i \in 1 .. L - 1 : Kid(pages[path[i]], path[i + 1])
  BY <1>1 DEF Ordered, PathFits, L
<1>24. \A i \in 1 .. L : path[i] \in 1 .. n
  BY <1>2 DEF L
<1>25. ASSUME NEW i \in 1 .. L - 1 PROVE path[i] # P /\ pages'[path[i]] = pages[path[i]] /\ path'[i] = path[i]
  <2>1. i \in 1 .. L /\ L \in 1 .. L /\ i # L
    BY <1>3
  <2>2. lev[path[i]] + i = lev[path[L]] + L
    BY <1>23, <2>1
  <2>3. lev[path[L]] \in Nat
    BY <1>7, <1>24, <2>1
  <2>4. path[i] # path[L]
    BY <2>1, <2>2, <2>3
  <2>5. path[i] # P
    BY <1>3, <1>5, <2>4
  <2> QED  BY <1>1, <1>2, <1>4, <1>5, <1>24, <2>1, <2>5
<1> DEFINE old == [p \in 1 .. n |-> NodeAt(p)]
           new == [p \in 1 .. n + 1 |-> NodeAt(p)']
<1>26. PICK g \in 1 .. n : g = IF L = 1 THEN P ELSE path[L - 1]
  <2>1. L # 1 => L - 1 \in 1 .. L
    BY <1>3
  <2> QED  BY <1>24, <2>1
<1>27. L = 1 <=> path' = <<>>
  <2>1. Len(path') = 0 <=> path' = <<>>
    <3>1. path' \in Seq(1 .. n)
      BY <1>4
    <3> QED  BY <3>1
  <2> QED  BY <1>3, <1>4, <2>1
<1>28. L # 1 => L - 1 \in 1 .. L - 1 /\ g = path[L - 1] /\ g # P /\ Parent' = g
  <2>1. L # 1 => L - 1 \in 1 .. L - 1
    BY <1>3
  <2>2. L # 1 => g = path[L - 1] /\ g # P /\ path'[L - 1] = g
    BY <1>25, <1>26, <2>1
  <2> QED  BY <1>4, <2>1, <2>2 DEF Parent, Last
<1>29. \A p \in 1 .. n + 1 : p # g \/ p = P => new[p] = pages'[p]
  <2>1. ASSUME NEW p \in 1 .. n + 1, p # g \/ p = P PROVE NodeAt(p)' = pages'[p]
    BY <1>27, <1>28, <2>1 DEF NodeAt
  <2> QED  BY <2>1
<1>30. P # n + 1 /\ P \in 1 .. n + 1 /\ n + 1 \in 1 .. n + 1 /\ n + 1 # g /\ \A p \in 1 .. n : p \in 1 .. n + 1
  BY <1>2
<1>31. \A p \in 1 .. n : p # P => old[p] = pages[p]
  BY <1>5 DEF NodeAt
<1>32. \A p \in 1 .. n : NodeTyped(old[p], n) /\ NodeFits(old[p], p, dom, lev)
  <2>1. ASSUME NEW p \in 1 .. n PROVE NodeTyped(old[p], n) /\ NodeFits(old[p], p, dom, lev)
    BY <1>2, NodeAtTyped DEF Ordered, n
  <2> QED  BY <2>1
<1>33. \A p \in 1 .. n : p # P /\ p # g => new[p] = old[p]
  <2> HIDE DEF old, new
  <2> QED  BY <1>1, <1>2, <1>5, <1>29, <1>30, <1>31
<1>34. NodeFits(new[P], P, dom2, lev2) /\ NodeFits(new[n + 1], n + 1, dom2, lev2)
  <2> HIDE DEF old, new
  <2> QED  BY <1>21, <1>22, <1>29, <1>30 DEF a, b
<1>35. \E q : \/ g = P /\ \A p \in 1 .. n : lev[p] <= lev[P]
              \/ /\ g \in 1 .. n
                 /\ old[g].type # "leaf" /\ Kid(old[g], P)
                 /\ new[g].type # "leaf" /\ IntKeys(new[g].keys)
                 /\ ChildAdded(new[g].keys, new[g].kids, old[g], k, n + 1, q)
  <2>1. CASE L = 1
    <3>1. P = root_page /\ g = P
      BY <1>3, <1>5, <1>23, <1>26, <2>1
    <3> QED  BY <1>2, <3>1 DEF Ordered, RootFits
  <2>2. CASE L # 1
    <3>1. g = path[L - 1] /\ L - 1 \in 1 .. L /\ ~IsLeaf(g) /\ g # P /\ Parent' = g /\ pages'[g] = pages[g]
      <4>1. L - 1 \in 1 .. L - 1 /\ L - 1 \in 1 .. L /\ g = path[L - 1] /\ g # P /\ Parent' = g
        BY <1>3, <1>28, <2>2
      <4>2. pages'[g] = pages[g]
        BY <1>25, <4>1
      <4>3. ~IsLeaf(g)
        BY <1>2, <4>1
      <4> QED  BY <4>1, <4>2, <4>3
    <3>2. Kid(pages[g], P)
      <4>1. L - 1 \in 1 .. L - 1 /\ (L - 1) + 1 = L
        BY <1>3, <1>28, <2>2
      <4> QED  BY <1>3, <1>5, <1>23, <3>1, <4>1
    <3>3. NodeAt(g)' = WithChild(pages[g], k, n + 1)
      <4>1. path' # <<>>
        BY <1>27, <2>2
      <4> QED  BY <1>1, <3>1, <4>1 DEF NodeAt, Combined, k
    <3>4. new[g] = WithChild(pages[g], k, n + 1) /\ old[g] = pages[g]
      BY <1>30, <1>31, <3>1, <3>3
    <3> HIDE DEF old, new
    <3>5. \E q : /\ WithChild(pages[g], k, n + 1).type # "leaf"
                 /\ IntKeys(WithChild(pages[g], k, n + 1).keys)
                 /\ ChildAdded(WithChild(pages[g], k, n + 1).keys,
                               WithChild(pages[g], k, n + 1).kids, pages[g], k, n + 1, q)
      BY <1>2, <1>14, <3>1, ParentWithChild DEF n
    <3>6. old[g].type # "leaf"
      BY <3>1, <3>4 DEF IsLeaf
    <3> QED  BY <3>1, <3>2, <3>4, <3>5, <3>6
  <2> QED  BY <2>1, <2>2
<1>36. \A p \in 1 .. n + 1 : NodeFits(new[p], p, dom2, lev2)
  <2> HIDE DEF old, new
  <2>1. PICK q : \/ g = P /\ \A p \in 1 .. n : lev[p] <= lev[P]
                 \/ /\ g \in 1 .. n
                    /\ old[g].type # "leaf" /\ Kid(old[g], P)
                    /\ new[g].type # "leaf" /\ IntKeys(new[g].keys)
                    /\ ChildAdded(new[g].keys, new[g].kids, old[g], k, n + 1, q)
    BY <1>35
  <2>2. SplitNodes(n, P, k, dom, lev, dom2, lev2, old, new, g, q)
    BY <1>p, <1>6, <1>14, <1>15, <1>16, <1>32, <1>33, <1>34, <2>1, Zenon DEF SplitNodes
  <2> QED  BY <2>2, SplitFits
<1>37. \A p \in Page' : NodeFits(NodeAt(p)', p, dom2, lev2)
  BY <1>2, <1>36
<1> HIDE DEF old, new
<1>38. /\ \A p \in 1 .. n : lev[p] <= lev[root_page]
       /\ lev[root_page] < n /\ dom[root_page] = Int
  BY <1>1, <1>2 DEF Ordered, RootFits, n
<1>39. RootFits(dom2, lev2)'
  <2>1. \A p \in 1 .. n + 1 : lev2[p] <= lev2[root_page]
    <3>1. \A p \in 1 .. n + 1 : p \in 1 .. n \/ p = n + 1
      BY <1>2
    <3> QED  BY <1>2, <1>18, <1>38, <3>1
  <2>2. lev2[root_page] < n + 1
    <3>1. root_page \in 1 .. n /\ n \in Nat
      BY <1>2
    <3>2. lev[root_page] \in Nat /\ lev2[root_page] = lev[root_page]
      BY <1>7, <1>18, <3>1
    <3> QED  BY <1>38, <3>1, <3>2
  <2>3. CASE L = 1
    <3>1. P = root_page
      BY <1>3, <1>5, <1>23, <2>3
    <3>2. dom2[root_page] = Lower(Int, k) /\ dom2[n + 1] = Upper(Int, k) /\ lev2[n + 1] = lev2[root_page]
      BY <1>2, <1>18, <1>38, <3>1
    <3> QED  BY <1>1, <1>2, <1>27, <2>1, <2>2, <2>3, <3>2 DEF RootFits, k
  <2>4. CASE L # 1
    <3>1. 1 \in 1 .. L - 1
      BY <1>3, <2>4
    <3>2. root_page # P
      BY <1>23, <1>25, <3>1
    <3>3. dom2[root_page] = Int
      BY <1>2, <1>18, <1>38, <3>2
    <3> QED  BY <1>1, <1>2, <1>27, <2>1, <2>2, <2>4, <3>3 DEF RootFits
  <2> QED  BY <2>3, <2>4
<1>40. PathFits(lev2)'
  <2>1. ASSUME NEW i \in 1 .. L - 1 PROVE lev2[path'[i]] + i = lev2[root_page] + 1
    <3>1. i \in 1 .. L
      BY <1>3
    <3>2. lev2[path[i]] = lev[path[i]] /\ lev2[root_page] = lev[root_page]
      BY <1>2, <1>18, <1>24, <3>1
    <3> QED  BY <1>23, <1>25, <3>1, <3>2
  <2>2. ASSUME NEW i \in 1 .. (L - 1) - 1 PROVE Kid(pages'[path'[i]], path'[i + 1])
    <3>1. i \in 1 .. L - 1 /\ i + 1 \in 1 .. L - 1
      BY <1>3
    <3> QED  BY <1>23, <1>25, <3>1
  <2>3. path' # <<>> => path'[1] = root_page
    <3>1. path' # <<>> => 1 \in 1 .. L - 1
      BY <1>3, <1>27
    <3> QED  BY <1>4, <1>23, <3>1
  <2> QED  BY <1>1, <1>4, <2>1, <2>2, <2>3 DEF PathFits
<1>41. CurFits(dom2)'
  BY <1>1 DEF CurFits
<1>42. Ranked(Len(pages), dom2, lev2)' /\ Apart(Len(pages), dom2, lev2)'
  BY <1>1, <1>17
<1>43. Ordered(dom2, lev2)'
  BY <1>37, <1>39, <1>40, <1>41, <1>42 DEF Ordered
<1> QED  BY <1>43

\* Every step keeps the order, unless the insert fails.
LEMMA OrderStep == ASSUME UniqueKeys PROVE TreeInv /\ OrderInv /\ [Next]_vars => OrderInv'
<1> SUFFICES ASSUME TreeInv, OrderInv, [Next]_vars, failed' = {}, pc' # "broken"
             PROVE  Separators' /\ \E dom2, lev2 : Ordered(dom2, lev2)'
  BY DEF OrderInv
<1>1. ShapeInv /\ CellsInv
  BY DEF TreeInv
<1>2. CASE UNCHANGED vars
  <2>1. /\ UNCHANGED <<pc, pages, root_page, cell, cur, path, promote_key, promote_child, acked, failed>>
    BY <1>2 DEF vars, insertion
  <2>2. Separators /\ \E dom, lev : Ordered(dom, lev)
    BY <2>1 DEF OrderInv
  <2>3. PICK dom, lev : Ordered(dom, lev)
    BY <2>2
  <2>4. \A p : NodeAt(p)' = NodeAt(p)
    BY <2>1 DEF NodeAt, Parent, Combined
  <2>5. Page' = Page
    BY <2>1 DEF Page
  <2>6. RootFits(dom, lev)' /\ PathFits(lev)' /\ CurFits(dom)'
    BY <2>1, <2>3, <2>5 DEF Ordered, RootFits, PathFits, CurFits
  <2>7. Ordered(dom, lev)'
    BY <2>1, <2>3, <2>4, <2>5, <2>6 DEF Ordered
  <2>8. Separators'
    BY <2>1, <2>2, <2>5 DEF Separators, RowKey, IsLeaf
  <2> QED  BY <2>7, <2>8
<1>3. CASE Next
  <2>1. ~Fail
    BY DEF Fail
  <2>2. pc # "broken"
    BY <1>3 DEF Next, Step, Insert, Descend, InsertIntoLeaf, SplitLeaf, SplitLeafOverflow, SplitLeafErr,
                InsertIntoInternal, SplitInternal, SplitInternalErr, NewRoot, NewRootErr, NoRoom, ParentFull
  <2>3. failed = {}
    <3>1. failed \subseteq failed'
      BY <1>3 DEF Next, Step, Insert, Descend, InsertIntoLeaf, SplitLeaf, SplitLeafOverflow, SplitLeafErr,
                  InsertIntoInternal, SplitInternal, SplitInternalErr, NewRoot, NewRootErr, Succeed, Fail
    <3> QED  BY <3>1
  <2>4. Separators /\ \E dom, lev : Ordered(dom, lev)
    BY <2>2, <2>3 DEF OrderInv
  <2>5. PICK dom, lev : Ordered(dom, lev)
    BY <2>4
  <2>6. CASE \E k \in Keys, c \in Costs : Insert(k, c)
    BY <1>1, <2>4, <2>5, <2>6, InsertOrder
  <2>7. CASE Descend
    BY <1>1, <2>3, <2>4, <2>5, <2>7, DescendOrder
  <2>8. CASE InsertIntoLeaf
    BY <1>1, <2>4, <2>5, <2>8, InsertIntoLeafOrder
  <2>9. CASE SplitLeaf
    BY <1>1, <2>3, <2>4, <2>5, <2>9, SplitLeafSeparators, SplitLeafOrder
  <2>10. CASE InsertIntoInternal
    BY <1>1, <2>4, <2>5, <2>10, InsertIntoInternalOrder
  <2>11. CASE SplitInternal
    BY <1>1, <2>4, <2>5, <2>11, SplitInternalSeparators, SplitInternalOrder
  <2>12. CASE NewRoot
    BY <1>1, <2>4, <2>5, <2>12, NewRootOrder
  <2>13. CASE SplitLeafOverflow \/ SplitLeafErr \/ SplitInternalErr \/ NewRootErr
    BY <2>1, <2>13 DEF SplitLeafOverflow, SplitLeafErr, SplitInternalErr, NewRootErr
  <2> QED  BY <1>3, <2>6, <2>7, <2>8, <2>9, <2>10, <2>11, <2>12, <2>13 DEF Next, Step
<1> QED  BY <1>2, <1>3

\* With unique keys, and until an INSERT fails, every page keeps the rows of one range of
\* keys: the ranges of a level are disjoint, the separators of a node cut its range into
\* those of its children, and a descent stays on the way to the range of its key.
THEOREM OrderInvariant == ASSUME UniqueKeys PROVE Spec => [](TreeInv /\ OrderInv)
<1>1. Init => TreeInv /\ OrderInv
  BY InitTree, InitOrder
<1>2. TreeInv /\ OrderInv /\ [Next]_vars => (TreeInv /\ OrderInv)'
  BY TreeStep, OrderStep
<1> QED  BY <1>1, <1>2, PTL DEF Spec

-----------------------------------------------------------------------------
(***************************************************************************)
(* The chain and the scan are in key order.                                *)
(***************************************************************************)
\* The domains along the chain follow one another.
LEMMA ChainSorted ==
  ASSUME ShapeInv, pc = "idle", NEW dom, NEW lev, Ordered(dom, lev), NEW ord, ChainOf(ord)
  PROVE  \A i, j \in 1 .. Len(ord) : i < j => Before(dom[ord[i]], dom[ord[j]])
<1> DEFINE l == Len(ord)
<1>1. l \in Nat /\ \A i \in 1 .. l : ord[i] \in Page /\ IsLeaf(ord[i])
  BY LenPages DEF ChainOf, ShapeInv
<1>2. \A i \in 1 .. l - 1 : pages[ord[i]].next = ord[i + 1]
  BY DEF ChainOf
<1> HIDE DEF l
<1>3. \A i \in 1 .. l : dom[ord[i]] # {} /\ \A x \in dom[ord[i]] : x \in Int
  <2>1. \A p \in Page : dom[p] # {} /\ dom[p] \in SUBSET Int
    BY DEF Ordered, Ranked, Apart, Page
  <2> QED  BY <1>1, <2>1
<1>4. ASSUME NEW i \in 1 .. l - 1 PROVE Before(dom[ord[i]], dom[ord[i + 1]])
  <2>1. i \in 1 .. l /\ i + 1 \in 1 .. l
    BY <1>1
  <2>2. ord[i] \in Page /\ IsLeaf(ord[i]) /\ ord[i + 1] # 0
    BY <1>1, <2>1 DEF Page
  <2>3. NodeFits(pages[ord[i]], ord[i], dom, lev)
    BY <2>2, NodeAtPage DEF Ordered
  <2>4. pages[ord[i]].next # 0 => Before(dom[ord[i]], dom[pages[ord[i]].next])
    BY <2>2, <2>3 DEF NodeFits, IsLeaf
  <2> QED  BY <1>2, <2>2, <2>4
<1>5. ASSUME NEW i \in 1 .. l, NEW j \in 1 .. l, i < j PROVE Before(dom[ord[i]], dom[ord[j]])
  <2> DEFINE T == {h \in Int : h \in i + 1 .. l => Before(dom[ord[i]], dom[ord[h]])}
  <2>1. i + 1 \in T
    <3>1. i \in 1 .. l - 1 /\ i + 1 \in Int
      BY <1>1, <1>5
    <3> QED  BY <1>4, <3>1
  <2>2. ASSUME NEW h \in i + 1 .. l - 1, h \in T PROVE h + 1 \in T
    <3>1. h \in i + 1 .. l /\ h \in 1 .. l - 1 /\ h \in 1 .. l /\ h + 1 \in 1 .. l
      BY <1>1, <1>5
    <3>2. Before(dom[ord[i]], dom[ord[h]]) /\ Before(dom[ord[h]], dom[ord[h + 1]])
      BY <1>4, <2>2, <3>1
    <3>3. PICK y : y \in dom[ord[h]]
      BY <1>3, <3>1
    <3>4. \A x \in dom[ord[i]] : x < y /\ x \in Int
      BY <1>3, <3>2, <3>3 DEF Before
    <3>5. \A z \in dom[ord[h + 1]] : y < z /\ z \in Int
      BY <1>3, <3>1, <3>2, <3>3 DEF Before
    <3>6. y \in Int
      BY <1>3, <3>1, <3>3
    <3>7. Before(dom[ord[i]], dom[ord[h + 1]])
      BY <3>4, <3>5, <3>6 DEF Before
    <3> QED  BY <3>7
  <2> HIDE DEF T
  <2>3. i + 1 .. l \subseteq T
    <3>1. i + 1 \in Int /\ l \in Int
      BY <1>1
    <3> QED  BY <2>1, <2>2, <3>1, Induction
  <2>4. j \in i + 1 .. l
    BY <1>1, <1>5
  <2> QED  BY <2>3, <2>4 DEF T
<1> QED  BY <1>5 DEF l

\* Until an insert fails, a scan returns the rows in key order.
LEMMA ScanSorted == ASSUME UniqueKeys, TreeInv, OrderInv PROVE ScanInKeyOrderUntilFull
<1> SUFFICES ASSUME failed = {}, pc = "idle"
             PROVE  \A i, j \in 1 .. Len(scan_all) : i < j => scan_all[i].key <= scan_all[j].key
  BY DEF ScanInKeyOrderUntilFull, ScanInKeyOrder
<1>1. ShapeInv /\ ChainInv
  BY DEF TreeInv
<1>2. PICK ord : ChainOf(ord)
  BY <1>1 DEF ChainInv
<1>3. PICK seg, off : ScanOf(ord, scan_all, seg, off)
  BY <1>2, ScanProperties
<1>4. PICK dom, lev : Ordered(dom, lev)
  BY DEF OrderInv
<1>5. \A i, j \in 1 .. Len(ord) : i < j => Before(dom[ord[i]], dom[ord[j]])
  BY <1>1, <1>2, <1>4, ChainSorted
<1> DEFINE t == scan_all
<1> HIDE DEF t
<1>6. /\ Len(t) \in Nat
      /\ \A r \in 1 .. Len(t) : /\ seg[r] \in 1 .. Len(ord)
                                /\ off[r] \in 1 .. Len(pages[ord[seg[r]]].cells)
                                /\ t[r] = pages[ord[seg[r]]].cells[off[r]]
      /\ \A r, q \in 1 .. Len(t) : r < q =>
           seg[r] < seg[q] \/ (seg[r] = seg[q] /\ off[r] < off[q])
  <2>1. t \in Seq(Cell)
    BY <1>3 DEF ScanOf, t
  <2> QED  BY <1>3, <2>1 DEF ScanOf, t
<1>7. ASSUME NEW i \in 1 .. Len(ord)
      PROVE  LeafFits(pages[ord[i]].cells, dom[ord[i]]) /\ dom[ord[i]] \in SUBSET Int
  <2>1. ord[i] \in Page /\ IsLeaf(ord[i])
    BY <1>2 DEF ChainOf
  <2>2. NodeFits(pages[ord[i]], ord[i], dom, lev) /\ dom[ord[i]] \in SUBSET Int
    BY <1>4, <2>1, NodeAtPage DEF Ordered, Ranked, Page
  <2> QED  BY <2>1, <2>2 DEF NodeFits, IsLeaf
<1>8. ASSUME NEW r \in 1 .. Len(t), NEW q \in 1 .. Len(t), r < q PROVE t[r].key <= t[q].key
  <2> DEFINE A == ord[seg[r]]
             B == ord[seg[q]]
  <2>1. /\ seg[r] \in 1 .. Len(ord) /\ off[r] \in 1 .. Len(pages[A].cells) /\ t[r] = pages[A].cells[off[r]]
        /\ seg[q] \in 1 .. Len(ord) /\ off[q] \in 1 .. Len(pages[B].cells) /\ t[q] = pages[B].cells[off[q]]
        /\ seg[r] < seg[q] \/ (seg[r] = seg[q] /\ off[r] < off[q])
    BY <1>6, <1>8
  <2>2. /\ LeafFits(pages[A].cells, dom[A]) /\ LeafFits(pages[B].cells, dom[B])
        /\ dom[A] \in SUBSET Int /\ dom[B] \in SUBSET Int
    BY <1>7, <2>1
  <2>3. t[r].key \in dom[A] /\ t[q].key \in dom[B]
    BY <2>1, <2>2 DEF LeafFits
  <2>4. CASE seg[r] < seg[q]
    <3>1. Before(dom[A], dom[B])
      BY <1>5, <2>1, <2>4
    <3> HIDE DEF A, B
    <3>2. t[r].key < t[q].key
      BY <2>3, <3>1 DEF Before
    <3> QED  BY <2>2, <2>3, <3>2
  <2>5. CASE seg[r] = seg[q] /\ off[r] < off[q]
    <3>1. t[r].key < t[q].key
      BY <2>1, <2>2, <2>5 DEF LeafFits
    <3> HIDE DEF A, B
    <3> QED  BY <2>2, <2>3, <3>1
  <2> QED  BY <2>1, <2>4, <2>5
<1> QED  BY <1>8 DEF t

\* With unique keys, and until an INSERT fails, scan_all returns the rows in ascending key
\* order, for trees of any size: leaf and internal splits keep the next_leaf chain sorted.
THEOREM ScanIsInKeyOrder == ASSUME UniqueKeys PROVE Spec => []ScanInKeyOrderUntilFull
BY OrderInvariant, ScanSorted, PTL

-----------------------------------------------------------------------------
(***************************************************************************)
(* The leaves below the root are those of the chain.                       *)
(***************************************************************************)
\* s, of length l, and u, of length m, have the same elements and are sorted by v.
SameElements(S, v, s, l, u, m) ==
  /\ v \in [S -> Int] /\ l \in Nat /\ m \in Nat /\ s \in [1 .. l -> S] /\ u \in [1 .. m -> S]
  /\ \A i, j \in 1 .. l : i < j => v[s[i]] < v[s[j]]
  /\ \A i, j \in 1 .. m : i < j => v[u[i]] < v[u[j]]
  /\ \A i \in 1 .. l : \E j \in 1 .. m : s[i] = u[j]
  /\ \A j \in 1 .. m : \E i \in 1 .. l : u[j] = s[i]

\* Up to the shorter one's length they agree.
LEMMA SameOrder ==
  ASSUME NEW S, NEW v, NEW s, NEW l, NEW u, NEW m, SameElements(S, v, s, l, u, m)
  PROVE  \A i \in 1 .. l : i <= m /\ s[i] = u[i]
<1> DEFINE T == {k \in Int : \A i \in 1 .. l : i <= k => i <= m /\ s[i] = u[i]}
<1>1. l \in Nat /\ m \in Nat
  BY DEF SameElements
<1>2. (\A i \in 1 .. l : v[s[i]] \in Int) /\ (\A i \in 1 .. m : v[u[i]] \in Int)
  BY DEF SameElements
<1>s. /\ \A i, j \in 1 .. l : i < j => v[s[i]] < v[s[j]]
      /\ \A i, j \in 1 .. m : i < j => v[u[i]] < v[u[j]]
  BY DEF SameElements
<1>e. /\ \A i \in 1 .. l : \E j \in 1 .. m : s[i] = u[j]
      /\ \A j \in 1 .. m : \E i \in 1 .. l : u[j] = s[i]
  BY DEF SameElements
<1>3. 0 \in T
  BY <1>1
<1>4. ASSUME NEW k \in 0 .. l - 1, k \in T PROVE k + 1 \in T
  <2> DEFINE i == k + 1
  <2>1. i \in 1 .. l /\ \A j \in 1 .. l : j <= i => j <= k \/ j = i
    BY <1>1
  <2>2. PICK b \in 1 .. m : s[i] = u[b]
    BY <1>e, <2>1
  <2> HIDE DEF i
  <2>3. b >= i
    <3> SUFFICES ASSUME b < i PROVE FALSE
      BY <1>1, <2>1
    <3>1. b \in 1 .. l /\ b <= k
      BY <1>1, <2>1 DEF i
    <3>2. s[b] = u[b]
      BY <1>4, <3>1
    <3>3. v[s[b]] < v[s[i]]
      BY <1>s, <2>1, <3>1
    <3>4. v[s[i]] \in Int
      BY <1>2, <2>1
    <3> QED  BY <2>2, <3>2, <3>3, <3>4
  <2>4. i \in 1 .. m
    BY <1>1, <2>1, <2>3
  <2>5. PICK a \in 1 .. l : u[i] = s[a]
    BY <1>e, <2>4
  <2>6. a >= i
    <3> SUFFICES ASSUME a < i PROVE FALSE
      BY <1>1, <2>1
    <3>1. a \in 1 .. m /\ a <= k
      <4>1. a \in Int /\ a >= 1 /\ i \in Int /\ i <= m /\ i = k + 1
        BY <1>1, <2>1, <2>4 DEF i
      <4> QED  BY <1>1, <4>1
    <3>2. s[a] = u[a]
      BY <1>4, <3>1
    <3>3. v[u[a]] < v[u[i]]
      BY <1>s, <2>4, <3>1
    <3>4. v[u[i]] \in Int
      BY <1>2, <2>4
    <3> QED  BY <2>5, <3>2, <3>3, <3>4
  <2>7. s[i] = u[i]
    <3>1. CASE a = i \/ b = i
      BY <2>2, <2>5, <3>1
    <3>2. CASE a > i /\ b > i
      <4>1. v[s[i]] < v[s[a]] /\ v[u[i]] < v[u[b]]
        BY <1>s, <2>1, <2>4, <3>2
      <4>2. v[s[i]] < v[u[i]] /\ v[u[i]] < v[s[i]]
        BY <2>2, <2>5, <4>1
      <4>3. v[s[i]] \in Int /\ v[u[i]] \in Int
        BY <1>2, <2>1, <2>4
      <4> QED  BY <4>2, <4>3
    <3> QED  BY <1>1, <2>1, <2>3, <2>6, <3>1, <3>2
  <2>8. ASSUME NEW j \in 1 .. l, j <= i PROVE j <= m /\ s[j] = u[j]
    <3>1. CASE j <= k
      BY <1>4, <3>1
    <3>2. CASE j = i
      BY <1>1, <2>4, <2>7, <3>2
    <3> QED  BY <2>1, <2>8, <3>1, <3>2
  <2>9. i \in Int
    BY <1>1, <2>1
  <2> QED  BY <2>8, <2>9 DEF i
<1>5. l \in T
  <2> DEFINE z == 0
  <2>1. z \in Int /\ l \in Int /\ z = 0 /\ l \in z .. l
    BY <1>1
  <2> HIDE DEF T, z
  <2>2. z .. l \subseteq T
    BY <1>3, <1>4, <2>1, Induction
  <2> QED  BY <2>1, <2>2
<1> QED  BY <1>1, <1>5

\* Two sorted sequences with the same elements are equal.
LEMMA SameSequence ==
  ASSUME NEW S, NEW v, NEW s \in Seq(S), NEW u \in Seq(S), SameElements(S, v, s, Len(s), u, Len(u))
  PROVE  s = u
<1>3. Len(s) \in Nat /\ Len(u) \in Nat
  OBVIOUS
<1>a. SameElements(S, v, u, Len(u), s, Len(s))
  BY Zenon DEF SameElements
<1>1. \A i \in 1 .. Len(s) : i <= Len(u) /\ s[i] = u[i]
  BY SameOrder
<1>2. \A i \in 1 .. Len(u) : i <= Len(s) /\ u[i] = s[i]
  BY <1>a, SameOrder
<1>4. Len(s) = Len(u)
  <2>1. Len(s) <= Len(u)
    <3>1. CASE Len(s) = 0
      BY <1>3, <3>1
    <3>2. CASE Len(s) # 0
      <4>1. Len(s) \in 1 .. Len(s)
        BY <1>3, <3>2
      <4> QED  BY <1>1, <4>1
    <3> QED  BY <3>1, <3>2
  <2>2. Len(u) <= Len(s)
    <3>1. CASE Len(u) = 0
      BY <1>3, <3>1
    <3>2. CASE Len(u) # 0
      <4>1. Len(u) \in 1 .. Len(u)
        BY <1>3, <3>2
      <4> QED  BY <1>2, <4>1
    <3> QED  BY <3>1, <3>2
  <2> DEFINE a == Len(s)
             b == Len(u)
  <2>3. a \in Nat /\ b \in Nat /\ a <= b /\ b <= a
    BY <1>3, <2>1, <2>2
  <2> HIDE DEF a, b
  <2>4. a = b
    BY <2>3
  <2> QED  BY <2>4 DEF a, b
<1> QED  BY <1>1, <1>4, SeqEqual

\* The leaves in s are in order and share out the domain D.
Shares(s, D, dom) ==
  /\ s \in Seq(Page)
  /\ \A i \in 1 .. Len(s) : IsLeaf(s[i]) /\ dom[s[i]] \subseteq D
  /\ \A i, j \in 1 .. Len(s) : i < j => Before(dom[s[i]], dom[s[j]])
  /\ \A x \in D : \E i \in 1 .. Len(s) : x \in dom[s[i]]

\* The leaves below the children, one child after the other, are those below the node.
LEMMA SharesNode ==
  ASSUME NEW keys \in Seq(Int), NEW D \in SUBSET Int, Sorted(keys), NEW dom,
         NEW ss \in Seq(Seq(Page)), Len(ss) = Len(keys) + 1,
         \A i \in 1 .. Len(ss) : Shares(ss[i], Slice(keys, D, i), dom),
         NEW t \in Seq(Page), IsFlat(t, ss, Len(ss))
  PROVE  Shares(t, D, dom)
<1> DEFINE l == Len(ss)
<1>1. PICK seg, off : FlatOf(t, ss, l, seg, off)
  BY DEF IsFlat
<1>2. l \in Nat /\ l = Len(keys) + 1 /\ Len(t) \in Nat
  OBVIOUS
<1>3. /\ \A r \in 1 .. Len(t) : /\ seg[r] \in 1 .. l /\ off[r] \in 1 .. Len(ss[seg[r]])
                                /\ t[r] = ss[seg[r]][off[r]]
      /\ \A r, q \in 1 .. Len(t) : r < q =>
           seg[r] < seg[q] \/ (seg[r] = seg[q] /\ off[r] < off[q])
      /\ \A i \in 1 .. l : \A j \in 1 .. Len(ss[i]) :
           \E r \in 1 .. Len(t) : seg[r] = i /\ off[r] = j
  BY <1>1 DEF FlatOf
<1>c. \A i \in 1 .. l : \A j \in 1 .. Len(ss[i]) : \E r \in 1 .. Len(t) : seg[r] = i /\ off[r] = j
  BY <1>3
<1>4. \A i \in 1 .. l : Slice(keys, D, i) \subseteq D
  BY DEF Slice
<1>5. ASSUME NEW r \in 1 .. Len(t)
      PROVE  IsLeaf(t[r]) /\ dom[t[r]] \subseteq Slice(keys, D, seg[r])
  <2>1. Shares(ss[seg[r]], Slice(keys, D, seg[r]), dom)
    BY <1>3
  <2> QED  BY <1>3, <2>1 DEF Shares
<1>6. ASSUME NEW r \in 1 .. Len(t) PROVE IsLeaf(t[r]) /\ dom[t[r]] \subseteq D
  BY <1>3, <1>4, <1>5
<1>7. ASSUME NEW r \in 1 .. Len(t), NEW q \in 1 .. Len(t), r < q PROVE Before(dom[t[r]], dom[t[q]])
  <2>0. seg[r] < seg[q] \/ (seg[r] = seg[q] /\ off[r] < off[q])
    BY <1>3, <1>7
  <2>1. CASE seg[r] < seg[q]
    <3> DEFINE i == seg[r]
               j == seg[q]
    <3>1. IntKeys(keys) /\ i \in 1 .. Len(keys) + 1 /\ j \in 1 .. Len(keys) + 1 /\ i < j
      BY <1>2, <1>3, <2>1 DEF IntKeys
    <3> HIDE DEF i, j
    <3>2. Before(Slice(keys, D, i), Slice(keys, D, j))
      BY <3>1, SlicesApart
    <3>3. dom[t[r]] \subseteq Slice(keys, D, i) /\ dom[t[q]] \subseteq Slice(keys, D, j)
      BY <1>5 DEF i, j
    <3> QED  BY <3>2, <3>3 DEF Before
  <2>2. CASE seg[r] = seg[q] /\ off[r] < off[q]
    <3>1. Shares(ss[seg[r]], Slice(keys, D, seg[r]), dom)
      BY <1>3
    <3>2. /\ off[r] \in 1 .. Len(ss[seg[r]]) /\ t[r] = ss[seg[r]][off[r]]
          /\ off[q] \in 1 .. Len(ss[seg[r]]) /\ t[q] = ss[seg[r]][off[q]]
      BY <1>3, <2>2
    <3> QED  BY <2>2, <3>1, <3>2 DEF Shares
  <2> QED  BY <2>0, <2>1, <2>2
<1>8. ASSUME NEW x \in D PROVE \E r \in 1 .. Len(t) : x \in dom[t[r]]
  <2>1. PICK i \in 1 .. Len(keys) + 1 : x \in Slice(keys, D, i)
    BY SlicesCover
  <2>2. i \in 1 .. l
    BY <1>2
  <2>3. PICK j \in 1 .. Len(ss[i]) : x \in dom[ss[i][j]]
    <3>1. Shares(ss[i], Slice(keys, D, i), dom)
      BY <2>2
    <3> QED  BY <2>1, <3>1 DEF Shares
  <2>c. \A h \in 1 .. Len(ss[i]) : \E r \in 1 .. Len(t) : seg[r] = i /\ off[r] = h
    BY <1>c, <2>2
  <2>4. PICK r \in 1 .. Len(t) : seg[r] = i /\ off[r] = j
    BY <2>c
  <2>5. t[r] = ss[i][j]
    BY <1>3, <2>4
  <2> QED  BY <2>3, <2>5
<1> QED  BY <1>6, <1>7, <1>8 DEF Shares

\* The leaves below each page, from those below its children.
LeavesOf(below) ==
  [p \in Page |-> IF IsLeaf(p) THEN <<p>>
                  ELSE FlattenSeq([i \in 1 .. Len(pages[p].kids) |-> below[pages[p].kids[i]]])]

\* The body of the recursive function of TreeOrder.
LeavesRec(f, n) ==
  [p \in 1 .. Len(pages) |->
     IF n = 0 \/ IsLeaf(p) THEN <<p>>
     ELSE FlattenSeq([i \in 1 .. Len(pages[p].kids) |-> f[n - 1][pages[p].kids[i]]])]

\* The sequences below the children of a node, and their concatenation.
LEMMA LeavesBelowKids ==
  ASSUME PagesOK, NEW below \in [Page -> Seq(Page)], NEW p \in Page, ~IsLeaf(p), NEW ss,
         ss = [i \in 1 .. Len(pages[p].kids) |-> below[pages[p].kids[i]]]
  PROVE  /\ ss \in Seq(Seq(Page)) /\ Len(ss) = Len(pages[p].kids) /\ Len(ss) >= 1
         /\ FlattenSeq(ss) \in Seq(Page) /\ IsFlat(FlattenSeq(ss), ss, Len(ss))
<1> DEFINE kids == pages[p].kids
           n == Len(pages[p].kids)
<1>1. kids \in Seq(Page) /\ n \in Nat /\ n >= 1
  BY InternalFields
<1>2. \A i \in 1 .. n : below[kids[i]] \in Seq(Page)
  BY <1>1
<1>3. ss \in [1 .. n -> Seq(Page)]
  BY <1>2
<1> HIDE DEF n, kids
<1>4. ss \in Seq(Seq(Page)) /\ Len(ss) = n
  BY <1>1, <1>3
<1>5. Len(ss) >= 1
  BY <1>1, <1>4
<1>6. FlattenSeq(ss) \in Seq(Page) /\ IsFlat(FlattenSeq(ss), ss, Len(ss))
  BY <1>4, <1>5, FlattenProperties
<1> QED  BY <1>4, <1>5, <1>6 DEF n

\* The recursion stays within sequences of pages.
LEMMA LeavesTyped ==
  ASSUME PagesOK, NEW below \in [Page -> Seq(Page)]
  PROVE  LeavesOf(below) \in [Page -> Seq(Page)]
<1>1. ASSUME NEW p \in Page PROVE LeavesOf(below)[p] \in Seq(Page)
  <2>1. CASE IsLeaf(p)
    BY <2>1 DEF LeavesOf
  <2>2. CASE ~IsLeaf(p)
    <3> DEFINE ss == [i \in 1 .. Len(pages[p].kids) |-> below[pages[p].kids[i]]]
    <3>1. LeavesOf(below)[p] = FlattenSeq(ss)
      BY <2>2, Zenon DEF LeavesOf
    <3>2. FlattenSeq(ss) \in Seq(Page)
      BY <2>2, LeavesBelowKids
    <3> QED  BY <3>1, <3>2
  <2> QED  BY <2>1, <2>2
<1> DEFINE g == LeavesOf(below)
<1>2. g = [p \in Page |-> g[p]]
  BY DEF LeavesOf
<1>3. \A p \in Page : g[p] \in Seq(Page)
  BY <1>1
<1> HIDE DEF g
<1>4. g \in [Page -> Seq(Page)]
  BY <1>2, <1>3
<1> QED  BY <1>4 DEF g

\* The leaves below each page that is less than n levels above them, for each n.
LeavesBelow(f) ==
  /\ f \in [0 .. Len(pages) -> [Page -> Seq(Page)]]
  /\ f[0] = [p \in Page |-> <<p>>]
  /\ \A n \in 1 .. Len(pages) : f[n] = LeavesOf(f[n - 1])

\* The recursion has a solution.
LEMMA LeavesExist == ASSUME ShapeInv PROVE \E f : LeavesBelow(f)
<1>1. PagesOK /\ Len(pages) \in Nat
  BY LenPages DEF ShapeInv
<1> DEFINE n == Len(pages)
           S == [Page -> Seq(Page)]
           G == [x \in (1 .. n) \X S |-> LeavesOf(x[2])]
           a == [p \in Page |-> <<p>>]
           m == 0
<1>2. G \in [(1 .. n) \X S -> S]
  BY <1>1, LeavesTyped
<1>3. a \in S
  OBVIOUS
<1>4. m \in Int /\ n \in Int /\ m <= n /\ m + 1 = 1
  BY <1>1
<1>5. Recursive(m, n, S, a, G)
  <2> HIDE DEF G, n, m, a, S
  <2>1. G \in [(m + 1 .. n) \X S -> S]
    BY <1>2, <1>4
  <2> QED  BY <1>3, <1>4, <2>1, Recursion
<1>6. PICK f \in [0 .. n -> S] : f[0] = a /\ \A i \in 1 .. n : f[i] = G[<<i, f[i - 1]>>]
  <2> HIDE DEF G, n, a, S
  <2> QED  BY <1>4, <1>5 DEF m, Recursive, Follows
<1>7. ASSUME NEW i \in 1 .. n PROVE f[i] = LeavesOf(f[i - 1])
  <2>1. i - 1 \in 0 .. n
    BY <1>1
  <2>2. f[i - 1] \in S /\ f[i] = G[<<i, f[i - 1]>>]
    <3> HIDE DEF G, S, n, a
    <3> QED  BY <1>6, <2>1
  <2>3. <<i, f[i - 1]>> \in (1 .. n) \X S /\ <<i, f[i - 1]>>[2] = f[i - 1]
    <3> HIDE DEF G, S, n, a
    <3> QED  BY <2>2
  <2> HIDE DEF S, n
  <2>4. G[<<i, f[i - 1]>>] = LeavesOf(<<i, f[i - 1]>>[2])
    BY <2>3, Zenon
  <2> QED  BY <2>2, <2>3, <2>4
<1>8. LeavesBelow(f)
  BY <1>6, <1>7, Zenon DEF LeavesBelow
<1> QED  BY <1>8

\* A solution is a fixed point of the recursive function.
LEMMA LeavesBelowIsRec ==
  ASSUME ShapeInv, NEW f, LeavesBelow(f)
  PROVE  f = [i \in 0 .. Len(pages) |-> LeavesRec(f, i)]
<1>1. Len(pages) \in Nat
  BY LenPages DEF ShapeInv
<1>2. ASSUME NEW i \in 0 .. Len(pages) PROVE f[i] = LeavesRec(f, i)
  <2>1. CASE i = 0
    <3>1. f[0] = [p \in Page |-> <<p>>]
      BY DEF LeavesBelow
    <3> QED  BY <2>1, <3>1, Zenon DEF LeavesRec, Page
  <2>2. CASE i # 0
    <3>1. i \in 1 .. Len(pages)
      BY <1>1, <2>2
    <3>2. f[i] = LeavesOf(f[i - 1])
      BY <3>1 DEF LeavesBelow
    <3> QED  BY <2>2, <3>2, Zenon DEF LeavesRec, LeavesOf, Page
  <2> QED  BY <2>1, <2>2
<1>3. f = [i \in 0 .. Len(pages) |-> f[i]]
  BY DEF LeavesBelow
<1> QED  BY <1>2, <1>3, Zenon

\* TreeOrder is what this recursion arrives at.
LEMMA TreeOrderUnfold ==
  ASSUME ShapeInv
  PROVE  \E g : LeavesBelow(g) /\ TreeOrder = g[Len(pages)][root_page]
<1>1. PagesOK /\ Len(pages) \in Nat
  BY LenPages DEF ShapeInv
<1>2. PICK f : LeavesBelow(f)
  BY LeavesExist
<1>3. f = [i \in 0 .. Len(pages) |-> LeavesRec(f, i)]
  BY <1>2, LeavesBelowIsRec
<1> DEFINE g == CHOOSE h : h = [i \in 0 .. Len(pages) |-> LeavesRec(h, i)]
<1>4. g = [i \in 0 .. Len(pages) |-> LeavesRec(g, i)]
  BY <1>3, Zenon
<1>5. TreeOrder = g[Len(pages)][root_page]
  BY Zenon DEF TreeOrder, LeavesRec
<1> HIDE DEF g
<1>6. \A i \in 0 .. Len(pages) : g[i] = LeavesRec(g, i)
  BY <1>4
<1>7. g[0] = [p \in Page |-> <<p>>]
  <2>1. 0 \in 0 .. Len(pages)
    BY <1>1
  <2>2. g[0] = LeavesRec(g, 0)
    BY <1>6, <2>1
  <2> QED  BY <2>2, Zenon DEF LeavesRec, Page
<1>8. ASSUME NEW i \in 1 .. Len(pages) PROVE g[i] = LeavesOf(g[i - 1])
  <2>1. i \in 0 .. Len(pages) /\ i # 0
    BY <1>1
  <2>2. g[i] = LeavesRec(g, i)
    BY <1>6, <2>1
  <2> QED  BY <2>1, <2>2, Zenon DEF LeavesRec, LeavesOf, Page
<1> DEFINE n == Len(pages)
           T == {i \in Int : g[i] \in [Page -> Seq(Page)]}
<1>9. 0 \in T
  <2>1. [p \in Page |-> <<p>>] \in [Page -> Seq(Page)]
    OBVIOUS
  <2>2. g[0] \in [Page -> Seq(Page)]
    BY <1>7, <2>1, Zenon
  <2> QED  BY <2>2
<1>10. ASSUME NEW i \in 0 .. n - 1, i \in T PROVE i + 1 \in T
  <2>1. i + 1 \in 1 .. n /\ (i + 1) - 1 = i
    BY <1>1
  <2>2. g[i + 1] = LeavesOf(g[i])
    BY <1>8, <2>1
  <2>3. LeavesOf(g[i]) \in [Page -> Seq(Page)]
    BY <1>1, <1>10, LeavesTyped
  <2>4. i + 1 \in Int
    BY <1>1
  <2> QED  BY <2>2, <2>3, <2>4
<1>11. 0 .. n \subseteq T
  <2> DEFINE m == 0
  <2>1. m \in Int /\ n \in Int /\ m = 0
    BY <1>1
  <2> HIDE DEF T, n, m
  <2>2. m .. n \subseteq T
    BY <1>9, <1>10, <2>1, Induction
  <2> QED  BY <2>1, <2>2
<1>12. g \in [0 .. n -> [Page -> Seq(Page)]]
  <2>1. g = [i \in 0 .. n |-> g[i]]
    BY <1>4
  <2>2. \A i \in 0 .. n : g[i] \in [Page -> Seq(Page)]
    BY <1>11
  <2> HIDE DEF n
  <2> QED  BY <2>1, <2>2
<1>13. LeavesBelow(g)
  BY <1>7, <1>8, <1>12, Zenon DEF LeavesBelow
<1> QED  BY <1>5, <1>13

\* The leaves below a page, in order, share out its domain.
LEMMA LeavesShare ==
  ASSUME ShapeInv, pc = "idle", NEW dom, NEW lev, Ordered(dom, lev), NEW g, LeavesBelow(g)
  PROVE  Shares(g[Len(pages)][root_page], dom[root_page], dom)
<1>1. PagesOK /\ Len(pages) \in Nat /\ root_page \in Page
  BY LenPages DEF ShapeInv, InsertOK
<1>2. /\ lev \in [Page -> Nat] /\ dom \in [Page -> SUBSET Int]
      /\ \A p \in Page : NodeFits(pages[p], p, dom, lev)
      /\ lev[root_page] < Len(pages)
  BY NodeAtPage DEF Ordered, Ranked, RootFits, Page
<1> DEFINE n == Len(pages)
           T == {i \in Int : \A p \in Page : lev[p] <= i => Shares(g[i][p], dom[p], dom)}
<1>3. ASSUME NEW p \in Page, IsLeaf(p) PROVE Shares(<<p>>, dom[p], dom)
  <2>1. /\ <<p>> \in Seq(Page) /\ Len(<<p>>) = 1 /\ <<p>>[1] = p
    OBVIOUS
  <2> DEFINE s == <<p>>
  <2> HIDE DEF s
  <2>2. \A i \in 1 .. Len(s) : s[i] = p /\ i = 1
    BY <2>1 DEF s
  <2>3. 1 \in 1 .. Len(s)
    BY <2>1 DEF s
  <2>4. \A i, j \in 1 .. Len(s) : ~(i < j)
    BY <2>2
  <2>5. s \in Seq(Page)
    BY <2>1 DEF s
  <2>6. Shares(s, dom[p], dom)
    BY <1>3, <2>2, <2>3, <2>4, <2>5 DEF Shares
  <2> QED  BY <2>6 DEF s
<1>4. 0 \in T
  <2>1. ASSUME NEW p \in Page, lev[p] <= 0 PROVE Shares(g[0][p], dom[p], dom)
    <3>1. IsLeaf(p)
      <4>1. NodeFits(pages[p], p, dom, lev) /\ lev[p] \in Nat
        BY <1>2
      <4> QED  BY <2>1, <4>1 DEF NodeFits, IsLeaf
    <3>2. g[0][p] = <<p>>
      BY DEF LeavesBelow
    <3> QED  BY <1>3, <3>1, <3>2
  <2> QED  BY <2>1
<1>5. ASSUME NEW i \in 0 .. n - 1, i \in T PROVE i + 1 \in T
  <2>1. i + 1 \in 1 .. n /\ (i + 1) - 1 = i /\ i \in 0 .. n
    BY <1>1
  <2>2. g[i + 1] = LeavesOf(g[i]) /\ g[i] \in [Page -> Seq(Page)]
    <3>1. g[i + 1] = LeavesOf(g[(i + 1) - 1])
      BY <2>1 DEF LeavesBelow
    <3>2. g[i] \in [Page -> Seq(Page)]
      BY <2>1 DEF LeavesBelow
    <3> QED  BY <2>1, <3>1, <3>2
  <2>3. ASSUME NEW p \in Page, lev[p] <= i + 1 PROVE Shares(g[i + 1][p], dom[p], dom)
    <3>1. CASE IsLeaf(p)
      <4>1. g[i + 1][p] = <<p>>
        BY <2>2, <3>1 DEF LeavesOf
      <4> QED  BY <1>3, <3>1, <4>1
    <3>2. CASE ~IsLeaf(p)
      <4> DEFINE ss == [h \in 1 .. Len(pages[p].kids) |-> g[i][pages[p].kids[h]]]
                 keys == pages[p].keys
                 kids == pages[p].kids
                 D == dom[p]
                 t == FlattenSeq(ss)
      <4>1. g[i + 1][p] = t
        BY <2>2, <3>2, Zenon DEF LeavesOf
      <4>2. /\ ss \in Seq(Seq(Page)) /\ Len(ss) = Len(kids)
            /\ t \in Seq(Page) /\ IsFlat(t, ss, Len(ss))
        BY <1>1, <2>2, <3>2, LeavesBelowKids
      <4>3. keys \in Seq(Int) /\ kids \in Seq(Page) /\ Len(kids) = Len(keys) + 1
        BY <1>1, <3>2, InternalFields
      <4>4. Fits(keys, kids, p, dom, lev)
        BY <1>2, <3>2 DEF NodeFits, IsLeaf
      <4>5. D \in SUBSET Int
        BY <1>2
      <4>6. \A h \in 1 .. Len(kids) : ss[h] = g[i][kids[h]]
        OBVIOUS
      <4> HIDE DEF ss, keys, kids, t
      <4>7. ASSUME NEW h \in 1 .. Len(ss) PROVE Shares(ss[h], Slice(keys, D, h), dom)
        <5>1. h \in 1 .. Len(kids) /\ kids[h] \in Page
          BY <4>2, <4>3
        <5>2. lev[kids[h]] + 1 = lev[p] /\ dom[kids[h]] = Slice(keys, D, h)
          BY <4>4, <5>1 DEF Fits
        <5>3. lev[kids[h]] \in Nat /\ lev[p] \in Nat
          BY <1>2, <5>1
        <5>4. lev[kids[h]] <= i
          BY <2>3, <5>2, <5>3
        <5>5. Shares(g[i][kids[h]], dom[kids[h]], dom)
          BY <1>5, <5>1, <5>4
        <5> QED  BY <4>6, <5>1, <5>2, <5>5
      <4>8. Sorted(keys)
        BY <4>4 DEF Fits
      <4>9. Len(ss) = Len(keys) + 1
        BY <4>2, <4>3
      <4> HIDE DEF D
      <4>10. Shares(t, D, dom)
        BY <4>2, <4>3, <4>5, <4>7, <4>8, <4>9, SharesNode
      <4> QED  BY <4>1, <4>10 DEF D
    <3> QED  BY <3>1, <3>2
  <2>4. i + 1 \in Int
    BY <1>1
  <2> QED  BY <2>3, <2>4
<1>6. n \in T
  <2> DEFINE m == 0
  <2>1. m \in Int /\ n \in Int /\ m = 0 /\ n \in m .. n
    BY <1>1
  <2> HIDE DEF T, n, m
  <2>2. m .. n \subseteq T
    BY <1>4, <1>5, <2>1, Induction
  <2> QED  BY <2>1, <2>2
<1>7. lev[root_page] <= n
  <2>1. lev[root_page] \in Nat
    BY <1>1, <1>2
  <2> QED  BY <1>1, <1>2, <2>1
<1> QED  BY <1>1, <1>6, <1>7

\* Until an insert fails, the leaves below the root are those of the chain, in its order.
LEMMA TreeIsChain == ASSUME UniqueKeys, TreeInv, OrderInv PROVE TreeMatchesChain
<1> SUFFICES ASSUME failed = {}, pc = "idle" PROVE TreeOrder = Chain
  BY DEF TreeMatchesChain
<1>1. ShapeInv /\ ChainInv
  BY DEF TreeInv
<1>2. PICK ord : ChainOf(ord)
  BY <1>1 DEF ChainInv
<1>3. Chain = ord
  BY <1>2, ChainIsOrder
<1>4. PICK dom, lev : Ordered(dom, lev)
  BY DEF OrderInv
<1>5. PICK g : LeavesBelow(g) /\ TreeOrder = g[Len(pages)][root_page]
  BY <1>1, TreeOrderUnfold
<1> DEFINE s == TreeOrder
<1>6. Shares(s, dom[root_page], dom)
  BY <1>1, <1>4, <1>5, LeavesShare
<1>7. dom[root_page] = Int
  BY <1>4 DEF Ordered, RootFits
<1> HIDE DEF s
<1>8. \A p \in Page : dom[p] # {} /\ dom[p] \in SUBSET Int
  BY <1>4 DEF Ordered, Ranked, Apart, Page
<1> DEFINE v == [p \in Page |-> CHOOSE x \in dom[p] : TRUE]
<1>9. \A p \in Page : v[p] \in dom[p]
  BY <1>8
<1>10. v \in [Page -> Int]
  BY <1>8, <1>9
<1> HIDE DEF v
<1>11. s \in Seq(Page) /\ ord \in Seq(Page)
  BY <1>2, <1>6 DEF Shares, ChainOf
<1>12. /\ \A i \in 1 .. Len(s) : s[i] \in Page /\ IsLeaf(s[i])
       /\ \A i \in 1 .. Len(ord) : ord[i] \in Page /\ IsLeaf(ord[i])
  <2>1. (\A i \in 1 .. Len(s) : IsLeaf(s[i])) /\ (\A i \in 1 .. Len(ord) : IsLeaf(ord[i]))
    BY <1>2, <1>6 DEF Shares, ChainOf
  <2> QED  BY <1>11, <2>1
<1>13. ASSUME NEW i \in 1 .. Len(s), NEW j \in 1 .. Len(s), i < j PROVE v[s[i]] < v[s[j]]
  <2>1. Before(dom[s[i]], dom[s[j]])
    BY <1>6, <1>13 DEF Shares
  <2> QED  BY <1>9, <1>12, <2>1 DEF Before
<1>14. ASSUME NEW i \in 1 .. Len(ord), NEW j \in 1 .. Len(ord), i < j PROVE v[ord[i]] < v[ord[j]]
  <2>1. Before(dom[ord[i]], dom[ord[j]])
    BY <1>1, <1>2, <1>4, <1>14, ChainSorted
  <2> QED  BY <1>9, <1>12, <2>1 DEF Before
<1>15. ASSUME NEW i \in 1 .. Len(s) PROVE \E j \in 1 .. Len(ord) : s[i] = ord[j]
  <2>1. s[i] \in Page /\ IsLeaf(s[i])
    BY <1>12
  <2> QED  BY <1>2, <2>1 DEF ChainOf
<1>16. ASSUME NEW j \in 1 .. Len(ord) PROVE \E i \in 1 .. Len(s) : ord[j] = s[i]
  <2>1. ord[j] \in Page /\ IsLeaf(ord[j]) /\ v[ord[j]] \in dom[ord[j]] /\ v[ord[j]] \in Int
    BY <1>9, <1>10, <1>12
  <2>2. PICK i \in 1 .. Len(s) : v[ord[j]] \in dom[s[i]]
    BY <1>6, <1>7, <2>1 DEF Shares
  <2>3. s[i] \in Page /\ IsLeaf(s[i])
    BY <1>12
  <2>4. lev[s[i]] = 0 /\ lev[ord[j]] = 0
    <3>1. NodeFits(pages[s[i]], s[i], dom, lev) /\ NodeFits(pages[ord[j]], ord[j], dom, lev)
      BY <1>4, <2>1, <2>3, NodeAtPage DEF Ordered
    <3> QED  BY <2>1, <2>3, <3>1 DEF NodeFits, IsLeaf
  <2>5. ord[j] # s[i] /\ lev[ord[j]] = lev[s[i]] => dom[ord[j]] \cap dom[s[i]] = {}
    BY <1>4, <2>1, <2>3 DEF Ordered, Apart, Page
  <2>6. ord[j] = s[i]
    BY <2>1, <2>2, <2>4, <2>5
  <2> QED  BY <2>6
<1>17. s = ord
  <2>1. /\ Len(s) \in Nat /\ s \in [1 .. Len(s) -> Page]
        /\ Len(ord) \in Nat /\ ord \in [1 .. Len(ord) -> Page]
    BY <1>11
  <2>2. SameElements(Page, v, s, Len(s), ord, Len(ord))
    BY <1>10, <1>13, <1>14, <1>15, <1>16, <2>1, Zenon DEF SameElements
  <2> QED  BY <1>11, <2>2, SameSequence
<1> QED  BY <1>3, <1>17 DEF s

\* With unique keys, and until an INSERT fails, the leaves below the root, from left to
\* right, are those of the next_leaf chain: no split leaves a leaf that only the scan, or
\* only the descent, can reach.
THEOREM TreeAgreesWithChain == ASSUME UniqueKeys PROVE Spec => []TreeMatchesChain
BY OrderInvariant, TreeIsChain, PTL
=============================================================================
