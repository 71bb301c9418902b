--------------------------- MODULE SequenceLemmas ---------------------------
(***************************************************************************)
(* What the proofs about BTree and Query need to know of intervals,        *)
(* recursive functions and the sequence operators of the models, for any   *)
(* sequences.                                                              *)
(***************************************************************************)
EXTENDS Integers, SequencesExt, FiniteSetsExt, SequenceTheorems, FiniteSetTheorems, TLAPS

(***************************************************************************)
(* Induction and recursion over intervals of integers.                     *)
(***************************************************************************)

\* Every set of naturals that is not empty has a least element.
LEMMA LeastElement ==
  ASSUME NEW T, T \subseteq Nat, T # {}
  PROVE  \E x \in T : \A y \in T : x <= y
<1>1. PICK x \in T : \A y \in T : ~ (<<y, x>> \in OpToRel(<, Nat))
  BY NatLessThanWellFounded, WFMin, Zenon
<1>2. \A y \in T : ~ (y < x)
  BY <1>1 DEF OpToRel
<1> QED  BY <1>2

\* Induction over an interval, said with the set of the numbers for which a fact holds:
\* in this form the provers can instantiate it.
LEMMA Induction ==
  ASSUME NEW m \in Int, NEW n \in Int, NEW T, m \in T,
         \A i \in m .. n - 1 : i \in T => i + 1 \in T
  PROVE  m .. n \subseteq T
<1> DEFINE Bad == {d \in Nat : m + d <= n /\ m + d \notin T}
<1> SUFFICES ASSUME Bad # {} PROVE FALSE
  <2>1. ASSUME NEW i \in m .. n, i \notin T PROVE i - m \in Bad
    <3>1. i - m \in Nat /\ m + (i - m) = i
      OBVIOUS
    <3> QED  BY <2>1, <3>1
  <2> QED  BY <2>1
<1>1. PICK x \in Bad : \A y \in Bad : x <= y
  <2> HIDE DEF Bad
  <2>1. Bad \subseteq Nat  BY DEF Bad
  <2> QED BY <2>1, LeastElement, Zenon
<1>2. x \in Nat /\ m + x <= n /\ m + x \notin T
  BY <1>1
<1>3. x # 0
  BY <1>2
<1>4. x - 1 \notin Bad
  BY <1>1, <1>2, <1>3
<1>5. m + (x - 1) \in T
  BY <1>2, <1>3, <1>4
<1>6. m + (x - 1) \in m .. n - 1 /\ (m + (x - 1)) + 1 = m + x
  BY <1>2, <1>3
<1> QED  BY <1>2, <1>5, <1>6

\* What Min and Max of FiniteSetsExt choose.
LEMMA MinProperties ==
  ASSUME NEW S, S \subseteq Nat, S # {}
  PROVE  Min(S) \in S /\ \A y \in S : Min(S) <= y
BY LeastElement, Zenon DEF Min

\* The greatest element of a finite set that is not empty.
LEMMA MaxProperties ==
  ASSUME NEW n \in Nat, NEW S, S \subseteq 0 .. n, S # {}
  PROVE  Max(S) \in S /\ \A y \in S : Max(S) >= y
<1> DEFINE T == {n - x : x \in S}
<1>1. T \subseteq Nat /\ T # {}
  <2>1. \A x \in S : n - x \in Nat
    OBVIOUS
  <2> QED  BY <2>1
<1>2. PICK t \in T : \A y \in T : t <= y
  <2> HIDE DEF T
  <2> QED BY <1>1, LeastElement, Zenon
<1>3. PICK x \in S : t = n - x
  BY <1>2
<1>4. \A y \in S : x >= y
  BY <1>2, <1>3
<1> QED  BY <1>4, Zenon DEF Max

\* f follows the recursion from a with step G over m .. n.
Follows(f, m, n, a, G) == f[m] = a /\ \A i \in m + 1 .. n : f[i] = G[<<i, f[i - 1]>>]

\* Some function does so, with values in S.
Recursive(m, n, S, a, G) == \E f \in [m .. n -> S] : Follows(f, m, n, a, G)

\* Definition by recursion over an interval, with the step as a function.
LEMMA Recursion ==
  ASSUME NEW m \in Int, NEW n \in Int, m <= n, NEW S, NEW a \in S, NEW G \in [(m + 1 .. n) \X S -> S]
  PROVE  Recursive(m, n, S, a, G)
<1> DEFINE T == {k \in m .. n : \E f \in [m .. k -> S] :
                     f[m] = a /\ \A i \in m + 1 .. k : f[i] = G[<<i, f[i - 1]>>]}
<1>1. m \in T
  <2>1. [i \in m .. m |-> a] \in [m .. m -> S] /\ [i \in m .. m |-> a][m] = a
    OBVIOUS
  <2> DEFINE f == [i \in m .. m |-> a]
  <2>2. \A i \in m + 1 .. m : f[i] = G[<<i, f[i - 1]>>]
    OBVIOUS
  <2>3. m \in m .. n
    OBVIOUS
  <2> HIDE DEF f
  <2> QED  BY <2>1, <2>2, <2>3 DEF f
<1>2. ASSUME NEW k \in m .. n - 1, k \in T PROVE k + 1 \in T
  <2>1. PICK f \in [m .. k -> S] : f[m] = a /\ \A i \in m + 1 .. k : f[i] = G[<<i, f[i - 1]>>]
    BY <1>2
  <2> DEFINE h == [i \in m .. k + 1 |-> IF i <= k THEN f[i] ELSE G[<<k + 1, f[k]>>]]
  <2>2. <<k + 1, f[k]>> \in (m + 1 .. n) \X S
    OBVIOUS
  <2>3. h \in [m .. k + 1 -> S]
    BY <2>2
  <2>4. h[m] = a
    BY <2>1
  <2>5. ASSUME NEW i \in m + 1 .. k + 1 PROVE h[i] = G[<<i, h[i - 1]>>]
    <3>1. CASE i <= k
      <4>1. h[i] = f[i] /\ h[i - 1] = f[i - 1] /\ i \in m + 1 .. k
        BY <3>1
      <4> QED  BY <4>1, <2>1
    <3>2. CASE i = k + 1
      <4>1. h[i - 1] = f[k] /\ h[i] = G[<<k + 1, f[k]>>]
        BY <3>2
      <4> QED  BY <4>1, <3>2
    <3> QED  BY <3>1, <3>2
  <2>6. k + 1 \in m .. n
    OBVIOUS
  <2> HIDE DEF h
  <2> QED  BY <2>3, <2>4, <2>5, <2>6
<1>3. n \in T
  <2> HIDE DEF T
  <2>1. m .. n \subseteq T  BY <1>1, <1>2, Induction
  <2> QED BY <2>1
<1> QED  BY <1>3 DEF Recursive, Follows

\* t is s with e put in at position i.
InsertedAt(t, s, i, e) ==
  /\ Len(t) = Len(s) + 1
  /\ \A j \in 1 .. i - 1 : t[j] = s[j]
  /\ t[i] = e
  /\ \A j \in i + 1 .. Len(s) + 1 : t[j] = s[j - 1]

\* InsertAt of SequencesExt opens a gap at i.
LEMMA InsertAtProperties ==
  ASSUME NEW S, NEW s \in Seq(S), NEW e \in S, NEW i \in 1 .. Len(s) + 1
  PROVE  InsertAt(s, i, e) \in Seq(S) /\ InsertedAt(InsertAt(s, i, e), s, i, e)
<1> DEFINE a == SubSeq(s, 1, i - 1)
           b == SubSeq(s, i, Len(s))
<1>1. a \in Seq(S) /\ Len(a) = i - 1 /\ \A j \in 1 .. i - 1 : a[j] = s[j]
  <2>1. \A j \in 1 .. i - 1 : s[j] \in S  OBVIOUS
  <2> QED  BY <2>1, SubSeqProperties
<1>2. b \in Seq(S) /\ Len(b) = Len(s) + 1 - i /\ \A j \in 1 .. Len(s) + 1 - i : b[j] = s[i + j - 1]
  <2>1. \A j \in i .. Len(s) : s[j] \in S  OBVIOUS
  <2> QED  BY <2>1, SubSeqProperties
<1>3. <<e>> \in Seq(S) /\ Len(<<e>>) = 1 /\ <<e>>[1] = e
  OBVIOUS
<1> HIDE DEF a, b
<1>4. /\ a \o <<e>> \in Seq(S)
      /\ Len(a \o <<e>>) = i
      /\ \A j \in 1 .. i : (a \o <<e>>)[j] = IF j <= i - 1 THEN a[j] ELSE <<e>>[j - (i - 1)]
  BY <1>1, <1>3, ConcatProperties
<1> DEFINE c == a \o <<e>>
<1>5. c \in Seq(S) /\ Len(c) = i /\ c[i] = e /\ \A j \in 1 .. i - 1 : c[j] = s[j]
  BY <1>1, <1>3, <1>4, SMTT(30)
<1> HIDE DEF c
<1>6. /\ c \o b \in Seq(S)
      /\ Len(c \o b) = Len(s) + 1
      /\ \A j \in 1 .. Len(s) + 1 : (c \o b)[j] = IF j <= i THEN c[j] ELSE b[j - i]
  <2>1. c \in Seq(S) /\ b \in Seq(S) /\ Len(c) = i /\ Len(c) + Len(b) = Len(s) + 1
    BY <1>2, <1>5
  <2>2. /\ c \o b \in Seq(S) /\ Len(c \o b) = Len(c) + Len(b)
        /\ \A j \in 1 .. Len(c) + Len(b) :
             (c \o b)[j] = IF j <= Len(c) THEN c[j] ELSE b[j - Len(c)]
    BY <2>1, ConcatProperties
  <2> QED  BY <2>1, <2>2
<1>7. InsertAt(s, i, e) = c \o b
  BY DEF InsertAt, a, b, c
<1> DEFINE r == InsertAt(s, i, e)
<1>8. r \in Seq(S) /\ Len(r) = Len(s) + 1
  BY <1>6, <1>7
<1>9. \A j \in 1 .. i - 1 : r[j] = s[j]
  BY <1>5, <1>6, <1>7
<1>10. r[i] = e
  BY <1>5, <1>6, <1>7
<1>11. ASSUME NEW j \in i + 1 .. Len(s) + 1 PROVE r[j] = s[j - 1]
  <2>1. r[j] = b[j - i]
    BY <1>6, <1>7
  <2>2. j - i \in 1 .. Len(s) + 1 - i /\ i + (j - i) - 1 = j - 1
    OBVIOUS
  <2> QED BY <2>1, <2>2, <1>2
<1> QED  BY <1>8, <1>9, <1>10, <1>11 DEF InsertedAt

\* One element is replaced and one appended, the others stay.
LEMMA ReplaceAppend ==
  ASSUME NEW S, NEW s \in Seq(S), NEW i \in 1 .. Len(s), NEW e \in S, NEW f \in S
  PROVE  /\ Append([s EXCEPT ![i] = e], f) \in Seq(S)
         /\ Len(Append([s EXCEPT ![i] = e], f)) = Len(s) + 1
         /\ Append([s EXCEPT ![i] = e], f)[i] = e
         /\ Append([s EXCEPT ![i] = e], f)[Len(s) + 1] = f
         /\ \A j \in 1 .. Len(s) : j # i => Append([s EXCEPT ![i] = e], f)[j] = s[j]
<1> DEFINE t == [s EXCEPT ![i] = e]
<1>1. /\ t \in Seq(S) /\ Len(t) = Len(s)
      /\ \A j \in 1 .. Len(s) : t[j] = IF j = i THEN e ELSE s[j]
  BY ExceptSeq
<1> HIDE DEF t
<1>2. /\ Append(t, f) \in Seq(S) /\ Len(Append(t, f)) = Len(s) + 1
      /\ \A j \in 1 .. Len(s) : Append(t, f)[j] = t[j]
      /\ Append(t, f)[Len(s) + 1] = f
  BY <1>1, AppendProperties
<1>3. Append(t, f)[i] = e /\ \A j \in 1 .. Len(s) : j # i => Append(t, f)[j] = s[j]
  BY <1>1, <1>2
<1> QED  BY <1>2, <1>3 DEF t

\* The equation of the recursive function in FlattenSeq.
FlattenRec(ss, f, i) == IF i = 1 THEN ss[i] ELSE f[i - 1] \o ss[i]

\* FlattenSeq is the recursive function of its definition.
LEMMA FlattenUnfold ==
  ASSUME NEW S, NEW ss \in Seq(Seq(S)), Len(ss) >= 1
  PROVE  \E f : /\ f[1] = ss[1] /\ \A i \in 2 .. Len(ss) : f[i] = f[i - 1] \o ss[i]
                /\ FlattenSeq(ss) = f[Len(ss)]
<1> DEFINE n == Len(ss)
           T == Seq(S)
           G == [x \in (2 .. n) \X T |-> x[2] \o ss[x[1]]]
<1>1. n \in Nat /\ n >= 1 /\ 1 + 1 = 2 /\ ss[1] \in T /\ \A i \in 1 .. n : ss[i] \in T
  OBVIOUS
<1>2. G \in [(2 .. n) \X T -> T]
  <2>1. ASSUME NEW x \in (2 .. n) \X T PROVE x[2] \o ss[x[1]] \in T
    <3>1. x[1] \in 1 .. n /\ x[2] \in Seq(S)
      BY <1>1
    <3>2. ss[x[1]] \in Seq(S)
      BY <1>1, <3>1
    <3> QED  BY <3>1, <3>2, ConcatProperties
  <2> QED  BY <2>1
<1>3. PICK f \in [1 .. n -> T] : f[1] = ss[1] /\ \A i \in 2 .. n : f[i] = G[<<i, f[i - 1]>>]
  <2> DEFINE m == 1
             a == ss[1]
  <2>1. m \in Int /\ n \in Int /\ m <= n /\ m + 1 = 2 /\ a \in T
    BY <1>1
  <2> HIDE DEF G, T, n, m, a
  <2>2. G \in [(m + 1 .. n) \X T -> T]
    BY <1>2, <2>1
  <2>3. Recursive(m, n, T, a, G)
    BY <2>1, <2>2, Recursion
  <2> QED  BY <2>1, <2>3 DEF m, a, Recursive, Follows
<1>4. ASSUME NEW i \in 1 .. n PROVE f[i] = FlattenRec(ss, f, i)
  <2>1. CASE i = 1
    BY <1>3, <2>1 DEF FlattenRec
  <2>2. CASE i # 1
    <3>1. i \in 2 .. n /\ i - 1 \in 1 .. n /\ f[i - 1] \in T
      <4> HIDE DEF G, T, n
      <4>1. i \in 2 .. n /\ i - 1 \in 1 .. n
        BY <1>1, <2>2
      <4> QED  BY <4>1
    <3>2. <<i, f[i - 1]>> \in (2 .. n) \X T
      BY <3>1
    <3>3. G[<<i, f[i - 1]>>] = f[i - 1] \o ss[i]
      BY <3>2
    <3>4. f[i] = f[i - 1] \o ss[i]
      <4> HIDE DEF G, T, n
      <4> QED  BY <1>3, <3>1, <3>3
    <3> QED  BY <2>2, <3>4, Zenon DEF FlattenRec
  <2> QED  BY <2>1, <2>2
<1>5. f = [i \in 1 .. n |-> FlattenRec(ss, f, i)]
  BY <1>3, <1>4
<1> DEFINE F == CHOOSE g : g = [i \in 1 .. Len(ss) |-> FlattenRec(ss, g, i)]
<1>6. F = [i \in 1 .. n |-> FlattenRec(ss, F, i)]
  BY <1>5, Zenon
<1>7. FlattenSeq(ss) = F[Len(ss)]
  <2>1. Len(ss) # 0
    BY <1>1
  <2> QED  BY <2>1, Zenon DEF FlattenSeq, FlattenRec
<1> HIDE DEF F
<1>8. \A i \in 1 .. n : F[i] = FlattenRec(ss, F, i)
  BY <1>6
<1>9. F[1] = ss[1]
  BY <1>1, <1>8 DEF FlattenRec
<1>10. ASSUME NEW i \in 2 .. n PROVE F[i] = F[i - 1] \o ss[i]
  <2>1. i \in 1 .. n /\ i # 1
    BY <1>1
  <2> QED  BY <1>8, <2>1, Zenon DEF FlattenRec
<1> QED  BY <1>7, <1>9, <1>10, Zenon

\* t holds the elements of the first k of the sequences ss, in the order of the
\* sequences and of their elements: seg and off say where each one comes from.
FlatOf(t, ss, k, seg, off) ==
  /\ \A r \in 1 .. Len(t) : /\ seg[r] \in 1 .. k /\ off[r] \in 1 .. Len(ss[seg[r]])
                            /\ t[r] = ss[seg[r]][off[r]]
  /\ \A r, q \in 1 .. Len(t) : r < q =>
       seg[r] < seg[q] \/ (seg[r] = seg[q] /\ off[r] < off[q])
  /\ \A i \in 1 .. k : \A j \in 1 .. Len(ss[i]) :
       \E r \in 1 .. Len(t) : seg[r] = i /\ off[r] = j

IsFlat(t, ss, k) ==
  \E seg \in [1 .. Len(t) -> Nat], off \in [1 .. Len(t) -> Nat] : FlatOf(t, ss, k, seg, off)

\* FlattenSeq by induction on the number of sequences.
LEMMA FlatFirst ==
  ASSUME NEW S, NEW ss \in Seq(Seq(S)), Len(ss) >= 1
  PROVE  IsFlat(ss[1], ss, 1)
<1> DEFINE t == ss[1]
           n == Len(ss[1])
           seg == [r \in 1 .. n |-> 1]
           off == [r \in 1 .. n |-> r]
<1>1. n \in Nat /\ ss[1] \in Seq(S)
  OBVIOUS
<1>2. seg \in [1 .. n -> Nat] /\ off \in [1 .. n -> Nat]
  BY <1>1
<1>3. FlatOf(t, ss, 1, seg, off)
  BY <1>1 DEF FlatOf
<1> QED  BY <1>2, <1>3 DEF IsFlat

\* One more sequence, after the others.
LEMMA FlatMore ==
  ASSUME NEW S, NEW ss \in Seq(Seq(S)), NEW k \in 1 .. Len(ss) - 1,
         NEW t \in Seq(S), IsFlat(t, ss, k)
  PROVE  IsFlat(t \o ss[k + 1], ss, k + 1)
<1>1. PICK seg \in [1 .. Len(t) -> Nat], off \in [1 .. Len(t) -> Nat] : FlatOf(t, ss, k, seg, off)
  BY DEF IsFlat
<1> DEFINE m == Len(t)
           e == ss[k + 1]
           n == Len(e)
           u == t \o e
           seg2 == [r \in 1 .. m + n |-> IF r <= m THEN seg[r] ELSE k + 1]
           off2 == [r \in 1 .. m + n |-> IF r <= m THEN off[r] ELSE r - m]
<1>2. m \in Nat /\ e \in Seq(S) /\ n \in Nat /\ k \in Nat
  OBVIOUS
<1>3. /\ u \in Seq(S) /\ Len(u) = m + n
      /\ \A r \in 1 .. m + n : u[r] = IF r <= m THEN t[r] ELSE e[r - m]
  <2> HIDE DEF e
  <2> QED  BY <1>2, ConcatProperties DEF m, n, u
<1>4. seg2 \in [1 .. m + n -> Nat] /\ off2 \in [1 .. m + n -> Nat]
  BY <1>2
<1>5. /\ \A r \in 1 .. m : seg2[r] = seg[r] /\ off2[r] = off[r] /\ u[r] = t[r]
      /\ \A r \in m + 1 .. m + n : seg2[r] = k + 1 /\ off2[r] = r - m /\ u[r] = e[r - m]
  BY <1>2, <1>3
<1> HIDE DEF m, n, u, seg2, off2
<1>6. ASSUME NEW r \in 1 .. m + n
      PROVE  seg2[r] \in 1 .. k + 1 /\ off2[r] \in 1 .. Len(ss[seg2[r]]) /\ u[r] = ss[seg2[r]][off2[r]]
  <2>1. CASE r <= m
    <3>1. r \in 1 .. m
      BY <2>1, <1>2
    <3>2. seg[r] \in 1 .. k /\ off[r] \in 1 .. Len(ss[seg[r]]) /\ t[r] = ss[seg[r]][off[r]]
      BY <1>1, <3>1 DEF FlatOf, m
    <3> QED  BY <1>2, <1>5, <3>1, <3>2, SMTT(30)
  <2>2. CASE r > m
    <3>1. r \in m + 1 .. m + n
      BY <2>2, <1>2
    <3>2. r - m \in 1 .. n
      BY <1>2, <3>1
    <3>3. seg2[r] = k + 1 /\ off2[r] = r - m /\ u[r] = e[r - m]
      BY <1>5, <3>1
    <3>4. Len(ss[seg2[r]]) = n /\ ss[seg2[r]][off2[r]] = e[r - m]
      BY <3>3 DEF n
    <3> QED  BY <1>2, <3>2, <3>3, <3>4, SMTT(30)
  <2> QED  BY <1>2, <2>1, <2>2
<1>7. ASSUME NEW r \in 1 .. m + n, NEW q \in 1 .. m + n, r < q
      PROVE  seg2[r] < seg2[q] \/ (seg2[r] = seg2[q] /\ off2[r] < off2[q])
  <2>1. CASE q <= m
    <3>1. r \in 1 .. m /\ q \in 1 .. m
      BY <2>1, <1>2, <1>7
    <3>2. seg[r] < seg[q] \/ (seg[r] = seg[q] /\ off[r] < off[q])
      BY <1>1, <1>7, <3>1 DEF FlatOf, m
    <3> QED  BY <1>5, <3>1, <3>2
  <2>2. CASE r <= m /\ q > m
    <3>1. r \in 1 .. m /\ q \in m + 1 .. m + n
      BY <2>2, <1>2
    <3>2. seg[r] \in 1 .. k
      BY <1>1, <3>1 DEF FlatOf, m
    <3> QED  BY <1>2, <1>5, <3>1, <3>2
  <2>3. CASE r > m
    <3>1. r \in m + 1 .. m + n /\ q \in m + 1 .. m + n
      BY <2>3, <1>2, <1>7
    <3>2. off2[r] = r - m /\ off2[q] = q - m /\ seg2[r] = seg2[q]
      BY <1>5, <3>1
    <3> QED  BY <1>2, <1>7, <3>2
  <2> QED  BY <1>2, <2>1, <2>2, <2>3
<1>8. ASSUME NEW i \in 1 .. k + 1, NEW j \in 1 .. Len(ss[i])
      PROVE  \E r \in 1 .. m + n : seg2[r] = i /\ off2[r] = j
  <2>1. CASE i <= k
    <3>1. i \in 1 .. k
      BY <2>1, <1>2
    <3>2. PICK r \in 1 .. m : seg[r] = i /\ off[r] = j
      BY <1>1, <3>1 DEF FlatOf, m
    <3>3. r \in 1 .. m + n
      BY <1>2
    <3> QED  BY <1>5, <3>2, <3>3
  <2>2. CASE i = k + 1
    <3>1. j \in 1 .. n
      BY <2>2 DEF n
    <3>2. m + j \in m + 1 .. m + n /\ (m + j) - m = j /\ m + j \in 1 .. m + n
      BY <1>2, <3>1
    <3> QED  BY <1>5, <2>2, <3>2
  <2> QED  BY <1>2, <2>1, <2>2
<1>9. FlatOf(u, ss, k + 1, seg2, off2)
  BY <1>3, <1>6, <1>7, <1>8 DEF FlatOf
<1>10. IsFlat(u, ss, k + 1)
  BY <1>3, <1>4, <1>9 DEF IsFlat
<1> QED  BY <1>10 DEF u

\* FlattenSeq puts its sequences one after the other.
LEMMA FlattenProperties ==
  ASSUME NEW S, NEW ss \in Seq(Seq(S)), Len(ss) >= 1
  PROVE  FlattenSeq(ss) \in Seq(S) /\ IsFlat(FlattenSeq(ss), ss, Len(ss))
<1> DEFINE n == Len(ss)
<1>1. n \in Nat /\ n # 0
  OBVIOUS
<1>2. PICK f : /\ f[1] = ss[1] /\ \A i \in 2 .. Len(ss) : f[i] = f[i - 1] \o ss[i]
               /\ FlattenSeq(ss) = f[Len(ss)]
  BY FlattenUnfold
<1>3. f[1] = ss[1] /\ \A i \in 2 .. n : f[i] = f[i - 1] \o ss[i]
  BY <1>2
<1> DEFINE T == {i \in 1 .. n : f[i] \in Seq(S) /\ IsFlat(f[i], ss, i)}
<1>4. 1 \in T
  <2>1. 1 \in 1 .. n /\ ss[1] \in Seq(S)
    BY <1>1
  <2> QED  BY <1>3, <2>1, FlatFirst
<1>5. ASSUME NEW i \in 1 .. n - 1, i \in T PROVE i + 1 \in T
  <2>1. i + 1 \in 2 .. n /\ (i + 1) - 1 = i /\ i + 1 \in 1 .. n
    BY <1>1
  <2>2. f[i + 1] = f[i] \o ss[i + 1]
    BY <1>3, <2>1
  <2>3. f[i] \in Seq(S) /\ IsFlat(f[i], ss, i) /\ ss[i + 1] \in Seq(S)
    BY <1>5, <2>1
  <2>4. IsFlat(f[i + 1], ss, i + 1)
    BY <2>2, <2>3, FlatMore
  <2>5. f[i + 1] \in Seq(S)
    BY <2>2, <2>3, ConcatProperties
  <2> QED  BY <2>1, <2>4, <2>5
<1>6. n \in T
  <2> HIDE DEF T, n
  <2>1. 1 .. n \subseteq T
    BY <1>1, <1>4, <1>5, Induction
  <2> QED  BY <1>1, <2>1
<1> QED  BY <1>2, <1>6

\* A sequence without repetitions has as many elements as places.
LEMMA CountDistinct ==
  ASSUME NEW S, NEW t \in Seq(S), \A i, j \in 1 .. Len(t) : t[i] = t[j] => i = j
  PROVE  Cardinality(ToSet(t)) = Len(t)
<1>1. t \in [1 .. Len(t) -> ToSet(t)] /\ Len(t) \in Nat
  BY DEF ToSet
<1>2. t \in Bijection(1 .. Len(t), ToSet(t))
  BY <1>1 DEF Bijection, Injection, Surjection, IsInjective, ToSet
<1>3. ExistsBijection(1 .. Len(t), ToSet(t))
  BY <1>2 DEF ExistsBijection
<1> QED  BY <1>1, <1>3, FS_CountingElements

\* Concatenation and SubSeq in the form in which they are used.
LEMMA ConcatAt ==
  ASSUME NEW S, NEW s \in Seq(S), NEW t \in Seq(S)
  PROVE  /\ s \o t \in Seq(S) /\ Len(s \o t) = Len(s) + Len(t) /\ Len(s) \in Nat /\ Len(t) \in Nat
         /\ \A j \in 1 .. Len(s) : (s \o t)[j] = s[j]
         /\ \A j \in 1 .. Len(t) : (s \o t)[Len(s) + j] = t[j]
<1>u. PICK u : u = s \o t
  OBVIOUS
<1>1. u \in Seq(S) /\ Len(u) = Len(s) + Len(t)
  BY <1>u, ConcatProperties
<1>2. \A i \in 1 .. Len(s) + Len(t) : u[i] = IF i <= Len(s) THEN s[i] ELSE t[i - Len(s)]
  <2>1. \A i \in 1 .. Len(s) + Len(t) : (s \o t)[i] = IF i <= Len(s) THEN s[i] ELSE t[i - Len(s)]
    BY ConcatProperties, Zenon
  <2> QED  BY <1>u, <2>1, Zenon
<1>3. PICK m \in Nat, n \in Nat : m = Len(s) /\ n = Len(t)
  OBVIOUS
<1>4. \A i \in 1 .. m + n : u[i] = IF i <= m THEN s[i] ELSE t[i - m]
  BY <1>2, <1>3, Zenon
<1>5. ASSUME NEW j \in 1 .. m PROVE u[j] = s[j]
  <2>1. j \in 1 .. m + n /\ j <= m
    BY <1>3
  <2> QED  BY <1>4, <2>1
<1>6. ASSUME NEW j \in 1 .. n PROVE u[m + j] = t[j]
  <2>1. m + j \in 1 .. m + n /\ ~ (m + j <= m) /\ (m + j) - m = j
    BY <1>3
  <2> QED  BY <1>4, <2>1
<1> QED  BY <1>u, <1>1, <1>3, <1>5, <1>6, Zenon

\* SubSeq, in the same form.
LEMMA SubSeqAt ==
  ASSUME NEW S, NEW s \in Seq(S), NEW m \in Nat, NEW n \in Nat,
         m >= 1, n <= Len(s), n >= m - 1
  PROVE  /\ SubSeq(s, m, n) \in Seq(S) /\ Len(SubSeq(s, m, n)) = n - m + 1
         /\ \A j \in 1 .. n - m + 1 : SubSeq(s, m, n)[j] = s[m + j - 1]
<1>1. m \in Int /\ n \in Int /\ \A i \in m .. n : s[i] \in S
  OBVIOUS
<1>2. /\ SubSeq(s, m, n) \in Seq(S)
      /\ Len(SubSeq(s, m, n)) = IF m <= n THEN n - m + 1 ELSE 0
      /\ \A j \in 1 .. n - m + 1 : SubSeq(s, m, n)[j] = s[m + j - 1]
  BY <1>1, SubSeqProperties
<1> QED  BY <1>2

\* Where each of the sequences ss begins in t, the sequences one after the other.
OffsetsIn(t, ss, start) ==
  /\ start[0] = 0 /\ start[Len(ss)] = Len(t)
  /\ \A i \in 1 .. Len(ss) : start[i] = start[i - 1] + Len(ss[i])
  /\ \A i \in 1 .. Len(ss) : start[i] <= Len(t)
  /\ \A i \in 1 .. Len(ss) : \A j \in 1 .. Len(ss[i]) : t[start[i - 1] + j] = ss[i][j]

\* FlattenSeq puts the sequences one after the other, however many there are.
LEMMA FlattenOffsets ==
  ASSUME NEW S, NEW ss \in Seq(Seq(S))
  PROVE  /\ FlattenSeq(ss) \in Seq(S)
         /\ \E start \in [0 .. Len(ss) -> Nat] : OffsetsIn(FlattenSeq(ss), ss, start)
<1> DEFINE n == Len(ss)
<1>0. n \in Nat
  OBVIOUS
<1>int. 1 \in Int /\ n \in Int
  OBVIOUS
<1>len. n = Len(ss)
  OBVIOUS
<1>1. \A i \in 1 .. n : ss[i] \in Seq(S) /\ Len(ss[i]) \in Nat
  OBVIOUS
<1> HIDE DEF n
<1>2. CASE n = 0
  <2>1. FlattenSeq(ss) = ss /\ ss = <<>>
    <3>1. Len(ss) = 0
      BY <1>len, <1>2
    <3> QED  BY <3>1 DEF FlattenSeq
  <2> DEFINE start == [i \in 0 .. 0 |-> 0]
  <2>2. start \in [0 .. Len(ss) -> Nat] /\ OffsetsIn(ss, ss, start)
    BY <1>len, <1>2 DEF OffsetsIn
  <2> QED  BY <2>1, <2>2
<1>3. CASE n >= 1
  <2>1. PICK f : /\ f[1] = ss[1] /\ \A i \in 2 .. n : f[i] = f[i - 1] \o ss[i]
                 /\ FlattenSeq(ss) = f[n]
    BY <1>len, <1>3, FlattenUnfold
  <2>2. \A i \in 1 .. n : f[i] \in Seq(S)
    <3> DEFINE T == {i \in 1 .. n : f[i] \in Seq(S)}
    <3>1. 1 \in T
      BY <1>0, <1>1, <1>3, <2>1
    <3>2. ASSUME NEW i \in 1 .. n - 1, i \in T PROVE i + 1 \in T
      <4>1. i + 1 \in 2 .. n /\ i + 1 \in 1 .. n /\ (i + 1) - 1 = i
        BY <1>0, <3>2
      <4>2. f[i + 1] = f[i] \o ss[i + 1] /\ f[i] \in Seq(S) /\ ss[i + 1] \in Seq(S)
        BY <2>1, <1>1, <3>2, <4>1
      <4>3. f[i + 1] \in Seq(S)
        BY <4>2, ConcatProperties, Zenon
      <4> QED  BY <4>1, <4>3
    <3> HIDE DEF T
    <3>3. 1 .. n \subseteq T
      BY <1>int, <3>1, <3>2, Induction, Zenon
    <3> QED  BY <3>3 DEF T
  <2> DEFINE start == [i \in 0 .. n |-> IF i = 0 THEN 0 ELSE Len(f[i])]
  <2>3. start \in [0 .. n -> Nat] /\ start[0] = 0
    BY <1>0, <2>2
  <2>4. \A i \in 1 .. n : Len(f[i]) = start[i]
    BY <1>0
  <2> HIDE DEF start
  <2>5. ASSUME NEW i \in 2 .. n
        PROVE  /\ start[i] = start[i - 1] + Len(ss[i])
               /\ \A j \in 1 .. start[i] :
                    f[i][j] = IF j <= start[i - 1] THEN f[i - 1][j] ELSE ss[i][j - start[i - 1]]
    <3>1. i \in 1 .. n /\ i - 1 \in 1 .. n
      BY <1>0
    <3>2. f[i - 1] \in Seq(S) /\ ss[i] \in Seq(S) /\ f[i] = f[i - 1] \o ss[i]
      BY <1>1, <2>1, <2>2, <3>1
    <3>3. Len(f[i]) = start[i] /\ Len(f[i - 1]) = start[i - 1]
      BY <2>4, <3>1
    <3>4. /\ Len(f[i]) = Len(f[i - 1]) + Len(ss[i])
          /\ \A j \in 1 .. Len(f[i - 1]) + Len(ss[i]) :
               f[i][j] = IF j <= Len(f[i - 1]) THEN f[i - 1][j] ELSE ss[i][j - Len(f[i - 1])]
      <4>1. Len(f[i - 1] \o ss[i]) = Len(f[i - 1]) + Len(ss[i])
        BY <3>2, ConcatProperties, Zenon
      <4>2. \A j \in 1 .. Len(f[i - 1]) + Len(ss[i]) :
              (f[i - 1] \o ss[i])[j] = IF j <= Len(f[i - 1]) THEN f[i - 1][j] ELSE ss[i][j - Len(f[i - 1])]
        BY <3>2, ConcatProperties, Zenon
      <4> QED  BY <3>2, <4>1, <4>2, Zenon
    <3> QED  BY <3>3, <3>4, Zenon
  <2>6. \A i \in 1 .. n : start[i] = start[i - 1] + Len(ss[i])
    <3> SUFFICES ASSUME NEW i \in 1 .. n PROVE start[i] = start[i - 1] + Len(ss[i])
      OBVIOUS
    <3>1. CASE i = 1
      <4>1. start[1] = Len(ss[1]) /\ Len(ss[1]) \in Nat
        BY <1>0, <1>1, <1>3, <2>1, <2>4
      <4> QED  BY <3>1, <4>1, <2>3
    <3>2. CASE i # 1
      BY <3>2, <2>5
    <3> QED  BY <3>1, <3>2
  <2> DEFINE P(i) == \A k \in 1 .. i : /\ start[k] <= start[i]
                                       /\ \A j \in 1 .. Len(ss[k]) : f[i][start[k - 1] + j] = ss[k][j]
             T == {i \in 1 .. n : P(i)}
  <2>7. 1 \in T
    <3>1. 1 \in 1 .. n /\ start[1] <= start[1] /\ start[1 - 1] = 0
      BY <1>0, <1>3, <2>3
    <3>2. \A j \in 1 .. Len(ss[1]) : f[1][0 + j] = ss[1][j]
      BY <2>1
    <3>3. P(1)
      BY <3>1, <3>2
    <3> QED  BY <3>1, <3>3
  <2>8. ASSUME NEW i \in 1 .. n - 1, i \in T PROVE i + 1 \in T
    <3>1. i + 1 \in 2 .. n /\ (i + 1) - 1 = i /\ P(i) /\ i \in Nat /\ i + 1 \in 1 .. n /\ i \in 1 .. n
      BY <1>0, <2>8
    <3>2. start[i + 1] = start[i] + Len(ss[i + 1]) /\ Len(ss[i + 1]) \in Nat
      BY <2>6, <3>1, <1>1
    <3>3. \A j \in 1 .. start[i + 1] :
            f[i + 1][j] = IF j <= start[i] THEN f[i][j] ELSE ss[i + 1][j - start[i]]
      BY <2>5, <3>1
    <3>4. ASSUME NEW k \in 1 .. i + 1
          PROVE  /\ start[k] <= start[i + 1]
                 /\ \A j \in 1 .. Len(ss[k]) : f[i + 1][start[k - 1] + j] = ss[k][j]
      <4>1. k \in 1 .. n /\ k - 1 \in 0 .. n /\ start[k] \in Nat /\ start[k - 1] \in Nat
             /\ start[i] \in Nat /\ start[i + 1] \in Nat /\ Len(ss[k]) \in Nat
             /\ start[k] = start[k - 1] + Len(ss[k])
        <5>1. k \in 1 .. n /\ k - 1 \in 0 .. n /\ i \in 0 .. n /\ i + 1 \in 0 .. n /\ k \in 0 .. n
          BY <1>0, <3>1
        <5> QED  BY <5>1, <2>3, <1>1, <2>6
      <4>2. CASE k = i + 1
        <5>1. ASSUME NEW j \in 1 .. Len(ss[k]) PROVE f[i + 1][start[k - 1] + j] = ss[k][j]
          <6>1. k - 1 = i /\ start[i] + j \in 1 .. start[i + 1] /\ ~ (start[i] + j <= start[i])
                 /\ (start[i] + j) - start[i] = j
            BY <4>1, <4>2, <3>1, SMTT(30)
          <6> QED  BY <6>1, <3>3, <4>2
        <5> QED  BY <5>1, <4>1, <4>2
      <4>3. CASE k # i + 1
        <5>1. k \in 1 .. i
          BY <4>3, <3>1
        <5>2. start[k] <= start[i] /\ \A j \in 1 .. Len(ss[k]) : f[i][start[k - 1] + j] = ss[k][j]
          BY <5>1, <3>1
        <5>3. start[k] <= start[i + 1]
          BY <5>2, <3>2, <4>1, SMTT(30)
        <5>4. ASSUME NEW j \in 1 .. Len(ss[k]) PROVE f[i + 1][start[k - 1] + j] = ss[k][j]
          <6>0. start[k - 1] + j <= start[k] /\ start[k - 1] + j >= 1
            BY <4>1, SMTT(30)
          <6>1. start[k - 1] + j \in 1 .. start[i + 1] /\ start[k - 1] + j <= start[i]
            BY <6>0, <4>1, <5>2, <5>3, SMTT(30)
          <6>2. f[i + 1][start[k - 1] + j] = f[i][start[k - 1] + j]
            BY <6>1, <3>3
          <6> QED  BY <6>2, <5>2
        <5> QED  BY <5>3, <5>4
      <4> QED  BY <4>2, <4>3
    <3>5. P(i + 1)
      BY <3>4
    <3> QED  BY <3>1, <3>5
  <2>9. P(n)
    <3>1. 1 .. n \subseteq T
      <4> HIDE DEF T
      <4> QED  BY <1>int, <2>7, <2>8, Induction, Zenon
    <3> QED  BY <1>0, <1>3, <3>1
  <2>10. FlattenSeq(ss) \in Seq(S) /\ Len(FlattenSeq(ss)) = start[n]
    BY <1>0, <1>3, <2>1, <2>2, <2>4
  <2>11. OffsetsIn(FlattenSeq(ss), ss, start)
    BY <1>0, <1>len, <2>1, <2>3, <2>6, <2>9, <2>10 DEF OffsetsIn
  <2> QED  BY <1>len, <2>3, <2>10, <2>11
<1> QED  BY <1>0, <1>2, <1>3

\* Sequences of one length k, one after the other.
LEMMA FlattenEqual ==
  ASSUME NEW S, NEW ss \in Seq(Seq(S)), NEW k \in Nat, \A i \in 1 .. Len(ss) : Len(ss[i]) = k
  PROVE  /\ FlattenSeq(ss) \in Seq(S) /\ Len(FlattenSeq(ss)) = Len(ss) * k
         /\ \A r \in 1 .. Len(ss) : \A c \in 1 .. k :
              /\ (r - 1) * k + c \in 1 .. Len(ss) * k
              /\ FlattenSeq(ss)[(r - 1) * k + c] = ss[r][c]
<1> DEFINE n == Len(ss)
           flat == FlattenSeq(ss)
<1>0. n \in Nat
  OBVIOUS
<1>1. flat \in Seq(S) /\ \E st \in [0 .. n -> Nat] : OffsetsIn(flat, ss, st)
  BY FlattenOffsets
<1>2. PICK st \in [0 .. n -> Nat] : OffsetsIn(flat, ss, st)
  BY <1>1
<1> HIDE DEF flat
<1>3. /\ st[0] = 0 /\ st[n] = Len(flat)
      /\ \A i \in 1 .. n : st[i] = st[i - 1] + k
      /\ \A i \in 1 .. n : \A j \in 1 .. k : flat[st[i - 1] + j] = ss[i][j]
  BY <1>2 DEF OffsetsIn
<1>4. \A i \in 1 .. n : Len(ss[i]) = k
  OBVIOUS
<1> HIDE DEF n
<1>5. \A i \in 0 .. n : st[i] = i * k
  <2> DEFINE T == {i \in 0 .. n : st[i] = i * k}
  <2>1. 0 \in T
    BY <1>0, <1>3
  <2>2. ASSUME NEW i \in 0 .. n - 1, i \in T PROVE i + 1 \in T
    <3>1. i + 1 \in 1 .. n /\ i + 1 \in 0 .. n /\ (i + 1) - 1 = i /\ st[i] = i * k
      BY <1>0, <2>2
    <3>2. st[i + 1] = st[i] + k
      BY <1>3, <3>1
    <3>3. (i + 1) * k = i * k + k
      BY <1>0
    <3> QED  BY <3>1, <3>2, <3>3
  <2> HIDE DEF T
  <2>3. 0 \in Int /\ n \in Int
    BY <1>0
  <2>4. 0 .. n \subseteq T
    BY <2>1, <2>2, <2>3, Induction, Zenon
  <2> QED  BY <2>4 DEF T
<1>6. Len(flat) = n * k
  <2>1. n \in 0 .. n
    BY <1>0
  <2> QED  BY <1>3, <1>5, <2>1
<1>7. ASSUME NEW r \in 1 .. n, NEW c \in 1 .. k
      PROVE  (r - 1) * k + c \in 1 .. n * k /\ flat[(r - 1) * k + c] = ss[r][c]
  <2>1. r - 1 \in 0 .. n /\ r - 1 \in Nat /\ n - r \in Nat
    BY <1>0
  <2>2. st[r - 1] = (r - 1) * k
    BY <1>5, <2>1
  <2>3. PICK a \in Nat, b \in Nat : a = r - 1 /\ b = n - r
    BY <2>1
  <2>4. a * k \in Nat /\ b * k \in Nat /\ n = a + 1 + b
    BY <2>3, <1>0
  <2>5. n * k = a * k + k + b * k
    BY <2>4
  <2>6. a * k + c \in 1 .. n * k
    <3>1. PICK x \in Nat, y \in Nat : x = a * k /\ y = b * k
      BY <2>4
    <3>2. PICK z : z = n * k
      OBVIOUS
    <3>3. z = x + k + y
      BY <2>5, <3>1, <3>2
    <3>4. x + c \in 1 .. z
      BY <3>3
    <3> QED  BY <3>1, <3>2, <3>4, Zenon
  <2>7. flat[st[r - 1] + c] = ss[r][c]
    BY <1>3
  <2> QED  BY <2>2, <2>3, <2>6, <2>7
<1> QED  BY <1>1, <1>6, <1>7 DEF n, flat

\* What FlattenSeq returns is the sequences one after the other.
LEMMA FlattenAny ==
  ASSUME NEW S, NEW ss \in Seq(Seq(S))
  PROVE  FlattenSeq(ss) \in Seq(S) /\ IsFlat(FlattenSeq(ss), ss, Len(ss))
<1>1. PICK n \in Nat : n = Len(ss)
  OBVIOUS
<1>2. CASE n = 0
  <2>1. FlattenSeq(ss) = ss /\ ss = <<>>
    <3>1. Len(ss) = 0
      BY <1>1, <1>2
    <3> QED  BY <3>1 DEF FlattenSeq
  <2>2. PICK e \in Seq(S) : e = <<>>
    BY EmptySeq, Zenon
  <2>3. Len(e) = 0
    BY <2>2
  <2> DEFINE z == [r \in 1 .. 0 |-> 0]
  <2>4. z \in [1 .. 0 -> Nat]
    OBVIOUS
  <2> HIDE DEF z
  <2>5. FlatOf(e, ss, 0, z, z)
    BY <2>3 DEF FlatOf
  <2>6. IsFlat(e, ss, 0)
    BY <2>3, <2>4, <2>5 DEF IsFlat
  <2> QED  BY <1>1, <1>2, <2>1, <2>2, <2>6
<1>3. CASE n # 0
  <2>1. Len(ss) >= 1
    BY <1>1, <1>3
  <2> QED  BY <2>1, FlattenProperties
<1> QED  BY <1>2, <1>3

(***************************************************************************)
(* Counting.                                                               *)
(***************************************************************************)
\* A set that another one takes in, element by element, has no more elements.
LEMMA CountInjected ==
  ASSUME NEW A, NEW B, IsFiniteSet(B), NEW f \in [A -> B], \A a, b \in A : f[a] = f[b] => a = b
  PROVE  /\ IsFiniteSet(A) /\ Cardinality(A) <= Cardinality(B)
         /\ (\A b \in B : \E a \in A : f[a] = b) => Cardinality(A) = Cardinality(B)
<1>1. f \in Injection(A, B)
  BY DEF Injection, IsInjective
<1>2. ASSUME \A b \in B : \E a \in A : f[a] = b PROVE f \in Surjection(A, B)
  BY <1>2 DEF Surjection
<1> QED  BY <1>1, <1>2, FS_Injection
=============================================================================
