---------------------------- MODULE QueryProofs ----------------------------
(***************************************************************************)
(* Proofs about Query: that a row which was inserted is read back, from    *)
(* the page on which its words are, as the row it was, and that a SELECT,  *)
(* with a JOIN or a WHERE, answers with what its reference definition      *)
(* gives; and that this answer arrives as it was sent.                     *)
(*                                                                         *)
(* The parts, in the order of the module: the codec of a row and the       *)
(* metadata page; the messages; the slotted page; the split of a leaf; the *)
(* leaves of a table and select_all; the invariant of the tables,          *)
(* StorageInv; filters, bags and joins; the invariant of the SELECT under  *)
(* way, SelectInv; the theorems.                                           *)
(***************************************************************************)
EXTENDS Query, SequenceLemmas

\* The string that begins at o in t, its length first.
HasString(t, o, s) ==
  /\ o \in Nat /\ o >= 1 /\ o + Len(s) <= Len(t)
  /\ t[o] = Len(s) /\ \A j \in 1 .. Len(s) : t[o + j] = s[j]

\* StringAt takes it out.
LEMMA StringAtProperties ==
  ASSUME NEW S, NEW t \in Seq(S), NEW o, NEW s \in Seq(S), HasString(t, o, s)
  PROVE  StringAt(t, o) = s
<1>1. o \in Nat /\ o >= 1 /\ o + Len(s) <= Len(t) /\ Len(s) \in Nat /\ Len(t) \in Nat
  BY DEF HasString
<1>2. t[o] = Len(s) /\ \A j \in 1 .. Len(s) : t[o + j] = s[j]
  BY DEF HasString
<1>3. PICK n \in Nat : n = Len(s) /\ o + n <= Len(t)
  BY <1>1
<1> DEFINE u == SubSeq(t, o + 1, o + n)
<1>5. /\ u \in Seq(S) /\ Len(u) = (o + n) - (o + 1) + 1
      /\ \A i \in 1 .. (o + n) - (o + 1) + 1 : u[i] = t[(o + 1) + i - 1]
  <2>1. o + 1 \in Nat /\ o + n \in Nat /\ o + 1 >= 1 /\ o + n <= Len(t) /\ o + n >= (o + 1) - 1
    BY <1>1, <1>3
  <2> QED  BY <2>1, SubSeqAt, Zenon
<1> HIDE DEF u
<1>6. Len(u) = n /\ \A i \in 1 .. n : u[i] = t[o + i]
  <2>1. Len(u) = n
    BY <1>1, <1>3, <1>5
  <2>2. ASSUME NEW i \in 1 .. n PROVE u[i] = t[o + i]
    <3>1. i \in 1 .. (o + n) - (o + 1) + 1 /\ (o + 1) + i - 1 = o + i
      BY <1>1, <1>3
    <3> QED  BY <3>1, <1>5
  <2> QED  BY <2>1, <2>2
<1>7. u = s
  <2>1. Len(u) = Len(s) /\ \A i \in 1 .. Len(u) : u[i] = s[i]
    BY <1>2, <1>3, <1>6
  <2> QED  BY <1>5, <2>1, SeqEqual
<1> QED  BY <1>2, <1>3, <1>7 DEF StringAt, u

-----------------------------------------------------------------------------
(***************************************************************************)
(* row.rs: what is written of a row is read as that row.                   *)
(***************************************************************************)
Types == {"INTEGER", "TEXT"}
Value == [type : Types, v : Seq(Int)]
Cols == Seq([name : Seq(Nat), type : Types])

\* The rows that a table of these columns takes.
Fits(row, cols) ==
  /\ row \in Seq(Value) /\ cols \in Cols /\ TypeChecks(row, cols)
  /\ \A i \in DOMAIN row : row[i].type = "INTEGER" => Len(row[i].v) = 1

\* The words of each value, one value after the other.
Parts(row, cols) ==
  [i \in DOMAIN cols |->
     CASE row[i].type # cols[i].type -> <<0>>
       [] cols[i].type = "INTEGER" -> row[i].v
       [] OTHER -> <<Len(row[i].v)>> \o row[i].v]

PartsAre(row, cols, parts) ==
  /\ parts \in Seq(Seq(Int)) /\ Len(parts) = Len(cols)
  /\ Len(cols) \in Nat /\ Len(row) = Len(cols) /\ DOMAIN cols = 1 .. Len(cols)
  /\ \A i \in 1 .. Len(cols) :
       /\ row[i] \in Value /\ row[i].v \in Seq(Int) /\ row[i].type = cols[i].type
       /\ row[i].type \in Types
       /\ row[i].type = "INTEGER" => /\ parts[i] = row[i].v
                                     /\ Len(row[i].v) = 1
       /\ row[i].type = "TEXT" =>
            /\ parts[i] \in Seq(Int)
            /\ Len(parts[i]) = 1 + Len(row[i].v)
            /\ parts[i][1] = Len(row[i].v)
            /\ \A j \in 1 .. Len(row[i].v) : parts[i][1 + j] = row[i].v[j]

\* The words of a row that fits: one part for each column.
LEMMA PartsProperties ==
  ASSUME NEW row, NEW cols, Fits(row, cols)
  PROVE  PartsAre(row, cols, Parts(row, cols))
<1> DEFINE n == Len(cols)
           parts == Parts(row, cols)
<1>1. /\ row \in Seq(Value) /\ cols \in Cols /\ Len(row) = Len(cols)
      /\ \A i \in DOMAIN row : row[i].type = cols[i].type
      /\ \A i \in DOMAIN row : row[i].type = "INTEGER" => Len(row[i].v) = 1
  BY DEF Fits, TypeChecks
<1>2. n \in Nat /\ Len(row) = n /\ DOMAIN cols = 1 .. n /\ DOMAIN row = 1 .. n
  BY <1>1 DEF Cols
<1>3. \A i \in 1 .. n : row[i] \in Value /\ row[i].v \in Seq(Int) /\ row[i].type = cols[i].type /\ row[i].type \in Types
  <2>1. \A i \in 1 .. n : row[i] \in Value
    BY <1>1, <1>2, ElementOfSeq
  <2> QED  BY <1>1, <1>2, <2>1 DEF Value
<1> HIDE DEF n
<1>4. ASSUME NEW i \in 1 .. n
      PROVE  /\ row[i].type = "INTEGER" => parts[i] = row[i].v
             /\ row[i].type = "TEXT" => parts[i] = <<Len(row[i].v)>> \o row[i].v
  BY <1>2, <1>3 DEF Parts
<1>5. ASSUME NEW i \in 1 .. n, row[i].type = "TEXT"
      PROVE  /\ parts[i] \in Seq(Int)
             /\ Len(parts[i]) = 1 + Len(row[i].v)
             /\ parts[i][1] = Len(row[i].v)
             /\ \A j \in 1 .. Len(row[i].v) : parts[i][1 + j] = row[i].v[j]
  <2> DEFINE a == <<Len(row[i].v)>>
             b == row[i].v
  <2>1. a \in Seq(Int) /\ b \in Seq(Int) /\ Len(a) = 1 /\ a[1] = Len(b) /\ Len(b) \in Nat
    BY <1>3
  <2>2. parts[i] = a \o b
    BY <1>4, <1>5
  <2> HIDE DEF a, b, parts
  <2>s. a \in Seq(Int) /\ b \in Seq(Int)
    BY <2>1
  <2>3. /\ parts[i] \in Seq(Int) /\ Len(parts[i]) = Len(a) + Len(b)
        /\ \A j \in 1 .. Len(a) : parts[i][j] = a[j]
        /\ \A j \in 1 .. Len(b) : parts[i][Len(a) + j] = b[j]
    <3>1. /\ a \o b \in Seq(Int) /\ Len(a \o b) = Len(a) + Len(b)
          /\ \A j \in 1 .. Len(a) : (a \o b)[j] = a[j]
          /\ \A j \in 1 .. Len(b) : (a \o b)[Len(a) + j] = b[j]
      BY <2>s, ConcatAt
    <3> QED  BY <2>2, <3>1, Zenon
  <2>4. parts[i][1] = Len(b)
    <3>1. 1 \in 1 .. Len(a)
      BY <2>1
    <3> QED  BY <2>1, <2>3, <3>1
  <2> QED  BY <2>1, <2>3, <2>4 DEF b
<1>6. \A i \in 1 .. n : parts[i] \in Seq(Int)
  BY <1>3, <1>4, <1>5 DEF Types
<1>7. parts \in Seq(Seq(Int)) /\ Len(parts) = n
  <2>1. parts = [i \in 1 .. n |-> parts[i]]
    BY <1>2 DEF Parts
  <2> HIDE DEF parts
  <2> QED  BY <1>2, <1>6, <2>1
<1> QED  BY <1>1, <1>2, <1>3, <1>4, <1>5, <1>7 DEF n, PartsAre

\* The recursive function of deserialize.
ValueOffset(buf, cols, f, i) ==
  IF i = 1 THEN 1
  ELSE f[i - 1] + 1 + (IF cols[i - 1].type = "TEXT" THEN buf[f[i - 1]] ELSE 0)

\* deserialize, with its recursive function unfolded.
LEMMA DeserializeUnfold ==
  ASSUME NEW buf, NEW cols, NEW g,
         g = [i \in 1 .. Len(cols) |-> ValueOffset(buf, cols, g, i)]
  PROVE  \E off : /\ off = [i \in 1 .. Len(cols) |-> ValueOffset(buf, cols, off, i)]
                  /\ deserialize(buf, cols) =
                       [i \in DOMAIN cols |-> IF cols[i].type = "TEXT" THEN Text(StringAt(buf, off[i]))
                                              ELSE Integer(buf[off[i]])]
<1> DEFINE off == CHOOSE f : f = [i \in 1 .. Len(cols) |-> ValueOffset(buf, cols, f, i)]
<1>1. off = [i \in 1 .. Len(cols) |-> ValueOffset(buf, cols, off, i)]
  BY Zenon
<1>2. deserialize(buf, cols) =
        [i \in DOMAIN cols |-> IF cols[i].type = "TEXT" THEN Text(StringAt(buf, off[i]))
                               ELSE Integer(buf[off[i]])]
  BY Zenon DEF deserialize, ValueOffset
<1> QED  BY <1>1, <1>2, Zenon

\* What is written of a row is read as that row.
LEMMA CodecInverse ==
  ASSUME NEW row, NEW cols, Fits(row, cols)
  PROVE  serialize(row, cols) \in Seq(Int) /\ deserialize(serialize(row, cols), cols) = row
<1> DEFINE n == Len(cols)
           parts == Parts(row, cols)
           buf == serialize(row, cols)
<1>1. /\ parts \in Seq(Seq(Int)) /\ Len(parts) = n
      /\ n \in Nat /\ Len(row) = n /\ DOMAIN cols = 1 .. n
      /\ \A i \in 1 .. n :
           /\ row[i] \in Value /\ row[i].v \in Seq(Int) /\ row[i].type = cols[i].type
           /\ row[i].type \in Types
           /\ row[i].type = "INTEGER" => parts[i] = row[i].v /\ Len(row[i].v) = 1
           /\ row[i].type = "TEXT" =>
                /\ parts[i] \in Seq(Int)
                /\ Len(parts[i]) = 1 + Len(row[i].v)
                /\ parts[i][1] = Len(row[i].v)
                /\ \A j \in 1 .. Len(row[i].v) : parts[i][1 + j] = row[i].v[j]
  <2>1. PartsAre(row, cols, parts)
    BY PartsProperties, Zenon
  <2> QED  BY <2>1, Zenon DEF PartsAre
<1>2. buf = FlattenSeq(parts)
  BY Zenon DEF serialize, Parts
<1> HIDE DEF n, parts, buf
<1>3. buf \in Seq(Int) /\ \E start \in [0 .. n -> Nat] : OffsetsIn(buf, parts, start)
  BY <1>1, <1>2, FlattenOffsets
<1>4. PICK start \in [0 .. n -> Nat] : OffsetsIn(buf, parts, start)
  BY <1>3
<1>5. /\ start[0] = 0
      /\ \A i \in 1 .. n : start[i] = start[i - 1] + Len(parts[i]) /\ start[i] <= Len(buf)
      /\ \A i \in 1 .. n : \A j \in 1 .. Len(parts[i]) : buf[start[i - 1] + j] = parts[i][j]
  BY <1>1, <1>4 DEF OffsetsIn
<1>6. ASSUME NEW i \in 1 .. n
      PROVE  /\ i - 1 \in 0 .. n /\ start[i - 1] \in Nat /\ start[i] \in Nat
             /\ row[i].type = "INTEGER" => /\ buf[start[i - 1] + 1] = row[i].v[1]
                                           /\ start[i] = start[i - 1] + 1
             /\ row[i].type = "TEXT" => /\ HasString(buf, start[i - 1] + 1, row[i].v)
                                        /\ start[i] = start[i - 1] + 1 + Len(row[i].v)
  <2>1. i - 1 \in 0 .. n /\ start[i - 1] \in Nat /\ start[i] \in Nat /\ Len(buf) \in Nat
    BY <1>1, <1>3, <1>4
  <2>2. ASSUME row[i].type = "INTEGER" PROVE buf[start[i - 1] + 1] = row[i].v[1] /\ start[i] = start[i - 1] + 1
    <3>1. parts[i] = row[i].v /\ Len(row[i].v) = 1
      BY <1>1, <2>2
    <3>2. start[i] = start[i - 1] + Len(parts[i]) /\ \A j \in 1 .. Len(parts[i]) : buf[start[i - 1] + j] = parts[i][j]
      BY <1>5
    <3>3. 1 \in 1 .. Len(parts[i])
      BY <3>1
    <3> QED  BY <3>1, <3>2, <3>3, Zenon
  <2>3. ASSUME row[i].type = "TEXT"
        PROVE  HasString(buf, start[i - 1] + 1, row[i].v) /\ start[i] = start[i - 1] + 1 + Len(row[i].v)
    <3>1. /\ Len(parts[i]) = 1 + Len(row[i].v) /\ parts[i][1] = Len(row[i].v)
          /\ \A j \in 1 .. Len(row[i].v) : parts[i][1 + j] = row[i].v[j]
      BY <1>1, <2>3
    <3>a. Len(row[i].v) \in Nat
      <4>1. row[i].v \in Seq(Int)
        BY <1>1
      <4> QED  BY <4>1, LenProperties
    <3>2. PICK m \in Nat : m = Len(row[i].v)
      BY <3>a
    <3>3. start[i] = start[i - 1] + (1 + m) /\ start[i] <= Len(buf)
      BY <1>5, <3>1, <3>2
    <3>4. \A j \in 1 .. 1 + m : buf[start[i - 1] + j] = parts[i][j]
      BY <1>5, <3>1, <3>2
    <3>5. buf[start[i - 1] + 1] = m
      <4>1. 1 \in 1 .. 1 + m
        BY <3>2
      <4> QED  BY <3>1, <3>2, <3>4, <4>1
    <3>6. ASSUME NEW j \in 1 .. m PROVE buf[start[i - 1] + 1 + j] = row[i].v[j]
      <4>1. 1 + j \in 1 .. 1 + m /\ start[i - 1] + (1 + j) = start[i - 1] + 1 + j
        BY <3>2, <2>1
      <4> QED  BY <3>1, <3>2, <3>4, <4>1
    <3>7. start[i - 1] + 1 \in Nat /\ start[i - 1] + 1 >= 1 /\ start[i - 1] + 1 + m <= Len(buf)
      BY <3>2, <3>3, <2>1, SMTT(30)
    <3>8. HasString(buf, start[i - 1] + 1, row[i].v)
      BY <3>2, <3>5, <3>6, <3>7 DEF HasString
    <3>9. start[i] = start[i - 1] + 1 + m
      BY <3>2, <3>3, <2>1, SMTT(30)
    <3> QED  BY <3>2, <3>8, <3>9, Zenon
  <2> QED  BY <2>1, <2>2, <2>3
<1> DEFINE g == [i \in 1 .. n |-> start[i - 1] + 1]
<1>7. \A i \in 1 .. n : ValueOffset(buf, cols, g, i) = start[i - 1] + 1
  <2> SUFFICES ASSUME NEW i \in 1 .. n PROVE ValueOffset(buf, cols, g, i) = start[i - 1] + 1
    OBVIOUS
  <2>1. CASE i = 1
    BY <2>1, <1>5 DEF ValueOffset
  <2>2. CASE i # 1
    <3>1. i - 1 \in 1 .. n
      BY <2>2, <1>1
    <3>2. PICK k \in 1 .. n : k = i - 1
      BY <3>1
    <3>3. g[k] = start[k - 1] + 1
      BY <3>2
    <3> HIDE DEF g
    <3>4. ValueOffset(buf, cols, g, i) = g[k] + 1 + (IF cols[k].type = "TEXT" THEN buf[g[k]] ELSE 0)
      BY <2>2, <3>2 DEF ValueOffset
    <3>5. start[k - 1] \in Nat /\ row[k].type = cols[k].type /\ row[k].type \in Types /\ Len(row[k].v) \in Nat
      BY <1>1, <1>6
    <3>6. CASE cols[k].type = "INTEGER"
      <4>1. start[k] = start[k - 1] + 1
        BY <3>5, <3>6, <1>6
      <4>2. ValueOffset(buf, cols, g, i) = start[k - 1] + 1 + 1 + 0
        BY <3>3, <3>4, <3>6
      <4> QED  BY <4>1, <4>2, <3>2, <3>5
    <3>7. CASE cols[k].type = "TEXT"
      <4>1. start[k] = start[k - 1] + 1 + Len(row[k].v) /\ HasString(buf, start[k - 1] + 1, row[k].v)
        BY <3>5, <3>7, <1>6
      <4>2. buf[start[k - 1] + 1] = Len(row[k].v)
        BY <4>1 DEF HasString
      <4>3. ValueOffset(buf, cols, g, i) = start[k - 1] + 1 + 1 + Len(row[k].v)
        <5>1. g[k] + 1 + buf[g[k]] = start[k - 1] + 1 + 1 + Len(row[k].v)
          BY <3>3, <4>2
        <5> QED  BY <3>4, <3>7, <5>1, Zenon
      <4>4. start[k] + 1 = start[k - 1] + 1 + 1 + Len(row[k].v)
        <5>1. PICK m \in Nat : m = Len(row[k].v)
          BY <3>5
        <5>2. start[k] = start[k - 1] + 1 + m /\ start[k - 1] \in Nat
          BY <4>1, <5>1, <3>5, Zenon
        <5>3. start[k] + 1 = start[k - 1] + 1 + 1 + m
          BY <5>2
        <5> QED  BY <5>1, <5>3, Zenon
      <4> QED  BY <4>3, <4>4, <3>2, Zenon
    <3> QED  BY <3>5, <3>6, <3>7 DEF Types
  <2> QED  BY <2>1, <2>2
<1>8. g = [i \in 1 .. n |-> ValueOffset(buf, cols, g, i)]
  BY <1>7
<1> HIDE DEF g
<1>9. PICK off : /\ off = [i \in 1 .. n |-> ValueOffset(buf, cols, off, i)]
                 /\ deserialize(buf, cols) =
                      [i \in DOMAIN cols |-> IF cols[i].type = "TEXT" THEN Text(StringAt(buf, off[i]))
                                             ELSE Integer(buf[off[i]])]
  BY <1>8, DeserializeUnfold DEF n
<1>10. \A i \in 1 .. n : off[i] = g[i]
  <2> DEFINE T == {i \in 1 .. n : off[i] = g[i]}
  <2>1. \A i \in 1 .. n : off[i] = ValueOffset(buf, cols, off, i) /\ g[i] = ValueOffset(buf, cols, g, i)
    BY <1>8, <1>9
  <2>2. ASSUME n >= 1 PROVE 1 \in T
    <3>1. 1 \in 1 .. n
      BY <1>1, <2>2
    <3>2. off[1] = g[1]
      BY <2>1, <3>1 DEF ValueOffset
    <3> QED  BY <3>1, <3>2
  <2>3. ASSUME NEW i \in 1 .. n - 1, i \in T PROVE i + 1 \in T
    <3>1. i + 1 \in 1 .. n /\ i + 1 # 1 /\ (i + 1) - 1 = i /\ off[i] = g[i]
      BY <1>1, <2>3
    <3>2. ValueOffset(buf, cols, off, i + 1) = ValueOffset(buf, cols, g, i + 1)
      BY <3>1 DEF ValueOffset
    <3> QED  BY <2>1, <3>1, <3>2
  <2> HIDE DEF T
  <2>4. CASE n >= 1
    <3>1. 1 \in Int /\ n \in Int
      BY <1>1
    <3>2. 1 .. n \subseteq T
      BY <2>2, <2>3, <2>4, <3>1, Induction, Zenon
    <3> QED  BY <3>2 DEF T
  <2> QED  BY <2>4, <1>1
<1>11. \A i \in 1 .. n : off[i] = start[i - 1] + 1
  BY <1>10 DEF g
<1>12. ASSUME NEW i \in 1 .. n PROVE deserialize(buf, cols)[i] = row[i]
  <2>1. deserialize(buf, cols)[i] = IF cols[i].type = "TEXT" THEN Text(StringAt(buf, off[i]))
                                    ELSE Integer(buf[off[i]])
    BY <1>1, <1>9
  <2>2. row[i] \in Value /\ row[i].v \in Seq(Int) /\ row[i].type = cols[i].type /\ row[i].type \in Types
    BY <1>1
  <2>3. CASE cols[i].type = "TEXT"
    <3>1. StringAt(buf, off[i]) = row[i].v
      BY <1>3, <1>6, <1>11, <2>2, <2>3, StringAtProperties
    <3> QED  BY <2>1, <2>2, <2>3, <3>1 DEF Text, Value
  <2>4. CASE cols[i].type = "INTEGER"
    <3>1. buf[off[i]] = row[i].v[1] /\ Len(row[i].v) = 1
      BY <1>1, <1>6, <1>11, <2>2, <2>4
    <3>2. row[i].v = <<row[i].v[1]>>
      BY <2>2, <3>1
    <3> QED  BY <2>1, <2>2, <2>4, <3>1, <3>2 DEF Integer, Value
  <2> QED  BY <2>2, <2>3, <2>4 DEF Types
<1>13. deserialize(buf, cols) = row
  <2>1. deserialize(buf, cols) = [i \in 1 .. n |-> deserialize(buf, cols)[i]]
    BY <1>1, <1>9
  <2>2. row = [i \in 1 .. n |-> row[i]]
    BY <1>1 DEF Fits
  <2> QED  BY <1>12, <2>1, <2>2
<1> QED  BY <1>3, <1>13 DEF buf

-----------------------------------------------------------------------------
(***************************************************************************)
(* The metadata page: what it says of a table are that table's columns.    *)
(***************************************************************************)
NamesFit(cols) == \A i \in DOMAIN cols : Len(cols[i].name) <= MaxName

ColumnParts(cols) ==
  [i \in DOMAIN cols |->
     LET len == Min({Len(cols[i].name), MaxName})
     IN  <<len>> \o SubSeq(cols[i].name, 1, len) \o <<IF cols[i].type = "INTEGER" THEN 0 ELSE 1>>]

\* The words of one column.
ColumnPart(col, part) ==
  /\ part \in Seq(Nat) /\ Len(part) = Len(col.name) + 2
  /\ part[1] = Len(col.name)
  /\ \A j \in 1 .. Len(col.name) : part[1 + j] = col.name[j]
  /\ part[Len(col.name) + 2] = IF col.type = "INTEGER" THEN 0 ELSE 1

\* The columns of a table, and their names.
LEMMA ColsProperties ==
  ASSUME NEW cols \in Cols
  PROVE  /\ Len(cols) \in Nat /\ DOMAIN cols = 1 .. Len(cols) /\ cols = [i \in 1 .. Len(cols) |-> cols[i]]
         /\ \A i \in 1 .. Len(cols) :
              /\ cols[i] \in [name : Seq(Nat), type : Types]
              /\ cols[i].name \in Seq(Nat) /\ Len(cols[i].name) \in Nat
              /\ cols[i].type \in Types
<1> DEFINE C == [name : Seq(Nat), type : Types]
<1>1. cols \in Seq(C)
  BY DEF Cols
<1>2. \A col \in C : col.name \in Seq(Nat) /\ col.type \in Types
  OBVIOUS
<1>3. \A col \in C : Len(col.name) \in Nat
  BY <1>2, LenProperties
<1> HIDE DEF C
<1>4. /\ Len(cols) \in Nat /\ DOMAIN cols = 1 .. Len(cols) /\ cols = [i \in 1 .. Len(cols) |-> cols[i]]
      /\ \A i \in 1 .. Len(cols) : cols[i] \in C
  BY <1>1
<1> QED  BY <1>2, <1>3, <1>4 DEF C

\* The words of the columns: one part for each column.
LEMMA ColumnPartsProperties ==
  ASSUME NEW cols \in Cols, NamesFit(cols)
  PROVE  /\ ColumnParts(cols) \in Seq(Seq(Nat)) /\ Len(ColumnParts(cols)) = Len(cols)
         /\ \A i \in 1 .. Len(cols) : ColumnPart(cols[i], ColumnParts(cols)[i])
<1> DEFINE n == Len(cols)
           parts == ColumnParts(cols)
<1>1. n \in Nat /\ DOMAIN cols = 1 .. n /\ \A i \in 1 .. n : cols[i].name \in Seq(Nat)
  BY ColsProperties
<1>2. MaxName \in Nat
  BY QueryAssumption
<1>3. ASSUME NEW i \in 1 .. n PROVE ColumnPart(cols[i], parts[i])
  <2> DEFINE name == cols[i].name
             len == Min({Len(name), MaxName})
             tag == IF cols[i].type = "INTEGER" THEN 0 ELSE 1
             a == <<len>>
             c == <<tag>>
  <2>1. parts[i] = a \o SubSeq(name, 1, len) \o c
    BY <1>1 DEF ColumnParts
  <2>2. name \in Seq(Nat) /\ Len(name) \in Nat /\ Len(name) <= MaxName
    BY <1>1 DEF NamesFit
  <2> HIDE DEF name, parts
  <2>3. len = Len(name)
    <3> DEFINE X == {Len(name), MaxName}
    <3>1. X \subseteq Nat /\ X # {} /\ \A y \in X : Len(name) <= y
      BY <1>2, <2>2
    <3>2. Min(X) \in X /\ \A y \in X : Min(X) <= y
      <4> HIDE DEF X
      <4> QED  BY <3>1, MinProperties
    <3>3. Min(X) <= Len(name) /\ Len(name) <= Min(X) /\ Min(X) \in Nat
      BY <3>1, <3>2
    <3> QED  BY <3>3, <2>2
  <2> HIDE DEF len
  <2>4. SubSeq(name, 1, len) = name
    BY <2>2, <2>3, SubSeqFull
  <2>5. a \in Seq(Nat) /\ c \in Seq(Nat) /\ Len(a) = 1 /\ Len(c) = 1 /\ a[1] = Len(name) /\ c[1] = tag
    BY <2>2, <2>3
  <2> HIDE DEF a, c
  <2> DEFINE b == a \o name
  <2>6. /\ b \in Seq(Nat) /\ Len(b) = Len(a) + Len(name)
        /\ \A j \in 1 .. Len(a) : b[j] = a[j]
        /\ \A j \in 1 .. Len(name) : b[Len(a) + j] = name[j]
    <3>1. a \in Seq(Nat) /\ name \in Seq(Nat)
      BY <2>2, <2>5
    <3> QED  BY <3>1, ConcatAt
  <2> HIDE DEF b
  <2>7. /\ b \o c \in Seq(Nat) /\ Len(b \o c) = Len(b) + Len(c)
        /\ \A j \in 1 .. Len(b) : (b \o c)[j] = b[j]
        /\ \A j \in 1 .. Len(c) : (b \o c)[Len(b) + j] = c[j]
    <3>1. b \in Seq(Nat) /\ c \in Seq(Nat)
      BY <2>5, <2>6
    <3> QED  BY <3>1, ConcatAt
  <2>8. parts[i] = b \o c
    BY <2>1, <2>4 DEF b
  <2> HIDE DEF tag
  <2>9. PICK m \in Nat : m = Len(name)
    BY <2>2
  <2>10. Len(b) = 1 + m /\ Len(b \o c) = m + 2
    BY <2>5, <2>6, <2>7, <2>9
  <2>11. (b \o c)[1] = m
    <3>1. 1 \in 1 .. Len(a) /\ 1 \in 1 .. Len(b)
      BY <2>5, <2>9, <2>10
    <3> QED  BY <2>5, <2>6, <2>7, <2>9, <3>1
  <2>12. \A j \in 1 .. m : (b \o c)[1 + j] = name[j]
    <3>1. \A j \in 1 .. m : 1 + j \in 1 .. Len(b) /\ Len(a) + j = 1 + j
      BY <2>5, <2>9, <2>10
    <3> QED  BY <2>6, <2>7, <2>9, <3>1
  <2>13. (b \o c)[m + 2] = tag
    <3>1. 1 \in 1 .. Len(c) /\ Len(b) + 1 = m + 2
      BY <2>5, <2>9, <2>10
    <3> QED  BY <2>5, <2>7, <3>1
  <2> QED  BY <2>7, <2>8, <2>9, <2>10, <2>11, <2>12, <2>13 DEF ColumnPart, name, tag
<1>4. parts \in Seq(Seq(Nat)) /\ Len(parts) = n
  <2>1. \A i \in 1 .. n : parts[i] \in Seq(Nat)
    BY <1>3 DEF ColumnPart
  <2>2. parts = [i \in 1 .. n |-> parts[i]]
    BY <1>1 DEF ColumnParts
  <2> HIDE DEF parts, n
  <2> QED  BY <1>1, <2>1, <2>2
<1> QED  BY <1>3, <1>4

\* The recursive function of read_metadata.
ColumnOffset(page, f, i) == IF i = 1 THEN 3 ELSE f[i - 1] + page[f[i - 1]] + 2

\* The columns that read_metadata finds at those offsets.
ReadColumns(page, off) ==
  [i \in 1 .. page[2] |->
     [name |-> StringAt(page, off[i]),
      type |-> IF page[off[i] + page[off[i]] + 1] = 0 THEN "INTEGER" ELSE "TEXT"]]

\* read_metadata, with its recursive function unfolded.
LEMMA ReadMetadataUnfold ==
  ASSUME NEW page, NEW g, g = [i \in 1 .. page[2] |-> ColumnOffset(page, g, i)]
  PROVE  \E off : /\ off = [i \in 1 .. page[2] |-> ColumnOffset(page, off, i)]
                  /\ read_metadata(page) = [root |-> page[1], columns |-> ReadColumns(page, off)]
<1> DEFINE off == CHOOSE f : f = [i \in 1 .. page[2] |-> ColumnOffset(page, f, i)]
<1>1. off = [i \in 1 .. page[2] |-> ColumnOffset(page, off, i)]
  BY Zenon
<1>2. read_metadata(page) = [root |-> page[1], columns |-> ReadColumns(page, off)]
  BY Zenon DEF read_metadata, ColumnOffset, ReadColumns
<1> QED  BY <1>1, <1>2, Zenon

\* The root and the columns of a table are read as they were written.
LEMMA MetadataInverse ==
  ASSUME NEW cols \in Cols, NamesFit(cols), NEW top \in Nat
  PROVE  /\ write_metadata(top, cols) \in Seq(Nat)
         /\ read_metadata(write_metadata(top, cols)) = [root |-> top, columns |-> cols]
<1> DEFINE n == Len(cols)
           parts == ColumnParts(cols)
           flat == FlattenSeq(parts)
           page == write_metadata(top, cols)
           head == <<top, n>>
<1>1. parts \in Seq(Seq(Nat)) /\ Len(parts) = n /\ \A i \in 1 .. n : ColumnPart(cols[i], parts[i])
  BY ColumnPartsProperties
<1>2. /\ n \in Nat /\ DOMAIN cols = 1 .. n
      /\ \A i \in 1 .. n : /\ cols[i] \in [name : Seq(Nat), type : Types]
                           /\ cols[i].name \in Seq(Nat) /\ Len(cols[i].name) \in Nat
  BY ColsProperties
<1>3. page = head \o flat
  BY Zenon DEF write_metadata, ColumnParts
<1>4. head \in Seq(Nat) /\ Len(head) = 2 /\ head[1] = top /\ head[2] = n
  BY <1>2
<1> HIDE DEF head, n, parts, flat, page
<1>5. flat \in Seq(Nat) /\ \E start \in [0 .. n -> Nat] : OffsetsIn(flat, parts, start)
  BY <1>1, FlattenOffsets DEF flat
<1>6. PICK start \in [0 .. n -> Nat] : OffsetsIn(flat, parts, start)
  BY <1>5
<1>7. /\ start[0] = 0
      /\ \A i \in 1 .. n : start[i] = start[i - 1] + Len(parts[i]) /\ start[i] <= Len(flat)
      /\ \A i \in 1 .. n : \A j \in 1 .. Len(parts[i]) : flat[start[i - 1] + j] = parts[i][j]
  BY <1>1, <1>6 DEF OffsetsIn
<1>8. /\ page \in Seq(Nat) /\ Len(page) = 2 + Len(flat) /\ Len(flat) \in Nat /\ page[1] = top
      /\ page[2] = n /\ \A j \in 1 .. Len(flat) : page[2 + j] = flat[j]
  <2>1. /\ head \o flat \in Seq(Nat) /\ Len(head \o flat) = Len(head) + Len(flat)
        /\ Len(flat) \in Nat
        /\ \A j \in 1 .. Len(head) : (head \o flat)[j] = head[j]
        /\ \A j \in 1 .. Len(flat) : (head \o flat)[Len(head) + j] = flat[j]
    <3>1. head \in Seq(Nat) /\ flat \in Seq(Nat)
      BY <1>4, <1>5
    <3> QED  BY <3>1, ConcatAt
  <2>2. 1 \in 1 .. Len(head) /\ 2 \in 1 .. Len(head)
    BY <1>4
  <2> QED  BY <1>3, <1>4, <2>1, <2>2
<1>9. ASSUME NEW i \in 1 .. n
      PROVE  /\ i - 1 \in 0 .. n /\ start[i - 1] \in Nat /\ start[i] \in Nat
             /\ start[i] = start[i - 1] + Len(cols[i].name) + 2
             /\ HasString(page, start[i - 1] + 3, cols[i].name)
             /\ page[start[i] + 2] = IF cols[i].type = "INTEGER" THEN 0 ELSE 1
  <2>1. i - 1 \in 0 .. n /\ start[i - 1] \in Nat /\ start[i] \in Nat
    BY <1>2, <1>6
  <2>2. PICK m \in Nat : m = Len(cols[i].name)
    BY <1>2
  <2>3. PICK s \in Nat : s = start[i - 1]
    BY <2>1
  <2>4. PICK tag : tag = IF cols[i].type = "INTEGER" THEN 0 ELSE 1
    OBVIOUS
  <2>5. /\ Len(parts[i]) = m + 2 /\ parts[i][1] = m
        /\ \A j \in 1 .. m : parts[i][1 + j] = cols[i].name[j]
        /\ parts[i][m + 2] = tag
    BY <1>1, <2>2, <2>4 DEF ColumnPart
  <2>6. PICK l \in Nat : l = Len(flat)
    BY <1>8
  <2>7. start[i] = s + (m + 2) /\ s + (m + 2) <= l
    BY <1>7, <2>3, <2>5, <2>6
  <2>8. \A j \in 1 .. m + 2 : flat[s + j] = parts[i][j]
    BY <1>7, <2>3, <2>5
  <2>9. \A j \in 1 .. m + 2 : page[2 + (s + j)] = parts[i][j]
    <3>1. \A j \in 1 .. m + 2 : s + j \in 1 .. l
      BY <2>7
    <3> QED  BY <1>8, <2>6, <2>8, <3>1
  <2>10. page[s + 3] = m
    <3>1. 1 \in 1 .. m + 2 /\ 2 + (s + 1) = s + 3
      OBVIOUS
    <3> QED  BY <2>5, <2>9, <3>1
  <2>11. \A j \in 1 .. m : page[s + 3 + j] = cols[i].name[j]
    <3>1. \A j \in 1 .. m : 1 + j \in 1 .. m + 2 /\ 2 + (s + (1 + j)) = s + 3 + j
      OBVIOUS
    <3> QED  BY <2>5, <2>9, <3>1
  <2>12. page[start[i] + 2] = tag
    <3>1. m + 2 \in 1 .. m + 2 /\ 2 + (s + (m + 2)) = start[i] + 2
      BY <2>7
    <3> QED  BY <2>5, <2>9, <3>1
  <2>13. HasString(page, s + 3, cols[i].name)
    <3>1. s + 3 \in Nat /\ s + 3 >= 1 /\ s + 3 + m <= Len(page)
      BY <1>8, <2>6, <2>7
    <3> QED  BY <2>2, <2>10, <2>11, <3>1 DEF HasString
  <2>14. start[i] = s + m + 2
    BY <2>7
  <2> QED  BY <2>1, <2>2, <2>3, <2>4, <2>12, <2>13, <2>14, Zenon
<1> DEFINE g == [i \in 1 .. n |-> start[i - 1] + 3]
<1>10. \A i \in 1 .. n : ColumnOffset(page, g, i) = start[i - 1] + 3
  <2> SUFFICES ASSUME NEW i \in 1 .. n PROVE ColumnOffset(page, g, i) = start[i - 1] + 3
    OBVIOUS
  <2>1. CASE i = 1
    BY <2>1, <1>7 DEF ColumnOffset
  <2>2. CASE i # 1
    <3>1. i - 1 \in 1 .. n
      BY <2>2, <1>2
    <3>2. PICK k \in 1 .. n : k = i - 1
      BY <3>1
    <3>3. g[k] = start[k - 1] + 3
      BY <3>2
    <3> HIDE DEF g
    <3>4. ColumnOffset(page, g, i) = g[k] + page[g[k]] + 2
      BY <2>2, <3>2 DEF ColumnOffset
    <3>5. PICK m \in Nat : m = Len(cols[k].name)
      BY <1>2
    <3>6. start[k - 1] \in Nat /\ start[k] = start[k - 1] + m + 2
      BY <1>9, <3>5
    <3>7. page[start[k - 1] + 3] = m
      BY <1>9, <3>5 DEF HasString
    <3>8. g[k] + page[g[k]] + 2 = start[k - 1] + 3 + m + 2
      BY <3>3, <3>7
    <3>9. start[k - 1] + 3 + m + 2 = start[k] + 3
      BY <3>6
    <3> QED  BY <3>2, <3>4, <3>8, <3>9, Zenon
  <2> QED  BY <2>1, <2>2
<1>11. g = [i \in 1 .. page[2] |-> ColumnOffset(page, g, i)]
  BY <1>8, <1>10
<1> HIDE DEF g
<1>12. PICK off : /\ off = [i \in 1 .. page[2] |-> ColumnOffset(page, off, i)]
                  /\ read_metadata(page) = [root |-> page[1], columns |-> ReadColumns(page, off)]
  BY <1>11, ReadMetadataUnfold
<1>13. \A i \in 1 .. n : off[i] = g[i]
  <2> DEFINE T == {i \in 1 .. n : off[i] = g[i]}
  <2>1. \A i \in 1 .. n : off[i] = ColumnOffset(page, off, i) /\ g[i] = ColumnOffset(page, g, i)
    BY <1>8, <1>11, <1>12
  <2>2. ASSUME n >= 1 PROVE 1 \in T
    <3>1. 1 \in 1 .. n
      BY <1>2, <2>2
    <3>2. off[1] = g[1]
      BY <2>1, <3>1 DEF ColumnOffset
    <3> QED  BY <3>1, <3>2
  <2>3. ASSUME NEW i \in 1 .. n - 1, i \in T PROVE i + 1 \in T
    <3>1. i + 1 \in 1 .. n /\ i + 1 # 1 /\ (i + 1) - 1 = i /\ off[i] = g[i]
      BY <1>2, <2>3
    <3>2. ColumnOffset(page, off, i + 1) = ColumnOffset(page, g, i + 1)
      BY <3>1 DEF ColumnOffset
    <3> QED  BY <2>1, <3>1, <3>2
  <2> HIDE DEF T
  <2>4. CASE n >= 1
    <3>1. 1 \in Int /\ n \in Int
      BY <1>2
    <3>2. 1 .. n \subseteq T
      BY <2>2, <2>3, <2>4, <3>1, Induction, Zenon
    <3> QED  BY <3>2 DEF T
  <2> QED  BY <2>4, <1>2
<1>14. ASSUME NEW i \in 1 .. n PROVE ReadColumns(page, off)[i] = cols[i]
  <2>1. off[i] = start[i - 1] + 3
    BY <1>13 DEF g
  <2>2. ReadColumns(page, off)[i] =
          [name |-> StringAt(page, off[i]),
           type |-> IF page[off[i] + page[off[i]] + 1] = 0 THEN "INTEGER" ELSE "TEXT"]
    BY <1>8 DEF ReadColumns
  <2>3. StringAt(page, off[i]) = cols[i].name
    <3>1. page \in Seq(Nat) /\ cols[i].name \in Seq(Nat) /\ HasString(page, off[i], cols[i].name)
      BY <1>2, <1>8, <1>9, <2>1
    <3> QED  BY <3>1, StringAtProperties, Zenon
  <2>4. PICK m \in Nat : m = Len(cols[i].name)
    BY <1>2
  <2>5. page[off[i]] = m
    BY <1>9, <2>1, <2>4 DEF HasString
  <2>6. off[i] + page[off[i]] + 1 = start[i] + 2
    <3>1. start[i - 1] \in Nat /\ start[i] = start[i - 1] + m + 2
      BY <1>9, <2>4
    <3>2. off[i] + m + 1 = start[i] + 2
      BY <3>1, <2>1
    <3> QED  BY <2>5, <3>2, Zenon
  <2>7. page[start[i] + 2] = IF cols[i].type = "INTEGER" THEN 0 ELSE 1
    BY <1>9
  <2>8. (IF page[off[i] + page[off[i]] + 1] = 0 THEN "INTEGER" ELSE "TEXT") = cols[i].type
    BY <1>2, <2>6, <2>7 DEF Types
  <2>9. cols[i] \in [name : Seq(Nat), type : Types]
    BY <1>2
  <2> QED  BY <2>2, <2>3, <2>8, <2>9
<1>15. ReadColumns(page, off) = cols
  <2>1. ReadColumns(page, off) = [i \in 1 .. n |-> ReadColumns(page, off)[i]]
    BY <1>8 DEF ReadColumns
  <2>2. cols = [i \in 1 .. n |-> cols[i]]
    BY <1>2 DEF Cols, n
  <2> QED  BY <1>14, <2>1, <2>2
<1>16. read_metadata(page) = [root |-> top, columns |-> cols]
  BY <1>8, <1>12, <1>15
<1> QED  BY <1>8, <1>16 DEF page

-----------------------------------------------------------------------------
(***************************************************************************)
(* protocol.rs: what is written of a message is read as that message.      *)
(***************************************************************************)
Strings == Seq(Seq(Int))

\* A string is encoded as its length and itself.
LEMMA EncodeStringProperties ==
  ASSUME NEW s \in Seq(Int)
  PROVE  /\ EncodeString(s) \in Seq(Int) /\ Len(s) \in Nat /\ Len(EncodeString(s)) = Len(s) + 1
         /\ HasString(EncodeString(s), 1, s)
<1> DEFINE a == <<Len(s)>>
<1>1. Len(s) \in Nat /\ a \in Seq(Int) /\ Len(a) = 1 /\ a[1] = Len(s)
  OBVIOUS
<1> HIDE DEF a
<1>2. /\ a \o s \in Seq(Int) /\ Len(a \o s) = Len(a) + Len(s)
      /\ \A j \in 1 .. Len(a) : (a \o s)[j] = a[j]
      /\ \A j \in 1 .. Len(s) : (a \o s)[Len(a) + j] = s[j]
  <2>1. a \in Seq(Int)
    BY <1>1
  <2> QED  BY <2>1, ConcatAt
<1>3. EncodeString(s) = a \o s
  BY DEF EncodeString, a
<1>4. PICK u : u = a \o s
  OBVIOUS
<1>5. PICK n \in Nat : n = Len(s)
  BY <1>1
<1>6. Len(u) = 1 + n /\ u[1] = n /\ \A j \in 1 .. n : u[1 + j] = s[j]
  <2>1. 1 \in 1 .. Len(a)
    BY <1>1
  <2> QED  BY <1>1, <1>2, <1>4, <1>5, <2>1
<1>7. HasString(u, 1, s)
  BY <1>5, <1>6 DEF HasString
<1>8. Len(u) = n + 1
  BY <1>6
<1> QED  BY <1>2, <1>3, <1>4, <1>5, <1>7, <1>8

\* A string in a part of t is one in t.
LEMMA HasStringShift ==
  ASSUME NEW e, NEW o, NEW s \in Seq(Int), HasString(e, o, s), Len(e) \in Nat,
         NEW t, NEW d \in Nat, Len(t) \in Nat, d + Len(e) <= Len(t),
         \A j \in 1 .. Len(e) : t[d + j] = e[j]
  PROVE  HasString(t, d + o, s)
<1>1. PICK n \in Nat, l \in Nat, m \in Nat : n = Len(s) /\ l = Len(e) /\ m = Len(t)
  OBVIOUS
<1>2. /\ o \in Nat /\ o >= 1 /\ o + n <= l /\ e[o] = n
      /\ \A j \in 1 .. n : e[o + j] = s[j]
  BY <1>1 DEF HasString
<1>3. d + l <= m /\ \A j \in 1 .. l : t[d + j] = e[j]
  BY <1>1
<1>4. d + o \in Nat /\ d + o >= 1 /\ d + o + n <= m
  BY <1>2, <1>3
<1>5. t[d + o] = n
  <2>1. o \in 1 .. l
    BY <1>2
  <2> QED  BY <1>2, <1>3, <2>1
<1>6. ASSUME NEW j \in 1 .. n PROVE t[d + o + j] = s[j]
  <2>1. o + j \in 1 .. l /\ d + (o + j) = d + o + j
    BY <1>2
  <2> QED  BY <1>2, <1>3, <2>1
<1> QED  BY <1>1, <1>4, <1>5, <1>6 DEF HasString

\* Where the strings ss begin in e, after st[0], st[1], ... words.
StringsIn(e, ss, st) ==
  /\ st[0] = 0 /\ st[Len(ss)] = Len(e)
  /\ \A i \in 1 .. Len(ss) : /\ HasString(e, st[i - 1] + 1, ss[i])
                             /\ st[i] = st[i - 1] + Len(ss[i]) + 1

\* Strings are encoded one after the other.
LEMMA EncodeStringsProperties ==
  ASSUME NEW ss \in Strings
  PROVE  /\ EncodeStrings(ss) \in Seq(Int)
         /\ \E st \in [0 .. Len(ss) -> Nat] : StringsIn(EncodeStrings(ss), ss, st)
<1> DEFINE n == Len(ss)
           parts == [i \in DOMAIN ss |-> EncodeString(ss[i])]
           e == EncodeStrings(ss)
<1>1. n \in Nat /\ DOMAIN ss = 1 .. n /\ \A i \in 1 .. n : ss[i] \in Seq(Int)
  BY DEF Strings
<1>2. \A i \in 1 .. n : /\ EncodeString(ss[i]) \in Seq(Int) /\ Len(ss[i]) \in Nat
                        /\ Len(EncodeString(ss[i])) = Len(ss[i]) + 1
                        /\ HasString(EncodeString(ss[i]), 1, ss[i])
  BY <1>1, EncodeStringProperties
<1>3. e = FlattenSeq(parts)
  BY DEF EncodeStrings
<1> HIDE DEF n, e
<1>4. parts \in Seq(Seq(Int)) /\ Len(parts) = n /\ \A i \in 1 .. n : parts[i] = EncodeString(ss[i])
  BY <1>1, <1>2
<1> HIDE DEF parts
<1>5. e \in Seq(Int) /\ \E st \in [0 .. n -> Nat] : OffsetsIn(e, parts, st)
  BY <1>3, <1>4, FlattenOffsets
<1>6. PICK st \in [0 .. n -> Nat] : OffsetsIn(e, parts, st)
  BY <1>5
<1>7. /\ st[0] = 0 /\ st[n] = Len(e)
      /\ \A i \in 1 .. n : st[i] = st[i - 1] + Len(parts[i]) /\ st[i] <= Len(e)
      /\ \A i \in 1 .. n : \A j \in 1 .. Len(parts[i]) : e[st[i - 1] + j] = parts[i][j]
  BY <1>4, <1>6 DEF OffsetsIn
<1>8. ASSUME NEW i \in 1 .. n
      PROVE  HasString(e, st[i - 1] + 1, ss[i]) /\ st[i] = st[i - 1] + Len(ss[i]) + 1
  <2>1. PICK p : p = parts[i]
    OBVIOUS
  <2>2. PICK m \in Nat : m = Len(ss[i])
    BY <1>2
  <2>3. Len(p) = m + 1 /\ HasString(p, 1, ss[i]) /\ ss[i] \in Seq(Int)
    BY <1>1, <1>2, <1>4, <2>1, <2>2
  <2>4. PICK d \in Nat : d = st[i - 1]
    BY <1>1, <1>6
  <2>5. PICK l \in Nat : l = Len(e)
    BY <1>5
  <2>6. st[i] = d + (m + 1) /\ d + (m + 1) <= l /\ \A j \in 1 .. m + 1 : e[d + j] = p[j]
    BY <1>7, <2>1, <2>3, <2>4, <2>5
  <2>7. Len(p) \in Nat /\ Len(e) \in Nat /\ d + Len(p) <= Len(e) /\ \A j \in 1 .. Len(p) : e[d + j] = p[j]
    BY <2>3, <2>5, <2>6
  <2>8. HasString(e, d + 1, ss[i])
    BY <2>3, <2>7, HasStringShift
  <2>9. st[i] = d + m + 1
    BY <2>6
  <2> QED  BY <2>2, <2>4, <2>8, <2>9
<1>9. StringsIn(e, ss, st)
  BY <1>7, <1>8 DEF StringsIn, n
<1> QED  BY <1>5, <1>6, <1>9 DEF e, n

\* The recursive function of Starts.
NextStart(buf, off, f, i) ==
  IF i = 0 THEN off
  ELSE LET o == f[i - 1]
       IN  IF o = 0 \/ o > Len(buf) THEN 0
           ELSE IF o + buf[o] > Len(buf) THEN 0 ELSE o + buf[o] + 1

\* The places where the strings start, unfolded.
LEMMA StartsUnfold ==
  ASSUME NEW buf, NEW off, NEW n, \E g : g = [i \in 0 .. n |-> NextStart(buf, off, g, i)]
  PROVE  Starts(buf, off, n) = [i \in 0 .. n |-> NextStart(buf, off, Starts(buf, off, n), i)]
<1> DEFINE F == CHOOSE f : f = [i \in 0 .. n |-> NextStart(buf, off, f, i)]
<1>1. F = [i \in 0 .. n |-> NextStart(buf, off, F, i)]
  BY Zenon
<1>2. Starts(buf, off, n) = F
  BY Zenon DEF Starts, NextStart
<1> QED  BY <1>1, <1>2, Zenon

\* The strings of a buffer that are encoded from d + 1 on are found there.
LEMMA DecodeStrings ==
  ASSUME NEW buf \in Seq(Int), NEW ss \in Strings, NEW d \in Nat,
         d + Len(EncodeStrings(ss)) <= Len(buf),
         \A j \in 1 .. Len(EncodeStrings(ss)) : buf[d + j] = EncodeStrings(ss)[j]
  PROVE  /\ Starts(buf, d + 1, Len(ss))[Len(ss)] = d + 1 + Len(EncodeStrings(ss))
         /\ \A i \in 1 .. Len(ss) : StringAt(buf, Starts(buf, d + 1, Len(ss))[i - 1]) = ss[i]
<1> DEFINE n == Len(ss)
           e == EncodeStrings(ss)
<1>1. n \in Nat /\ \A i \in 1 .. n : ss[i] \in Seq(Int)
  BY DEF Strings
<1>b. d + Len(e) <= Len(buf) /\ Len(buf) \in Nat /\ \A j \in 1 .. Len(e) : buf[d + j] = e[j]
  OBVIOUS
<1>2. e \in Seq(Int) /\ \E st \in [0 .. n -> Nat] : StringsIn(e, ss, st)
  BY EncodeStringsProperties
<1> HIDE DEF e
<1>3. PICK st \in [0 .. n -> Nat] : StringsIn(e, ss, st)
  BY <1>2
<1>4. Len(e) \in Nat
  BY <1>2
<1> HIDE DEF n
<1>5. /\ st[0] = 0 /\ st[n] = Len(e)
      /\ \A i \in 1 .. n : HasString(e, st[i - 1] + 1, ss[i]) /\ st[i] = st[i - 1] + Len(ss[i]) + 1
  BY <1>3 DEF StringsIn, n
<1> DEFINE g == [i \in 0 .. n |-> d + 1 + st[i]]
<1>6. ASSUME NEW i \in 1 .. n
      PROVE  /\ HasString(buf, g[i - 1], ss[i]) /\ i - 1 \in 0 .. n
             /\ g[i] = g[i - 1] + Len(ss[i]) + 1
  <2>1. i - 1 \in 0 .. n /\ st[i - 1] \in Nat /\ i \in 0 .. n
    BY <1>1, <1>3
  <2>2. g[i - 1] = d + 1 + st[i - 1] /\ g[i] = d + 1 + st[i]
    BY <2>1
  <2>3. HasString(buf, d + (st[i - 1] + 1), ss[i])
    BY <1>1, <1>b, <1>4, <1>5, HasStringShift
  <2>4. d + (st[i - 1] + 1) = d + 1 + st[i - 1]
    BY <2>1
  <2> HIDE DEF g
  <2>5. PICK m \in Nat : m = Len(ss[i])
    BY <1>1
  <2>6. g[i] = g[i - 1] + m + 1
    <3>1. PICK a \in Nat, b \in Nat : a = st[i - 1] /\ b = st[i]
      BY <2>1
    <3>2. b = a + m + 1
      BY <1>5, <2>5, <3>1
    <3>3. d + 1 + b = (d + 1 + a) + m + 1
      BY <3>2
    <3> QED  BY <2>2, <3>1, <3>3
  <2> QED  BY <2>1, <2>2, <2>3, <2>4, <2>5, <2>6
<1>7. \A i \in 0 .. n : g[i] = NextStart(buf, d + 1, g, i)
  <2> SUFFICES ASSUME NEW i \in 0 .. n PROVE g[i] = NextStart(buf, d + 1, g, i)
    OBVIOUS
  <2>1. CASE i = 0
    <3>1. g[0] = d + 1
      BY <1>1, <1>5
    <3> QED  BY <2>1, <3>1 DEF NextStart
  <2>2. CASE i # 0
    <3>1. i \in 1 .. n
      BY <2>2
    <3>2. PICK o : o = g[i - 1]
      OBVIOUS
    <3>3. HasString(buf, o, ss[i]) /\ g[i] = o + Len(ss[i]) + 1
      BY <1>6, <3>1, <3>2
    <3>4. /\ o \in Nat /\ o >= 1 /\ o + Len(ss[i]) <= Len(buf) /\ buf[o] = Len(ss[i])
      BY <3>3 DEF HasString
    <3>0. ss[i] \in Seq(Int)
      BY <1>1, <3>1, Zenon
    <3>5. PICK m \in Nat : m = Len(ss[i])
      BY <3>0
    <3>6. ~ (o = 0 \/ o > Len(buf)) /\ ~ (o + m > Len(buf))
      BY <1>b, <3>4, <3>5
    <3> HIDE DEF g
    <3>7. NextStart(buf, d + 1, g, i) = o + buf[o] + 1
      <4>1. buf[o] = m
        BY <3>4, <3>5
      <4>2. NextStart(buf, d + 1, g, i) =
              IF o = 0 \/ o > Len(buf) THEN 0 ELSE IF o + buf[o] > Len(buf) THEN 0 ELSE o + buf[o] + 1
        BY <2>2, <3>2, Zenon DEF NextStart
      <4> QED  BY <3>6, <4>1, <4>2, Zenon
    <3> QED  BY <3>3, <3>4, <3>7
  <2> QED  BY <2>1, <2>2
<1>8. g = [i \in 0 .. n |-> NextStart(buf, d + 1, g, i)]
  BY <1>7
<1>9. g[n] = d + 1 + Len(e)
  <2>1. n \in 0 .. n
    BY <1>1
  <2>2. g[n] = d + 1 + st[n]
    BY <2>1
  <2> HIDE DEF g
  <2> QED  BY <1>5, <2>2
<1> HIDE DEF g
<1> DEFINE F == Starts(buf, d + 1, n)
<1>10. F = [i \in 0 .. n |-> NextStart(buf, d + 1, F, i)]
  <2>1. \E f : f = [i \in 0 .. n |-> NextStart(buf, d + 1, f, i)]
    BY <1>8
  <2>2. PICK o : o = d + 1
    OBVIOUS
  <2>3. \E f : f = [i \in 0 .. n |-> NextStart(buf, o, f, i)]
    BY <2>1, <2>2
  <2>4. Starts(buf, o, n) = [i \in 0 .. n |-> NextStart(buf, o, Starts(buf, o, n), i)]
    BY <2>3, StartsUnfold
  <2> QED  BY <2>2, <2>4
<1> HIDE DEF F
<1>11. 0 .. n \subseteq {i \in 0 .. n : F[i] = g[i]}
  <2> DEFINE T == {i \in 0 .. n : F[i] = g[i]}
  <2>1. \A i \in 0 .. n : F[i] = NextStart(buf, d + 1, F, i) /\ g[i] = NextStart(buf, d + 1, g, i)
    BY <1>8, <1>10
  <2>2. 0 \in T
    <3>1. 0 \in 0 .. n
      BY <1>1
    <3>2. F[0] = g[0]
      BY <2>1, <3>1 DEF NextStart
    <3> QED  BY <3>1, <3>2
  <2>3. ASSUME NEW i \in 0 .. n - 1, i \in T PROVE i + 1 \in T
    <3>1. i + 1 \in 0 .. n /\ i + 1 # 0 /\ (i + 1) - 1 = i /\ F[i] = g[i]
      BY <1>1, <2>3
    <3>2. NextStart(buf, d + 1, F, i + 1) = NextStart(buf, d + 1, g, i + 1)
      BY <3>1 DEF NextStart
    <3> QED  BY <2>1, <3>1, <3>2
  <2> HIDE DEF T
  <2>4. 0 \in Int /\ n \in Int
    BY <1>1
  <2>5. 0 .. n \subseteq T
    BY <2>2, <2>3, <2>4, Induction, Zenon
  <2> QED  BY <2>5 DEF T
<1>12. F[n] = g[n] /\ \A i \in 1 .. n : F[i - 1] = g[i - 1]
  <2>1. n \in 0 .. n /\ \A i \in 1 .. n : i - 1 \in 0 .. n
    BY <1>1
  <2> QED  BY <1>11, <2>1
<1>13. ASSUME NEW i \in 1 .. n PROVE StringAt(buf, F[i - 1]) = ss[i]
  <2>1. HasString(buf, F[i - 1], ss[i]) /\ ss[i] \in Seq(Int)
    BY <1>1, <1>6, <1>12
  <2> QED  BY <2>1, StringAtProperties, Zenon
<1> QED  BY <1>9, <1>12, <1>13 DEF F, n, e

\* The messages that the server writes: an error, or the rows of a result.
IsError(m) == m \in [tag : {"Error"}, text : Seq(Int)]
IsRows(m) ==
  /\ m \in [tag : {"Rows"}, headers : Strings, rows : Seq(Strings)]
  /\ \A r \in 1 .. Len(m.rows) : Len(m.rows[r]) = Len(m.headers)
IsMessage(m) == IsError(m) \/ IsRows(m)

\* The words of a result, part by part.
RowsIn(buf, headers, rows) ==
  LET e == EncodeStrings(headers)
      f == EncodeStrings(FlattenSeq(rows))
  IN
  /\ buf \in Seq(Int) /\ Len(buf) = 1 + Len(e) + 1 + Len(f)
  /\ buf[1] = Len(headers)
  /\ \A j \in 1 .. Len(e) : buf[1 + j] = e[j]
  /\ buf[Len(e) + 2] = Len(rows)
  /\ \A j \in 1 .. Len(f) : buf[(Len(e) + 2) + j] = f[j]

\* The words of a result: the two counts, the headers, the values.
LEMMA EncodeRowsProperties ==
  ASSUME NEW headers \in Strings, NEW rows \in Seq(Strings), FlattenSeq(rows) \in Strings
  PROVE  RowsIn(encode_rows(headers, rows), headers, rows)
<1> DEFINE a == <<Len(headers)>>
           e == EncodeStrings(headers)
           c == <<Len(rows)>>
           f == EncodeStrings(FlattenSeq(rows))
           x == a \o e
           y == x \o c
           z == y \o f
<1>1. /\ a \in Seq(Int) /\ Len(a) = 1 /\ a[1] = Len(headers)
      /\ c \in Seq(Int) /\ Len(c) = 1 /\ c[1] = Len(rows)
  <2>1. Len(headers) \in Int /\ Len(rows) \in Int
    BY DEF Strings
  <2> QED  BY <2>1
<1>2. e \in Seq(Int) /\ f \in Seq(Int)
  BY EncodeStringsProperties
<1>3. encode_rows(headers, rows) = z
  BY DEF encode_rows
<1> HIDE DEF a, c, e, f, x, y, z
<1>4. /\ x \in Seq(Int) /\ Len(x) = Len(a) + Len(e) /\ Len(e) \in Nat
      /\ \A j \in 1 .. Len(a) : x[j] = a[j]
      /\ \A j \in 1 .. Len(e) : x[Len(a) + j] = e[j]
  <2>1. a \in Seq(Int) /\ e \in Seq(Int)
    BY <1>1, <1>2
  <2> QED  BY <2>1, ConcatAt DEF x
<1>5. /\ y \in Seq(Int) /\ Len(y) = Len(x) + Len(c)
      /\ \A j \in 1 .. Len(x) : y[j] = x[j]
      /\ \A j \in 1 .. Len(c) : y[Len(x) + j] = c[j]
  <2>1. x \in Seq(Int) /\ c \in Seq(Int)
    BY <1>1, <1>4
  <2> QED  BY <2>1, ConcatAt DEF y
<1>6. /\ z \in Seq(Int) /\ Len(z) = Len(y) + Len(f) /\ Len(f) \in Nat
      /\ \A j \in 1 .. Len(y) : z[j] = y[j]
      /\ \A j \in 1 .. Len(f) : z[Len(y) + j] = f[j]
  <2>1. y \in Seq(Int) /\ f \in Seq(Int)
    BY <1>2, <1>5
  <2> QED  BY <2>1, ConcatAt DEF z
<1>7. PICK l \in Nat, m \in Nat : l = Len(e) /\ m = Len(f)
  BY <1>4, <1>6
<1>8. Len(a) = 1 /\ Len(c) = 1 /\ Len(x) = 1 + l /\ Len(y) = l + 2 /\ Len(z) = 1 + l + 1 + m
  BY <1>1, <1>4, <1>5, <1>6, <1>7
<1>9. z[1] = a[1]
  <2>1. 1 \in 1 .. Len(a) /\ 1 \in 1 .. Len(x) /\ 1 \in 1 .. Len(y)
    BY <1>7, <1>8
  <2>2. z[1] = y[1] /\ y[1] = x[1] /\ x[1] = a[1]
    BY <1>4, <1>5, <1>6, <2>1, Zenon
  <2> QED  BY <2>2
<1>10. ASSUME NEW j \in 1 .. l PROVE z[1 + j] = e[j]
  <2>1. 1 + j \in 1 .. 1 + l /\ 1 + j \in 1 .. l + 2
    OBVIOUS
  <2> QED  BY <1>4, <1>5, <1>6, <1>7, <1>8, <2>1
<1>11. z[l + 2] = c[1]
  <2>1. 1 \in 1 .. 1 /\ l + 2 \in 1 .. l + 2 /\ (1 + l) + 1 = l + 2
    OBVIOUS
  <2> QED  BY <1>5, <1>6, <1>8, <2>1
<1>12. ASSUME NEW j \in 1 .. m PROVE z[(l + 2) + j] = f[j]
  BY <1>6, <1>7, <1>8
<1>13. /\ z \in Seq(Int) /\ Len(z) = 1 + Len(e) + 1 + Len(f)
       /\ z[1] = Len(headers)
       /\ \A j \in 1 .. Len(e) : z[1 + j] = e[j]
       /\ z[Len(e) + 2] = Len(rows)
       /\ \A j \in 1 .. Len(f) : z[(Len(e) + 2) + j] = f[j]
  BY <1>1, <1>6, <1>7, <1>8, <1>9, <1>10, <1>11, <1>12
<1> QED  BY <1>3, <1>13 DEF RowsIn, e, f

\* A result is decoded as it was encoded.
LEMMA DecodeRowsInverse ==
  ASSUME NEW m, IsRows(m)
  PROVE  encode_rows(m.headers, m.rows) \in Seq(Int) /\ decode_rows(encode_rows(m.headers, m.rows)) = m
<1> DEFINE headers == m.headers
           rows == m.rows
           flat == FlattenSeq(rows)
           buf == encode_rows(headers, rows)
           e == EncodeStrings(headers)
           f == EncodeStrings(flat)
           nc == Len(headers)
           nr == Len(rows)
<1>1. /\ m = [tag |-> "Rows", headers |-> headers, rows |-> rows]
      /\ headers \in Strings /\ rows \in Seq(Strings)
      /\ \A r \in 1 .. nr : Len(rows[r]) = nc
  BY DEF IsRows
<1> HIDE DEF headers, rows
<1>2. nc \in Nat /\ nr \in Nat
  BY <1>1 DEF Strings
<1>3. /\ flat \in Strings /\ Len(flat) = nr * nc
      /\ \A r \in 1 .. nr : \A c \in 1 .. nc :
           (r - 1) * nc + c \in 1 .. nr * nc /\ flat[(r - 1) * nc + c] = rows[r][c]
  <2>1. rows \in Seq(Seq(Seq(Int)))
    BY <1>1 DEF Strings
  <2>2. /\ flat \in Seq(Seq(Int)) /\ Len(flat) = Len(rows) * nc
        /\ \A r \in 1 .. Len(rows) : \A c \in 1 .. nc :
             /\ (r - 1) * nc + c \in 1 .. Len(rows) * nc
             /\ flat[(r - 1) * nc + c] = rows[r][c]
    <3>1. nc \in Nat /\ \A i \in 1 .. Len(rows) : Len(rows[i]) = nc
      BY <1>1, <1>2, Zenon
    <3> HIDE DEF nc
    <3> QED  BY <2>1, <3>1, FlattenEqual
  <2> QED  BY <2>2, Zenon DEF Strings
<1>4. RowsIn(buf, headers, rows)
  BY <1>1, <1>3, EncodeRowsProperties
<1>5. e \in Seq(Int) /\ f \in Seq(Int)
  BY <1>1, <1>3, EncodeStringsProperties
<1> HIDE DEF flat, buf, e, f
<1>6. /\ buf \in Seq(Int) /\ Len(buf) = 1 + Len(e) + 1 + Len(f) /\ buf[1] = nc
      /\ \A j \in 1 .. Len(e) : buf[1 + j] = e[j]
      /\ buf[Len(e) + 2] = nr
      /\ \A j \in 1 .. Len(f) : buf[(Len(e) + 2) + j] = f[j]
  BY <1>4 DEF RowsIn, e, f, flat
<1>7. Len(e) \in Nat /\ Len(f) \in Nat
  BY <1>5
<1> DEFINE hs == Starts(buf, 2, nc)
           count == hs[nc]
           cs == Starts(buf, count + 1, nr * nc)
<1>8. hs[nc] = 2 + Len(e) /\ \A i \in 1 .. nc : StringAt(buf, hs[i - 1]) = headers[i]
  <2>1. 1 \in Nat /\ 1 + 1 = 2 /\ 1 + Len(e) <= Len(buf)
    BY <1>6, <1>7
  <2>2. /\ Starts(buf, 1 + 1, Len(headers))[Len(headers)] = 1 + 1 + Len(e)
        /\ \A i \in 1 .. Len(headers) : StringAt(buf, Starts(buf, 1 + 1, Len(headers))[i - 1]) = headers[i]
    BY <1>1, <1>6, <2>1, DecodeStrings DEF e
  <2> QED  BY <2>1, <2>2
<1>9. /\ Starts(buf, Len(e) + 2 + 1, nr * nc)[nr * nc] = Len(e) + 2 + 1 + Len(f)
      /\ \A i \in 1 .. nr * nc : StringAt(buf, Starts(buf, Len(e) + 2 + 1, nr * nc)[i - 1]) = flat[i]
  <2>1. PICK d \in Nat : d = Len(e) + 2
    BY <1>7
  <2>2. d + Len(f) <= Len(buf)
    BY <1>6, <1>7, <2>1
  <2>3. \A j \in 1 .. Len(f) : buf[d + j] = f[j]
    BY <1>6, <2>1
  <2>4. /\ Starts(buf, d + 1, Len(flat))[Len(flat)] = d + 1 + Len(f)
        /\ \A i \in 1 .. Len(flat) : StringAt(buf, Starts(buf, d + 1, Len(flat))[i - 1]) = flat[i]
    BY <1>3, <1>6, <2>2, <2>3, DecodeStrings DEF f
  <2> QED  BY <1>3, <2>1, <2>4
<1>10. count = Len(e) + 2 /\ count \in Nat /\ count # 0 /\ count <= Len(buf)
  <2> HIDE DEF hs
  <2> QED  BY <1>6, <1>7, <1>8
<1>11. buf[count] = nr
  BY <1>6, <1>10
<1>12. /\ cs[nr * nc] = count + 1 + Len(f)
       /\ \A i \in 1 .. nr * nc : StringAt(buf, cs[i - 1]) = flat[i]
  BY <1>9, <1>10
<1>13. buf # <<>>
  BY <1>6, <1>7
<1> HIDE DEF hs, cs, nc, nr
<1>14. cs[nr * nc] # 0
  <2> HIDE DEF count
  <2> QED  BY <1>7, <1>10, <1>12
<1>15. [i \in 1 .. nc |-> StringAt(buf, hs[i - 1])] = headers
  <2>1. headers = [i \in 1 .. nc |-> headers[i]]
    BY <1>1 DEF nc, Strings
  <2> QED  BY <1>8, <2>1
<1>16. [r \in 1 .. nr |-> [c \in 1 .. nc |-> StringAt(buf, cs[(r - 1) * nc + c - 1])]] = rows
  <2>1. rows = [r \in 1 .. nr |-> rows[r]]
    BY <1>1 DEF nr
  <2>2. ASSUME NEW r \in 1 .. nr
        PROVE  [c \in 1 .. nc |-> StringAt(buf, cs[(r - 1) * nc + c - 1])] = rows[r]
    <3>1. rows[r] \in Strings /\ Len(rows[r]) = nc
      BY <1>1 DEF nr
    <3>2. rows[r] = [c \in 1 .. nc |-> rows[r][c]]
      BY <3>1 DEF Strings
    <3>3. ASSUME NEW c \in 1 .. nc
          PROVE  StringAt(buf, cs[(r - 1) * nc + c - 1]) = rows[r][c]
      <4>1. PICK i \in 1 .. nr * nc : i = (r - 1) * nc + c
        BY <1>3
      <4>2. StringAt(buf, cs[i - 1]) = flat[i]
        BY <1>12
      <4>3. flat[i] = rows[r][c]
        BY <1>3, <4>1
      <4>4. (r - 1) * nc + c - 1 = i - 1
        <5>1. PICK q : q = (r - 1) * nc
          OBVIOUS
        <5>2. q \in Nat
          <6>1. r - 1 \in Nat /\ nc \in Nat
            BY <1>2 DEF nc
          <6> QED  BY <5>1, <6>1
        <5>3. i = q + c
          BY <4>1, <5>1, Zenon
        <5>4. q + (c - 1) = i - 1
          BY <5>2, <5>3
        <5> QED  BY <5>1, <5>4, Zenon
      <4> QED  BY <4>2, <4>3, <4>4
    <3> QED  BY <3>2, <3>3
  <2> QED  BY <2>1, <2>2
<1>17. decode_rows(buf) = [tag |-> "Rows",
            headers |-> [i \in 1 .. nc |-> StringAt(buf, hs[i - 1])],
            rows |-> [r \in 1 .. nr |->
                        [c \in 1 .. nc |-> StringAt(buf, cs[(r - 1) * nc + c - 1])]]]
  <2>1. ~ (count = 0 \/ count > Len(buf))
    BY <1>6, <1>7, <1>10
  <2>2. buf[1] = nc
    BY <1>6 DEF nc
  <2>3. hs = Starts(buf, 2, buf[1]) /\ cs = Starts(buf, hs[buf[1]] + 1, buf[hs[buf[1]]] * buf[1])
    BY <1>11, <2>2 DEF hs, cs
  <2> QED  BY <1>11, <1>13, <1>14, <2>1, <2>2, <2>3, Zenon DEF decode_rows, hs, cs
<1>18. decode_rows(buf) = m
  BY <1>1, <1>15, <1>16, <1>17
<1> QED  BY <1>6, <1>18 DEF buf, headers, rows

Payload(m) == IF m.tag = "Rows" THEN encode_rows(m.headers, m.rows) ELSE m.text
TagOf(m) == IF m.tag = "Rows" THEN 4 ELSE 3

\* The words of a message: its length, its tag, its payload.
LEMMA WriteMessageProperties ==
  ASSUME NEW m, IsMessage(m)
  PROVE  /\ Payload(m) \in Seq(Int) /\ Len(Payload(m)) \in Nat
         /\ write_message(m) \in Seq(Int) /\ Len(write_message(m)) = 2 + Len(Payload(m))
         /\ write_message(m)[1] = Len(Payload(m)) + 1 /\ write_message(m)[2] = TagOf(m)
         /\ \A j \in 1 .. Len(Payload(m)) : write_message(m)[2 + j] = Payload(m)[j]
<1> DEFINE p == Payload(m)
           a == <<Len(p) + 1, TagOf(m)>>
           w == a \o p
<1>1. p \in Seq(Int)
  <2>1. CASE IsError(m)
    BY <2>1 DEF IsError, Payload
  <2>2. CASE IsRows(m)
    <3>1. m.tag = "Rows"
      BY <2>2 DEF IsRows
    <3> QED  BY <2>2, <3>1, DecodeRowsInverse DEF Payload
  <2> QED  BY <2>1, <2>2 DEF IsMessage
<1>2. write_message(m) = w
  BY Zenon DEF write_message, Payload, TagOf
<1> HIDE DEF p
<1>3. Len(p) \in Nat /\ TagOf(m) \in Int
  BY <1>1 DEF TagOf
<1>4. a \in Seq(Int) /\ Len(a) = 2 /\ a[1] = Len(p) + 1 /\ a[2] = TagOf(m)
  BY <1>3
<1> HIDE DEF a, w
<1>5. /\ w \in Seq(Int) /\ Len(w) = Len(a) + Len(p)
      /\ \A j \in 1 .. Len(a) : w[j] = a[j]
      /\ \A j \in 1 .. Len(p) : w[Len(a) + j] = p[j]
  <2>1. a \in Seq(Int)
    BY <1>4
  <2> QED  BY <1>1, <2>1, ConcatAt DEF w
<1>6. w[1] = a[1] /\ w[2] = a[2]
  <2>1. 1 \in 1 .. Len(a) /\ 2 \in 1 .. Len(a)
    BY <1>4
  <2> QED  BY <1>5, <2>1
<1> QED  BY <1>1, <1>2, <1>3, <1>4, <1>5, <1>6 DEF p

\* A whole message is read as it was written, and of one that is cut nothing is.
LEMMA ReadMessageInverse ==
  ASSUME NEW m, IsMessage(m)
  PROVE  /\ read_message(write_message(m)) = m
         /\ \A n \in 0 .. Len(write_message(m)) :
              read_message(SubSeq(write_message(m), 1, n)) \in {m, Lost}
<1> DEFINE p == Payload(m)
           w == write_message(m)
<1>1. /\ p \in Seq(Int) /\ Len(p) \in Nat
      /\ w \in Seq(Int) /\ Len(w) = 2 + Len(p)
      /\ w[1] = Len(p) + 1 /\ w[2] = TagOf(m)
      /\ \A j \in 1 .. Len(p) : w[2 + j] = p[j]
  BY WriteMessageProperties
<1> HIDE DEF p, w
<1>2. PICK l \in Nat : l = Len(p)
  BY <1>1
<1>3. Len(w) = 2 + l /\ w[1] = l + 1
  BY <1>1, <1>2
<1>4. SubSeq(w, 3, w[1] + 1) = p
  <2>1. w[1] + 1 = l + 2
    BY <1>3
  <2>2. 3 \in Nat /\ l + 2 \in Nat /\ 3 >= 1 /\ l + 2 <= Len(w) /\ l + 2 >= 3 - 1
    BY <1>3
  <2>3. /\ SubSeq(w, 3, l + 2) \in Seq(Int) /\ Len(SubSeq(w, 3, l + 2)) = (l + 2) - 3 + 1
        /\ \A j \in 1 .. (l + 2) - 3 + 1 : SubSeq(w, 3, l + 2)[j] = w[3 + j - 1]
    <3>1. w \in Seq(Int)
      BY <1>1
    <3> QED  BY <2>2, <3>1, SubSeqAt
  <2>4. PICK u : u = SubSeq(w, 3, l + 2)
    OBVIOUS
  <2>5. u \in Seq(Int) /\ Len(u) = l
    BY <2>3, <2>4
  <2>6. ASSUME NEW j \in 1 .. l PROVE u[j] = p[j]
    <3>1. j \in 1 .. (l + 2) - 3 + 1 /\ 3 + j - 1 = 2 + j
      OBVIOUS
    <3>2. u[j] = w[3 + j - 1]
      BY <2>3, <2>4, <3>1
    <3>3. w[2 + j] = p[j]
      BY <1>1, <1>2
    <3> QED  BY <3>1, <3>2, <3>3
  <2>7. u = p
    BY <1>1, <1>2, <2>5, <2>6, SeqEqual
  <2> QED  BY <2>1, <2>4, <2>7
<1>5. read_message(w) = m
  <2>1. ~ (Len(w) < 2 \/ w[1] < 1 \/ Len(w) < 1 + w[1])
    BY <1>3
  <2>2. read_message(w) = IF w[2] = 4 THEN decode_rows(p) ELSE [tag |-> "Error", text |-> p]
    BY <1>4, <2>1, Zenon DEF read_message
  <2>3. CASE IsError(m)
    <3>1. m.tag # "Rows" /\ m = [tag |-> "Error", text |-> m.text]
      BY <2>3 DEF IsError
    <3>2. w[2] # 4 /\ p = m.text
      BY <1>1, <3>1 DEF TagOf, Payload, p
    <3> QED  BY <2>2, <3>1, <3>2
  <2>4. CASE IsRows(m)
    <3>1. m.tag = "Rows"
      BY <2>4 DEF IsRows
    <3>2. w[2] = 4 /\ p = encode_rows(m.headers, m.rows)
      BY <1>1, <3>1 DEF TagOf, Payload, p
    <3> QED  BY <2>2, <2>4, <3>2, DecodeRowsInverse
  <2> QED  BY <2>3, <2>4 DEF IsMessage
<1>6. ASSUME NEW n \in 0 .. Len(w) PROVE read_message(SubSeq(w, 1, n)) \in {m, Lost}
  <2>1. CASE n = Len(w)
    <3>1. SubSeq(w, 1, n) = w
      BY <1>1, <2>1, SubSeqFull
    <3> QED  BY <1>5, <3>1
  <2>2. CASE n # Len(w)
    <3>1. n \in Nat /\ 1 \in Nat /\ 1 >= 1 /\ n <= Len(w) /\ n >= 1 - 1 /\ n < 2 + l
      BY <1>3, <2>2
    <3>2. PICK u : u = SubSeq(w, 1, n)
      OBVIOUS
    <3>3. u \in Seq(Int) /\ Len(u) = n - 1 + 1 /\ \A j \in 1 .. n - 1 + 1 : u[j] = w[1 + j - 1]
      BY <1>1, <3>1, <3>2, SubSeqAt
    <3>4. Len(u) = n
      BY <3>1, <3>3
    <3>5. CASE n < 2
      <4>1. Len(u) < 2
        BY <3>4, <3>5
      <4>2. read_message(u) = Lost
        BY <4>1, Zenon DEF read_message
      <4> QED  BY <3>2, <4>2
    <3>6. CASE n >= 2
      <4>1. u[1] = w[1]
        <5>1. 1 \in 1 .. n - 1 + 1 /\ 1 + 1 - 1 = 1
          BY <3>6
        <5> QED  BY <3>3, <5>1
      <4>2. Len(u) < 1 + u[1]
        BY <1>3, <3>1, <3>4, <4>1
      <4>3. read_message(u) = Lost
        BY <4>2, Zenon DEF read_message
      <4> QED  BY <3>2, <4>3
    <3> QED  BY <3>1, <3>5, <3>6
  <2> QED  BY <2>1, <2>2
<1> QED  BY <1>5, <1>6 DEF w

-----------------------------------------------------------------------------
(***************************************************************************)
(* What cells take of a page.                                              *)
(***************************************************************************)
Cell == [key : Int, row : Seq(Int)]

\* What one cell takes: two words for its slot, one for its key, and its row.
LEMMA CellCost ==
  ASSUME NEW c \in Cell
  PROVE  c.key \in Int /\ c.row \in Seq(Int) /\ Len(c.row) \in Nat /\ Cost(c) = 3 + Len(c.row) /\ Cost(c) \in Nat
<1>1. c.key \in Int /\ c.row \in Seq(Int)
  BY DEF Cell
<1>2. Len(c.row) \in Nat
  BY <1>1, LenProperties
<1>3. PICK l \in Nat : l = Len(c.row)
  BY <1>2
<1>4. Cost(c) = 3 + l /\ 3 + l \in Nat
  BY <1>3 DEF Cost, SlotSize, KeySize
<1> QED  BY <1>1, <1>3, <1>4

\* The recursive function of CostOf.
CostStep(cells, f, i) == IF i = 0 THEN 0 ELSE f[i - 1] + Cost(cells[i])

\* CostOf, one cell at a time.
LEMMA CostUnfold ==
  ASSUME NEW cells, NEW n, \E g : g = [i \in 0 .. n |-> CostStep(cells, g, i)]
  PROVE  \E f : f = [i \in 0 .. n |-> CostStep(cells, f, i)] /\ CostOf(cells, n) = f[n]
<1> DEFINE F == CHOOSE f : f = [i \in 0 .. n |-> CostStep(cells, f, i)]
<1>1. F = [i \in 0 .. n |-> CostStep(cells, F, i)]
  BY Zenon
<1>2. CostOf(cells, n) = F[n]
  BY Zenon DEF CostOf, CostStep
<1> QED  BY <1>1, <1>2, Zenon

\* The equations of CostOf.
LEMMA CostEquations ==
  ASSUME NEW cells \in Seq(Cell)
  PROVE  /\ CostOf(cells, 0) = 0
         /\ \A i \in 0 .. Len(cells) : CostOf(cells, i) \in Nat
         /\ \A i \in 1 .. Len(cells) : CostOf(cells, i) = CostOf(cells, i - 1) + Cost(cells[i])
<1> DEFINE n == Len(cells)
           C == [i \in 1 .. n |-> Cost(cells[i])]
           G == [x \in (1 .. n) \X Nat |-> x[2] + C[x[1]]]
<1>0. n \in Nat
  OBVIOUS
<1>1. \A i \in 1 .. n : Cost(cells[i]) \in Nat
  BY CellCost
<1> HIDE DEF n
<1>2. C \in [1 .. n -> Nat] /\ \A i \in 1 .. n : C[i] = Cost(cells[i])
  BY <1>1
<1> HIDE DEF C
<1>3. G \in [(1 .. n) \X Nat -> Nat] /\ \A i \in 1 .. n : \A y \in Nat : G[<<i, y>>] = y + C[i]
  <2>1. \A x \in (1 .. n) \X Nat : x[2] + C[x[1]] \in Nat
    BY <1>2
  <2>2. ASSUME NEW i \in 1 .. n, NEW y \in Nat PROVE G[<<i, y>>] = y + C[i]
    <3>1. <<i, y>> \in (1 .. n) \X Nat
      OBVIOUS
    <3> QED  BY <3>1
  <2> QED  BY <2>1, <2>2
<1> HIDE DEF G
<1>4. PICK s \in [0 .. n -> Nat] : s[0] = 0 /\ \A i \in 1 .. n : s[i] = G[<<i, s[i - 1]>>]
  <2>1. PICK m : m = 0
    OBVIOUS
  <2>2. m \in Int /\ n \in Int /\ m <= n /\ m + 1 = 1 /\ m \in Nat
    BY <1>0, <2>1
  <2>3. G \in [(m + 1 .. n) \X Nat -> Nat]
    BY <1>3, <2>2
  <2>4. Recursive(m, n, Nat, m, G)
    BY <2>2, <2>3, Recursion
  <2> QED  BY <2>1, <2>2, <2>4 DEF Recursive, Follows
<1>5. \A i \in 1 .. n : s[i] = s[i - 1] + Cost(cells[i])
  <2> SUFFICES ASSUME NEW i \in 1 .. n PROVE s[i] = s[i - 1] + Cost(cells[i])
    OBVIOUS
  <2>1. s[i - 1] \in Nat
    BY <1>0, <1>4
  <2> QED  BY <1>2, <1>3, <1>4, <2>1
<1>6. ASSUME NEW k \in 0 .. n PROVE CostOf(cells, k) = s[k]
  <2> DEFINE g == [i \in 0 .. k |-> s[i]]
  <2>1. \A i \in 0 .. k : g[i] = CostStep(cells, g, i)
    <3> SUFFICES ASSUME NEW i \in 0 .. k PROVE g[i] = CostStep(cells, g, i)
      OBVIOUS
    <3>1. CASE i = 0
      BY <1>4, <3>1 DEF CostStep
    <3>2. CASE i # 0
      <4>1. i \in 1 .. n /\ i - 1 \in 0 .. k
        BY <1>0, <3>2
      <4>2. g[i] = s[i] /\ g[i - 1] = s[i - 1]
        BY <4>1
      <4> HIDE DEF g
      <4> QED  BY <1>5, <3>2, <4>1, <4>2 DEF CostStep
    <3> QED  BY <3>1, <3>2
  <2>2. \E f : f = [i \in 0 .. k |-> CostStep(cells, f, i)]
    BY <2>1
  <2>3. PICK f : f = [i \in 0 .. k |-> CostStep(cells, f, i)] /\ CostOf(cells, k) = f[k]
    BY <2>2, CostUnfold
  <2> DEFINE T == {i \in 0 .. k : f[i] = s[i]}
  <2>4. 0 \in T
    <3>0. \A i \in 0 .. k : f[i] = CostStep(cells, f, i)
      BY <2>3
    <3>1. 0 \in 0 .. k /\ f[0] = CostStep(cells, f, 0)
      BY <1>0, <3>0
    <3> QED  BY <1>4, <3>1 DEF CostStep
  <2>5. ASSUME NEW i \in 0 .. k - 1, i \in T PROVE i + 1 \in T
    <3>1. i + 1 \in 0 .. k /\ i + 1 # 0 /\ (i + 1) - 1 = i /\ f[i] = s[i] /\ i + 1 \in 1 .. n
      BY <1>0, <2>5
    <3>2. f[i + 1] = f[i] + Cost(cells[i + 1])
      BY <2>3, <3>1 DEF CostStep
    <3> QED  BY <1>5, <3>1, <3>2
  <2> HIDE DEF T
  <2>6. 0 \in Int /\ k \in Int
    BY <1>0
  <2>7. 0 .. k \subseteq T
    BY <2>4, <2>5, <2>6, Induction, Zenon
  <2>8. k \in 0 .. k
    BY <1>0
  <2> QED  BY <2>3, <2>7, <2>8 DEF T
<1>7. 0 \in 0 .. n /\ \A i \in 1 .. n : i \in 0 .. n /\ i - 1 \in 0 .. n
  BY <1>0
<1> QED  BY <1>4, <1>5, <1>6, <1>7 DEF n

\* What the first cells take depends on those cells only.
LEMMA CostPrefix ==
  ASSUME NEW c \in Seq(Cell), NEW d \in Seq(Cell), NEW n \in Nat, n <= Len(c), n <= Len(d),
         \A i \in 1 .. n : c[i] = d[i]
  PROVE  CostOf(c, n) = CostOf(d, n)
<1>1. /\ CostOf(c, 0) = 0 /\ CostOf(d, 0) = 0
      /\ \A i \in 1 .. n : CostOf(c, i) = CostOf(c, i - 1) + Cost(c[i])
      /\ \A i \in 1 .. n : CostOf(d, i) = CostOf(d, i - 1) + Cost(d[i])
  <2>1. \A i \in 1 .. n : i \in 1 .. Len(c) /\ i \in 1 .. Len(d)
    OBVIOUS
  <2> QED  BY <2>1, CostEquations
<1>2. \A i \in 1 .. n : c[i] = d[i]
  OBVIOUS
<1> DEFINE T == {i \in 0 .. n : CostOf(c, i) = CostOf(d, i)}
<1>3. 0 \in T
  BY <1>1
<1>4. ASSUME NEW i \in 0 .. n - 1, i \in T PROVE i + 1 \in T
  <2>1. i + 1 \in 0 .. n /\ (i + 1) - 1 = i /\ i + 1 \in 1 .. n /\ CostOf(c, i) = CostOf(d, i)
    BY <1>4
  <2> QED  BY <1>1, <1>2, <2>1
<1> HIDE DEF T
<1>5. 0 \in Int /\ n \in Int
  OBVIOUS
<1>6. 0 .. n \subseteq T
  BY <1>3, <1>4, <1>5, Induction, Zenon
<1> QED  BY <1>6 DEF T

\* More cells take no less.
LEMMA CostMonotone ==
  ASSUME NEW c \in Seq(Cell), NEW i \in 0 .. Len(c), NEW j \in i .. Len(c)
  PROVE  CostOf(c, i) <= CostOf(c, j)
<1> DEFINE n == Len(c)
           T == {k \in i .. n : CostOf(c, i) <= CostOf(c, k)}
<1>1. n \in Nat /\ \A k \in 1 .. n : Cost(c[k]) \in Nat
  BY CellCost
<1>2. /\ \A k \in 0 .. n : CostOf(c, k) \in Nat
      /\ \A k \in 1 .. n : CostOf(c, k) = CostOf(c, k - 1) + Cost(c[k])
  BY CostEquations
<1>i. i \in 0 .. n /\ j \in i .. n
  OBVIOUS
<1> HIDE DEF n
<1>3. i \in T
  BY <1>1, <1>2, <1>i
<1>4. ASSUME NEW k \in i .. n - 1, k \in T PROVE k + 1 \in T
  <2>1. k + 1 \in i .. n /\ (k + 1) - 1 = k /\ k + 1 \in 1 .. n /\ CostOf(c, i) <= CostOf(c, k) /\ k \in 0 .. n
    BY <1>1, <1>i, <1>4
  <2>2. CostOf(c, k + 1) = CostOf(c, k) + Cost(c[k + 1]) /\ Cost(c[k + 1]) \in Nat
    BY <1>1, <1>2, <2>1
  <2>3. CostOf(c, i) \in Nat /\ CostOf(c, k) \in Nat
    BY <1>2, <1>i, <2>1
  <2> QED  BY <2>1, <2>2, <2>3
<1> HIDE DEF T
<1>5. i \in Int /\ n \in Int
  BY <1>1, <1>i
<1>6. i .. n \subseteq T
  BY <1>3, <1>4, <1>5, Induction, Zenon
<1> QED  BY <1>i, <1>6 DEF T

\* A cell more takes as much more as the cell takes.
LEMMA CostInsert ==
  ASSUME NEW c \in Seq(Cell), NEW e \in Cell, NEW pos \in 1 .. Len(c) + 1,
         NEW d \in Seq(Cell), InsertedAt(d, c, pos, e)
  PROVE  CostOf(d, Len(d)) = CostOf(c, Len(c)) + Cost(e)
<1> DEFINE n == Len(c)
<1>1. n \in Nat /\ pos \in 1 .. n + 1
  OBVIOUS
<1>2. /\ Len(d) = n + 1 /\ d[pos] = e
      /\ \A j \in 1 .. pos - 1 : d[j] = c[j]
      /\ \A j \in pos + 1 .. n + 1 : d[j] = c[j - 1]
  BY DEF InsertedAt
<1>3. /\ \A k \in 0 .. n : CostOf(c, k) \in Nat
      /\ \A k \in 1 .. n : CostOf(c, k) = CostOf(c, k - 1) + Cost(c[k])
  BY CostEquations
<1>4. \A k \in 1 .. Len(d) : CostOf(d, k) = CostOf(d, k - 1) + Cost(d[k])
  BY CostEquations
<1>c. n = Len(c) /\ Cost(e) \in Nat
  BY CellCost
<1> HIDE DEF n
<1>5. CostOf(d, pos - 1) = CostOf(c, pos - 1)
  <2>1. pos - 1 \in Nat /\ pos - 1 <= Len(c) /\ pos - 1 <= Len(d)
    BY <1>1, <1>2, <1>c
  <2> QED  BY <1>2, <2>1, CostPrefix
<1> DEFINE T == {k \in pos - 1 .. n : CostOf(d, k + 1) = CostOf(c, k) + Cost(e)}
<1>6. pos - 1 \in T
  <2>1. pos - 1 \in pos - 1 .. n /\ (pos - 1) + 1 = pos /\ pos \in 1 .. Len(d)
    BY <1>1, <1>2
  <2>2. CostOf(d, pos) = CostOf(d, pos - 1) + Cost(d[pos])
    BY <1>4, <2>1
  <2> QED  BY <1>2, <1>5, <2>1, <2>2
<1>7. ASSUME NEW k \in pos - 1 .. n - 1, k \in T PROVE k + 1 \in T
  <2>1. /\ k + 1 \in pos - 1 .. n /\ (k + 1) - 1 = k /\ k + 1 \in 1 .. n /\ k \in 0 .. n
        /\ (k + 1) + 1 \in 1 .. Len(d) /\ ((k + 1) + 1) - 1 = k + 1
        /\ (k + 1) + 1 \in pos + 1 .. n + 1
    BY <1>1, <1>2, <1>7
  <2>2. CostOf(d, k + 1) = CostOf(c, k) + Cost(e)
    BY <1>7
  <2>3. CostOf(d, (k + 1) + 1) = CostOf(d, k + 1) + Cost(d[(k + 1) + 1])
    BY <1>4, <2>1
  <2>4. d[(k + 1) + 1] = c[k + 1]
    BY <1>2, <2>1, SMTT(30)
  <2>5. CostOf(c, k + 1) = CostOf(c, k) + Cost(c[k + 1])
    BY <1>3, <2>1
  <2>6. CostOf(c, k) \in Nat /\ Cost(c[k + 1]) \in Nat
    <3>1. c[k + 1] \in Cell
      BY <1>c, <2>1
    <3> QED  BY <1>3, <2>1, <3>1, CellCost
  <2>7. CostOf(d, (k + 1) + 1) = CostOf(c, k + 1) + Cost(e)
    BY <1>c, <2>2, <2>3, <2>4, <2>5, <2>6
  <2> QED  BY <2>1, <2>7
<1> HIDE DEF T
<1>8. pos - 1 \in Int /\ n \in Int
  BY <1>1
<1>9. pos - 1 .. n \subseteq T
  BY <1>6, <1>7, <1>8, Induction, Zenon
<1>10. n \in T
  BY <1>1, <1>9
<1> QED  BY <1>2, <1>10, <1>c DEF T

-----------------------------------------------------------------------------
(***************************************************************************)
(* The slotted page.                                                       *)
(***************************************************************************)
PageWords == [1 .. PageSize -> Int]

\* The slots of the n = page[1] cells, two words each from the fourth on, are below
\* the words of the cells, which are below the end of the page and do not overlap.
SlotsFit(page) ==
  /\ page[1] \in Nat /\ 2 * page[1] + 4 <= page[3] /\ page[3] <= PageSize + 1
  /\ \A i \in 1 .. page[1] : /\ page[2 * i + 3] >= 1 /\ page[3] <= page[2 * i + 2]
                             /\ page[2 * i + 2] + page[2 * i + 3] <= PageSize + 1
CellsDisjoint(page) ==
  \A i, j \in 1 .. page[1] : i # j =>
    \/ page[2 * i + 2] + page[2 * i + 3] <= page[2 * j + 2]
    \/ page[2 * j + 2] + page[2 * j + 3] <= page[2 * i + 2]
PageShape(page) == page \in PageWords /\ SlotsFit(page) /\ CellsDisjoint(page)

\* Cell i of the page is e.
HoldsCell(page, i, e) ==
  /\ page[2 * i + 3] = Len(e.row) + 1
  /\ page[page[2 * i + 2]] = e.key
  /\ \A j \in 1 .. Len(e.row) : page[page[2 * i + 2] + j] = e.row[j]

\* Where a slot is, written out.
LEMMA SlotOffsetIs == \A i \in Int : SlotOffset(i) = 2 * i + 2
BY DEF SlotOffset, HeaderSize, SlotSize

\* The size of a page, of the assumption.
LEMMA PageSizeIs == PageSize \in Nat /\ PageSize > 3
BY QueryAssumption

\* A page is a sequence of words.
LEMMA PageIsSeq ==
  ASSUME NEW page \in PageWords
  PROVE  page \in Seq(Int) /\ Len(page) = PageSize /\ DOMAIN page = 1 .. PageSize
BY PageSizeIs DEF PageWords

\* The cells that are collected are the cells that the page holds.
LEMMA CollectProperties ==
  ASSUME NEW page, PageShape(page)
  PROVE  /\ collect_leaf_cells(page) \in Seq(Cell) /\ Len(collect_leaf_cells(page)) = page[1]
         /\ \A i \in 1 .. page[1] : HoldsCell(page, i, collect_leaf_cells(page)[i])
         /\ \A i \in 1 .. page[1] : CellRow(page, i) = collect_leaf_cells(page)[i].row
<1> DEFINE n == page[1]
           cells == collect_leaf_cells(page)
<1>1. page \in PageWords /\ n \in Nat
  BY DEF PageShape, SlotsFit
<1>2. page \in Seq(Int) /\ Len(page) = PageSize /\ PageSize \in Nat
  BY <1>1, PageIsSeq, PageSizeIs
<1>3. cells = [i \in 1 .. n |-> [key |-> CellKey(page, i), row |-> CellRow(page, i)]]
  BY DEF collect_leaf_cells, NumCells
<1>f. SlotsFit(page)
  BY DEF PageShape
<1> HIDE DEF n, cells
<1>4. ASSUME NEW i \in 1 .. n
      PROVE  [key |-> CellKey(page, i), row |-> CellRow(page, i)] \in Cell /\ HoldsCell(page, i, cells[i])
  <2>1. PICK o : o = page[2 * i + 2]
    OBVIOUS
  <2>2. PICK l : l = page[2 * i + 3]
    OBVIOUS
  <2>3. 2 * i + 2 \in 1 .. PageSize /\ 2 * i + 3 \in 1 .. PageSize /\ page[3] \in Nat /\ page[3] >= 6
    <3>1. page[3] \in Int
      <4>1. 3 \in 1 .. PageSize
        BY PageSizeIs
      <4> QED  BY <1>1, <4>1 DEF PageWords
    <3>2. 2 * n + 4 <= page[3] /\ page[3] <= PageSize + 1
      BY <1>f DEF SlotsFit, n
    <3> QED  BY <1>1, <1>2, <3>1, <3>2
  <2>4. o \in Int /\ l \in Int
    BY <1>1, <2>1, <2>2, <2>3 DEF PageWords
  <2>5. l >= 1 /\ page[3] <= o /\ o + l <= PageSize + 1
    BY <1>f, <2>1, <2>2 DEF SlotsFit, n
  <2>6. Slot(page, i).off = o /\ Slot(page, i).len = l
    <3>1. SlotOffset(i) = 2 * i + 2 /\ SlotOffset(i) + 1 = 2 * i + 3
      BY SlotOffsetIs
    <3> QED  BY <2>1, <2>2, <3>1 DEF Slot
  <2>7. CellKey(page, i) = page[o]
    BY <2>6 DEF CellKey
  <2>8. CellRow(page, i) = SubSeq(page, o + 1, o + (l - 1))
    BY <2>6 DEF CellRow, KeySize
  <2>9. o \in Nat /\ o >= 1 /\ o + 1 \in Nat /\ o + (l - 1) \in Nat /\ o + 1 >= 1 /\ o + (l - 1) <= Len(page)
        /\ o + (l - 1) >= (o + 1) - 1 /\ o \in 1 .. PageSize
    BY <1>2, <2>3, <2>4, <2>5
  <2>10. PICK u : u = CellRow(page, i)
    OBVIOUS
  <2>11. /\ u \in Seq(Int) /\ Len(u) = (o + (l - 1)) - (o + 1) + 1
         /\ \A j \in 1 .. (o + (l - 1)) - (o + 1) + 1 : u[j] = page[(o + 1) + j - 1]
    BY <1>2, <2>8, <2>9, <2>10, SubSeqAt
  <2>12. Len(u) = l - 1
    BY <2>4, <2>11
  <2>13. ASSUME NEW j \in 1 .. l - 1 PROVE page[o + j] = u[j]
    <3>1. j \in 1 .. (o + (l - 1)) - (o + 1) + 1 /\ (o + 1) + j - 1 = o + j
      BY <2>4
    <3> QED  BY <2>11, <3>1
  <2>14. page[o] \in Int
    BY <1>1, <2>9 DEF PageWords
  <2>15. cells[i] = [key |-> page[o], row |-> u]
    BY <1>3, <2>7, <2>10
  <2>16. l = (l - 1) + 1
    BY <2>4
  <2>17. HoldsCell(page, i, cells[i])
    BY <2>1, <2>2, <2>12, <2>13, <2>15, <2>16 DEF HoldsCell
  <2> QED  BY <2>7, <2>10, <2>11, <2>14, <2>17 DEF Cell
<1>5. cells \in Seq(Cell) /\ Len(cells) = n
  BY <1>1, <1>3, <1>4
<1>6. \A i \in 1 .. n : CellRow(page, i) = cells[i].row
  BY <1>3
<1> QED  BY <1>4, <1>5, <1>6 DEF n, cells

\* A page holds one cell under a number.
LEMMA HoldsCellUnique ==
  ASSUME NEW page, NEW i, NEW d \in Cell, NEW e \in Cell, HoldsCell(page, i, d), HoldsCell(page, i, e)
  PROVE  d = e
<1>1. /\ d.row \in Seq(Int) /\ e.row \in Seq(Int) /\ Len(d.row) \in Nat /\ Len(e.row) \in Nat
  BY CellCost
<1>2. Len(d.row) + 1 = Len(e.row) + 1
  BY DEF HoldsCell
<1>3. Len(d.row) = Len(e.row)
  BY <1>1, <1>2
<1>4. \A j \in 1 .. Len(d.row) : d.row[j] = e.row[j]
  BY <1>3 DEF HoldsCell
<1>5. d.row = e.row
  BY <1>1, <1>3, <1>4, SeqEqual
<1>6. d.key = e.key
  BY DEF HoldsCell
<1> QED  BY <1>5, <1>6 DEF Cell

\* Store changes the words it is told to.
LEMMA StoreProperties ==
  ASSUME NEW page \in PageWords, NEW words \in Seq(Int), NEW off \in Nat,
         off >= 1, off + Len(words) <= PageSize + 1
  PROVE  /\ Store(page, off, words) \in PageWords
         /\ \A j \in 1 .. Len(words) : Store(page, off, words)[off + j - 1] = words[j]
         /\ \A w \in 1 .. PageSize : w < off \/ w >= off + Len(words) =>
              Store(page, off, words)[w] = page[w]
<1>1. PICK l \in Nat : l = Len(words)
  OBVIOUS
<1>2. DOMAIN page = 1 .. PageSize /\ PageSize \in Nat /\ \A w \in 1 .. PageSize : page[w] \in Int
  BY PageSizeIs DEF PageWords
<1>3. \A j \in 1 .. l : words[j] \in Int
  BY <1>1
<1> DEFINE q == Store(page, off, words)
<1>4. q = [w \in 1 .. PageSize |-> IF w \in off .. off + (l - 1) THEN words[(w - off) + 1] ELSE page[w]]
  BY <1>1, <1>2 DEF Store
<1> HIDE DEF q
<1>5. off + l <= PageSize + 1
  BY <1>1
<1>6. ASSUME NEW j \in 1 .. l PROVE q[off + j - 1] = words[j] /\ q[off + j - 1] \in Int
  <2>1. off + (j - 1) \in off .. off + (l - 1) /\ off + (j - 1) \in 1 .. PageSize /\ (off + (j - 1) - off) + 1 = j
    BY <1>2, <1>5
  <2>2. PICK w : w = off + (j - 1)
    OBVIOUS
  <2>3. w \in off .. off + (l - 1) /\ w \in 1 .. PageSize /\ (w - off) + 1 = j
    BY <2>1, <2>2
  <2>4. q[w] = words[j]
    BY <1>4, <2>3
  <2> QED  BY <1>3, <2>2, <2>4
<1>7. ASSUME NEW w \in 1 .. PageSize, w < off \/ w >= off + l PROVE q[w] = page[w]
  <2>1. w \notin off .. off + (l - 1)
    BY <1>7
  <2> QED  BY <1>4, <2>1
<1>8. ASSUME NEW w \in 1 .. PageSize PROVE q[w] \in Int
  <2>1. CASE w < off \/ w >= off + l
    BY <1>2, <1>7, <2>1
  <2>2. CASE ~ (w < off \/ w >= off + l)
    <3>1. PICK j \in 1 .. l : w = off + (j - 1)
      <4>1. (w - off) + 1 \in 1 .. l /\ w = off + (((w - off) + 1) - 1)
        BY <2>2
      <4> QED  BY <4>1
    <3> QED  BY <1>6, <3>1
  <2> QED  BY <2>1, <2>2
<1>9. q \in PageWords
  BY <1>4, <1>8 DEF PageWords
<1> QED  BY <1>1, <1>6, <1>7, <1>9 DEF q

\* There is room on the page for the cell.
RoomFor(page, cell) == 2 * page[1] + 6 + Len(cell.row) + 1 <= page[3]

\* The words of a page after PutCell.
PutWords(q, page, pos, cell) ==
  /\ q \in PageWords
  /\ q[1] = page[1] + 1 /\ q[2] = page[2] /\ q[3] = page[3] - (Len(cell.row) + 1)
  /\ q[2 * pos + 2] = page[3] - (Len(cell.row) + 1) /\ q[2 * pos + 3] = Len(cell.row) + 1
  /\ \A w \in 4 .. 2 * pos + 1 : q[w] = page[w]
  /\ \A w \in 2 * pos + 2 .. 2 * page[1] + 3 : q[w + 2] = page[w]
  /\ q[page[3] - (Len(cell.row) + 1)] = cell.key
  /\ \A j \in 1 .. Len(cell.row) : q[(page[3] - (Len(cell.row) + 1)) + j] = cell.row[j]
  /\ \A w \in page[3] .. PageSize : q[w] = page[w]

\* The words of the page, each of them, after PutCell.
LEMMA PutCellWords ==
  ASSUME NEW page, PageShape(page), NEW pos \in 1 .. page[1] + 1, NEW cell \in Cell, RoomFor(page, cell)
  PROVE  PutWords(PutCell(page, pos, cell), page, pos, cell)
<1>1. PICK n, ds, l, P : n = page[1] /\ ds = page[3] /\ l = Len(cell.row) /\ P = PageSize
  OBVIOUS
<1>2. /\ page \in PageWords /\ n \in Nat /\ ds \in Int /\ l \in Nat /\ P \in Nat /\ P > 3
      /\ 2 * n + 4 <= ds /\ ds <= P + 1 /\ 2 * n + 6 + l + 1 <= ds /\ pos \in 1 .. n + 1
  <2>1. page \in PageWords /\ n \in Nat /\ 2 * n + 4 <= ds /\ ds <= P + 1
    BY <1>1 DEF PageShape, SlotsFit
  <2>2. ds \in Int
    <3>1. 3 \in 1 .. PageSize
      BY PageSizeIs
    <3> QED  BY <1>1, <2>1, <3>1 DEF PageWords
  <2> QED  BY <1>1, <2>1, <2>2, CellCost, PageSizeIs DEF RoomFor
<1>w. page[2] \in Int /\ cell.key \in Int /\ cell.row \in Seq(Int)
  <2>1. 2 \in 1 .. PageSize
    BY PageSizeIs
  <2> QED  BY <1>2, <2>1, CellCost DEF PageWords
<1>a. n \in Nat /\ ds \in Int /\ l \in Nat /\ P \in Nat
  BY <1>2
<1>b. 2 * n + 6 + l + 1 <= ds /\ ds <= P + 1 /\ pos \in 1 .. n + 1
  BY <1>2
<1> DEFINE start == ds - (l + 1)
           slots == SubSeq(page, 2 * pos + 2, (2 * n + 4) - 1)
           moved == Store(page, 2 * pos + 4, slots)
           words == <<cell.key>> \o cell.row
           filled == Store(moved, start, words)
           slot == <<start, l + 1>>
           linked == Store(filled, 2 * pos + 2, slot)
           header == <<n + 1, page[2], start>>
           q == Store(linked, 1, header)
<1>3. PutCell(page, pos, cell) = q
  <2>1. /\ SlotOffset(pos + 1) = 2 * pos + 4 /\ SlotOffset(pos) = 2 * pos + 2
        /\ SlotOffset(n + 1) - 1 = (2 * n + 4) - 1
    <3>1. pos + 1 \in Int /\ pos \in Int /\ n + 1 \in Int
      BY <1>a, <1>b
    <3>2. 2 * (pos + 1) + 2 = 2 * pos + 4 /\ 2 * (n + 1) + 2 = 2 * n + 4
      BY <1>a, <1>b
    <3> QED  BY <3>1, <3>2, SlotOffsetIs
  <2>2. NumCells(page) = n /\ NextLeaf(page) = page[2] /\ DataStart(page) = ds /\ KeySize + Len(cell.row) = l + 1
    BY <1>1, <1>a DEF NumCells, NextLeaf, DataStart, KeySize
  <2> QED  BY <2>1, <2>2, Zenon DEF PutCell
<1>4. start \in Nat /\ start >= 2 * n + 6 /\ start + l + 1 = ds
  BY <1>a, <1>b
<1>5. slots \in Seq(Int) /\ Len(slots) = (2 * n + 4) - (2 * pos + 2)
      /\ \A j \in 1 .. (2 * n + 4) - (2 * pos + 2) : slots[j] = page[(2 * pos + 2) + j - 1]
  <2>1. 2 * pos + 2 \in Nat /\ (2 * n + 4) - 1 \in Nat /\ 2 * pos + 2 >= 1 /\ (2 * n + 4) - 1 <= P
        /\ (2 * n + 4) - 1 >= (2 * pos + 2) - 1
    BY <1>a, <1>b
  <2>2. page \in Seq(Int) /\ Len(page) = P
    BY <1>1, <1>2, PageIsSeq
  <2>3. /\ slots \in Seq(Int) /\ Len(slots) = ((2 * n + 4) - 1) - (2 * pos + 2) + 1
        /\ \A j \in 1 .. ((2 * n + 4) - 1) - (2 * pos + 2) + 1 : slots[j] = page[(2 * pos + 2) + j - 1]
    BY <2>1, <2>2, SubSeqAt
  <2>4. ((2 * n + 4) - 1) - (2 * pos + 2) + 1 = (2 * n + 4) - (2 * pos + 2)
    BY <1>a, <1>b
  <2> QED  BY <2>3, <2>4
<1> HIDE DEF slots
<1>6. /\ moved \in PageWords
      /\ \A w \in 2 * pos + 2 .. 2 * n + 3 : moved[w + 2] = page[w]
      /\ \A w \in 1 .. P : w < 2 * pos + 4 \/ w >= 2 * n + 6 => moved[w] = page[w]
  <2>1. PICK k, o : k = (2 * n + 4) - (2 * pos + 2) /\ o = 2 * pos + 4
    OBVIOUS
  <2>2. k \in Nat /\ o \in Nat /\ o >= 1 /\ o + k = 2 * n + 6 /\ o + k <= P + 1
    BY <1>a, <1>b, <2>1
  <2>3. Len(slots) = k
    BY <1>5, <2>1
  <2>4. o + Len(slots) <= PageSize + 1
    BY <1>1, <2>2, <2>3
  <2>5. /\ Store(page, o, slots) \in PageWords
        /\ \A j \in 1 .. Len(slots) : Store(page, o, slots)[o + j - 1] = slots[j]
        /\ \A w \in 1 .. PageSize : w < o \/ w >= o + Len(slots) => Store(page, o, slots)[w] = page[w]
    BY <1>2, <1>5, <2>2, <2>4, StoreProperties
  <2>6. moved = Store(page, o, slots)
    BY <2>1
  <2> HIDE DEF moved
  <2>7. ASSUME NEW w \in 2 * pos + 2 .. 2 * n + 3 PROVE moved[w + 2] = page[w]
    <3>1. PICK j : j = w - (2 * pos + 2) + 1
      OBVIOUS
    <3>2. j \in 1 .. k /\ o + j - 1 = w + 2 /\ (2 * pos + 2) + j - 1 = w
      BY <1>a, <1>b, <2>1, <3>1
    <3>3. moved[o + j - 1] = slots[j]
      BY <2>3, <2>5, <2>6, <3>2
    <3>4. slots[j] = page[(2 * pos + 2) + j - 1]
      BY <1>5, <2>1, <3>2
    <3> QED  BY <3>2, <3>3, <3>4
  <2> QED  BY <1>1, <2>1, <2>2, <2>3, <2>5, <2>6, <2>7
<1>7. words \in Seq(Int) /\ Len(words) = l + 1 /\ words[1] = cell.key
      /\ \A j \in 1 .. l : words[1 + j] = cell.row[j]
  <2> DEFINE a == <<cell.key>>
  <2>1. a \in Seq(Int) /\ Len(a) = 1 /\ a[1] = cell.key
    BY <1>w
  <2> HIDE DEF a
  <2>2. /\ a \o cell.row \in Seq(Int) /\ Len(a \o cell.row) = Len(a) + Len(cell.row)
        /\ \A j \in 1 .. Len(a) : (a \o cell.row)[j] = a[j]
        /\ \A j \in 1 .. Len(cell.row) : (a \o cell.row)[Len(a) + j] = cell.row[j]
    <3>1. a \in Seq(Int) /\ cell.row \in Seq(Int)
      BY <1>w, <2>1
    <3> QED  BY <3>1, ConcatAt
  <2>3. words = a \o cell.row
    BY DEF a
  <2> HIDE DEF words
  <2>4. Len(words) = l + 1
    BY <1>1, <1>a, <2>1, <2>2, <2>3
  <2>5. words[1] = a[1]
    <3>1. 1 \in 1 .. Len(a)
      BY <2>1
    <3> QED  BY <2>2, <2>3, <3>1
  <2>6. \A j \in 1 .. l : words[1 + j] = cell.row[j]
    BY <1>1, <2>1, <2>2, <2>3
  <2> QED  BY <2>1, <2>2, <2>3, <2>4, <2>5, <2>6
<1> HIDE DEF words, moved, start
<1>8. /\ filled \in PageWords
      /\ filled[start] = cell.key /\ \A j \in 1 .. l : filled[start + j] = cell.row[j]
      /\ \A w \in 1 .. P : w < start \/ w >= ds => filled[w] = moved[w]
  <2>1. start \in Nat /\ start >= 1 /\ start + Len(words) = ds /\ start + Len(words) <= PageSize + 1
    BY <1>1, <1>a, <1>b, <1>4, <1>7
  <2>2. /\ filled \in PageWords
        /\ \A j \in 1 .. Len(words) : filled[start + j - 1] = words[j]
        /\ \A w \in 1 .. PageSize : w < start \/ w >= start + Len(words) => filled[w] = moved[w]
    BY <1>6, <1>7, <2>1, StoreProperties
  <2> HIDE DEF filled
  <2>3. filled[start] = words[1]
    <3>1. 1 \in 1 .. Len(words) /\ start + 1 - 1 = start
      BY <1>4, <1>7, <1>a
    <3> QED  BY <2>2, <3>1
  <2>4. ASSUME NEW j \in 1 .. l PROVE filled[start + j] = words[1 + j]
    <3>1. PICK i : i = 1 + j
      OBVIOUS
    <3>2. i \in 1 .. Len(words) /\ start + i - 1 = start + j
      BY <1>4, <1>7, <1>a, <3>1
    <3>3. filled[start + i - 1] = words[i]
      BY <2>2, <3>2
    <3> QED  BY <3>1, <3>2, <3>3
  <2> QED  BY <1>1, <1>7, <2>1, <2>2, <2>3, <2>4
<1> HIDE DEF filled
<1>9. /\ linked \in PageWords
      /\ linked[2 * pos + 2] = start /\ linked[2 * pos + 3] = l + 1
      /\ \A w \in 1 .. P : w < 2 * pos + 2 \/ w >= 2 * pos + 4 => linked[w] = filled[w]
  <2>1. slot \in Seq(Int) /\ Len(slot) = 2 /\ slot[1] = start /\ slot[2] = l + 1
    BY <1>4, <1>a
  <2> HIDE DEF slot
  <2>2. PICK o : o = 2 * pos + 2
    OBVIOUS
  <2>3. o \in Nat /\ o >= 1 /\ o + Len(slot) <= PageSize + 1 /\ o + Len(slot) = 2 * pos + 4
        /\ o + 1 - 1 = o /\ o + 2 - 1 = 2 * pos + 3
    <3>1. o \in Nat /\ o >= 1 /\ o + 2 <= P + 1 /\ o + 2 = 2 * pos + 4
          /\ o + 1 - 1 = o /\ o + 2 - 1 = 2 * pos + 3
      BY <1>a, <1>b, <2>2
    <3>2. Len(slot) = 2
      BY <2>1
    <3> QED  BY <1>1, <3>1, <3>2, Zenon
  <2>4. /\ Store(filled, o, slot) \in PageWords
        /\ \A j \in 1 .. Len(slot) : Store(filled, o, slot)[o + j - 1] = slot[j]
        /\ \A w \in 1 .. PageSize : w < o \/ w >= o + Len(slot) => Store(filled, o, slot)[w] = filled[w]
    BY <1>8, <2>1, <2>3, StoreProperties
  <2>5. linked = Store(filled, o, slot)
    BY <2>2
  <2> HIDE DEF linked
  <2>6. linked[o + 1 - 1] = slot[1] /\ linked[o + 2 - 1] = slot[2]
    <3>1. 1 \in 1 .. Len(slot) /\ 2 \in 1 .. Len(slot)
      BY <2>1
    <3> QED  BY <2>4, <2>5, <3>1
  <2> QED  BY <1>1, <2>1, <2>2, <2>3, <2>4, <2>5, <2>6
<1> HIDE DEF linked
<1>10. /\ q \in PageWords
       /\ q[1] = n + 1 /\ q[2] = page[2] /\ q[3] = start
       /\ \A w \in 1 .. P : w >= 4 => q[w] = linked[w]
  <2>1. header \in Seq(Int) /\ Len(header) = 3 /\ header[1] = n + 1 /\ header[2] = page[2] /\ header[3] = start
    BY <1>4, <1>a, <1>w
  <2> HIDE DEF header
  <2>2. 1 \in Nat /\ 1 >= 1 /\ 1 + Len(header) <= PageSize + 1 /\ 1 + Len(header) = 4
    BY <2>1, PageSizeIs
  <2>3. /\ q \in PageWords
        /\ \A j \in 1 .. Len(header) : q[1 + j - 1] = header[j]
        /\ \A w \in 1 .. PageSize : w < 1 \/ w >= 1 + Len(header) => q[w] = linked[w]
    BY <1>9, <2>1, <2>2, StoreProperties
  <2> HIDE DEF q
  <2>4. q[1] = header[1] /\ q[2] = header[2] /\ q[3] = header[3]
    <3>1. 1 \in 1 .. Len(header) /\ 2 \in 1 .. Len(header) /\ 3 \in 1 .. Len(header)
          /\ 1 + 1 - 1 = 1 /\ 1 + 2 - 1 = 2 /\ 1 + 3 - 1 = 3
      BY <2>1
    <3> QED  BY <2>3, <3>1
  <2> QED  BY <1>1, <2>1, <2>2, <2>3, <2>4
<1> HIDE DEF q
<1>11. \A w \in 1 .. P : w >= 4 /\ w < 2 * pos + 2 => q[w] = page[w]
  <2> SUFFICES ASSUME NEW w \in 1 .. P, w >= 4, w < 2 * pos + 2 PROVE q[w] = page[w]
    OBVIOUS
  <2>1. w < start /\ w < 2 * pos + 4
    BY <1>a, <1>b, <1>4
  <2> QED  BY <1>6, <1>8, <1>9, <1>10, <2>1
<1>12. \A w \in 2 * pos + 2 .. 2 * n + 3 : q[w + 2] = page[w]
  <2> SUFFICES ASSUME NEW w \in 2 * pos + 2 .. 2 * n + 3 PROVE q[w + 2] = page[w]
    OBVIOUS
  <2>1. w + 2 < start /\ w + 2 >= 2 * pos + 4 /\ w + 2 \in 1 .. P /\ w + 2 >= 4
    BY <1>a, <1>b, <1>4
  <2> QED  BY <1>6, <1>8, <1>9, <1>10, <2>1
<1>13. q[2 * pos + 2] = start /\ q[2 * pos + 3] = l + 1
  <2>1. 2 * pos + 2 \in 1 .. P /\ 2 * pos + 3 \in 1 .. P /\ 2 * pos + 2 >= 4 /\ 2 * pos + 3 >= 4
    BY <1>a, <1>b
  <2> QED  BY <1>9, <1>10, <2>1
<1>14. \A w \in 1 .. P : w >= start => q[w] = filled[w]
  <2> SUFFICES ASSUME NEW w \in 1 .. P, w >= start PROVE q[w] = filled[w]
    OBVIOUS
  <2>1. w >= 2 * pos + 4 /\ w >= 4
    BY <1>a, <1>b, <1>4
  <2> QED  BY <1>9, <1>10, <2>1
<1>15. q[start] = cell.key /\ \A j \in 1 .. l : q[start + j] = cell.row[j]
  <2>1. start \in 1 .. P /\ start >= start /\ \A j \in 1 .. l : start + j \in 1 .. P /\ start + j >= start
    BY <1>a, <1>b, <1>4
  <2> QED  BY <1>8, <1>14, <2>1
<1>16. \A w \in ds .. P : q[w] = page[w]
  <2> SUFFICES ASSUME NEW w \in ds .. P PROVE q[w] = page[w]
    OBVIOUS
  <2>1. w \in 1 .. P /\ w >= start /\ w >= 2 * n + 6
    BY <1>a, <1>b, <1>4
  <2> QED  BY <1>6, <1>8, <1>14, <2>1
<1>17. \A w \in 4 .. 2 * pos + 1 : q[w] = page[w]
  <2>1. \A w \in 4 .. 2 * pos + 1 : w \in 1 .. P /\ w >= 4 /\ w < 2 * pos + 2
    BY <1>a, <1>b
  <2> QED  BY <1>11, <2>1
<1>18. PutWords(q, page, pos, cell)
  BY <1>1, <1>10, <1>12, <1>13, <1>15, <1>16, <1>17 DEF PutWords, start
<1> QED  BY <1>3, <1>18

\* PutCell puts the cell among the others, which stay as they are.
LEMMA PutCellProperties ==
  ASSUME NEW page, PageShape(page), NEW pos \in 1 .. page[1] + 1, NEW cell \in Cell, RoomFor(page, cell)
  PROVE  /\ PageShape(PutCell(page, pos, cell))
         /\ InsertedAt(collect_leaf_cells(PutCell(page, pos, cell)), collect_leaf_cells(page), pos, cell)
         /\ PutCell(page, pos, cell)[1] = page[1] + 1
         /\ PutCell(page, pos, cell)[2] = page[2]
         /\ PutCell(page, pos, cell)[3] = page[3] - (Len(cell.row) + 1)
<1> DEFINE q == PutCell(page, pos, cell)
           c == collect_leaf_cells(page)
           d == collect_leaf_cells(q)
<1>1. PICK n, ds, l, P : n = page[1] /\ ds = page[3] /\ l = Len(cell.row) /\ P = PageSize
  OBVIOUS
<1>2. PutWords(q, page, pos, cell)
  BY PutCellWords
<1>3. /\ c \in Seq(Cell) /\ Len(c) = n
      /\ \A i \in 1 .. n : HoldsCell(page, i, c[i])
  BY <1>1, CollectProperties
<1> HIDE DEF q, c
<1>4. page \in PageWords /\ SlotsFit(page) /\ CellsDisjoint(page)
  BY DEF PageShape
<1>5. /\ n \in Nat /\ ds \in Int /\ l \in Nat /\ P \in Nat
      /\ 2 * n + 4 <= ds /\ ds <= P + 1 /\ 2 * n + 6 + l + 1 <= ds /\ pos \in 1 .. n + 1
  <2>1. n \in Nat /\ 2 * n + 4 <= ds /\ ds <= P + 1
    BY <1>1, <1>4 DEF SlotsFit
  <2>2. ds \in Int
    <3>1. 3 \in 1 .. PageSize
      BY PageSizeIs
    <3> QED  BY <1>1, <1>4, <3>1 DEF PageWords
  <2> QED  BY <1>1, <2>1, <2>2, CellCost, PageSizeIs DEF RoomFor
<1>6. PICK start \in Nat : start = ds - (l + 1) /\ start >= 2 * n + 6 /\ start + l + 1 = ds
  BY <1>5
<1>7. /\ q \in PageWords
      /\ q[1] = n + 1 /\ q[2] = page[2] /\ q[3] = start
      /\ q[2 * pos + 2] = start /\ q[2 * pos + 3] = l + 1
      /\ \A w \in 4 .. 2 * pos + 1 : q[w] = page[w]
      /\ \A w \in 2 * pos + 2 .. 2 * n + 3 : q[w + 2] = page[w]
      /\ q[start] = cell.key
      /\ \A j \in 1 .. l : q[start + j] = cell.row[j]
      /\ \A w \in ds .. P : q[w] = page[w]
  BY <1>1, <1>2, <1>6 DEF PutWords
\* The slots of the cells, old and new.
<1>8. ASSUME NEW i \in 1 .. pos - 1
      PROVE  i \in 1 .. n /\ q[2 * i + 2] = page[2 * i + 2] /\ q[2 * i + 3] = page[2 * i + 3]
  <2>1. i \in 1 .. n /\ 2 * i + 2 \in 4 .. 2 * pos + 1 /\ 2 * i + 3 \in 4 .. 2 * pos + 1
    BY <1>5
  <2> QED  BY <1>7, <2>1
<1>9. ASSUME NEW i \in pos + 1 .. n + 1
      PROVE  i - 1 \in 1 .. n /\ q[2 * i + 2] = page[2 * (i - 1) + 2] /\ q[2 * i + 3] = page[2 * (i - 1) + 3]
  <2>1. PICK k : k = i - 1
    OBVIOUS
  <2>2. /\ k \in 1 .. n /\ 2 * k + 2 \in 2 * pos + 2 .. 2 * n + 3 /\ 2 * k + 3 \in 2 * pos + 2 .. 2 * n + 3
        /\ 2 * i + 2 = (2 * k + 2) + 2 /\ 2 * i + 3 = (2 * k + 3) + 2
    BY <1>5, <2>1
  <2>3. q[(2 * k + 2) + 2] = page[2 * k + 2] /\ q[(2 * k + 3) + 2] = page[2 * k + 3]
    BY <1>7, <2>2
  <2> QED  BY <2>1, <2>2, <2>3
\* The number that a cell of q, other than the new one, had on the page.
<1> DEFINE was(i) == IF i < pos THEN i ELSE i - 1
<1>10. ASSUME NEW i \in 1 .. n + 1, i # pos
       PROVE  was(i) \in 1 .. n /\ q[2 * i + 2] = page[2 * was(i) + 2] /\ q[2 * i + 3] = page[2 * was(i) + 3]
  <2>1. CASE i < pos
    <3>1. i \in 1 .. pos - 1
      BY <1>5, <2>1
    <3> QED  BY <1>8, <2>1, <3>1
  <2>2. CASE ~ (i < pos)
    <3>1. i \in pos + 1 .. n + 1
      BY <1>5, <1>10, <2>2
    <3> QED  BY <1>9, <2>2, <3>1
  <2> QED  BY <2>1, <2>2
<1>11. \A i, j \in 1 .. n + 1 : i # pos /\ j # pos /\ i # j => was(i) # was(j)
  BY <1>5
<1>12. \A i \in 1 .. pos - 1 : was(i) = i
  BY <1>5
<1>13. \A i \in pos + 1 .. n + 1 : was(i) = i - 1
  BY <1>5
<1> HIDE DEF was
<1>14. \A k \in 1 .. n : /\ page[2 * k + 3] >= 1 /\ ds <= page[2 * k + 2]
                         /\ page[2 * k + 2] + page[2 * k + 3] <= P + 1
                         /\ page[2 * k + 2] \in Int /\ page[2 * k + 3] \in Int
  <2>1. \A k \in 1 .. n : 2 * k + 2 \in 1 .. PageSize /\ 2 * k + 3 \in 1 .. PageSize
    <3>1. \A k \in 1 .. n : 2 * k + 2 \in 1 .. P /\ 2 * k + 3 \in 1 .. P
      BY <1>5
    <3> QED  BY <1>1, <3>1, Zenon
  <2>2. \A k \in 1 .. n : page[2 * k + 2] \in Int /\ page[2 * k + 3] \in Int
    BY <1>4, <2>1 DEF PageWords
  <2> QED  BY <1>1, <1>4, <2>2 DEF SlotsFit
<1>15. SlotsFit(q)
  <2>1. ASSUME NEW i \in 1 .. n + 1
        PROVE  q[2 * i + 3] >= 1 /\ start <= q[2 * i + 2] /\ q[2 * i + 2] + q[2 * i + 3] <= P + 1
    <3>1. CASE i = pos
      BY <1>5, <1>6, <1>7, <3>1
    <3>2. CASE i # pos
      <4>1. PICK k \in 1 .. n : q[2 * i + 2] = page[2 * k + 2] /\ q[2 * i + 3] = page[2 * k + 3]
        BY <1>10, <3>2
      <4>2. page[2 * k + 3] >= 1 /\ ds <= page[2 * k + 2] /\ page[2 * k + 2] + page[2 * k + 3] <= P + 1
            /\ page[2 * k + 2] \in Int
        BY <1>14
      <4>3. start <= page[2 * k + 2]
        BY <1>5, <1>6, <4>2
      <4> QED  BY <4>1, <4>2, <4>3
    <3> QED  BY <3>1, <3>2
  <2>2. n + 1 \in Nat /\ 2 * (n + 1) + 4 <= start /\ start <= P + 1
    BY <1>5, <1>6
  <2> QED  BY <1>1, <1>7, <2>1, <2>2 DEF SlotsFit
<1>16. CellsDisjoint(q)
  <2> DEFINE apart(i, j) == \/ q[2 * i + 2] + q[2 * i + 3] <= q[2 * j + 2]
                            \/ q[2 * j + 2] + q[2 * j + 3] <= q[2 * i + 2]
  <2>1. ASSUME NEW i \in 1 .. n + 1, i # pos PROVE apart(pos, i) /\ apart(i, pos)
    <3>1. PICK k \in 1 .. n : q[2 * i + 2] = page[2 * k + 2] /\ q[2 * i + 3] = page[2 * k + 3]
      BY <1>10, <2>1
    <3>2. ds <= page[2 * k + 2] /\ page[2 * k + 2] \in Int
      BY <1>14
    <3>3. start + (l + 1) <= page[2 * k + 2]
      BY <1>5, <1>6, <3>2
    <3> QED  BY <1>7, <3>1, <3>3
  <2>2. ASSUME NEW i \in 1 .. n + 1, NEW j \in 1 .. n + 1, i # pos, j # pos, i # j PROVE apart(i, j)
    <3>1. was(i) \in 1 .. n /\ was(j) \in 1 .. n /\ was(i) # was(j)
      BY <1>10, <1>11, <2>2
    <3>2. \/ page[2 * was(i) + 2] + page[2 * was(i) + 3] <= page[2 * was(j) + 2]
          \/ page[2 * was(j) + 2] + page[2 * was(j) + 3] <= page[2 * was(i) + 2]
      BY <1>1, <1>4, <3>1 DEF CellsDisjoint
    <3>3. q[2 * i + 2] = page[2 * was(i) + 2] /\ q[2 * i + 3] = page[2 * was(i) + 3]
      BY <1>10, <2>2
    <3>4. q[2 * j + 2] = page[2 * was(j) + 2] /\ q[2 * j + 3] = page[2 * was(j) + 3]
      BY <1>10, <2>2
    <3> QED  BY <3>2, <3>3, <3>4
  <2>3. pos \in 1 .. n + 1
    BY <1>5
  <2> HIDE DEF apart
  <2>4. \A i, j \in 1 .. n + 1 : i # j => apart(i, j)
    BY <2>1, <2>2, <2>3
  <2> QED  BY <1>7, <2>4 DEF CellsDisjoint, apart
<1>17. PageShape(q)
  BY <1>7, <1>15, <1>16 DEF PageShape
<1>18. d \in Seq(Cell) /\ Len(d) = n + 1 /\ \A i \in 1 .. n + 1 : HoldsCell(q, i, d[i])
  BY <1>7, <1>17, CollectProperties
<1> HIDE DEF d
<1>19. d[pos] = cell
  <2>1. HoldsCell(q, pos, cell)
    BY <1>1, <1>7 DEF HoldsCell
  <2>2. pos \in 1 .. n + 1 /\ d[pos] \in Cell
    BY <1>5, <1>18
  <2> QED  BY <1>18, <2>1, <2>2, HoldsCellUnique
<1>20. ASSUME NEW i \in 1 .. n + 1, i # pos PROVE d[i] = c[was(i)]
  <2>1. PICK k : k = was(i)
    OBVIOUS
  <2>2. k \in 1 .. n /\ q[2 * i + 2] = page[2 * k + 2] /\ q[2 * i + 3] = page[2 * k + 3]
    BY <1>10, <1>20, <2>1
  <2>3. c[k] \in Cell /\ HoldsCell(page, k, c[k])
    BY <1>3, <2>2
  <2>4. PICK e \in Cell : e = c[k] /\ HoldsCell(page, k, e)
    BY <2>3
  <2>5. PICK o, m : o = page[2 * k + 2] /\ m = Len(e.row)
    OBVIOUS
  <2>6. page[2 * k + 3] = m + 1 /\ page[o] = e.key /\ \A j \in 1 .. m : page[o + j] = e.row[j]
    BY <2>4, <2>5 DEF HoldsCell
  <2>7. m \in Nat /\ o \in Int /\ ds <= o /\ o + (m + 1) <= P + 1
    <3>1. m \in Nat
      BY <2>4, <2>5, CellCost
    <3>2. ds <= page[2 * k + 2] /\ page[2 * k + 2] + page[2 * k + 3] <= P + 1 /\ page[2 * k + 2] \in Int
      BY <1>14, <2>2
    <3> QED  BY <2>5, <2>6, <3>1, <3>2
  <2>8. q[o] = e.key
    <3>1. o \in ds .. P
      BY <1>5, <2>7
    <3> QED  BY <1>7, <2>6, <3>1
  <2>9. ASSUME NEW j \in 1 .. m PROVE q[o + j] = e.row[j]
    <3>1. o + j \in ds .. P
      BY <1>5, <2>7
    <3> QED  BY <1>7, <2>6, <3>1
  <2>10. HoldsCell(q, i, e)
    BY <2>2, <2>5, <2>6, <2>8, <2>9 DEF HoldsCell
  <2>11. d[i] \in Cell /\ HoldsCell(q, i, d[i])
    BY <1>18
  <2>12. d[i] = e
    BY <2>10, <2>11, HoldsCellUnique
  <2> QED  BY <2>1, <2>4, <2>12
<1>21. ASSUME NEW i \in 1 .. pos - 1 PROVE d[i] = c[i]
  <2>1. i \in 1 .. n + 1 /\ i # pos
    BY <1>5
  <2> QED  BY <1>12, <1>20, <2>1
<1>22. ASSUME NEW i \in pos + 1 .. n + 1 PROVE d[i] = c[i - 1]
  <2>1. i \in 1 .. n + 1 /\ i # pos
    BY <1>5
  <2> QED  BY <1>13, <1>20, <2>1
<1>23. InsertedAt(d, c, pos, cell)
  BY <1>3, <1>18, <1>19, <1>21, <1>22 DEF InsertedAt
<1> QED  BY <1>1, <1>6, <1>7, <1>17, <1>23 DEF q, c, d

\* The page holds these cells, and the rest of it is free.
PageHolds(page, cells) ==
  /\ PageShape(page) /\ collect_leaf_cells(page) = cells
  /\ page[3] + CostOf(cells, Len(cells)) = PageSize + 1 + 2 * Len(cells)

\* What a page that holds cells has.
LEMMA PageHoldsProperties ==
  ASSUME NEW page, NEW cells, PageHolds(page, cells)
  PROVE  /\ PageShape(page) /\ page \in PageWords /\ cells \in Seq(Cell) /\ Len(cells) = page[1]
         /\ Len(cells) \in Nat /\ page[3] \in Int /\ CostOf(cells, Len(cells)) \in Nat
         /\ page[3] + CostOf(cells, Len(cells)) = PageSize + 1 + 2 * page[1]
         /\ collect_leaf_cells(page) = cells /\ NumCells(page) = Len(cells)
         /\ CostOf(cells, Len(cells)) <= PageSize - 3
<1>1. PageShape(page) /\ collect_leaf_cells(page) = cells /\ page \in PageWords
  BY DEF PageHolds, PageShape
<1>2. cells \in Seq(Cell) /\ Len(cells) = page[1]
  BY <1>1, CollectProperties
<1>3. Len(cells) \in Nat /\ Len(cells) \in 0 .. Len(cells)
  BY <1>2
<1>4. CostOf(cells, Len(cells)) \in Nat
  BY <1>2, <1>3, CostEquations
<1>5. page[3] \in Int
  <2>1. 3 \in 1 .. PageSize
    BY PageSizeIs
  <2> QED  BY <1>1, <2>1 DEF PageWords
<1>6. page[3] + CostOf(cells, Len(cells)) = PageSize + 1 + 2 * page[1]
  BY <1>2 DEF PageHolds
<1>7. 2 * page[1] + 4 <= page[3] /\ page[1] \in Nat
  BY <1>1 DEF PageShape, SlotsFit
<1>8. CostOf(cells, Len(cells)) <= PageSize - 3
  <2>1. PICK x \in Nat : x = CostOf(cells, Len(cells))
    BY <1>4
  <2>2. page[3] + x = PageSize + 1 + 2 * page[1]
    BY <1>6, <2>1
  <2>3. x <= PageSize - 3
    BY <1>5, <1>7, <2>2, PageSizeIs
  <2> QED  BY <2>1, <2>3
<1> QED  BY <1>1, <1>2, <1>3, <1>4, <1>5, <1>6, <1>8 DEF NumCells

\* leaf_free_space is what the cells leave of the page.
LEMMA FreeSpaceIs ==
  ASSUME NEW page, NEW cells, PageHolds(page, cells)
  PROVE  leaf_free_space(page) = PageSize - 3 - CostOf(cells, Len(cells))
<1>1. PICK x, n, ds : x = CostOf(cells, Len(cells)) /\ n = page[1] /\ ds = page[3]
  OBVIOUS
<1>2. x \in Nat /\ n \in Nat /\ ds \in Int /\ ds + x = PageSize + 1 + 2 * n /\ x <= PageSize - 3
  BY <1>1, PageHoldsProperties
<1>3. DataStart(page) - SlotOffset(NumCells(page) + 1) = PageSize - 3 - x
  <2>1. SlotOffset(n + 1) = 2 * (n + 1) + 2
    BY <1>2, SlotOffsetIs
  <2>2. ds - (2 * (n + 1) + 2) = PageSize - 3 - x
    BY <1>2, PageSizeIs
  <2> QED  BY <1>1, <2>1, <2>2 DEF DataStart, NumCells
<1>4. PICK y \in Nat : y = PageSize - 3 - x
  BY <1>2, PageSizeIs
<1>5. leaf_free_space(page) = Max({0, y})
  BY <1>3, <1>4 DEF leaf_free_space
<1>6. Max({0, y}) = y
  <2>1. {0, y} \subseteq 0 .. y /\ {0, y} # {}
    OBVIOUS
  <2>2. Max({0, y}) \in {0, y} /\ Max({0, y}) >= y
    BY <2>1, MaxProperties
  <2> QED  BY <2>2
<1> QED  BY <1>1, <1>4, <1>5, <1>6

\* An insertion at one place has one result.
LEMMA InsertedAtUnique ==
  ASSUME NEW S, NEW s \in Seq(S), NEW t \in Seq(S), NEW u \in Seq(S), NEW e, NEW i \in 1 .. Len(s) + 1,
         InsertedAt(t, s, i, e), InsertedAt(u, s, i, e)
  PROVE  t = u
<1>1. PICK n \in Nat : n = Len(s)
  OBVIOUS
<1>2. /\ Len(t) = n + 1 /\ t[i] = e /\ \A j \in 1 .. i - 1 : t[j] = s[j]
      /\ \A j \in i + 1 .. n + 1 : t[j] = s[j - 1]
  BY <1>1 DEF InsertedAt
<1>3. /\ Len(u) = n + 1 /\ u[i] = e /\ \A j \in 1 .. i - 1 : u[j] = s[j]
      /\ \A j \in i + 1 .. n + 1 : u[j] = s[j - 1]
  BY <1>1 DEF InsertedAt
<1>4. ASSUME NEW j \in 1 .. n + 1 PROVE t[j] = u[j]
  <2>1. i \in 1 .. n + 1
    BY <1>1
  <2>2. j \in 1 .. i - 1 \/ j = i \/ j \in i + 1 .. n + 1
    BY <2>1
  <2> QED  BY <1>2, <1>3, <2>2
<1> QED  BY <1>2, <1>3, <1>4, SeqEqual

\* A page with room for a cell holds it too after PutCell.
LEMMA PutCellHolds ==
  ASSUME NEW page, NEW cells, PageHolds(page, cells), NEW cell \in Cell, NEW pos \in 1 .. Len(cells) + 1,
         CostOf(cells, Len(cells)) + Cost(cell) <= PageSize - 3
  PROVE  /\ PageHolds(PutCell(page, pos, cell), InsertAt(cells, pos, cell))
         /\ PutCell(page, pos, cell)[2] = page[2]
<1>1. PICK x, n, ds, l : x = CostOf(cells, Len(cells)) /\ n = page[1] /\ ds = page[3] /\ l = Len(cell.row)
  OBVIOUS
<1>2. /\ PageShape(page) /\ cells \in Seq(Cell) /\ Len(cells) = n
      /\ collect_leaf_cells(page) = cells
  BY <1>1, PageHoldsProperties
<1>3. x \in Nat /\ n \in Nat /\ ds \in Int /\ ds + x = PageSize + 1 + 2 * n
  BY <1>1, PageHoldsProperties
<1>4. l \in Nat /\ Cost(cell) = 3 + l
  BY <1>1, CellCost
<1>5. x + (3 + l) <= PageSize - 3
  BY <1>1, <1>4
<1>6. RoomFor(page, cell)
  <2>1. 2 * n + 6 + l + 1 <= ds
    BY <1>3, <1>4, <1>5, PageSizeIs
  <2> QED  BY <1>1, <2>1 DEF RoomFor
<1>7. pos \in 1 .. page[1] + 1 /\ pos \in 1 .. n + 1
  BY <1>1, <1>2
<1> DEFINE q == PutCell(page, pos, cell)
           d == collect_leaf_cells(q)
           e == InsertAt(cells, pos, cell)
<1>8. /\ PageShape(q) /\ InsertedAt(d, cells, pos, cell)
      /\ q[1] = n + 1 /\ q[2] = page[2] /\ q[3] = ds - (l + 1)
  BY <1>1, <1>2, <1>6, <1>7, PutCellProperties
<1>9. d \in Seq(Cell)
  BY <1>8, CollectProperties
<1>10. e \in Seq(Cell) /\ InsertedAt(e, cells, pos, cell)
  BY <1>2, <1>7, InsertAtProperties
<1> HIDE DEF q, d, e
<1>11. d = e
  BY <1>2, <1>8, <1>9, <1>10, InsertedAtUnique
<1>12. CostOf(e, Len(e)) = x + (3 + l) /\ Len(e) = n + 1
  BY <1>1, <1>2, <1>4, <1>10, CostInsert DEF InsertedAt
<1>13. (ds - (l + 1)) + (x + (3 + l)) = PageSize + 1 + 2 * (n + 1)
  BY <1>3, <1>4, PageSizeIs
<1>14. q[3] + CostOf(e, Len(e)) = PageSize + 1 + 2 * Len(e)
  BY <1>8, <1>12, <1>13
<1>15. PageHolds(q, e)
  BY <1>8, <1>11, <1>14 DEF PageHolds, d
<1> QED  BY <1>8, <1>15 DEF q, e

\* A new leaf holds nothing, and is free.
LEMMA InitLeafHolds ==
  ASSUME NEW page \in PageWords
  PROVE  PageHolds(init_leaf(page), <<>>) /\ init_leaf(page)[2] = 0
<1> DEFINE words == <<0, 0, PageSize + 1>>
           q == Store(page, 1, words)
<1>1. words \in Seq(Int) /\ Len(words) = 3 /\ words[1] = 0 /\ words[2] = 0 /\ words[3] = PageSize + 1
  BY PageSizeIs
<1> HIDE DEF words
<1>2. 1 \in Nat /\ 1 >= 1 /\ 1 + Len(words) <= PageSize + 1
  BY <1>1, PageSizeIs
<1>3. q \in PageWords /\ \A j \in 1 .. Len(words) : q[1 + j - 1] = words[j]
  BY <1>1, <1>2, StoreProperties
<1>4. init_leaf(page) = q
  BY DEF init_leaf, words
<1> HIDE DEF q
<1>5. q[1] = 0 /\ q[2] = 0 /\ q[3] = PageSize + 1
  <2>1. 1 \in 1 .. Len(words) /\ 2 \in 1 .. Len(words) /\ 3 \in 1 .. Len(words)
        /\ 1 + 1 - 1 = 1 /\ 1 + 2 - 1 = 2 /\ 1 + 3 - 1 = 3
    BY <1>1
  <2> QED  BY <1>1, <1>3, <2>1
<1>6. SlotsFit(q)
  <2>1. 2 * 0 + 4 <= PageSize + 1
    BY PageSizeIs
  <2> QED  BY <1>5, <2>1, PageSizeIs DEF SlotsFit
<1>7. CellsDisjoint(q)
  BY <1>5 DEF CellsDisjoint
<1>8. PageShape(q)
  BY <1>3, <1>6, <1>7 DEF PageShape
<1>9. collect_leaf_cells(q) \in Seq(Cell) /\ Len(collect_leaf_cells(q)) = 0
  BY <1>5, <1>8, CollectProperties
<1>10. collect_leaf_cells(q) = <<>>
  <2>1. PICK c \in Seq(Cell) : c = collect_leaf_cells(q) /\ Len(c) = 0
    BY <1>9
  <2>2. PICK s \in Seq(Cell) : s = <<>> /\ Len(s) = 0
    BY EmptySeq, Zenon
  <2>3. c = s
    BY <2>1, <2>2, SeqEqual
  <2> QED  BY <2>1, <2>2, <2>3
<1>11. Len(<<>>) = 0 /\ CostOf(<<>>, 0) = 0
  <2>1. PICK s \in Seq(Cell) : s = <<>> /\ Len(s) = 0
    BY EmptySeq, Zenon
  <2>2. CostOf(s, 0) = 0
    BY CostEquations
  <2> QED  BY <2>1, <2>2
<1>12. q[3] + 0 = PageSize + 1 + 2 * 0
  BY <1>5, PageSizeIs
<1>13. PageHolds(q, <<>>)
  BY <1>8, <1>10, <1>11, <1>12 DEF PageHolds
<1> QED  BY <1>4, <1>5, <1>13

\* The number of the next leaf is no part of the cells.
LEMMA NextLeafHolds ==
  ASSUME NEW page, NEW cells, PageHolds(page, cells), NEW next \in Int
  PROVE  PageHolds(Store(page, 2, <<next>>), cells) /\ Store(page, 2, <<next>>)[2] = next
<1> DEFINE words == <<next>>
           q == Store(page, 2, words)
           n == page[1]
<1>1. words \in Seq(Int) /\ Len(words) = 1 /\ words[1] = next
  OBVIOUS
<1>2. /\ PageShape(page) /\ page \in PageWords /\ cells \in Seq(Cell) /\ Len(cells) = n /\ n \in Nat
      /\ collect_leaf_cells(page) = cells
  BY PageHoldsProperties DEF PageShape, SlotsFit
<1> HIDE DEF words
<1>3. 2 \in Nat /\ 2 >= 1 /\ 2 + Len(words) <= PageSize + 1 /\ 2 + Len(words) = 3
  BY <1>1, PageSizeIs
<1>4. /\ q \in PageWords /\ \A j \in 1 .. Len(words) : q[2 + j - 1] = words[j]
      /\ \A w \in 1 .. PageSize : w < 2 \/ w >= 2 + Len(words) => q[w] = page[w]
  BY <1>1, <1>2, <1>3, StoreProperties
<1> HIDE DEF q
<1>5. q[2] = next
  <2>1. 1 \in 1 .. Len(words) /\ 2 + 1 - 1 = 2
    BY <1>1
  <2> QED  BY <1>1, <1>4, <2>1
<1>6. \A w \in 1 .. PageSize : w # 2 => q[w] = page[w]
  <2> SUFFICES ASSUME NEW w \in 1 .. PageSize, w # 2 PROVE q[w] = page[w]
    OBVIOUS
  <2>1. w < 2 \/ w >= 2 + Len(words)
    BY <1>3, PageSizeIs
  <2> QED  BY <1>4, <2>1
<1>7. q[1] = n /\ q[3] = page[3]
  <2>1. 1 \in 1 .. PageSize /\ 3 \in 1 .. PageSize
    BY PageSizeIs
  <2> QED  BY <1>6, <2>1
<1>8. /\ page[3] \in Int /\ 2 * n + 4 <= page[3] /\ page[3] <= PageSize + 1
      /\ \A i \in 1 .. n : /\ page[2 * i + 3] >= 1 /\ page[3] <= page[2 * i + 2]
                           /\ page[2 * i + 2] + page[2 * i + 3] <= PageSize + 1
  BY <1>2, PageHoldsProperties DEF PageShape, SlotsFit
<1> HIDE DEF n
<1>9. \A i \in 1 .. n : /\ 2 * i + 2 \in 1 .. PageSize /\ 2 * i + 3 \in 1 .. PageSize
                        /\ 2 * i + 2 # 2 /\ 2 * i + 3 # 2
  <2>1. PICK P \in Nat, ds \in Int : P = PageSize /\ ds = page[3]
    BY <1>8, PageSizeIs
  <2>2. 2 * n + 4 <= ds /\ ds <= P + 1 /\ n \in Nat
    BY <1>2, <1>8, <2>1
  <2>3. \A i \in 1 .. n : /\ 2 * i + 2 \in 1 .. P /\ 2 * i + 3 \in 1 .. P
                          /\ 2 * i + 2 # 2 /\ 2 * i + 3 # 2
    BY <2>2
  <2> QED  BY <2>1, <2>3
<1>10. \A i \in 1 .. n : q[2 * i + 2] = page[2 * i + 2] /\ q[2 * i + 3] = page[2 * i + 3]
  BY <1>6, <1>9
<1>11. PageShape(q)
  <2>1. SlotsFit(q)
    BY <1>2, <1>7, <1>8, <1>10 DEF SlotsFit
  <2>2. CellsDisjoint(q)
    <3>1. CellsDisjoint(page)
      BY <1>2 DEF PageShape
    <3> QED  BY <1>7, <1>10, <3>1 DEF CellsDisjoint, n
  <2> QED  BY <1>4, <2>1, <2>2 DEF PageShape
<1> DEFINE d == collect_leaf_cells(q)
<1>12. d \in Seq(Cell) /\ Len(d) = n /\ \A i \in 1 .. n : HoldsCell(q, i, d[i])
  BY <1>7, <1>11, CollectProperties
<1>13. \A i \in 1 .. n : HoldsCell(page, i, cells[i]) /\ cells[i] \in Cell
  <2>1. \A i \in 1 .. n : HoldsCell(page, i, cells[i])
    BY <1>2, CollectProperties DEF n
  <2> QED  BY <1>2, <2>1
<1> HIDE DEF d
<1>14. ASSUME NEW i \in 1 .. n PROVE d[i] = cells[i]
  <2>1. PICK e \in Cell : e = cells[i] /\ HoldsCell(page, i, e)
    BY <1>13
  <2>2. PICK o, m : o = page[2 * i + 2] /\ m = Len(e.row)
    OBVIOUS
  <2>3. page[2 * i + 3] = m + 1 /\ page[o] = e.key /\ \A j \in 1 .. m : page[o + j] = e.row[j]
    BY <2>1, <2>2 DEF HoldsCell
  <2>4. o \in Int /\ m \in Nat
    <3>1. m \in Nat
      BY <2>1, <2>2, CellCost
    <3> QED  BY <1>2, <1>9, <2>2, <3>1 DEF PageWords
  <2>5. page[3] <= o /\ o + (m + 1) <= PageSize + 1
    BY <1>8, <2>2, <2>3
  <2>6. o >= 4 /\ o + m <= PageSize
    BY <1>2, <1>8, <2>4, <2>5, PageSizeIs
  <2>7. q[o] = e.key
    <3>1. o \in 1 .. PageSize /\ o # 2
      BY <2>4, <2>6, PageSizeIs
    <3> QED  BY <1>6, <2>3, <3>1
  <2>8. ASSUME NEW j \in 1 .. m PROVE q[o + j] = e.row[j]
    <3>1. o + j \in 1 .. PageSize /\ o + j # 2
      BY <2>4, <2>6, PageSizeIs
    <3> QED  BY <1>6, <2>3, <3>1
  <2>9. HoldsCell(q, i, e)
    BY <1>10, <2>2, <2>3, <2>7, <2>8 DEF HoldsCell
  <2>10. d[i] \in Cell /\ HoldsCell(q, i, d[i])
    BY <1>12
  <2> QED  BY <2>1, <2>9, <2>10, HoldsCellUnique
<1>15. d = cells
  BY <1>2, <1>12, <1>14, SeqEqual
<1>16. q[3] + CostOf(cells, Len(cells)) = PageSize + 1 + 2 * Len(cells)
  BY <1>7 DEF PageHolds
<1>17. PageHolds(q, cells)
  BY <1>11, <1>15, <1>16 DEF PageHolds, d
<1> QED  BY <1>5, <1>17 DEF q, words

\* A prefix one longer has one more element, at its end.
LEMMA PrefixInserted ==
  ASSUME NEW S, NEW s \in Seq(S), NEW i \in Nat, i + 1 <= Len(s)
  PROVE  /\ SubSeq(s, 1, i) \in Seq(S) /\ Len(SubSeq(s, 1, i)) = i
         /\ SubSeq(s, 1, i + 1) \in Seq(S) /\ s[i + 1] \in S
         /\ \A j \in 1 .. i : SubSeq(s, 1, i)[j] = s[j]
         /\ InsertedAt(SubSeq(s, 1, i + 1), SubSeq(s, 1, i), i + 1, s[i + 1])
<1>1. PICK n \in Nat : n = Len(s)
  OBVIOUS
<1>2. /\ 1 \in Nat /\ i + 1 \in Nat /\ 1 >= 1 /\ i <= Len(s) /\ i >= 1 - 1 /\ i + 1 >= 1 - 1
      /\ i - 1 + 1 = i /\ (i + 1) - 1 + 1 = i + 1
  BY <1>1
<1> DEFINE a == SubSeq(s, 1, i)
           b == SubSeq(s, 1, i + 1)
<1>3. a \in Seq(S) /\ Len(a) = i /\ \A j \in 1 .. i : a[j] = s[1 + j - 1]
  BY <1>2, SubSeqAt
<1>4. b \in Seq(S) /\ Len(b) = i + 1 /\ \A j \in 1 .. i + 1 : b[j] = s[1 + j - 1]
  BY <1>2, SubSeqAt
<1> HIDE DEF a, b
<1>5. \A j \in 1 .. i : a[j] = s[j]
  BY <1>3
<1>6. \A j \in 1 .. i + 1 : b[j] = s[j]
  BY <1>4
<1>7. s[i + 1] \in S
  <2>1. i + 1 \in 1 .. Len(s)
    BY <1>1
  <2> QED  BY <2>1
<1>8. InsertedAt(b, a, i + 1, s[i + 1])
  <2>1. b[i + 1] = s[i + 1]
    BY <1>6
  <2>2. \A j \in 1 .. (i + 1) - 1 : b[j] = a[j]
    BY <1>5, <1>6
  <2>3. \A j \in (i + 1) + 1 .. i + 1 : b[j] = a[j - 1]
    OBVIOUS
  <2> QED  BY <1>3, <1>4, <2>1, <2>2, <2>3 DEF InsertedAt
<1> QED  BY <1>3, <1>4, <1>5, <1>7, <1>8 DEF a, b

\* One cell more is written: they go to the end, in their order.
LEMMA WriteOne ==
  ASSUME NEW cells \in Seq(Cell), CostOf(cells, Len(cells)) <= PageSize - 3,
         NEW i \in Nat, i + 1 <= Len(cells), NEW page, PageHolds(page, SubSeq(cells, 1, i))
  PROVE  PageHolds(PutCell(page, i + 1, cells[i + 1]), SubSeq(cells, 1, i + 1))
<1> DEFINE a == SubSeq(cells, 1, i)
           b == SubSeq(cells, 1, i + 1)
           e == cells[i + 1]
<1>1. /\ a \in Seq(Cell) /\ Len(a) = i /\ b \in Seq(Cell) /\ e \in Cell
      /\ \A j \in 1 .. i : a[j] = cells[j]
      /\ InsertedAt(b, a, i + 1, e)
  BY PrefixInserted
<1>2. PageHolds(page, a)
  OBVIOUS
<1> HIDE DEF a, b
<1>3. PICK n \in Nat : n = Len(cells)
  OBVIOUS
<1>4. CostOf(a, i) = CostOf(cells, i)
  <2>1. i <= Len(cells) /\ i <= Len(a)
    BY <1>1, <1>3
  <2> QED  BY <1>1, <2>1, CostPrefix
<1>5. CostOf(cells, i + 1) = CostOf(cells, i) + Cost(e)
  <2>1. i + 1 \in 1 .. Len(cells) /\ (i + 1) - 1 = i
    BY <1>3
  <2>2. CostOf(cells, i + 1) = CostOf(cells, (i + 1) - 1) + Cost(cells[i + 1])
    BY <2>1, CostEquations
  <2> QED  BY <2>1, <2>2
<1>6. CostOf(cells, i + 1) <= PageSize - 3
  <2>1. i + 1 \in 0 .. Len(cells) /\ Len(cells) \in i + 1 .. Len(cells) /\ Len(cells) \in 0 .. Len(cells)
    BY <1>3
  <2>2. CostOf(cells, i + 1) <= CostOf(cells, Len(cells))
    BY <2>1, CostMonotone
  <2>3. CostOf(cells, i + 1) \in Nat /\ CostOf(cells, Len(cells)) \in Nat
    BY <2>1, CostEquations
  <2> QED  BY <2>2, <2>3, PageSizeIs
<1>7. i + 1 \in 1 .. Len(a) + 1
  BY <1>1
<1>8. CostOf(a, Len(a)) + Cost(e) <= PageSize - 3
  BY <1>1, <1>4, <1>5, <1>6
<1> HIDE DEF e
<1>9. PageHolds(PutCell(page, i + 1, e), InsertAt(a, i + 1, e))
  BY <1>1, <1>2, <1>7, <1>8, PutCellHolds
<1>10. InsertAt(a, i + 1, e) \in Seq(Cell) /\ InsertedAt(InsertAt(a, i + 1, e), a, i + 1, e)
  BY <1>1, <1>7, InsertAtProperties
<1>11. InsertAt(a, i + 1, e) = b
  BY <1>1, <1>7, <1>10, InsertedAtUnique
<1> QED  BY <1>9, <1>11 DEF a, b, e

\* The recursive function of write_leaf_cells.
WrittenStep(page, cells, f, n) == IF n = 0 THEN init_leaf(page) ELSE PutCell(f[n - 1], n, cells[n])

\* The pages of write_leaf_cells, one cell at a time.
LEMMA WrittenUnfold ==
  ASSUME NEW page, NEW cells, \E g : g = [n \in 0 .. Len(cells) |-> WrittenStep(page, cells, g, n)]
  PROVE  \E f : /\ f = [n \in 0 .. Len(cells) |-> WrittenStep(page, cells, f, n)]
                /\ write_leaf_cells(page, cells) = f[Len(cells)]
<1> DEFINE P(f) == f = [n \in 0 .. Len(cells) |-> WrittenStep(page, cells, f, n)]
           f0 == CHOOSE f : P(f)
<1>1. P(f0)
  BY Zenon
<1>2. write_leaf_cells(page, cells) = f0[Len(cells)]
  BY Zenon DEF write_leaf_cells, WrittenStep
<1> QED  BY <1>1, <1>2, Zenon

\* write_leaf_cells puts the cells on the page, if they fit.
LEMMA WriteHolds ==
  ASSUME NEW page \in PageWords, NEW cells \in Seq(Cell), CostOf(cells, Len(cells)) <= PageSize - 3
  PROVE  PageHolds(write_leaf_cells(page, cells), cells)
<1> DEFINE n == Len(cells)
           Put(i, p) == PutCell(p, i, cells[i])
           G == [x \in (0 + 1 .. n) \X PageWords |->
                   IF Put(x[1], x[2]) \in PageWords THEN Put(x[1], x[2]) ELSE x[2]]
<1>0. n \in Nat /\ 0 \in Int /\ n \in Int /\ 0 <= n
  OBVIOUS
<1>1. init_leaf(page) \in PageWords /\ PageHolds(init_leaf(page), <<>>)
  BY InitLeafHolds, PageHoldsProperties
<1>2. SubSeq(cells, 1, 0) = <<>>
  BY SubSeqEmpty
<1>3. G \in [(0 + 1 .. n) \X PageWords -> PageWords]
  OBVIOUS
<1>4. PICK f \in [0 .. n -> PageWords] : f[0] = init_leaf(page) /\ \A i \in 0 + 1 .. n : f[i] = G[<<i, f[i - 1]>>]
  <2> HIDE DEF n, G
  <2>1. Recursive(0, n, PageWords, init_leaf(page), G)
    BY <1>0, <1>1, <1>3, Recursion
  <2> QED  BY <2>1, Zenon DEF Recursive, Follows
<1>5. ASSUME NEW i \in 1 .. n
      PROVE  f[i] = IF Put(i, f[i - 1]) \in PageWords THEN Put(i, f[i - 1]) ELSE f[i - 1]
  <2>1. i \in 0 + 1 .. n /\ i - 1 \in 0 .. n
    BY <1>0
  <2>2. <<i, f[i - 1]>> \in (0 + 1 .. n) \X PageWords
    BY <2>1
  <2>3. f[i] = G[<<i, f[i - 1]>>]
    BY <1>4, <2>1
  <2> HIDE DEF Put, n
  <2> QED  BY <2>2, <2>3
<1> HIDE DEF G
<1> DEFINE T == {i \in 0 .. n : /\ PageHolds(f[i], SubSeq(cells, 1, i))
                                /\ i > 0 => f[i] = Put(i, f[i - 1])}
<1>6. 0 \in T
  BY <1>0, <1>1, <1>2, <1>4
<1>7. ASSUME NEW i \in 0 .. n - 1, i \in T PROVE i + 1 \in T
  <2>1. i \in Nat /\ i + 1 \in 1 .. n /\ (i + 1) - 1 = i /\ i + 1 <= Len(cells) /\ i + 1 \in 0 .. n
    BY <1>0
  <2>2. PageHolds(f[i], SubSeq(cells, 1, i))
    BY <1>7
  <2>3. PageHolds(PutCell(f[i], i + 1, cells[i + 1]), SubSeq(cells, 1, i + 1))
    BY <2>1, <2>2, WriteOne
  <2>4. PutCell(f[i], i + 1, cells[i + 1]) \in PageWords
    BY <2>3, PageHoldsProperties
  <2>5. f[i + 1] = PutCell(f[i], i + 1, cells[i + 1])
    <3>1. f[i + 1] = IF Put(i + 1, f[(i + 1) - 1]) \in PageWords THEN Put(i + 1, f[(i + 1) - 1]) ELSE f[(i + 1) - 1]
      BY <1>5, <2>1
    <3> QED  BY <2>1, <2>4, <3>1
  <2> HIDE DEF n
  <2> QED  BY <2>1, <2>3, <2>5
<1>8. 0 .. n \subseteq T
  <2> HIDE DEF T, n
  <2> QED  BY <1>0, <1>6, <1>7, Induction
<1>9. f = [i \in 0 .. n |-> WrittenStep(page, cells, f, i)]
  <2>1. ASSUME NEW i \in 0 .. n PROVE f[i] = WrittenStep(page, cells, f, i)
    <3>1. i > 0 => f[i] = PutCell(f[i - 1], i, cells[i])
      BY <1>8
    <3> HIDE DEF n, T
    <3>2. i = 0 \/ i > 0
      OBVIOUS
    <3> QED  BY <1>4, <3>1, <3>2 DEF WrittenStep
  <2> HIDE DEF n, T
  <2> QED  BY <2>1
<1>10. PICK h : /\ h = [i \in 0 .. n |-> WrittenStep(page, cells, h, i)]
                /\ write_leaf_cells(page, cells) = h[n]
  BY <1>9, WrittenUnfold
<1>11. \A i \in 0 .. n : h[i] = WrittenStep(page, cells, h, i)
  <2> HIDE DEF n
  <2> QED  BY <1>10
<1> DEFINE U == {i \in 0 .. n : h[i] = f[i]}
<1>12. 0 \in U
  <2>1. 0 \in 0 .. n
    BY <1>0
  <2> QED  BY <1>4, <1>11, <2>1 DEF WrittenStep
<1>13. ASSUME NEW i \in 0 .. n - 1, i \in U PROVE i + 1 \in U
  <2>1. i + 1 \in 0 .. n /\ (i + 1) - 1 = i /\ i + 1 # 0 /\ i + 1 > 0
    BY <1>0
  <2>2. h[i + 1] = PutCell(h[(i + 1) - 1], i + 1, cells[i + 1])
    BY <1>11, <2>1 DEF WrittenStep
  <2>3. f[i + 1] = PutCell(f[(i + 1) - 1], i + 1, cells[i + 1])
    BY <1>8, <2>1
  <2>4. h[i] = f[i]
    BY <1>13
  <2> HIDE DEF n, T
  <2> QED  BY <2>1, <2>2, <2>3, <2>4
<1>14. 0 .. n \subseteq U
  <2> HIDE DEF U, n, T
  <2> QED  BY <1>0, <1>12, <1>13, Induction
<1>15. write_leaf_cells(page, cells) = f[n] /\ PageHolds(f[n], SubSeq(cells, 1, n))
  <2>1. n \in 0 .. n
    BY <1>0
  <2>2. n \in U /\ n \in T
    BY <1>8, <1>14, <2>1, Zenon
  <2> QED  BY <1>10, <2>2
<1>16. SubSeq(cells, 1, n) = cells
  <2>1. /\ 1 \in Nat /\ 1 >= 1 /\ n <= Len(cells) /\ n >= 1 - 1 /\ n - 1 + 1 = n
    BY <1>0
  <2>2. /\ SubSeq(cells, 1, n) \in Seq(Cell) /\ Len(SubSeq(cells, 1, n)) = n
        /\ \A j \in 1 .. n : SubSeq(cells, 1, n)[j] = cells[1 + j - 1]
    BY <1>0, <2>1, SubSeqAt
  <2>3. \A j \in 1 .. n : SubSeq(cells, 1, n)[j] = cells[j]
    BY <2>2
  <2> QED  BY <2>2, <2>3, SeqEqual
<1> QED  BY <1>15, <1>16

-----------------------------------------------------------------------------
(***************************************************************************)
(* The split of a full leaf.                                               *)
(***************************************************************************)
LEMMA HalfIs ==
  ASSUME NEW a \in Nat
  PROVE  a \div 2 \in Nat /\ 2 * (a \div 2) <= a /\ a <= 2 * (a \div 2) + 1
OBVIOUS

\* The rows that INSERT lets through take no more than half of a page.
FitsHalf(c) == c \in Cell /\ Len(c.row) <= max_row_data_size

\* A cell that INSERT lets through takes at most half of a page.
LEMMA HalfCost ==
  ASSUME NEW c, FitsHalf(c)
  PROVE  2 * Cost(c) <= PageSize - 3
<1>1. PICK a \in Nat : a = PageSize - 3
  BY PageSizeIs
<1>2. PICK h \in Nat : h = a \div 2 /\ 2 * h <= a
  BY HalfIs
<1>3. PageSize - HeaderSize = a
  BY <1>1 DEF HeaderSize
<1>4. max_row_data_size = h - 2 - 1
  BY <1>2, <1>3 DEF max_row_data_size, SlotSize, KeySize
<1>5. PICK l \in Nat : l = Len(c.row) /\ Cost(c) = 3 + l
  BY CellCost DEF FitsHalf
<1>6. l <= h - 2 - 1
  BY <1>4, <1>5 DEF FitsHalf
<1>7. 2 * (3 + l) <= a
  BY <1>2, <1>6
<1> QED  BY <1>1, <1>5, <1>7

\* At least one cell stays and one goes; more than one stays only as far as they
\* take no more than half of what all of them take.
LEMMA LeftCountProperties ==
  ASSUME NEW cells \in Seq(Cell), Len(cells) >= 2
  PROVE  /\ LeftCount(cells) \in 1 .. Len(cells) - 1
         /\ LeftCount(cells) = 1 \/ 2 * CostOf(cells, LeftCount(cells)) <= CostOf(cells, Len(cells))
<1>1. PICK n \in Nat : n = Len(cells)
  OBVIOUS
<1>2. PICK x \in Nat : x = CostOf(cells, n)
  <2>1. n \in 0 .. Len(cells)
    BY <1>1
  <2> QED  BY <1>1, <2>1, CostEquations
<1>3. PICK half \in Nat : half = x \div 2 /\ 2 * half <= x
  BY HalfIs
<1> DEFINE M == {1} \cup {m \in 1 .. n : CostOf(cells, m) <= half}
<1>4. M \subseteq 0 .. n /\ M # {} /\ 1 \in M
  BY <1>1
<1>5. LeftCount(cells) = Min({Max(M), n - 1})
  BY <1>1, <1>2, <1>3 DEF LeftCount
<1>6. PICK k : k = Max(M)
  OBVIOUS
<1>7. k \in M /\ k >= 1
  <2> HIDE DEF M
  <2>1. Max(M) \in M /\ \A y \in M : Max(M) >= y
    BY <1>4, MaxProperties
  <2> QED  BY <1>4, <1>6, <2>1
<1>8. PICK l : l = LeftCount(cells) /\ l = Min({k, n - 1})
  BY <1>5, <1>6
<1>9. k \in 1 .. n
  BY <1>1, <1>7
<1>10. l \in {k, n - 1} /\ l <= k /\ l <= n - 1
  <2>1. {k, n - 1} \subseteq Nat /\ {k, n - 1} # {}
    BY <1>1, <1>9
  <2>2. Min({k, n - 1}) \in {k, n - 1} /\ \A y \in {k, n - 1} : Min({k, n - 1}) <= y
    BY <2>1, MinProperties
  <2> QED  BY <1>8, <2>2
<1>11. l \in 1 .. n - 1
  BY <1>1, <1>9, <1>10
<1>12. l = 1 \/ 2 * CostOf(cells, l) <= x
  <2>1. CASE k = 1
    BY <1>10, <1>11, <2>1
  <2>2. CASE k # 1
    <3>1. CostOf(cells, k) <= half
      BY <1>7, <2>2
    <3>2. l \in 0 .. Len(cells) /\ k \in l .. Len(cells) /\ k \in 0 .. Len(cells)
      BY <1>1, <1>9, <1>10, <1>11
    <3>3. CostOf(cells, l) <= CostOf(cells, k)
      BY <3>2, CostMonotone
    <3>4. CostOf(cells, l) \in Nat /\ CostOf(cells, k) \in Nat
      BY <3>2, CostEquations
    <3> HIDE DEF M
    <3> QED  BY <1>3, <3>1, <3>3, <3>4
  <2> QED  BY <2>1, <2>2
<1> QED  BY <1>1, <1>2, <1>8, <1>11, <1>12

\* The cells that stay fit on the page.
LEMMA LeftFits ==
  ASSUME NEW page, NEW cells, PageHolds(page, cells), \A i \in 1 .. Len(cells) : FitsHalf(cells[i]),
         NEW cell, FitsHalf(cell), NEW pos \in 1 .. Len(cells) + 1, leaf_free_space(page) < Cost(cell),
         NEW d \in Seq(Cell), InsertedAt(d, cells, pos, cell)
  PROVE  /\ LeftCount(d) \in 1 .. Len(d) - 1 /\ Len(d) = Len(cells) + 1
         /\ CostOf(d, LeftCount(d)) <= PageSize - 3
<1>1. PICK a \in Nat, n \in Nat, x \in Nat :
        a = PageSize - 3 /\ n = Len(cells) /\ x = CostOf(cells, n) /\ x <= a
  <2>1. PICK a \in Nat : a = PageSize - 3
    BY PageSizeIs
  <2>2. PICK n, x : n = Len(cells) /\ x = CostOf(cells, n)
    OBVIOUS
  <2>3. n \in Nat /\ x \in Nat /\ x <= a
    BY <2>1, <2>2, PageHoldsProperties
  <2> QED  BY <2>1, <2>2, <2>3
<1>2. cells \in Seq(Cell) /\ cell \in Cell
  BY PageHoldsProperties DEF FitsHalf
<1>3. PICK e \in Nat : e = Cost(cell) /\ 2 * e <= a
  <2>1. Cost(cell) \in Nat
    BY <1>2, CellCost
  <2> QED  BY <1>1, <2>1, HalfCost
<1>4. a - x < e
  <2>1. leaf_free_space(page) = PageSize - 3 - CostOf(cells, Len(cells))
    BY FreeSpaceIs
  <2>2. leaf_free_space(page) = a - x
    BY <1>1, <2>1, PageSizeIs
  <2> QED  BY <1>3, <2>2
<1>5. Len(d) = n + 1
  BY <1>1 DEF InsertedAt
<1>6. CostOf(d, n + 1) = x + e
  BY <1>1, <1>2, <1>3, <1>5, CostInsert
<1>7. n # 0
  <2> SUFFICES ASSUME n = 0 PROVE FALSE
    OBVIOUS
  <2>1. x = 0
    BY <1>1, <1>2, CostEquations
  <2> QED  BY <1>3, <1>4, <2>1
<1>8. PICK l : /\ l = LeftCount(d) /\ l \in 1 .. n
               /\ l = 1 \/ 2 * CostOf(d, l) <= x + e
  <2>1. Len(d) >= 2 /\ Len(d) - 1 = n
    BY <1>5, <1>7
  <2>2. /\ LeftCount(d) \in 1 .. Len(d) - 1
        /\ LeftCount(d) = 1 \/ 2 * CostOf(d, LeftCount(d)) <= CostOf(d, Len(d))
    BY <2>1, LeftCountProperties
  <2> QED  BY <1>5, <1>6, <2>1, <2>2
<1>9. CostOf(d, l) \in Nat
  <2>1. l \in 0 .. Len(d)
    BY <1>5, <1>8
  <2> QED  BY <2>1, CostEquations
<1>10. CASE l = 1
  <2>1. FitsHalf(d[1])
    <3>1. CASE pos = 1
      BY <3>1 DEF InsertedAt
    <3>2. CASE pos # 1
      <4>1. 1 \in 1 .. pos - 1 /\ 1 \in 1 .. Len(cells)
        BY <1>1, <1>7, <3>2
      <4> QED  BY <4>1 DEF InsertedAt
    <3> QED  BY <3>1, <3>2
  <2>2. CostOf(d, 1) = CostOf(d, 1 - 1) + Cost(d[1]) /\ CostOf(d, 0) = 0
    <3>1. 1 \in 1 .. Len(d)
      BY <1>5
    <3> QED  BY <3>1, CostEquations
  <2>3. 2 * Cost(d[1]) <= PageSize - 3
    BY <2>1, HalfCost
  <2>4. Cost(d[1]) \in Nat
    BY <2>1, CellCost DEF FitsHalf
  <2>5. CostOf(d, 1) <= a
    BY <1>1, <2>2, <2>3, <2>4
  <2> QED  BY <1>1, <1>5, <1>8, <1>10, <2>5
<1>11. CASE 2 * CostOf(d, l) <= x + e
  <2>1. CostOf(d, l) <= a
    BY <1>1, <1>3, <1>9, <1>11, SMTT(30)
  <2> QED  BY <1>1, <1>5, <1>8, <2>1
<1> QED  BY <1>8, <1>10, <1>11

-----------------------------------------------------------------------------
(***************************************************************************)
(* Which row is where.                                                     *)
(***************************************************************************)
LEMMA PositionIn ==
  ASSUME NEW keys, Len(keys) \in Nat, NEW k
  PROVE  Position(keys, k) \in 1 .. Len(keys) + 1
<1> DEFINE S == {i \in 1 .. Len(keys) : keys[i] >= k} \cup {Len(keys) + 1}
<1>1. S \subseteq Nat /\ S # {} /\ S \subseteq 1 .. Len(keys) + 1
  OBVIOUS
<1>2. Position(keys, k) = Min(S)
  BY DEF Position
<1> HIDE DEF S
<1>3. Min(S) \in S
  BY <1>1, MinProperties
<1> QED  BY <1>1, <1>2, <1>3

\* ids arranges the rows 1 .. n in the leaves: each is in one place.
Arranged(ids, n) ==
  /\ ids \in Seq(Seq(1 .. n))
  /\ \A x \in 1 .. n : \E p \in 1 .. Len(ids) : \E j \in 1 .. Len(ids[p]) : ids[p][j] = x
  /\ \A p, q \in 1 .. Len(ids) : \A j \in 1 .. Len(ids[p]) : \A k \in 1 .. Len(ids[q]) :
       ids[p][j] = ids[q][k] => p = q /\ j = k

\* The types of an arrangement.
LEMMA ArrangedTypes ==
  ASSUME NEW n \in Nat, NEW ids, Arranged(ids, n)
  PROVE  /\ ids \in Seq(Seq(1 .. n)) /\ Len(ids) \in Nat
         /\ \A p \in 1 .. Len(ids) : /\ ids[p] \in Seq(1 .. n) /\ Len(ids[p]) \in Nat
                                     /\ \A j \in 1 .. Len(ids[p]) : ids[p][j] \in 1 .. n
<1>1. ids \in Seq(Seq(1 .. n))
  BY DEF Arranged
<1>2. ASSUME NEW p \in 1 .. Len(ids)
      PROVE  /\ ids[p] \in Seq(1 .. n) /\ Len(ids[p]) \in Nat
             /\ \A j \in 1 .. Len(ids[p]) : ids[p][j] \in 1 .. n
  <2>1. ids[p] \in Seq(1 .. n)
    BY <1>1
  <2>2. PICK s \in Seq(1 .. n) : s = ids[p]
    BY <2>1
  <2>3. Len(s) \in Nat /\ \A j \in 1 .. Len(s) : s[j] \in 1 .. n
    OBVIOUS
  <2> QED  BY <2>2, <2>3
<1> QED  BY <1>1, <1>2

\* A row is in one place only.
LEMMA ArrangedUnique ==
  ASSUME NEW n, NEW ids, Arranged(ids, n)
  PROVE  \A c, d \in 1 .. Len(ids) : \A i \in 1 .. Len(ids[c]) : \A l \in 1 .. Len(ids[d]) :
           ids[c][i] = ids[d][l] => c = d /\ i = l
BY Zenon DEF Arranged

\* A row more comes to leaf p, which has the rows s then.
Joins(s, ids, n, p, pos) ==
  /\ p \in 1 .. Len(ids) /\ pos \in 1 .. Len(ids[p]) + 1
  /\ s \in Seq(1 .. n + 1) /\ InsertedAt(s, ids[p], pos, n + 1)

\* One more row, put into a leaf, gives an arrangement of one more row.
LEMMA ArrangeInsert ==
  ASSUME NEW n \in Nat, NEW ids, Arranged(ids, n), NEW s, NEW p, NEW pos, Joins(s, ids, n, p, pos)
  PROVE  Arranged([ids EXCEPT ![p] = s], n + 1) /\ Len([ids EXCEPT ![p] = s]) = Len(ids)
<1> DEFINE new == [ids EXCEPT ![p] = s]
<1>j. /\ p \in 1 .. Len(ids) /\ pos \in 1 .. Len(ids[p]) + 1
      /\ s \in Seq(1 .. n + 1) /\ InsertedAt(s, ids[p], pos, n + 1)
  BY DEF Joins
<1>0. PICK L \in Nat : L = Len(ids) /\ p \in 1 .. L /\ DOMAIN ids = 1 .. L
  BY <1>j, ArrangedTypes
<1>1. /\ ids \in Seq(Seq(1 .. n))
      /\ \A q \in 1 .. L : /\ ids[q] \in Seq(1 .. n) /\ Len(ids[q]) \in Nat
                           /\ \A j \in 1 .. Len(ids[q]) : ids[q][j] \in 1 .. n
  BY <1>0, ArrangedTypes
<1>2. PICK m \in Nat : m = Len(ids[p])
  BY <1>0, <1>1
<1>3. pos \in 1 .. m + 1 /\ Len(s) = m + 1 /\ s[pos] = n + 1
      /\ (\A j \in 1 .. pos - 1 : s[j] = ids[p][j])
      /\ (\A j \in pos + 1 .. m + 1 : s[j] = ids[p][j - 1])
  BY <1>j, <1>2 DEF InsertedAt
<1>4. new[p] = s /\ (\A q \in 1 .. L : q # p => new[q] = ids[q]) /\ Len(new) = L
  BY <1>j, <1>0, <1>1
<1>5. new \in Seq(Seq(1 .. n + 1))
  <2>1. \A q \in 1 .. L : ids[q] \in Seq(1 .. n + 1)
    <3>1. ASSUME NEW q \in 1 .. L PROVE ids[q] \in Seq(1 .. n + 1)
      <4>1. PICK u \in Seq(1 .. n) : u = ids[q]
        BY <1>1
      <4>2. \A j \in 1 .. Len(u) : u[j] \in 1 .. n + 1
        <5>1. \A j \in 1 .. Len(u) : u[j] \in 1 .. n
          OBVIOUS
        <5>2. 1 .. n \subseteq 1 .. n + 1
          OBVIOUS
        <5> QED  BY <5>1, <5>2, Zenon
      <4>3. u \in Seq(1 .. n + 1)
        BY <4>2
      <4> QED  BY <4>1, <4>3
    <3> QED  BY <3>1
  <2>2. \A q \in 1 .. L : new[q] \in Seq(1 .. n + 1)
    BY <1>j, <1>4, <2>1
  <2>3. new = [q \in 1 .. L |-> new[q]]
    BY <1>0, <1>1
  <2> HIDE DEF new
  <2> QED  BY <1>0, <2>2, <2>3
<1> HIDE DEF new
\* The place that a row in leaf p, other than the new one, had.
<1> DEFINE was(j) == IF j < pos THEN j ELSE j - 1
<1>6. \A j \in 1 .. m + 1 : j # pos => was(j) \in 1 .. m /\ s[j] = ids[p][was(j)]
  <2> SUFFICES ASSUME NEW j \in 1 .. m + 1, j # pos PROVE was(j) \in 1 .. m /\ s[j] = ids[p][was(j)]
    OBVIOUS
  <2>1. CASE j < pos
    BY <1>3, <2>1
  <2>2. CASE j > pos
    BY <1>3, <2>2
  <2> QED  BY <1>3, <2>1, <2>2
<1>7. ASSUME NEW j \in 1 .. m + 1, NEW k \in 1 .. m + 1, j # pos, k # pos, was(j) = was(k) PROVE j = k
  <2>1. pos \in Nat /\ j \in Nat /\ k \in Nat
    BY <1>3
  <2>2. CASE j < pos
    <3>1. was(j) = j
      BY <2>2
    <3>2. k < pos => was(k) = k
      OBVIOUS
    <3>3. ~(k < pos) => was(k) = k - 1
      OBVIOUS
    <3> HIDE DEF was
    <3> QED  BY <1>7, <2>1, <2>2, <3>1, <3>2, <3>3
  <2>3. CASE ~(j < pos)
    <3>1. was(j) = j - 1
      BY <2>3
    <3>2. k < pos => was(k) = k
      OBVIOUS
    <3>3. ~(k < pos) => was(k) = k - 1
      OBVIOUS
    <3> HIDE DEF was
    <3> QED  BY <1>7, <2>1, <2>3, <3>1, <3>2, <3>3
  <2> QED  BY <2>2, <2>3
<1>8. \A i \in 1 .. m : \E j \in 1 .. m + 1 : j # pos /\ was(j) = i
  <2> SUFFICES ASSUME NEW i \in 1 .. m PROVE \E j \in 1 .. m + 1 : j # pos /\ was(j) = i
    OBVIOUS
  <2>1. CASE i < pos
    <3>1. i \in 1 .. m + 1 /\ i # pos /\ was(i) = i
      BY <1>3, <2>1
    <3> HIDE DEF was
    <3> QED  BY <3>1
  <2>2. CASE i >= pos
    <3>1. i + 1 \in 1 .. m + 1 /\ i + 1 # pos /\ was(i + 1) = i
      BY <1>3, <2>2
    <3> HIDE DEF was
    <3> QED  BY <3>1
  <2> QED  BY <1>3, <2>1, <2>2
<1> HIDE DEF was
<1>9. ASSUME NEW x \in 1 .. n + 1
      PROVE  \E q \in 1 .. L : \E j \in 1 .. Len(new[q]) : new[q][j] = x
  <2>1. CASE x = n + 1
    BY <1>0, <1>3, <1>4, <2>1
  <2>2. CASE x # n + 1
    <3>1. x \in 1 .. n
      BY <2>2
    <3>2. PICK q \in 1 .. L : \E j \in 1 .. Len(ids[q]) : ids[q][j] = x
      BY <1>0, <3>1 DEF Arranged
    <3>3. PICK j \in 1 .. Len(ids[q]) : ids[q][j] = x
      BY <3>2
    <3>4. CASE q = p
      <4>1. j \in 1 .. m
        BY <1>2, <3>4
      <4>2. PICK k \in 1 .. m + 1 : k # pos /\ was(k) = j
        BY <1>8, <4>1
      <4>3. s[k] = x
        BY <1>6, <3>3, <3>4, <4>2
      <4> QED  BY <1>0, <1>3, <1>4, <4>2, <4>3
    <3>5. CASE q # p
      BY <1>4, <3>3, <3>5
    <3> QED  BY <3>4, <3>5
  <2> QED  BY <2>1, <2>2
\* A place of new is the new row's, or it is that of an old one.
<1> DEFINE old(q, j) == IF q = p THEN was(j) ELSE j
<1>10. ASSUME NEW q \in 1 .. L, NEW j \in 1 .. Len(new[q])
       PROVE  \/ q = p /\ j = pos /\ new[q][j] = n + 1
              \/ /\ old(q, j) \in 1 .. Len(ids[q]) /\ new[q][j] = ids[q][old(q, j)] /\ new[q][j] # n + 1
                 /\ q = p => j \in 1 .. m + 1 /\ j # pos
  <2>0. \A i \in 1 .. Len(ids[q]) : ids[q][i] # n + 1
    <3>1. \A i \in 1 .. Len(ids[q]) : ids[q][i] \in 1 .. n
      BY <1>1
    <3>2. n + 1 \notin 1 .. n
      OBVIOUS
    <3> QED  BY <3>1, <3>2, Zenon
  <2>1. CASE q # p
    <3>1. j \in 1 .. Len(ids[q]) /\ new[q][j] = ids[q][j] /\ old(q, j) = j
      BY <1>4, <2>1
    <3> HIDE DEF old
    <3> QED  BY <2>0, <2>1, <3>1, Zenon
  <2>2. CASE q = p
    <3>1. j \in 1 .. m + 1 /\ new[q][j] = s[j] /\ old(q, j) = was(j)
      BY <1>3, <1>4, <2>2
    <3>2. CASE j = pos
      BY <1>3, <2>2, <3>1, <3>2
    <3>3. CASE j # pos
      <4>1. was(j) \in 1 .. m /\ s[j] = ids[p][was(j)]
        BY <1>6, <3>1, <3>3
      <4>2. was(j) \in 1 .. Len(ids[q])
        BY <1>2, <2>2, <4>1
      <4> HIDE DEF old
      <4> QED  BY <2>0, <2>2, <3>1, <3>3, <4>1, <4>2, Zenon
    <3> QED  BY <3>2, <3>3
  <2> QED  BY <2>1, <2>2
<1>11. \A a, b \in 1 .. L : \A i \in 1 .. Len(ids[a]) : \A l \in 1 .. Len(ids[b]) :
         ids[a][i] = ids[b][l] => a = b /\ i = l
  BY <1>0, Zenon DEF Arranged
<1>12. ASSUME NEW q \in 1 .. L, NEW r \in 1 .. L, NEW j \in 1 .. Len(new[q]), NEW k \in 1 .. Len(new[r]),
              new[q][j] = new[r][k]
       PROVE  q = r /\ j = k
  <2>1. \/ q = p /\ j = pos /\ new[q][j] = n + 1
        \/ /\ old(q, j) \in 1 .. Len(ids[q]) /\ new[q][j] = ids[q][old(q, j)] /\ new[q][j] # n + 1
           /\ q = p => j \in 1 .. m + 1 /\ j # pos
    BY <1>10, Zenon
  <2>2. \/ r = p /\ k = pos /\ new[r][k] = n + 1
        \/ /\ old(r, k) \in 1 .. Len(ids[r]) /\ new[r][k] = ids[r][old(r, k)] /\ new[r][k] # n + 1
           /\ r = p => k \in 1 .. m + 1 /\ k # pos
    BY <1>10, Zenon
  <2>3. CASE new[q][j] = n + 1
    BY <1>12, <2>1, <2>2, <2>3, Zenon
  <2>4. CASE new[q][j] # n + 1
    <3>1. q = r /\ old(q, j) = old(r, k)
      <4> HIDE DEF old
      <4>1. old(q, j) \in 1 .. Len(ids[q]) /\ new[q][j] = ids[q][old(q, j)]
        BY <2>1, <2>4, Zenon
      <4>2. old(r, k) \in 1 .. Len(ids[r]) /\ new[r][k] = ids[r][old(r, k)]
        BY <1>12, <2>2, <2>4, Zenon
      <4>3. ids[q][old(q, j)] = ids[r][old(r, k)]
        BY <1>12, <4>1, <4>2, Zenon
      <4>4. PICK x, y : x = old(q, j) /\ y = old(r, k)
        OBVIOUS
      <4>5. x \in 1 .. Len(ids[q]) /\ y \in 1 .. Len(ids[r]) /\ ids[q][x] = ids[r][y]
        BY <4>1, <4>2, <4>3, <4>4
      <4>6. q = r /\ x = y
        BY <1>11, <4>5
      <4> QED  BY <4>4, <4>6
    <3>2. CASE q = p
      <4>1. was(j) = was(k) /\ j \in 1 .. m + 1 /\ j # pos /\ k \in 1 .. m + 1 /\ k # pos
        BY <2>1, <2>2, <2>4, <1>12, <3>1, <3>2, Zenon
      <4> QED  BY <1>7, <3>1, <4>1, Zenon
    <3>3. CASE q # p
      BY <3>1, <3>3, Zenon
    <3> QED  BY <3>2, <3>3
  <2> QED  BY <2>3, <2>4
<1>13. Arranged(new, n + 1)
  BY <1>4, <1>5, <1>9, <1>12 DEF Arranged
<1> QED  BY <1>0, <1>4, <1>13 DEF new

\* The first m rows of leaf p stay, the others go to a new leaf.
LEMMA ArrangeCut ==
  ASSUME NEW n \in Nat, NEW ids, Arranged(ids, n), NEW p \in 1 .. Len(ids), NEW m \in 0 .. Len(ids[p]),
         NEW a \in Seq(1 .. n), NEW b \in Seq(1 .. n), Len(a) = m, Len(b) = Len(ids[p]) - m,
         \A j \in 1 .. m : a[j] = ids[p][j], \A j \in 1 .. Len(b) : b[j] = ids[p][m + j]
  PROVE  /\ Arranged(Append([ids EXCEPT ![p] = a], b), n)
         /\ Len(Append([ids EXCEPT ![p] = a], b)) = Len(ids) + 1
<1> DEFINE new == Append([ids EXCEPT ![p] = a], b)
<1>0. PICK L \in Nat, w \in Nat : L = Len(ids) /\ p \in 1 .. L /\ w = Len(ids[p]) /\ m \in 0 .. w
  <2>1. Len(ids) \in Nat /\ Len(ids[p]) \in Nat
    BY ArrangedTypes
  <2> QED  BY <2>1
<1>1. ids \in Seq(Seq(1 .. n))
  BY ArrangedTypes
<1>2. /\ new \in Seq(Seq(1 .. n)) /\ Len(new) = L + 1 /\ new[p] = a /\ new[L + 1] = b
      /\ \A q \in 1 .. L : q # p => new[q] = ids[q]
  BY <1>0, <1>1, ReplaceAppend
<1> HIDE DEF new
<1>3. ASSUME NEW x \in 1 .. n
      PROVE  \E q \in 1 .. L + 1 : \E j \in 1 .. Len(new[q]) : new[q][j] = x
  <2>1. PICK q \in 1 .. L : \E j \in 1 .. Len(ids[q]) : ids[q][j] = x
    BY <1>0 DEF Arranged
  <2>2. PICK j \in 1 .. Len(ids[q]) : ids[q][j] = x
    BY <2>1
  <2>3. CASE q # p
    <3>1. q \in 1 .. L + 1
      OBVIOUS
    <3> QED  BY <1>2, <2>2, <2>3, <3>1
  <2>4. CASE q = p /\ j <= m
    <3>0. j \in 1 .. m /\ p \in 1 .. L + 1 /\ a[j] = ids[p][j]
      <4>1. m \in Nat /\ j \in Nat /\ j >= 1
        BY <1>0
      <4> QED  BY <1>0, <2>4, <4>1
    <3>1. j \in 1 .. Len(new[p]) /\ new[p][j] = x
      BY <1>2, <2>2, <2>4, <3>0, Zenon
    <3> QED  BY <3>0, <3>1, Zenon
  <2>5. CASE q = p /\ j > m
    <3>1. j - m \in 1 .. Len(b) /\ m + (j - m) = j
      BY <1>0, <2>5
    <3>2. b[j - m] = x
      BY <2>2, <2>5, <3>1
    <3>3. j - m \in 1 .. Len(new[L + 1]) /\ L + 1 \in 1 .. L + 1 /\ new[L + 1][j - m] = x
      BY <1>0, <1>2, <3>1, <3>2
    <3> QED  BY <3>3
  <2>6. j \in 1 .. w \/ q # p
    BY <1>0
  <2>7. q # p \/ j <= m \/ j > m
    BY <1>0, <2>6
  <2> QED  BY <2>3, <2>4, <2>5, <2>7
\* The place before the split.
<1> DEFINE pq(q) == IF q = L + 1 THEN p ELSE q
           pj(q, j) == IF q = L + 1 THEN m + j ELSE j
<1>4. ASSUME NEW q \in 1 .. L + 1, NEW j \in 1 .. Len(new[q])
      PROVE  /\ pq(q) \in 1 .. L /\ pj(q, j) \in 1 .. Len(ids[pq(q)])
             /\ new[q][j] = ids[pq(q)][pj(q, j)]
             /\ q = L + 1 <=> pq(q) = p /\ pj(q, j) > m
  <2>1. CASE q = L + 1
    <3>1. j \in 1 .. Len(b) /\ j \in Nat /\ j >= 1 /\ m + j <= w /\ Len(b) = w - m
      <4>1. new[q] = b /\ Len(b) = w - m
        BY <1>0, <1>2, <2>1
      <4>2. j \in 1 .. Len(b)
        BY <4>1
      <4> QED  BY <1>0, <4>1, <4>2, SMTT(30)
    <3>2. m + j \in 1 .. w /\ m + j > m /\ b[j] = ids[p][m + j]
      BY <1>0, <3>1
    <3> QED  BY <1>0, <1>2, <2>1, <3>2
  <2>2. CASE q = p
    <3>1. q # L + 1 /\ j \in 1 .. m
      BY <1>0, <1>2, <2>2
    <3>2. j \in 1 .. w /\ ~(j > m) /\ a[j] = ids[p][j]
      BY <1>0, <3>1
    <3> QED  BY <1>0, <1>2, <2>2, <3>1, <3>2
  <2>3. CASE q # L + 1 /\ q # p
    <3>1. q \in 1 .. L
      BY <2>3
    <3>2. new[q] = ids[q]
      BY <1>2, <2>3, <3>1, Zenon
    <3>3. pq(q) = q /\ pj(q, j) = j
      BY <2>3
    <3> HIDE DEF pq, pj
    <3> QED  BY <2>3, <3>1, <3>2, <3>3
  <2> QED  BY <2>1, <2>2, <2>3
<1>5. ASSUME NEW q \in 1 .. L + 1, NEW r \in 1 .. L + 1, NEW j \in 1 .. Len(new[q]), NEW k \in 1 .. Len(new[r]),
             new[q][j] = new[r][k]
      PROVE  q = r /\ j = k
  <2>1. /\ pq(q) \in 1 .. L /\ pj(q, j) \in 1 .. Len(ids[pq(q)])
        /\ new[q][j] = ids[pq(q)][pj(q, j)]
        /\ q = L + 1 <=> pq(q) = p /\ pj(q, j) > m
    BY <1>4
  <2>2. /\ pq(r) \in 1 .. L /\ pj(r, k) \in 1 .. Len(ids[pq(r)])
        /\ new[r][k] = ids[pq(r)][pj(r, k)]
        /\ r = L + 1 <=> pq(r) = p /\ pj(r, k) > m
    BY <1>4
  <2>3. pq(q) = pq(r) /\ pj(q, j) = pj(r, k)
    <3> HIDE DEF pq, pj
    <3>2. ids[pq(q)][pj(q, j)] = ids[pq(r)][pj(r, k)]
      BY <1>5, <2>1, <2>2, Zenon
    <3>3. pq(q) \in 1 .. L /\ pj(q, j) \in 1 .. Len(ids[pq(q)])
      BY <2>1, Zenon
    <3>4. pq(r) \in 1 .. L /\ pj(r, k) \in 1 .. Len(ids[pq(r)])
      BY <2>2, Zenon
    <3>5. PICK c, d, x, y : c = pq(q) /\ d = pq(r) /\ x = pj(q, j) /\ y = pj(r, k)
      OBVIOUS
    <3>6. /\ c \in 1 .. L /\ d \in 1 .. L /\ x \in 1 .. Len(ids[c]) /\ y \in 1 .. Len(ids[d])
          /\ ids[c][x] = ids[d][y]
      BY <3>2, <3>3, <3>4, <3>5
    <3>7. c = d /\ x = y
      <4>1. c \in 1 .. Len(ids) /\ d \in 1 .. Len(ids)
        BY <1>0, <3>6
      <4>2. \A e, f \in 1 .. Len(ids) : \A i \in 1 .. Len(ids[e]) : \A l \in 1 .. Len(ids[f]) :
              ids[e][i] = ids[f][l] => e = f /\ i = l
        BY ArrangedUnique, Zenon
      <4>3. \A i \in 1 .. Len(ids[c]) : \A l \in 1 .. Len(ids[d]) :
              ids[c][i] = ids[d][l] => c = d /\ i = l
        BY <4>1, <4>2, Zenon
      <4> QED  BY <3>6, <4>3, Zenon
    <3> QED  BY <3>5, <3>7
  <2>4. q = L + 1 <=> r = L + 1
    BY <2>1, <2>2, <2>3
  <2>5. q = r
    BY <2>3, <2>4
  <2>6. j \in Int /\ k \in Int
    OBVIOUS
  <2>7. j = k
    <3>1. CASE q = L + 1
      <4>1. pj(q, j) = m + j /\ pj(r, k) = m + k
        BY <2>5, <3>1
      <4>2. m \in Nat
        BY <1>0
      <4> HIDE DEF pq, pj
      <4>3. m + j = m + k
        BY <2>3, <4>1
      <4> QED  BY <2>6, <4>2, <4>3
    <3>2. CASE q # L + 1
      BY <2>3, <2>5, <3>2
    <3> QED  BY <3>1, <3>2
  <2> QED  BY <2>5, <2>7
<1>6. Arranged(new, n)
  <2> HIDE DEF pq, pj
  <2>1. \A x \in 1 .. n : \E q \in 1 .. L + 1 : \E j \in 1 .. Len(new[q]) : new[q][j] = x
    BY <1>3, Zenon
  <2>2. \A q, r \in 1 .. L + 1 : \A j \in 1 .. Len(new[q]) : \A k \in 1 .. Len(new[r]) :
          new[q][j] = new[r][k] => q = r /\ j = k
    BY <1>5, Zenon
  <2>3. 1 .. Len(new) = 1 .. L + 1
    BY <1>2
  <2>4. new \in Seq(Seq(1 .. n))
    BY <1>2
  <2>5. \A x \in 1 .. n : \E q \in 1 .. Len(new) : \E j \in 1 .. Len(new[q]) : new[q][j] = x
    BY <2>1, <2>3
  <2>6. \A q, r \in 1 .. Len(new) : \A j \in 1 .. Len(new[q]) : \A k \in 1 .. Len(new[r]) :
          new[q][j] = new[r][k] => q = r /\ j = k
    BY <2>2, <2>3
  <2> QED  BY <2>4, <2>5, <2>6, Zenon DEF Arranged
<1> QED  BY <1>0, <1>2, <1>6 DEF new

-----------------------------------------------------------------------------
(***************************************************************************)
(* The rows, in the order in which they were inserted, as the words that   *)
(* are written of each: what the leaves show of them.                      *)
(***************************************************************************)
Images(img) == img \in Seq(Seq(Int)) /\ \A i \in 1 .. Len(img) : Len(img[i]) <= max_row_data_size

\* The cells have the rows of these numbers.
Shown(cells, places, img) ==
  Len(cells) = Len(places) /\ \A j \in 1 .. Len(places) : cells[j].row = img[places[j]]

PageShows(page, places, img) == \E cells : PageHolds(page, cells) /\ Shown(cells, places, img)

\* One more row.
Grown(bigger, img, words) ==
  /\ Images(bigger) /\ Len(bigger) = Len(img) + 1 /\ bigger[Len(img) + 1] = words
  /\ \A i \in 1 .. Len(img) : bigger[i] = img[i]

\* The places of a leaf are numbers of rows.
LEMMA PlacesIn ==
  ASSUME NEW n \in Nat, NEW places \in Seq(1 .. n)
  PROVE  /\ Len(places) \in Nat /\ places \in Seq(1 .. n + 1)
         /\ \A j \in 1 .. Len(places) : places[j] \in 1 .. n
<1>1. Len(places) \in Nat /\ \A j \in 1 .. Len(places) : places[j] \in 1 .. n
  OBVIOUS
<1>2. 1 .. n \subseteq 1 .. n + 1
  OBVIOUS
<1>3. \A j \in 1 .. Len(places) : places[j] \in 1 .. n + 1
  BY <1>1, <1>2, Zenon
<1>4. places \in Seq(1 .. n + 1)
  BY <1>3
<1> QED  BY <1>1, <1>4

\* One more row does not change what is shown of the others.
LEMMA ShownGrows ==
  ASSUME NEW img, Len(img) \in Nat, NEW places \in Seq(1 .. Len(img)), NEW bigger, NEW words,
         Grown(bigger, img, words), NEW cells, Shown(cells, places, img)
  PROVE  Shown(cells, places, bigger)
<1>1. \A j \in 1 .. Len(places) : places[j] \in 1 .. Len(img)
  BY PlacesIn
<1>2. \A i \in 1 .. Len(img) : bigger[i] = img[i]
  BY DEF Grown
<1>3. \A j \in 1 .. Len(places) : bigger[places[j]] = img[places[j]]
  BY <1>1, <1>2, Zenon
<1> QED  BY <1>3 DEF Shown

\* The same for a page.
LEMMA PageGrows ==
  ASSUME NEW img, Len(img) \in Nat, NEW places \in Seq(1 .. Len(img)), NEW bigger, NEW words,
         Grown(bigger, img, words), NEW page, PageShows(page, places, img)
  PROVE  PageShows(page, places, bigger)
BY ShownGrows DEF PageShows

\* The cells of a page are those of rows, so that each fits half of the page.
LEMMA ShownFits ==
  ASSUME NEW img, Images(img), NEW places \in Seq(1 .. Len(img)), NEW cells \in Seq(Cell),
         Shown(cells, places, img)
  PROVE  \A i \in 1 .. Len(cells) : FitsHalf(cells[i])
<1>1. Len(img) \in Nat
  BY DEF Images
<1> SUFFICES ASSUME NEW i \in 1 .. Len(cells) PROVE FitsHalf(cells[i])
  OBVIOUS
<1>2. cells[i] \in Cell
  OBVIOUS
<1>3. i \in 1 .. Len(places)
  BY DEF Shown
<1>4. cells[i].row = img[places[i]] /\ places[i] \in 1 .. Len(img)
  BY <1>1, <1>3, PlacesIn DEF Shown
<1>5. Len(img[places[i]]) <= max_row_data_size
  BY <1>4 DEF Images
<1> QED  BY <1>2, <1>4, <1>5 DEF FitsHalf

\* A row more among the cells, at the same place among the numbers.
LEMMA ShownInsert ==
  ASSUME NEW img, Len(img) \in Nat, NEW places \in Seq(1 .. Len(img)), NEW bigger, NEW words,
         Grown(bigger, img, words), NEW cells, Shown(cells, places, img),
         NEW cell, cell.row = words, NEW pos \in 1 .. Len(cells) + 1,
         NEW d, InsertedAt(d, cells, pos, cell)
  PROVE  \E s \in Seq(1 .. Len(img) + 1) :
           /\ InsertedAt(s, places, pos, Len(img) + 1) /\ pos \in 1 .. Len(places) + 1
           /\ Shown(d, s, bigger)
<1> DEFINE n == Len(img)
           s == InsertAt(places, pos, n + 1)
<1>0. n \in Nat /\ n + 1 \in 1 .. n + 1
  OBVIOUS
<1>1. Shown(cells, places, bigger)
  BY ShownGrows
<1>2. places \in Seq(1 .. n + 1) /\ Len(places) \in Nat /\ Len(cells) = Len(places)
  BY <1>1, PlacesIn DEF Shown
<1>3. pos \in 1 .. Len(places) + 1
  BY <1>2
<1>4. s \in Seq(1 .. n + 1) /\ InsertedAt(s, places, pos, n + 1)
  <2> HIDE DEF n
  <2> QED  BY <1>0, <1>2, <1>3, InsertAtProperties
<1> HIDE DEF s
<1>5. bigger[n + 1] = words
  BY DEF Grown
<1>6. PICK l \in Nat : l = Len(places)
  BY <1>2
<1>7. /\ Len(d) = l + 1 /\ d[pos] = cell /\ pos \in 1 .. l + 1
      /\ \A j \in 1 .. pos - 1 : d[j] = cells[j]
      /\ \A j \in pos + 1 .. l + 1 : d[j] = cells[j - 1]
  BY <1>2, <1>3, <1>6 DEF InsertedAt
<1>8. /\ Len(s) = l + 1 /\ s[pos] = n + 1
      /\ \A j \in 1 .. pos - 1 : s[j] = places[j]
      /\ \A j \in pos + 1 .. l + 1 : s[j] = places[j - 1]
  BY <1>4, <1>6 DEF InsertedAt
<1>9. \A j \in 1 .. l : cells[j].row = bigger[places[j]]
  BY <1>1, <1>6 DEF Shown
<1> HIDE DEF n
<1>10. ASSUME NEW j \in 1 .. l + 1 PROVE d[j].row = bigger[s[j]]
  <2>1. CASE j = pos
    BY <1>5, <1>7, <1>8, <2>1
  <2>2. CASE j < pos
    <3>1. j \in 1 .. pos - 1 /\ j \in 1 .. l
      BY <1>7, <2>2
    <3> QED  BY <1>7, <1>8, <1>9, <3>1
  <2>3. CASE j > pos
    <3>1. j \in pos + 1 .. l + 1 /\ j - 1 \in 1 .. l
      BY <1>7, <2>3
    <3> QED  BY <1>7, <1>8, <1>9, <3>1
  <2> QED  BY <1>7, <2>1, <2>2, <2>3
<1>11. Shown(d, s, bigger)
  BY <1>7, <1>8, <1>10 DEF Shown
<1> QED  BY <1>3, <1>4, <1>11 DEF n

\* Storage::insert into a leaf that has room.
LEMMA PageInsert ==
  ASSUME NEW img, Images(img), NEW places \in Seq(1 .. Len(img)), NEW bigger, NEW words,
         Grown(bigger, img, words), NEW page, PageShows(page, places, img),
         NEW cell \in Cell, cell.row = words, leaf_free_space(page) >= Cost(cell)
  PROVE  /\ \E s \in Seq(1 .. Len(img) + 1), pos \in 1 .. Len(places) + 1 :
              InsertedAt(s, places, pos, Len(img) + 1) /\ PageShows(insert_into_leaf(page, cell), s, bigger)
         /\ insert_into_leaf(page, cell)[2] = page[2]
<1>1. PICK cells : PageHolds(page, cells) /\ Shown(cells, places, img)
  BY DEF PageShows
<1>2. /\ cells \in Seq(Cell) /\ Len(cells) \in Nat /\ collect_leaf_cells(page) = cells
      /\ CostOf(cells, Len(cells)) \in Nat
  BY <1>1, PageHoldsProperties
<1>3. PICK pos : pos = Position(KeysOf(cells), cell.key)
  OBVIOUS
<1>4. pos \in 1 .. Len(cells) + 1
  <2>1. Len(KeysOf(cells)) = Len(cells)
    BY <1>2 DEF KeysOf
  <2>2. Len(KeysOf(cells)) \in Nat
    BY <1>2, <2>1
  <2> QED  BY <1>3, <2>1, <2>2, PositionIn
<1>5. insert_into_leaf(page, cell) = PutCell(page, pos, cell)
  BY <1>2, <1>3 DEF insert_into_leaf
<1>6. CostOf(cells, Len(cells)) + Cost(cell) <= PageSize - 3
  <2>1. leaf_free_space(page) = PageSize - 3 - CostOf(cells, Len(cells))
    BY <1>1, FreeSpaceIs
  <2>2. Cost(cell) \in Nat
    BY CellCost
  <2>3. PICK x \in Nat, e \in Nat : x = CostOf(cells, Len(cells)) /\ e = Cost(cell)
    BY <1>2, <2>2
  <2>4. PageSize - 3 - x >= e
    BY <2>1, <2>3
  <2>5. x + e <= PageSize - 3
    BY <2>4, PageSizeIs
  <2> QED  BY <2>3, <2>5
<1>7. /\ PageHolds(PutCell(page, pos, cell), InsertAt(cells, pos, cell))
      /\ PutCell(page, pos, cell)[2] = page[2]
  BY <1>1, <1>4, <1>6, PutCellHolds
<1>8. InsertedAt(InsertAt(cells, pos, cell), cells, pos, cell)
  BY <1>2, <1>4, InsertAtProperties
<1>9. Len(img) \in Nat
  BY DEF Images
<1>10. \E s \in Seq(1 .. Len(img) + 1) :
         /\ InsertedAt(s, places, pos, Len(img) + 1) /\ pos \in 1 .. Len(places) + 1
         /\ Shown(InsertAt(cells, pos, cell), s, bigger)
  BY <1>1, <1>4, <1>8, <1>9, ShownInsert
<1> QED  BY <1>5, <1>7, <1>10 DEF PageShows

\* The first m elements and the others.
CutInto(s, m, a, b) ==
  /\ Len(s) \in Nat /\ m \in 0 .. Len(s) /\ Len(a) = m /\ Len(b) = Len(s) - m
  /\ \A j \in 1 .. m : a[j] = s[j]
  /\ \A j \in 1 .. Len(b) : b[j] = s[m + j]

\* SubSeq cuts a sequence.
LEMMA SubSeqCut ==
  ASSUME NEW S, NEW s \in Seq(S), NEW m \in 0 .. Len(s)
  PROVE  /\ SubSeq(s, 1, m) \in Seq(S) /\ SubSeq(s, m + 1, Len(s)) \in Seq(S)
         /\ CutInto(s, m, SubSeq(s, 1, m), SubSeq(s, m + 1, Len(s)))
<1>1. PICK n \in Nat : n = Len(s) /\ m \in 0 .. n
  OBVIOUS
<1>2. /\ 1 \in Nat /\ m \in Nat /\ m + 1 \in Nat /\ n \in Nat
      /\ 1 >= 1 /\ m <= Len(s) /\ m >= 1 - 1 /\ m - 1 + 1 = m
      /\ m + 1 >= 1 /\ n <= Len(s) /\ n >= (m + 1) - 1 /\ n - (m + 1) + 1 = n - m
  BY <1>1
<1> DEFINE a == SubSeq(s, 1, m)
           b == SubSeq(s, m + 1, n)
<1>3. a \in Seq(S) /\ Len(a) = m /\ \A j \in 1 .. m : a[j] = s[1 + j - 1]
  BY <1>2, SubSeqAt
<1>4. b \in Seq(S) /\ Len(b) = n - m /\ \A j \in 1 .. n - m : b[j] = s[(m + 1) + j - 1]
  <2>1. /\ b \in Seq(S) /\ Len(b) = n - (m + 1) + 1
        /\ \A j \in 1 .. n - (m + 1) + 1 : b[j] = s[(m + 1) + j - 1]
    BY <1>2, SubSeqAt
  <2> HIDE DEF b
  <2> QED  BY <1>2, <2>1
<1> HIDE DEF a, b
<1>5. \A j \in 1 .. m : a[j] = s[j]
  BY <1>3
<1>6. ASSUME NEW j \in 1 .. n - m PROVE b[j] = s[m + j]
  <2>1. (m + 1) + j - 1 = m + j
    BY <1>1
  <2> QED  BY <1>4, <2>1
<1>7. CutInto(s, m, a, b)
  BY <1>1, <1>3, <1>4, <1>5, <1>6 DEF CutInto
<1> QED  BY <1>1, <1>3, <1>4, <1>7 DEF a, b

\* Cells that are cut show the rows that are cut.
LEMMA ShownCut ==
  ASSUME NEW img, NEW d, NEW s, Shown(d, s, img), NEW m, NEW x, NEW y, NEW a, NEW b,
         CutInto(d, m, x, y), CutInto(s, m, a, b)
  PROVE  Shown(x, a, img) /\ Shown(y, b, img)
<1>1. PICK n \in Nat : n = Len(d) /\ n = Len(s) /\ m \in 0 .. n
  BY DEF Shown, CutInto
<1>2. /\ Len(x) = m /\ Len(y) = n - m /\ (\A j \in 1 .. m : x[j] = d[j]) /\ \A j \in 1 .. n - m : y[j] = d[m + j]
  BY <1>1 DEF CutInto
<1>3. /\ Len(a) = m /\ Len(b) = n - m /\ (\A j \in 1 .. m : a[j] = s[j]) /\ \A j \in 1 .. n - m : b[j] = s[m + j]
  BY <1>1 DEF CutInto
<1>4. \A j \in 1 .. n : d[j].row = img[s[j]]
  BY <1>1 DEF Shown
<1>5. \A j \in 1 .. m : j \in 1 .. n
  BY <1>1
<1>6. \A j \in 1 .. n - m : m + j \in 1 .. n
  BY <1>1
<1>7. \A j \in 1 .. m : x[j].row = img[a[j]]
  BY <1>2, <1>3, <1>4, <1>5
<1>8. \A j \in 1 .. n - m : y[j].row = img[b[j]]
  BY <1>2, <1>3, <1>4, <1>6
<1> QED  BY <1>2, <1>3, <1>7, <1>8 DEF Shown

\* The cells of a full leaf with the new one, d, are cut after m.
SplitOf(page, cell, d, m, right) ==
  /\ leaf_free_space(page) < Cost(cell)
  /\ d = Overfull(page, cell) /\ m = LeftCount(d)
  /\ right = SubSeq(d, m + 1, Len(d)) /\ CostOf(right, Len(right)) <= PageSize - 3

\* The two pages show the rows of a leaf, with number n + 1 among them.
HalvesShow(low, high, m, places, n, img) ==
  \E s, a, b \in Seq(1 .. n + 1) : \E pos \in 1 .. Len(places) + 1 :
    /\ InsertedAt(s, places, pos, n + 1) /\ CutInto(s, m, a, b)
    /\ PageShows(low, a, img) /\ PageShows(high, b, img)

\* The two pages of a split.
LEMMA PageSplit ==
  ASSUME NEW img, Images(img), NEW places \in Seq(1 .. Len(img)), NEW bigger, NEW words,
         Grown(bigger, img, words), NEW page, PageShows(page, places, img),
         NEW cell \in Cell, cell.row = words,
         NEW d, NEW m, NEW right, SplitOf(page, cell, d, m, right), NEW blank \in PageWords
  PROVE  /\ HalvesShow(write_leaf_cells(page, SubSeq(d, 1, m)), write_leaf_cells(blank, right),
                        m, places, Len(img), bigger)
         /\ right[1].key \in Int
<1>0. /\ leaf_free_space(page) < Cost(cell)
      /\ d = Overfull(page, cell) /\ m = LeftCount(d)
      /\ right = SubSeq(d, m + 1, Len(d)) /\ CostOf(right, Len(right)) <= PageSize - 3
  BY DEF SplitOf
<1>1. PICK cells : PageHolds(page, cells) /\ Shown(cells, places, img)
  BY DEF PageShows
<1>2. /\ cells \in Seq(Cell) /\ Len(cells) \in Nat /\ collect_leaf_cells(page) = cells
      /\ page \in PageWords
  BY <1>1, PageHoldsProperties
<1>3. PICK pos : pos = Position(KeysOf(cells), cell.key)
  OBVIOUS
<1>4. pos \in 1 .. Len(cells) + 1
  <2>1. Len(KeysOf(cells)) = Len(cells)
    BY <1>2 DEF KeysOf
  <2>2. Len(KeysOf(cells)) \in Nat
    BY <1>2, <2>1
  <2> QED  BY <1>3, <2>1, <2>2, PositionIn
<1>5. d \in Seq(Cell) /\ InsertedAt(d, cells, pos, cell)
  <2>1. d = InsertAt(cells, pos, cell)
    BY <1>0, <1>2, <1>3 DEF Overfull
  <2> QED  BY <1>2, <1>4, <2>1, InsertAtProperties
<1>6. \A i \in 1 .. Len(cells) : FitsHalf(cells[i])
  BY <1>1, <1>2, ShownFits
<1>7. FitsHalf(cell)
  <2>1. Len(img) \in Nat
    BY DEF Images
  <2>2. Len(img) + 1 \in 1 .. Len(bigger) /\ bigger[Len(img) + 1] = words
    BY <2>1 DEF Grown
  <2>3. Len(words) <= max_row_data_size
    BY <2>2 DEF Grown, Images
  <2> QED  BY <2>3 DEF FitsHalf
<1>8. m \in 1 .. Len(d) - 1 /\ CostOf(d, m) <= PageSize - 3 /\ Len(d) \in Nat
  <2>1. Len(d) \in Nat
    BY <1>5
  <2> QED  BY <1>0, <1>1, <1>4, <1>5, <1>6, <1>7, <2>1, LeftFits
<1>9. m \in 0 .. Len(d)
  BY <1>8
<1> DEFINE l == SubSeq(d, 1, m)
<1>10. l \in Seq(Cell) /\ right \in Seq(Cell) /\ CutInto(d, m, l, right)
  BY <1>0, <1>5, <1>9, SubSeqCut
<1> HIDE DEF l
<1>11. Len(l) = m /\ CostOf(l, Len(l)) <= PageSize - 3
  <2>1. Len(l) = m /\ \A j \in 1 .. m : l[j] = d[j]
    BY <1>10 DEF CutInto
  <2>2. m \in Nat /\ m <= Len(l) /\ m <= Len(d)
    BY <1>8, <2>1
  <2>3. CostOf(l, m) = CostOf(d, m)
    BY <1>5, <1>10, <2>1, <2>2, CostPrefix
  <2> QED  BY <1>8, <2>1, <2>3
<1>12. PageHolds(write_leaf_cells(page, l), l)
  BY <1>2, <1>10, <1>11, WriteHolds
<1>13. PageHolds(write_leaf_cells(blank, right), right)
  BY <1>0, <1>10, WriteHolds
<1>14. PICK s \in Seq(1 .. Len(img) + 1) :
         /\ InsertedAt(s, places, pos, Len(img) + 1) /\ pos \in 1 .. Len(places) + 1
         /\ Shown(d, s, bigger)
  <2>1. Len(img) \in Nat
    BY DEF Images
  <2> QED  BY <1>1, <1>4, <1>5, <2>1, ShownInsert
<1> DEFINE a == SubSeq(s, 1, m)
           b == SubSeq(s, m + 1, Len(s))
<1>15. a \in Seq(1 .. Len(img) + 1) /\ b \in Seq(1 .. Len(img) + 1) /\ CutInto(s, m, a, b)
  <2>1. m \in 0 .. Len(s)
    BY <1>9, <1>14 DEF Shown
  <2> QED  BY <2>1, SubSeqCut
<1> HIDE DEF a, b
<1>16. Shown(l, a, bigger) /\ Shown(right, b, bigger)
  BY <1>10, <1>14, <1>15, ShownCut
<1>17. /\ PageShows(write_leaf_cells(page, l), a, bigger)
       /\ PageShows(write_leaf_cells(blank, right), b, bigger)
  BY <1>12, <1>13, <1>16 DEF PageShows
<1>18. right[1].key \in Int
  <2>1. Len(right) = Len(d) - m
    BY <1>10 DEF CutInto
  <2>2. 1 \in 1 .. Len(right)
    BY <1>8, <2>1
  <2>3. right[1] \in Cell
    BY <1>10, <2>2
  <2> QED  BY <2>3, CellCost
<1>19. HalvesShow(write_leaf_cells(page, l), write_leaf_cells(blank, right), m, places, Len(img), bigger)
  BY <1>14, <1>15, <1>17, Zenon DEF HalvesShow
<1> QED  BY <1>18, <1>19 DEF l

-----------------------------------------------------------------------------
(***************************************************************************)
(* The leaves of a table.                                                  *)
(***************************************************************************)
\* ids arranges the rows in the leaves: each leaf shows its rows.
StoredAs(lv, ids, img) ==
  /\ Images(img) /\ Arranged(ids, Len(img)) /\ lv \in Seq(PageWords) /\ Len(lv) = Len(ids)
  /\ \A p \in 1 .. Len(ids) : PageShows(lv[p], ids[p], img)
Stored(lv, img) == \E ids : StoredAs(lv, ids, img)

\* The first leaf, its next one, and so on, are all the leaves.
ChainedBy(lv, ord) ==
  /\ ord \in Seq(1 .. Len(lv)) /\ Len(ord) = Len(lv) /\ Len(lv) >= 1 /\ ord[1] = 1
  /\ \A i, j \in 1 .. Len(lv) : ord[i] = ord[j] => i = j
  /\ \A p \in 1 .. Len(lv) : \E i \in 1 .. Len(lv) : ord[i] = p
  /\ \A i \in 1 .. Len(lv) - 1 : lv[ord[i]][2] = ord[i + 1]
Chained(lv) == \E ord : ChainedBy(lv, ord)

\* The types of leaves that store rows.
LEMMA StoredTypes ==
  ASSUME NEW lv, NEW ids, NEW img, StoredAs(lv, ids, img)
  PROVE  /\ lv \in Seq(PageWords) /\ Len(lv) \in Nat /\ Len(ids) = Len(lv) /\ Len(img) \in Nat
         /\ DOMAIN lv = 1 .. Len(lv) /\ DOMAIN ids = 1 .. Len(lv)
         /\ ids \in Seq(Seq(1 .. Len(img)))
         /\ \A p \in 1 .. Len(lv) : lv[p] \in PageWords /\ ids[p] \in Seq(1 .. Len(img)) /\ PageShows(lv[p], ids[p], img)
<1>1. lv \in Seq(PageWords) /\ Len(lv) = Len(ids) /\ Len(img) \in Nat
  BY DEF StoredAs, Images
<1>2. Arranged(ids, Len(img))
  BY DEF StoredAs
<1>3. ids \in Seq(Seq(1 .. Len(img))) /\ \A p \in 1 .. Len(ids) : ids[p] \in Seq(1 .. Len(img))
  BY <1>1, <1>2, ArrangedTypes
<1>4. Len(lv) \in Nat /\ DOMAIN lv = 1 .. Len(lv) /\ \A p \in 1 .. Len(lv) : lv[p] \in PageWords
  BY <1>1
<1>5. DOMAIN ids = 1 .. Len(ids)
  BY <1>3
<1>6. \A p \in 1 .. Len(lv) : PageShows(lv[p], ids[p], img)
  BY <1>1 DEF StoredAs
<1> QED  BY <1>1, <1>3, <1>4, <1>5, <1>6

\* The types of a chain of leaves.
LEMMA ChainTypes ==
  ASSUME NEW lv, NEW ord, Len(lv) \in Nat, ChainedBy(lv, ord)
  PROVE  /\ ord \in Seq(1 .. Len(lv)) /\ Len(ord) = Len(lv) /\ Len(lv) >= 1 /\ ord[1] = 1
         /\ \A i \in 1 .. Len(lv) : ord[i] \in 1 .. Len(lv)
<1>1. ord \in Seq(1 .. Len(lv)) /\ Len(ord) = Len(lv) /\ Len(lv) >= 1 /\ ord[1] = 1
  BY DEF ChainedBy
<1>2. \A i \in 1 .. Len(ord) : ord[i] \in 1 .. Len(lv)
  BY <1>1
<1> QED  BY <1>1, <1>2

\* A leaf is changed, but not its link.
LEMMA ChainKept ==
  ASSUME NEW lv, NEW new, Chained(lv), Len(lv) \in Nat, Len(new) = Len(lv),
         \A q \in 1 .. Len(lv) : new[q][2] = lv[q][2]
  PROVE  Chained(new)
<1>1. PICK ord : ChainedBy(lv, ord)
  BY DEF Chained
<1>2. \A i \in 1 .. Len(lv) - 1 : new[ord[i]][2] = ord[i + 1]
  <2> SUFFICES ASSUME NEW i \in 1 .. Len(lv) - 1 PROVE new[ord[i]][2] = ord[i + 1]
    OBVIOUS
  <2>1. i \in 1 .. Len(lv)
    OBVIOUS
  <2>2. ord[i] \in 1 .. Len(lv)
    BY <1>1, <2>1, ChainTypes
  <2>3. lv[ord[i]][2] = ord[i + 1]
    BY <1>1 DEF ChainedBy
  <2> QED  BY <2>2, <2>3
<1>3. ChainedBy(new, ord)
  BY <1>1, <1>2 DEF ChainedBy
<1> QED  BY <1>3 DEF Chained

\* A new leaf is linked after leaf p.
LinkedAfter(new, lv, p) ==
  /\ Len(new) = Len(lv) + 1 /\ new[p][2] = Len(lv) + 1 /\ new[Len(lv) + 1][2] = lv[p][2]
  /\ \A q \in 1 .. Len(lv) : q # p => new[q][2] = lv[q][2]

\* A leaf that is split is followed, in the chain, by its new sibling.
LEMMA ChainSplit ==
  ASSUME NEW lv, NEW new, Chained(lv), Len(lv) \in Nat, NEW p \in 1 .. Len(lv), LinkedAfter(new, lv, p)
  PROVE  Chained(new)
<1>1. PICK ord : ChainedBy(lv, ord)
  BY DEF Chained
<1>2. PICK L \in Nat : L = Len(lv)
  OBVIOUS
<1>3. /\ ord \in Seq(1 .. L) /\ Len(ord) = L /\ L >= 1 /\ ord[1] = 1 /\ p \in 1 .. L
      /\ \A i \in 1 .. L : ord[i] \in 1 .. L
  BY <1>1, <1>2, ChainTypes
<1>4. \A i, j \in 1 .. L : ord[i] = ord[j] => i = j
  BY <1>1, <1>2 DEF ChainedBy
<1>5. \A q \in 1 .. L : \E i \in 1 .. L : ord[i] = q
  BY <1>1, <1>2 DEF ChainedBy
<1>6. \A i \in 1 .. L - 1 : lv[ord[i]][2] = ord[i + 1]
  BY <1>1, <1>2 DEF ChainedBy
<1>7. PICK k \in 1 .. L : ord[k] = p
  BY <1>3, <1>5
<1>8. /\ Len(new) = L + 1 /\ new[p][2] = L + 1 /\ new[L + 1][2] = lv[p][2]
      /\ \A q \in 1 .. L : q # p => new[q][2] = lv[q][2]
  BY <1>2 DEF LinkedAfter
<1> DEFINE o == InsertAt(ord, k + 1, L + 1)
<1>9. o \in Seq(1 .. L + 1) /\ InsertedAt(o, ord, k + 1, L + 1)
  <2>1. ord \in Seq(1 .. L + 1)
    BY <1>3, PlacesIn
  <2>2. L + 1 \in 1 .. L + 1 /\ k + 1 \in 1 .. Len(ord) + 1
    BY <1>3
  <2> QED  BY <2>1, <2>2, InsertAtProperties
<1> HIDE DEF o
<1>10. /\ Len(o) = L + 1 /\ o[k + 1] = L + 1
       /\ \A i \in 1 .. k : o[i] = ord[i]
       /\ \A i \in k + 2 .. L + 1 : o[i] = ord[i - 1]
  <2>1. /\ Len(o) = L + 1 /\ o[k + 1] = L + 1
        /\ \A i \in 1 .. (k + 1) - 1 : o[i] = ord[i]
        /\ \A i \in (k + 1) + 1 .. L + 1 : o[i] = ord[i - 1]
    BY <1>3, <1>9 DEF InsertedAt
  <2>2. (k + 1) - 1 = k /\ (k + 1) + 1 = k + 2
    OBVIOUS
  <2> QED  BY <2>1, <2>2
<1>11. ASSUME NEW i \in 1 .. (L + 1) - 1 PROVE new[o[i]][2] = o[i + 1]
  <2>1. CASE i = k
    BY <1>7, <1>8, <1>10, <2>1
  <2>2. CASE i = k + 1
    <3>1. k \in 1 .. L - 1 /\ i + 1 \in k + 2 .. L + 1 /\ (i + 1) - 1 = k + 1
      BY <2>2
    <3>2. new[o[i]][2] = lv[p][2]
      BY <1>8, <1>10, <2>2
    <3>3. lv[p][2] = ord[k + 1]
      BY <1>6, <1>7, <3>1
    <3>4. o[i + 1] = ord[k + 1]
      BY <1>10, <3>1
    <3> QED  BY <3>2, <3>3, <3>4
  <2>3. CASE i < k
    <3>1. i \in 1 .. L - 1 /\ i \in 1 .. L /\ i \in 1 .. k /\ i + 1 \in 1 .. k /\ i # k
      BY <2>3
    <3>2. o[i] = ord[i] /\ o[i + 1] = ord[i + 1]
      BY <1>10, <3>1
    <3>3. ord[i] \in 1 .. L /\ ord[i] # p
      BY <1>3, <1>4, <1>7, <3>1
    <3>4. new[ord[i]][2] = lv[ord[i]][2]
      BY <1>8, <3>3
    <3> QED  BY <1>6, <3>1, <3>2, <3>4
  <2>4. CASE i > k + 1
    <3>1. /\ i \in k + 2 .. L + 1 /\ i + 1 \in k + 2 .. L + 1 /\ i - 1 \in 1 .. L - 1 /\ i - 1 \in 1 .. L
          /\ i - 1 # k /\ (i + 1) - 1 = i /\ (i - 1) + 1 = i
      BY <2>4
    <3>2. o[i] = ord[i - 1] /\ o[i + 1] = ord[i]
      BY <1>10, <3>1
    <3>3. ord[i - 1] \in 1 .. L /\ ord[i - 1] # p
      BY <1>3, <1>4, <1>7, <3>1
    <3>4. new[ord[i - 1]][2] = lv[ord[i - 1]][2]
      BY <1>8, <3>3
    <3>5. lv[ord[i - 1]][2] = ord[(i - 1) + 1]
      BY <1>6, <3>1
    <3> QED  BY <3>1, <3>2, <3>4, <3>5
  <2> QED  BY <2>1, <2>2, <2>3, <2>4
<1>12. ASSUME NEW i \in 1 .. L + 1
       PROVE  \/ i = k + 1 /\ o[i] = L + 1
              \/ i \in 1 .. k /\ i \in 1 .. L /\ o[i] = ord[i] /\ o[i] \in 1 .. L
              \/ i \in k + 2 .. L + 1 /\ i - 1 \in 1 .. L /\ o[i] = ord[i - 1] /\ o[i] \in 1 .. L
  <2>1. CASE i = k + 1
    BY <1>10, <2>1
  <2>2. CASE i <= k
    <3>1. i \in 1 .. k /\ i \in 1 .. L
      BY <2>2
    <3> QED  BY <1>3, <1>10, <3>1
  <2>3. CASE i > k + 1
    <3>1. i \in k + 2 .. L + 1 /\ i - 1 \in 1 .. L
      BY <2>3
    <3> QED  BY <1>3, <1>10, <3>1
  <2> QED  BY <2>1, <2>2, <2>3
<1>13. ASSUME NEW i \in 1 .. L + 1, NEW j \in 1 .. L + 1, o[i] = o[j] PROVE i = j
  <2>1. \/ i = k + 1 /\ o[i] = L + 1
        \/ i \in 1 .. k /\ i \in 1 .. L /\ o[i] = ord[i] /\ o[i] \in 1 .. L
        \/ i \in k + 2 .. L + 1 /\ i - 1 \in 1 .. L /\ o[i] = ord[i - 1] /\ o[i] \in 1 .. L
    BY <1>12
  <2>2. \/ j = k + 1 /\ o[j] = L + 1
        \/ j \in 1 .. k /\ j \in 1 .. L /\ o[j] = ord[j] /\ o[j] \in 1 .. L
        \/ j \in k + 2 .. L + 1 /\ j - 1 \in 1 .. L /\ o[j] = ord[j - 1] /\ o[j] \in 1 .. L
    BY <1>12
  <2>3. L + 1 \notin 1 .. L
    OBVIOUS
  <2>4. CASE o[i] = L + 1
    BY <1>13, <2>1, <2>2, <2>3, <2>4
  <2>5. CASE o[i] # L + 1
    <3>1. \/ i \in 1 .. k /\ i \in 1 .. L /\ o[i] = ord[i]
          \/ i \in k + 2 .. L + 1 /\ i - 1 \in 1 .. L /\ o[i] = ord[i - 1]
      BY <2>1, <2>5
    <3>2. \/ j \in 1 .. k /\ j \in 1 .. L /\ o[j] = ord[j]
          \/ j \in k + 2 .. L + 1 /\ j - 1 \in 1 .. L /\ o[j] = ord[j - 1]
      BY <1>13, <2>2, <2>5
    <3>3. CASE i \in 1 .. k /\ i \in 1 .. L /\ o[i] = ord[i] /\ j \in 1 .. k /\ j \in 1 .. L /\ o[j] = ord[j]
      BY <1>4, <1>13, <3>3
    <3>4. CASE i \in 1 .. k /\ i \in 1 .. L /\ o[i] = ord[i] /\ j \in k + 2 .. L + 1 /\ j - 1 \in 1 .. L /\ o[j] = ord[j - 1]
      <4>1. i = j - 1
        BY <1>4, <1>13, <3>4
      <4> QED  BY <3>4, <4>1
    <3>5. CASE i \in k + 2 .. L + 1 /\ i - 1 \in 1 .. L /\ o[i] = ord[i - 1] /\ j \in 1 .. k /\ j \in 1 .. L /\ o[j] = ord[j]
      <4>1. i - 1 = j
        BY <1>4, <1>13, <3>5
      <4> QED  BY <3>5, <4>1
    <3>6. CASE i \in k + 2 .. L + 1 /\ i - 1 \in 1 .. L /\ o[i] = ord[i - 1] /\ j \in k + 2 .. L + 1 /\ j - 1 \in 1 .. L /\ o[j] = ord[j - 1]
      <4>1. i - 1 = j - 1
        BY <1>4, <1>13, <3>6
      <4> QED  BY <4>1
    <3> QED  BY <3>1, <3>2, <3>3, <3>4, <3>5, <3>6
  <2> QED  BY <2>4, <2>5
<1>14. ASSUME NEW q \in 1 .. L + 1 PROVE \E i \in 1 .. L + 1 : o[i] = q
  <2>1. CASE q = L + 1
    <3>1. k + 1 \in 1 .. L + 1
      OBVIOUS
    <3> QED  BY <1>10, <2>1, <3>1
  <2>2. CASE q # L + 1
    <3>1. q \in 1 .. L
      BY <2>2
    <3>2. PICK i \in 1 .. L : ord[i] = q
      BY <1>5, <3>1
    <3>3. CASE i <= k
      <4>1. i \in 1 .. k /\ i \in 1 .. L + 1
        BY <3>3
      <4> QED  BY <1>10, <3>2, <4>1
    <3>4. CASE i > k
      <4>1. i + 1 \in k + 2 .. L + 1 /\ i + 1 \in 1 .. L + 1 /\ (i + 1) - 1 = i
        BY <3>4
      <4>2. o[i + 1] = ord[i]
        BY <1>10, <4>1
      <4> QED  BY <3>2, <4>1, <4>2
    <3> QED  BY <3>3, <3>4
  <2> QED  BY <2>1, <2>2
<1>15. ChainedBy(new, o)
  <2>1. o[1] = 1 /\ L + 1 >= 1
    <3>1. 1 \in 1 .. k
      OBVIOUS
    <3> QED  BY <1>3, <1>10, <3>1
  <2>2. \A i, j \in 1 .. L + 1 : o[i] = o[j] => i = j
    BY <1>13
  <2>3. \A q \in 1 .. L + 1 : \E i \in 1 .. L + 1 : o[i] = q
    BY <1>14
  <2>4. \A i \in 1 .. (L + 1) - 1 : new[o[i]][2] = o[i + 1]
    BY <1>11
  <2> QED  BY <1>8, <1>9, <1>10, <2>1, <2>2, <2>3, <2>4 DEF ChainedBy
<1> QED  BY <1>15 DEF Chained

\* A page that was just allocated is a page.
LEMMA BlankIsPage == BlankPage \in PageWords
BY PageSizeIs DEF BlankPage, PageWords

\* A page that shows rows is a page.
LEMMA PageShowsPage ==
  ASSUME NEW page, NEW places, NEW img, PageShows(page, places, img)
  PROVE  page \in PageWords
BY PageHoldsProperties DEF PageShows

\* The pointer to the next leaf changes nothing else of a page.
LEMMA PageNext ==
  ASSUME NEW page, NEW places, NEW img, PageShows(page, places, img), NEW next \in Int
  PROVE  /\ PageShows(Store(page, 2, <<next>>), places, img)
         /\ Store(page, 2, <<next>>)[2] = next /\ Store(page, 2, <<next>>) \in PageWords
<1>1. PICK cells : PageHolds(page, cells) /\ Shown(cells, places, img)
  BY DEF PageShows
<1>2. PageHolds(Store(page, 2, <<next>>), cells) /\ Store(page, 2, <<next>>)[2] = next
  BY <1>1, NextLeafHolds
<1>3. Store(page, 2, <<next>>) \in PageWords
  BY <1>2, PageHoldsProperties
<1> QED  BY <1>1, <1>2, <1>3 DEF PageShows

\* INSERT into a leaf with room stores one more row.
LEMMA StoredInsert ==
  ASSUME NEW lv, NEW img, Stored(lv, img), Chained(lv), NEW bigger, NEW words, Grown(bigger, img, words),
         NEW p \in 1 .. Len(lv), NEW cell \in Cell, cell.row = words, leaf_free_space(lv[p]) >= Cost(cell),
         NEW new, new = [lv EXCEPT ![p] = insert_into_leaf(lv[p], cell)]
  PROVE  Stored(new, bigger) /\ Chained(new) /\ Len(new) = Len(lv)
<1>1. PICK ids : StoredAs(lv, ids, img)
  BY DEF Stored
<1>2. PICK L \in Nat, n \in Nat : L = Len(lv) /\ n = Len(img)
  BY <1>1, StoredTypes
<1>3. /\ lv \in Seq(PageWords) /\ Len(ids) = L /\ p \in 1 .. L
      /\ DOMAIN lv = 1 .. L /\ DOMAIN ids = 1 .. L
      /\ \A q \in 1 .. L : lv[q] \in PageWords /\ ids[q] \in Seq(1 .. n) /\ PageShows(lv[q], ids[q], img)
  BY <1>1, <1>2, StoredTypes
<1>4. Images(img) /\ Arranged(ids, n)
  BY <1>1, <1>2 DEF StoredAs
<1> DEFINE page == insert_into_leaf(lv[p], cell)
<1>5. /\ \E t \in Seq(1 .. Len(img) + 1), i \in 1 .. Len(ids[p]) + 1 :
           InsertedAt(t, ids[p], i, Len(img) + 1) /\ PageShows(page, t, bigger)
      /\ page[2] = lv[p][2]
  BY <1>2, <1>3, <1>4, PageInsert
<1>6. PICK s \in Seq(1 .. n + 1), pos \in 1 .. Len(ids[p]) + 1 :
        InsertedAt(s, ids[p], pos, n + 1) /\ PageShows(page, s, bigger)
  BY <1>2, <1>5
<1>7. page \in PageWords
  BY <1>6, PageShowsPage
<1> HIDE DEF page
<1>8. /\ new \in Seq(PageWords) /\ Len(new) = L /\ new[p] = page
      /\ \A q \in 1 .. L : q # p => new[q] = lv[q]
  BY <1>2, <1>3, <1>7 DEF page
<1> DEFINE ids2 == [ids EXCEPT ![p] = s]
<1>9. Arranged(ids2, n + 1) /\ Len(ids2) = L
  <2>1. p \in 1 .. Len(ids)
    BY <1>3
  <2>2. Joins(s, ids, n, p, pos)
    BY <1>6, <2>1 DEF Joins
  <2>3. Arranged([ids EXCEPT ![p] = s], n + 1) /\ Len([ids EXCEPT ![p] = s]) = Len(ids)
    BY <1>4, <2>1, <2>2, ArrangeInsert
  <2> QED  BY <1>3, <2>3
<1>10. ids2[p] = s /\ \A q \in 1 .. L : q # p => ids2[q] = ids[q]
  BY <1>3
<1> HIDE DEF ids2
<1>11. ASSUME NEW q \in 1 .. L PROVE PageShows(new[q], ids2[q], bigger)
  <2>1. CASE q = p
    BY <1>6, <1>8, <1>10, <2>1
  <2>2. CASE q # p
    <3>1. PageShows(lv[q], ids[q], bigger)
      BY <1>2, <1>3, PageGrows
    <3> QED  BY <1>8, <1>10, <2>2, <3>1
  <2> QED  BY <2>1, <2>2
<1>12. Images(bigger) /\ Len(bigger) = n + 1
  BY <1>2 DEF Grown
<1>13. StoredAs(new, ids2, bigger)
  BY <1>8, <1>9, <1>11, <1>12 DEF StoredAs
<1>14. Chained(new)
  <2>1. \A q \in 1 .. L : new[q][2] = lv[q][2]
    BY <1>5, <1>8
  <2>2. Len(new) = Len(lv) /\ Len(lv) \in Nat /\ \A q \in 1 .. Len(lv) : new[q][2] = lv[q][2]
    BY <1>2, <1>8, <2>1
  <2> QED  BY <2>2, ChainKept
<1> QED  BY <1>2, <1>8, <1>13, <1>14 DEF Stored

\* The leaves of a table after a split of leaf p.
LeavesAfter(lv, p, low, high) ==
  Append([lv EXCEPT ![p] = Store(low, 2, <<Len(lv) + 1>>)], Store(high, 2, <<lv[p][2]>>))

\* INSERT that splits a leaf stores one more row.
LEMMA StoredSplit ==
  ASSUME NEW lv, NEW img, Stored(lv, img), Chained(lv), NEW bigger, NEW words, Grown(bigger, img, words),
         NEW p \in 1 .. Len(lv), NEW cell \in Cell, cell.row = words,
         NEW d, NEW m, NEW right, SplitOf(lv[p], cell, d, m, right),
         NEW low, low = write_leaf_cells(lv[p], SubSeq(d, 1, m)),
         NEW high, high = write_leaf_cells(BlankPage, right)
  PROVE  /\ Stored(LeavesAfter(lv, p, low, high), bigger) /\ Chained(LeavesAfter(lv, p, low, high))
         /\ Len(LeavesAfter(lv, p, low, high)) = Len(lv) + 1
         /\ right[1].key \in Int
<1> DEFINE new == LeavesAfter(lv, p, low, high)
<1> HIDE DEF new
<1>1. PICK ids : StoredAs(lv, ids, img)
  BY DEF Stored
<1>2. PICK L \in Nat, n \in Nat : L = Len(lv) /\ n = Len(img)
  BY <1>1, StoredTypes
<1>3. /\ lv \in Seq(PageWords) /\ Len(ids) = L /\ p \in 1 .. L
      /\ DOMAIN lv = 1 .. L /\ DOMAIN ids = 1 .. L /\ ids \in Seq(Seq(1 .. n))
      /\ \A q \in 1 .. L : lv[q] \in PageWords /\ ids[q] \in Seq(1 .. n) /\ PageShows(lv[q], ids[q], img)
  BY <1>1, <1>2, StoredTypes
<1>4. Images(img) /\ Arranged(ids, n)
  BY <1>1, <1>2 DEF StoredAs
<1>5. HalvesShow(low, high, m, ids[p], n, bigger) /\ right[1].key \in Int
  <2>1. PICK page, places : page = lv[p] /\ places = ids[p]
    OBVIOUS
  <2>2. places \in Seq(1 .. Len(img)) /\ PageShows(page, places, img) /\ SplitOf(page, cell, d, m, right)
    BY <1>2, <1>3, <2>1
  <2>3. /\ HalvesShow(write_leaf_cells(page, SubSeq(d, 1, m)), write_leaf_cells(BlankPage, right),
                      m, places, Len(img), bigger)
        /\ right[1].key \in Int
    BY <1>4, <2>2, BlankIsPage, PageSplit
  <2> QED  BY <1>2, <2>1, <2>3
<1>6. PICK s, a, b \in Seq(1 .. n + 1) : \E pos \in 1 .. Len(ids[p]) + 1 :
        /\ InsertedAt(s, ids[p], pos, n + 1) /\ CutInto(s, m, a, b)
        /\ PageShows(low, a, bigger) /\ PageShows(high, b, bigger)
  BY <1>5, Zenon DEF HalvesShow
<1>7. PICK pos \in 1 .. Len(ids[p]) + 1 :
        /\ InsertedAt(s, ids[p], pos, n + 1) /\ CutInto(s, m, a, b)
        /\ PageShows(low, a, bigger) /\ PageShows(high, b, bigger)
  BY <1>6
<1> DEFINE x == Store(low, 2, <<L + 1>>)
           y == Store(high, 2, <<lv[p][2]>>)
<1>8. PageShows(x, a, bigger) /\ x[2] = L + 1 /\ x \in PageWords
  <2>1. L + 1 \in Int
    OBVIOUS
  <2> QED  BY <1>7, <2>1, PageNext
<1>9. PageShows(y, b, bigger) /\ y[2] = lv[p][2] /\ y \in PageWords
  <2>1. lv[p] \in PageWords
    BY <1>3
  <2>2. lv[p][2] \in Int
    <3>1. 2 \in 1 .. PageSize
      BY PageSizeIs
    <3> QED  BY <2>1, <3>1 DEF PageWords
  <2> QED  BY <1>7, <2>2, PageNext
<1> HIDE DEF x, y
<1>10. /\ new \in Seq(PageWords) /\ Len(new) = L + 1 /\ new[p] = x /\ new[L + 1] = y
       /\ \A q \in 1 .. L : q # p => new[q] = lv[q]
  <2>1. new = Append([lv EXCEPT ![p] = x], y)
    BY <1>2 DEF new, LeavesAfter, x, y
  <2>2. /\ Append([lv EXCEPT ![p] = x], y) \in Seq(PageWords)
        /\ Len(Append([lv EXCEPT ![p] = x], y)) = Len(lv) + 1
        /\ Append([lv EXCEPT ![p] = x], y)[p] = x
        /\ Append([lv EXCEPT ![p] = x], y)[Len(lv) + 1] = y
        /\ \A q \in 1 .. Len(lv) : q # p => Append([lv EXCEPT ![p] = x], y)[q] = lv[q]
    BY <1>3, <1>8, <1>9, ReplaceAppend
  <2> QED  BY <1>2, <2>1, <2>2
<1> DEFINE ids1 == [ids EXCEPT ![p] = s]
           ids2 == Append([ids1 EXCEPT ![p] = a], b)
<1>11. Arranged(ids1, n + 1) /\ Len(ids1) = L
  <2>1. p \in 1 .. Len(ids)
    BY <1>3
  <2>2. Joins(s, ids, n, p, pos)
    BY <1>7, <2>1 DEF Joins
  <2>3. Arranged([ids EXCEPT ![p] = s], n + 1) /\ Len([ids EXCEPT ![p] = s]) = Len(ids)
    BY <1>4, <2>1, <2>2, ArrangeInsert
  <2> QED  BY <1>3, <2>3
<1>12. ids1[p] = s /\ ids1 \in Seq(Seq(1 .. n + 1)) /\ \A q \in 1 .. L : q # p => ids1[q] = ids[q]
  <2>1. ids1[p] = s /\ \A q \in 1 .. L : q # p => ids1[q] = ids[q]
    BY <1>3
  <2> HIDE DEF ids1
  <2>2. n + 1 \in Nat
    OBVIOUS
  <2> QED  BY <1>11, <2>1, <2>2, ArrangedTypes
<1> HIDE DEF ids1
<1>13. Arranged(ids2, n + 1) /\ Len(ids2) = L + 1
  <2>1. p \in 1 .. Len(ids1) /\ n + 1 \in Nat
    BY <1>3, <1>11
  <2>2. /\ m \in 0 .. Len(ids1[p]) /\ Len(a) = m /\ Len(b) = Len(ids1[p]) - m
        /\ \A j \in 1 .. m : a[j] = ids1[p][j]
        /\ \A j \in 1 .. Len(b) : b[j] = ids1[p][m + j]
    BY <1>7, <1>12 DEF CutInto
  <2> QED  BY <1>6, <1>11, <2>1, <2>2, ArrangeCut
<1>14. ids2[p] = a /\ ids2[L + 1] = b /\ \A q \in 1 .. L : q # p => ids2[q] = ids[q]
  <2>1. /\ Append([ids1 EXCEPT ![p] = a], b)[p] = a /\ Append([ids1 EXCEPT ![p] = a], b)[Len(ids1) + 1] = b
        /\ \A q \in 1 .. Len(ids1) : q # p => Append([ids1 EXCEPT ![p] = a], b)[q] = ids1[q]
    <3>1. p \in 1 .. Len(ids1)
      BY <1>3, <1>11
    <3> QED  BY <1>6, <1>12, <3>1, ReplaceAppend
  <2> QED  BY <1>11, <1>12, <2>1
<1> HIDE DEF ids2
<1>15. ASSUME NEW q \in 1 .. L + 1 PROVE PageShows(new[q], ids2[q], bigger)
  <2>1. CASE q = p
    BY <1>8, <1>10, <1>14, <2>1
  <2>2. CASE q = L + 1
    BY <1>9, <1>10, <1>14, <2>2
  <2>3. CASE q # p /\ q # L + 1
    <3>1. q \in 1 .. L
      BY <2>3
    <3>2. PageShows(lv[q], ids[q], bigger)
      BY <1>2, <1>3, <3>1, PageGrows
    <3> QED  BY <1>10, <1>14, <2>3, <3>1, <3>2
  <2> QED  BY <2>1, <2>2, <2>3
<1>16. Images(bigger) /\ Len(bigger) = n + 1
  BY <1>2 DEF Grown
<1>17. StoredAs(new, ids2, bigger)
  BY <1>10, <1>13, <1>15, <1>16 DEF StoredAs
<1>18. Chained(new)
  <2>1. LinkedAfter(new, lv, p)
    BY <1>2, <1>8, <1>9, <1>10 DEF LinkedAfter
  <2> QED  BY <1>2, <2>1, ChainSplit
<1> QED  BY <1>2, <1>5, <1>10, <1>17, <1>18 DEF Stored, new

-----------------------------------------------------------------------------
(***************************************************************************)
(* A table: its rows, leaves and root.                                     *)
(***************************************************************************)
Img(ins, cols) == [i \in DOMAIN ins |-> serialize(ins[i], cols)]

\* The root over L leaves.
RootOK(rt, L) ==
  /\ rt.keys \in Seq(Int) /\ rt.kids \in Seq(1 .. L)
  /\ Len(rt.kids) = L /\ Len(rt.keys) = L - 1 /\ rt.kids[1] = 1
  /\ \A x \in 1 .. L : \E i \in 1 .. L : rt.kids[i] = x

RowsFit(ins, cols) ==
  /\ cols \in Cols /\ ins \in Seq(Rows)
  /\ \A i \in 1 .. Len(ins) : Fits(ins[i], cols)

TableOK(ins, lv, rt, cols) ==
  /\ RowsFit(ins, cols) /\ Stored(lv, Img(ins, cols)) /\ Chained(lv) /\ RootOK(rt, Len(lv))

\* What the checks of INSERT let through.
Accepts(row, cols) ==
  row \in Rows /\ Fits(row, cols) /\ Len(serialize(row, cols)) <= max_row_data_size

\* A row that fits may be inserted.
LEMMA RowsGrow ==
  ASSUME NEW ins, NEW cols, RowsFit(ins, cols), NEW row, Accepts(row, cols), Images(Img(ins, cols))
  PROVE  /\ RowsFit(Append(ins, row), cols)
         /\ Grown(Img(Append(ins, row), cols), Img(ins, cols), serialize(row, cols))
<1>1. /\ cols \in Cols /\ ins \in Seq(Rows) /\ row \in Rows /\ Fits(row, cols)
      /\ Len(serialize(row, cols)) <= max_row_data_size
      /\ \A i \in 1 .. Len(ins) : Fits(ins[i], cols)
  BY DEF RowsFit, Accepts
<1>2. PICK n \in Nat : n = Len(ins) /\ DOMAIN ins = 1 .. n
  BY <1>1
<1> DEFINE more == Append(ins, row)
<1>3. /\ more \in Seq(Rows) /\ Len(more) = n + 1 /\ more[n + 1] = row
      /\ (\A i \in 1 .. n : more[i] = ins[i]) /\ DOMAIN more = 1 .. n + 1
  BY <1>1, <1>2
<1> HIDE DEF more
<1>4. ASSUME NEW i \in 1 .. n + 1 PROVE i = n + 1 \/ i \in 1 .. n
  OBVIOUS
<1>5. \A i \in 1 .. n + 1 : Fits(more[i], cols)
  BY <1>1, <1>2, <1>3, <1>4
<1>6. RowsFit(more, cols)
  BY <1>1, <1>3, <1>5 DEF RowsFit
<1> DEFINE a == Img(ins, cols)
           b == Img(more, cols)
<1>7. a = [i \in 1 .. n |-> serialize(ins[i], cols)] /\ b = [i \in 1 .. n + 1 |-> serialize(more[i], cols)]
  BY <1>2, <1>3 DEF Img
<1> HIDE DEF a, b
<1>8. a \in Seq(Seq(Int)) /\ \A i \in 1 .. Len(a) : Len(a[i]) <= max_row_data_size
  BY DEF a, Images
<1>9. Len(a) = n
  BY <1>7
<1>10. \A i \in 1 .. n + 1 : b[i] = serialize(more[i], cols) /\ b[i] \in Seq(Int)
  BY <1>5, <1>7, CodecInverse
<1>11. \A i \in 1 .. n : b[i] = a[i]
  BY <1>3, <1>7
<1>12. b[n + 1] = serialize(row, cols)
  BY <1>3, <1>7
<1>13. b \in Seq(Seq(Int)) /\ Len(b) = n + 1
  <2>1. b = [i \in 1 .. n + 1 |-> b[i]]
    BY <1>7
  <2> QED  BY <1>10, <2>1, SMTT(30)
<1>14. \A i \in 1 .. n + 1 : Len(b[i]) <= max_row_data_size
  BY <1>1, <1>4, <1>8, <1>9, <1>11, <1>12
<1>15. Grown(b, a, serialize(row, cols))
  BY <1>9, <1>11, <1>12, <1>13, <1>14 DEF Grown, Images
<1> QED  BY <1>6, <1>15 DEF more, a, b

\* The key of a row that fits is an integer.
LEMMA KeyIn ==
  ASSUME NEW row, NEW cols, Fits(row, cols)
  PROVE  extract_key(row, cols) \in Int
<1> DEFINE ints == {i \in DOMAIN cols : cols[i].type = "INTEGER" /\ row[i].type = "INTEGER"}
<1>1. /\ row \in Seq(Value) /\ cols \in Cols /\ Len(row) = Len(cols)
      /\ \A i \in DOMAIN row : row[i].type = "INTEGER" => Len(row[i].v) = 1
  BY DEF Fits, TypeChecks
<1>2. PICK n \in Nat : n = Len(cols) /\ DOMAIN cols = 1 .. n /\ DOMAIN row = 1 .. n
  BY <1>1 DEF Cols
<1>3. extract_key(row, cols) = IF ints = {} THEN 0 ELSE row[Min(ints)].v[1]
  BY DEF extract_key
<1>4. ints \subseteq Nat
  BY <1>2
<1>5. CASE ints = {}
  BY <1>3, <1>5
<1>6. CASE ints # {}
  <2>1. PICK i : i = Min(ints) /\ i \in ints
    <3> HIDE DEF ints
    <3> QED  BY <1>4, <1>6, MinProperties
  <2>2. i \in 1 .. n /\ row[i].type = "INTEGER"
    BY <1>2, <2>1
  <2>3. row[i] \in Value
    BY <1>1, <1>2, <2>2
  <2>4. row[i].v \in Seq(Int)
    BY <2>3 DEF Value
  <2>5. Len(row[i].v) = 1
    BY <1>1, <1>2, <2>2
  <2>6. row[i].v[1] \in Int
    BY <2>4, <2>5
  <2> QED  BY <1>3, <1>6, <2>1, <2>6
<1> QED  BY <1>5, <1>6

\* The cell of a row.
LEMMA CellOf ==
  ASSUME NEW row, NEW cols, Accepts(row, cols)
  PROVE  [key |-> extract_key(row, cols), row |-> serialize(row, cols)] \in Cell
BY KeyIn, CodecInverse DEF Accepts, Cell

\* The types of a table.
LEMMA TableTypes ==
  ASSUME NEW ins, NEW lv, NEW rt, NEW cols, TableOK(ins, lv, rt, cols)
  PROVE  /\ lv \in Seq(PageWords) /\ Len(lv) \in Nat /\ Len(lv) >= 1 /\ DOMAIN lv = 1 .. Len(lv)
         /\ Images(Img(ins, cols)) /\ ins \in Seq(Rows)
<1>1. PICK ids : StoredAs(lv, ids, Img(ins, cols))
  BY DEF TableOK, Stored
<1>2. PICK ord : ChainedBy(lv, ord)
  BY DEF TableOK, Chained
<1>3. lv \in Seq(PageWords) /\ Len(lv) \in Nat /\ DOMAIN lv = 1 .. Len(lv)
  BY <1>1, StoredTypes
<1>4. Len(lv) >= 1
  BY <1>2 DEF ChainedBy
<1> QED  BY <1>1, <1>3, <1>4 DEF TableOK, RowsFit, StoredAs

\* The leaf that an INSERT goes to.
LEMMA LeafIn ==
  ASSUME NEW rt, NEW L \in Nat, RootOK(rt, L), L >= 1, NEW k
  PROVE  rt.kids[Position(rt.keys, k)] \in 1 .. L
<1>1. Len(rt.keys) = L - 1 /\ Len(rt.kids) = L /\ rt.kids \in Seq(1 .. L)
  BY DEF RootOK
<1>2. Position(rt.keys, k) \in 1 .. L
  <2>1. Len(rt.keys) \in Nat /\ Len(rt.keys) + 1 = L
    BY <1>1
  <2> QED  BY <2>1, PositionIn
<1> QED  BY <1>1, <1>2

\* The root after a split.
LEMMA RootGrows ==
  ASSUME NEW rt, NEW L \in Nat, RootOK(rt, L), L >= 1, NEW k \in Int
  PROVE  RootOK(WithChild(rt, k, L + 1), L + 1)
<1> DEFINE pos == Position(rt.keys, k)
           keys == InsertAt(rt.keys, pos, k)
           kids == InsertAt(rt.kids, pos + 1, L + 1)
<1>1. Len(rt.keys) = L - 1 /\ Len(rt.kids) = L /\ rt.kids \in Seq(1 .. L) /\ rt.keys \in Seq(Int) /\ rt.kids[1] = 1
      /\ \A x \in 1 .. L : \E i \in 1 .. L : rt.kids[i] = x
  BY DEF RootOK
<1>2. pos \in 1 .. L
  <2>1. Len(rt.keys) \in Nat /\ Len(rt.keys) + 1 = L
    BY <1>1
  <2> QED  BY <2>1, PositionIn
<1> HIDE DEF pos
<1>3. keys \in Seq(Int) /\ Len(keys) = L
  <2>1. pos \in 1 .. Len(rt.keys) + 1
    BY <1>1, <1>2
  <2>2. keys \in Seq(Int) /\ InsertedAt(keys, rt.keys, pos, k)
    BY <1>1, <2>1, InsertAtProperties
  <2>3. Len(keys) = Len(rt.keys) + 1
    BY <2>2 DEF InsertedAt
  <2> QED  BY <1>1, <2>2, <2>3
<1>4. /\ kids \in Seq(1 .. L + 1) /\ Len(kids) = L + 1 /\ kids[1] = 1
      /\ \A x \in 1 .. L + 1 : \E i \in 1 .. L + 1 : kids[i] = x
  <2>1. rt.kids \in Seq(1 .. L + 1)
    BY <1>1, PlacesIn
  <2>2. pos + 1 \in 1 .. Len(rt.kids) + 1 /\ L + 1 \in 1 .. L + 1
    BY <1>1, <1>2
  <2>3. kids \in Seq(1 .. L + 1) /\ InsertedAt(kids, rt.kids, pos + 1, L + 1)
    BY <2>1, <2>2, InsertAtProperties
  <2>4. Len(kids) = Len(rt.kids) + 1 /\ \A j \in 1 .. (pos + 1) - 1 : kids[j] = rt.kids[j]
    BY <2>3 DEF InsertedAt
  <2>5. 1 \in 1 .. (pos + 1) - 1
    BY <1>2
  <2>6. /\ kids[pos + 1] = L + 1
        /\ \A j \in 1 .. pos : kids[j] = rt.kids[j]
        /\ \A j \in pos + 2 .. L + 1 : kids[j] = rt.kids[j - 1]
    <3>1. /\ kids[pos + 1] = L + 1
          /\ \A j \in (pos + 1) + 1 .. Len(rt.kids) + 1 : kids[j] = rt.kids[j - 1]
      BY <2>3 DEF InsertedAt
    <3>2. (pos + 1) + 1 = pos + 2 /\ (pos + 1) - 1 = pos
      BY <1>2
    <3> HIDE DEF kids
    <3> QED  BY <1>1, <2>4, <3>1, <3>2
  <2> HIDE DEF kids
  <2>7. ASSUME NEW x \in 1 .. L + 1 PROVE \E i \in 1 .. L + 1 : kids[i] = x
    <3>1. CASE x = L + 1
      <4>1. pos + 1 \in 1 .. L + 1
        BY <1>2
      <4> QED  BY <2>6, <3>1, <4>1
    <3>2. CASE x # L + 1
      <4>1. x \in 1 .. L
        BY <3>2
      <4>2. PICK i \in 1 .. L : rt.kids[i] = x
        BY <1>1, <4>1
      <4>3. CASE i <= pos
        <5>1. i \in 1 .. pos /\ i \in 1 .. L + 1
          BY <1>2, <4>3
        <5> QED  BY <2>6, <4>2, <5>1
      <4>4. CASE ~(i <= pos)
        <5>1. i + 1 \in pos + 2 .. L + 1 /\ i + 1 \in 1 .. L + 1 /\ (i + 1) - 1 = i
          BY <1>2, <4>4
        <5> QED  BY <2>6, <4>2, <5>1
      <4> QED  BY <4>3, <4>4
    <3> QED  BY <3>1, <3>2
  <2> QED  BY <1>1, <2>3, <2>4, <2>5, <2>7
<1> HIDE DEF keys, kids
<1>5. WithChild(rt, k, L + 1) = [keys |-> keys, kids |-> kids]
  BY DEF WithChild, keys, kids, pos
<1>6. PICK r : r = WithChild(rt, k, L + 1) /\ r.keys = keys /\ r.kids = kids
  BY <1>5
<1>7. Len(keys) = (L + 1) - 1
  BY <1>3
<1>8. RootOK(r, L + 1)
  BY <1>3, <1>4, <1>6, <1>7 DEF RootOK
<1> QED  BY <1>6, <1>8

\* Storage::insert, without a split and with one.
LEMMA TableInsert ==
  ASSUME NEW ins, NEW lv, NEW rt, NEW cols, TableOK(ins, lv, rt, cols), NEW row, Accepts(row, cols),
         NEW cell, cell = [key |-> extract_key(row, cols), row |-> serialize(row, cols)],
         NEW p \in 1 .. Len(lv), leaf_free_space(lv[p]) >= Cost(cell)
  PROVE  TableOK(Append(ins, row), [lv EXCEPT ![p] = insert_into_leaf(lv[p], cell)], rt, cols)
<1>1. cell \in Cell /\ cell.row = serialize(row, cols)
  BY CellOf
<1>2. /\ RowsFit(ins, cols) /\ Stored(lv, Img(ins, cols)) /\ Chained(lv) /\ RootOK(rt, Len(lv))
      /\ Images(Img(ins, cols))
  BY TableTypes DEF TableOK
<1>3. /\ RowsFit(Append(ins, row), cols)
      /\ Grown(Img(Append(ins, row), cols), Img(ins, cols), serialize(row, cols))
  BY <1>2, RowsGrow
<1> DEFINE new == [lv EXCEPT ![p] = insert_into_leaf(lv[p], cell)]
<1>4. Stored(new, Img(Append(ins, row), cols)) /\ Chained(new) /\ Len(new) = Len(lv)
  BY <1>1, <1>2, <1>3, StoredInsert
<1> QED  BY <1>2, <1>3, <1>4 DEF TableOK

\* INSERT that splits a leaf keeps the table.
LEMMA TableSplit ==
  ASSUME NEW ins, NEW lv, NEW rt, NEW cols, TableOK(ins, lv, rt, cols), NEW row, Accepts(row, cols),
         NEW cell, cell = [key |-> extract_key(row, cols), row |-> serialize(row, cols)],
         NEW p \in 1 .. Len(lv), NEW d, NEW m, NEW right, SplitOf(lv[p], cell, d, m, right),
         NEW low, low = write_leaf_cells(lv[p], SubSeq(d, 1, m)),
         NEW high, high = write_leaf_cells(BlankPage, right)
  PROVE  TableOK(Append(ins, row), LeavesAfter(lv, p, low, high), WithChild(rt, right[1].key, Len(lv) + 1), cols)
<1>1. cell \in Cell /\ cell.row = serialize(row, cols)
  BY CellOf
<1>2. /\ RowsFit(ins, cols) /\ Stored(lv, Img(ins, cols)) /\ Chained(lv) /\ RootOK(rt, Len(lv))
      /\ Images(Img(ins, cols)) /\ Len(lv) \in Nat /\ Len(lv) >= 1
  BY TableTypes DEF TableOK
<1>3. /\ RowsFit(Append(ins, row), cols)
      /\ Grown(Img(Append(ins, row), cols), Img(ins, cols), serialize(row, cols))
  BY <1>2, RowsGrow
<1> DEFINE new == LeavesAfter(lv, p, low, high)
<1>4. /\ Stored(new, Img(Append(ins, row), cols)) /\ Chained(new)
      /\ Len(new) = Len(lv) + 1 /\ right[1].key \in Int
  <2> HIDE DEF new
  <2> QED  BY <1>1, <1>2, <1>3, StoredSplit DEF new
<1>5. RootOK(WithChild(rt, right[1].key, Len(lv) + 1), Len(lv) + 1)
  BY <1>2, <1>4, RootGrows
<1> HIDE DEF new
<1> QED  BY <1>3, <1>4, <1>5 DEF TableOK, new

-----------------------------------------------------------------------------
(***************************************************************************)
(* select_all.                                                             *)
(***************************************************************************)
\* h takes each of 1 .. m to another one of 1 .. n, and to all of them.
Permutes(h, m, n) ==
  /\ h \in [1 .. m -> 1 .. n]
  /\ \A i, j \in 1 .. m : h[i] = h[j] => i = j
  /\ \A x \in 1 .. n : \E i \in 1 .. m : h[i] = x

\* rows are the rows ins, in some order.
Reads(rows, ins) ==
  \E h : Permutes(h, Len(rows), Len(ins)) /\ \A i \in 1 .. Len(rows) : rows[i] = ins[h[i]]

RowsOfPage(page) == [i \in 1 .. NumCells(page) |-> CellRow(page, i)]

\* The rows of a page, read from its cells.
LEMMA PageRows ==
  ASSUME NEW page, NEW places, NEW img, PageShows(page, places, img)
  PROVE  /\ RowsOfPage(page) \in Seq(Seq(Int)) /\ Len(RowsOfPage(page)) = Len(places)
         /\ \A j \in 1 .. Len(places) : RowsOfPage(page)[j] = img[places[j]]
<1>1. PICK cells : PageHolds(page, cells) /\ Shown(cells, places, img)
  BY DEF PageShows
<1>2. PICK n \in Nat : n = Len(cells)
  BY <1>1, PageHoldsProperties
<1>3. /\ PageShape(page) /\ cells \in Seq(Cell) /\ n = page[1] /\ NumCells(page) = n
      /\ collect_leaf_cells(page) = cells
  BY <1>1, <1>2, PageHoldsProperties
<1>4. \A i \in 1 .. n : CellRow(page, i) = cells[i].row
  BY <1>3, CollectProperties
<1>5. Len(places) = n /\ \A j \in 1 .. n : cells[j].row = img[places[j]]
  BY <1>1, <1>2 DEF Shown
<1>6. \A i \in 1 .. n : cells[i].row \in Seq(Int)
  <2>1. cells \in Seq(Cell) /\ n = Len(cells)
    BY <1>2, <1>3
  <2>2. \A i \in 1 .. n : cells[i] \in Cell
    BY <2>1
  <2> QED  BY <2>2, CellCost
<1>7. RowsOfPage(page) = [i \in 1 .. n |-> CellRow(page, i)]
  BY <1>3 DEF RowsOfPage
<1>8. RowsOfPage(page) \in Seq(Seq(Int)) /\ Len(RowsOfPage(page)) = n
  BY <1>4, <1>6, <1>7
<1> QED  BY <1>4, <1>5, <1>7, <1>8

\* The recursive function of scan_all.
ChainStep(lv, rt, f, i) == IF i = 1 THEN rt.kids[1] ELSE NextLeaf(lv[f[i - 1]])

\* The leaves that select_all visits, one at a time.
LEMMA ScanUnfold ==
  ASSUME NEW t, \E g : g = [i \in 1 .. Len(leaves[t]) |-> ChainStep(leaves[t], Root(t), g, i)]
  PROVE  \E f : /\ f = [i \in 1 .. Len(leaves[t]) |-> ChainStep(leaves[t], Root(t), f, i)]
                /\ scan_all(t) = FlattenSeq([i \in 1 .. Len(leaves[t]) |-> RowsOfPage(leaves[t][f[i]])])
<1> DEFINE P(f) == f = [i \in 1 .. Len(leaves[t]) |-> ChainStep(leaves[t], Root(t), f, i)]
           f0 == CHOOSE f : P(f)
<1>1. P(f0)
  BY Zenon
<1>2. scan_all(t) = FlattenSeq([i \in 1 .. Len(leaves[t]) |-> RowsOfPage(leaves[t][f0[i]])])
  BY Zenon DEF scan_all, ChainStep, RowsOfPage
<1> QED  BY <1>1, <1>2, Zenon

\* The chain of scan_all is the chain of the leaves.
LEMMA ScanChain ==
  ASSUME NEW t, NEW lv, lv = leaves[t], NEW rt, rt = Root(t), NEW L \in Nat, L = Len(lv),
         NEW ord, ChainedBy(lv, ord), rt.kids[1] = 1
  PROVE  scan_all(t) = FlattenSeq([i \in 1 .. L |-> RowsOfPage(lv[ord[i]])])
<1>1. ord \in Seq(1 .. L) /\ Len(ord) = L /\ L >= 1 /\ ord[1] = 1
  BY DEF ChainedBy
<1>2. \A i \in 1 .. L - 1 : lv[ord[i]][2] = ord[i + 1]
  BY DEF ChainedBy
<1>3. ASSUME NEW i \in 1 .. L PROVE ord[i] = ChainStep(lv, rt, ord, i)
  <2>1. CASE i = 1
    BY <1>1, <2>1 DEF ChainStep
  <2>2. CASE i # 1
    <3>1. i - 1 \in 1 .. L - 1 /\ (i - 1) + 1 = i
      BY <2>2
    <3>2. lv[ord[i - 1]][2] = ord[(i - 1) + 1]
      BY <1>2, <3>1
    <3> QED  BY <2>2, <3>1, <3>2 DEF ChainStep, NextLeaf
  <2> QED  BY <2>1, <2>2
<1>4. ord = [i \in 1 .. L |-> ord[i]]
  BY <1>1
<1>5. ord = [i \in 1 .. L |-> ChainStep(lv, rt, ord, i)]
  BY <1>3, <1>4
<1>6. PICK f : /\ f = [i \in 1 .. L |-> ChainStep(lv, rt, f, i)]
               /\ scan_all(t) = FlattenSeq([i \in 1 .. L |-> RowsOfPage(lv[f[i]])])
  <2>1. \E g : g = [i \in 1 .. Len(leaves[t]) |-> ChainStep(leaves[t], Root(t), g, i)]
    BY <1>5
  <2>2. \E f : /\ f = [i \in 1 .. Len(leaves[t]) |-> ChainStep(leaves[t], Root(t), f, i)]
               /\ scan_all(t) = FlattenSeq([i \in 1 .. Len(leaves[t]) |-> RowsOfPage(leaves[t][f[i]])])
    BY <2>1, ScanUnfold, Zenon
  <2> QED  BY <2>2
<1>7. \A i \in 1 .. L : f[i] = ChainStep(lv, rt, f, i)
  BY <1>6
<1> DEFINE T == {i \in 1 .. L : f[i] = ord[i]}
<1>8. 1 \in T
  <2>1. 1 \in 1 .. L
    BY <1>1
  <2>2. f[1] = ChainStep(lv, rt, f, 1)
    BY <1>7, <2>1
  <2> QED  BY <1>1, <2>1, <2>2 DEF ChainStep
<1>9. ASSUME NEW i \in 1 .. L - 1, i \in T PROVE i + 1 \in T
  <2>1. i + 1 \in 1 .. L /\ (i + 1) - 1 = i /\ i + 1 # 1
    OBVIOUS
  <2>2. f[i + 1] = NextLeaf(lv[f[(i + 1) - 1]])
    BY <1>7, <2>1 DEF ChainStep
  <2>3. ord[i + 1] = NextLeaf(lv[ord[(i + 1) - 1]])
    BY <1>3, <2>1 DEF ChainStep
  <2>4. f[i] = ord[i]
    BY <1>9
  <2> QED  BY <2>1, <2>2, <2>3, <2>4
<1>10. 1 .. L \subseteq T
  <2> HIDE DEF T
  <2>1. 1 \in Int /\ L \in Int
    OBVIOUS
  <2> QED  BY <1>8, <1>9, <2>1, Induction
<1>11. \A i \in 1 .. L : f[i] = ord[i]
  BY <1>10
<1>12. [i \in 1 .. L |-> RowsOfPage(lv[f[i]])] = [i \in 1 .. L |-> RowsOfPage(lv[ord[i]])]
  BY <1>11
<1> QED  BY <1>6, <1>12

\* scan_all reads each row once.
LEMMA ScanReads ==
  ASSUME NEW t, NEW lv, lv = leaves[t], NEW rt, rt = Root(t), rt.kids[1] = 1,
         NEW img, Stored(lv, img), Chained(lv)
  PROVE  Reads(scan_all(t), img) /\ scan_all(t) \in Seq(Seq(Int))
<1>1. PICK ids : StoredAs(lv, ids, img)
  BY DEF Stored
<1>2. PICK ord : ChainedBy(lv, ord)
  BY DEF Chained
<1>3. PICK L \in Nat, n \in Nat : L = Len(lv) /\ n = Len(img)
  BY <1>1, StoredTypes
<1>4. Arranged(ids, n) /\ Len(ids) = L
  BY <1>1, <1>3 DEF StoredAs
<1>5. \A p \in 1 .. L : PageShows(lv[p], ids[p], img)
  BY <1>1, <1>3, StoredTypes
<1>6. L >= 1 /\ \A i \in 1 .. L : ord[i] \in 1 .. L
  BY <1>2, <1>3, ChainTypes
<1>7. \A i, j \in 1 .. L : ord[i] = ord[j] => i = j
  BY <1>2, <1>3 DEF ChainedBy
<1>8. \A p \in 1 .. L : \E i \in 1 .. L : ord[i] = p
  BY <1>2, <1>3 DEF ChainedBy
<1> DEFINE ss == [i \in 1 .. L |-> RowsOfPage(lv[ord[i]])]
           raw == scan_all(t)
<1>9. raw = FlattenSeq(ss)
  <2>1. L \in Nat /\ L = Len(lv)
    BY <1>3
  <2> QED  BY <1>2, <2>1, ScanChain
<1>10. ASSUME NEW i \in 1 .. L
       PROVE  /\ ss[i] \in Seq(Seq(Int)) /\ Len(ss[i]) = Len(ids[ord[i]])
              /\ \A j \in 1 .. Len(ids[ord[i]]) : ss[i][j] = img[ids[ord[i]][j]]
  <2>1. PageShows(lv[ord[i]], ids[ord[i]], img)
    BY <1>5, <1>6
  <2>2. ss[i] = RowsOfPage(lv[ord[i]])
    OBVIOUS
  <2> HIDE DEF ss
  <2> QED  BY <2>1, <2>2, PageRows
<1>11. ss \in Seq(Seq(Seq(Int))) /\ Len(ss) = L
  <2>1. ss = [i \in 1 .. L |-> ss[i]]
    OBVIOUS
  <2> HIDE DEF ss
  <2> QED  BY <1>10, <2>1
<1> HIDE DEF ss, raw
<1>12. raw \in Seq(Seq(Int)) /\ IsFlat(raw, ss, L)
  BY <1>6, <1>9, <1>11, FlattenProperties
<1>13. PICK m \in Nat : m = Len(raw)
  BY <1>12
<1>14. PICK seg \in [1 .. m -> Nat], off \in [1 .. m -> Nat] : FlatOf(raw, ss, L, seg, off)
  BY <1>12, <1>13 DEF IsFlat
<1>15. \A r \in 1 .. m : seg[r] \in 1 .. L /\ off[r] \in 1 .. Len(ss[seg[r]]) /\ raw[r] = ss[seg[r]][off[r]]
  BY <1>13, <1>14 DEF FlatOf
<1>16. \A r, q \in 1 .. m : r < q => seg[r] < seg[q] \/ (seg[r] = seg[q] /\ off[r] < off[q])
  BY <1>13, <1>14 DEF FlatOf
<1>17. \A i \in 1 .. L : \A j \in 1 .. Len(ss[i]) : \E r \in 1 .. m : seg[r] = i /\ off[r] = j
  BY <1>13, <1>14 DEF FlatOf
<1> DEFINE h == [r \in 1 .. m |-> ids[ord[seg[r]]][off[r]]]
<1>18. ASSUME NEW r \in 1 .. m
       PROVE  /\ h[r] = ids[ord[seg[r]]][off[r]] /\ ord[seg[r]] \in 1 .. L /\ seg[r] \in 1 .. L
              /\ off[r] \in 1 .. Len(ids[ord[seg[r]]]) /\ h[r] \in 1 .. n /\ raw[r] = img[h[r]]
  <2>1. h[r] = ids[ord[seg[r]]][off[r]]
    OBVIOUS
  <2> HIDE DEF h
  <2>2. seg[r] \in 1 .. L /\ off[r] \in 1 .. Len(ss[seg[r]]) /\ raw[r] = ss[seg[r]][off[r]]
    BY <1>15
  <2>3. ord[seg[r]] \in 1 .. L
    BY <1>6, <2>2
  <2>4. off[r] \in 1 .. Len(ids[ord[seg[r]]]) /\ raw[r] = img[ids[ord[seg[r]]][off[r]]]
    BY <1>10, <2>2
  <2>5. ids[ord[seg[r]]][off[r]] \in 1 .. n
    BY <1>4, <2>3, <2>4, ArrangedTypes
  <2> QED  BY <2>1, <2>2, <2>3, <2>4, <2>5
<1>19. h \in [1 .. m -> 1 .. n]
  <2>1. h = [r \in 1 .. m |-> h[r]]
    OBVIOUS
  <2> HIDE DEF h
  <2> QED  BY <1>18, <2>1
<1> HIDE DEF h
<1>20. ASSUME NEW r \in 1 .. m, NEW q \in 1 .. m, h[r] = h[q] PROVE r = q
  <2>1. PICK a, b, c, d : a = ord[seg[r]] /\ b = ord[seg[q]] /\ c = off[r] /\ d = off[q]
    OBVIOUS
  <2>2. a \in 1 .. Len(ids) /\ b \in 1 .. Len(ids) /\ c \in 1 .. Len(ids[a]) /\ d \in 1 .. Len(ids[b])
    BY <1>4, <1>18, <2>1
  <2>3. ids[a][c] = ids[b][d]
    BY <1>18, <1>20, <2>1
  <2>0. Arranged(ids, n)
    BY <1>4
  <2>4. a = b /\ c = d
    <3>1. \A e, f \in 1 .. Len(ids) : \A i \in 1 .. Len(ids[e]) : \A l \in 1 .. Len(ids[f]) :
            ids[e][i] = ids[f][l] => e = f /\ i = l
      BY <2>0, ArrangedUnique, Zenon
    <3>2. \A i \in 1 .. Len(ids[a]) : \A l \in 1 .. Len(ids[b]) :
            ids[a][i] = ids[b][l] => a = b /\ i = l
      BY <2>2, <3>1, Zenon
    <3> QED  BY <2>2, <2>3, <3>2, Zenon
  <2>5. seg[r] = seg[q] /\ off[r] = off[q]
    BY <1>7, <1>18, <2>1, <2>4, ZenonT(40)
  <2>6. ~(r < q)
    BY <1>14, <1>16, <2>5, SMTT(30)
  <2>7. ~(q < r)
    BY <1>14, <1>16, <2>5
  <2> QED  BY <2>6, <2>7
<1>21. ASSUME NEW x \in 1 .. n PROVE \E r \in 1 .. m : h[r] = x
  <2>1. PICK p \in 1 .. L : \E j \in 1 .. Len(ids[p]) : ids[p][j] = x
    BY <1>4 DEF Arranged
  <2>2. PICK j \in 1 .. Len(ids[p]) : ids[p][j] = x
    BY <2>1
  <2>3. PICK i \in 1 .. L : ord[i] = p
    BY <1>8
  <2>4. j \in 1 .. Len(ss[i])
    BY <1>10, <2>3
  <2>5. PICK r \in 1 .. m : seg[r] = i /\ off[r] = j
    BY <1>17, <2>4
  <2> QED  BY <1>18, <2>2, <2>3, <2>5
<1>22. Permutes(h, m, n)
  BY <1>19, <1>20, <1>21 DEF Permutes
<1>23. Reads(raw, img)
  BY <1>3, <1>13, <1>18, <1>22 DEF Reads
<1> QED  BY <1>12, <1>23 DEF raw

\* select_all reads each row that was inserted, once.
LEMMA SelectAll ==
  ASSUME NEW t, NEW ins, NEW cols, TableOK(ins, leaves[t], Root(t), cols), columns[t] = cols
  PROVE  /\ select_all(t).headers = [i \in DOMAIN cols |-> cols[i].name]
         /\ select_all(t).rows \in Seq(Rows) /\ Reads(select_all(t).rows, ins)
<1> DEFINE raw == scan_all(t)
           rows == select_all(t).rows
           img == Img(ins, cols)
<1>1. RowsFit(ins, cols) /\ Stored(leaves[t], img) /\ Chained(leaves[t]) /\ Root(t).kids[1] = 1
  BY DEF TableOK, RootOK
<1>2. Reads(raw, img) /\ raw \in Seq(Seq(Int))
  BY <1>1, ScanReads
<1>3. PICK n \in Nat : /\ n = Len(ins) /\ DOMAIN ins = 1 .. n /\ ins \in Seq(Rows)
                       /\ \A i \in 1 .. n : ins[i] \in Rows /\ Fits(ins[i], cols)
  BY <1>1 DEF RowsFit
<1>4. img = [i \in 1 .. n |-> serialize(ins[i], cols)]
  BY <1>3 DEF Img
<1> HIDE DEF img
<1>5. Len(img) = n
  BY <1>4
<1>6. PICK m \in Nat : m = Len(raw) /\ DOMAIN raw = 1 .. m
  BY <1>2
<1>7. PICK h : Permutes(h, m, n) /\ \A i \in 1 .. m : raw[i] = img[h[i]]
  BY <1>2, <1>5, <1>6 DEF Reads
<1>8. rows = [i \in DOMAIN raw |-> deserialize(raw[i], columns[t])]
      /\ select_all(t).headers = [i \in DOMAIN columns[t] |-> columns[t][i].name]
  BY DEF select_all
<1> HIDE DEF rows, raw
<1>9. ASSUME NEW i \in 1 .. m PROVE rows[i] = ins[h[i]] /\ h[i] \in 1 .. n
  <2>1. h[i] \in 1 .. n
    BY <1>7 DEF Permutes
  <2>2. raw[i] = serialize(ins[h[i]], cols)
    BY <1>4, <1>7, <2>1
  <2>3. rows[i] = deserialize(raw[i], cols)
    BY <1>6, <1>8
  <2>4. Fits(ins[h[i]], cols)
    BY <1>3, <2>1
  <2> QED  BY <2>1, <2>2, <2>3, <2>4, CodecInverse
<1>10. rows = [i \in 1 .. m |-> rows[i]]
  BY <1>6, <1>8
<1>11. rows \in Seq(Rows) /\ Len(rows) = m
  <2>1. \A i \in 1 .. m : rows[i] \in Rows
    BY <1>3, <1>9
  <2> QED  BY <1>10, <2>1
<1>12. Reads(rows, ins)
  BY <1>3, <1>7, <1>9, <1>11 DEF Reads
<1> QED  BY <1>8, <1>11, <1>12 DEF rows

-----------------------------------------------------------------------------
(***************************************************************************)
(* The invariant of the tables.                                            *)
(***************************************************************************)
\* The pages of the tables: each metadata page names the table's root and its
\* columns, and the leaves under that root have the rows that were inserted.
TablesAre(ins, lv, rt, page, mt) ==
  /\ page \in [Tables -> {FirstLeaf, InternalRoot}]
  /\ mt = [t \in Tables |-> write_metadata(page[t], Schemas[t])]
  /\ lv = [t \in Tables |-> lv[t]]
  /\ rt = [t \in Tables |-> rt[t]]
  /\ ins = [t \in Tables |-> ins[t]]
  /\ \A t \in Tables : TableOK(ins[t], lv[t], NodeAt(rt[t], page[t]), Schemas[t])

\* The pages that a ROLLBACK would bring back.
SavedOK(sv) ==
  \/ sv = <<>>
  \/ \E p, page : sv = <<p>> /\ TablesAre(p.inserted, p.leaves, p.root, page, p.meta)

\* Every table has the columns it was created with, and so have its pages, those
\* in the cache and those of the last commit.
StorageInv ==
  /\ columns = Schemas
  /\ TablesAre(inserted, leaves, root, root_page, meta)
  /\ SavedOK(saved)

\* The columns of a table, of the assumption.
LEMMA SchemaTypes ==
  /\ Schemas = [t \in Tables |-> Schemas[t]]
  /\ \A t \in Tables : Schemas[t] \in Cols /\ NamesFit(Schemas[t])
BY QueryAssumption DEF Cols, Types, NamesFit

\* No row, and one leaf.
LEMMA TableInit ==
  ASSUME NEW cols \in Cols
  PROVE  TableOK(<<>>, <<init_leaf(BlankPage)>>, [keys |-> <<>>, kids |-> <<1>>], cols)
<1> DEFINE page == init_leaf(BlankPage)
           lv == <<page>>
           rt == [keys |-> <<>>, kids |-> <<1>>]
<1>1. PageHolds(page, <<>>)
  BY BlankIsPage, InitLeafHolds
<1>2. page \in PageWords
  BY <1>1, PageHoldsProperties
<1> HIDE DEF page
<1>3. PICK none \in Seq(Seq(Int)) : none = <<>>
  BY EmptySeq, Zenon
<1>4. Img(<<>>, cols) = <<>>
  BY DEF Img
<1>5. Images(<<>>)
  BY <1>3 DEF Images
<1>6. PageShows(page, <<>>, <<>>)
  BY <1>1 DEF PageShows, Shown
<1> DEFINE ids == << <<>> >>
<1>7. Arranged(ids, 0) /\ Len(ids) = 1 /\ ids[1] = <<>>
  <2>1. PICK e \in Seq(1 .. 0) : e = <<>>
    BY EmptySeq, Zenon
  <2>2. << e >> \in Seq(Seq(1 .. 0)) /\ Len(<< e >>) = 1 /\ << e >>[1] = e /\ Len(e) = 0
    BY <2>1
  <2>3. Arranged(<< e >>, 0)
    BY <2>2 DEF Arranged
  <2> QED  BY <2>1, <2>2, <2>3
<1> HIDE DEF ids
<1>8. lv \in Seq(PageWords) /\ Len(lv) = 1 /\ lv[1] = page
  BY <1>2
<1>9. StoredAs(lv, ids, <<>>)
  <2>1. Len(<<>>) = 0
    OBVIOUS
  <2>2. \A p \in 1 .. Len(ids) : PageShows(lv[p], ids[p], <<>>)
    BY <1>6, <1>7, <1>8
  <2> QED  BY <1>5, <1>7, <1>8, <2>1, <2>2 DEF StoredAs
<1>10. Chained(lv)
  <2> DEFINE ord == <<1>>
  <2>1. ord \in Seq(1 .. 1) /\ Len(ord) = 1 /\ ord[1] = 1
    OBVIOUS
  <2> HIDE DEF ord
  <2>2. ChainedBy(lv, ord)
    BY <1>8, <2>1 DEF ChainedBy
  <2> QED  BY <2>2 DEF Chained
<1>11. RootOK(rt, 1)
  <2>1. PICK keys \in Seq(Int) : keys = <<>>
    BY EmptySeq, Zenon
  <2>2. Len(keys) = 0
    BY <2>1
  <2> DEFINE kids == <<1>>
  <2>3. /\ kids \in Seq(1 .. 1) /\ Len(kids) = 1 /\ kids[1] = 1
        /\ \A x \in 1 .. 1 : \E i \in 1 .. 1 : kids[i] = x
    OBVIOUS
  <2>4. rt.keys = keys /\ rt.kids = kids
    BY <2>1
  <2> HIDE DEF rt, kids
  <2> QED  BY <2>2, <2>3, <2>4 DEF RootOK
<1>12. RowsFit(<<>>, cols)
  <2>1. PICK r \in Seq(Rows) : r = <<>>
    BY EmptySeq, Zenon
  <2>2. Len(r) = 0
    BY <2>1
  <2> QED  BY <2>1, <2>2 DEF RowsFit
<1> HIDE DEF rt, lv
<1>13. TableOK(<<>>, lv, rt, cols)
  BY <1>4, <1>8, <1>9, <1>10, <1>11, <1>12 DEF TableOK, Stored
<1> QED  BY <1>13 DEF lv, rt, page

\* The pages that a root may have are numbers.
LEMMA RootPages == FirstLeaf \in Nat /\ InternalRoot \in Nat /\ FirstLeaf # InternalRoot
BY DEF FirstLeaf, InternalRoot

\* The invariant holds of tables that were just created.
LEMMA StorageInit == Init => StorageInv
<1> SUFFICES ASSUME Init PROVE StorageInv
  OBVIOUS
<1>1. /\ columns = Schemas
      /\ meta = [t \in Tables |-> write_metadata(FirstLeaf, Schemas[t])]
      /\ leaves = [t \in Tables |-> <<init_leaf(BlankPage)>>]
      /\ root = [t \in Tables |-> NoNode]
      /\ inserted = [t \in Tables |-> <<>>]
      /\ root_page = [t \in Tables |-> FirstLeaf]
      /\ saved = <<>>
  BY DEF Init
<1>2. ASSUME NEW t \in Tables PROVE TableOK(inserted[t], leaves[t], NodeAt(root[t], root_page[t]), Schemas[t])
  <2>1. TableOK(<<>>, <<init_leaf(BlankPage)>>, OnlyLeaf, Schemas[t])
    BY SchemaTypes, TableInit DEF OnlyLeaf
  <2>2. inserted[t] = <<>> /\ leaves[t] = <<init_leaf(BlankPage)>> /\ root_page[t] = FirstLeaf
    BY <1>1
  <2>3. NodeAt(root[t], root_page[t]) = OnlyLeaf
    BY <2>2, RootPages DEF NodeAt
  <2> QED  BY <2>1, <2>2, <2>3
<1>3. /\ leaves = [t \in Tables |-> leaves[t]]
      /\ root = [t \in Tables |-> root[t]]
      /\ inserted = [t \in Tables |-> inserted[t]]
      /\ root_page \in [Tables -> {FirstLeaf, InternalRoot}]
      /\ meta = [t \in Tables |-> write_metadata(root_page[t], Schemas[t])]
  BY <1>1
<1>4. TablesAre(inserted, leaves, root, root_page, meta)
  BY <1>2, <1>3 DEF TablesAre
<1> QED  BY <1>1, <1>4 DEF StorageInv, SavedOK

\* A table in a state with the invariant.
LEMMA TableOf ==
  ASSUME StorageInv, NEW t \in Tables
  PROVE  /\ columns[t] = Schemas[t] /\ TableOK(inserted[t], leaves[t], Root(t), Schemas[t])
         /\ root_page[t] \in {FirstLeaf, InternalRoot}
         /\ meta[t] = write_metadata(root_page[t], Schemas[t])
BY DEF StorageInv, TablesAre, Root

\* INSERT takes a row that fits and is short enough.
LEMMA AcceptsRow ==
  ASSUME StorageInv, NEW t \in Tables, NEW row \in Rows, MayInsert(t, row)
  PROVE  Accepts(row, Schemas[t])
<1>1. columns[t] = Schemas[t] /\ Schemas[t] \in Cols
  BY SchemaTypes DEF StorageInv
<1>2. TypeChecks(row, Schemas[t]) /\ Len(serialize(row, Schemas[t])) <= max_row_data_size
  BY <1>1 DEF MayInsert
<1>3. row \in Seq(Value) /\ \A i \in DOMAIN row : row[i].type = "INTEGER" => Len(row[i].v) = 1
  BY QueryAssumption DEF Value, Types
<1> QED  BY <1>1, <1>2, <1>3 DEF Accepts, Fits

\* An INSERT into a leaf with room keeps the invariant.
LEMMA InsertStores ==
  ASSUME StorageInv, NEW t \in Tables, NEW row \in Rows, Insert(t, row)
  PROVE  StorageInv'
<1> DEFINE cols == Schemas[t]
           cell == [key |-> extract_key(row, cols), row |-> serialize(row, cols)]
           lv == leaves[t]
           rt == Root(t)
           ins == inserted[t]
           p == LeafFor(t, cell)
<1>1. columns[t] = cols /\ TableOK(ins, lv, rt, cols)
  BY TableOf
<1>2. cell = NewCell(t, row)
  BY <1>1 DEF NewCell
<1>3. Accepts(row, cols)
  BY AcceptsRow DEF Insert
<1>4. p \in 1 .. Len(lv)
  <2>1. RootOK(rt, Len(lv)) /\ Len(lv) \in Nat /\ Len(lv) >= 1
    <3> HIDE DEF lv, rt, ins, cols
    <3> QED BY <1>1, TableTypes DEF TableOK
  <2>2. p = rt.kids[Position(rt.keys, cell.key)]
    BY DEF LeafFor
  <2> HIDE DEF lv, rt, p, cell
  <2> QED  BY <2>1, <2>2, LeafIn
<1>5. leaf_free_space(lv[p]) >= Cost(cell)
  BY <1>2 DEF Insert
<1>6. /\ leaves' = [leaves EXCEPT ![t][p] = insert_into_leaf(@, cell)]
      /\ inserted' = [inserted EXCEPT ![t] = Append(@, row)]
      /\ columns' = columns /\ meta' = meta /\ root' = root /\ root_page' = root_page /\ saved' = saved
  BY <1>2 DEF Insert, AddRow
<1> DEFINE new == [lv EXCEPT ![p] = insert_into_leaf(lv[p], cell)]
<1>7. TableOK(Append(ins, row), new, rt, cols)
  <2>1. PICK c : c = cell
    OBVIOUS
  <2>2. TableOK(Append(ins, row), [lv EXCEPT ![p] = insert_into_leaf(lv[p], c)], rt, cols)
    <3>1. /\ TableOK(ins, lv, rt, cols) /\ Accepts(row, cols) /\ p \in 1 .. Len(lv)
          /\ c = [key |-> extract_key(row, cols), row |-> serialize(row, cols)]
          /\ leaf_free_space(lv[p]) >= Cost(c)
      BY <1>1, <1>3, <1>4, <1>5, <2>1
    <3> HIDE DEF cols, lv, rt, ins, p, cell
    <3> QED  BY <3>1, TableInsert
  <2> QED  BY <2>1, <2>2
<1>8. /\ leaves = [u \in Tables |-> leaves[u]]
      /\ root = [u \in Tables |-> root[u]]
      /\ inserted = [u \in Tables |-> inserted[u]]
  BY DEF StorageInv, TablesAre
<1>9. leaves' = [u \in Tables |-> IF u = t THEN new ELSE leaves[u]]
  <2> HIDE DEF p, cell
  <2> QED  BY <1>6, <1>8
<1>10. inserted' = [u \in Tables |-> IF u = t THEN Append(ins, row) ELSE inserted[u]]
  BY <1>6, <1>8
<1> HIDE DEF new
<1>11. ASSUME NEW u \in Tables PROVE TableOK(inserted'[u], leaves'[u], NodeAt(root[u], root_page[u]), Schemas[u])
  <2>1. CASE u = t
    BY <1>7, <1>9, <1>10, <2>1 DEF Root
  <2>2. CASE u # t
    <3>1. TableOK(inserted[u], leaves[u], NodeAt(root[u], root_page[u]), Schemas[u])
      BY TableOf DEF Root
    <3>2. inserted'[u] = inserted[u] /\ leaves'[u] = leaves[u]
      BY <1>9, <1>10, <2>2
    <3> QED  BY <3>1, <3>2
  <2> QED  BY <2>1, <2>2
<1>12. leaves' = [u \in Tables |-> leaves'[u]] /\ inserted' = [u \in Tables |-> inserted'[u]]
  BY <1>9, <1>10
<1>13. /\ root_page \in [Tables -> {FirstLeaf, InternalRoot}] /\ columns = Schemas /\ SavedOK(saved)
       /\ meta = [u \in Tables |-> write_metadata(root_page[u], Schemas[u])]
  BY DEF StorageInv, TablesAre
<1>14. TablesAre(inserted', leaves', root, root_page, meta)
  BY <1>8, <1>11, <1>12, <1>13 DEF TablesAre
<1> QED  BY <1>6, <1>13, <1>14 DEF StorageInv

\* An INSERT that splits a leaf keeps the invariant.
LEMMA SplitStores ==
  ASSUME StorageInv, NEW t \in Tables, NEW row \in Rows, InsertSplits(t, row)
  PROVE  StorageInv'
<1> DEFINE cols == Schemas[t]
           cell == [key |-> extract_key(row, cols), row |-> serialize(row, cols)]
           lv == leaves[t]
           rt == Root(t)
           ins == inserted[t]
           p == LeafFor(t, cell)
           d == Overfull(lv[p], cell)
           m == LeftCount(d)
           right == SubSeq(d, m + 1, Len(d))
           low == write_leaf_cells(lv[p], SubSeq(d, 1, m))
           high == write_leaf_cells(BlankPage, right)
<1>1. columns[t] = cols /\ TableOK(ins, lv, rt, cols)
  BY TableOf
<1>2. cell = NewCell(t, row)
  BY <1>1 DEF NewCell
<1>3. Accepts(row, cols)
  BY AcceptsRow DEF InsertSplits
<1>4. p \in 1 .. Len(lv)
  <2>1. RootOK(rt, Len(lv)) /\ Len(lv) \in Nat /\ Len(lv) >= 1
    <3> HIDE DEF lv, rt, ins, cols
    <3> QED BY <1>1, TableTypes DEF TableOK
  <2>2. p = rt.kids[Position(rt.keys, cell.key)]
    BY DEF LeafFor
  <2> HIDE DEF lv, rt, p, cell
  <2> QED  BY <2>1, <2>2, LeafIn
<1>5. SplitOf(lv[p], cell, d, m, right)
  BY <1>2, Zenon DEF InsertSplits, SplitOf, HeaderSize
<1>6. /\ leaves' = [leaves EXCEPT ![t] =
                      Append([@ EXCEPT ![p] = Store(low, 2, <<Len(lv) + 1>>)], Store(high, 2, <<NextLeaf(lv[p])>>))]
      /\ root' = [root EXCEPT ![t] = WithChild(rt, right[1].key, Len(lv) + 1)]
      /\ root_page' = [root_page EXCEPT ![t] = InternalRoot]
      /\ inserted' = [inserted EXCEPT ![t] = Append(@, row)]
      /\ columns' = columns /\ saved' = saved
      /\ meta' = MetaWithRoot(t, InternalRoot)
  BY <1>2, Zenon DEF InsertSplits, AddRow
<1> DEFINE new == LeavesAfter(lv, p, low, high)
           top == WithChild(rt, right[1].key, Len(lv) + 1)
<1>7. TableOK(Append(ins, row), new, top, cols)
  <2>1. /\ TableOK(ins, lv, rt, cols) /\ Accepts(row, cols) /\ p \in 1 .. Len(lv)
        /\ cell = [key |-> extract_key(row, cols), row |-> serialize(row, cols)]
        /\ SplitOf(lv[p], cell, d, m, right)
        /\ low = write_leaf_cells(lv[p], SubSeq(d, 1, m)) /\ high = write_leaf_cells(BlankPage, right)
    BY <1>1, <1>3, <1>4, <1>5
  <2> HIDE DEF cols, cell, lv, rt, ins, p, d, m, right, low, high
  <2> QED  BY <2>1, TableSplit
<1>8. /\ leaves = [u \in Tables |-> leaves[u]]
      /\ root = [u \in Tables |-> root[u]]
      /\ inserted = [u \in Tables |-> inserted[u]]
      /\ meta = [u \in Tables |-> write_metadata(root_page[u], Schemas[u])]
      /\ root_page \in [Tables -> {FirstLeaf, InternalRoot}]
      /\ columns = Schemas /\ SavedOK(saved)
  BY DEF StorageInv, TablesAre
<1>9. leaves' = [u \in Tables |-> IF u = t THEN new ELSE leaves[u]]
  <2>1. new = Append([leaves[t] EXCEPT ![p] = Store(low, 2, <<Len(lv) + 1>>)], Store(high, 2, <<NextLeaf(lv[p])>>))
    BY DEF LeavesAfter, NextLeaf
  <2> HIDE DEF new, p, d, m, right, low, high
  <2> QED  BY <1>6, <1>8, <2>1
<1> HIDE DEF new
<1>10. /\ root' = [u \in Tables |-> IF u = t THEN top ELSE root[u]]
       /\ inserted' = [u \in Tables |-> IF u = t THEN Append(ins, row) ELSE inserted[u]]
       /\ root_page' = [u \in Tables |-> IF u = t THEN InternalRoot ELSE root_page[u]]
  <2> HIDE DEF p, d, m, right, low, high, rt
  <2> QED  BY <1>6, <1>8
<1>11. meta' = [u \in Tables |-> write_metadata(root_page'[u], Schemas[u])]
  <2>1. CASE InternalRoot = root_page[t]
    <3>1. meta' = meta
      BY <1>6, <2>1 DEF MetaWithRoot
    <3>2. \A u \in Tables : root_page'[u] = root_page[u]
      BY <1>10, <2>1
    <3> QED  BY <1>8, <3>1, <3>2
  <2>2. CASE InternalRoot # root_page[t]
    <3>1. meta' = [meta EXCEPT ![t] = write_metadata(InternalRoot, cols)]
      BY <1>1, <1>6, <2>2 DEF MetaWithRoot
    <3> QED  BY <1>8, <1>10, <3>1
  <2> QED  BY <2>1, <2>2
<1> HIDE DEF top
<1>12. ASSUME NEW u \in Tables PROVE TableOK(inserted'[u], leaves'[u], NodeAt(root'[u], root_page'[u]), Schemas[u])
  <2>1. CASE u = t
    <3>1. NodeAt(root'[u], root_page'[u]) = top
      BY <1>10, <2>1 DEF NodeAt
    <3> QED  BY <1>7, <1>9, <1>10, <2>1, <3>1
  <2>2. CASE u # t
    <3>1. TableOK(inserted[u], leaves[u], NodeAt(root[u], root_page[u]), Schemas[u])
      BY TableOf DEF Root
    <3>2. inserted'[u] = inserted[u] /\ leaves'[u] = leaves[u] /\ root'[u] = root[u] /\ root_page'[u] = root_page[u]
      BY <1>9, <1>10, <2>2
    <3> QED  BY <3>1, <3>2
  <2> QED  BY <2>1, <2>2
<1>13. /\ leaves' = [u \in Tables |-> leaves'[u]] /\ root' = [u \in Tables |-> root'[u]]
       /\ inserted' = [u \in Tables |-> inserted'[u]]
       /\ root_page' \in [Tables -> {FirstLeaf, InternalRoot}]
  BY <1>8, <1>9, <1>10
<1>14. TablesAre(inserted', leaves', root', root_page', meta')
  BY <1>11, <1>12, <1>13 DEF TablesAre
<1>15. columns' = columns /\ saved' = saved
  BY <1>6
<1> QED  BY <1>8, <1>14, <1>15 DEF StorageInv

\* BEGIN keeps a copy of the pages.
LEMMA BeginStores ==
  ASSUME StorageInv, Begin
  PROVE  StorageInv'
<1>1. /\ saved' = <<Pages>> /\ columns' = columns /\ meta' = meta /\ leaves' = leaves
      /\ root' = root /\ inserted' = inserted /\ root_page' = root_page
  BY DEF Begin
<1>2. columns = Schemas /\ TablesAre(inserted, leaves, root, root_page, meta)
  BY DEF StorageInv
<1>3. TablesAre(Pages.inserted, Pages.leaves, Pages.root, root_page, Pages.meta)
  BY <1>2 DEF Pages
<1>4. SavedOK(<<Pages>>)
  BY <1>3, Zenon DEF SavedOK
<1> QED  BY <1>1, <1>2, <1>4 DEF StorageInv

\* COMMIT forgets it.
LEMMA CommitStores ==
  ASSUME StorageInv, Commit
  PROVE  StorageInv'
BY DEF StorageInv, Commit, SavedOK

\* The pages of the last commit have the invariant, with the root that is read from
\* their metadata pages, and the columns are read as they were written.
LEMMA DiscardStores ==
  ASSUME StorageInv, Discard
  PROVE  /\ TablesAre(inserted', leaves', root', root_page', meta') /\ SavedOK(saved')
         /\ [t \in Tables |-> read_metadata(Committed.meta[t]).columns] = Schemas
<1>1. PICK c : c = Committed
  OBVIOUS
<1>2. /\ meta' = c.meta /\ leaves' = c.leaves /\ root' = c.root /\ inserted' = c.inserted
      /\ root_page' = [t \in Tables |-> read_metadata(c.meta[t]).root]
      /\ saved' = <<>>
  BY <1>1 DEF Discard
<1>3. PICK page : TablesAre(c.inserted, c.leaves, c.root, page, c.meta)
  <2>1. CASE saved = <<>>
    <3>1. c = Pages
      BY <1>1, <2>1 DEF Committed
    <3>2. TablesAre(c.inserted, c.leaves, c.root, root_page, c.meta)
      BY <3>1 DEF Pages, StorageInv
    <3> QED  BY <3>2
  <2>2. CASE saved # <<>>
    <3>1. PICK p, page : saved = <<p>> /\ TablesAre(p.inserted, p.leaves, p.root, page, p.meta)
      BY <2>2, Zenon DEF StorageInv, SavedOK
    <3>2. c = p
      BY <1>1, <2>2, <3>1 DEF Committed
    <3> QED  BY <3>1, <3>2
  <2> QED  BY <2>1, <2>2
<1>4. page \in [Tables -> {FirstLeaf, InternalRoot}] /\ c.meta = [t \in Tables |-> write_metadata(page[t], Schemas[t])]
  BY <1>3 DEF TablesAre
<1>5. ASSUME NEW t \in Tables
      PROVE  read_metadata(c.meta[t]).root = page[t] /\ read_metadata(c.meta[t]).columns = Schemas[t]
  <2>1. page[t] \in Nat
    BY <1>4, RootPages
  <2>2. c.meta[t] = write_metadata(page[t], Schemas[t])
    BY <1>4
  <2>3. read_metadata(c.meta[t]) = [root |-> page[t], columns |-> Schemas[t]]
    BY <2>1, <2>2, SchemaTypes, MetadataInverse
  <2> QED  BY <2>3
<1>6. root_page' = page
  <2>1. page = [t \in Tables |-> page[t]]
    BY <1>4
  <2>2. [t \in Tables |-> read_metadata(c.meta[t]).root] = [t \in Tables |-> page[t]]
    BY <1>5
  <2> QED  BY <1>2, <2>1, <2>2
<1>7. TablesAre(inserted', leaves', root', root_page', meta')
  BY <1>2, <1>3, <1>6
<1>8. [t \in Tables |-> read_metadata(c.meta[t]).columns] = [t \in Tables |-> Schemas[t]]
  BY <1>5
<1> QED  BY <1>1, <1>2, <1>7, <1>8, SchemaTypes DEF SavedOK

\* So ROLLBACK keeps the invariant.
LEMMA RollbackStores ==
  ASSUME StorageInv, Rollback
  PROVE  StorageInv'
<1>1. Discard /\ columns' = columns
  BY DEF Rollback
<1> QED  BY <1>1, DiscardStores DEF StorageInv

\* And a restart.
LEMMA ReopenStores ==
  ASSUME StorageInv, Reopen
  PROVE  StorageInv'
<1>1. Discard /\ columns' = [t \in Tables |-> read_metadata(Committed.meta[t]).columns]
  BY DEF Reopen
<1> QED  BY <1>1, DiscardStores DEF StorageInv

\* And whatever leaves the tables alone.
LEMMA StorageKept ==
  ASSUME StorageInv, UNCHANGED tables
  PROVE  StorageInv'
BY DEF StorageInv, tables

\* The steps that a table sees are those above.
LEMMA StorageNext ==
  ASSUME StorageInv, [Next]_vars
  PROVE  StorageInv'
<1>1. ASSUME Begin \/ Commit \/ Rollback \/ Reopen PROVE StorageInv'
  BY <1>1, BeginStores, CommitStores, RollbackStores, ReopenStores
<1>2. ASSUME NEW t \in Tables, NEW row \in Rows, Insert(t, row) PROVE StorageInv'
  BY <1>2, InsertStores
<1>3. ASSUME NEW t \in Tables, NEW row \in Rows, InsertSplits(t, row) PROVE StorageInv'
  BY <1>3, SplitStores
<1>4. ASSUME NEW s \in Statements, ReadFirst(s) PROVE UNCHANGED tables
  BY <1>4, Zenon DEF ReadFirst, Reply
<1>5. ASSUME ReadSecond PROVE UNCHANGED tables
  BY <1>5, Zenon DEF ReadSecond, Reply
<1>6. ASSUME NEW n \in 0 .. Len(stream), Receive(n) PROVE UNCHANGED tables
  BY <1>6 DEF Receive
<1>7. ASSUME Prompt PROVE UNCHANGED tables
  BY <1>7 DEF Prompt
<1>8. ASSUME UNCHANGED vars PROVE UNCHANGED tables
  BY <1>8 DEF vars
<1> QED  BY <1>1, <1>2, <1>3, <1>4, <1>5, <1>6, <1>7, <1>8, StorageKept, Zenon DEF Next

\* The tables have their invariant in every state.
LEMMA StorageAlways == Spec => []StorageInv
<1>1. StorageInv /\ [Next]_vars => StorageInv'
  BY StorageNext
<1> QED  BY <1>1, StorageInit, PTL DEF Spec

-----------------------------------------------------------------------------
(***************************************************************************)
(* Counting.                                                               *)
(***************************************************************************)
\* Where x is in s.
Places(s, x) == {i \in DOMAIN s : s[i] = x}

\* BagOf counts the places of each element.
LEMMA BagIs ==
  ASSUME NEW S, NEW s \in Seq(S)
  PROVE  /\ BagOf(s) = [x \in ToSet(s) |-> Cardinality(Places(s, x))]
         /\ \A x : /\ x \in ToSet(s) <=> \E i \in 1 .. Len(s) : s[i] = x
                   /\ Places(s, x) = {i \in 1 .. Len(s) : s[i] = x} /\ IsFiniteSet(Places(s, x))
<1>1. DOMAIN s = 1 .. Len(s) /\ Len(s) \in Nat
  OBVIOUS
<1>2. ASSUME NEW x PROVE Places(s, x) = {i \in 1 .. Len(s) : s[i] = x} /\ IsFiniteSet(Places(s, x))
  <2>1. Places(s, x) = {i \in 1 .. Len(s) : s[i] = x}
    BY <1>1 DEF Places
  <2>2. IsFiniteSet(1 .. Len(s)) /\ {i \in 1 .. Len(s) : s[i] = x} \in SUBSET (1 .. Len(s))
    BY <1>1, FS_Interval
  <2>3. IsFiniteSet({i \in 1 .. Len(s) : s[i] = x})
    BY <2>2, FS_Subset
  <2> QED  BY <2>1, <2>3
<1>3. ASSUME NEW x PROVE x \in ToSet(s) <=> \E i \in 1 .. Len(s) : s[i] = x
  BY <1>1 DEF ToSet
<1>4. BagOf(s) = [x \in ToSet(s) |-> Cardinality(Places(s, x))]
  BY DEF BagOf, Places
<1> QED  BY <1>2, <1>3, <1>4

\* The same rows in another order are the same bag.
LEMMA BagSame ==
  ASSUME NEW S, NEW rows \in Seq(S), NEW ins \in Seq(S), Reads(rows, ins)
  PROVE  BagOf(rows) = BagOf(ins)
<1>1. PICK h : Permutes(h, Len(rows), Len(ins)) /\ \A i \in 1 .. Len(rows) : rows[i] = ins[h[i]]
  BY DEF Reads
<1>2. PICK m \in Nat, n \in Nat : m = Len(rows) /\ n = Len(ins)
  OBVIOUS
<1>3. /\ h \in [1 .. m -> 1 .. n] /\ \A i, j \in 1 .. m : h[i] = h[j] => i = j
      /\ \A y \in 1 .. n : \E i \in 1 .. m : h[i] = y
      /\ \A i \in 1 .. m : rows[i] = ins[h[i]]
  BY <1>1, <1>2 DEF Permutes
<1>4. ASSUME NEW x PROVE Cardinality(Places(rows, x)) = Cardinality(Places(ins, x))
  <2> DEFINE A == Places(rows, x)
             B == Places(ins, x)
             f == [i \in A |-> h[i]]
  <2>1. A = {i \in 1 .. m : rows[i] = x} /\ B = {i \in 1 .. n : ins[i] = x} /\ IsFiniteSet(B)
    BY <1>2, BagIs
  <2> HIDE DEF A, B
  <2>2. f \in [A -> B]
    BY <1>3, <2>1
  <2>3. \A a, b \in A : f[a] = f[b] => a = b
    BY <1>3, <2>1
  <2>4. ASSUME NEW b \in B PROVE \E a \in A : f[a] = b
    <3>1. PICK i \in 1 .. m : h[i] = b
      BY <1>3, <2>1
    <3>2. i \in A
      BY <1>3, <2>1, <3>1
    <3> QED  BY <3>1, <3>2
  <2> HIDE DEF f
  <2>5. IsFiniteSet(B) /\ \A b \in B : \E a \in A : f[a] = b
    BY <2>1, <2>4
  <2>6. Cardinality(A) = Cardinality(B)
    BY <2>2, <2>3, <2>5, CountInjected
  <2> QED  BY <2>6 DEF A, B
<1>5. ToSet(rows) = ToSet(ins)
  <2>1. ASSUME NEW x \in ToSet(rows) PROVE x \in ToSet(ins)
    <3>1. PICK i \in 1 .. m : rows[i] = x
      BY <1>2, <2>1, BagIs
    <3>2. h[i] \in 1 .. n /\ ins[h[i]] = x
      BY <1>3, <3>1
    <3> QED  BY <1>2, <3>2, BagIs
  <2>2. ASSUME NEW x \in ToSet(ins) PROVE x \in ToSet(rows)
    <3>1. PICK j \in 1 .. n : ins[j] = x
      BY <1>2, <2>2, BagIs
    <3>2. PICK i \in 1 .. m : h[i] = j
      BY <1>3
    <3>3. rows[i] = x
      BY <1>3, <3>1, <3>2
    <3> QED  BY <1>2, <3>3, BagIs
  <2> QED  BY <2>1, <2>2
<1> DEFINE a == BagOf(rows)
           b == BagOf(ins)
<1>6. /\ a = [x \in ToSet(rows) |-> Cardinality(Places(rows, x))]
      /\ b = [x \in ToSet(ins) |-> Cardinality(Places(ins, x))]
  BY BagIs
<1> HIDE DEF a, b
<1>7. a = b
  BY <1>4, <1>5, <1>6
<1> QED  BY <1>7 DEF a, b
-----------------------------------------------------------------------------
\* What select_all returns are the rows inserted.
LEMMA StorageRows ==
  ASSUME StorageInv, NEW t \in Tables
  PROVE  /\ columns[t] = Schemas[t] /\ select_all(t).headers = NamesOf(t)
         /\ select_all(t).rows \in Seq(Rows) /\ inserted[t] \in Seq(Rows)
         /\ Reads(select_all(t).rows, inserted[t])
         /\ \A i \in 1 .. Len(inserted[t]) : Fits(inserted[t][i], Schemas[t])
<1>1. columns[t] = Schemas[t] /\ TableOK(inserted[t], leaves[t], Root(t), Schemas[t])
  BY TableOf
<1> DEFINE ins == inserted[t]
           cols == Schemas[t]
<1>2. /\ ins \in Seq(Rows) /\ \A i \in 1 .. Len(ins) : Fits(ins[i], cols)
  BY <1>1 DEF TableOK, RowsFit
<1>3. /\ select_all(t).headers = [i \in DOMAIN cols |-> cols[i].name]
      /\ select_all(t).rows \in Seq(Rows) /\ Reads(select_all(t).rows, ins)
  <2> HIDE DEF ins, cols
  <2>1. TableOK(ins, leaves[t], Root(t), cols) /\ columns[t] = cols
    BY <1>1, Zenon DEF ins, cols
  <2> QED  BY <2>1, SelectAll, SMTT(60)
<1> QED  BY <1>1, <1>2, <1>3 DEF NamesOf

\* What SELECT reads of a table, with whatever statement, is the bag of the rows
\* that INSERT put there, through the row codec, the slotted pages, their splits
\* and a restart of the server.
THEOREM SelectsRead == Spec => []RowsSurvive
<1>1. StorageInv => RowsSurvive
  <2> SUFFICES ASSUME StorageInv, NEW t \in Tables
               PROVE  columns[t] = Schemas[t] /\ BagOf(select_all(t).rows) = BagOf(inserted[t])
    BY DEF RowsSurvive
  <2>1. /\ columns[t] = Schemas[t] /\ Reads(select_all(t).rows, inserted[t])
        /\ select_all(t).rows \in Seq(Rows) /\ inserted[t] \in Seq(Rows)
    BY StorageRows
  <2> QED  BY <2>1, BagSame
<1> QED  BY <1>1, StorageAlways, PTL

\* The page that the handle takes for the root, and the one that the next ROLLBACK
\* or start would take for it, lead to all the leaves that there are.
THEOREM RootsLeadEverywhere == Spec => []RootLeadsEverywhere
<1>1. StorageInv => RootLeadsEverywhere
  <2> SUFFICES ASSUME StorageInv, NEW t \in Tables,
                      NEW page \in {root_page[t], read_metadata(meta[t]).root}
               PROVE  ToSet(NodeAt(root[t], page).kids) = DOMAIN leaves[t]
    BY DEF RootLeadsEverywhere
  <2>1. /\ TableOK(inserted[t], leaves[t], Root(t), Schemas[t])
        /\ root_page[t] \in Nat /\ meta[t] = write_metadata(root_page[t], Schemas[t])
    BY TableOf, RootPages
  <2>2. read_metadata(meta[t]).root = root_page[t]
    <3>1. read_metadata(write_metadata(root_page[t], Schemas[t])) = [root |-> root_page[t], columns |-> Schemas[t]]
      BY <2>1, SchemaTypes, MetadataInverse
    <3> QED  BY <2>1, <3>1
  <2>3. NodeAt(root[t], page) = Root(t)
    BY <2>2 DEF Root
  <2>4. PICK L \in Nat : L = Len(leaves[t]) /\ DOMAIN leaves[t] = 1 .. L
    BY <2>1, TableTypes
  <2>4a. PICK kids : kids = Root(t).kids
    OBVIOUS
  <2>5. /\ kids \in Seq(1 .. L) /\ Len(kids) = L
        /\ \A x \in 1 .. L : \E i \in 1 .. L : kids[i] = x
    <3>1. RootOK(Root(t), L)
      BY <2>1, <2>4, Zenon DEF TableOK
    <3> QED  BY <2>4a, <3>1, Zenon DEF RootOK
  <2>6. DOMAIN kids = 1 .. L /\ \A i \in 1 .. L : kids[i] \in 1 .. L
    <3>1. kids \in Seq(1 .. L)
      BY <2>5
    <3>2. DOMAIN kids = 1 .. Len(kids) /\ \A i \in 1 .. Len(kids) : kids[i] \in 1 .. L
      BY ONLY <3>1, SMTT(20)
    <3> QED  BY <2>5, <3>2, Zenon
  <2>7. ToSet(kids) = 1 .. L
    BY <2>5, <2>6 DEF ToSet
  <2> QED  BY <2>3, <2>4, <2>4a, <2>7
<1> QED  BY <1>1, StorageAlways, PTL

\* However a leaf is filled and split, each cell has its words to itself, below
\* the end of the page and above the slots.
THEOREM CellsDoNotOverlap == Spec => []CellsApart
<1> DEFINE Words(page, i) == Slot(page, i).off .. Slot(page, i).off + Slot(page, i).len - 1
<1>1. ASSUME NEW page, PageShape(page)
      PROVE  \A i \in 1 .. NumCells(page) :
               /\ Words(page, i) \subseteq SlotOffset(NumCells(page) + 1) .. PageSize
               /\ \A j \in 1 .. NumCells(page) : i # j => Words(page, i) \cap Words(page, j) = {}
  <2> DEFINE n == page[1]
  <2>1. /\ NumCells(page) = n /\ n \in Nat /\ page[3] \in Int /\ 2 * n + 4 <= page[3]
        /\ SlotOffset(n + 1) = 2 * n + 4 /\ PageSize \in Nat
    <3>1. page \in PageWords /\ PageSize \in Nat /\ 3 \in 1 .. PageSize
      BY <1>1, PageSizeIs DEF PageShape
    <3>2. page[3] \in Int
      BY <3>1 DEF PageWords
    <3>3. NumCells(page) = n /\ n \in Nat /\ 2 * n + 4 <= page[3]
      BY <1>1 DEF PageShape, SlotsFit, NumCells
    <3>4. n + 1 \in Int /\ 2 * (n + 1) + 2 = 2 * n + 4
      BY <3>3
    <3> HIDE DEF n
    <3>5. SlotOffset(n + 1) = 2 * (n + 1) + 2
      BY <3>4, SlotOffsetIs
    <3> QED  BY <3>1, <3>2, <3>3, <3>4, <3>5
  <2>2. ASSUME NEW i \in 1 .. n
        PROVE  /\ Words(page, i) = page[2 * i + 2] .. page[2 * i + 2] + page[2 * i + 3] - 1
               /\ page[2 * i + 2] \in Int /\ page[2 * i + 3] \in Int
               /\ page[2 * i + 3] >= 1 /\ page[3] <= page[2 * i + 2]
               /\ page[2 * i + 2] + page[2 * i + 3] <= PageSize + 1
    <3>1. SlotOffset(i) = 2 * i + 2
      BY SlotOffsetIs
    <3>2. (2 * i + 2) + 1 = 2 * i + 3
      BY <2>1
    <3>3. /\ page[2 * i + 3] >= 1 /\ page[3] <= page[2 * i + 2] /\ page[3] <= PageSize + 1
          /\ page[2 * i + 2] + page[2 * i + 3] <= PageSize + 1
      BY <1>1 DEF PageShape, SlotsFit
    <3>4. 2 * i + 2 \in 1 .. PageSize /\ 2 * i + 3 \in 1 .. PageSize
      <4> HIDE DEF n
      <4> QED  BY <2>1, <3>3
    <3>5. page[2 * i + 2] \in Int /\ page[2 * i + 3] \in Int
      BY <1>1, <3>4 DEF PageShape, PageWords
    <3>6. Words(page, i) = page[2 * i + 2] .. page[2 * i + 2] + page[2 * i + 3] - 1
      BY <3>1, <3>2 DEF Slot
    <3> QED  BY <3>3, <3>5, <3>6
  <2>3. ASSUME NEW i \in 1 .. n, NEW j \in 1 .. n, i # j
        PROVE  \/ page[2 * i + 2] + page[2 * i + 3] <= page[2 * j + 2]
               \/ page[2 * j + 2] + page[2 * j + 3] <= page[2 * i + 2]
    BY <1>1, <2>3 DEF PageShape, CellsDisjoint
  <2> HIDE DEF n
  <2>4. ASSUME NEW i \in 1 .. n PROVE Words(page, i) \subseteq 2 * n + 4 .. PageSize
    <3>1. PICK o \in Int, l \in Int : o = page[2 * i + 2] /\ l = page[2 * i + 3]
      BY <2>2
    <3>2. Words(page, i) = o .. o + l - 1 /\ page[3] <= o /\ o + l <= PageSize + 1
      BY <2>2, <3>1
    <3>3. Words(page, i) = o .. o + l - 1 /\ 2 * n + 4 <= o /\ o + l - 1 <= PageSize
      <4> HIDE DEF Words
      <4> QED  BY <2>1, <3>2
    <3> HIDE DEF Words
    <3> QED  BY <2>1, <3>3
  <2>5. ASSUME NEW i \in 1 .. n, NEW j \in 1 .. n, i # j PROVE Words(page, i) \cap Words(page, j) = {}
    <3>1. PICK o \in Int, l \in Int : o = page[2 * i + 2] /\ l = page[2 * i + 3]
      BY <2>2
    <3>2. PICK p \in Int, k \in Int : p = page[2 * j + 2] /\ k = page[2 * j + 3]
      BY <2>2
    <3>3. Words(page, i) = o .. o + l - 1
      BY <2>2, <3>1
    <3>4. Words(page, j) = p .. p + k - 1
      BY <2>2, <3>2
    <3>5. o + l <= p \/ p + k <= o
      BY <2>3, <2>5, <3>1, <3>2
    <3> HIDE DEF Words
    <3> QED  BY <3>3, <3>4, <3>5
  <2> HIDE DEF Words
  <2> QED  BY <2>1, <2>4, <2>5
<1>2. StorageInv => CellsApart
  <2> SUFFICES ASSUME StorageInv, NEW t \in Tables, NEW p \in DOMAIN leaves[t]
               PROVE  LET page == leaves[t][p]
                      IN  \A i \in 1 .. NumCells(page) :
                            /\ Words(page, i) \subseteq SlotOffset(NumCells(page) + 1) .. PageSize
                            /\ \A j \in 1 .. NumCells(page) : i # j => Words(page, i) \cap Words(page, j) = {}
    BY DEF CellsApart
  <2>1. Stored(leaves[t], Img(inserted[t], Schemas[t]))
    BY TableOf DEF TableOK
  <2>2. PICK ids : StoredAs(leaves[t], ids, Img(inserted[t], Schemas[t]))
    BY <2>1 DEF Stored
  <2>3. PageShows(leaves[t][p], ids[p], Img(inserted[t], Schemas[t]))
    BY <2>2, StoredTypes
  <2>4. PageShape(leaves[t][p])
    BY <2>3, PageHoldsProperties DEF PageShows
  <2> HIDE DEF Words
  <2> QED  BY <1>1, <2>4
<1> QED  BY <1>2, StorageAlways, PTL

-----------------------------------------------------------------------------
(***************************************************************************)
(* The rows that a filter keeps.                                           *)
(***************************************************************************)
\* from says where each element of out was among the first n of seq.
KeptFrom(out, seq, at, n, from) ==
  /\ from \in [1 .. Len(out) -> 1 .. n]
  /\ \A i \in 1 .. Len(out) : from[i] \in at /\ out[i] = seq[from[i]]
  /\ \A i, j \in 1 .. Len(out) : from[i] = from[j] => i = j
  /\ \A x \in 1 .. n : x \in at => \E i \in 1 .. Len(out) : from[i] = x

Kept(out, seq, at, n) == \E from : KeptFrom(out, seq, at, n, from)

\* An element that is not kept changes nothing.
LEMMA KeptSkip ==
  ASSUME NEW out, NEW seq, NEW at, NEW n \in Nat, Kept(out, seq, at, n), n + 1 \notin at
  PROVE  Kept(out, seq, at, n + 1)
<1>1. PICK from : KeptFrom(out, seq, at, n, from)
  BY DEF Kept
<1> DEFINE I == 1 .. Len(out)
<1>2. /\ from \in [I -> 1 .. n]
      /\ \A i \in I : from[i] \in at /\ out[i] = seq[from[i]]
      /\ \A i, j \in I : from[i] = from[j] => i = j
      /\ \A x \in 1 .. n : x \in at => \E i \in I : from[i] = x
  BY <1>1 DEF KeptFrom
<1> HIDE DEF I
<1>3. from \in [I -> 1 .. n + 1]
  <2>1. 1 .. n \subseteq 1 .. n + 1
    OBVIOUS
  <2> QED  BY <1>2, <2>1
<1>4. ASSUME NEW x \in 1 .. n + 1, x \in at PROVE \E i \in I : from[i] = x
  <2>1. x # n + 1
    BY <1>4
  <2>2. x \in 1 .. n
    BY <2>1
  <2> QED  BY <1>2, <1>4, <2>2
<1>5. KeptFrom(out, seq, at, n + 1, from)
  BY <1>2, <1>3, <1>4 DEF KeptFrom, I
<1> QED  BY <1>5 DEF Kept

\* An element that is kept is one more.
LEMMA KeptAdd ==
  ASSUME NEW S, NEW out \in Seq(S), NEW seq, NEW at, NEW n \in Nat, Kept(out, seq, at, n), n + 1 \in at,
         seq[n + 1] \in S
  PROVE  Kept(Append(out, seq[n + 1]), seq, at, n + 1)
<1>1. PICK from : KeptFrom(out, seq, at, n, from)
  BY DEF Kept
<1>2. PICK m \in Nat : m = Len(out)
  OBVIOUS
<1>3. /\ from \in [1 .. m -> 1 .. n]
      /\ \A i \in 1 .. m : from[i] \in at /\ out[i] = seq[from[i]]
      /\ \A i, j \in 1 .. m : from[i] = from[j] => i = j
      /\ \A x \in 1 .. n : x \in at => \E i \in 1 .. m : from[i] = x
  BY <1>1, <1>2 DEF KeptFrom
<1> DEFINE more == Append(out, seq[n + 1])
           to == [i \in 1 .. m + 1 |-> IF i = m + 1 THEN n + 1 ELSE from[i]]
<1>4. Len(more) = m + 1 /\ more[m + 1] = seq[n + 1] /\ \A i \in 1 .. m : more[i] = out[i]
  BY <1>2
<1>5. to[m + 1] = n + 1 /\ \A i \in 1 .. m : to[i] = from[i] /\ from[i] \in 1 .. n
  BY <1>3
<1>6. \A i \in 1 .. m + 1 : i = m + 1 \/ i \in 1 .. m
  OBVIOUS
<1>7. to \in [1 .. m + 1 -> 1 .. n + 1]
  BY <1>3
<1> HIDE DEF more, to
<1>8. \A i \in 1 .. m + 1 : to[i] \in at /\ more[i] = seq[to[i]]
  BY <1>3, <1>4, <1>5, <1>6
<1>9. ASSUME NEW i \in 1 .. m + 1, NEW j \in 1 .. m + 1, to[i] = to[j] PROVE i = j
  <2>1. n + 1 \notin 1 .. n
    OBVIOUS
  <2> QED  BY <1>3, <1>5, <1>6, <1>9, <2>1, SMTT(30)
<1>10. ASSUME NEW x \in 1 .. n + 1, x \in at PROVE \E i \in 1 .. m + 1 : to[i] = x
  <2>1. CASE x = n + 1
    BY <1>5, <2>1
  <2>2. CASE x # n + 1
    <3>1. x \in 1 .. n
      BY <2>2
    <3>2. PICK i \in 1 .. m : from[i] = x
      BY <1>3, <1>10, <3>1
    <3>3. i \in 1 .. m + 1
      OBVIOUS
    <3> QED  BY <1>5, <3>2, <3>3
  <2> QED  BY <2>1, <2>2
<1>11. KeptFrom(more, seq, at, n + 1, to)
  BY <1>4, <1>7, <1>8, <1>9, <1>10 DEF KeptFrom
<1> QED  BY <1>11 DEF Kept, more

\* The recursive function of Keep.
KeptStep(seq, at, f, n) ==
  IF n = 0 THEN <<>> ELSE IF n \in at THEN Append(f[n - 1], seq[n]) ELSE f[n - 1]

\* Keep, one element at a time.
LEMMA KeepUnfold ==
  ASSUME NEW seq, NEW at, \E g : g = [n \in 0 .. Len(seq) |-> KeptStep(seq, at, g, n)]
  PROVE  \E f : /\ f = [n \in 0 .. Len(seq) |-> KeptStep(seq, at, f, n)]
                /\ Keep(seq, at) = f[Len(seq)]
<1> DEFINE P(f) == f = [n \in 0 .. Len(seq) |-> KeptStep(seq, at, f, n)]
           f0 == CHOOSE f : P(f)
<1>1. P(f0)
  BY Zenon
<1>2. Keep(seq, at) = f0[Len(seq)]
  BY Zenon DEF Keep, KeptStep
<1> QED  BY <1>1, <1>2, Zenon

\* Keep returns each wanted element once, and no other.
LEMMA KeepProperties ==
  ASSUME NEW S, NEW seq \in Seq(S), NEW at
  PROVE  Keep(seq, at) \in Seq(S) /\ Kept(Keep(seq, at), seq, at, Len(seq))
<1> DEFINE n == Len(seq)
           G == [x \in (0 + 1 .. n) \X Seq(S) |-> IF x[1] \in at THEN Append(x[2], seq[x[1]]) ELSE x[2]]
<1>1. n \in Nat /\ 0 \in Int /\ n \in Int /\ 0 <= n /\ \A i \in 1 .. n : seq[i] \in S
  OBVIOUS
<1>2. PICK e \in Seq(S) : e = <<>>
  BY EmptySeq, Zenon
<1>3. G \in [(0 + 1 .. n) \X Seq(S) -> Seq(S)]
  <2>1. ASSUME NEW i \in 0 + 1 .. n, NEW s \in Seq(S) PROVE Append(s, seq[i]) \in Seq(S)
    BY <1>1
  <2> HIDE DEF n
  <2> QED  BY <2>1
<1>4. PICK f \in [0 .. n -> Seq(S)] : f[0] = e /\ \A i \in 0 + 1 .. n : f[i] = G[<<i, f[i - 1]>>]
  <2> HIDE DEF n, G
  <2> DEFINE T == Seq(S)
  <2>1. e \in T /\ G \in [(0 + 1 .. n) \X T -> T]
    BY <1>2, <1>3
  <2> HIDE DEF T
  <2>2. Recursive(0, n, T, e, G)
    BY <1>1, <2>1, Recursion
  <2> QED  BY <2>2, Zenon DEF Recursive, Follows, T
<1>5. ASSUME NEW i \in 1 .. n
      PROVE  f[i] = (IF i \in at THEN Append(f[i - 1], seq[i]) ELSE f[i - 1]) /\ f[i - 1] \in Seq(S)
  <2>1. i \in 0 + 1 .. n /\ i - 1 \in 0 .. n
    BY <1>1
  <2>2. f[i - 1] \in Seq(S)
    <3> HIDE DEF n
    <3> QED  BY <2>1
  <2>3. <<i, f[i - 1]>> \in (0 + 1 .. n) \X Seq(S)
    BY <2>1, <2>2
  <2>4. f[i] = G[<<i, f[i - 1]>>]
    BY <1>4, <2>1
  <2> HIDE DEF n
  <2> QED  BY <2>2, <2>3, <2>4
<1> HIDE DEF G
<1>6. f = [i \in 0 .. n |-> KeptStep(seq, at, f, i)]
  <2>1. ASSUME NEW i \in 0 .. n PROVE f[i] = KeptStep(seq, at, f, i)
    <3>1. CASE i = 0
      BY <1>2, <1>4, <3>1 DEF KeptStep
    <3>2. CASE i # 0
      <4>1. i \in 1 .. n
        BY <1>1, <3>2
      <4>2. f[i] = (IF i \in at THEN Append(f[i - 1], seq[i]) ELSE f[i - 1])
        BY <1>5, <4>1
      <4> QED  BY <3>2, <4>2, Zenon DEF KeptStep
    <3> QED  BY <3>1, <3>2
  <2> HIDE DEF n
  <2> QED  BY <2>1
<1>7. PICK g : g = [i \in 0 .. n |-> KeptStep(seq, at, g, i)] /\ Keep(seq, at) = g[n]
  BY <1>6, KeepUnfold
<1>8. g[0] = <<>>
  <2>1. 0 \in 0 .. n
    BY <1>1
  <2>2. g[0] = KeptStep(seq, at, g, 0)
    BY <1>7, <2>1
  <2> QED  BY <2>2 DEF KeptStep
<1>9. ASSUME NEW i \in 1 .. n PROVE g[i] = IF i \in at THEN Append(g[i - 1], seq[i]) ELSE g[i - 1]
  <2>1. i \in 0 .. n /\ i # 0
    BY <1>1
  <2>2. g[i] = KeptStep(seq, at, g, i)
    BY <1>7, <2>1
  <2> QED  BY <2>1, <2>2, Zenon DEF KeptStep
<1> DEFINE T == {i \in 0 .. n : g[i] \in Seq(S) /\ Kept(g[i], seq, at, i)}
<1>10. 0 \in T
  <2>1. Len(e) = 0
    BY <1>2
  <2> DEFINE from == [i \in 1 .. 0 |-> 0]
  <2>2. KeptFrom(e, seq, at, 0, from)
    BY <2>1 DEF KeptFrom
  <2>3. Kept(e, seq, at, 0)
    BY <2>2 DEF Kept
  <2> QED  BY <1>1, <1>2, <1>8, <2>3
<1>11. ASSUME NEW i \in 0 .. n - 1, i \in T PROVE i + 1 \in T
  <2>1. i \in Nat /\ i + 1 \in 1 .. n /\ (i + 1) - 1 = i /\ i + 1 \in 0 .. n
    BY <1>1
  <2>2. g[i] \in Seq(S) /\ Kept(g[i], seq, at, i) /\ seq[i + 1] \in S
    BY <1>1, <1>11, <2>1
  <2>3. g[i + 1] = IF i + 1 \in at THEN Append(g[i], seq[i + 1]) ELSE g[i]
    <3>1. g[i + 1] = IF i + 1 \in at THEN Append(g[(i + 1) - 1], seq[i + 1]) ELSE g[(i + 1) - 1]
      BY <1>9, <2>1
    <3> QED  BY <2>1, <3>1
  <2>4. CASE i + 1 \in at
    <3>1. Kept(Append(g[i], seq[i + 1]), seq, at, i + 1) /\ Append(g[i], seq[i + 1]) \in Seq(S)
      BY <2>1, <2>2, <2>4, KeptAdd
    <3> QED  BY <2>1, <2>3, <2>4, <3>1
  <2>5. CASE i + 1 \notin at
    <3>1. Kept(g[i], seq, at, i + 1)
      BY <2>1, <2>2, <2>5, KeptSkip
    <3> QED  BY <2>1, <2>2, <2>3, <2>5, <3>1
  <2> QED  BY <2>4, <2>5
<1>12. 0 .. n \subseteq T
  <2> HIDE DEF T, n
  <2> QED  BY <1>1, <1>10, <1>11, Induction
<1> QED  BY <1>1, <1>7, <1>12

-----------------------------------------------------------------------------
(***************************************************************************)
(* WHERE, and the columns of ON.                                           *)
(***************************************************************************)
\* i is the first place of name.
First(headers, name, i) ==
  i \in DOMAIN headers /\ headers[i] = name /\ \A j \in 1 .. i - 1 : headers[j] # headers[i]

\* IndexOf finds the first place of a name, or none.
LEMMA IndexOfProperties ==
  ASSUME NEW S, NEW headers \in Seq(S), NEW name
  PROVE  /\ IndexOf(headers, name) \in 0 .. Len(headers)
         /\ IndexOf(headers, name) # 0 => First(headers, name, IndexOf(headers, name))
         /\ \A i : First(headers, name, i) => i = IndexOf(headers, name) /\ i # 0
<1> DEFINE found == {i \in DOMAIN headers : headers[i] = name}
<1>1. PICK n \in Nat : n = Len(headers) /\ DOMAIN headers = 1 .. n
  OBVIOUS
<1>2. IndexOf(headers, name) = IF found = {} THEN 0 ELSE Min(found)
  BY DEF IndexOf
<1>3. found \subseteq Nat /\ found \subseteq 1 .. n /\ \A i \in 1 .. n : i \in found <=> headers[i] = name
  BY <1>1
<1> HIDE DEF found
<1>4. CASE found = {}
  <2>1. IndexOf(headers, name) = 0
    BY <1>2, <1>4
  <2>2. ASSUME NEW i, First(headers, name, i) PROVE FALSE
    BY <1>1, <1>3, <1>4, <2>2 DEF First
  <2> QED  BY <1>1, <2>1, <2>2
<1>5. CASE found # {}
  <2>1. PICK k : k = Min(found) /\ k \in found /\ \A y \in found : k <= y
    BY <1>3, <1>5, MinProperties
  <2>2. IndexOf(headers, name) = k
    BY <1>2, <1>5, <2>1
  <2>3. k \in 1 .. n /\ headers[k] = name
    BY <1>3, <2>1
  <2>4. ASSUME NEW j \in 1 .. k - 1 PROVE headers[j] # headers[k]
    <3>1. j \in 1 .. n /\ ~(k <= j)
      BY <2>3
    <3> QED  BY <1>3, <2>1, <2>3, <3>1
  <2>5. First(headers, name, k)
    BY <1>1, <2>3, <2>4 DEF First
  <2>6. ASSUME NEW i, First(headers, name, i) PROVE i = k
    <3>1. i \in 1 .. n /\ headers[i] = name /\ \A j \in 1 .. i - 1 : headers[j] # headers[i]
      BY <1>1, <2>6 DEF First
    <3>2. k <= i
      BY <1>3, <2>1, <3>1
    <3>3. ~(k < i)
      <4>1. ASSUME k < i PROVE FALSE
        <5>1. k \in 1 .. i - 1
          BY <2>3, <3>1, <4>1
        <5> QED  BY <2>3, <3>1, <5>1
      <4> QED  BY <4>1
    <3> QED  BY <2>3, <3>1, <3>2, <3>3
  <2> QED  BY <1>1, <2>2, <2>3, <2>5, <2>6
<1> QED  BY <1>4, <1>5

\* The first column of that name that a comparison holds of.
Satisfies(value, op, a) == a.type = value.type /\ Compare(op, a.v, value.v)

\* The filter of the code and the condition of the reference definition.
LEMMA WhereIs ==
  ASSUME NEW S, NEW names \in Seq(S), NEW s, NEW row
  PROVE  (s.where = <<>> \/ evaluate(s.where[1], row, names)) <=> Wanted(s, names, row)
<1> DEFINE e == s.where[1]
           i0 == IndexOf(names, e.column)
<1>1. evaluate(e, row, names) <=> i0 # 0 /\ Satisfies(e.value, e.op, row[i0])
  BY DEF evaluate, Satisfies
<1>2. Wanted(s, names, row) <=>
        (s.where # <<>> => \E i : First(names, e.column, i) /\ Satisfies(e.value, e.op, row[i]))
  BY Zenon DEF Wanted, First, Satisfies, Compare
<1> HIDE DEF e
<1>3. i0 # 0 => First(names, e.column, i0)
  BY IndexOfProperties
<1>4. \A i : First(names, e.column, i) => i = i0 /\ i # 0
  BY IndexOfProperties
<1> HIDE DEF i0
<1>5. evaluate(e, row, names) <=> \E i : First(names, e.column, i) /\ Satisfies(e.value, e.op, row[i])
  BY <1>1, <1>3, <1>4
<1> QED  BY <1>2, <1>5 DEF e

\* The columns of ON.
LEMMA ColumnIs ==
  ASSUME NEW t, NEW ref, NamesOf(t) \in Strings, find_col_index(NamesOf(t), ref) # 0
  PROVE  Column(t, ref) = find_col_index(NamesOf(t), ref)
<1> DEFINE names == NamesOf(t)
           name == AfterDot(ref)
           k == find_col_index(names, ref)
           P(i) == /\ i \in DOMAIN Schemas[t] /\ Schemas[t][i].name = name
                   /\ \A j \in 1 .. i - 1 : Schemas[t][j].name # name
<1>1. names = [i \in DOMAIN Schemas[t] |-> Schemas[t][i].name]
  BY DEF NamesOf
<1>2. PICK n \in Nat : DOMAIN names = 1 .. n /\ DOMAIN Schemas[t] = 1 .. n
  <2>1. DOMAIN names = DOMAIN Schemas[t]
    BY <1>1
  <2>2. PICK u \in Strings : u = names
    OBVIOUS
  <2>3. DOMAIN u = 1 .. Len(u) /\ Len(u) \in Nat
    BY DEF Strings
  <2> HIDE DEF names
  <2> QED  BY <2>1, <2>2, <2>3
<1>3. \A i \in 1 .. n : names[i] = Schemas[t][i].name
  BY <1>1, <1>2
<1> HIDE DEF names
<1>4. names \in Seq(Seq(Int))
  BY DEF names, Strings
<1>5. k = IndexOf(names, name) /\ k # 0
  BY DEF find_col_index, names
<1> HIDE DEF name, k
<1>6. First(names, name, k) /\ \A i : First(names, name, i) => i = k
  BY <1>4, <1>5, IndexOfProperties
<1>7. ASSUME NEW i PROVE First(names, name, i) <=> P(i)
  <2>1. ASSUME i \in 1 .. n PROVE \A j \in 1 .. i - 1 : j \in 1 .. n
    BY <2>1
  <2> QED  BY <1>2, <1>3, <2>1 DEF First
<1>8. P(k) /\ \A i : P(i) => i = k
  BY <1>6, <1>7
<1>9. Column(t, ref) = CHOOSE i : P(i)
  BY DEF Column, name
<1> HIDE DEF P
<1>10. (CHOOSE i : P(i)) = k
  BY <1>8, Zenon
<1> QED  BY <1>9, <1>10 DEF k, names

-----------------------------------------------------------------------------
(***************************************************************************)
(* The bag of a result, and the bag of what is picked of the tables.       *)
(***************************************************************************)
BagFrom(P, f) == [x \in {f[p] : p \in P} |-> Cardinality({p \in P : f[p] = x})]

\* Each row of out is what f makes of another member of P.
Picks(out, P, f, g) ==
  /\ g \in [1 .. Len(out) -> P]
  /\ \A i, j \in 1 .. Len(out) : g[i] = g[j] => i = j
  /\ \A i \in 1 .. Len(out) : out[i] = f[g[i]]

\* A result that picks different members has no more than all of them give.
LEMMA PicksNoMore ==
  ASSUME NEW S, NEW out \in Seq(S), NEW P, IsFiniteSet(P), NEW f, NEW g, Picks(out, P, f, g)
  PROVE  BagOf(out) \sqsubseteq BagFrom(P, f)
<1>1. PICK m \in Nat : m = Len(out)
  OBVIOUS
<1>2. /\ g \in [1 .. m -> P] /\ \A i, j \in 1 .. m : g[i] = g[j] => i = j
      /\ \A i \in 1 .. m : out[i] = f[g[i]]
  BY <1>1 DEF Picks
<1> DEFINE a == BagOf(out)
           b == BagFrom(P, f)
           Of(x) == {p \in P : f[p] = x}
<1>3. /\ a = [x \in ToSet(out) |-> Cardinality(Places(out, x))]
      /\ b = [x \in {f[p] : p \in P} |-> Cardinality(Of(x))]
  BY BagIs DEF BagFrom
<1> HIDE DEF a, b
<1>4. ASSUME NEW x \in ToSet(out)
      PROVE  x \in {f[p] : p \in P} /\ Cardinality(Places(out, x)) <= Cardinality(Of(x))
  <2> DEFINE A == Places(out, x)
             B == Of(x)
             h == [i \in A |-> g[i]]
  <2>1. A = {i \in 1 .. m : out[i] = x}
    BY <1>1, BagIs
  <2> HIDE DEF A
  <2>2. B \in SUBSET P
    OBVIOUS
  <2>3. IsFiniteSet(B)
    <3> HIDE DEF B
    <3> QED  BY <2>2, FS_Subset
  <2>4. h \in [A -> B]
    BY <1>2, <2>1
  <2>5. \A i, j \in A : h[i] = h[j] => i = j
    BY <1>2, <2>1
  <2> HIDE DEF B, h
  <2>6. Cardinality(A) <= Cardinality(B)
    BY <2>3, <2>4, <2>5, CountInjected
  <2>7. PICK i \in 1 .. m : out[i] = x
    BY <1>1, BagIs
  <2>8. g[i] \in P /\ f[g[i]] = x
    BY <1>2, <2>7
  <2> QED  BY <2>6, <2>8 DEF A, B
<1> HIDE DEF Of
<1>5. DOMAIN a = ToSet(out) /\ DOMAIN b = {f[p] : p \in P}
  BY <1>3
<1>6. \A x \in ToSet(out) : a[x] = Cardinality(Places(out, x))
  BY <1>3
<1>7. \A x \in {f[p] : p \in P} : b[x] = Cardinality(Of(x))
  BY <1>3
<1>8. a \sqsubseteq b
  BY <1>4, <1>5, <1>6, <1>7 DEF \sqsubseteq
<1> QED  BY <1>8 DEF a, b

\* A result that picks every member of Q has what all of these give.
LEMMA PicksNoLess ==
  ASSUME NEW S, NEW out \in Seq(S), NEW P, NEW f, NEW g, Picks(out, P, f, g),
         NEW Q, \A p \in Q : \E i \in 1 .. Len(out) : g[i] = p
  PROVE  BagFrom(Q, f) \sqsubseteq BagOf(out)
<1>1. PICK m \in Nat : m = Len(out)
  OBVIOUS
<1>2. /\ g \in [1 .. m -> P] /\ \A i, j \in 1 .. m : g[i] = g[j] => i = j
      /\ \A i \in 1 .. m : out[i] = f[g[i]]
      /\ \A p \in Q : \E i \in 1 .. m : g[i] = p
  BY <1>1 DEF Picks
<1> DEFINE a == BagOf(out)
           b == BagFrom(Q, f)
           Of(x) == {p \in Q : f[p] = x}
<1>3. /\ a = [x \in ToSet(out) |-> Cardinality(Places(out, x))]
      /\ b = [x \in {f[p] : p \in Q} |-> Cardinality(Of(x))]
  BY BagIs DEF BagFrom
<1> HIDE DEF a, b
<1>4. ASSUME NEW x \in {f[p] : p \in Q}
      PROVE  x \in ToSet(out) /\ Cardinality(Of(x)) <= Cardinality(Places(out, x))
  <2> DEFINE A == Of(x)
             B == Places(out, x)
             h == [p \in A |-> CHOOSE i \in 1 .. m : g[i] = p]
  <2>1. B = {i \in 1 .. m : out[i] = x} /\ IsFiniteSet(B)
    BY <1>1, BagIs
  <2> HIDE DEF B
  <2>2. ASSUME NEW p \in A PROVE h[p] \in 1 .. m /\ g[h[p]] = p /\ h[p] \in B
    <3>1. \E i \in 1 .. m : g[i] = p
      BY <1>2
    <3>2. h[p] = CHOOSE i \in 1 .. m : g[i] = p
      OBVIOUS
    <3> HIDE DEF h
    <3>3. h[p] \in 1 .. m /\ g[h[p]] = p
      BY <3>1, <3>2
    <3>4. f[p] = x
      OBVIOUS
    <3>5. out[h[p]] = x
      BY <1>2, <3>3, <3>4
    <3> QED  BY <2>1, <3>3, <3>5
  <2>3. h = [p \in A |-> h[p]]
    OBVIOUS
  <2> HIDE DEF A, h
  <2>4. h \in [A -> B]
    BY <2>2, <2>3
  <2>5. \A p, q \in A : h[p] = h[q] => p = q
    BY <2>2
  <2>6. Cardinality(A) <= Cardinality(B)
    BY <2>1, <2>4, <2>5, CountInjected
  <2>7. PICK p \in Q : f[p] = x
    OBVIOUS
  <2>8. PICK i \in 1 .. m : g[i] = p
    BY <1>2
  <2>9. out[i] = x
    BY <1>2, <2>7, <2>8
  <2>10. x \in ToSet(out)
    BY <1>1, <2>9, BagIs
  <2> QED  BY <2>6, <2>10 DEF A, B
<1> HIDE DEF Of
<1>5. DOMAIN a = ToSet(out) /\ DOMAIN b = {f[p] : p \in Q}
  BY <1>3
<1>6. \A x \in ToSet(out) : a[x] = Cardinality(Places(out, x))
  BY <1>3
<1>7. \A x \in {f[p] : p \in Q} : b[x] = Cardinality(Of(x))
  BY <1>3
<1>8. b \sqsubseteq a
  BY <1>4, <1>5, <1>6, <1>7 DEF \sqsubseteq
<1> QED  BY <1>8 DEF a, b

-----------------------------------------------------------------------------
(***************************************************************************)
(* The reference definition, over the rows of the two tables.              *)
(***************************************************************************)
JoinNames(s) ==
  Prefixed(s.table, NamesOf(s.table))
  \o Prefixed(s.join[1].right_table, NamesOf(s.join[1].right_table))

PicksOf(s, L, R) ==
  IF s.join = <<>>
  THEN {<<i>> : i \in {i \in DOMAIN L : Wanted(s, NamesOf(s.table), L[i])}}
  ELSE {p \in (DOMAIN L) \X (DOMAIN R) :
          /\ L[p[1]][Column(s.table, s.join[1].left_col)]
               = R[p[2]][Column(s.join[1].right_table, s.join[1].right_col)]
          /\ Wanted(s, JoinNames(s), L[p[1]] \o R[p[2]])}

ResultOf(L, R, p) == Values(L[p[1]]) \o (IF Len(p) = 2 THEN Values(R[p[2]]) ELSE <<>>)

Yields(s, L, R) ==
  [x \in {ResultOf(L, R, p) : p \in PicksOf(s, L, R)} |->
     Cardinality({p \in PicksOf(s, L, R) : ResultOf(L, R, p) = x})]

\* The reference definition counts the picks that give a result.
LEMMA YieldsFrom ==
  ASSUME NEW s, NEW L, NEW R, NEW f, \A p \in PicksOf(s, L, R) : f[p] = ResultOf(L, R, p)
  PROVE  Yields(s, L, R) = BagFrom(PicksOf(s, L, R), f)
<1> DEFINE P == PicksOf(s, L, R)
<1>1. \A p \in P : f[p] = ResultOf(L, R, p)
  OBVIOUS
<1>2. Yields(s, L, R) = [x \in {ResultOf(L, R, p) : p \in P} |-> Cardinality({p \in P : ResultOf(L, R, p) = x})]
  BY DEF Yields
<1> HIDE DEF P
<1>3. {ResultOf(L, R, p) : p \in P} = {f[p] : p \in P}
  BY <1>1
<1>4. ASSUME NEW x PROVE {p \in P : ResultOf(L, R, p) = x} = {p \in P : f[p] = x}
  BY <1>1
<1>5. Yields(s, L, R) = [x \in {f[p] : p \in P} |-> Cardinality({p \in P : f[p] = x})]
  BY <1>2, <1>3, <1>4
<1> QED  BY <1>5 DEF BagFrom, P

\* r is what select_all reads of table t when its rows are ins.
TableRead(r, t, ins) ==
  /\ t \in Tables /\ r.headers = NamesOf(t) /\ r.rows \in Seq(Rows) /\ ins \in Seq(Rows)
  /\ Reads(r.rows, ins) /\ \A i \in 1 .. Len(ins) : Fits(ins[i], Schemas[t])

\* The names of the columns, with the table before them or not.
LEMMA NamesTypes ==
  ASSUME NEW t \in Tables
  PROVE  /\ NamesOf(t) \in Seq(Seq(Nat)) /\ NamesOf(t) \in Strings /\ Prefixed(t, NamesOf(t)) \in Strings
         /\ Len(NamesOf(t)) = Len(Schemas[t]) /\ Len(Prefixed(t, NamesOf(t))) = Len(Schemas[t])
         /\ Len(Schemas[t]) \in Nat
<1>1. Schemas[t] \in Cols /\ t \in Nat
  <2>1. Tables \subseteq Nat
    BY QueryAssumption
  <2> QED  BY <2>1, SchemaTypes
<1> DEFINE C == [name : Seq(Nat), type : Types]
<1>2. PICK n \in Nat : n = Len(Schemas[t]) /\ DOMAIN Schemas[t] = 1 .. n /\ \A i \in 1 .. n : Schemas[t][i] \in C
  <2>1. Schemas[t] \in Seq(C)
    BY <1>1 DEF Cols
  <2> HIDE DEF C
  <2> QED  BY <2>1
<1>3. \A i \in 1 .. n : Schemas[t][i].name \in Seq(Nat)
  BY <1>2
<1> DEFINE names == NamesOf(t)
           full == Prefixed(t, names)
<1>4. names = [i \in 1 .. n |-> Schemas[t][i].name]
  BY <1>2 DEF NamesOf
<1> HIDE DEF names
<1>5. Len(names) = n /\ DOMAIN names = 1 .. n /\ \A i \in 1 .. n : names[i] \in Seq(Nat)
  BY <1>3, <1>4
<1>6. ASSUME NEW u \in Seq(Nat) PROVE u \in Seq(Int) /\ <<t, Dot>> \o u \in Seq(Int)
  <2>1. u \in Seq(Int)
    <3>1. \A j \in 1 .. Len(u) : u[j] \in Int
      OBVIOUS
    <3> QED  BY <3>1
  <2>2. <<t, Dot>> \in Seq(Int)
    BY <1>1 DEF Dot
  <2> QED  BY <2>1, <2>2
<1>7. full = [i \in 1 .. n |-> <<t, Dot>> \o names[i]]
  BY <1>5 DEF Prefixed
<1> HIDE DEF full
<1>8. \A i \in 1 .. n : full[i] \in Seq(Int) /\ names[i] \in Seq(Int)
  BY <1>5, <1>6, <1>7
<1>9. names \in Seq(Seq(Nat)) /\ names \in Seq(Seq(Int)) /\ full \in Seq(Seq(Int)) /\ Len(full) = n
  BY <1>4, <1>5, <1>7, <1>8
<1> QED  BY <1>2, <1>5, <1>9 DEF names, full, Strings

\* A row of n values, as rows are and pairs of rows.
Wide(row, n) == row \in Seq(Value) /\ Len(row) = n

\* The values of a row, without their types.
LEMMA ValuesIs ==
  ASSUME NEW n \in Nat, NEW row, Wide(row, n)
  PROVE  /\ Values(row) \in Strings /\ Len(Values(row)) = n
         /\ \A j \in 1 .. n : Values(row)[j] = row[j].v
<1>1. DOMAIN row = 1 .. n /\ \A j \in 1 .. n : row[j] \in Value
  BY DEF Wide
<1>2. Values(row) = [j \in 1 .. n |-> row[j].v]
  BY <1>1 DEF Values
<1>3. \A j \in 1 .. n : row[j].v \in Seq(Int)
  BY <1>1 DEF Value
<1> QED  BY <1>2, <1>3 DEF Strings

\* The values of two rows that are joined.
LEMMA ValuesOfPair ==
  ASSUME NEW n \in Nat, NEW m \in Nat, NEW a, NEW b, Wide(a, n), Wide(b, m)
  PROVE  Wide(a \o b, n + m) /\ Values(a \o b) = Values(a) \o Values(b)
<1>1. /\ a \in Seq(Value) /\ b \in Seq(Value) /\ Len(a) = n /\ Len(b) = m
  BY DEF Wide
<1> DEFINE c == a \o b
<1>2. /\ c \in Seq(Value) /\ Len(c) = n + m
      /\ \A j \in 1 .. n + m : c[j] = IF j <= n THEN a[j] ELSE b[j - n]
  BY <1>1, ConcatProperties
<1> HIDE DEF c
<1>3. Wide(c, n + m)
  BY <1>2 DEF Wide
<1>4. /\ Values(c) \in Seq(Seq(Int)) /\ Len(Values(c)) = n + m /\ \A j \in 1 .. n + m : Values(c)[j] = c[j].v
  BY <1>3, ValuesIs DEF Strings
<1>5. /\ Values(a) \in Seq(Seq(Int)) /\ Len(Values(a)) = n /\ \A j \in 1 .. n : Values(a)[j] = a[j].v
  BY ValuesIs DEF Strings
<1>6. /\ Values(b) \in Seq(Seq(Int)) /\ Len(Values(b)) = m /\ \A j \in 1 .. m : Values(b)[j] = b[j].v
  BY ValuesIs DEF Strings
<1> DEFINE d == Values(a) \o Values(b)
<1>7. /\ d \in Seq(Seq(Int)) /\ Len(d) = n + m
      /\ \A j \in 1 .. n + m : d[j] = IF j <= n THEN Values(a)[j] ELSE Values(b)[j - n]
  BY <1>5, <1>6, ConcatProperties, ZenonT(40)
<1> HIDE DEF d
<1>8. ASSUME NEW j \in 1 .. n + m PROVE Values(c)[j] = d[j]
  <2>1. CASE j <= n
    <3>1. j \in 1 .. n
      BY <2>1
    <3> QED  BY <1>2, <1>4, <1>5, <1>7, <2>1, <3>1
  <2>2. CASE ~(j <= n)
    <3>1. j - n \in 1 .. m
      BY <2>2
    <3> QED  BY <1>2, <1>4, <1>6, <1>7, <2>2, <3>1
  <2> QED  BY <2>1, <2>2
<1>9. Values(c) = d
  BY <1>4, <1>7, <1>8, SeqEqual
<1> QED  BY <1>3, <1>9 DEF c, d

\* The rows of a table that was read have its columns.
LEMMA TableReadRows ==
  ASSUME NEW r, NEW t, NEW ins, TableRead(r, t, ins)
  PROVE  /\ \A i \in 1 .. Len(r.rows) : Wide(r.rows[i], Len(Schemas[t]))
         /\ \A i \in 1 .. Len(ins) : Wide(ins[i], Len(Schemas[t]))
         /\ Len(r.rows) \in Nat /\ Len(ins) \in Nat /\ DOMAIN r.rows = 1 .. Len(r.rows) /\ DOMAIN ins = 1 .. Len(ins)
<1>1. /\ r.rows \in Seq(Rows) /\ ins \in Seq(Rows) /\ Reads(r.rows, ins)
      /\ \A i \in 1 .. Len(ins) : Fits(ins[i], Schemas[t])
  BY DEF TableRead
<1>2. \A i \in 1 .. Len(ins) : Wide(ins[i], Len(Schemas[t]))
  BY <1>1 DEF Fits, TypeChecks, Wide
<1>3. PICK h : Permutes(h, Len(r.rows), Len(ins)) /\ \A i \in 1 .. Len(r.rows) : r.rows[i] = ins[h[i]]
  BY <1>1 DEF Reads
<1>4. \A i \in 1 .. Len(r.rows) : h[i] \in 1 .. Len(ins)
  BY <1>3 DEF Permutes
<1> QED  BY <1>1, <1>2, <1>3, <1>4, SMTT(30)

\* A result that is printed.
LEMMA PrintedIs ==
  ASSUME NEW n \in Nat, NEW headers \in Strings, Len(headers) = n, NEW S, NEW rows \in Seq(S),
         \A i \in 1 .. Len(rows) : Wide(rows[i], n)
  PROVE  /\ IsRows(Printed(headers, rows)) /\ Printed(headers, rows).rows \in Seq(Strings)
         /\ Len(Printed(headers, rows).rows) = Len(rows)
         /\ \A i \in 1 .. Len(rows) : Printed(headers, rows).rows[i] = Values(rows[i])
<1>1. PICK m \in Nat : m = Len(rows) /\ DOMAIN rows = 1 .. m
  OBVIOUS
<1> DEFINE out == [i \in DOMAIN rows |-> [j \in DOMAIN rows[i] |-> rows[i][j].v]]
<1>2. out = [i \in 1 .. m |-> Values(rows[i])]
  BY <1>1 DEF Values
<1>3. Printed(headers, rows) = [tag |-> "Rows", headers |-> headers, rows |-> out]
  BY DEF Printed
<1> HIDE DEF out
<1>4. \A i \in 1 .. m : Values(rows[i]) \in Strings /\ Len(Values(rows[i])) = n
  BY <1>1, ValuesIs
<1>5. out \in Seq(Strings) /\ Len(out) = m /\ \A i \in 1 .. m : out[i] = Values(rows[i])
  BY <1>2, <1>4
<1>6. PICK p : p = Printed(headers, rows) /\ p = [tag |-> "Rows", headers |-> headers, rows |-> out]
  BY <1>3
<1>7. p \in [tag : {"Rows"}, headers : Strings, rows : Seq(Strings)] /\ p.headers = headers /\ p.rows = out
  BY <1>5, <1>6
<1>8. IsRows(p)
  BY <1>4, <1>5, <1>7 DEF IsRows
<1> QED  BY <1>1, <1>5, <1>6, <1>7, <1>8

-----------------------------------------------------------------------------
(***************************************************************************)
(* The answer of a SELECT.                                                 *)
(***************************************************************************)
\* The answer m has all the rows that L1 and R1 yield and none that L2 and R2 do
\* not.
Between(m, s, L1, R1, L2, R2) ==
  /\ Yields(s, L1, R1) \sqsubseteq BagOf(m.rows)
  /\ BagOf(m.rows) \sqsubseteq Yields(s, L2, R2)

\* A SELECT without a JOIN answers with what its reference definition yields.
LEMMA SelectAnswers ==
  ASSUME NEW s, NEW r, NEW L, TableRead(r, s.table, L), s.join = <<>>, NEW R
  PROVE  IsRows(execute_select(s, r)) /\ Between(execute_select(s, r), s, L, R, L, R)
<1> DEFINE t == s.table
           names == NamesOf(t)
           w == Len(Schemas[t])
           at == {i \in DOMAIN r.rows : s.where = <<>> \/ evaluate(s.where[1], r.rows[i], r.headers)}
           kept == Keep(r.rows, at)
           answer_ == execute_select(s, r)
<1>1. /\ t \in Tables /\ r.headers = names /\ r.rows \in Seq(Rows) /\ L \in Seq(Rows)
      /\ Reads(r.rows, L)
  BY DEF TableRead
<1>2. /\ names \in Strings /\ Len(names) = w /\ w \in Nat
  BY <1>1, NamesTypes
<1>3. PICK m \in Nat, n \in Nat : /\ m = Len(r.rows) /\ n = Len(L) /\ DOMAIN r.rows = 1 .. m /\ DOMAIN L = 1 .. n
                                  /\ \A i \in 1 .. m : Wide(r.rows[i], w)
                                  /\ \A i \in 1 .. n : Wide(L[i], w)
  BY TableReadRows
<1>4. PICK h : Permutes(h, m, n) /\ \A i \in 1 .. m : r.rows[i] = L[h[i]]
  BY <1>1, <1>3 DEF Reads
<1>5. /\ h \in [1 .. m -> 1 .. n] /\ \A i, j \in 1 .. m : h[i] = h[j] => i = j
      /\ \A x \in 1 .. n : \E i \in 1 .. m : h[i] = x
  BY <1>4 DEF Permutes
<1>6. \A i \in 1 .. m : i \in at <=> Wanted(s, names, r.rows[i])
  <2>1. ASSUME NEW i \in 1 .. m
        PROVE  (s.where = <<>> \/ evaluate(s.where[1], r.rows[i], names)) <=> Wanted(s, names, r.rows[i])
    <3>1. names \in Seq(Seq(Int))
      BY <1>2 DEF Strings
    <3> HIDE DEF names
    <3> QED  BY <3>1, WhereIs
  <2> QED  BY <1>1, <1>3, <2>1
<1> HIDE DEF at
<1>7. kept \in Seq(Rows) /\ Kept(kept, r.rows, at, m)
  BY <1>1, <1>3, KeepProperties
<1>8. answer_ = Printed(names, kept)
  BY <1>1 DEF execute_select, Filter, at
<1> HIDE DEF kept, answer_
<1>9. PICK k \in Nat : k = Len(kept)
  BY <1>7
<1>10. PICK from : KeptFrom(kept, r.rows, at, m, from)
  BY <1>7 DEF Kept
<1>11. /\ from \in [1 .. k -> 1 .. m]
       /\ \A i \in 1 .. k : from[i] \in at /\ kept[i] = r.rows[from[i]]
       /\ \A i, j \in 1 .. k : from[i] = from[j] => i = j
       /\ \A x \in 1 .. m : x \in at => \E i \in 1 .. k : from[i] = x
  BY <1>9, <1>10 DEF KeptFrom
<1>12. /\ IsRows(answer_) /\ answer_.rows \in Seq(Strings) /\ Len(answer_.rows) = k
       /\ \A i \in 1 .. k : answer_.rows[i] = Values(kept[i])
  <2>1. \A i \in 1 .. Len(kept) : Wide(kept[i], w)
    BY <1>3, <1>9, <1>11
  <2> HIDE DEF names, w
  <2> QED  BY <1>2, <1>7, <1>8, <1>9, <2>1, PrintedIs
<1> DEFINE P == PicksOf(s, L, R)
           f == [p \in P |-> ResultOf(L, R, p)]
           g == [i \in 1 .. k |-> <<h[from[i]]>>]
<1>13. P = {<<i>> : i \in {i \in 1 .. n : Wanted(s, names, L[i])}}
  BY <1>3 DEF PicksOf
<1>14. ASSUME NEW i \in 1 .. n PROVE ResultOf(L, R, <<i>>) = Values(L[i])
  <2>1. Len(<<i>>) = 1 /\ <<i>>[1] = i
    OBVIOUS
  <2>2. ResultOf(L, R, <<i>>) = Values(L[i]) \o <<>>
    <3>1. PICK p : p = <<i>> /\ Len(p) = 1 /\ p[1] = i
      BY <2>1
    <3>2. Len(p) # 2
      BY <3>1
    <3>3. ResultOf(L, R, p) = Values(L[i]) \o <<>>
      BY <3>1, <3>2 DEF ResultOf
    <3> QED  BY <3>1, <3>3
  <2>3. Values(L[i]) \in Seq(Seq(Int))
    BY <1>2, <1>3, ValuesIs DEF Strings
  <2>4. Values(L[i]) \o <<>> = Values(L[i])
    BY <2>3, ConcatEmptySeq
  <2> QED  BY <2>2, <2>4
<1> HIDE DEF P
<1>15. ASSUME NEW i \in 1 .. k
       PROVE  /\ h[from[i]] \in 1 .. n /\ g[i] = <<h[from[i]]>> /\ g[i] \in P
              /\ answer_.rows[i] = f[g[i]]
  <2>1. from[i] \in 1 .. m /\ from[i] \in at /\ kept[i] = r.rows[from[i]]
    BY <1>11
  <2>2. h[from[i]] \in 1 .. n /\ kept[i] = L[h[from[i]]] /\ Wanted(s, names, L[h[from[i]]])
    BY <1>4, <1>5, <1>6, <2>1
  <2>3. <<h[from[i]]>> \in P
    BY <1>13, <2>2
  <2>4. f[<<h[from[i]]>>] = Values(L[h[from[i]]])
    BY <1>14, <2>2, <2>3
  <2>5. g[i] = <<h[from[i]]>>
    OBVIOUS
  <2> HIDE DEF f, g
  <2> QED  BY <1>12, <2>2, <2>3, <2>4, <2>5
<1>16. \A p \in P : f[p] = ResultOf(L, R, p)
  OBVIOUS
<1>17. g = [i \in 1 .. k |-> g[i]]
  OBVIOUS
<1> HIDE DEF f, g
<1>18. \A i, j \in 1 .. k : g[i] = g[j] => i = j
  <2>1. ASSUME NEW i \in 1 .. k, NEW j \in 1 .. k, g[i] = g[j] PROVE i = j
    <3>1. h[from[i]] = h[from[j]]
      BY <1>15, <2>1
    <3>2. from[i] = from[j]
      BY <1>5, <1>11, <3>1
    <3> QED  BY <1>11, <3>2
  <2> QED  BY <2>1
<1>19. ASSUME NEW p \in P PROVE \E i \in 1 .. k : g[i] = p
  <2>1. PICK x \in 1 .. n : p = <<x>> /\ Wanted(s, names, L[x])
    BY <1>13
  <2>2. PICK y \in 1 .. m : h[y] = x
    BY <1>5
  <2>3. y \in at
    BY <1>4, <1>6, <2>1, <2>2
  <2>4. PICK i \in 1 .. k : from[i] = y
    BY <1>11, <2>3
  <2> QED  BY <1>15, <2>1, <2>2, <2>4
<1>20. IsFiniteSet(P)
  <2> DEFINE c == [p \in P |-> p[1]]
  <2>1. \A p \in P : p[1] \in 1 .. n /\ p = <<p[1]>>
    BY <1>13
  <2>2. c \in [P -> 1 .. n]
    BY <2>1
  <2>3. \A p, q \in P : c[p] = c[q] => p = q
    BY <2>1
  <2>4. IsFiniteSet(1 .. n)
    BY FS_Interval
  <2> HIDE DEF c
  <2> QED  BY <2>2, <2>3, <2>4, CountInjected
<1>21. Picks(answer_.rows, P, f, g)
  BY <1>12, <1>15, <1>17, <1>18 DEF Picks
<1>22. Yields(s, L, R) = BagFrom(P, f)
  BY <1>16, YieldsFrom DEF P
<1>23. BagOf(answer_.rows) \sqsubseteq BagFrom(P, f)
  BY <1>12, <1>20, <1>21, PicksNoMore
<1>24. BagFrom(P, f) \sqsubseteq BagOf(answer_.rows)
  <2>1. \A p \in P : \E i \in 1 .. Len(answer_.rows) : g[i] = p
    BY <1>12, <1>19
  <2> QED  BY <1>12, <1>21, <2>1, PicksNoLess
<1> QED  BY <1>12, <1>22, <1>23, <1>24 DEF Between, answer_

-----------------------------------------------------------------------------
(***************************************************************************)
(* The pairs of a JOIN.                                                    *)
(***************************************************************************)
\* The rows of r that match row i of l.
Matching(l, r, li, ri, i) == {j \in DOMAIN r.rows : l.rows[i][li] = r.rows[j][ri]}
Product(l, r, i) == [j \in DOMAIN r.rows |-> l.rows[i] \o r.rows[j]]
Joined(l, r, li, ri) ==
  FlattenSeq([i \in DOMAIN l.rows |-> Keep(Product(l, r, i), Matching(l, r, li, ri, i))])

\* a and b say of which rows each row of out is made.
PairedBy(out, l, r, li, ri, a, b) ==
  /\ a \in [1 .. Len(out) -> 1 .. Len(l.rows)] /\ b \in [1 .. Len(out) -> 1 .. Len(r.rows)]
  /\ \A x \in 1 .. Len(out) : /\ out[x] = l.rows[a[x]] \o r.rows[b[x]]
                              /\ l.rows[a[x]][li] = r.rows[b[x]][ri]
  /\ \A x, y \in 1 .. Len(out) : a[x] = a[y] /\ b[x] = b[y] => x = y
  /\ \A i \in 1 .. Len(l.rows) : \A j \in 1 .. Len(r.rows) :
       l.rows[i][li] = r.rows[j][ri] => \E x \in 1 .. Len(out) : a[x] = i /\ b[x] = j

Paired(out, l, r, li, ri) == \E a, b : PairedBy(out, l, r, li, ri, a, b)

\* The rows of both are as wide as their tables.
WideRows(rows, w) == rows \in Seq(Rows) /\ \A i \in 1 .. Len(rows) : Wide(rows[i], w)

\* The loops of execute_join pair each two rows that match once, and no others.
LEMMA JoinPairs ==
  ASSUME NEW w \in Nat, NEW v \in Nat, NEW l, NEW r, WideRows(l.rows, w), WideRows(r.rows, v), NEW li, NEW ri
  PROVE  /\ Joined(l, r, li, ri) \in Seq(Seq(Value))
         /\ \A x \in 1 .. Len(Joined(l, r, li, ri)) : Wide(Joined(l, r, li, ri)[x], w + v)
         /\ Paired(Joined(l, r, li, ri), l, r, li, ri)
<1>1. PICK m \in Nat : m = Len(l.rows) /\ DOMAIN l.rows = 1 .. m /\ \A i \in 1 .. m : Wide(l.rows[i], w)
  BY DEF WideRows
<1>2. PICK n \in Nat : n = Len(r.rows) /\ DOMAIN r.rows = 1 .. n /\ \A j \in 1 .. n : Wide(r.rows[j], v)
  BY DEF WideRows
<1> DEFINE T == Seq(Value)
           prod == [i \in 1 .. m |-> Product(l, r, i)]
           at == [i \in 1 .. m |-> Matching(l, r, li, ri, i)]
           ss == [i \in 1 .. m |-> Keep(prod[i], at[i])]
           out == Joined(l, r, li, ri)
<1>3. ASSUME NEW i \in 1 .. m
      PROVE  /\ prod[i] \in Seq(T) /\ Len(prod[i]) = n
             /\ \A j \in 1 .. n : prod[i][j] = l.rows[i] \o r.rows[j] /\ Wide(prod[i][j], w + v)
             /\ \A j \in 1 .. n : j \in at[i] <=> l.rows[i][li] = r.rows[j][ri]
             /\ ss[i] = Keep(prod[i], at[i])
  <2>1. prod[i] = [j \in 1 .. n |-> l.rows[i] \o r.rows[j]]
    BY <1>2 DEF Product
  <2>2. at[i] = {j \in 1 .. n : l.rows[i][li] = r.rows[j][ri]}
    BY <1>2 DEF Matching
  <2>3. \A j \in 1 .. n : Wide(l.rows[i] \o r.rows[j], w + v)
    BY <1>1, <1>2, ValuesOfPair
  <2>4. ss[i] = Keep(prod[i], at[i])
    OBVIOUS
  <2> HIDE DEF prod, at, ss
  <2>5. \A j \in 1 .. n : l.rows[i] \o r.rows[j] \in T
    BY <2>3 DEF Wide
  <2> HIDE DEF T
  <2>6. prod[i] \in Seq(T) /\ Len(prod[i]) = n
    BY <2>1, <2>5
  <2>7. \A j \in 1 .. n : prod[i][j] = l.rows[i] \o r.rows[j]
    BY <2>1
  <2>8. \A j \in 1 .. n : Wide(prod[i][j], w + v)
    BY <2>3, <2>7
  <2>9. \A j \in 1 .. n : j \in at[i] <=> l.rows[i][li] = r.rows[j][ri]
    BY <2>2
  <2> QED  BY <2>4, <2>6, <2>7, <2>8, <2>9
<1>4. out = FlattenSeq(ss)
  BY <1>1 DEF Joined
<1>5. Len(ss) = m /\ DOMAIN ss = 1 .. m /\ ss = [i \in 1 .. m |-> ss[i]]
  OBVIOUS
<1> HIDE DEF T, prod, at, ss, out
<1>6. ASSUME NEW i \in 1 .. m PROVE ss[i] \in Seq(T) /\ Kept(ss[i], prod[i], at[i], n)
  <2>1. prod[i] \in Seq(T) /\ Len(prod[i]) = n /\ ss[i] = Keep(prod[i], at[i])
    BY <1>3
  <2>2. Keep(prod[i], at[i]) \in Seq(T) /\ Kept(Keep(prod[i], at[i]), prod[i], at[i], Len(prod[i]))
    BY <2>1, KeepProperties
  <2> QED  BY <2>1, <2>2
<1>7. ss \in Seq(Seq(T))
  BY <1>5, <1>6
<1>8. out \in Seq(T) /\ IsFlat(out, ss, m)
  BY <1>4, <1>5, <1>7, FlattenAny
<1>9. PICK k \in Nat : k = Len(out)
  BY <1>8
<1>10. PICK seg \in [1 .. k -> Nat], off \in [1 .. k -> Nat] : FlatOf(out, ss, m, seg, off)
  BY <1>8, <1>9 DEF IsFlat
<1>11. /\ \A x \in 1 .. k : seg[x] \in 1 .. m /\ off[x] \in 1 .. Len(ss[seg[x]]) /\ out[x] = ss[seg[x]][off[x]]
       /\ \A x, y \in 1 .. k : x < y => seg[x] < seg[y] \/ (seg[x] = seg[y] /\ off[x] < off[y])
       /\ \A i \in 1 .. m : \A j \in 1 .. Len(ss[i]) : \E x \in 1 .. k : seg[x] = i /\ off[x] = j
  BY <1>9, <1>10, SMTT(30) DEF FlatOf
<1> DEFINE fr == [i \in 1 .. m |-> CHOOSE from : KeptFrom(ss[i], prod[i], at[i], n, from)]
<1>12. ASSUME NEW i \in 1 .. m PROVE KeptFrom(ss[i], prod[i], at[i], n, fr[i])
  <2>1. \E from : KeptFrom(ss[i], prod[i], at[i], n, from)
    BY <1>6 DEF Kept
  <2>2. fr[i] = CHOOSE from : KeptFrom(ss[i], prod[i], at[i], n, from)
    OBVIOUS
  <2> HIDE DEF fr
  <2> QED  BY <2>1, <2>2, Zenon
<1> HIDE DEF fr
<1> DEFINE b == [x \in 1 .. k |-> fr[seg[x]][off[x]]]
           a == [x \in 1 .. k |-> seg[x]]
<1>13. ASSUME NEW i \in 1 .. m
       PROVE  /\ \A c \in 1 .. Len(ss[i]) : fr[i][c] \in 1 .. n /\ fr[i][c] \in at[i] /\ ss[i][c] = prod[i][fr[i][c]]
              /\ \A c, d \in 1 .. Len(ss[i]) : fr[i][c] = fr[i][d] => c = d
              /\ \A j \in 1 .. n : j \in at[i] => \E c \in 1 .. Len(ss[i]) : fr[i][c] = j
  BY <1>12, ZenonT(40) DEF KeptFrom
<1>14. \A x \in 1 .. k : b[x] = fr[seg[x]][off[x]] /\ a[x] = seg[x]
  OBVIOUS
<1>15. b = [x \in 1 .. k |-> b[x]] /\ a = [x \in 1 .. k |-> a[x]]
  OBVIOUS
<1> HIDE DEF a, b
<1>16. ASSUME NEW x \in 1 .. k
       PROVE  /\ a[x] \in 1 .. m /\ b[x] \in 1 .. n /\ out[x] = l.rows[a[x]] \o r.rows[b[x]]
              /\ l.rows[a[x]][li] = r.rows[b[x]][ri] /\ Wide(out[x], w + v)
  <2>1. PICK i, c : i = seg[x] /\ c = off[x]
    OBVIOUS
  <2>0. a[x] = i /\ b[x] = fr[i][c]
    BY <1>14, <2>1
  <2>2. i \in 1 .. m /\ c \in 1 .. Len(ss[i]) /\ out[x] = ss[i][c] /\ a[x] = i /\ b[x] = fr[i][c]
    <3>1. seg[x] \in 1 .. m /\ off[x] \in 1 .. Len(ss[seg[x]]) /\ out[x] = ss[seg[x]][off[x]]
      BY <1>11
    <3> QED  BY <2>0, <2>1, <3>1
  <2>3. b[x] \in 1 .. n /\ b[x] \in at[i] /\ out[x] = prod[i][b[x]]
    <3>1. i \in 1 .. m /\ c \in 1 .. Len(ss[i])
      BY <2>2
    <3>2. fr[i][c] \in 1 .. n /\ fr[i][c] \in at[i] /\ ss[i][c] = prod[i][fr[i][c]]
      BY <1>13, <3>1
    <3> QED  BY <2>2, <3>2
  <2>4. prod[i][b[x]] = l.rows[i] \o r.rows[b[x]] /\ l.rows[i][li] = r.rows[b[x]][ri] /\ Wide(prod[i][b[x]], w + v)
    BY <1>3, <2>2, <2>3
  <2> QED  BY <2>2, <2>3, <2>4
<1>17. a \in [1 .. k -> 1 .. m] /\ b \in [1 .. k -> 1 .. n]
  BY <1>15, <1>16
<1>18. ASSUME NEW x \in 1 .. k, NEW y \in 1 .. k, a[x] = a[y] /\ b[x] = b[y] PROVE x = y
  <2>1. seg[x] = seg[y]
    BY <1>14, <1>18
  <2>2. PICK i, c, d : i = seg[x] /\ c = off[x] /\ d = off[y]
    OBVIOUS
  <2>3. i \in 1 .. m /\ c \in 1 .. Len(ss[i]) /\ d \in 1 .. Len(ss[i]) /\ fr[i][c] = fr[i][d]
    BY <1>11, <1>14, <1>18, <2>1, <2>2
  <2>4. c = d
    BY <1>13, <2>3
  <2>5. off[x] = off[y] /\ off[x] \in Nat /\ seg[x] \in Nat
    BY <1>10, <2>2, <2>4
  <2>6. ~(x < y)
    <3>1. ASSUME x < y PROVE seg[x] < seg[y] \/ (seg[x] = seg[y] /\ off[x] < off[y])
      BY <1>11, <3>1
    <3> QED  BY <2>1, <2>5, <3>1
  <2>7. ~(y < x)
    <3>1. ASSUME y < x PROVE seg[y] < seg[x] \/ (seg[y] = seg[x] /\ off[y] < off[x])
      BY <1>11, <3>1
    <3> QED  BY <2>1, <2>5, <3>1
  <2> QED  BY <2>6, <2>7
<1>19. ASSUME NEW i \in 1 .. m, NEW j \in 1 .. n, l.rows[i][li] = r.rows[j][ri]
       PROVE  \E x \in 1 .. k : a[x] = i /\ b[x] = j
  <2>1. j \in at[i]
    BY <1>3, <1>19
  <2>2. PICK c \in 1 .. Len(ss[i]) : fr[i][c] = j
    BY <1>13, <2>1
  <2>3. PICK x \in 1 .. k : seg[x] = i /\ off[x] = c
    BY <1>11
  <2> QED  BY <1>14, <2>2, <2>3
<1>20. PairedBy(out, l, r, li, ri, a, b)
  <2>1. a \in [1 .. Len(out) -> 1 .. Len(l.rows)] /\ b \in [1 .. Len(out) -> 1 .. Len(r.rows)]
    BY <1>1, <1>2, <1>9, <1>17
  <2>2. \A x \in 1 .. Len(out) : out[x] = l.rows[a[x]] \o r.rows[b[x]] /\ l.rows[a[x]][li] = r.rows[b[x]][ri]
    BY <1>9, <1>16
  <2>3. \A x, y \in 1 .. Len(out) : a[x] = a[y] /\ b[x] = b[y] => x = y
    BY <1>9, <1>18
  <2>4. \A i \in 1 .. Len(l.rows) : \A j \in 1 .. Len(r.rows) :
          l.rows[i][li] = r.rows[j][ri] => \E x \in 1 .. Len(out) : a[x] = i /\ b[x] = j
    <3>1. \A i \in 1 .. m : \A j \in 1 .. n :
            l.rows[i][li] = r.rows[j][ri] => \E x \in 1 .. k : a[x] = i /\ b[x] = j
      BY <1>19
    <3>2. m = Len(l.rows) /\ n = Len(r.rows) /\ k = Len(out)
      BY <1>1, <1>2, <1>9
    <3> QED  BY <3>1, <3>2, SMTT(30)
  <2> QED  BY <2>1, <2>2, <2>3, <2>4, Zenon DEF PairedBy
<1>21. Paired(out, l, r, li, ri)
  BY <1>20 DEF Paired
<1> QED  BY <1>8, <1>9, <1>16, <1>21 DEF out, T

-----------------------------------------------------------------------------
(***************************************************************************)
(* The answer of a JOIN.                                                   *)
(***************************************************************************)
\* big has the rows of small, and perhaps some more.
Extends(big, small) ==
  /\ Len(small) \in Nat /\ Len(big) \in Nat /\ Len(small) <= Len(big)
  /\ DOMAIN small = 1 .. Len(small) /\ DOMAIN big = 1 .. Len(big)
  /\ \A i \in 1 .. Len(small) : big[i] = small[i]

\* execute_join is an error, or the printed pairs that WHERE keeps.
LEMMA JoinIs ==
  ASSUME NEW s, NEW l, NEW r,
         l.headers = NamesOf(s.table), r.headers = NamesOf(s.join[1].right_table),
         NEW li, li = find_col_index(l.headers, s.join[1].left_col),
         NEW ri, ri = find_col_index(r.headers, s.join[1].right_col)
  PROVE  execute_join(s, l, r) =
           IF li = 0 \/ ri = 0 THEN Error(ColumnNotFound)
           ELSE Printed(JoinNames(s), Filter(s.where, Joined(l, r, li, ri), JoinNames(s)))
BY Zenon DEF execute_join, JoinNames, Joined, Matching, Product

\* The rows of a table that was read are as wide as it.
LEMMA TablesReadWide ==
  ASSUME NEW r, NEW t, NEW ins, TableRead(r, t, ins)
  PROVE  WideRows(r.rows, Len(Schemas[t]))
BY TableReadRows DEF WideRows, TableRead

\* Neither of the columns is missing.
LEMMA JoinAnswersRows ==
  ASSUME NEW s, NEW l, NEW r, NEW L1, NEW L2, NEW R1, NEW R2, s.join # <<>>,
         TableRead(l, s.table, L1), TableRead(r, s.join[1].right_table, R2),
         Extends(L2, L1), Extends(R2, R1),
         NEW li, li = Column(s.table, s.join[1].left_col),
         NEW ri, ri = Column(s.join[1].right_table, s.join[1].right_col),
         NEW m, m = Printed(JoinNames(s), Filter(s.where, Joined(l, r, li, ri), JoinNames(s)))
  PROVE  IsRows(m) /\ Between(m, s, L1, R1, L2, R2)
<1> DEFINE t == s.table
           u == s.join[1].right_table
           names == JoinNames(s)
           w == Len(Schemas[t])
           v == Len(Schemas[u])
           out == Joined(l, r, li, ri)
           at == {i \in DOMAIN out : s.where = <<>> \/ evaluate(s.where[1], out[i], names)}
           kept == Keep(out, at)
<1>1. /\ t \in Tables /\ l.rows \in Seq(Rows) /\ Reads(l.rows, L1)
      /\ u \in Tables /\ r.rows \in Seq(Rows) /\ Reads(r.rows, R2)
  BY DEF TableRead
<1>2. names \in Strings /\ Len(names) = w + v /\ w \in Nat /\ v \in Nat /\ w + v \in Nat
  <2>1. /\ Prefixed(t, NamesOf(t)) \in Strings /\ Len(Prefixed(t, NamesOf(t))) = w /\ w \in Nat
        /\ Prefixed(u, NamesOf(u)) \in Strings /\ Len(Prefixed(u, NamesOf(u))) = v /\ v \in Nat
    BY <1>1, NamesTypes
  <2>2. names = Prefixed(t, NamesOf(t)) \o Prefixed(u, NamesOf(u))
    BY DEF JoinNames
  <2>3. PICK c, d : c = Prefixed(t, NamesOf(t)) /\ d = Prefixed(u, NamesOf(u))
    OBVIOUS
  <2>4. c \in Seq(Seq(Int)) /\ d \in Seq(Seq(Int)) /\ Len(c) = w /\ Len(d) = v
    BY <2>1, <2>3 DEF Strings
  <2>5. c \o d \in Seq(Seq(Int)) /\ Len(c \o d) = Len(c) + Len(d)
    BY <2>4, ConcatProperties
  <2> HIDE DEF names, w, v, t, u
  <2> QED  BY <2>1, <2>2, <2>3, <2>4, <2>5 DEF Strings
<1>3. /\ Len(l.rows) \in Nat /\ Len(L1) \in Nat /\ Len(r.rows) \in Nat /\ Len(R2) \in Nat
      /\ \A i \in 1 .. Len(l.rows) : Wide(l.rows[i], w)
      /\ \A i \in 1 .. Len(r.rows) : Wide(r.rows[i], v)
  BY TableReadRows
<1>4. /\ out \in Seq(Seq(Value)) /\ \A x \in 1 .. Len(out) : Wide(out[x], w + v)
      /\ Paired(out, l, r, li, ri)
  <2>1. WideRows(l.rows, w) /\ WideRows(r.rows, v)
    BY TablesReadWide
  <2> HIDE DEF w, v
  <2> QED  BY <1>2, <2>1, JoinPairs
<1>5. m = Printed(names, kept)
  BY DEF Filter
<1> DEFINE n == Len(out)
<1>6. n \in Nat /\ DOMAIN out = 1 .. n
  <2> HIDE DEF out
  <2> QED  BY <1>4
<1>7. ASSUME NEW i \in 1 .. n PROVE i \in at <=> Wanted(s, names, out[i])
  <2>1. (s.where = <<>> \/ evaluate(s.where[1], out[i], names)) <=> Wanted(s, names, out[i])
    <3>1. names \in Seq(Seq(Int))
      BY <1>2 DEF Strings
    <3> HIDE DEF names
    <3> QED  BY <3>1, WhereIs
  <2> HIDE DEF out, names
  <2> QED  BY <1>6, <2>1
<1> HIDE DEF out, at, names
<1>8. kept \in Seq(Seq(Value)) /\ Kept(kept, out, at, n)
  BY <1>4, KeepProperties
<1>9. PICK k \in Nat : k = Len(kept)
  <2> HIDE DEF kept
  <2> QED  BY <1>8
<1> HIDE DEF kept, n
<1>10. PICK from : KeptFrom(kept, out, at, n, from)
  BY <1>8 DEF Kept
<1>11. /\ from \in [1 .. k -> 1 .. n]
       /\ \A i \in 1 .. k : from[i] \in at /\ kept[i] = out[from[i]]
       /\ \A i, j \in 1 .. k : from[i] = from[j] => i = j
       /\ \A x \in 1 .. n : x \in at => \E i \in 1 .. k : from[i] = x
  BY <1>9, <1>10 DEF KeptFrom
<1>12. /\ IsRows(m) /\ m.rows \in Seq(Strings) /\ Len(m.rows) = k
       /\ \A i \in 1 .. k : m.rows[i] = Values(kept[i])
  <2>1. \A i \in 1 .. Len(kept) : Wide(kept[i], w + v)
    <3>1. \A i \in 1 .. k : from[i] \in 1 .. n /\ kept[i] = out[from[i]]
      BY <1>11
    <3>2. \A x \in 1 .. n : Wide(out[x], w + v)
      BY <1>4, Zenon DEF n
    <3> HIDE DEF w, v
    <3> QED  BY <1>9, <3>1, <3>2, Zenon
  <2> HIDE DEF w, v
  <2>2. w + v \in Nat /\ names \in Strings /\ Len(names) = w + v /\ kept \in Seq(Seq(Value))
    BY <1>2, <1>8
  <2>3. /\ IsRows(Printed(names, kept)) /\ Printed(names, kept).rows \in Seq(Strings)
        /\ Len(Printed(names, kept).rows) = Len(kept)
        /\ \A i \in 1 .. Len(kept) : Printed(names, kept).rows[i] = Values(kept[i])
    BY <2>1, <2>2, PrintedIs
  <2> QED  BY <1>5, <1>9, <2>3, Zenon
<1>13. PICK a, b : PairedBy(out, l, r, li, ri, a, b)
  BY <1>4 DEF Paired
<1>14. PICK p1 \in Nat, p2 \in Nat : p1 = Len(l.rows) /\ p2 = Len(r.rows)
  BY <1>3
<1>15. /\ a \in [1 .. n -> 1 .. p1] /\ b \in [1 .. n -> 1 .. p2]
       /\ \A x \in 1 .. n : /\ out[x] = l.rows[a[x]] \o r.rows[b[x]]
                            /\ l.rows[a[x]][li] = r.rows[b[x]][ri]
       /\ \A x, y \in 1 .. n : a[x] = a[y] /\ b[x] = b[y] => x = y
       /\ \A i \in 1 .. p1 : \A j \in 1 .. p2 :
            l.rows[i][li] = r.rows[j][ri] => \E x \in 1 .. n : a[x] = i /\ b[x] = j
  BY <1>13, <1>14 DEF PairedBy, n
<1>16. PICK g1 : Permutes(g1, p1, Len(L1)) /\ \A i \in 1 .. p1 : l.rows[i] = L1[g1[i]]
  BY <1>1, <1>14 DEF Reads
<1>17. PICK g2 : Permutes(g2, p2, Len(R2)) /\ \A i \in 1 .. p2 : r.rows[i] = R2[g2[i]]
  BY <1>1, <1>14 DEF Reads
<1>18. /\ g1 \in [1 .. p1 -> 1 .. Len(L1)] /\ \A i, j \in 1 .. p1 : g1[i] = g1[j] => i = j
       /\ \A x \in 1 .. Len(L1) : \E i \in 1 .. p1 : g1[i] = x
  BY <1>16 DEF Permutes
<1>19. /\ g2 \in [1 .. p2 -> 1 .. Len(R2)] /\ \A i, j \in 1 .. p2 : g2[i] = g2[j] => i = j
       /\ \A x \in 1 .. Len(R2) : \E i \in 1 .. p2 : g2[i] = x
  BY <1>17 DEF Permutes
<1>20. /\ Len(L1) \in Nat /\ Len(L2) \in Nat /\ Len(L1) <= Len(L2) /\ DOMAIN L1 = 1 .. Len(L1) /\ DOMAIN L2 = 1 .. Len(L2)
       /\ \A i \in 1 .. Len(L1) : L2[i] = L1[i] /\ i \in 1 .. Len(L2)
  BY DEF Extends
<1>21. /\ Len(R1) \in Nat /\ Len(R2) \in Nat /\ Len(R1) <= Len(R2) /\ DOMAIN R1 = 1 .. Len(R1) /\ DOMAIN R2 = 1 .. Len(R2)
       /\ \A i \in 1 .. Len(R1) : R2[i] = R1[i] /\ i \in 1 .. Len(R2)
  BY DEF Extends
<1> DEFINE P == PicksOf(s, L2, R2)
           Q == PicksOf(s, L1, R1)
           f == [p \in P |-> ResultOf(L2, R2, p)]
           g == [i \in 1 .. k |-> <<g1[a[from[i]]], g2[b[from[i]]]>>]
<1>22. P = {p \in (1 .. Len(L2)) \X (1 .. Len(R2)) :
              L2[p[1]][li] = R2[p[2]][ri] /\ Wanted(s, names, L2[p[1]] \o R2[p[2]])}
  BY <1>20, <1>21, Zenon DEF PicksOf, names
<1>23. Q = {p \in (1 .. Len(L1)) \X (1 .. Len(R1)) :
              L1[p[1]][li] = R1[p[2]][ri] /\ Wanted(s, names, L1[p[1]] \o R1[p[2]])}
  BY <1>20, <1>21, Zenon DEF PicksOf, names
<1> HIDE DEF P, Q
<1>24. ASSUME NEW i, NEW j
       PROVE  /\ ResultOf(L2, R2, <<i, j>>) = Values(L2[i]) \o Values(R2[j])
              /\ ResultOf(L1, R1, <<i, j>>) = Values(L1[i]) \o Values(R1[j])
  BY DEF ResultOf
<1>25. ASSUME NEW i \in 1 .. k
       PROVE  /\ from[i] \in 1 .. n /\ a[from[i]] \in 1 .. p1 /\ b[from[i]] \in 1 .. p2
              /\ g[i] = <<g1[a[from[i]]], g2[b[from[i]]]>> /\ g[i] \in P /\ m.rows[i] = f[g[i]]
  <2>1. PICK x : x = from[i]
    OBVIOUS
  <2>2. x \in 1 .. n /\ x \in at /\ kept[i] = out[x]
    BY <1>11, <2>1
  <2>3. PICK c, d : c = a[x] /\ d = b[x]
    OBVIOUS
  <2>4. c \in 1 .. p1 /\ d \in 1 .. p2 /\ out[x] = l.rows[c] \o r.rows[d] /\ l.rows[c][li] = r.rows[d][ri]
    BY <1>15, <2>2, <2>3
  <2>5. PICK y, z : y = g1[c] /\ z = g2[d]
    OBVIOUS
  <2>6. y \in 1 .. Len(L2) /\ l.rows[c] = L2[y]
    BY <1>16, <1>18, <1>20, <2>4, <2>5
  <2>7. z \in 1 .. Len(R2) /\ r.rows[d] = R2[z]
    BY <1>17, <1>19, <2>4, <2>5
  <2>8. Wanted(s, names, out[x])
    BY <1>7, <2>2
  <2>9. L2[y][li] = R2[z][ri] /\ Wanted(s, names, L2[y] \o R2[z])
    <3>1. out[x] = L2[y] \o R2[z]
      BY <2>4, <2>6, <2>7, Zenon
    <3>2. L2[y][li] = R2[z][ri]
      BY <2>4, <2>6, <2>7, Zenon
    <3> QED  BY <2>8, <3>1, <3>2, Zenon
  <2>10. PICK p : p = <<y, z>> /\ p \in (1 .. Len(L2)) \X (1 .. Len(R2)) /\ p[1] = y /\ p[2] = z
    <3>1. y \in 1 .. Len(L2) /\ z \in 1 .. Len(R2)
      BY <2>6, <2>7
    <3>2. <<y, z>> \in (1 .. Len(L2)) \X (1 .. Len(R2))
      BY <3>1
    <3>3. <<y, z>>[1] = y /\ <<y, z>>[2] = z
      OBVIOUS
    <3> QED  BY <3>2, <3>3, Zenon
  <2>11. p \in P
    BY <1>22, <2>9, <2>10
  <2>12. f[p] = Values(L2[y]) \o Values(R2[z])
    <3>1. f[p] = ResultOf(L2, R2, p)
      BY <2>11
    <3> QED  BY <1>24, <2>10, <3>1
  <2>13. Values(kept[i]) = Values(L2[y]) \o Values(R2[z])
    <3>1. Wide(l.rows[c], w) /\ Wide(r.rows[d], v)
      BY <1>3, <1>14, <2>4
    <3>2. Values(l.rows[c] \o r.rows[d]) = Values(l.rows[c]) \o Values(r.rows[d])
      <4> HIDE DEF w, v
      <4> QED  BY <1>2, <3>1, ValuesOfPair
    <3> QED  BY <2>2, <2>4, <2>6, <2>7, <3>2
  <2>14. g[i] = p
    BY <2>1, <2>3, <2>5, <2>10
  <2> HIDE DEF f, g
  <2>15. g[i] \in P /\ m.rows[i] = f[g[i]]
    BY <1>12, <2>11, <2>12, <2>13, <2>14
  <2>16. g[i] = <<g1[a[from[i]]], g2[b[from[i]]]>>
    BY <2>1, <2>3, <2>5, <2>10, <2>14
  <2>17. from[i] \in 1 .. n /\ a[from[i]] \in 1 .. p1 /\ b[from[i]] \in 1 .. p2
    BY <2>1, <2>2, <2>3, <2>4
  <2> QED  BY <2>15, <2>16, <2>17
<1>26. \A p \in P : f[p] = ResultOf(L2, R2, p)
  OBVIOUS
<1>27. g = [i \in 1 .. k |-> g[i]]
  OBVIOUS
<1> HIDE DEF f, g
<1>28. ASSUME NEW i \in 1 .. k, NEW j \in 1 .. k, g[i] = g[j] PROVE i = j
  <2>1. g1[a[from[i]]] = g1[a[from[j]]] /\ g2[b[from[i]]] = g2[b[from[j]]]
    BY <1>25, <1>28
  <2>2. a[from[i]] = a[from[j]] /\ b[from[i]] = b[from[j]]
    <3>1. PICK c, d, x, y : c = a[from[i]] /\ d = a[from[j]] /\ x = b[from[i]] /\ y = b[from[j]]
      OBVIOUS
    <3>2. c \in 1 .. p1 /\ d \in 1 .. p1 /\ x \in 1 .. p2 /\ y \in 1 .. p2
      BY <1>25, <3>1
    <3>3. g1[c] = g1[d] /\ g2[x] = g2[y]
      BY <2>1, <3>1
    <3>4. c = d
      BY <1>18, <3>2, <3>3, Zenon
    <3>5. x = y
      BY <1>19, <3>2, <3>3, Zenon
    <3> QED  BY <3>1, <3>4, <3>5
  <2>3. from[i] = from[j]
    BY <1>15, <1>25, <2>2
  <2> QED  BY <1>11, <2>3
<1>29. ASSUME NEW p \in Q
       PROVE  p \in P /\ f[p] = ResultOf(L1, R1, p) /\ \E i \in 1 .. k : g[i] = p
  <2>1. PICK y \in 1 .. Len(L1), z \in 1 .. Len(R1) :
          p = <<y, z>> /\ L1[y][li] = R1[z][ri] /\ Wanted(s, names, L1[y] \o R1[z])
    <3>1. p \in (1 .. Len(L1)) \X (1 .. Len(R1))
      BY <1>23, Zenon
    <3>2. L1[p[1]][li] = R1[p[2]][ri] /\ Wanted(s, names, L1[p[1]] \o R1[p[2]])
      BY <1>23, Zenon
    <3>3. PICK y \in 1 .. Len(L1), z \in 1 .. Len(R1) : p = <<y, z>>
      BY <3>1
    <3>4. p[1] = y /\ p[2] = z
      BY <3>3
    <3> QED  BY <3>2, <3>3, <3>4, Zenon
  <2>2. L2[y] = L1[y] /\ R2[z] = R1[z] /\ y \in 1 .. Len(L2) /\ z \in 1 .. Len(R2)
    BY <1>20, <1>21
  <2>3. p \in P
    <3>1. p \in (1 .. Len(L2)) \X (1 .. Len(R2)) /\ p[1] = y /\ p[2] = z
      BY <2>1, <2>2
    <3>2. L2[p[1]][li] = R2[p[2]][ri] /\ Wanted(s, names, L2[p[1]] \o R2[p[2]])
      BY <2>1, <2>2, <3>1
    <3> QED  BY <1>22, <3>1, <3>2
  <2>4. f[p] = ResultOf(L1, R1, p)
    <3>1. f[p] = ResultOf(L2, R2, <<y, z>>)
      BY <1>26, <2>1, <2>3
    <3>2. ResultOf(L2, R2, <<y, z>>) = Values(L2[y]) \o Values(R2[z])
      BY <1>24
    <3>3. ResultOf(L1, R1, <<y, z>>) = Values(L1[y]) \o Values(R1[z])
      BY <1>24
    <3>4. Values(L2[y]) \o Values(R2[z]) = Values(L1[y]) \o Values(R1[z])
      BY <2>2, Zenon
    <3> QED  BY <2>1, <3>1, <3>2, <3>3, <3>4, Zenon
  <2>5. PICK c \in 1 .. p1 : g1[c] = y
    BY <1>18
  <2>6. PICK d \in 1 .. p2 : g2[d] = z
    BY <1>19, <2>2
  <2>7. l.rows[c] = L1[y]
    BY <1>16, <2>5
  <2>8. r.rows[d] = R1[z]
    BY <1>17, <2>2, <2>6
  <2>9. PICK x \in 1 .. n : a[x] = c /\ b[x] = d
    <3>1. l.rows[c][li] = r.rows[d][ri]
      BY <2>1, <2>7, <2>8, Zenon
    <3>2. \A i \in 1 .. p1 : \A j \in 1 .. p2 :
            l.rows[i][li] = r.rows[j][ri] => \E x \in 1 .. n : a[x] = i /\ b[x] = j
      BY <1>15, Zenon
    <3> QED  BY <3>1, <3>2, Zenon
  <2>10. out[x] = L1[y] \o R1[z]
    <3>1. out[x] = l.rows[a[x]] \o r.rows[b[x]]
      BY <1>15
    <3> QED  BY <2>7, <2>8, <2>9, <3>1, Zenon
  <2>11. x \in at
    BY <1>7, <2>1, <2>10
  <2>12. PICK i \in 1 .. k : from[i] = x
    BY <1>11, <2>11
  <2>13. g[i] = p
    BY <1>25, <2>1, <2>5, <2>6, <2>9, <2>12
  <2> QED  BY <2>3, <2>4, <2>13
<1>30. IsFiniteSet(P)
  <2>1. IsFiniteSet(1 .. Len(L2)) /\ IsFiniteSet(1 .. Len(R2))
    BY <1>20, <1>21, FS_Interval
  <2>2. IsFiniteSet((1 .. Len(L2)) \X (1 .. Len(R2)))
    BY <2>1, FS_Product
  <2>3. P \in SUBSET ((1 .. Len(L2)) \X (1 .. Len(R2)))
    BY <1>22
  <2> QED  BY <2>2, <2>3, FS_Subset
<1>31. Picks(m.rows, P, f, g)
  <2>1. g = [i \in 1 .. k |-> g[i]] /\ \A i \in 1 .. k : g[i] \in P
    BY <1>25, <1>27
  <2>2. g \in [1 .. k -> P]
    BY <2>1
  <2>3. \A i, j \in 1 .. k : g[i] = g[j] => i = j
    BY <1>28
  <2>4. \A i \in 1 .. k : m.rows[i] = f[g[i]]
    BY <1>25
  <2>5. Len(m.rows) = k
    BY <1>12
  <2>6. g \in [1 .. Len(m.rows) -> P]
    BY <2>2, <2>5
  <2>7. /\ \A i, j \in 1 .. Len(m.rows) : g[i] = g[j] => i = j
        /\ \A i \in 1 .. Len(m.rows) : m.rows[i] = f[g[i]]
    BY <2>3, <2>4, <2>5
  <2> QED  BY <2>6, <2>7, Zenon DEF Picks
<1>32. Yields(s, L2, R2) = BagFrom(P, f)
  BY <1>26, YieldsFrom DEF P
<1>33. Yields(s, L1, R1) = BagFrom(Q, f)
  BY <1>29, YieldsFrom DEF Q
<1>34. BagOf(m.rows) \sqsubseteq BagFrom(P, f)
  <2>1. m.rows \in Seq(Strings)
    BY <1>12
  <2> QED  BY <1>30, <1>31, <2>1, PicksNoMore, Zenon
<1>35. BagFrom(Q, f) \sqsubseteq BagOf(m.rows)
  <2>1. \A p \in Q : \E i \in 1 .. Len(m.rows) : g[i] = p
    BY <1>12, <1>29
  <2>2. m.rows \in Seq(Strings)
    BY <1>12
  <2> QED  BY <1>31, <2>1, <2>2, PicksNoLess
<1> QED  BY <1>12, <1>32, <1>33, <1>34, <1>35 DEF Between

\* A JOIN answers with what its reference definition yields, or with an error.
LEMMA JoinAnswers ==
  ASSUME NEW s, NEW l, NEW r, NEW L1, NEW L2, NEW R1, NEW R2, s.join # <<>>,
         TableRead(l, s.table, L1), TableRead(r, s.join[1].right_table, R2),
         Extends(L2, L1), Extends(R2, R1)
  PROVE  /\ IsMessage(execute_join(s, l, r))
         /\ execute_join(s, l, r).tag = "Rows" => Between(execute_join(s, l, r), s, L1, R1, L2, R2)
<1> DEFINE t == s.table
           u == s.join[1].right_table
           li == find_col_index(l.headers, s.join[1].left_col)
           ri == find_col_index(r.headers, s.join[1].right_col)
           m == Printed(JoinNames(s), Filter(s.where, Joined(l, r, li, ri), JoinNames(s)))
           a == execute_join(s, l, r)
<1>1. /\ l.headers = NamesOf(t) /\ r.headers = NamesOf(u) /\ t \in Tables /\ u \in Tables
  BY DEF TableRead
<1>2. NamesOf(t) \in Strings /\ NamesOf(u) \in Strings
  BY <1>1, NamesTypes
<1>3. a = IF li = 0 \/ ri = 0 THEN Error(ColumnNotFound) ELSE m
  <2>1. PICK i, j : i = li /\ j = ri
    OBVIOUS
  <2>2. execute_join(s, l, r) =
           IF i = 0 \/ j = 0 THEN Error(ColumnNotFound)
           ELSE Printed(JoinNames(s), Filter(s.where, Joined(l, r, i, j), JoinNames(s)))
    BY <1>1, <2>1, JoinIs
  <2> QED  BY <2>1, <2>2
<1>4. CASE li = 0 \/ ri = 0
  <2>1. a = [tag |-> "Error", text |-> <<ColumnNotFound>>]
    BY <1>3, <1>4 DEF Error
  <2>2. <<ColumnNotFound>> \in Seq(Int)
    BY DEF ColumnNotFound
  <2>3. IsError(a) /\ a.tag = "Error"
    BY <2>1, <2>2 DEF IsError
  <2> QED  BY <2>3 DEF IsMessage
<1>5. CASE ~(li = 0 \/ ri = 0)
  <2>1. a = m
    BY <1>3, <1>5
  <2>2. li = Column(t, s.join[1].left_col)
    <3>1. find_col_index(NamesOf(t), s.join[1].left_col) # 0
      BY <1>1, <1>5
    <3>2. Column(t, s.join[1].left_col) = find_col_index(NamesOf(t), s.join[1].left_col)
      BY <1>2, <3>1, ColumnIs
    <3> QED  BY <1>1, <3>2
  <2>3. ri = Column(u, s.join[1].right_col)
    <3>1. find_col_index(NamesOf(u), s.join[1].right_col) # 0
      BY <1>1, <1>5
    <3>2. Column(u, s.join[1].right_col) = find_col_index(NamesOf(u), s.join[1].right_col)
      BY <1>2, <3>1, ColumnIs
    <3> QED  BY <1>1, <3>2
  <2>4. PICK i, j, p : i = li /\ j = ri /\ p = m
    OBVIOUS
  <2>5. /\ i = Column(s.table, s.join[1].left_col)
        /\ j = Column(s.join[1].right_table, s.join[1].right_col)
        /\ p = Printed(JoinNames(s), Filter(s.where, Joined(l, r, i, j), JoinNames(s)))
    BY <2>2, <2>3, <2>4
  <2>6. IsRows(p) /\ Between(p, s, L1, R1, L2, R2)
    BY <2>5, JoinAnswersRows
  <2> QED  BY <2>1, <2>4, <2>6 DEF IsMessage
<1> QED  BY <1>4, <1>5
-----------------------------------------------------------------------------
(***************************************************************************)
(* The tables as they were, while more rows come.                          *)
(***************************************************************************)
Before(ins, t, when) == SubSeq(ins[t], 1, when[t])

Counts(when, ins) == when \in [Tables -> Nat] /\ \A t \in Tables : when[t] <= Len(ins[t])

MoreRows(more, ins) ==
  \A t \in Tables : /\ ins[t] \in Seq(Rows) /\ more[t] \in Seq(Rows) /\ Len(ins[t]) <= Len(more[t])
                    /\ \A i \in 1 .. Len(ins[t]) : more[t][i] = ins[t][i]

\* The reference definition, over the rows that there were at a time.
LEMMA ReferenceIs ==
  ASSUME NEW s, NEW when
  PROVE  Reference(s, when) =
           Yields(s, Before(inserted, s.table, when), Before(inserted, s.join[1].right_table, when))
BY Zenon DEF Reference, Yields, PicksOf, ResultOf, JoinNames, Before

\* What a SELECT yields depends on one table only.
LEMMA YieldsSelect ==
  ASSUME NEW s, s.join = <<>>, NEW L, NEW R1, NEW R2
  PROVE  Yields(s, L, R1) = Yields(s, L, R2)
<1> DEFINE P == PicksOf(s, L, R1)
           f == [p \in P |-> ResultOf(L, R1, p)]
<1>1. P = {<<i>> : i \in {i \in DOMAIN L : Wanted(s, NamesOf(s.table), L[i])}}
  BY DEF PicksOf
<1>2. PicksOf(s, L, R2) = P
  BY DEF PicksOf
<1>3. ASSUME NEW p \in P PROVE ResultOf(L, R2, p) = ResultOf(L, R1, p)
  <2>1. PICK i : p = <<i>>
    BY <1>1
  <2>2. Len(p) = 1
    BY <2>1
  <2>3. Len(p) # 2
    BY <2>2
  <2> HIDE DEF P
  <2> QED  BY <2>3 DEF ResultOf
<1> HIDE DEF P
<1>4. \A p \in P : f[p] = ResultOf(L, R1, p) /\ f[p] = ResultOf(L, R2, p)
  BY <1>3
<1> HIDE DEF f
<1>5. Yields(s, L, R1) = BagFrom(P, f)
  BY <1>4, YieldsFrom DEF P
<1>6. Yields(s, L, R2) = BagFrom(P, f)
  <2>1. \A p \in PicksOf(s, L, R2) : f[p] = ResultOf(L, R2, p)
    BY <1>2, <1>4
  <2>2. Yields(s, L, R2) = BagFrom(PicksOf(s, L, R2), f)
    BY <2>1, YieldsFrom
  <2> QED  BY <1>2, <2>2
<1> QED  BY <1>5, <1>6

\* The rows that there were when a count was taken.
LEMMA BeforeIs ==
  ASSUME NEW ins, NEW t \in Tables, ins[t] \in Seq(Rows), NEW when, Counts(when, ins)
  PROVE  /\ Before(ins, t, when) \in Seq(Rows) /\ Len(Before(ins, t, when)) = when[t] /\ when[t] \in Nat
         /\ \A i \in 1 .. when[t] : Before(ins, t, when)[i] = ins[t][i]
<1>1. PICK n \in Nat : n = when[t] /\ n <= Len(ins[t])
  BY DEF Counts
<1>2. PICK u \in Seq(Rows) : u = ins[t]
  OBVIOUS
<1> DEFINE b == SubSeq(u, 1, n)
<1>3. \A i \in 1 .. n : u[i] \in Rows
  BY <1>1, <1>2
<1>4. b \in Seq(Rows) /\ Len(b) = n /\ \A i \in 1 .. n : b[i] = u[i]
  <2>1. 1 \in 1 .. Len(u) + 1 /\ n \in 0 .. Len(u) /\ \A i \in 1 .. n : u[i] \in Rows
    BY <1>1, <1>2, <1>3
  <2>2. b \in Seq(Rows) /\ Len(b) = n
    BY <2>1, SubSeqProperties
  <2>3. \A i \in 1 .. n : b[i] = u[1 + i - 1]
    BY <2>1, SubSeqProperties
  <2>4. \A i \in 1 .. n : 1 + i - 1 = i
    OBVIOUS
  <2> HIDE DEF b
  <2> QED  BY <2>2, <2>3, <2>4
<1>5. Before(ins, t, when) = b
  BY <1>1, <1>2 DEF Before
<1> QED  BY <1>1, <1>2, <1>4, <1>5

\* They do not change when a row is inserted.
LEMMA BeforeKept ==
  ASSUME NEW ins, NEW more, MoreRows(more, ins), NEW when, Counts(when, ins)
  PROVE  Counts(when, more) /\ \A t \in Tables : Before(more, t, when) = Before(ins, t, when)
<1>1. Counts(when, more)
  <2>1. ASSUME NEW t \in Tables PROVE when[t] <= Len(more[t])
    <3>1. /\ ins[t] \in Seq(Rows) /\ more[t] \in Seq(Rows) /\ Len(ins[t]) <= Len(more[t])
          /\ when[t] \in Nat /\ when[t] <= Len(ins[t])
      BY DEF MoreRows, Counts
    <3> QED  BY <3>1
  <2> QED  BY <2>1 DEF Counts
<1>2. ASSUME NEW t \in Tables PROVE Before(more, t, when) = Before(ins, t, when)
  <2>1. ins[t] \in Seq(Rows) /\ more[t] \in Seq(Rows) /\ when[t] \in Nat /\ when[t] <= Len(ins[t])
        /\ \A i \in 1 .. Len(ins[t]) : more[t][i] = ins[t][i]
    BY DEF MoreRows, Counts
  <2> DEFINE a == Before(more, t, when)
             b == Before(ins, t, when)
  <2>2. a \in Seq(Rows) /\ Len(a) = when[t] /\ \A i \in 1 .. when[t] : a[i] = more[t][i]
    BY <1>1, <2>1, BeforeIs
  <2>3. b \in Seq(Rows) /\ Len(b) = when[t] /\ \A i \in 1 .. when[t] : b[i] = ins[t][i]
    BY <2>1, BeforeIs
  <2> HIDE DEF a, b
  <2>4. \A i \in 1 .. when[t] : i \in 1 .. Len(ins[t])
    BY <2>1
  <2>5. \A i \in 1 .. when[t] : a[i] = b[i]
    BY <2>1, <2>2, <2>3, <2>4
  <2>6. a = b
    BY <2>2, <2>3, <2>5, SeqEqual
  <2> QED  BY <2>6 DEF a, b
<1> QED  BY <1>1, <1>2

\* The answer m to s lies between the tables as they were at b and at e.
Answered(m, s, ins, b, e) ==
  /\ s.table \in Tables
  /\ s.join # <<>> => s.join[1].right_table \in Tables
  /\ Between(m, s, Before(ins, s.table, b), Before(ins, s.join[1].right_table, b),
                   Before(ins, s.table, e), Before(ins, s.join[1].right_table, e))

\* Nor does what an answer is compared with.
LEMMA AnsweredKept ==
  ASSUME NEW ins, NEW more, MoreRows(more, ins), NEW b, Counts(b, ins), NEW e, Counts(e, ins),
         NEW s, NEW m, Answered(m, s, ins, b, e)
  PROVE  Answered(m, s, more, b, e)
<1> DEFINE t == s.table
           u == s.join[1].right_table
<1>1. t \in Tables /\ (s.join # <<>> => u \in Tables)
  BY DEF Answered
<1>2. Before(more, t, b) = Before(ins, t, b) /\ Before(more, t, e) = Before(ins, t, e)
  BY <1>1, BeforeKept
<1>3. /\ Yields(s, Before(more, t, b), Before(more, u, b)) = Yields(s, Before(ins, t, b), Before(ins, u, b))
      /\ Yields(s, Before(more, t, e), Before(more, u, e)) = Yields(s, Before(ins, t, e), Before(ins, u, e))
  <2>1. CASE s.join = <<>>
    BY <1>2, <2>1, YieldsSelect
  <2>2. CASE s.join # <<>>
    <3>1. Before(more, u, b) = Before(ins, u, b) /\ Before(more, u, e) = Before(ins, u, e)
      BY <1>1, <2>2, BeforeKept
    <3> QED  BY <1>2, <3>1
  <2> QED  BY <2>1, <2>2
<1> QED  BY <1>1, <1>3 DEF Answered, Between

\* A later count has the rows of an earlier one, and perhaps more.
LEMMA BeforeExtends ==
  ASSUME NEW ins, NEW t \in Tables, ins[t] \in Seq(Rows), NEW b, Counts(b, ins)
  PROVE  Extends(ins[t], Before(ins, t, b))
<1>1. /\ Before(ins, t, b) \in Seq(Rows) /\ Len(Before(ins, t, b)) = b[t] /\ b[t] \in Nat /\ b[t] <= Len(ins[t])
      /\ \A i \in 1 .. b[t] : Before(ins, t, b)[i] = ins[t][i]
  BY BeforeIs DEF Counts
<1>2. PICK c \in Seq(Rows), d \in Seq(Rows) : c = Before(ins, t, b) /\ d = ins[t]
  BY <1>1
<1>3. Len(c) \in Nat /\ Len(d) \in Nat /\ DOMAIN c = 1 .. Len(c) /\ DOMAIN d = 1 .. Len(d)
  OBVIOUS
<1>4. Len(c) <= Len(d) /\ \A i \in 1 .. Len(c) : d[i] = c[i]
  BY <1>1, <1>2
<1>5. Extends(d, c)
  BY <1>3, <1>4 DEF Extends
<1> QED  BY <1>2, <1>5

-----------------------------------------------------------------------------
(***************************************************************************)
(* The invariant of the SELECT under way.                                  *)
(***************************************************************************)
\* What execute_join has of its first read.
FirstRead(l, s, ins, b) ==
  s.join # <<>> /\ TableRead(l, s.table, Before(ins, s.table, b))

\* An answer, as it is and on the wire.
Sent(m, words, s, ins, b, e) ==
  /\ IsMessage(m) /\ words = write_message(m)
  /\ m.tag = "Rows" => Answered(m, s, ins, b, e)

SelectInv ==
  /\ pc \in {"idle", "second", "reply", "shown"} /\ stmt \in Statements \cup {NoStmt}
  /\ Counts(begun, inserted) /\ Counts(ended, inserted)
  /\ pc = "idle" => begun = NoRows /\ ended = NoRows
  /\ pc = "second" => left # Nothing /\ FirstRead(left, stmt, inserted, begun)
  /\ pc # "second" => left = Nothing
  /\ pc \in {"idle", "second"} => answer = Nothing
  /\ pc \in {"reply", "shown"} => Sent(answer, stream, stmt, inserted, begun, ended)
  /\ IF pc = "shown" THEN shown \in {answer, Lost} ELSE shown = Nothing

\* The rows of a table at this moment.
LEMMA Now ==
  ASSUME StorageInv
  PROVE  /\ Counts(RowsNow, inserted) /\ Counts(NoRows, inserted) /\ RowsNow = [t \in Tables |-> Len(inserted[t])]
         /\ \A t \in Tables : /\ Before(inserted, t, RowsNow) = inserted[t] /\ inserted[t] \in Seq(Rows)
                              /\ TableRead(select_all(t), t, inserted[t])
<1>1. ASSUME NEW t \in Tables
      PROVE  inserted[t] \in Seq(Rows) /\ TableRead(select_all(t), t, inserted[t])
  BY StorageRows DEF TableRead
<1>2. RowsNow = [t \in Tables |-> Len(inserted[t])]
  BY DEF RowsNow
<1>3. ASSUME NEW t \in Tables
      PROVE  RowsNow[t] \in Nat /\ RowsNow[t] = Len(inserted[t]) /\ NoRows[t] \in Nat /\ NoRows[t] <= Len(inserted[t])
  BY <1>1, <1>2 DEF NoRows
<1>4. Counts(RowsNow, inserted) /\ Counts(NoRows, inserted)
  BY <1>2, <1>3 DEF Counts, NoRows
<1>5. ASSUME NEW t \in Tables PROVE Before(inserted, t, RowsNow) = inserted[t]
  <2>1. PICK u \in Seq(Rows) : u = inserted[t]
    BY <1>1
  <2> DEFINE b == Before(inserted, t, RowsNow)
  <2>2. b \in Seq(Rows) /\ Len(b) = Len(u) /\ \A i \in 1 .. Len(u) : b[i] = u[i]
    BY <1>1, <1>3, <1>4, <2>1, BeforeIs
  <2> HIDE DEF b
  <2>3. b = u
    BY <2>2, SeqEqual
  <2> QED  BY <2>1, <2>3 DEF b
<1> QED  BY <1>1, <1>2, <1>4, <1>5

\* No SELECT is under way at first.
LEMMA SelectInit ==
  ASSUME Init
  PROVE  SelectInv
<1>1. /\ pc = "idle" /\ stmt = NoStmt /\ left = Nothing /\ begun = NoRows /\ ended = NoRows
      /\ answer = Nothing /\ shown = Nothing
  BY DEF Init
<1>2. StorageInv
  BY StorageInit
<1>3. Counts(begun, inserted) /\ Counts(ended, inserted)
  BY <1>1, <1>2, Now
<1> QED  BY <1>1, <1>3 DEF SelectInv

\* An INSERT of another session.
LEMMA SelectKept ==
  ASSUME SelectInv, UNCHANGED select, MoreRows(inserted', inserted)
  PROVE  SelectInv'
<1>1. /\ pc' = pc /\ stmt' = stmt /\ left' = left /\ begun' = begun /\ ended' = ended
      /\ answer' = answer /\ stream' = stream /\ shown' = shown
  BY DEF select
<1>2. Counts(begun, inserted) /\ Counts(ended, inserted)
  BY DEF SelectInv
<1>3. Counts(begun, inserted') /\ Counts(ended, inserted')
  BY <1>2, BeforeKept
<1>4. ASSUME pc = "second" PROVE left # Nothing /\ FirstRead(left, stmt, inserted', begun)
  <2>1. left # Nothing /\ FirstRead(left, stmt, inserted, begun)
    BY <1>4 DEF SelectInv
  <2>2. stmt.table \in Tables
    BY <2>1 DEF FirstRead, TableRead
  <2>3. Before(inserted', stmt.table, begun) = Before(inserted, stmt.table, begun)
    BY <1>2, <2>2, BeforeKept
  <2> QED  BY <2>1, <2>3 DEF FirstRead
<1>5. ASSUME pc \in {"reply", "shown"} PROVE Sent(answer, stream, stmt, inserted', begun, ended)
  <2>1. Sent(answer, stream, stmt, inserted, begun, ended)
    BY <1>5 DEF SelectInv
  <2> QED  BY <1>2, <2>1, AnsweredKept DEF Sent
<1> QED  BY <1>1, <1>3, <1>4, <1>5 DEF SelectInv

\* The tables that an INSERT leaves.
LEMMA InsertGrows ==
  ASSUME StorageInv, NEW t \in Tables, NEW row \in Rows, AddRow(t, row)
  PROVE  MoreRows(inserted', inserted)
<1>1. inserted = [u \in Tables |-> inserted[u]] /\ inserted' = [inserted EXCEPT ![t] = Append(@, row)]
  BY DEF StorageInv, TablesAre, AddRow
<1>2. inserted' = [u \in Tables |-> IF u = t THEN Append(inserted[t], row) ELSE inserted[u]]
  BY <1>1
<1>3. ASSUME NEW u \in Tables
      PROVE  /\ inserted[u] \in Seq(Rows) /\ inserted'[u] \in Seq(Rows) /\ Len(inserted[u]) <= Len(inserted'[u])
             /\ \A i \in 1 .. Len(inserted[u]) : inserted'[u][i] = inserted[u][i]
  <2>1. PICK v \in Seq(Rows) : v = inserted[u]
    BY Now
  <2>2. Append(v, row) \in Seq(Rows) /\ Len(Append(v, row)) = Len(v) + 1 /\ Len(v) \in Nat
        /\ \A i \in 1 .. Len(v) : Append(v, row)[i] = v[i]
    BY <2>1
  <2>3. CASE u = t
    BY <1>2, <2>1, <2>2, <2>3
  <2>4. CASE u # t
    <3>1. inserted'[u] = inserted[u]
      BY <1>2, <2>4
    <3> QED  BY <2>1, <2>2, <3>1
  <2> QED  BY <2>3, <2>4
<1> QED  BY <1>3 DEF MoreRows

\* A step that inserts nothing only adds rows, none of them.
LEMMA SameRows ==
  ASSUME StorageInv
  PROVE  MoreRows(inserted, inserted)
<1>1. \A t \in Tables : inserted[t] \in Seq(Rows)
  BY Now
<1>2. \A t \in Tables : Len(inserted[t]) <= Len(inserted[t])
  BY <1>1
<1> QED  BY <1>1, <1>2 DEF MoreRows

\* Reply, when the message is an answer.
LEMMA Replies ==
  ASSUME StorageInv, SelectInv, NEW m, Reply(m), IsMessage(m), pc \in {"idle", "second"},
         stmt' \in Statements \cup {NoStmt}, Counts(begun', inserted),
         m.tag = "Rows" => Answered(m, stmt', inserted, begun', RowsNow)
  PROVE  SelectInv'
<1>1. /\ answer' = m /\ stream' = write_message(m) /\ ended' = RowsNow
      /\ pc' = "reply" /\ left' = Nothing /\ inserted' = inserted /\ shown' = shown
  BY DEF Reply, tables
<1>2. shown = Nothing
  BY DEF SelectInv
<1>3. Counts(RowsNow, inserted)
  BY Now
<1>4. Sent(m, write_message(m), stmt', inserted, begun', RowsNow)
  BY DEF Sent
<1>5. Counts(begun', inserted') /\ Counts(ended', inserted')
  BY <1>1, <1>3
<1>6. Sent(answer', stream', stmt', inserted', begun', ended')
  BY <1>1, <1>4
<1> QED  BY <1>1, <1>2, <1>5, <1>6 DEF SelectInv

\* An error is a message.
LEMMA ErrorIs ==
  /\ IsMessage(Error(TableNotFound)) /\ Error(TableNotFound).tag = "Error"
<1>1. <<TableNotFound>> \in Seq(Int)
  BY DEF TableNotFound
<1> QED  BY <1>1 DEF Error, IsMessage, IsError

\* The first read of a SELECT keeps the invariant.
LEMMA FirstReads ==
  ASSUME StorageInv, SelectInv, NEW s \in Statements, ReadFirst(s)
  PROVE  SelectInv'
<1>1. pc = "idle" /\ stmt' = s /\ begun' = RowsNow
  BY DEF ReadFirst
<1>2. Counts(RowsNow, inserted)
  BY Now
<1>3. CASE s.table \notin Tables
  <2>1. Reply(Error(TableNotFound))
    BY <1>3 DEF ReadFirst
  <2>2. Error(TableNotFound).tag # "Rows"
    BY ErrorIs
  <2> QED  BY <1>1, <1>2, <2>1, <2>2, ErrorIs, Replies
<1>4. CASE s.table \in Tables /\ s.join = <<>>
  <2> DEFINE m == execute_select(s, select_all(s.table))
             R == Before(inserted, s.join[1].right_table, RowsNow)
  <2>1. Reply(m)
    BY <1>4, Zenon DEF ReadFirst
  <2>2. TableRead(select_all(s.table), s.table, inserted[s.table]) /\ Before(inserted, s.table, RowsNow) = inserted[s.table]
    BY <1>4, Now
  <2>3. IsRows(m) /\ Between(m, s, inserted[s.table], R, inserted[s.table], R)
    <3> HIDE DEF R
    <3> QED  BY <1>4, <2>2, SelectAnswers
  <2>4. Answered(m, s, inserted, RowsNow, RowsNow)
    BY <1>4, <2>2, <2>3 DEF Answered
  <2> HIDE DEF m, R
  <2>5. IsMessage(m)
    BY <2>3 DEF IsMessage
  <2>6. Answered(m, stmt', inserted, begun', RowsNow)
    BY <1>1, <2>4
  <2> QED  BY <1>1, <1>2, <2>1, <2>5, <2>6, Replies
<1>5. CASE s.table \in Tables /\ s.join # <<>>
  <2>1. /\ left' = select_all(s.table) /\ pc' = "second"
        /\ inserted' = inserted /\ ended' = ended /\ answer' = answer /\ shown' = shown
    BY <1>5, Zenon DEF ReadFirst, tables
  <2>2. TableRead(select_all(s.table), s.table, inserted[s.table]) /\ Before(inserted, s.table, RowsNow) = inserted[s.table]
    BY <1>5, Now
  <2>3. FirstRead(left', stmt', inserted', begun')
    BY <1>1, <1>5, <2>1, <2>2 DEF FirstRead
  <2>4. left' # Nothing
    <3>1. "rows" \in DOMAIN select_all(s.table) /\ "rows" \notin DOMAIN Nothing
      BY DEF select_all, Nothing
    <3> QED  BY <2>1, <3>1
  <2>5. Counts(ended, inserted) /\ answer = Nothing /\ shown = Nothing
    BY <1>1 DEF SelectInv
  <2>6. Counts(begun', inserted') /\ Counts(ended', inserted')
    BY <1>1, <1>2, <2>1, <2>5
  <2> QED  BY <1>1, <2>1, <2>3, <2>4, <2>5, <2>6 DEF SelectInv
<1> QED  BY <1>3, <1>4, <1>5

\* So does the read of the right table of a JOIN.
LEMMA SecondReads ==
  ASSUME StorageInv, SelectInv, ReadSecond
  PROVE  SelectInv'
<1>1. pc = "second" /\ stmt' = stmt /\ begun' = begun
  BY DEF ReadSecond
<1>2. /\ Counts(begun, inserted) /\ FirstRead(left, stmt, inserted, begun) /\ stmt \in Statements \cup {NoStmt}
  BY <1>1 DEF SelectInv
<1> DEFINE t == stmt.table
           u == stmt.join[1].right_table
<1>3. CASE u \notin Tables
  <2>1. Reply(Error(TableNotFound))
    BY <1>3 DEF ReadSecond
  <2>2. Error(TableNotFound).tag # "Rows"
    BY ErrorIs
  <2> QED  BY <1>1, <1>2, <2>1, <2>2, ErrorIs, Replies
<1>4. CASE u \in Tables
  <2> DEFINE m == execute_join(stmt, left, select_all(u))
             L1 == Before(inserted, t, begun)
             R1 == Before(inserted, u, begun)
             L2 == inserted[t]
             R2 == inserted[u]
  <2>1. Reply(m)
    BY <1>4, Zenon DEF ReadSecond
  <2>2. stmt.join # <<>> /\ TableRead(left, t, L1) /\ t \in Tables
    BY <1>2 DEF FirstRead, TableRead
  <2>3. /\ TableRead(select_all(u), u, R2) /\ L2 \in Seq(Rows) /\ R2 \in Seq(Rows)
        /\ Before(inserted, t, RowsNow) = L2 /\ Before(inserted, u, RowsNow) = R2
    BY <1>4, <2>2, Now
  <2>4. Extends(L2, L1) /\ Extends(R2, R1)
    BY <1>2, <1>4, <2>2, <2>3, BeforeExtends
  <2>5. IsMessage(m) /\ (m.tag = "Rows" => Between(m, stmt, L1, R1, L2, R2))
    <3> HIDE DEF L1, R1, L2, R2
    <3> QED  BY <2>2, <2>3, <2>4, JoinAnswers
  <2>6. m.tag = "Rows" => Answered(m, stmt, inserted, begun, RowsNow)
    BY <1>4, <2>2, <2>3, <2>5 DEF Answered
  <2> HIDE DEF m
  <2>7. m.tag = "Rows" => Answered(m, stmt', inserted, begun', RowsNow)
    BY <1>1, <2>6
  <2> QED  BY <1>1, <1>2, <2>1, <2>5, <2>7, Replies
<1> QED  BY <1>3, <1>4

\* So does the client, when it reads the answer.
LEMMA Receives ==
  ASSUME SelectInv, NEW n \in 0 .. Len(stream), Receive(n)
  PROVE  SelectInv'
<1>1. /\ pc = "reply" /\ shown' = read_message(SubSeq(stream, 1, n)) /\ pc' = "shown"
      /\ inserted' = inserted /\ stmt' = stmt /\ left' = left /\ begun' = begun /\ ended' = ended
      /\ answer' = answer /\ stream' = stream
  BY DEF Receive, tables
<1>2. Sent(answer, stream, stmt, inserted, begun, ended)
  BY <1>1 DEF SelectInv
<1>3. shown' \in {answer, Lost}
  <2>1. IsMessage(answer) /\ stream = write_message(answer)
    BY <1>2 DEF Sent
  <2>2. n \in 0 .. Len(write_message(answer))
    BY <2>1
  <2>3. read_message(SubSeq(write_message(answer), 1, n)) \in {answer, Lost}
    BY <2>1, <2>2, ReadMessageInverse
  <2> QED  BY <1>1, <2>1, <2>3
<1>4. /\ stmt \in Statements \cup {NoStmt} /\ Counts(begun, inserted) /\ Counts(ended, inserted) /\ left = Nothing
  BY <1>1 DEF SelectInv
<1> QED  BY <1>1, <1>2, <1>3, <1>4 DEF SelectInv

\* So does the prompt.
LEMMA Prompts ==
  ASSUME StorageInv, SelectInv, Prompt
  PROVE  SelectInv'
<1>1. /\ pc = "shown" /\ pc' = "idle" /\ stmt' = NoStmt /\ begun' = NoRows /\ ended' = NoRows
      /\ answer' = Nothing /\ shown' = Nothing /\ inserted' = inserted /\ left' = left
  BY DEF Prompt, tables
<1>2. Counts(NoRows, inserted)
  BY Now
<1>3. left = Nothing
  BY <1>1 DEF SelectInv
<1>4. Counts(begun', inserted') /\ Counts(ended', inserted')
  BY <1>1, <1>2
<1> QED  BY <1>1, <1>3, <1>4 DEF SelectInv

\* So does a step that drops rows while no SELECT is under way.
LEMMA Discarded ==
  ASSUME StorageInv', SelectInv, pc = "idle", UNCHANGED select
  PROVE  SelectInv'
<1>1. /\ pc' = pc /\ stmt' = stmt /\ left' = left /\ begun' = begun /\ ended' = ended
      /\ answer' = answer /\ stream' = stream /\ shown' = shown
  BY DEF select
<1>2. \A t \in Tables : inserted'[t] \in Seq(Rows)
  <2>1. \A t \in Tables : TableOK(inserted'[t], leaves'[t], NodeAt(root'[t], root_page'[t]), Schemas[t])
    BY DEF StorageInv, TablesAre
  <2> QED  BY <2>1 DEF TableOK, RowsFit
<1>3. begun = NoRows /\ ended = NoRows
  BY DEF SelectInv
<1>4. Counts(NoRows, inserted')
  <2>1. \A t \in Tables : NoRows[t] = 0 /\ Len(inserted'[t]) \in Nat
    BY <1>2, LenProperties DEF NoRows
  <2>2. NoRows \in [Tables -> Nat]
    BY DEF NoRows
  <2> QED  BY <2>1, <2>2 DEF Counts
<1> QED  BY <1>1, <1>3, <1>4 DEF SelectInv

\* Every step keeps the invariant.
LEMMA SelectNext ==
  ASSUME StorageInv, SelectInv, [Next]_vars
  PROVE  SelectInv'
<1>1. ASSUME Begin \/ Commit PROVE SelectInv'
  <2>1. inserted' = inserted /\ UNCHANGED select
    BY <1>1 DEF Begin, Commit
  <2>2. MoreRows(inserted', inserted)
    BY <2>1, SameRows
  <2> QED  BY <2>1, <2>2, SelectKept
<1>9. ASSUME Rollback \/ Reopen PROVE SelectInv'
  <2>1. pc = "idle" /\ UNCHANGED select
    BY <1>9 DEF Rollback, Reopen
  <2>2. StorageInv'
    BY <1>9, RollbackStores, ReopenStores
  <2> QED  BY <2>1, <2>2, Discarded
<1>2. ASSUME NEW t \in Tables, NEW row \in Rows, Insert(t, row) PROVE SelectInv'
  <2>1. AddRow(t, row) /\ UNCHANGED select
    BY <1>2 DEF Insert
  <2> QED  BY <2>1, InsertGrows, SelectKept
<1>3. ASSUME NEW t \in Tables, NEW row \in Rows, InsertSplits(t, row) PROVE SelectInv'
  <2>1. AddRow(t, row) /\ UNCHANGED select
    BY <1>3 DEF InsertSplits
  <2> QED  BY <2>1, InsertGrows, SelectKept
<1>4. ASSUME NEW s \in Statements, ReadFirst(s) PROVE SelectInv'
  BY <1>4, FirstReads
<1>5. ASSUME ReadSecond PROVE SelectInv'
  BY <1>5, SecondReads
<1>6. ASSUME NEW n \in 0 .. Len(stream), Receive(n) PROVE SelectInv'
  BY <1>6, Receives
<1>7. ASSUME Prompt PROVE SelectInv'
  BY <1>7, Prompts
<1>8. ASSUME UNCHANGED vars PROVE SelectInv'
  <2>1. inserted' = inserted /\ UNCHANGED select
    BY <1>8 DEF vars, tables
  <2>2. MoreRows(inserted', inserted)
    BY <2>1, SameRows
  <2> QED  BY <2>1, <2>2, SelectKept
<1> QED  BY <1>1, <1>2, <1>3, <1>4, <1>5, <1>6, <1>7, <1>8, <1>9, Zenon DEF Next

\* Both invariants hold in every state.
LEMMA SelectAlways == Spec => [](StorageInv /\ SelectInv)
<1>1. Init => SelectInv
  BY SelectInit
<1>2. StorageInv /\ SelectInv /\ [Next]_vars => SelectInv'
  BY SelectNext
<1> QED  BY <1>1, <1>2, StorageAlways, PTL DEF Spec

-----------------------------------------------------------------------------
\* The variables have their types, and the history variables are set in the
\* states in which they say something.
THEOREM TypeCorrect == Spec => []TypeOK
<1>1. ASSUME StorageInv
      PROVE  /\ columns \in [Tables -> Cols] /\ meta \in [Tables -> Seq(Nat)]
             /\ \A t \in Tables :
                  /\ \A i \in DOMAIN leaves[t] : leaves[t][i] \in [1 .. PageSize -> Int]
                  /\ Root(t).kids \in Seq(DOMAIN leaves[t]) /\ Len(Root(t).kids) = Len(leaves[t])
                  /\ Len(Root(t).keys) = Len(leaves[t]) - 1
                  /\ inserted[t] \in Seq(Rows)
             /\ root_page \in [Tables -> {FirstLeaf, InternalRoot}]
             /\ saved = <<>> \/ DOMAIN saved = {1}
  <2>1. /\ columns = Schemas /\ meta = [t \in Tables |-> write_metadata(root_page[t], Schemas[t])]
        /\ root_page \in [Tables -> {FirstLeaf, InternalRoot}]
        /\ \A t \in Tables : TableOK(inserted[t], leaves[t], Root(t), Schemas[t])
    BY <1>1, TableOf DEF StorageInv, TablesAre
  <2>2. columns \in [Tables -> Cols]
    BY <2>1, SchemaTypes
  <2>3. \A t \in Tables : write_metadata(root_page[t], Schemas[t]) \in Seq(Nat)
    <3>1. \A t \in Tables : root_page[t] \in Nat
      BY <2>1, RootPages
    <3> QED  BY <3>1, SchemaTypes, MetadataInverse
  <2>4. meta \in [Tables -> Seq(Nat)]
    BY <2>1, <2>3
  <2>5. ASSUME NEW t \in Tables
        PROVE  /\ \A i \in DOMAIN leaves[t] : leaves[t][i] \in [1 .. PageSize -> Int]
               /\ Root(t).kids \in Seq(DOMAIN leaves[t]) /\ Len(Root(t).kids) = Len(leaves[t])
               /\ Len(Root(t).keys) = Len(leaves[t]) - 1
               /\ inserted[t] \in Seq(Rows)
    <3>1. /\ leaves[t] \in Seq(PageWords) /\ DOMAIN leaves[t] = 1 .. Len(leaves[t]) /\ inserted[t] \in Seq(Rows)
      BY <2>1, TableTypes
    <3>2. RootOK(Root(t), Len(leaves[t]))
      BY <2>1 DEF TableOK
    <3>3. \A i \in DOMAIN leaves[t] : leaves[t][i] \in PageWords
      BY <3>1
    <3>4. /\ Root(t).kids \in Seq(1 .. Len(leaves[t])) /\ Len(Root(t).kids) = Len(leaves[t])
          /\ Len(Root(t).keys) = Len(leaves[t]) - 1
      BY <3>2 DEF RootOK
    <3>5. Root(t).kids \in Seq(DOMAIN leaves[t])
      BY <3>1, <3>4
    <3> QED  BY <3>1, <3>3, <3>4, <3>5 DEF PageWords
  <2>6. saved = <<>> \/ DOMAIN saved = {1}
    <3>1. saved = <<>> \/ \E p : saved = <<p>>
      BY <1>1, Zenon DEF StorageInv, SavedOK
    <3>2. \A p : DOMAIN <<p>> = {1}
      OBVIOUS
    <3> QED  BY <3>1, <3>2
  <2> QED  BY <2>1, <2>2, <2>4, <2>5, <2>6
<1>2. ASSUME SelectInv
      PROVE  /\ pc \in {"idle", "second", "reply", "shown"} /\ stmt \in Statements \cup {NoStmt}
             /\ begun \in [Tables -> Nat] /\ ended \in [Tables -> Nat]
             /\ (left = Nothing) <=> (pc # "second")
             /\ {answer.tag, shown.tag} \subseteq {"Rows", "Error", "Lost", "Nothing"}
             /\ (answer = Nothing) <=> (pc \in {"idle", "second"})
             /\ (shown = Nothing) <=> (pc # "shown")
  <2>1. /\ pc \in {"idle", "second", "reply", "shown"} /\ stmt \in Statements \cup {NoStmt}
        /\ Counts(begun, inserted) /\ Counts(ended, inserted)
        /\ pc = "second" => left # Nothing
        /\ pc # "second" => left = Nothing
        /\ pc \in {"idle", "second"} => answer = Nothing
        /\ pc \in {"reply", "shown"} => IsMessage(answer)
        /\ IF pc = "shown" THEN shown \in {answer, Lost} ELSE shown = Nothing
    BY <1>2 DEF SelectInv, Sent
  <2>2. Nothing.tag = "Nothing" /\ Lost.tag = "Lost"
    BY DEF Nothing, Lost
  <2>3. IsMessage(answer) => answer.tag \in {"Rows", "Error"}
    BY DEF IsMessage, IsRows, IsError
  <2>4. IF pc \in {"idle", "second"} THEN answer = Nothing ELSE answer.tag \in {"Rows", "Error"}
    BY <2>1, <2>3
  <2>5. IF pc = "shown" THEN shown.tag \in {"Rows", "Error", "Lost"} ELSE shown = Nothing
    BY <2>1, <2>2, <2>4
  <2>6. begun \in [Tables -> Nat] /\ ended \in [Tables -> Nat]
    BY <2>1 DEF Counts
  <2>7. (answer = Nothing) <=> (pc \in {"idle", "second"})
    BY <2>2, <2>4
  <2>8. (shown = Nothing) <=> (pc # "shown")
    BY <2>2, <2>5
  <2>9. {answer.tag, shown.tag} \subseteq {"Rows", "Error", "Lost", "Nothing"}
    BY <2>2, <2>4, <2>5
  <2> QED  BY <2>1, <2>6, <2>7, <2>8, <2>9
<1>3. StorageInv /\ SelectInv => TypeOK
  <2> SUFFICES ASSUME StorageInv, SelectInv PROVE TypeOK
    OBVIOUS
  <2>1. columns \in [Tables -> Seq([name : Seq(Nat), type : {"INTEGER", "TEXT"}])]
    BY <1>1 DEF Cols, Types
  <2> QED  BY <1>1, <1>2, <2>1, Zenon DEF TypeOK
<1> QED  BY <1>3, SelectAlways, PTL

\* However many of the server's words arrive, the client shows the answer as it
\* is or gives the connection up; if all arrive it shows the answer.
THEOREM AnswersArriveWhole == Spec => []AnswerArrivesWhole
<1>1. SelectInv => AnswerArrivesWhole
  <2> SUFFICES ASSUME SelectInv PROVE AnswerArrivesWhole
    OBVIOUS
  <2>1. pc = "shown" => shown \in {answer, Lost}
    BY DEF SelectInv
  <2>2. ASSUME pc = "reply" PROVE read_message(stream) = answer
    <3>1. IsMessage(answer) /\ stream = write_message(answer)
      BY <2>2 DEF SelectInv, Sent
    <3> QED  BY <3>1, ReadMessageInverse
  <2> QED  BY <2>1, <2>2 DEF AnswerArrivesWhole
<1> QED  BY <1>1, SelectAlways, PTL

\* Whatever other sessions insert between the two reads of a JOIN, its answer has
\* all the rows that the reference definition selects of the tables as it found
\* them, and none that it does not select of the tables as it left them; that of
\* a SELECT is the bag of the reference definition at its one moment.
THEOREM AnswersLieBetween == Spec => []AnswerBetween
<1>1. SelectInv => AnswerBetween
  <2> SUFFICES ASSUME SelectInv, answer.tag = "Rows"
               PROVE  /\ Reference(stmt, begun) \sqsubseteq BagOf(answer.rows)
                      /\ BagOf(answer.rows) \sqsubseteq Reference(stmt, ended)
    BY DEF AnswerBetween
  <2>1. pc \in {"reply", "shown"}
    <3>1. Nothing.tag # "Rows"
      BY DEF Nothing
    <3> QED  BY <3>1 DEF SelectInv
  <2>2. Answered(answer, stmt, inserted, begun, ended)
    BY <2>1 DEF SelectInv, Sent
  <2> QED  BY <2>2, ReferenceIs DEF Answered, Between
<1> QED  BY <1>1, SelectAlways, PTL
=============================================================================
