------------------------------- MODULE Query -------------------------------
(***************************************************************************)
(* The way of the data: INSERT turns a row into the bytes of a leaf page   *)
(* (row.rs, the slotted pages of btree.rs), SELECT and JOIN (executor.rs)  *)
(* turn the bytes of the pages back into rows, filter and combine them,    *)
(* and the answer goes to the client as one framed message (protocol.rs).  *)
(* A JOIN reads its tables under two acquisitions of the storage lock;     *)
(* other sessions insert in between.  A ROLLBACK or a restart brings back  *)
(* the pages of the last commit, and with them the number of the root.     *)
(*                                                                         *)
(* Memory is counted in words: an integer, a length, an offset, a type tag *)
(* or a character takes one.  A string is the sequence of its characters,  *)
(* a table's name one character.  Names that differ in case only do not    *)
(* occur, and the integers that are printed have one digit.  Of the        *)
(* internal nodes it is enough to know one, which is the root as soon as   *)
(* the first leaf is split; module BTree has them.  Leaves are numbered    *)
(* among themselves.  A transaction is that of the gate: whose it is, and  *)
(* who waits, is in module Session.                                        *)
(***************************************************************************)
EXTENDS Integers, FiniteSets, Bags, SequencesExt, FiniteSetsExt

CONSTANTS
  Schemas,      \* the tables: name -> sequence of columns
  Rows,         \* the rows that INSERT is tried with, whatever the table
  Statements,   \* the SELECT statements
  PageSize,     \* PAGE_SIZE
  MaxName,      \* the 255 characters of a name that the metadata page keeps
  MaxInserts    \* bound on the number of rows

Tables == DOMAIN Schemas

ASSUME QueryAssumption ==
  /\ PageSize \in Nat /\ PageSize > 3   \* the header of a leaf
  /\ MaxName \in Nat /\ MaxInserts \in Nat
  /\ Tables \subseteq Nat
  /\ Schemas \in [Tables -> Seq([name : Seq(Nat), type : {"INTEGER", "TEXT"}])]
  /\ \A t \in Tables : \A i \in DOMAIN Schemas[t] : Len(Schemas[t][i].name) <= MaxName
  /\ \A row \in Rows :
       /\ row \in Seq([type : {"INTEGER", "TEXT"}, v : Seq(Int)])
       /\ \A i \in DOMAIN row : row[i].type = "INTEGER" => Len(row[i].v) = 1

VARIABLES
  columns,   \* TableStore.columns
  meta,      \* page 0 of each table
  leaves,    \* its leaf pages, by number
  root,      \* its internal node, once it has one: separators and children
  inserted,  \* history: its rows, as they were inserted
  root_page, \* TableStore.root_page
  saved,     \* while there is a transaction: the pages that were committed
  pc,        \* where the SELECT under way is
  stmt,      \* the statement
  left,      \* what execute_join has read of the left table
  begun, ended,  \* history: how many rows there were at its first and last read
  answer,    \* history: what execute returned
  stream,    \* the server's words on the wire
  shown      \* what the client makes of them

tables == <<columns, meta, leaves, root, inserted, root_page, saved>>
select == <<pc, stmt, left, begun, ended, answer, stream, shown>>
vars == <<tables, select>>

Integer(n) == [type |-> "INTEGER", v |-> <<n>>]
Text(s) == [type |-> "TEXT", v |-> s]

-----------------------------------------------------------------------------
(***************************************************************************)
(* row.rs and the metadata page.                                           *)
(***************************************************************************)
\* What a string of the buffer, its length first, takes from offset off on.
StringAt(buf, off) == SubSeq(buf, off + 1, off + buf[off])

\* A value that is not of its column's type is written as zero or as no text.
serialize(row, cols) ==
  FlattenSeq([i \in DOMAIN cols |->
                CASE row[i].type # cols[i].type -> <<0>>
                  [] cols[i].type = "INTEGER" -> row[i].v
                  [] OTHER -> <<Len(row[i].v)>> \o row[i].v])

deserialize(buf, cols) ==
  LET off[i \in 1 .. Len(cols)] ==
        IF i = 1 THEN 1
        ELSE off[i - 1] + 1 + (IF cols[i - 1].type = "TEXT" THEN buf[off[i - 1]] ELSE 0)
  IN  [i \in DOMAIN cols |-> IF cols[i].type = "TEXT" THEN Text(StringAt(buf, off[i]))
                             ELSE Integer(buf[off[i]])]

write_metadata(new_root, cols) ==
  <<new_root, Len(cols)>> \o
  FlattenSeq([i \in DOMAIN cols |->
                LET len == Min({Len(cols[i].name), MaxName})
                IN  <<len>> \o SubSeq(cols[i].name, 1, len)
                    \o <<IF cols[i].type = "INTEGER" THEN 0 ELSE 1>>])

read_metadata(page) ==
  LET off[i \in 1 .. page[2]] == IF i = 1 THEN 3 ELSE off[i - 1] + page[off[i - 1]] + 2
  IN  [root |-> page[1],
       columns |-> [i \in 1 .. page[2] |->
         [name |-> StringAt(page, off[i]),
          type |-> IF page[off[i] + page[off[i]] + 1] = 0 THEN "INTEGER" ELSE "TEXT"]]]

-----------------------------------------------------------------------------
(***************************************************************************)
(* The slotted leaf page: three words of header (the number of cells, the  *)
(* next leaf, the start of the data), the slots from there up, the cells   *)
(* from the end of the page down.                                          *)
(***************************************************************************)
HeaderSize == 3
SlotSize == 2
KeySize == 1

max_row_data_size == (PageSize - HeaderSize) \div 2 - SlotSize - KeySize

NumCells(page) == page[1]
NextLeaf(page) == page[2]
DataStart(page) == page[3]
SlotOffset(i) == HeaderSize + (i - 1) * SlotSize + 1
Slot(page, i) == [off |-> page[SlotOffset(i)], len |-> page[SlotOffset(i) + 1]]
CellKey(page, i) == page[Slot(page, i).off]
CellRow(page, i) ==
  LET s == Slot(page, i) IN SubSeq(page, s.off + KeySize, s.off + s.len - 1)

\* Mutation of leaf_free_space: the slots are not counted.
leaf_free_space_cells(page) == DataStart(page) - SlotOffset(1)

leaf_free_space(page) == Max({0, DataStart(page) - SlotOffset(NumCells(page) + 1)})

Store(page, off, words) ==
  [w \in DOMAIN page |->
     IF w \in off .. off + Len(words) - 1 THEN words[w - off + 1] ELSE page[w]]

BlankPage == [w \in 1 .. PageSize |-> 0]
init_leaf(page) == Store(page, 1, <<0, 0, PageSize + 1>>)

\* A cell becomes number pos: the slots from there on move up by one, its words
\* go below the others.
PutCell(page, pos, cell) ==
  LET n == NumCells(page)
      size == KeySize + Len(cell.row)
      start == DataStart(page) - size
      moved == Store(page, SlotOffset(pos + 1), SubSeq(page, SlotOffset(pos), SlotOffset(n + 1) - 1))
      filled == Store(moved, start, <<cell.key>> \o cell.row)
  IN  Store(Store(filled, SlotOffset(pos), <<start, size>>), 1, <<n + 1, NextLeaf(page), start>>)

Position(keys, k) ==
  Min({i \in 1 .. Len(keys) : keys[i] >= k} \cup {Len(keys) + 1})

collect_leaf_cells(page) ==
  [i \in 1 .. NumCells(page) |-> [key |-> CellKey(page, i), row |-> CellRow(page, i)]]

KeysOf(cells) == [i \in DOMAIN cells |-> cells[i].key]

insert_into_leaf(page, cell) ==
  PutCell(page, Position(KeysOf(collect_leaf_cells(page)), cell.key), cell)

write_leaf_cells(page, cells) ==
  LET written[n \in 0 .. Len(cells)] ==
        IF n = 0 THEN init_leaf(page) ELSE PutCell(written[n - 1], n, cells[n])
  IN  written[Len(cells)]

-----------------------------------------------------------------------------
(***************************************************************************)
(* Storage::insert.                                                        *)
(***************************************************************************)
Cost(cell) == SlotSize + KeySize + Len(cell.row)
CostOf(cells, n) ==
  LET sum[i \in 0 .. n] == IF i = 0 THEN 0 ELSE sum[i - 1] + Cost(cells[i])
  IN  sum[n]

\* The cells of a full leaf and the new one, and how many of them stay.
Overfull(page, cell) ==
  LET cells == collect_leaf_cells(page)
  IN  InsertAt(cells, Position(KeysOf(cells), cell.key), cell)
LeftCount(cells) ==
  LET half == CostOf(cells, Len(cells)) \div 2
  IN  Min({Max({1} \cup {m \in 1 .. Len(cells) : CostOf(cells, m) <= half}), Len(cells) - 1})

extract_key(row, cols) ==
  LET ints == {i \in DOMAIN cols : cols[i].type = "INTEGER" /\ row[i].type = "INTEGER"}
  IN  IF ints = {} THEN 0 ELSE row[Min(ints)].v[1]

\* Mutation of TypeChecks: the number of values is all that is looked at.
CountsOnly(row, cols) == Len(row) = Len(cols)

TypeChecks(row, cols) ==
  /\ Len(row) = Len(cols)
  /\ \A i \in DOMAIN row : row[i].type = cols[i].type

AddRow(t, row) == inserted' = [inserted EXCEPT ![t] = Append(@, row)]

\* create_tree's leaf is page 1; the first split allocates page 2 for its right
\* half and page 3 for the node above them, which stays the root.
FirstLeaf == 1
InternalRoot == 3
OnlyLeaf == [keys |-> <<>>, kids |-> <<1>>]
NoNode == [keys |-> <<>>, kids |-> <<>>]

\* What the walks find from that page on, when node is the internal node.
NodeAt(node, page) == IF page = InternalRoot THEN node ELSE OnlyLeaf
Root(t) == NodeAt(root[t], root_page[t])

\* Mutation of MetaWithRoot: only the handle learns of the new root.
MetaWithOldRoot(t, new_root) == meta

MetaWithRoot(t, new_root) ==
  IF new_root = root_page[t] THEN meta
  ELSE [meta EXCEPT ![t] = write_metadata(new_root, columns[t])]

\* The cell that an INSERT which passes the checks adds, and the leaf for it.
NewCell(t, row) ==
  [key |-> extract_key(row, columns[t]), row |-> serialize(row, columns[t])]
LeafFor(t, cell) == Root(t).kids[Position(Root(t).keys, cell.key)]
MayInsert(t, row) ==
  /\ MapThenSumSet(LAMBDA u : Len(inserted[u]), Tables) < MaxInserts
  /\ TypeChecks(row, columns[t])
  /\ Len(serialize(row, columns[t])) <= max_row_data_size

Insert(t, row) ==
  LET cell == NewCell(t, row)
      leaf == LeafFor(t, cell)
  IN
  /\ MayInsert(t, row)
  /\ leaf_free_space(leaves[t][leaf]) >= Cost(cell)
  /\ leaves' = [leaves EXCEPT ![t][leaf] = insert_into_leaf(@, cell)]
  /\ AddRow(t, row)
  /\ UNCHANGED <<columns, meta, root, root_page, saved, select>>

\* Mutation of WithChild: the new leaf is only linked from its left sibling.
WithoutChild(node, key, child) == node

WithChild(node, key, child) ==
  LET pos == Position(node.keys, key)
  IN  [keys |-> InsertAt(node.keys, pos, key), kids |-> InsertAt(node.kids, pos + 1, child)]

\* The leaf is full: split_leaf.  That the right half fits in its page is not
\* always so, see module BTree; this module goes on only if it does.
InsertSplits(t, row) ==
  LET cell == NewCell(t, row)
      leaf == LeafFor(t, cell)
      page == leaves[t][leaf]
      cells == Overfull(page, cell)
      n == LeftCount(cells)
      right == SubSeq(cells, n + 1, Len(cells))
      new == Len(leaves[t]) + 1
      WithNext(p, next) == Store(p, 2, <<next>>)
  IN
  /\ MayInsert(t, row)
  /\ leaf_free_space(page) < Cost(cell)
  /\ CostOf(right, Len(right)) <= PageSize - HeaderSize
  /\ leaves' = [leaves EXCEPT ![t] =
                  Append([@ EXCEPT ![leaf] = WithNext(write_leaf_cells(page, SubSeq(cells, 1, n)), new)],
                         WithNext(write_leaf_cells(BlankPage, right), NextLeaf(page)))]
  /\ root' = [root EXCEPT ![t] = WithChild(Root(t), right[1].key, new)]
  /\ root_page' = [root_page EXCEPT ![t] = InternalRoot]
  /\ meta' = MetaWithRoot(t, InternalRoot)
  /\ AddRow(t, row)
  /\ UNCHANGED <<columns, saved, select>>

-----------------------------------------------------------------------------
(***************************************************************************)
(* Transactions and restarts.                                              *)
(***************************************************************************)
Pages == [meta |-> meta, leaves |-> leaves, root |-> root, inserted |-> inserted]
Committed == IF saved = <<>> THEN Pages ELSE saved[1]

Begin ==
  /\ saved = <<>>
  /\ saved' = <<Pages>>
  /\ UNCHANGED <<columns, meta, leaves, root, inserted, root_page, select>>

Commit ==
  /\ saved # <<>>
  /\ saved' = <<>>
  /\ UNCHANGED <<columns, meta, leaves, root, inserted, root_page, select>>

\* The changed pages are dropped, and the root is the one of the metadata page.
Discard ==
  /\ meta' = Committed.meta /\ leaves' = Committed.leaves
  /\ root' = Committed.root /\ inserted' = Committed.inserted
  /\ root_page' = [t \in Tables |-> read_metadata(Committed.meta[t]).root]
  /\ saved' = <<>>

\* Between two statements: the gate keeps it from coming between the two reads
\* of another session's JOIN, except by the slip that module Session shows.
Rollback ==
  /\ pc = "idle" /\ saved # <<>>
  /\ Discard
  /\ UNCHANGED <<columns, select>>

\* The server is restarted, between two statements: open_table for each file.
Reopen ==
  /\ pc = "idle"
  /\ Discard
  /\ columns' = [t \in Tables |-> read_metadata(Committed.meta[t]).columns]
  /\ UNCHANGED select

-----------------------------------------------------------------------------
(***************************************************************************)
(* select_all and the executor.                                            *)
(***************************************************************************)
\* scan_all: the rows of the leaf chain from the first leaf on.
scan_all(t) ==
  LET chain[i \in 1 .. Len(leaves[t])] ==
        IF i = 1 THEN Root(t).kids[1] ELSE NextLeaf(leaves[t][chain[i - 1]])
      RowsOf(page) == [i \in 1 .. NumCells(page) |-> CellRow(page, i)]
  IN  FlattenSeq([i \in 1 .. Len(leaves[t]) |-> RowsOf(leaves[t][chain[i]])])

select_all(t) ==
  LET raw == scan_all(t)
  IN  [headers |-> [i \in DOMAIN columns[t] |-> columns[t][i].name],
       rows |-> [i \in DOMAIN raw |-> deserialize(raw[i], columns[t])]]

\* The order of integers, and of texts by their characters.
Less(a, b) ==
  \E i \in 1 .. Len(b) :
    /\ \A j \in 1 .. i - 1 : j <= Len(a) /\ a[j] = b[j]
    /\ i > Len(a) \/ a[i] < b[i]

Compare(op, a, b) ==
  CASE op = "=" -> a = b
    [] op = "<" -> Less(a, b)
    [] op = ">" -> Less(b, a)

\* The first column of that name, 0 if there is none.
IndexOf(headers, name) ==
  LET found == {i \in DOMAIN headers : headers[i] = name}
  IN  IF found = {} THEN 0 ELSE Min(found)

evaluate(expr, row, headers) ==
  LET i == IndexOf(headers, expr.column)
  IN  i # 0 /\ row[i].type = expr.value.type /\ Compare(expr.op, row[i].v, expr.value.v)

\* The elements of seq that are at the places in `at`, in their order.
Keep(seq, at) ==
  LET kept[n \in 0 .. Len(seq)] ==
        IF n = 0 THEN <<>> ELSE IF n \in at THEN Append(kept[n - 1], seq[n]) ELSE kept[n - 1]
  IN  kept[Len(seq)]

\* `SELECT` has no WHERE clause or one.
Filter(where, rows, headers) ==
  Keep(rows, {i \in DOMAIN rows : where = <<>> \/ evaluate(where[1], rows[i], headers)})

\* The rows of a result, as the strings to print.
Printed(headers, rows) ==
  [tag |-> "Rows", headers |-> headers,
   rows |-> [i \in DOMAIN rows |-> [j \in DOMAIN rows[i] |-> rows[i][j].v]]]

execute_select(s, r) == Printed(r.headers, Filter(s.where, r.rows, r.headers))

Dot == 46

\* The part after the first dot, if there is one; the table's name is not looked at.
AfterDot(ref) ==
  LET dots == {i \in DOMAIN ref : ref[i] = Dot}
  IN  IF dots = {} THEN ref ELSE SubSeq(ref, Min(dots) + 1, Len(ref))
find_col_index(headers, ref) == IndexOf(headers, AfterDot(ref))

Prefixed(t, headers) == [i \in DOMAIN headers |-> <<t, Dot>> \o headers[i]]

Error(e) == [tag |-> "Error", text |-> <<e>>]
TableNotFound == 1
ColumnNotFound == 2

\* Mutation of execute_join: the row of a pair that matches is not repeated.
execute_join_once(s, l, r) ==
  LET jc == s.join[1]
      li == find_col_index(l.headers, jc.left_col)
      ri == find_col_index(r.headers, jc.right_col)
      headers == Prefixed(s.table, l.headers) \o Prefixed(jc.right_table, r.headers)
      Matches(lr) == {i \in DOMAIN r.rows : lr[li] = r.rows[i][ri]}
      joined == FlattenSeq([i \in DOMAIN l.rows |->
                  IF Matches(l.rows[i]) = {} THEN <<>>
                  ELSE <<l.rows[i] \o r.rows[Min(Matches(l.rows[i]))]>>])
  IN  IF li = 0 \/ ri = 0 THEN Error(ColumnNotFound)
      ELSE Printed(headers, Filter(s.where, joined, headers))

execute_join(s, l, r) ==
  LET jc == s.join[1]
      li == find_col_index(l.headers, jc.left_col)
      ri == find_col_index(r.headers, jc.right_col)
      headers == Prefixed(s.table, l.headers) \o Prefixed(jc.right_table, r.headers)
      Pairs(lr) == Keep([j \in DOMAIN r.rows |-> lr \o r.rows[j]],
                        {j \in DOMAIN r.rows : lr[li] = r.rows[j][ri]})
      joined == FlattenSeq([i \in DOMAIN l.rows |-> Pairs(l.rows[i])])
  IN  IF li = 0 \/ ri = 0 THEN Error(ColumnNotFound)
      ELSE Printed(headers, Filter(s.where, joined, headers))

-----------------------------------------------------------------------------
(***************************************************************************)
(* protocol.rs.                                                            *)
(***************************************************************************)
EncodeString(s) == <<Len(s)>> \o s
EncodeStrings(strings) == FlattenSeq([i \in DOMAIN strings |-> EncodeString(strings[i])])

encode_rows(headers, rows) ==
  <<Len(headers)>> \o EncodeStrings(headers) \o <<Len(rows)>> \o EncodeStrings(FlattenSeq(rows))

write_message(msg) ==
  LET payload == IF msg.tag = "Rows" THEN encode_rows(msg.headers, msg.rows) ELSE msg.text
  IN  <<Len(payload) + 1, IF msg.tag = "Rows" THEN 4 ELSE 3>> \o payload

Lost == [tag |-> "Lost"]

\* Where the n strings that begin at off begin, and the end of the last; 0 from
\* the first one on that the buffer does not hold.
Starts(buf, off, n) ==
  LET start[i \in 0 .. n] ==
        IF i = 0 THEN off
        ELSE LET o == start[i - 1]
             IN  IF o = 0 \/ o > Len(buf) THEN 0
                 ELSE IF o + buf[o] > Len(buf) THEN 0 ELSE o + buf[o] + 1
  IN  start

decode_rows(buf) ==
  LET ncols == buf[1]
      hs == Starts(buf, 2, ncols)
      count == hs[ncols]
      nrows == buf[count]
      cs == Starts(buf, count + 1, nrows * ncols)
  IN  IF buf = <<>> THEN Lost
      ELSE IF count = 0 \/ count > Len(buf) THEN Lost
      ELSE IF cs[nrows * ncols] = 0 THEN Lost
      ELSE [tag |-> "Rows",
            headers |-> [i \in 1 .. ncols |-> StringAt(buf, hs[i - 1])],
            rows |-> [r \in 1 .. nrows |->
                        [c \in 1 .. ncols |-> StringAt(buf, cs[(r - 1) * ncols + c - 1])]]]

\* Mutation of read_message: what has come of the payload is taken for all of it.
read_message_short(words) ==
  IF Len(words) < 2 THEN Lost
  ELSE LET payload == SubSeq(words, 3, Len(words))
       IN  IF words[2] = 4 THEN decode_rows(payload) ELSE [tag |-> "Error", text |-> payload]

\* A stream that ends too early is an error (read_exact), and so is a payload
\* that does not parse; the client gives the connection up on either.
read_message(words) ==
  IF Len(words) < 2 \/ words[1] < 1 \/ Len(words) < 1 + words[1] THEN Lost
  ELSE LET payload == SubSeq(words, 3, words[1] + 1)
       IN  IF words[2] = 4 THEN decode_rows(payload) ELSE [tag |-> "Error", text |-> payload]

-----------------------------------------------------------------------------
(***************************************************************************)
(* A SELECT: its first read, the second one of a JOIN, the answer.         *)
(***************************************************************************)
NoStmt == [table |-> 0, join |-> <<>>, where |-> <<>>]
Nothing == [tag |-> "Nothing"]
NoRows == [t \in Tables |-> 0]
RowsNow == [t \in Tables |-> Len(inserted[t])]

Init ==
  /\ columns = Schemas
  /\ meta = [t \in Tables |-> write_metadata(FirstLeaf, Schemas[t])]
  /\ leaves = [t \in Tables |-> <<init_leaf(BlankPage)>>]
  /\ root = [t \in Tables |-> NoNode]
  /\ inserted = [t \in Tables |-> <<>>]
  /\ root_page = [t \in Tables |-> FirstLeaf]
  /\ saved = <<>>
  /\ pc = "idle" /\ stmt = NoStmt
  /\ left = Nothing /\ begun = NoRows /\ ended = NoRows
  /\ answer = Nothing /\ stream = <<>> /\ shown = Nothing

Reply(msg) ==
  /\ answer' = msg /\ stream' = write_message(msg)
  /\ ended' = RowsNow
  /\ pc' = "reply" /\ left' = Nothing
  /\ UNCHANGED <<tables, shown>>

\* The first select_all, with all of execute_select.
ReadFirst(s) ==
  /\ pc = "idle"
  /\ stmt' = s /\ begun' = RowsNow
  /\ IF s.table \notin Tables THEN Reply(Error(TableNotFound))
     ELSE IF s.join = <<>> THEN Reply(execute_select(s, select_all(s.table)))
     ELSE /\ left' = select_all(s.table)
          /\ pc' = "second"
          /\ UNCHANGED <<tables, ended, answer, stream, shown>>

\* The second select_all, and the rest of execute_join.
ReadSecond ==
  /\ pc = "second"
  /\ UNCHANGED <<stmt, begun>>
  /\ IF stmt.join[1].right_table \notin Tables THEN Reply(Error(TableNotFound))
     ELSE Reply(execute_join(stmt, left, select_all(stmt.join[1].right_table)))

\* The first n words arrive, all of them or as many as came before a cut.
Receive(n) ==
  /\ pc = "reply"
  /\ shown' = read_message(SubSeq(stream, 1, n))
  /\ pc' = "shown"
  /\ UNCHANGED <<tables, stmt, left, begun, ended, answer, stream>>

\* The next prompt.
Prompt ==
  /\ pc = "shown"
  /\ pc' = "idle" /\ stmt' = NoStmt /\ begun' = NoRows /\ ended' = NoRows
  /\ answer' = Nothing /\ stream' = <<>> /\ shown' = Nothing
  /\ UNCHANGED <<tables, left>>

Next ==
  \/ \E t \in Tables, row \in Rows : Insert(t, row) \/ InsertSplits(t, row)
  \/ Begin \/ Commit \/ Rollback \/ Reopen
  \/ \E s \in Statements : ReadFirst(s)
  \/ ReadSecond
  \/ \E n \in 0 .. Len(stream) : Receive(n)
  \/ Prompt

Spec == Init /\ [][Next]_vars

-----------------------------------------------------------------------------
TypeOK ==
  /\ columns \in [Tables -> Seq([name : Seq(Nat), type : {"INTEGER", "TEXT"}])]
  /\ meta \in [Tables -> Seq(Nat)]
  /\ \A t \in Tables :
       /\ \A i \in DOMAIN leaves[t] : leaves[t][i] \in [1 .. PageSize -> Int]
       /\ Root(t).kids \in Seq(DOMAIN leaves[t]) /\ Len(Root(t).kids) = Len(leaves[t])
       /\ Len(Root(t).keys) = Len(leaves[t]) - 1
       /\ inserted[t] \in Seq(Rows)
  /\ root_page \in [Tables -> {FirstLeaf, InternalRoot}]
  /\ saved = <<>> \/ DOMAIN saved = {1}
  /\ pc \in {"idle", "second", "reply", "shown"}
  /\ stmt \in Statements \cup {NoStmt}
  /\ begun \in [Tables -> Nat] /\ ended \in [Tables -> Nat]
  /\ (left = Nothing) <=> (pc # "second")
  /\ {answer.tag, shown.tag} \subseteq {"Rows", "Error", "Lost", "Nothing"}
  /\ (answer = Nothing) <=> (pc \in {"idle", "second"})
  /\ (shown = Nothing) <=> (pc # "shown")

\* In no leaf do two cells overlap, or a cell and the slots, or a cell and the end
\* of the page: each has its words to itself.
CellsApart ==
  \A t \in Tables : \A p \in DOMAIN leaves[t] :
    LET page == leaves[t][p]
        CellWords(i) == LET s == Slot(page, i) IN s.off .. s.off + s.len - 1
    IN
    \A i \in 1 .. NumCells(page) :
      /\ CellWords(i) \subseteq SlotOffset(NumCells(page) + 1) .. PageSize
      /\ \A j \in 1 .. NumCells(page) : i # j => CellWords(i) \cap CellWords(j) = {}

\* The root that the handle names and the one that the metadata page names, for
\* the next ROLLBACK or start, both lead to every leaf of the table.
RootLeadsEverywhere ==
  \A t \in Tables : \A page \in {root_page[t], read_metadata(meta[t]).root} :
    ToSet(NodeAt(root[t], page).kids) = DOMAIN leaves[t]

BagOf(seq) == [x \in ToSet(seq) |-> Cardinality({i \in DOMAIN seq : seq[i] = x})]

\* What is read of a table is what was inserted, as often as it was inserted,
\* through the encoding, the pages, their splits, a ROLLBACK and a restart.
RowsSurvive ==
  \A t \in Tables :
    /\ columns[t] = Schemas[t]
    /\ BagOf(select_all(t).rows) = BagOf(inserted[t])

\* The rows of table t among its first n that a reference definition of the
\* statement selects, with the columns under the names that the result has.
Wanted(s, names, row) ==
  s.where # <<>> =>
    \E i \in DOMAIN names :
      /\ names[i] = s.where[1].column /\ \A j \in 1 .. i - 1 : names[j] # names[i]
      /\ LET a == row[i] b == s.where[1].value op == s.where[1].op IN
         /\ a.type = b.type
         /\ CASE op = "=" -> a.v = b.v
              [] op = "<" -> Less(a.v, b.v)
              [] op = ">" -> Less(b.v, a.v)
NamesOf(t) == [i \in DOMAIN Schemas[t] |-> Schemas[t][i].name]
Values(row) == [i \in DOMAIN row |-> row[i].v]
Column(t, ref) ==
  CHOOSE i \in DOMAIN Schemas[t] :
    /\ Schemas[t][i].name = AfterDot(ref)
    /\ \A j \in 1 .. i - 1 : Schemas[t][j].name # AfterDot(ref)

\* The bag that a statement yields on the tables as they were at `when`.
Reference(s, when) ==
  LET L == SubSeq(inserted[s.table], 1, when[s.table])
      jc == s.join[1]
      R == SubSeq(inserted[jc.right_table], 1, when[jc.right_table])
      names == Prefixed(s.table, NamesOf(s.table)) \o Prefixed(jc.right_table, NamesOf(jc.right_table))
      picks == IF s.join = <<>>
               THEN {<<i>> : i \in {i \in DOMAIN L : Wanted(s, NamesOf(s.table), L[i])}}
               ELSE {p \in (DOMAIN L) \X (DOMAIN R) :
                       /\ L[p[1]][Column(s.table, jc.left_col)]
                            = R[p[2]][Column(jc.right_table, jc.right_col)]
                       /\ Wanted(s, names, L[p[1]] \o R[p[2]])}
      Result(p) == Values(L[p[1]]) \o (IF Len(p) = 2 THEN Values(R[p[2]]) ELSE <<>>)
  IN  [x \in {Result(p) : p \in picks} |-> Cardinality({p \in picks : Result(p) = x})]

\* Every answer has all the rows that the statement selects of the tables as it
\* found them, and none that it does not select of the tables as it left them,
\* each as often as it should: for SELECT that is the answer at one moment, for
\* a JOIN with inserts between its two reads one that lies in between.
AnswerBetween ==
  answer.tag = "Rows" =>
    /\ Reference(stmt, begun) \sqsubseteq BagOf(answer.rows)
    /\ BagOf(answer.rows) \sqsubseteq Reference(stmt, ended)

\* The client shows the server's answer as it is, or says that the connection is
\* lost: wherever the stream is cut, no part of an answer is taken for all of it.
\* An uncut stream is never given up.
AnswerArrivesWhole ==
  /\ pc = "shown" => shown \in {answer, Lost}
  /\ pc = "reply" => read_message(stream) = answer
=============================================================================
