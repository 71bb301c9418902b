------------------------------ MODULE MCQuery ------------------------------
(***************************************************************************)
(* Two tables, users (id INTEGER, name TEXT) and orders (name TEXT, owner  *)
(* INTEGER), so that the key is the first column of one and the second of  *)
(* the other; two rows to a leaf, so that the third one splits it.  One    *)
(* row has no integer, and one is too long for a page.                     *)
(***************************************************************************)
EXTENDS Query

users == 1
orders == 2
nobody == 3
id == <<4>>
name == <<5, 7>>
owner == <<6>>

MCSchemas ==
  users :> <<[name |-> id, type |-> "INTEGER"], [name |-> name, type |-> "TEXT"]>> @@
  orders :> <<[name |-> name, type |-> "TEXT"], [name |-> owner, type |-> "INTEGER"]>>

empty == Text(<<>>)
x == Text(<<2>>)
xy == Text(<<2, 1>>)

MCRows ==
  {<<Integer(1), x>>, <<Integer(2), empty>>, <<x, Integer(2)>>,
   <<x, empty>>, <<Integer(1), xy>>}

Select(t, where) == [table |-> t, join |-> <<>>, where |-> where]
Join(l, r, left_col, right_col, where) ==
  [table |-> l, where |-> where,
   join |-> <<[right_table |-> r, left_col |-> left_col, right_col |-> right_col]>>]
Where(column, op, value) == <<[column |-> column, op |-> op, value |-> value]>>

MCStatements ==
  { Select(users, <<>>),
    Select(users, Where(name, "<", x)),
    Select(orders, Where(owner, "=", x)),
    Select(nobody, <<>>),
    Join(users, orders, id, owner, <<>>),
    Join(orders, users, <<orders, Dot>> \o name, <<users, Dot>> \o name, Where(<<users, Dot>> \o id, "<", Integer(2))),
    Join(users, users, id, id, <<>>),
    Join(users, orders, id, owner, Where(name, "=", x)),
    Join(users, orders, owner, id, <<>>),
    Join(users, nobody, id, id, <<>>) }
=============================================================================
