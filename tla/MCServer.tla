------------------------------ MODULE MCServer ------------------------------
(***************************************************************************)
(* Two clients, each with one connection and a few queries, and two        *)
(* tables: the fewest for a COMMIT that stops between two tables.          *)
(***************************************************************************)
EXTENDS Server

CONSTANTS c1, c2, t1, t2

MCClients == {c1, c2}
MCTables == {t1, t2}
=============================================================================
