----------------------------- MODULE MCDatabase -----------------------------
(***************************************************************************)
(* Two tables, both created in the course of the history.                  *)
(***************************************************************************)
EXTENDS DatabaseStore

CONSTANTS t1, t2

MCTables == {t1, t2}
=============================================================================
