----------------------------- MODULE MCSession -----------------------------
(***************************************************************************)
(* Sessions over one table that exists from the start and one that a       *)
(* session may create.                                                     *)
(***************************************************************************)
EXTENDS Session

CONSTANTS s1, s2, t1, t2

TwoSessions == {s1, s2}
OneSession == {s1}
MCTables == {t1, t2}
MCPreloaded == {t1}
=============================================================================
