------------------------------ MODULE MCPager ------------------------------
(***************************************************************************)
(* A table of two pages with two possible contents besides zeros, started  *)
(* two or three times.                                                     *)
(***************************************************************************)
EXTENDS PagerStore

CONSTANTS a, zero

MCData == {zero, a}
=============================================================================
