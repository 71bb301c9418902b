------------------------------ MODULE MCBTree ------------------------------
(***************************************************************************)
(* Small pages: two or three cells to a leaf, two keys to an internal      *)
(* node, so that seven inserts build a tree of three levels.               *)
(***************************************************************************)
EXTENDS BTree
=============================================================================
