---------------------------- MODULE MCServerPool ----------------------------
(* Three threads at most, in place of 200, that are alike.                 *)
EXTENDS ServerPool, TLC
=============================================================================
