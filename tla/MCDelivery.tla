----------------------------- MODULE MCDelivery -----------------------------
(***************************************************************************)
(* Values of the constants of Delivery for TLC.                            *)
(***************************************************************************)
EXTENDS Delivery

CONSTANTS u1, u2

MCSymmetry == Permutations({u1, u2})
=============================================================================
