---------------------------- MODULE MCFriendship ----------------------------
(***************************************************************************)
(* Values of the constants of Friendship for TLC.                          *)
(***************************************************************************)
EXTENDS Friendship, TLC

\* Users and workers are alike.
MCSymmetry == Permutations(Users) \cup Permutations(Workers)
=============================================================================
