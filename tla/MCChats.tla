------------------------------- MODULE MCChats ------------------------------
(***************************************************************************)
(* Values of the constants of Chats for TLC.                               *)
(***************************************************************************)
EXTENDS Chats, TLC

CONSTANTS u1, u2, u3

\* u2 and u3 are not friends: the friend check of add_member can fail.
MCFriends == {<<u1, u2>>, <<u3, u1>>}

MCAllOps == {"create", "add", "remove", "quit", "unregister"}
MCNoDepartures == {"create", "add", "remove"}
MCDepartures == {"quit", "remove"}
MCQuit == {"quit"}
MCCreate == {"create", "unregister"}

\* u2 and u3 play the same part in Friends; chats and workers are alike.
MCSymmetry ==
  Permutations({u2, u3}) \cup Permutations(Workers) \cup Permutations(ChatIds)
=============================================================================
