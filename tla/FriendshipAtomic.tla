-------------------------- MODULE FriendshipAtomic --------------------------
(***************************************************************************)
(* What accounts and friendship promise: every request of a client takes   *)
(* effect at once or not at all.  A friendship keeps its direction, from   *)
(* the user who asked to the user who accepted, as table friends does, and *)
(* two users who have asked each other may accept twice.                   *)
(***************************************************************************)
CONSTANT Users   \* the names an account can have

VARIABLES
  account,    \* per name: no row in users, VALID = 1, or VALID = 0 (deleted)
  requests,   \* the pairs <<a, b>> with a request of a waiting for b
  friends     \* the pairs <<a, b>> where b has accepted a request of a

vars == <<account, requests, friends>>

Init ==
  /\ account \in [Users -> {"none", "valid"}]
  /\ requests = {}
  /\ friends = {}

\* A name is used once: an account that was deleted keeps it.
Register(u) ==
  /\ account[u] = "none"
  /\ account' = [account EXCEPT ![u] = "valid"]
  /\ UNCHANGED <<requests, friends>>

Unregister(u) ==
  /\ account[u] = "valid"
  /\ account' = [account EXCEPT ![u] = "deleted"]
  /\ UNCHANGED <<requests, friends>>

\* Nobody asks himself, a friend, or twice; the answer to b's own request is
\* not waited for.
Ask(a, b) ==
  /\ account[a] = "valid" /\ account[b] = "valid"
  /\ a # b
  /\ <<a, b>> \notin friends /\ <<b, a>> \notin friends
  /\ <<a, b>> \notin requests
  /\ requests' = requests \cup {<<a, b>>}
  /\ UNCHANGED <<account, friends>>

\* b accepts: the request turns into a friendship.
Accept(a, b) ==
  /\ account[a] = "valid" /\ account[b] = "valid"
  /\ <<a, b>> \in requests
  /\ <<a, b>> \notin friends
  /\ friends' = friends \cup {<<a, b>>}
  /\ requests' = requests \ {<<a, b>>}
  /\ UNCHANGED account

Decline(a, b) ==
  /\ account[a] = "valid" /\ account[b] = "valid"
  /\ <<a, b>> \in requests
  /\ requests' = requests \ {<<a, b>>}
  /\ UNCHANGED <<account, friends>>

Next ==
  \/ \E u \in Users : Register(u) \/ Unregister(u)
  \/ \E a, b \in Users : Ask(a, b) \/ Accept(a, b) \/ Decline(a, b)

Spec == Init /\ [][Next]_vars
=============================================================================
