---------------------------- MODULE ChatsAtomic -----------------------------
(***************************************************************************)
(* What the handlers for chats promise: every request takes effect at once *)
(* or not at all.  A chat has members, with an administrator among them    *)
(* who alone lets in and sends away; whoever leaves as the last member     *)
(* ends the chat, and an administrator who leaves others behind names one  *)
(* of them.                                                                *)
(***************************************************************************)
CONSTANTS Users,    \* those who have an account
          ChatIds,  \* the ids a chat can have
          NoUser,   \* the administrator of a chat that was never created
          Friends   \* the pairs of users who are friends

VARIABLES
  valid,    \* the users who have not unregistered
  status,   \* per chat: not created, in use, or ended
  admin,    \* per chat: its administrator
  members   \* per chat: the users in it

vars == <<valid, status, admin, members>>

AreFriends(a, b) == <<a, b>> \in Friends \/ <<b, a>> \in Friends

Init ==
  /\ valid = Users
  /\ status \in [ChatIds -> {"none", "valid"}]
  /\ admin \in [ChatIds -> Users \cup {NoUser}]
  /\ members \in [ChatIds -> SUBSET Users]
  /\ \A c \in ChatIds :
       IF status[c] = "none" THEN admin[c] = NoUser /\ members[c] = {}
                             ELSE admin[c] \in members[c]

\* A chat starts with its creator and, if that is somebody, one other member.
Create(u, others, c) ==
  /\ u \in valid
  /\ others \subseteq valid
  /\ status[c] = "none"
  /\ status' = [status EXCEPT ![c] = "valid"]
  /\ admin' = [admin EXCEPT ![c] = u]
  /\ members' = [members EXCEPT ![c] = {u} \cup others]
  /\ UNCHANGED valid

\* An administrator lets a friend in.
Add(u, v, c) ==
  /\ u \in valid /\ v \in valid /\ u # v
  /\ status[c] = "valid" /\ admin[c] = u
  /\ AreFriends(u, v)
  /\ v \notin members[c]
  /\ members' = [members EXCEPT ![c] = @ \cup {v}]
  /\ UNCHANGED <<valid, status, admin>>

\* An administrator sends somebody else away.
Remove(u, v, c) ==
  /\ u \in valid /\ v \in valid /\ u # v
  /\ status[c] = "valid" /\ admin[c] = u
  /\ v \in members[c]
  /\ members' = [members EXCEPT ![c] = @ \ {v}]
  /\ UNCHANGED <<valid, status, admin>>

\* The last member ends the chat.
QuitLast(u, c) ==
  /\ u \in valid
  /\ status[c] = "valid"
  /\ members[c] = {u}
  /\ members' = [members EXCEPT ![c] = {}]
  /\ status' = [status EXCEPT ![c] = "deleted"]
  /\ UNCHANGED <<valid, admin>>

\* A member leaves others behind, and an administrator names one of them.
Quit(u, c) ==
  /\ u \in valid
  /\ status[c] = "valid"
  /\ u \in members[c] /\ members[c] # {u}
  /\ members' = [members EXCEPT ![c] = @ \ {u}]
  /\ \/ admin[c] # u /\ UNCHANGED admin
     \/ admin[c] = u /\ \E v \in members[c] \ {u} : admin' = [admin EXCEPT ![c] = v]
  /\ UNCHANGED <<valid, status>>

\* Who unregisters leaves his chats; those he administered keep their last
\* administrator.
Unregister(u) ==
  /\ u \in valid
  /\ valid' = valid \ {u}
  /\ members' = [c \in ChatIds |-> members[c] \ {u}]
  /\ UNCHANGED <<status, admin>>

Next ==
  \/ \E u \in Users, c \in ChatIds, others \in {{}} \cup {{v} : v \in Users} : Create(u, others, c)
  \/ \E u, v \in Users, c \in ChatIds : Add(u, v, c) \/ Remove(u, v, c)
  \/ \E u \in Users, c \in ChatIds : QuitLast(u, c) \/ Quit(u, c)
  \/ \E u \in Users : Unregister(u)

Spec == Init /\ [][Next]_vars

\* What follows from it: every chat in use has its administrator among its
\* members, unless he has unregistered, an ended chat has no members, and
\* nobody who has unregistered is a member.
Consistent ==
  \A c \in ChatIds :
    /\ status[c] = "valid" /\ admin[c] \in valid => admin[c] \in members[c]
    /\ status[c] = "deleted" => members[c] = {}
    /\ members[c] \subseteq valid
=============================================================================
