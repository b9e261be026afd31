----------------------------- MODULE Friendship -----------------------------
(***************************************************************************)
(* The handlers of server/psd_ims_server.c for accounts and friendship:    *)
(* user_register, user_unregister, send_friend_request, accept_request and *)
(* decline_request, one step per SQL statement, with the statements of     *)
(* server/persistence.c on tables users, friends_request and friends.      *)
(*                                                                         *)
(* No table has a unique key on a pair of users, so the same request or    *)
(* friendship may be in several rows: requests and friends count them.     *)
(***************************************************************************)
EXTENDS Naturals, Integers, FiniteSets

CONSTANTS Users,      \* the names clients register, ask and accept
          NoUser,     \* the id -1 that get_user_id returns when it finds nobody
          Workers,    \* the threads that serve requests
          MaxFaults   \* bound on failed queries and killed servers

ASSUME UsersAssumption == NoUser \notin Users
ASSUME MaxFaultsAssumption == MaxFaults \in Nat

VARIABLES
  account,    \* per name: no row, VALID = 1 or VALID = 0 in table users
  requests,   \* rows of friends_request per pair <<ID1, ID2_request>>
  friends,    \* rows of friends per pair <<ID1, ID2>>
  job,        \* the request each worker serves and the statement it runs next
  threads,    \* mysql_thread_safe(): requests are served concurrently
  clashed,    \* two requests served at once have clashed (history)
  faults,     \* failed queries and killed servers so far (history, bounded)
  asked,      \* the pairs that have had a row in friends_request (history)
  crossed     \* the users who have asked each other at a time (history)

tables == <<account, requests, friends, asked, crossed>>
vars == <<account, requests, friends, asked, crossed, job, threads, clashed, faults>>

Pairs == Users \X Users

-----------------------------------------------------------------------------
(* Jobs.                                                                   *)

Resting == {"idle", "ok", "error"}
Ops == {"register", "unregister", "send", "accept", "decline"}
Steps == {"entry", "enrol", "pass", "invalidate", "who", "friend", "request",
          "ask", "befriend", "drop", "remove"}

Job == [op : Ops \cup {"none"}, at : Steps \cup Resting,
        me : Users \cup {NoUser}, who : Users \cup {NoUser}]

\* A worker between requests; the reply of the last one is kept as its place.
Rest(reply) == [op |-> "none", at |-> reply, me |-> NoUser, who |-> NoUser]

TypeOK ==
  /\ account \in [Users -> {"none", "valid", "deleted"}]
  /\ requests \in [Pairs -> Nat]
  /\ friends \in [Pairs -> Nat]
  /\ asked \in SUBSET Pairs
  /\ crossed \in SUBSET SUBSET Users
  /\ job \in [Workers -> Job]
  /\ threads \in BOOLEAN
  /\ clashed \in BOOLEAN
  /\ faults \in 0..MaxFaults

Init ==
  /\ account \in [Users -> {"none", "valid"}]
  /\ requests = [p \in Pairs |-> 0]
  /\ friends = [p \in Pairs |-> 0]
  /\ asked = {}
  /\ crossed = {}
  /\ job = [w \in Workers |-> Rest("idle")]
  /\ threads \in BOOLEAN
  /\ clashed = FALSE
  /\ faults = 0

-----------------------------------------------------------------------------
(* SELECTs.                                                                *)

GetUserId(u) == IF u # NoUser /\ account[u] = "valid" THEN u ELSE NoUser

UserEntryExist(u) == account[u] # "none"

ExistRequest(u1, u2) == NoUser \notin {u1, u2} /\ requests[<<u1, u2>>] > 0

\* Mutant: a friendship counts for the user who asked for it only.
ExistFriendly_OneDirection(u1, u2) ==
  NoUser \notin {u1, u2} /\ friends[<<u1, u2>>] > 0

ExistFriendly(u1, u2) ==
  NoUser \notin {u1, u2} /\ (friends[<<u1, u2>>] > 0 \/ friends[<<u2, u1>>] > 0)

-----------------------------------------------------------------------------
(* INSERTs, UPDATEs and DELETEs.  A row that names the id -1 is refused by  *)
(* a foreign key, a second row with a name by the UNIQUE on NAME.          *)

\* The statement changes rows, or the database refuses it.
AddUser(u) ==
  /\ account[u] = "none"
  /\ account' = [account EXCEPT ![u] = "valid"]
  /\ UNCHANGED <<requests, friends, asked, crossed>>

DelUser(u) ==
  /\ account' = [account EXCEPT ![u] = "deleted"]
  /\ UNCHANGED <<requests, friends, asked, crossed>>

SendRequest(u1, u2) ==
  /\ u2 # NoUser
  /\ requests' = [requests EXCEPT ![<<u1, u2>>] = @ + 1]
  /\ asked' = asked \cup {<<u1, u2>>}
  /\ crossed' = IF requests[<<u2, u1>>] > 0 THEN crossed \cup {{u1, u2}} ELSE crossed
  /\ UNCHANGED <<account, friends>>

AddFriends(u1, u2) ==
  /\ u1 # NoUser
  /\ friends' = [friends EXCEPT ![<<u1, u2>>] = @ + 1]
  /\ UNCHANGED <<account, requests, asked, crossed>>

\* Mutant: the columns are taken the other way round.
DeclineFriendRequest_Swapped(u1, u2) ==
  /\ requests' = [p \in Pairs |-> IF p = <<u2, u1>> THEN 0 ELSE requests[p]]
  /\ UNCHANGED <<account, friends, asked, crossed>>

\* Mutant: one row less, whatever there is.
DeclineFriendRequest_OneRow(u1, u2) ==
  /\ requests' = [p \in Pairs |-> IF p = <<u1, u2>> THEN requests[p] - 1
                                                  ELSE requests[p]]
  /\ UNCHANGED <<account, friends, asked, crossed>>

\* Deletes every row of the pair; none when u1 is the id -1.
DeclineFriendRequest(u1, u2) ==
  /\ requests' = [p \in Pairs |-> IF p = <<u1, u2>> THEN 0 ELSE requests[p]]
  /\ UNCHANGED <<account, friends, asked, crossed>>

-----------------------------------------------------------------------------
(* How a statement ends.                                                   *)

\* The integers a reader of persistence.c may return for the condition b.
Answers(b) == {IF b THEN 1 ELSE 0}
              \cup (IF faults < MaxFaults THEN {-1} ELSE {})

\* A reader has returned r.
Observed(r) ==
  /\ faults' = IF r = -1 THEN faults + 1 ELSE faults
  /\ UNCHANGED <<tables, threads, clashed>>

Goto(w, s) ==
  job' = [job EXCEPT ![w] = IF s \in Resting THEN Rest(s)
                                             ELSE [job[w] EXCEPT !.at = s]]

\* A writer runs Effect and the handler goes on at good; when the database
\* refuses the statement, or the query fails, it goes on at bad.
Attempt(w, Effect, refused, good, bad) ==
  /\ UNCHANGED <<threads, clashed>>
  /\ \/ ~refused /\ Effect /\ Goto(w, good) /\ UNCHANGED faults
     \/ refused /\ Goto(w, bad) /\ UNCHANGED <<tables, faults>>
     \/ /\ faults < MaxFaults
        /\ faults' = faults + 1
        /\ Goto(w, bad)
        /\ UNCHANGED tables

-----------------------------------------------------------------------------
(* Requests and check_login.                                               *)

\* Mutant: a library that is not thread safe is used by several threads.
Admitted_Always(w) == job[w].at \in Resting

\* A worker takes a request; without a thread safe library the main thread
\* serves one at a time.
Admitted(w) ==
  /\ job[w].at \in Resting
  /\ threads \/ \A v \in Workers : job[v].at \in Resting

\* Requests whose statements do not go together: an acceptance and another
\* request between the same two users, an account that is deleted and a request
\* that names it.
Clash(j, k) ==
  /\ k.op \in {"send", "accept", "decline"}
  /\ \/ j.op = "accept" /\ j.who # NoUser /\ {j.me, j.who} = {k.me, k.who}
     \/ j.op = "unregister" /\ j.me \in {k.me, k.who}

Clashing == \E v, w \in Workers : v # w /\ Clash(job[v], job[w])

Arrives(w, op, s, me, who) ==
  job' = [job EXCEPT ![w] = [op |-> op, at |-> s, me |-> me, who |-> who]]

\* A request arrives.  But for user_register, the get_user_id of check_login
\* has found its sender: a login it refuses has no effect.
Request(w) ==
  /\ Admitted(w)
  /\ \/ \E u \in Users : Arrives(w, "register", "entry", NoUser, u)
     \/ \E me \in Users :
          /\ GetUserId(me) = me
          /\ \/ Arrives(w, "unregister", "pass", me, NoUser)
             \/ \E op \in {"send", "accept", "decline"}, who \in Users :
                  Arrives(w, op, "pass", me, who)
  /\ clashed' = (clashed \/ Clashing')
  /\ UNCHANGED <<tables, threads, faults>>

\* get_user_pass: for a user unregistered meanwhile, or when the query fails,
\* the password is compared with an uninitialised buffer.
CheckPass(w) ==
  /\ job[w].at = "pass"
  /\ \E r \in Answers(account[job[w].me] = "valid") :
       /\ Observed(r)
       /\ \/ Goto(w, IF job[w].op = "unregister" THEN "invalidate" ELSE "who")
          \/ r # 1 /\ Goto(w, "error")

-----------------------------------------------------------------------------
(* user_register and user_unregister.                                      *)

CheckEntry(w) ==
  /\ job[w].at = "entry"
  /\ \E r \in Answers(UserEntryExist(job[w].who)) :
       /\ Observed(r)
       /\ Goto(w, IF r # 0 THEN "error" ELSE "enrol")

Enrol(w) ==
  /\ job[w].at = "enrol"
  /\ Attempt(w, AddUser(job[w].who), account[job[w].who] # "none", "ok", "error")

\* del_user; the del_user_all_chats that follows touches none of these tables.
Invalidate(w) ==
  /\ job[w].at = "invalidate"
  /\ Attempt(w, DelUser(job[w].me), FALSE, "ok", "error")

-----------------------------------------------------------------------------
(* send_friend_request, accept_request and decline_request.                *)

\* get_user_id of the named user.  Only a request sent to oneself is refused
\* here: a name nobody has goes on as the id -1.
LookUpOther(w) ==
  /\ job[w].at = "who"
  /\ \E r \in Answers(GetUserId(job[w].who) # NoUser) :
       /\ Observed(r)
       /\ IF job[w].op = "send" /\ r = 1 /\ job[w].who = job[w].me
          THEN Goto(w, "error")
          ELSE job' = [job EXCEPT ![w].at = IF job[w].op = "send" THEN "friend"
                                                                  ELSE "request",
                                  ![w].who = IF r = 1 THEN @ ELSE NoUser]

CheckFriend(w) ==
  /\ job[w].at = "friend"
  /\ \E r \in Answers(ExistFriendly(job[w].me, job[w].who)) :
       /\ Observed(r)
       /\ Goto(w, IF r # 0 THEN "error" ELSE "request")

\* Where exist_request leads to.  A failed query counts as a request that
\* exists: it refuses a new one, and lets an answer pass.
AfterRequest(op, r) ==
  CASE op = "send" -> IF r # 0 THEN "error" ELSE "ask"
    [] op = "accept" -> IF r = 0 THEN "error" ELSE "befriend"
    [] OTHER -> IF r = 0 THEN "error" ELSE "remove"

\* Mutant: the answer looks for a request in the other direction.
CheckRequest_OwnRequest(w) ==
  /\ job[w].at = "request"
  /\ \E r \in Answers(ExistRequest(job[w].me, job[w].who)) :
       /\ Observed(r)
       /\ Goto(w, AfterRequest(job[w].op, r))

\* The request looked for is the sender's, or the one made to him.
CheckRequest(w) ==
  /\ job[w].at = "request"
  /\ \E r \in Answers(IF job[w].op = "send" THEN ExistRequest(job[w].me, job[w].who)
                                            ELSE ExistRequest(job[w].who, job[w].me)) :
       /\ Observed(r)
       /\ Goto(w, AfterRequest(job[w].op, r))

InsertRequest(w) ==
  /\ job[w].at = "ask"
  /\ Attempt(w, SendRequest(job[w].me, job[w].who), job[w].who = NoUser, "ok", "error")

\* The first statement of accept_friend_request.
Befriend(w) ==
  /\ job[w].at = "befriend"
  /\ Attempt(w, AddFriends(job[w].who, job[w].me), job[w].who = NoUser, "drop", "error")

\* The second one, whose result is ignored.
DropRequest(w) ==
  /\ job[w].at = "drop"
  /\ Attempt(w, DeclineFriendRequest(job[w].who, job[w].me), FALSE, "ok", "ok")

RemoveRequest(w) ==
  /\ job[w].at = "remove"
  /\ Attempt(w, DeclineFriendRequest(job[w].who, job[w].me), FALSE, "ok", "error")

-----------------------------------------------------------------------------
\* The server is killed between two statements and started again.
Kill ==
  /\ faults < MaxFaults
  /\ faults' = faults + 1
  /\ job' = [w \in Workers |-> Rest("idle")]
  /\ UNCHANGED <<tables, threads, clashed>>

Step(w) ==
  \/ CheckPass(w) \/ CheckEntry(w) \/ Enrol(w) \/ Invalidate(w)
  \/ LookUpOther(w) \/ CheckFriend(w) \/ CheckRequest(w)
  \/ InsertRequest(w) \/ Befriend(w) \/ DropRequest(w) \/ RemoveRequest(w)

Next ==
  \/ \E w \in Workers : Request(w) \/ Step(w)
  \/ Kill

Spec == Init /\ [][Next]_vars

-----------------------------------------------------------------------------
(* Properties.                                                             *)

\* The friendships nobody asked for.
Unasked == {p \in Pairs \ asked : friends[p] > 0}

\* A friendship was asked for, in its direction, however the requests of the
\* threads interleave; a failed query, which accept_request takes for a
\* request that exists, can make one that was not, and no more than one.
FriendshipWasAskedFor == Cardinality(Unasked) <= faults

\* Requests have been served one at a time, or by threads and did not clash.
Apart == ~threads \/ ~clashed

\* While requests keep apart, exist_friendly has one row to find: though no key
\* says so, a direction is inserted once, and the friendship of two users is in
\* two rows only when they have asked each other, neither of which exist_request
\* and accept_request look for, and both accept.  Every failed or interrupted
\* statement can add a row, because a request that outlives the friendship, or
\* was never made, can be accepted.
OneRowUnlessCrossed ==
  Apart => \A a, b \in Users :
             /\ friends[<<a, b>>] <= 1 + faults
             /\ a # b => friends[<<a, b>>] + friends[<<b, a>>]
                           <= faults + IF {a, b} \in crossed THEN 2 ELSE 1

\* The accounts and pairs a client can tell apart.  A request that is being
\* accepted counts as gone once the friendship is in its table.
Accepting == {<<job[w].who, job[w].me>> : w \in {v \in Workers : job[v].at = "drop"}}
AskedPairs == {p \in Pairs : requests[p] > 0} \ Accepting
FriendPairs == {p \in Pairs : friends[p] > 0}

Atomic == INSTANCE FriendshipAtomic WITH
            requests <- AskedPairs, friends <- FriendPairs

\* While requests keep apart and until a statement fails, every handler acts as
\* if its request took effect at once: it implements FriendshipAtomic.
ApartHandlersAreAtomic ==
  /\ Atomic!Init
  /\ [][Apart' /\ faults' = 0 => Atomic!Next]_(Atomic!vars)
=============================================================================
