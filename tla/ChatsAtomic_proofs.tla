------------------------ MODULE ChatsAtomic_proofs -------------------------
(***************************************************************************)
(* Requests that keep apart do not disturb each other: each of them acts   *)
(* on the chats as if it took effect at once (ChatsAtomic), so that the    *)
(* tables are consistent whenever the server is at rest.                   *)
(***************************************************************************)
EXTENDS Damage_proofs

Creating == {"enter_me", "enter_who"}
Entering == {"entry", "recover", "insert"}

\* What the request of w knows about its users and its chat at statement s.
FactsAt(w, s) ==
  LET j == job[w]
      c == j.chat
  IN  /\ s # "undo"
      /\ s \notin Resting \cup {"leave_all"} => j.me \in valid
      /\ s \in {"invalidate", "leave_all"} => j.op = "unregister"
      /\ s \in {"new_chat"} \cup Creating => j.who \in valid \cup {NoUser}
      /\ s = "pass" => j.op \in AllOps /\ (j.op \in {"add", "remove", "quit"} => c \in ChatIds)
      /\ s \in {"chat", "inside"} => j.op \in {"add", "remove", "quit"}
      /\ s \in {"admin", "who"} => j.op \in {"add", "remove"}
      /\ s \in {"friend"} \cup Entering => j.op = "add"
      /\ s = "remove" => j.op \in {"remove", "quit"}
      /\ s \in {"pass", "chat", "inside", "remove"} /\ j.op = "quit" => j.who = j.me
      /\ s = "chat" => c \in ChatIds
      /\ s \in {"admin", "who", "friend", "inside", "remove"} \cup Entering \cup Creating \cup Quitting
           => c \in ChatIds /\ status[c] = "valid"
      /\ s \in {"who", "friend", "inside", "remove"} \cup Entering /\ j.op # "quit" => admin[c] = j.me
      /\ s \in {"friend", "inside", "remove"} \cup Entering /\ j.op # "quit"
           => j.who \in valid /\ j.who # j.me
      /\ s \in {"inside"} \cup Entering /\ j.op = "add" => ExistFriendly(j.who, j.me)
      /\ s \in Entering => j.who \notin Members(c)
      /\ s = "remove" => j.who \in Members(c)
      /\ s \in Creating \cup {"first", "handover"} => admin[c] = j.me
      /\ s = "enter_me" => Members(c) = {}
      /\ s = "enter_who" => Members(c) = {j.me}
      /\ s \in Quitting => j.me \notin Members(c)
      /\ s \in {"am_admin", "first", "handover"} => Members(c) # {}
      /\ s = "handover" => j.first \in Members(c)
      /\ s = "close" => Members(c) = {}

Facts(w) == FactsAt(w, job[w].at)

\* An id AUTO_INCREMENT has not handed out is in no row.
UnusedIsEmpty == \A c \in ChatIds : status[c] = "none" => admin[c] = NoUser /\ Members(c) = {}

\* Until the first fault the server is up, and what its requests know is so.
ApartInv == faults = 0 => up /\ UnusedIsEmpty /\ \A w \in Workers : Facts(w)

-----------------------------------------------------------------------------
(* The request at hand.                                                    *)

\* A request that has been answered knows nothing.
LEMMA RestingFacts ==
  ASSUME NEW w, job'[w].at \in Resting
  PROVE  Facts(w)'
BY DEF Facts, FactsAt, Resting, Creating, Entering, Quitting

\* A reader goes on at a statement that knows no more than it has found.
LEMMA FactsGoOn ==
  ASSUME TypeOK, NEW w \in Workers, NEW s, FactsAt(w, s), UNCHANGED tables, Goto(w, s)
  PROVE  Facts(w)'
<1>1. job'[w].at = s /\ job \in [Workers -> Job]
  BY GotoFields DEF TypeOK
<1>2. CASE s \in Resting
  BY <1>1, <1>2, RestingFacts
<1>3. CASE s \notin Resting
  <2>1. /\ job'[w].op = job[w].op /\ job'[w].me = job[w].me /\ job'[w].who = job[w].who
        /\ job'[w].chat = job[w].chat /\ job'[w].first = job[w].first
    BY <1>1, <1>3, GotoFields
  <2>2. UNCHANGED <<valid, status, admin, live>>
    BY DEF tables
  <2>3. \A c : Members(c)' = Members(c)
    BY <2>2 DEF Members
  <2> QED
    BY <1>1, <2>1, <2>2, <2>3 DEF Facts, FactsAt
<1> QED
  BY <1>2, <1>3

\* Where the query does not fail, a reader finds what is so.
LEMMA FactsRead ==
  ASSUME TypeOK, NEW w \in Workers, Facts(w), faults' = faults,
         \/ CheckPass(w) \/ CheckChat(w) \/ CheckAdmin(w) \/ LookUpTarget(w)
         \/ CheckFriend(w) \/ CheckInside(w) \/ CheckEntry(w) \/ CheckStillUsers(w)
         \/ QuitterIsAdmin(w)
  PROVE  Facts(w)' /\ UNCHANGED <<tables, up>>
<1> DEFINE j == job[w]
<1>0. faults \in Nat /\ j \in Job /\ valid \subseteq Users
  BY MaxFaultsAssumption DEF TypeOK, TablesTypeOK
<1>1. ASSUME NEW b, NEW r \in Answers(b), Observed(r)
      PROVE  (b => r = 1) /\ (~ b => r = 0) /\ UNCHANGED <<tables, up>>
  BY <1>0, <1>1 DEF Answers, Observed
<1>2. FactsAt(w, j.at)
  BY DEF Facts
<1>3. FactsAt(w, "error") /\ FactsAt(w, "ok")
  BY DEF FactsAt, Resting, Creating, Entering, Quitting
<1> USE DEF FactsAt, Resting, Creating, Entering, Quitting
<1>4. CASE CheckPass(w)
  <2>1. j.at = "pass" /\ UNCHANGED <<tables, up>>
        /\ (Goto(w, AfterLogin(j.op)) \/ Goto(w, "error"))
    BY <1>4 DEF CheckPass, At, Observed
  <2>2. FactsAt(w, AfterLogin(j.op))
    BY <1>2, <2>1 DEF AfterLogin, AllOps
  <2> QED
    BY <1>3, <2>1, <2>2, FactsGoOn
<1>5. CASE CheckChat(w)
  <2>1. PICK r \in Answers(ChatExist(j.chat)) :
          Observed(r) /\ Goto(w, IF r # 1 THEN "error"
                                 ELSE IF j.op = "quit" THEN "inside" ELSE "admin")
    BY <1>5 DEF CheckChat
  <2>2. j.at = "chat" /\ UNCHANGED <<tables, up>> /\ (r = 1 => status[j.chat] = "valid")
    <3>1. (ChatExist(j.chat) => r = 1) /\ (~ ChatExist(j.chat) => r = 0) /\ UNCHANGED <<tables, up>>
      BY <1>1, <2>1
    <3> QED
      BY <1>5, <3>1 DEF CheckChat, At, ChatExist
  <2>3. r = 1 => FactsAt(w, IF j.op = "quit" THEN "inside" ELSE "admin")
    BY <1>2, <2>2
  <2> QED
    BY <1>3, <2>1, <2>2, <2>3, FactsGoOn
<1>6. CASE CheckAdmin(w)
  <2>1. PICK r \in Answers(IsAdmin(j.me, j.chat)) :
          Observed(r) /\ Goto(w, IF r = 0 THEN "error" ELSE "who")
    BY <1>6 DEF CheckAdmin
  <2>2. j.at = "admin" /\ UNCHANGED <<tables, up>> /\ (r # 0 => admin[j.chat] = j.me)
    BY <1>1, <1>6, <2>1 DEF CheckAdmin, At, IsAdmin
  <2>3. r # 0 => FactsAt(w, "who")
    BY <1>2, <2>2
  <2> QED
    BY <1>3, <2>1, <2>2, <2>3, FactsGoOn
<1>7. CASE LookUpTarget(w)
  <2>1. PICK r \in Answers(GetUserId(j.who) # NoUser) :
          Observed(r) /\ Goto(w, IF r # 1 \/ j.who = j.me THEN "error"
                                 ELSE IF j.op = "add" THEN "friend" ELSE "inside")
    BY <1>7 DEF LookUpTarget
  <2>2. j.at = "who" /\ UNCHANGED <<tables, up>> /\ (r = 1 => j.who \in valid)
    <3>1. /\ (GetUserId(j.who) # NoUser => r = 1) /\ (~ (GetUserId(j.who) # NoUser) => r = 0)
          /\ UNCHANGED <<tables, up>>
      BY <1>1, <2>1
    <3> QED
      BY <1>7, <3>1 DEF LookUpTarget, At, GetUserId
  <2>3. r = 1 /\ j.who # j.me => FactsAt(w, IF j.op = "add" THEN "friend" ELSE "inside")
    BY <1>2, <2>2
  <2> QED
    BY <1>3, <2>1, <2>2, <2>3, FactsGoOn
<1>8. CASE CheckFriend(w)
  <2>1. PICK r \in Answers(ExistFriendly(j.who, j.me)) :
          Observed(r) /\ Goto(w, IF r # 1 THEN "error" ELSE "inside")
    BY <1>8 DEF CheckFriend
  <2>2. j.at = "friend" /\ UNCHANGED <<tables, up>> /\ (r = 1 => ExistFriendly(j.who, j.me))
    <3>1. (ExistFriendly(j.who, j.me) => r = 1) /\ (~ ExistFriendly(j.who, j.me) => r = 0)
          /\ UNCHANGED <<tables, up>>
      BY <1>1, <2>1
    <3> QED
      BY <1>8, <3>1 DEF CheckFriend, At
  <2>3. r = 1 => FactsAt(w, "inside")
    BY <1>2, <2>2
  <2> QED
    BY <1>3, <2>1, <2>2, <2>3, FactsGoOn
<1>9. CASE CheckInside(w)
  <2>1. PICK r \in Answers(ExistUserInChat(j.who, j.chat)) :
          Observed(r) /\ Goto(w, IF Refused(j.op, r) THEN "error"
                                 ELSE IF j.op = "add" THEN "entry" ELSE "remove")
    BY <1>9 DEF CheckInside
  <2>2. /\ j.at = "inside" /\ UNCHANGED <<tables, up>>
        /\ (ExistUserInChat(j.who, j.chat) => r = 1) /\ (~ ExistUserInChat(j.who, j.chat) => r = 0)
    BY <1>1, <1>9, <2>1 DEF CheckInside, At
  <2>3. j.op \in {"add", "remove", "quit"} /\ j.who \in Users /\ j.chat \in ChatIds
    BY <1>0, <1>2, <2>2
  <2>4. ExistUserInChat(j.who, j.chat) <=> j.who \in Members(j.chat)
    BY <2>3 DEF ExistUserInChat, Members
  <2>5. ~ Refused(j.op, r) => FactsAt(w, IF j.op = "add" THEN "entry" ELSE "remove")
    BY <1>2, <2>2, <2>3, <2>4 DEF Refused
  <2> QED
    BY <1>3, <2>1, <2>2, <2>5, FactsGoOn
<1>10. CASE CheckEntry(w)
  <2>1. PICK r : Observed(r) /\ Goto(w, IF r = 1 THEN "recover" ELSE "insert")
    BY <1>10 DEF CheckEntry
  <2>2. j.at = "entry" /\ UNCHANGED <<tables, up>>
    BY <1>10, <2>1 DEF CheckEntry, At, Observed
  <2>3. FactsAt(w, "recover") /\ FactsAt(w, "insert")
    BY <1>2, <2>2
  <2> QED
    BY <2>1, <2>2, <2>3, FactsGoOn
<1>11. CASE CheckStillUsers(w)
  <2>1. PICK r \in Answers(StillUsersInChat(j.chat)) :
          Observed(r) /\ Goto(w, IF r = 1 THEN "am_admin" ELSE "close")
    BY <1>11 DEF CheckStillUsers
  <2>2. j.at = "still" /\ UNCHANGED <<tables, up>> /\ (r = 1 <=> Members(j.chat) # {})
    <3>1. (StillUsersInChat(j.chat) => r = 1) /\ (~ StillUsersInChat(j.chat) => r = 0)
          /\ UNCHANGED <<tables, up>>
      BY <1>1, <2>1
    <3> QED
      BY <1>11, <3>1 DEF CheckStillUsers, At, StillUsersInChat
  <2>3. FactsAt(w, IF r = 1 THEN "am_admin" ELSE "close")
    BY <1>2, <2>2
  <2> QED
    BY <2>1, <2>2, <2>3, FactsGoOn
<1>12. CASE QuitterIsAdmin(w)
  <2>1. PICK r \in Answers(IsAdmin(j.me, j.chat)) :
          Observed(r) /\ Goto(w, IF r = 1 THEN "first" ELSE "ok")
    BY <1>12 DEF QuitterIsAdmin
  <2>2. j.at = "am_admin" /\ UNCHANGED <<tables, up>> /\ (r = 1 => admin[j.chat] = j.me)
    <3>1. (IsAdmin(j.me, j.chat) => r = 1) /\ (~ IsAdmin(j.me, j.chat) => r = 0)
          /\ UNCHANGED <<tables, up>>
      BY <1>1, <2>1
    <3> QED
      BY <1>12, <3>1 DEF QuitterIsAdmin, At, IsAdmin
  <2>3. r = 1 => FactsAt(w, "first")
    BY <1>2, <2>2
  <2> QED
    BY <1>3, <2>1, <2>2, <2>3, FactsGoOn
<1> QED
  BY <1>4, <1>5, <1>6, <1>7, <1>8, <1>9, <1>10, <1>11, <1>12

\* So does a writer, and a statement that takes an id or a name in.
LEMMA FactsWrite ==
  ASSUME TypeOK, UnusedIsEmpty, NEW w \in Workers, Facts(w), faults' = faults,
         \/ LookUpMember(w) \/ InsertChat(w) \/ EnterCreator(w) \/ UndoChat(w)
         \/ EnterMember(w) \/ RecoverMember(w) \/ InsertMember(w) \/ RemoveMember(w)
         \/ GetFirstUser(w) \/ HandOver(w) \/ CloseChat(w) \/ Invalidate(w) \/ LeaveAll(w)
  PROVE  Facts(w)' /\ UNCHANGED up
<1> DEFINE j == job[w]
<1>0. /\ TablesTypeOK /\ job \in [Workers -> Job] /\ j \in Job /\ j \in Job
      /\ valid \subseteq Users /\ faults \in Nat
  BY MaxFaultsAssumption DEF TypeOK, TablesTypeOK
<1>1. FactsAt(w, j.at)
  BY DEF Facts
<1>2. ASSUME NEW s \in Resting, Goto(w, s) PROVE Facts(w)'
  BY <1>0, <1>2, GotoFields, RestingFacts
<1>3. ASSUME NEW Effect, NEW good, NEW bad, Attempt(w, Effect, good, bad)
      PROVE  Effect /\ Goto(w, good) /\ UNCHANGED up
  BY <1>0, <1>3 DEF Attempt
<1>4. CASE LookUpMember(w)
  <2>1. PICK r \in Answers(GetUserId(j.who) # NoUser) :
          /\ Observed(r)
          /\ job' = [job EXCEPT ![w].at = "new_chat", ![w].who = IF r = 1 THEN @ ELSE NoUser]
    BY <1>4 DEF LookUpMember
  <2>2. UNCHANGED <<tables, up>> /\ j.at = "member"
    BY <1>4, <2>1 DEF LookUpMember, Observed, At
  <2>3. r = 1 => GetUserId(j.who) # NoUser
    BY <1>0, <2>1 DEF Answers, Observed
  <2>4. /\ job'[w].at = "new_chat" /\ job'[w].me = j.me
        /\ (job'[w].who = j.who /\ r = 1) \/ job'[w].who = NoUser
    BY <1>0, <2>1 DEF Job
  <2>5. job'[w].who \in valid \cup {NoUser} /\ j.me \in valid
    BY <1>1, <2>2, <2>3, <2>4 DEF GetUserId, FactsAt, Resting
  <2> QED
    BY <2>2, <2>4, <2>5 DEF tables, Facts, FactsAt, Resting, Creating, Entering, Quitting
<1>5. CASE InsertChat(w)
  <2>1. PICK c \in ChatIds :
          /\ AddChat(j.me, c) /\ UNCHANGED up /\ j.at = "new_chat"
          /\ job' = [job EXCEPT ![w].at = "enter_me", ![w].chat = c]
    BY <1>0, <1>5 DEF InsertChat, At
  <2>2. /\ job'[w].at = "enter_me" /\ job'[w].chat = c
        /\ job'[w].me = j.me /\ job'[w].who = j.who
    BY <1>0, <2>1 DEF Job
  <2>3. status'[c] = "valid" /\ admin'[c] = j.me /\ UNCHANGED <<valid, live>>
    BY <1>0, <2>1 DEF AddChat, TablesTypeOK
  <2>4. \A d \in ChatIds : d = c => Members(d)' = {}
    BY <2>1, <2>3 DEF AddChat, Members, UnusedIsEmpty
  <2>5. j.me \in valid /\ j.who \in valid \cup {NoUser}
    BY <1>1, <2>1 DEF FactsAt, Resting
  <2>6. Facts(w)'
    BY <2>2, <2>3, <2>4, <2>5 DEF Facts, FactsAt, Resting, Creating, Entering, Quitting
  <2> QED
    BY <2>1, <2>6
<1>6. CASE EnterCreator(w)
  <2>1. j.at = "enter_me" /\ AddUserChat(j.me, j.chat) /\ Goto(w, "enter_who") /\ UNCHANGED up
    BY <1>3, <1>6 DEF EnterCreator, At
  <2>2. /\ j.me \in valid /\ j.chat \in ChatIds /\ status[j.chat] = "valid"
        /\ j.who \in valid \cup {NoUser} /\ admin[j.chat] = j.me /\ Members(j.chat) = {}
    BY <1>1, <2>1 DEF FactsAt, Resting, Creating
  <2>3. UNCHANGED <<valid, status, admin>>
        /\ \A d \in ChatIds : d = j.chat => Members(d)' = {j.me}
    <3>1. j.me \in Users /\ AddUserChat(j.me, j.chat)
      BY <1>0, <2>1, <2>2
    <3>2. \A d \in ChatIds : Members(d)' = IF d = j.chat THEN Members(d) \cup {j.me} ELSE Members(d)
      BY <1>0, <2>2, <3>1, MembersMove
    <3> QED
      BY <2>1, <2>2, <3>2 DEF AddUserChat
  <2>4. /\ job'[w].at = "enter_who" /\ job'[w].chat = j.chat
        /\ job'[w].me = j.me /\ job'[w].who = j.who
    BY <1>0, <2>1, GotoFields DEF Resting
  <2> QED
    BY <2>1, <2>2, <2>3, <2>4 DEF Facts, FactsAt, Resting, Creating, Entering, Quitting
<1>7. CASE UndoChat(w)
  BY <1>1, <1>7 DEF UndoChat, At, FactsAt
<1>8. CASE RemoveMember(w)
  <2>1. /\ j.at = "remove" /\ DelUserChat(j.who, j.chat) /\ UNCHANGED up
        /\ Goto(w, IF j.op = "quit" THEN "still" ELSE "ok")
    BY <1>3, <1>8 DEF RemoveMember, At
  <2>2. CASE j.op # "quit"
    BY <1>2, <2>1, <2>2 DEF Resting
  <2>3. CASE j.op = "quit"
    <3>1. /\ j.me \in valid /\ j.chat \in ChatIds /\ status[j.chat] = "valid" /\ j.who = j.me
      BY <1>1, <2>1, <2>3 DEF FactsAt, Resting
    <3>2. UNCHANGED <<valid, status, admin>>
          /\ \A d \in ChatIds : d = j.chat => Members(d)' = Members(d) \ {j.me}
      BY <1>0, <2>1, <3>1, MembersMove DEF DelUserChat
    <3>3. job'[w].at = "still" /\ job'[w].chat = j.chat /\ job'[w].me = j.me
      BY <1>0, <2>1, <2>3, GotoFields DEF Resting
    <3> QED
      BY <2>1, <3>1, <3>2, <3>3 DEF Facts, FactsAt, Resting, Creating, Entering, Quitting
  <2> QED
    BY <2>1, <2>2, <2>3
<1>9. CASE GetFirstUser(w)
  <2>1. /\ j.at = "first" /\ j.me \in valid /\ j.chat \in ChatIds /\ status[j.chat] = "valid"
        /\ admin[j.chat] = j.me /\ j.me \notin Members(j.chat) /\ Members(j.chat) # {}
    BY <1>1, <1>9 DEF GetFirstUser, At, FactsAt, Resting, Quitting
  <2>2. PICK u \in Members(j.chat) :
          /\ job' = [job EXCEPT ![w].at = "handover", ![w].first = u]
          /\ UNCHANGED <<tables, up>>
    BY <1>0, <1>9, <2>1 DEF GetFirstUser
  <2>3. /\ job'[w].at = "handover" /\ job'[w].first = u
        /\ job'[w].me = j.me /\ job'[w].chat = j.chat
    BY <1>0, <2>2 DEF Job
  <2>4. UNCHANGED <<valid, status, admin, live>>
    BY <2>2 DEF tables
  <2>5. \A d : Members(d)' = Members(d)
    BY <2>4 DEF Members
  <2>6. Facts(w)'
    BY <2>1, <2>3, <2>4, <2>5 DEF Facts, FactsAt, Resting, Creating, Entering, Quitting
  <2> QED
    BY <2>2, <2>6
<1>10. CASE Invalidate(w)
  <2>1. j.at = "invalidate" /\ DelUser(j.me) /\ Goto(w, "leave_all") /\ UNCHANGED up
    BY <1>3, <1>10 DEF Invalidate, At
  <2>2. job'[w].at = "leave_all" /\ job'[w].op = "unregister"
    BY <1>0, <1>1, <2>1, GotoFields DEF FactsAt, Resting
  <2> QED
    BY <2>1, <2>2 DEF Facts, FactsAt, Resting, Creating, Entering, Quitting
<1>11. CASE \/ EnterMember(w) \/ RecoverMember(w) \/ InsertMember(w)
            \/ HandOver(w) \/ CloseChat(w) \/ LeaveAll(w)
  <2>1. CASE EnterMember(w)
    BY <1>2, <1>3, <2>1 DEF EnterMember, Resting
  <2>2. CASE HandOver(w)
    BY <1>2, <1>3, <2>2 DEF HandOver, Resting
  <2>3. CASE RecoverMember(w) \/ InsertMember(w) \/ CloseChat(w) \/ LeaveAll(w)
    BY <1>2, <1>3, <2>3 DEF RecoverMember, InsertMember, CloseChat, LeaveAll, Resting
  <2> QED
    BY <1>11, <2>1, <2>2, <2>3
<1> QED
  BY <1>4, <1>5, <1>6, <1>7, <1>8, <1>9, <1>10, <1>11

-----------------------------------------------------------------------------
(* The others.                                                             *)

\* What a statement may change: rows of the chat it names, or of a new one.
LEMMA OtherRows ==
  ASSUME TypeOK, NEW w \in Workers, Step(w), ~ Invalidate(w), ~ LeaveAll(w),
         NEW c \in ChatIds, c # job[w].chat, c # job'[w].chat \/ job'[w].at \in Resting
  PROVE  /\ UNCHANGED valid /\ status'[c] = status[c] /\ admin'[c] = admin[c]
         /\ Members(c)' = Members(c)
<1>0. TablesTypeOK /\ job \in [Workers -> Job] /\ job[w] \in Job
  BY DEF TypeOK
<1>1. CASE InsertChat(w)
  <2>1. CASE UNCHANGED tables
    BY <2>1, TablesElsewhere
  <2>2. ASSUME NEW d \in ChatIds, AddChat(job[w].me, d),
               job' = [job EXCEPT ![w].at = "enter_me", ![w].chat = d]
        PROVE  /\ UNCHANGED valid /\ status'[c] = status[c] /\ admin'[c] = admin[c]
               /\ Members(c)' = Members(c)
    <3>1. job'[w].at = "enter_me" /\ job'[w].chat = d
      BY <1>0, <2>2 DEF Job
    <3> QED
      BY <1>0, <2>2, <3>1, RowsElsewhere DEF Resting
  <2> QED
    BY <1>1, <2>1, <2>2 DEF InsertChat
<1>2. CASE ~ InsertChat(w)
  BY <1>2, StepElsewhere DEF Elsewhere
<1> QED
  BY <1>1, <1>2

\* A step of one request leaves the others where they are.
LEMMA OtherJobs ==
  ASSUME TypeOK, NEW w \in Workers, Request(w) \/ Step(w), up',
         NEW v \in Workers, v # w
  PROVE  job'[v] = job[v]
<1>0. job \in [Workers -> Job]
  BY DEF TypeOK
<1>1. ASSUME NEW s, Goto(w, s) PROVE job'[v] = job[v]
  BY <1>0, <1>1 DEF Goto
<1>2. CASE Request(w)
  BY <1>0, <1>2, RequestArrives DEF Arrives
<1>3. CASE \/ CheckChat(w) \/ CheckAdmin(w) \/ LookUpTarget(w)
           \/ CheckFriend(w) \/ CheckInside(w) \/ CheckEntry(w) \/ CheckStillUsers(w)
           \/ QuitterIsAdmin(w) \/ CheckPass(w)
  BY <1>1, <1>3 DEF CheckPass, CheckChat, CheckAdmin, LookUpTarget, CheckFriend, CheckInside,
     CheckEntry, CheckStillUsers, QuitterIsAdmin
<1>4. CASE \/ EnterCreator(w) \/ UndoChat(w) \/ EnterMember(w) \/ RecoverMember(w)
           \/ InsertMember(w) \/ RemoveMember(w) \/ HandOver(w) \/ CloseChat(w)
           \/ Invalidate(w) \/ LeaveAll(w)
  BY <1>1, <1>4 DEF EnterCreator, UndoChat, EnterMember, RecoverMember,
     InsertMember, RemoveMember, HandOver, CloseChat, Invalidate, LeaveAll, Attempt
<1>5. CASE LookUpMember(w)
  BY <1>0, <1>5 DEF LookUpMember
<1>6. CASE InsertChat(w)
  BY <1>0, <1>1, <1>6 DEF InsertChat
<1>7. CASE GetFirstUser(w)
  BY <1>0, <1>7 DEF GetFirstUser
<1> QED
  BY <1>2, <1>3, <1>4, <1>5, <1>6, <1>7 DEF Step

\* A request that is apart from the one at work is not disturbed by it.
LEMMA OthersUndisturbed ==
  ASSUME TypeOK, NEW w \in Workers, NEW v \in Workers, v # w, Step(w), up',
         job[w].at \notin Resting, Facts(w), Facts(v), ChatsApart, ChatsApart'
  PROVE  Facts(v)'
<1>1. job'[v] = job[v]
  BY OtherJobs
<1>2. CASE job[v].at \in Resting
  BY <1>1, <1>2, RestingFacts
<1>3. CASE job[v].at \notin Resting
  <2>1. /\ job[w].op # "unregister"
        /\ job[v].chat \in ChatIds => job[v].chat # job[w].chat
    BY <1>3 DEF ChatsApart
  <2>2. ~ Invalidate(w) /\ ~ LeaveAll(w)
    BY <2>1 DEF Invalidate, LeaveAll, At, Facts, FactsAt
  <2>3. job[v].chat \in ChatIds => job[v].chat # job'[w].chat \/ job'[w].at \in Resting
    BY <1>1, <1>3 DEF ChatsApart
  <2>4. \A c \in ChatIds :
          c = job[v].chat => /\ status'[c] = status[c] /\ admin'[c] = admin[c]
                             /\ Members(c)' = Members(c)
    BY <2>1, <2>2, <2>3, OtherRows
  <2>5. UNCHANGED valid
    BY <2>2, OneValid
  <2> QED
    BY <1>1, <2>4, <2>5 DEF Facts, FactsAt, Creating, Entering, Quitting, ExistFriendly
<1> QED
  BY <1>2, <1>3

\* A step without a fault leaves the server up and tells its request the truth.
LEMMA FactsStep ==
  ASSUME TypeOK, UnusedIsEmpty, NEW w \in Workers, Facts(w), Step(w), faults' = faults, up
  PROVE  Facts(w)' /\ up'
BY FactsRead, FactsWrite DEF Step

\* No statement is about an id that no row has.
LEMMA UnusedKept ==
  ASSUME TypeOK, UnusedIsEmpty, NEW w \in Workers, Facts(w), Step(w), faults' = faults
  PROVE  UnusedIsEmpty'
<1> DEFINE j == job[w]
<1>0. TablesTypeOK /\ faults \in Nat /\ j \in Job
  BY MaxFaultsAssumption DEF TypeOK
<1> SUFFICES ASSUME NEW c \in ChatIds, status'[c] = "none"
             PROVE  admin'[c] = NoUser /\ Members(c)' = {}
  BY DEF UnusedIsEmpty
<1>1. ASSUME status'[c] = status[c], admin'[c] = admin[c], Members(c)' \subseteq Members(c)
      PROVE  admin'[c] = NoUser /\ Members(c)' = {}
  BY <1>1 DEF UnusedIsEmpty
<1>2. CASE UNCHANGED tables
  BY <1>1, <1>2, TablesElsewhere
<1>3. CASE Invalidate(w)
  <2>1. UNCHANGED <<status, admin, live>>
    BY <1>3 DEF Invalidate, Attempt, DelUser, tables
  <2> QED
    BY <1>1, <2>1 DEF Members
<1>4. CASE LeaveAll(w)
  <2>1. UNCHANGED tables \/ DelUserAllChats(j.me)
    BY <1>4 DEF LeaveAll, Attempt
  <2>2. DelUserAllChats(j.me) => /\ UNCHANGED <<status, admin>>
                                 /\ Members(c)' = Members(c) \ {j.me}
    BY <1>0, RowsHere DEF DelUserAllChats
  <2> QED
    BY <1>1, <1>2, <2>1, <2>2
<1>5. CASE InsertChat(w)
  <2>1. UNCHANGED tables \/ \E d \in ChatIds : AddChat(j.me, d)
    BY <1>5 DEF InsertChat
  <2>2. ASSUME NEW d \in ChatIds, AddChat(j.me, d)
        PROVE  admin'[c] = NoUser /\ Members(c)' = {}
    <3>1. c # d
      BY <1>0, <2>2 DEF AddChat, TablesTypeOK
    <3> QED
      BY <1>0, <1>1, <2>2, <3>1, RowsElsewhere
  <2> QED
    BY <1>2, <2>1, <2>2
<1>6. CASE ~ InsertChat(w) /\ ~ Invalidate(w) /\ ~ LeaveAll(w) /\ c # j.chat
  BY <1>1, <1>6, StepElsewhere DEF Elsewhere
<1>7. CASE /\ c = j.chat
           /\ \/ EnterCreator(w) \/ UndoChat(w) \/ EnterMember(w) \/ RecoverMember(w)
              \/ InsertMember(w) \/ RemoveMember(w) \/ HandOver(w) \/ CloseChat(w)
  <2>1. status[c] = "valid"
    BY <1>7 DEF Facts, FactsAt, At, EnterCreator, UndoChat, EnterMember, RecoverMember, InsertMember,
       RemoveMember, HandOver, CloseChat, Creating, Entering, Quitting
  <2>2. status'[c] = status[c] \/ status'[c] = "deleted"
    BY <1>0, <1>7 DEF EnterCreator, UndoChat, EnterMember, RecoverMember, InsertMember, RemoveMember,
       HandOver, CloseChat, Attempt, AddUserChat, RecoverUserChat, DelUserChat, ChangeAdmin,
       DelChat, tables, TablesTypeOK
  <2> QED
    BY <2>1, <2>2
<1>8. CASE \/ CheckPass(w) \/ CheckChat(w) \/ CheckAdmin(w) \/ LookUpTarget(w)
           \/ CheckFriend(w) \/ CheckInside(w) \/ CheckEntry(w) \/ CheckStillUsers(w)
           \/ QuitterIsAdmin(w) \/ LookUpMember(w) \/ GetFirstUser(w)
  BY <1>2, <1>8 DEF CheckPass, CheckChat, CheckAdmin, LookUpTarget, CheckFriend, CheckInside,
     CheckEntry, CheckStillUsers, QuitterIsAdmin, LookUpMember, GetFirstUser, Observed
<1> QED
  BY <1>3, <1>4, <1>5, <1>6, <1>7, <1>8 DEF Step

\* A request arrives and knows nothing but its sender.
LEMMA RequestFacts ==
  ASSUME TypeOK, NEW w \in Workers, Request(w)
  PROVE  /\ Facts(w)' /\ UNCHANGED <<tables, up, faults>>
         /\ job'[w].at = "pass" /\ job[w].at \in Resting
<1>1. job[w].at \in Resting /\ UNCHANGED <<tables, up, faults>> /\ job \in [Workers -> Job]
  BY DEF Request, TypeOK
<1>2. PICK op \in Ops, me \in valid, who \in Users \cup {NoUser}, chat \in ChatIds \cup {NoChat} :
        /\ Arrives(w, op, me, who, chat)
        /\ op = "quit" => who = me
        /\ op \in {"add", "remove", "quit"} => chat \in ChatIds
  BY RequestArrives
<1>3. /\ job'[w].at = "pass" /\ job'[w].op = op /\ job'[w].me = me
      /\ job'[w].who = who /\ job'[w].chat = chat
  BY <1>1, <1>2 DEF Arrives
<1>4. op \in AllOps
  BY OpsAssumption
<1>5. UNCHANGED valid
  BY <1>1 DEF tables
<1>6. Facts(w)'
  BY <1>2, <1>3, <1>4, <1>5 DEF Facts, FactsAt, Resting, Creating, Entering, Quitting
<1> QED
  BY <1>1, <1>3, <1>6

\* Where the tables and a request stay as they are, so does what it knows.
LEMMA FactsStay ==
  ASSUME NEW v, Facts(v), UNCHANGED tables, job'[v] = job[v]
  PROVE  Facts(v)'
<1>1. UNCHANGED <<valid, status, admin, live>>
  BY DEF tables
<1>2. \A c : Members(c)' = Members(c)
  BY <1>1 DEF Members
<1> QED
  BY <1>1, <1>2 DEF Facts, FactsAt

\* ApartInv is inductive as long as the requests keep apart.
LEMMA ApartInductive ==
  ASSUME TypeOK, ApartInv, ChatsApart, ChatsApart', [Next]_vars
  PROVE  ApartInv'
<1> SUFFICES ASSUME faults' = 0 PROVE up' /\ UnusedIsEmpty' /\ \A v \in Workers : Facts(v)'
  BY DEF ApartInv
<1>0. faults \in Nat
  BY MaxFaultsAssumption DEF TypeOK
<1>1. CASE UNCHANGED vars
  <2>1. faults = 0 /\ UNCHANGED tables /\ UNCHANGED <<job, up>>
    BY <1>1 DEF vars, tables
  <2>2. UnusedIsEmpty'
    BY <2>1 DEF ApartInv, UnusedIsEmpty, tables, Members
  <2> QED
    BY <2>1, <2>2, FactsStay DEF ApartInv
<1>2. CASE Kill
  BY <1>0, <1>2 DEF Kill
<1>3. CASE Restart
  BY <1>0, <1>3 DEF Restart, ApartInv
<1>4. ASSUME NEW w \in Workers, Request(w)
      PROVE  up' /\ UnusedIsEmpty' /\ \A v \in Workers : Facts(v)'
  <2>1. Facts(w)' /\ UNCHANGED <<tables, up, faults>>
    BY <1>4, RequestFacts
  <2>2. up /\ UnusedIsEmpty /\ \A v \in Workers : Facts(v)
    BY <2>1 DEF ApartInv
  <2>3. ASSUME NEW v \in Workers, v # w PROVE Facts(v)'
    <3>1. job'[v] = job[v]
      BY <1>4, <2>1, <2>2, <2>3, OtherJobs
    <3> QED
      BY <2>1, <2>2, <3>1, FactsStay
  <2>4. UnusedIsEmpty'
    BY <2>1, <2>2 DEF UnusedIsEmpty, tables, Members
  <2> QED
    BY <2>1, <2>2, <2>3, <2>4
<1>5. ASSUME NEW w \in Workers, Step(w)
      PROVE  up' /\ UnusedIsEmpty' /\ \A v \in Workers : Facts(v)'
  <2>1. faults' = faults /\ faults = 0
    BY <1>0, <1>5, FaultsCounted
  <2>2. up /\ UnusedIsEmpty /\ \A v \in Workers : Facts(v)
    BY <2>1 DEF ApartInv
  <2>3. Facts(w)' /\ up'
    BY <1>5, <2>1, <2>2, FactsStep
  <2>4. UnusedIsEmpty'
    BY <1>5, <2>1, <2>2, UnusedKept
  <2>5. job[w].at \notin Resting
    BY <1>5 DEF Step, At, Resting, CheckPass, CheckChat, CheckAdmin, LookUpTarget, CheckFriend,
       CheckInside, CheckEntry, CheckStillUsers, QuitterIsAdmin, LookUpMember, GetFirstUser,
       InsertChat, EnterCreator, UndoChat, EnterMember, RecoverMember, InsertMember,
       RemoveMember, HandOver, CloseChat, Invalidate, LeaveAll
  <2>6. ASSUME NEW v \in Workers, v # w PROVE Facts(v)'
    BY <1>5, <2>2, <2>3, <2>5, <2>6, OthersUndisturbed
  <2> QED
    BY <2>3, <2>4, <2>6
<1> QED
  BY <1>1, <1>2, <1>3, <1>4, <1>5 DEF Next

-----------------------------------------------------------------------------
(* What clients see.                                                       *)

\* No other request than that of w is creating or quitting chat c.
Alone(w, c) ==
  \A v \in Workers : v # w /\ job[v].at \in Creating \cup Quitting => job[v].chat # c

\* Chat c as clients see it, where only the request of w may hide what it does.
HeldBack(w, c) == job[w].at \in Creating /\ job[w].chat = c
ViewStatus(w, c) == IF HeldBack(w, c) THEN "none" ELSE status[c]
ViewAdmin(w, c) == IF HeldBack(w, c) THEN NoUser ELSE admin[c]
ViewMembers(w, c) ==
  IF HeldBack(w, c) THEN {}
  ELSE Members(c) \cup (IF job[w].at \in Quitting /\ job[w].chat = c THEN {job[w].me} ELSE {})

\* A chat that one request is about looks as that request makes it look.
LEMMA AloneSeen ==
  ASSUME NEW w \in Workers, NEW c \in ChatIds, Alone(w, c), Gone = {}
  PROVE  /\ SeenStatus[c] = ViewStatus(w, c)
         /\ SeenAdmin[c] = ViewAdmin(w, c)
         /\ SeenMembers[c] = ViewMembers(w, c)
<1>1. Unfinished(c) <=> HeldBack(w, c)
  BY DEF Unfinished, HeldBack, Alone, Creating
<1>2. Quitters(c) = IF job[w].at \in Quitting /\ job[w].chat = c THEN {job[w].me} ELSE {}
  BY DEF Quitters, Alone
<1> QED
  BY <1>1, <1>2 DEF SeenStatus, SeenAdmin, SeenMembers, ViewStatus, ViewAdmin, ViewMembers

\* The same of the next state.
LEMMA AloneSeenNext ==
  ASSUME NEW w \in Workers, NEW c \in ChatIds, Alone(w, c)', Gone' = {}
  PROVE  /\ SeenStatus'[c] = ViewStatus(w, c)'
         /\ SeenAdmin'[c] = ViewAdmin(w, c)'
         /\ SeenMembers'[c] = ViewMembers(w, c)'
<1>1. Unfinished(c)' <=> HeldBack(w, c)'
  BY DEF Unfinished, HeldBack, Alone, Creating
<1>2. Quitters(c)' = IF job'[w].at \in Quitting /\ job'[w].chat = c THEN {job'[w].me} ELSE {}
  BY DEF Quitters, Alone
<1> QED
  BY <1>1, <1>2 DEF SeenStatus, SeenAdmin, SeenMembers, ViewStatus, ViewAdmin, ViewMembers

\* A chat the request at hand is not about looks as it did.
LEMMA SeenElsewhere ==
  ASSUME NEW w \in Workers, NEW c \in ChatIds, Gone = {}, Gone' = {},
         \A v \in Workers : v # w => job'[v] = job[v],
         job[w].at \in Creating \cup Quitting => job[w].chat # c,
         job'[w].at \in Creating \cup Quitting => job'[w].chat # c,
         status'[c] = status[c], admin'[c] = admin[c], Members(c)' = Members(c)
  PROVE  /\ SeenStatus'[c] = SeenStatus[c]
         /\ SeenAdmin'[c] = SeenAdmin[c]
         /\ SeenMembers'[c] = SeenMembers[c]
<1>1. Unfinished(c)' <=> Unfinished(c)
  BY DEF Unfinished, Creating
<1>2. Quitters(c)' = Quitters(c)
  BY DEF Quitters
<1> QED
  BY <1>1, <1>2 DEF SeenStatus, SeenAdmin, SeenMembers

\* The views of the chats are functions on their ids.
LEMMA SeenFunctions ==
  /\ SeenStatus = [c \in ChatIds |-> SeenStatus[c]]
  /\ SeenAdmin = [c \in ChatIds |-> SeenAdmin[c]]
  /\ SeenMembers = [c \in ChatIds |-> SeenMembers[c]]
  /\ SeenStatus' = [c \in ChatIds |-> SeenStatus'[c]]
  /\ SeenAdmin' = [c \in ChatIds |-> SeenAdmin'[c]]
  /\ SeenMembers' = [c \in ChatIds |-> SeenMembers'[c]]
BY DEF SeenStatus, SeenAdmin, SeenMembers

\* Who has found somebody to serve does not see anybody unregister.
LEMMA NobodyGone ==
  ASSUME NEW w \in Workers, ChatsApart, \A v \in Workers : Facts(v),
         job[w].at \notin Resting \cup {"leave_all"}, job'[w].at # "leave_all",
         \A v \in Workers : v # w => job'[v] = job[v]
  PROVE  Gone = {} /\ Gone' = {}
<1>1. ASSUME NEW v \in Workers, v # w PROVE job[v].at # "leave_all" /\ job'[v].at # "leave_all"
  BY <1>1 DEF ChatsApart, Facts, FactsAt, Resting
<1> QED
  BY <1>1 DEF Gone

\* What a statement about the chat at hand shows of it, and of the others.
LEMMA StepSeen ==
  ASSUME TypeOK, NEW w \in Workers, ChatsApart, \A v \in Workers : Facts(v), Step(w), up',
         ~ InsertChat(w), ~ Invalidate(w), ~ LeaveAll(w),
         job[w].at \notin Resting \cup {"leave_all"}, job'[w].at # "leave_all",
         NEW c \in ChatIds, c = job[w].chat
  PROVE  /\ UNCHANGED valid
         /\ \A d \in ChatIds : d # c => /\ SeenStatus'[d] = SeenStatus[d]
                                        /\ SeenAdmin'[d] = SeenAdmin[d]
                                        /\ SeenMembers'[d] = SeenMembers[d]
         /\ SeenStatus[c] = ViewStatus(w, c) /\ SeenStatus'[c] = ViewStatus(w, c)'
         /\ SeenAdmin[c] = ViewAdmin(w, c) /\ SeenAdmin'[c] = ViewAdmin(w, c)'
         /\ SeenMembers[c] = ViewMembers(w, c) /\ SeenMembers'[c] = ViewMembers(w, c)'
<1>1. \A v \in Workers : v # w => job'[v] = job[v]
  BY OtherJobs
<1>2. Gone = {} /\ Gone' = {}
  BY <1>1, NobodyGone
<1>3. UNCHANGED valid
  BY OneValid
<1>4. ASSUME NEW d \in ChatIds, d # c
      PROVE  /\ SeenStatus'[d] = SeenStatus[d]
             /\ SeenAdmin'[d] = SeenAdmin[d]
             /\ SeenMembers'[d] = SeenMembers[d]
  <2>1. Elsewhere(w, d)
    BY <1>4, StepElsewhere
  <2>2. job'[w].at \in Creating \cup Quitting => job'[w].chat # d
    BY <2>1 DEF Elsewhere, Creating, Quitting, Resting
  <2> QED
    BY <1>1, <1>2, <1>4, <2>1, <2>2, SeenElsewhere DEF Elsewhere
<1>5. Alone(w, c)
  <2>1. ASSUME NEW v \in Workers, v # w, job[v].at \in Creating \cup Quitting
        PROVE  job[v].chat # c
    BY <2>1 DEF ChatsApart, Resting, Creating, Quitting
  <2> QED
    BY <2>1 DEF Alone
<1>6. Alone(w, c)'
  BY <1>1, <1>5 DEF Alone
<1>7. /\ SeenStatus[c] = ViewStatus(w, c)
      /\ SeenAdmin[c] = ViewAdmin(w, c)
      /\ SeenMembers[c] = ViewMembers(w, c)
  BY <1>2, <1>5, AloneSeen
<1>8. /\ SeenStatus'[c] = ViewStatus(w, c)'
      /\ SeenAdmin'[c] = ViewAdmin(w, c)'
      /\ SeenMembers'[c] = ViewMembers(w, c)'
  BY <1>2, <1>6, AloneSeenNext
<1> QED
  BY <1>3, <1>4, <1>7, <1>8

\* A statement that shows nothing of the chat at hand is a stutter.
LEMMA NothingSeen ==
  ASSUME NEW c, UNCHANGED valid,
         \A d \in ChatIds : d # c => /\ SeenStatus'[d] = SeenStatus[d]
                                     /\ SeenAdmin'[d] = SeenAdmin[d]
                                     /\ SeenMembers'[d] = SeenMembers[d],
         c \in ChatIds => /\ SeenStatus'[c] = SeenStatus[c]
                          /\ SeenAdmin'[c] = SeenAdmin[c]
                          /\ SeenMembers'[c] = SeenMembers[c]
  PROVE  UNCHANGED Atomic!vars
<1>1. \A d \in ChatIds : /\ SeenStatus'[d] = SeenStatus[d]
                         /\ SeenAdmin'[d] = SeenAdmin[d]
                         /\ SeenMembers'[d] = SeenMembers[d]
  OBVIOUS
<1>2. SeenStatus' = SeenStatus
  BY <1>1 DEF SeenStatus
<1>3. SeenAdmin' = SeenAdmin
  BY <1>1 DEF SeenAdmin
<1>4. SeenMembers' = SeenMembers
  BY <1>1 DEF SeenMembers
<1> QED
  BY <1>2, <1>3, <1>4 DEF Atomic!vars

\* A statement that shows a change of one part of the chat at hand.
LEMMA RowSeen ==
  ASSUME NEW c \in ChatIds,
         \A d \in ChatIds : d # c => /\ SeenStatus'[d] = SeenStatus[d]
                                     /\ SeenAdmin'[d] = SeenAdmin[d]
                                     /\ SeenMembers'[d] = SeenMembers[d]
  PROVE  /\ SeenStatus' = [SeenStatus EXCEPT ![c] = SeenStatus'[c]]
         /\ SeenAdmin' = [SeenAdmin EXCEPT ![c] = SeenAdmin'[c]]
         /\ SeenMembers' = [SeenMembers EXCEPT ![c] = SeenMembers'[c]]
         /\ SeenStatus'[c] = SeenStatus[c] => SeenStatus' = SeenStatus
         /\ SeenAdmin'[c] = SeenAdmin[c] => SeenAdmin' = SeenAdmin
         /\ SeenMembers'[c] = SeenMembers[c] => SeenMembers' = SeenMembers
BY SeenFunctions, Zenon

-----------------------------------------------------------------------------
(* The statements.                                                         *)

\* Nothing is seen of a statement that asks and goes on to another one, before
\* the request has changed anything.
LEMMA AskingSeen ==
  ASSUME NEW w \in Workers, Gone = {}, Gone' = {}, UNCHANGED tables,
         \A v \in Workers : v # w => job'[v] = job[v],
         job[w].at \notin Creating \cup Quitting, job'[w].at \notin Creating \cup Quitting
  PROVE  UNCHANGED Atomic!vars
<1>1. UNCHANGED <<valid, status, admin>> /\ \A c : Members(c)' = Members(c)
  BY TablesElsewhere DEF tables
<1>2. \A c \in ChatIds : /\ SeenStatus'[c] = SeenStatus[c]
                         /\ SeenAdmin'[c] = SeenAdmin[c]
                         /\ SeenMembers'[c] = SeenMembers[c]
  BY <1>1, SeenElsewhere
<1> QED
  BY <1>1, <1>2, NothingSeen

\* The checks, and the look for the other member of a new chat.
LEMMA ChecksAreAtomic ==
  ASSUME TypeOK, NEW w \in Workers, ChatsApart, \A v \in Workers : Facts(v), up',
         \/ CheckPass(w) \/ CheckChat(w) \/ CheckAdmin(w) \/ LookUpTarget(w)
         \/ CheckFriend(w) \/ CheckInside(w) \/ CheckEntry(w) \/ LookUpMember(w)
  PROVE  UNCHANGED Atomic!vars
<1>0. job \in [Workers -> Job] /\ job[w] \in Job
  BY DEF TypeOK
<1>1. \A v \in Workers : v # w => job'[v] = job[v]
  BY OtherJobs DEF Step
<1>2. /\ UNCHANGED tables
      /\ job[w].at \in {"pass", "chat", "admin", "who", "friend", "inside", "entry", "member"}
  BY DEF At, CheckPass, CheckChat, CheckAdmin, LookUpTarget, CheckFriend, CheckInside,
     CheckEntry, LookUpMember, Observed
<1>3. job'[w].at \notin Creating \cup Quitting \cup {"leave_all"}
  <2>1. ASSUME NEW s, s \notin Creating \cup Quitting \cup {"leave_all"}, Goto(w, s)
        PROVE  job'[w].at \notin Creating \cup Quitting \cup {"leave_all"}
    BY <1>0, <2>1, GotoFields
  <2>2. CASE LookUpMember(w)
    <3>1. PICK x : job' = [job EXCEPT ![w].at = "new_chat", ![w].who = x]
      BY <2>2 DEF LookUpMember
    <3>2. job'[w].at = "new_chat"
      BY <1>0, <3>1 DEF Job
    <3> QED
      BY <3>2 DEF Creating, Quitting
  <2>3. CASE CheckPass(w)
    BY <2>1, <2>3 DEF CheckPass, AfterLogin, Creating, Quitting
  <2>4. CASE CheckChat(w) \/ CheckAdmin(w) \/ LookUpTarget(w)
    BY <2>1, <2>4 DEF CheckChat, CheckAdmin, LookUpTarget, Creating, Quitting
  <2>5. CASE CheckFriend(w) \/ CheckInside(w) \/ CheckEntry(w)
    BY <2>1, <2>5 DEF CheckFriend, CheckInside, CheckEntry, Creating, Quitting
  <2> QED
    BY <2>2, <2>3, <2>4, <2>5
<1>4. Gone = {} /\ Gone' = {}
  BY <1>1, <1>2, <1>3, NobodyGone DEF Resting
<1> QED
  BY <1>1, <1>2, <1>3, <1>4, AskingSeen DEF Creating, Quitting

\* A new chat is not seen before it has its members.
LEMMA InsertIsAtomic ==
  ASSUME TypeOK, NEW w \in Workers, ChatsApart, ChatsApart', \A v \in Workers : Facts(v), up',
         UnusedIsEmpty, faults' = faults, InsertChat(w)
  PROVE  UNCHANGED Atomic!vars
<1>0. /\ TablesTypeOK /\ job \in [Workers -> Job] /\ job[w] \in Job /\ faults \in Nat
      /\ job[w].at = "new_chat"
  BY MaxFaultsAssumption DEF TypeOK, InsertChat, At
<1>1. \A v \in Workers : v # w => job'[v] = job[v]
  BY OtherJobs DEF Step
<1>2. PICK c \in ChatIds : /\ AddChat(job[w].me, c)
                           /\ job' = [job EXCEPT ![w].at = "enter_me", ![w].chat = c]
  BY <1>0 DEF InsertChat
<1>3. job'[w].at = "enter_me" /\ job'[w].chat = c
  BY <1>0, <1>2 DEF Job
<1>4. Gone = {} /\ Gone' = {}
  BY <1>0, <1>1, <1>3, NobodyGone DEF Resting
<1>5. UNCHANGED valid /\ status[c] = "none" /\ admin[c] = NoUser /\ Members(c) = {}
  BY <1>2 DEF AddChat, UnusedIsEmpty
<1>6. ASSUME NEW d \in ChatIds, d # c
      PROVE  /\ SeenStatus'[d] = SeenStatus[d]
             /\ SeenAdmin'[d] = SeenAdmin[d]
             /\ SeenMembers'[d] = SeenMembers[d]
  <2>1. status'[d] = status[d] /\ admin'[d] = admin[d] /\ Members(d)' = Members(d)
    BY <1>0, <1>2, <1>6, RowsElsewhere
  <2> QED
    BY <1>0, <1>1, <1>3, <1>4, <1>6, <2>1, SeenElsewhere DEF Creating, Quitting
<1>7. Alone(w, c)'
  <2>1. ASSUME NEW v \in Workers, v # w, job'[v].at \in Creating \cup Quitting
        PROVE  job'[v].chat # c
    BY <1>3, <2>1 DEF ChatsApart, Resting, Creating, Quitting
  <2> QED
    BY <2>1 DEF Alone
<1>8. Alone(w, c)
  BY <1>1, <1>7 DEF Alone
<1>9. SeenStatus'[c] = SeenStatus[c] /\ SeenAdmin'[c] = SeenAdmin[c] /\ SeenMembers'[c] = SeenMembers[c]
  <2>1. HeldBack(w, c)' /\ ~ HeldBack(w, c) /\ job[w].at \notin Quitting
    BY <1>0, <1>3 DEF HeldBack, Creating, Quitting
  <2>2. SeenStatus[c] = "none" /\ SeenAdmin[c] = NoUser /\ SeenMembers[c] = {}
    BY <1>4, <1>5, <1>8, <2>1, AloneSeen DEF ViewStatus, ViewAdmin, ViewMembers
  <2>3. SeenStatus'[c] = "none" /\ SeenAdmin'[c] = NoUser /\ SeenMembers'[c] = {}
    BY <1>4, <1>7, <2>1, AloneSeenNext DEF ViewStatus, ViewAdmin, ViewMembers
  <2> QED
    BY <2>2, <2>3
<1> QED
  BY <1>5, <1>6, <1>9, NothingSeen

\* The two statements of create_chat that follow: the creator is entered unseen,
\* and the chat is there with its second member, or without one where none was
\* found.
LEMMA CreateIsAtomic ==
  ASSUME TypeOK, NEW w \in Workers, ChatsApart, \A v \in Workers : Facts(v), up',
         faults' = faults, EnterCreator(w) \/ EnterMember(w)
  PROVE  UNCHANGED Atomic!vars \/ Atomic!Next
<1> DEFINE j == job[w]
<1>0. /\ TablesTypeOK /\ job \in [Workers -> Job] /\ j \in Job /\ faults \in Nat
      /\ valid \subseteq Users /\ Step(w)
  BY MaxFaultsAssumption DEF TypeOK, TablesTypeOK, Step
<1>1. FactsAt(w, j.at)
  BY DEF Facts
<1>2. j.at \in Creating
  BY DEF EnterCreator, EnterMember, At, Creating
<1>3. PICK c \in ChatIds : c = j.chat
  BY <1>1, <1>2 DEF FactsAt, Creating
<1>4. /\ j.me \in valid /\ j.who \in valid \cup {NoUser}
      /\ status[c] = "valid" /\ admin[c] = j.me
      /\ j.at = "enter_me" => Members(c) = {}
      /\ j.at = "enter_who" => Members(c) = {j.me}
  BY <1>1, <1>2, <1>3 DEF FactsAt, Resting, Creating
<1>5. ~ InsertChat(w) /\ ~ Invalidate(w) /\ ~ LeaveAll(w) /\ j.at \notin Resting \cup {"leave_all"}
  BY <1>2 DEF InsertChat, Invalidate, LeaveAll, At, Creating, Resting
<1>6. HeldBack(w, c)
  BY <1>2, <1>3 DEF HeldBack
<1>7. CASE EnterCreator(w)
  <2>1. AddUserChat(j.me, c) /\ Goto(w, "enter_who")
    BY <1>0, <1>3, <1>7 DEF EnterCreator, Attempt
  <2>2. job'[w].at = "enter_who" /\ job'[w].chat = c
    BY <1>0, <1>3, <2>1, GotoFields DEF Resting
  <2>3. HeldBack(w, c)'
    BY <2>2 DEF HeldBack, Creating
  <2>4. /\ UNCHANGED valid
        /\ \A d \in ChatIds : d # c => /\ SeenStatus'[d] = SeenStatus[d]
                                       /\ SeenAdmin'[d] = SeenAdmin[d]
                                       /\ SeenMembers'[d] = SeenMembers[d]
        /\ SeenStatus[c] = ViewStatus(w, c) /\ SeenStatus'[c] = ViewStatus(w, c)'
        /\ SeenAdmin[c] = ViewAdmin(w, c) /\ SeenAdmin'[c] = ViewAdmin(w, c)'
        /\ SeenMembers[c] = ViewMembers(w, c) /\ SeenMembers'[c] = ViewMembers(w, c)'
    BY <1>0, <1>3, <1>5, <2>2, StepSeen
  <2>5. /\ SeenStatus'[c] = SeenStatus[c] /\ SeenAdmin'[c] = SeenAdmin[c]
        /\ SeenMembers'[c] = SeenMembers[c]
    BY <1>6, <2>3, <2>4 DEF ViewStatus, ViewAdmin, ViewMembers
  <2> QED
    BY <2>4, <2>5, NothingSeen
<1>8. CASE EnterMember(w)
  <2>1. PICK others \in {{}} \cup {{v} : v \in Users} :
          /\ others \subseteq valid /\ Members(c)' = {j.me} \cup others
          /\ UNCHANGED <<valid, status, admin>>
          /\ Goto(w, "ok") \/ Goto(w, "error")
    <3>1. j.at = "enter_who"
      BY <1>8 DEF EnterMember, At
    <3>2. CASE j.who = NoUser
      <4>1. UNCHANGED tables /\ Goto(w, "error")
        BY <1>8, <3>2 DEF EnterMember
      <4>2. UNCHANGED <<valid, status, admin>> /\ Members(c)' = Members(c)
        BY <4>1, TablesElsewhere DEF tables
      <4>3. PICK none \in {{}} \cup {{v} : v \in Users} : none = {}
        OBVIOUS
      <4>4. Members(c)' = {j.me} \cup none /\ none \subseteq valid
        BY <1>4, <3>1, <4>2, <4>3
      <4> QED
        BY <4>1, <4>2, <4>4
    <3>3. CASE j.who # NoUser
      <4>1. AddUserChat(j.who, c) /\ Goto(w, "ok")
        <5>1. Attempt(w, AddUserChat(j.who, c), "ok", "error")
          BY <1>3, <1>8, <3>3 DEF EnterMember
        <5> QED
          BY <1>0, <5>1 DEF Attempt
      <4>2. j.who \in valid /\ j.who \in Users
        BY <1>0, <1>4, <3>3
      <4>3. \A d \in ChatIds : Members(d)' = IF d = c THEN Members(d) \cup {j.who} ELSE Members(d)
        BY <1>0, <4>1, <4>2, MembersMove
      <4>4. Members(c)' = {j.me} \cup {j.who} /\ {j.who} \subseteq valid
        BY <1>4, <3>1, <4>2, <4>3
      <4>5. {j.who} \in {{}} \cup {{v} : v \in Users}
        BY <4>2
      <4>6. UNCHANGED <<valid, status, admin>>
        BY <4>1 DEF AddUserChat
      <4> WITNESS {j.who} \in {{}} \cup {{v} : v \in Users}
      <4> QED
        BY <4>1, <4>4, <4>6
    <3> QED
      BY <3>2, <3>3
  <2>2. job'[w].at \in Resting
    BY <1>0, <2>1, GotoFields DEF Resting
  <2>3. ~ HeldBack(w, c)' /\ job'[w].at \notin Quitting
    BY <2>2 DEF HeldBack, Creating, Quitting, Resting
  <2>4. /\ UNCHANGED valid
        /\ \A d \in ChatIds : d # c => /\ SeenStatus'[d] = SeenStatus[d]
                                       /\ SeenAdmin'[d] = SeenAdmin[d]
                                       /\ SeenMembers'[d] = SeenMembers[d]
        /\ SeenStatus[c] = ViewStatus(w, c) /\ SeenStatus'[c] = ViewStatus(w, c)'
        /\ SeenAdmin[c] = ViewAdmin(w, c) /\ SeenAdmin'[c] = ViewAdmin(w, c)'
        /\ SeenMembers[c] = ViewMembers(w, c) /\ SeenMembers'[c] = ViewMembers(w, c)'
    BY <1>0, <1>3, <1>5, <2>2, StepSeen DEF Resting
  <2>5. /\ SeenStatus[c] = "none" /\ SeenStatus'[c] = "valid"
        /\ SeenAdmin'[c] = j.me /\ SeenMembers'[c] = {j.me} \cup others
    BY <1>4, <1>6, <2>1, <2>3, <2>4 DEF ViewStatus, ViewAdmin, ViewMembers
  <2>6. /\ SeenStatus' = [SeenStatus EXCEPT ![c] = "valid"]
        /\ SeenAdmin' = [SeenAdmin EXCEPT ![c] = j.me]
        /\ SeenMembers' = [SeenMembers EXCEPT ![c] = {j.me} \cup others]
    BY <2>4, <2>5, RowSeen
  <2>7. Atomic!Create(j.me, others, c)
    BY <1>4, <2>1, <2>5, <2>6 DEF Atomic!Create
  <2> QED
    BY <1>0, <1>4, <2>7 DEF Atomic!Next
<1> QED
  BY <1>7, <1>8

\* The end of add_member: a friend is let in.
LEMMA AddIsAtomic ==
  ASSUME TypeOK, NEW w \in Workers, ChatsApart, \A v \in Workers : Facts(v), up',
         faults' = faults, RecoverMember(w) \/ InsertMember(w)
  PROVE  UNCHANGED Atomic!vars \/ Atomic!Next
<1> DEFINE j == job[w]
<1>0. /\ TablesTypeOK /\ job \in [Workers -> Job] /\ j \in Job /\ faults \in Nat
      /\ valid \subseteq Users /\ Step(w)
  BY MaxFaultsAssumption DEF TypeOK, TablesTypeOK, Step
<1>1. FactsAt(w, j.at)
  BY DEF Facts
<1>2. j.at \in {"recover", "insert"}
  BY DEF RecoverMember, InsertMember, At
<1>3. PICK c \in ChatIds : c = j.chat
  BY <1>1, <1>2 DEF FactsAt, Entering
<1>4. /\ j.me \in valid /\ j.who \in valid /\ j.me # j.who
      /\ status[c] = "valid" /\ admin[c] = j.me /\ ExistFriendly(j.who, j.me)
      /\ j.who \notin Members(c)
  BY <1>1, <1>2, <1>3 DEF FactsAt, Resting, Entering
<1>5. /\ ~ InsertChat(w) /\ ~ Invalidate(w) /\ ~ LeaveAll(w) /\ j.at \notin Resting \cup {"leave_all"}
      /\ ~ HeldBack(w, c) /\ j.at \notin Quitting
  BY <1>2 DEF InsertChat, Invalidate, LeaveAll, At, HeldBack, Creating, Quitting, Resting
<1>6. (AddUserChat(j.who, c) \/ RecoverUserChat(j.who, c)) /\ Goto(w, "ok")
  <2>1. CASE RecoverMember(w)
    BY <1>0, <1>3, <2>1 DEF RecoverMember, Attempt
  <2>2. CASE InsertMember(w)
    BY <1>0, <1>3, <2>2 DEF InsertMember, Attempt
  <2> QED
    BY <2>1, <2>2
<1>7. /\ UNCHANGED <<valid, status, admin>>
      /\ Members(c)' = Members(c) \/ Members(c)' = Members(c) \cup {j.who}
  <2>1. j.who \in Users
    BY <1>0, <1>4
  <2>2. \A d \in ChatIds : /\ Members(d) \subseteq Members(d)'
                           /\ Members(d)' \subseteq IF d = c THEN Members(d) \cup {j.who} ELSE Members(d)
    BY <1>0, <1>6, <2>1, MembersMove
  <2>3. Members(c) \subseteq Members(c)' /\ Members(c)' \subseteq Members(c) \cup {j.who}
    BY <2>2
  <2>4. UNCHANGED <<valid, status, admin>>
    BY <1>6 DEF AddUserChat, RecoverUserChat
  <2> QED
    BY <2>3, <2>4
<1>8. job'[w].at = "ok"
  BY <1>0, <1>6, GotoFields
<1>9. ~ HeldBack(w, c)' /\ job'[w].at \notin Quitting
  BY <1>8 DEF HeldBack, Creating, Quitting
<1>10. /\ \A d \in ChatIds : d # c => /\ SeenStatus'[d] = SeenStatus[d]
                                      /\ SeenAdmin'[d] = SeenAdmin[d]
                                      /\ SeenMembers'[d] = SeenMembers[d]
       /\ SeenStatus[c] = ViewStatus(w, c) /\ SeenStatus'[c] = ViewStatus(w, c)'
       /\ SeenAdmin[c] = ViewAdmin(w, c) /\ SeenAdmin'[c] = ViewAdmin(w, c)'
       /\ SeenMembers[c] = ViewMembers(w, c) /\ SeenMembers'[c] = ViewMembers(w, c)'
  BY <1>0, <1>3, <1>5, <1>8, StepSeen
<1>11. /\ SeenStatus[c] = "valid" /\ SeenStatus'[c] = "valid"
       /\ SeenAdmin[c] = j.me /\ SeenAdmin'[c] = j.me
       /\ SeenMembers[c] = Members(c) /\ SeenMembers'[c] = Members(c)'
  BY <1>4, <1>5, <1>7, <1>9, <1>10 DEF ViewStatus, ViewAdmin, ViewMembers
<1>12. CASE Members(c)' = Members(c)
  BY <1>7, <1>10, <1>11, <1>12, NothingSeen
<1>13. CASE Members(c)' = Members(c) \cup {j.who}
  <2>1. /\ SeenMembers' = [SeenMembers EXCEPT ![c] = SeenMembers[c] \cup {j.who}]
        /\ SeenStatus' = SeenStatus /\ SeenAdmin' = SeenAdmin
    BY <1>10, <1>11, <1>13, RowSeen
  <2>2. Atomic!AreFriends(j.me, j.who)
    BY <1>4 DEF ExistFriendly, Atomic!AreFriends
  <2>3. Atomic!Add(j.me, j.who, c)
    BY <1>4, <1>7, <1>11, <2>1, <2>2 DEF Atomic!Add
  <2> QED
    BY <1>0, <1>4, <2>3 DEF Atomic!Next
<1> QED
  BY <1>7, <1>12, <1>13

\* The statement that takes somebody out: an administrator sends another member
\* away, and who quits himself is still seen until he has found his successor.
LEMMA RemoveIsAtomic ==
  ASSUME TypeOK, NEW w \in Workers, ChatsApart, \A v \in Workers : Facts(v), up',
         faults' = faults, RemoveMember(w)
  PROVE  UNCHANGED Atomic!vars \/ Atomic!Next
<1> DEFINE j == job[w]
<1>0. /\ TablesTypeOK /\ job \in [Workers -> Job] /\ j \in Job /\ faults \in Nat
      /\ valid \subseteq Users /\ Step(w) /\ j.at = "remove"
  BY MaxFaultsAssumption DEF TypeOK, TablesTypeOK, Step, RemoveMember, At
<1>1. FactsAt(w, "remove")
  BY <1>0 DEF Facts
<1>2. PICK c \in ChatIds : c = j.chat
  BY <1>1 DEF FactsAt
<1>3. /\ j.me \in valid /\ j.op \in {"remove", "quit"}
      /\ status[c] = "valid" /\ j.who \in Members(c)
      /\ j.op = "quit" => j.who = j.me
      /\ j.op # "quit" => j.who \in valid /\ j.who # j.me /\ admin[c] = j.me
  BY <1>1, <1>2 DEF FactsAt, Resting
<1>4. /\ ~ InsertChat(w) /\ ~ Invalidate(w) /\ ~ LeaveAll(w) /\ j.at \notin Resting \cup {"leave_all"}
      /\ ~ HeldBack(w, c) /\ j.at \notin Quitting
  BY <1>0 DEF InsertChat, Invalidate, LeaveAll, At, HeldBack, Creating, Quitting, Resting
<1>5. DelUserChat(j.who, c) /\ Goto(w, IF j.op = "quit" THEN "still" ELSE "ok")
  <2>1. Attempt(w, DelUserChat(j.who, c), IF j.op = "quit" THEN "still" ELSE "ok", "error")
    BY <1>2 DEF RemoveMember
  <2> QED
    BY <1>0, <2>1 DEF Attempt
<1>6. UNCHANGED <<valid, status, admin>> /\ Members(c)' = Members(c) \ {j.who}
  BY <1>0, <1>5, RowsHere DEF DelUserChat
<1>7. /\ job'[w].at = IF j.op = "quit" THEN "still" ELSE "ok"
      /\ j.op = "quit" => job'[w].me = j.me /\ job'[w].chat = c
  BY <1>0, <1>2, <1>5, GotoFields DEF Resting
<1>8. ~ HeldBack(w, c)'
  BY <1>7 DEF HeldBack, Creating
<1>9. /\ \A d \in ChatIds : d # c => /\ SeenStatus'[d] = SeenStatus[d]
                                     /\ SeenAdmin'[d] = SeenAdmin[d]
                                     /\ SeenMembers'[d] = SeenMembers[d]
      /\ SeenStatus[c] = ViewStatus(w, c) /\ SeenStatus'[c] = ViewStatus(w, c)'
      /\ SeenAdmin[c] = ViewAdmin(w, c) /\ SeenAdmin'[c] = ViewAdmin(w, c)'
      /\ SeenMembers[c] = ViewMembers(w, c) /\ SeenMembers'[c] = ViewMembers(w, c)'
  BY <1>0, <1>2, <1>4, <1>7, StepSeen
<1>10. /\ SeenStatus[c] = "valid" /\ SeenStatus'[c] = "valid"
       /\ SeenAdmin[c] = admin[c] /\ SeenAdmin'[c] = admin[c]
       /\ SeenMembers[c] = Members(c)
  BY <1>3, <1>4, <1>6, <1>8, <1>9 DEF ViewStatus, ViewAdmin, ViewMembers
<1>11. CASE j.op = "quit"
  <2>1. SeenMembers'[c] = Members(c)' \cup {j.me}
    BY <1>7, <1>8, <1>9, <1>11 DEF ViewMembers, Quitting
  <2>2. SeenMembers'[c] = SeenMembers[c]
    BY <1>3, <1>6, <1>10, <1>11, <2>1
  <2> QED
    BY <1>6, <1>9, <1>10, <2>2, NothingSeen
<1>12. CASE j.op # "quit"
  <2>1. SeenMembers'[c] = SeenMembers[c] \ {j.who}
    BY <1>6, <1>7, <1>8, <1>9, <1>10, <1>12 DEF ViewMembers, Quitting
  <2>2. /\ SeenMembers' = [SeenMembers EXCEPT ![c] = SeenMembers[c] \ {j.who}]
        /\ SeenStatus' = SeenStatus /\ SeenAdmin' = SeenAdmin
    BY <1>9, <1>10, <2>1, RowSeen
  <2>3. Atomic!Remove(j.me, j.who, c)
    BY <1>3, <1>6, <1>10, <1>12, <2>2 DEF Atomic!Remove
  <2> QED
    BY <1>0, <1>3, <1>12, <2>3 DEF Atomic!Next
<1> QED
  BY <1>11, <1>12

\* What quit_from_chat does once the quitter is out: until it ends he is seen as
\* a member, and then the chat is handed over, ended or just left.
LEMMA QuitIsAtomic ==
  ASSUME TypeOK, NEW w \in Workers, ChatsApart, \A v \in Workers : Facts(v), up',
         faults' = faults,
         \/ CheckStillUsers(w) \/ QuitterIsAdmin(w) \/ GetFirstUser(w)
         \/ HandOver(w) \/ CloseChat(w)
  PROVE  UNCHANGED Atomic!vars \/ Atomic!Next
<1> DEFINE j == job[w]
<1>0. /\ TablesTypeOK /\ job \in [Workers -> Job] /\ j \in Job /\ faults \in Nat
      /\ valid \subseteq Users /\ Step(w) /\ j.at \in Quitting
  <2>1. Step(w)
    BY DEF Step
  <2>2. j.at \in Quitting
    BY DEF At, CheckStillUsers, QuitterIsAdmin, GetFirstUser, HandOver, CloseChat, Quitting
  <2> QED
    BY <2>1, <2>2, MaxFaultsAssumption DEF TypeOK, TablesTypeOK
<1>1. FactsAt(w, j.at)
  BY DEF Facts
<1>2. PICK c \in ChatIds : c = j.chat
  BY <1>0, <1>1 DEF FactsAt
<1>3. /\ j.me \in valid /\ status[c] = "valid" /\ j.me \notin Members(c)
      /\ j.at \in {"am_admin", "first", "handover"} => Members(c) # {}
      /\ j.at \in {"first", "handover"} => admin[c] = j.me
      /\ j.at = "handover" => j.first \in Members(c)
      /\ j.at = "close" => Members(c) = {}
  BY <1>0, <1>1, <1>2 DEF FactsAt, Resting, Quitting
<1>4. /\ ~ InsertChat(w) /\ ~ Invalidate(w) /\ ~ LeaveAll(w) /\ j.at \notin Resting \cup {"leave_all"}
      /\ ~ HeldBack(w, c)
  BY <1>0 DEF InsertChat, Invalidate, LeaveAll, At, HeldBack, Creating, Quitting, Resting
<1>5. ASSUME job'[w].at \in Quitting \cup Resting
      PROVE  /\ UNCHANGED valid
             /\ \A d \in ChatIds : d # c => /\ SeenStatus'[d] = SeenStatus[d]
                                            /\ SeenAdmin'[d] = SeenAdmin[d]
                                            /\ SeenMembers'[d] = SeenMembers[d]
             /\ SeenStatus[c] = status[c] /\ SeenStatus'[c] = status'[c]
             /\ SeenAdmin[c] = admin[c] /\ SeenAdmin'[c] = admin'[c]
             /\ SeenMembers[c] = Members(c) \cup {j.me}
             /\ job'[w].at \in Resting => SeenMembers'[c] = Members(c)'
             /\ job'[w].at \in Quitting /\ job'[w].chat = c /\ job'[w].me = j.me
                  => SeenMembers'[c] = Members(c)' \cup {j.me}
  <2>1. job'[w].at # "leave_all" /\ ~ HeldBack(w, c)'
    BY <1>5 DEF Quitting, Resting, HeldBack, Creating
  <2>2. /\ UNCHANGED valid
        /\ \A d \in ChatIds : d # c => /\ SeenStatus'[d] = SeenStatus[d]
                                       /\ SeenAdmin'[d] = SeenAdmin[d]
                                       /\ SeenMembers'[d] = SeenMembers[d]
        /\ SeenStatus[c] = ViewStatus(w, c) /\ SeenStatus'[c] = ViewStatus(w, c)'
        /\ SeenAdmin[c] = ViewAdmin(w, c) /\ SeenAdmin'[c] = ViewAdmin(w, c)'
        /\ SeenMembers[c] = ViewMembers(w, c) /\ SeenMembers'[c] = ViewMembers(w, c)'
    BY <1>0, <1>2, <1>4, <2>1, StepSeen
  <2>3. /\ SeenStatus[c] = status[c] /\ SeenStatus'[c] = status'[c]
        /\ SeenAdmin[c] = admin[c] /\ SeenAdmin'[c] = admin'[c]
        /\ SeenMembers[c] = Members(c) \cup {j.me}
    BY <1>0, <1>2, <1>4, <2>1, <2>2 DEF ViewStatus, ViewAdmin, ViewMembers
  <2>4. job'[w].at \in Resting => SeenMembers'[c] = Members(c)'
    BY <2>1, <2>2 DEF ViewMembers, Quitting, Resting
  <2>5. job'[w].at \in Quitting /\ job'[w].chat = c /\ job'[w].me = j.me
          => SeenMembers'[c] = Members(c)' \cup {j.me}
    BY <2>1, <2>2 DEF ViewMembers
  <2> QED
    BY <2>2, <2>3, <2>4, <2>5
<1>6. ASSUME UNCHANGED tables, job'[w].at \in Quitting, job'[w].chat = c, job'[w].me = j.me
      PROVE  UNCHANGED Atomic!vars
  <2>1. status'[c] = status[c] /\ admin'[c] = admin[c] /\ Members(c)' = Members(c)
    BY <1>6, TablesElsewhere
  <2> QED
    BY <1>5, <1>6, <2>1, NothingSeen
<1>7. CASE CheckStillUsers(w)
  <2>1. UNCHANGED tables /\ (Goto(w, "am_admin") \/ Goto(w, "close"))
    BY <1>7 DEF CheckStillUsers, Observed
  <2>2. job'[w].at \in Quitting /\ job'[w].chat = c /\ job'[w].me = j.me
    BY <1>0, <1>2, <2>1, GotoFields DEF Resting, Quitting
  <2> QED
    BY <1>6, <2>1, <2>2
<1>8. CASE GetFirstUser(w)
  <2>1. j.at = "first" /\ UNCHANGED tables
    BY <1>8 DEF GetFirstUser, At
  <2>2. PICK u : job' = [job EXCEPT ![w].at = "handover", ![w].first = u]
    BY <1>0, <1>2, <1>3, <1>8, <2>1 DEF GetFirstUser
  <2>3. job'[w].at \in Quitting /\ job'[w].chat = c /\ job'[w].me = j.me
    BY <1>0, <1>2, <2>2 DEF Job, Quitting
  <2> QED
    BY <1>6, <2>1, <2>3
<1>9. CASE QuitterIsAdmin(w)
  <2>1. PICK r \in Answers(IsAdmin(j.me, c)) :
          Observed(r) /\ Goto(w, IF r = 1 THEN "first" ELSE "ok")
    BY <1>2, <1>9 DEF QuitterIsAdmin
  <2>2. j.at = "am_admin" /\ UNCHANGED tables /\ (r = 1 <=> admin[c] = j.me)
    <3>1. (IsAdmin(j.me, c) => r = 1) /\ (~ IsAdmin(j.me, c) => r = 0) /\ UNCHANGED tables
      BY <1>0, <2>1 DEF Answers, Observed
    <3> QED
      BY <1>3, <1>9, <3>1 DEF QuitterIsAdmin, At, IsAdmin
  <2>3. CASE r = 1
    <3>1. job'[w].at \in Quitting /\ job'[w].chat = c /\ job'[w].me = j.me
      BY <1>0, <1>2, <2>1, <2>3, GotoFields DEF Resting, Quitting
    <3> QED
      BY <1>6, <2>2, <3>1
  <2>4. CASE r # 1
    <3>1. job'[w].at \in Resting
      BY <1>0, <2>1, <2>4, GotoFields DEF Resting
    <3>2. status'[c] = status[c] /\ admin'[c] = admin[c] /\ Members(c)' = Members(c)
      BY <2>2, TablesElsewhere
    <3>3. /\ SeenMembers[c] = Members(c) \cup {j.me}
          /\ SeenMembers'[c] = SeenMembers[c] \ {j.me}
          /\ SeenStatus'[c] = SeenStatus[c] /\ SeenAdmin'[c] = SeenAdmin[c]
          /\ SeenStatus[c] = "valid" /\ SeenAdmin[c] # j.me /\ UNCHANGED valid
      BY <1>3, <1>5, <2>2, <2>4, <3>1, <3>2
    <3>4. /\ SeenMembers' = [SeenMembers EXCEPT ![c] = SeenMembers[c] \ {j.me}]
          /\ SeenStatus' = SeenStatus /\ SeenAdmin' = SeenAdmin
      BY <1>5, <3>1, <3>3, RowSeen
    <3>5. j.me \in SeenMembers[c] /\ SeenMembers[c] # {j.me}
      BY <1>3, <2>2, <3>3
    <3>6. Atomic!Quit(j.me, c)
      BY <1>3, <3>3, <3>4, <3>5 DEF Atomic!Quit
    <3> QED
      BY <1>0, <1>3, <3>6 DEF Atomic!Next
  <2> QED
    BY <2>3, <2>4
<1>10. CASE HandOver(w)
  <2>1. j.at = "handover" /\ j.first \in Members(c) /\ j.first # NoUser
    BY <1>3, <1>10, UsersAssumption DEF HandOver, At, Members
  <2>2. ChangeAdmin(j.first, c) /\ Goto(w, "ok")
    <3>1. Attempt(w, ChangeAdmin(j.first, c), "ok", "ok")
      BY <1>2, <1>10, <2>1 DEF HandOver
    <3> QED
      BY <1>0, <3>1 DEF Attempt
  <2>3. job'[w].at \in Resting
    BY <1>0, <2>2, GotoFields DEF Resting
  <2>4. status'[c] = status[c] /\ admin'[c] = j.first /\ Members(c)' = Members(c)
    BY <1>0, <2>2 DEF ChangeAdmin, TablesTypeOK, Members
  <2>5. /\ SeenMembers[c] = Members(c) \cup {j.me}
        /\ SeenMembers'[c] = SeenMembers[c] \ {j.me}
        /\ SeenStatus'[c] = SeenStatus[c] /\ SeenAdmin'[c] = j.first
        /\ SeenStatus[c] = "valid" /\ SeenAdmin[c] = j.me /\ UNCHANGED valid
    BY <1>3, <1>5, <2>1, <2>3, <2>4
  <2>6. /\ SeenMembers' = [SeenMembers EXCEPT ![c] = SeenMembers[c] \ {j.me}]
        /\ SeenAdmin' = [SeenAdmin EXCEPT ![c] = j.first]
        /\ SeenStatus' = SeenStatus
    BY <1>5, <2>3, <2>5, RowSeen
  <2>7. /\ j.me \in SeenMembers[c] /\ SeenMembers[c] # {j.me}
        /\ j.first \in SeenMembers[c] \ {j.me}
    BY <1>3, <2>1, <2>5
  <2>8. Atomic!Quit(j.me, c)
    BY <1>3, <2>5, <2>6, <2>7 DEF Atomic!Quit
  <2> QED
    BY <1>0, <1>3, <2>8 DEF Atomic!Next
<1>11. CASE CloseChat(w)
  <2>1. j.at = "close"
    BY <1>11 DEF CloseChat, At
  <2>2. DelChat(c) /\ Goto(w, "ok")
    <3>1. Attempt(w, DelChat(c), "ok", "error")
      BY <1>2, <1>11 DEF CloseChat
    <3> QED
      BY <1>0, <3>1 DEF Attempt
  <2>3. job'[w].at \in Resting
    BY <1>0, <2>2, GotoFields DEF Resting
  <2>4. status'[c] = "deleted" /\ admin'[c] = admin[c] /\ Members(c)' = Members(c)
    BY <1>0, <2>2 DEF DelChat, TablesTypeOK, Members
  <2>5. /\ SeenMembers[c] = {j.me} /\ SeenMembers'[c] = {}
        /\ SeenStatus'[c] = "deleted" /\ SeenAdmin'[c] = SeenAdmin[c]
        /\ SeenStatus[c] = "valid" /\ UNCHANGED valid
    BY <1>3, <1>5, <2>1, <2>3, <2>4
  <2>6. /\ SeenMembers' = [SeenMembers EXCEPT ![c] = {}]
        /\ SeenStatus' = [SeenStatus EXCEPT ![c] = "deleted"]
        /\ SeenAdmin' = SeenAdmin
    BY <1>5, <2>3, <2>5, RowSeen
  <2>7. Atomic!QuitLast(j.me, c)
    BY <1>3, <2>5, <2>6 DEF Atomic!QuitLast
  <2> QED
    BY <1>0, <1>3, <2>7 DEF Atomic!Next
<1> QED
  BY <1>7, <1>8, <1>9, <1>10, <1>11

\* user_unregister: whoever is made invalid is seen to leave his chats at once.
LEMMA UnregisterIsAtomic ==
  ASSUME TypeOK, NEW w \in Workers, ChatsApart, \A v \in Workers : Facts(v), up',
         faults' = faults, Invalidate(w) \/ LeaveAll(w)
  PROVE  UNCHANGED Atomic!vars \/ Atomic!Next
<1> DEFINE j == job[w]
<1>0. /\ TablesTypeOK /\ job \in [Workers -> Job] /\ j \in Job /\ faults \in Nat
      /\ valid \subseteq Users
  BY MaxFaultsAssumption DEF TypeOK, TablesTypeOK
<1>1. j.at \in {"invalidate", "leave_all"} /\ j.op = "unregister"
  BY DEF Invalidate, LeaveAll, At, Facts, FactsAt
<1>2. ASSUME NEW v \in Workers, v # w PROVE job[v].at \in Resting /\ job'[v].at \in Resting
  <2>1. job'[v] = job[v]
    BY <1>2, OtherJobs DEF Step
  <2> QED
    BY <1>1, <1>2, <2>1 DEF ChatsApart, Resting
<1>3. /\ \A c : ~ Unfinished(c) /\ Quitters(c) = {}
      /\ Gone = IF j.at = "leave_all" THEN {j.me} ELSE {}
  BY <1>1, <1>2 DEF Unfinished, Quitters, Gone, Quitting, Resting
<1>4. \A c \in ChatIds : /\ SeenStatus[c] = status[c] /\ SeenAdmin[c] = admin[c]
                         /\ SeenMembers[c] = Members(c) \ Gone
  BY <1>3 DEF SeenStatus, SeenAdmin, SeenMembers
<1>5. ASSUME job'[w].at \in Resting \cup {"leave_all"}
      PROVE  /\ \A c \in ChatIds : /\ SeenStatus'[c] = status'[c] /\ SeenAdmin'[c] = admin'[c]
                                   /\ SeenMembers'[c] = Members(c)' \ Gone'
             /\ Gone' = IF job'[w].at = "leave_all" THEN {job'[w].me} ELSE {}
  <2>1. /\ \A c : ~ Unfinished(c)' /\ Quitters(c)' = {}
        /\ Gone' = IF job'[w].at = "leave_all" THEN {job'[w].me} ELSE {}
    BY <1>2, <1>5 DEF Unfinished, Quitters, Gone, Quitting, Resting
  <2> QED
    BY <2>1 DEF SeenStatus, SeenAdmin, SeenMembers
<1>6. CASE Invalidate(w)
  <2>1. j.at = "invalidate" /\ DelUser(j.me) /\ Goto(w, "leave_all")
    BY <1>0, <1>6 DEF Invalidate, At, Attempt
  <2>2. job'[w].at = "leave_all" /\ job'[w].me = j.me
    BY <1>0, <2>1, GotoFields DEF Resting
  <2>3. j.me \in valid
    BY <2>1 DEF Facts, FactsAt, Resting
  <2>4. UNCHANGED <<status, admin>> /\ valid' = valid \ {j.me} /\ \A c : Members(c)' = Members(c)
    BY <2>1 DEF DelUser, Members
  <2>5. \A c \in ChatIds : /\ SeenStatus'[c] = SeenStatus[c] /\ SeenAdmin'[c] = SeenAdmin[c]
                           /\ SeenMembers'[c] = SeenMembers[c] \ {j.me}
    BY <1>3, <1>4, <1>5, <2>1, <2>2, <2>4
  <2>6. /\ SeenStatus' = SeenStatus /\ SeenAdmin' = SeenAdmin
        /\ SeenMembers' = [c \in ChatIds |-> SeenMembers[c] \ {j.me}]
    <3>1. SeenStatus' = SeenStatus
      BY <2>5 DEF SeenStatus
    <3>2. SeenAdmin' = SeenAdmin
      BY <2>5 DEF SeenAdmin
    <3>3. SeenMembers' = [c \in ChatIds |-> SeenMembers'[c]]
      BY SeenFunctions
    <3> QED
      BY <2>5, <3>1, <3>2, <3>3
  <2>7. Atomic!Unregister(j.me)
    BY <2>3, <2>4, <2>6 DEF Atomic!Unregister
  <2> QED
    BY <1>0, <2>3, <2>7 DEF Atomic!Next
<1>7. CASE LeaveAll(w)
  <2>1. j.at = "leave_all" /\ DelUserAllChats(j.me) /\ Goto(w, "ok")
    BY <1>0, <1>7 DEF LeaveAll, At, Attempt
  <2>2. job'[w].at = "ok"
    BY <1>0, <2>1, GotoFields
  <2>3. UNCHANGED <<valid, status, admin>> /\ \A c \in ChatIds : Members(c)' = Members(c) \ {j.me}
    BY <1>0, <2>1, RowsHere DEF DelUserAllChats
  <2>4. \A c \in ChatIds : /\ SeenStatus'[c] = SeenStatus[c] /\ SeenAdmin'[c] = SeenAdmin[c]
                           /\ SeenMembers'[c] = SeenMembers[c]
    <3>1. Gone = {j.me} /\ \A c \in ChatIds : SeenMembers[c] = Members(c) \ {j.me}
      BY <1>3, <1>4, <2>1
    <3>2. /\ Gone' = {}
          /\ \A c \in ChatIds : /\ SeenStatus'[c] = status'[c] /\ SeenAdmin'[c] = admin'[c]
                               /\ SeenMembers'[c] = Members(c)'
      BY <1>5, <2>2 DEF Resting
    <3> QED
      BY <1>4, <2>3, <3>1, <3>2
  <2> QED
    BY <2>3, <2>4, NothingSeen
<1> QED
  BY <1>6, <1>7

-----------------------------------------------------------------------------
(* The handlers implement ChatsAtomic.                                     *)

\* Every step that is not a fault is one of ChatsAtomic, or shows nothing.
LEMMA StepIsAtomic ==
  ASSUME TypeOK, ApartInv, ChatsApart, ChatsApart', [Next]_vars, faults' = 0
  PROVE  UNCHANGED Atomic!vars \/ Atomic!Next
<1>0. faults \in Nat /\ job \in [Workers -> Job]
  BY MaxFaultsAssumption DEF TypeOK
<1>1. ASSUME UNCHANGED tables,
             \A v \in Workers : \/ job'[v] = job[v]
                                \/ job[v].at \in Resting /\ job'[v].at \in Resting \cup {"pass"}
      PROVE  UNCHANGED Atomic!vars
  <2> DEFINE seen == {"enter_me", "enter_who", "leave_all"} \cup Quitting
  <2>0. ASSUME NEW v \in Workers, job[v].at \in seen \/ job'[v].at \in seen
        PROVE  job'[v] = job[v]
    BY <1>1, <2>0 DEF Quitting, Resting
  <2>1. /\ \A c : (Unfinished(c)' <=> Unfinished(c)) /\ Quitters(c)' = Quitters(c)
        /\ Gone' = Gone
    <3>1. \A c : Unfinished(c)' <=> Unfinished(c)
      BY <2>0 DEF Unfinished
    <3>2. \A c : Quitters(c)' = Quitters(c)
      BY <2>0 DEF Quitters
    <3>3. Gone' = Gone
      BY <2>0 DEF Gone
    <3> QED
      BY <3>1, <3>2, <3>3
  <2>2. UNCHANGED <<valid, status, admin>> /\ \A c : Members(c)' = Members(c)
    BY <1>1, TablesElsewhere DEF tables
  <2> QED
    BY <2>1, <2>2 DEF SeenStatus, SeenAdmin, SeenMembers, Atomic!vars
<1>2. CASE UNCHANGED vars
  BY <1>1, <1>2 DEF vars, tables
<1>3. CASE Kill
  BY <1>0, <1>3 DEF Kill
<1>4. CASE Restart
  BY <1>1, <1>4 DEF Restart
<1>5. ASSUME NEW w \in Workers, Request(w)
      PROVE  UNCHANGED Atomic!vars
  <2>1. /\ job[w].at \in Resting /\ job'[w].at = "pass" /\ UNCHANGED <<tables, up>> /\ up
    BY <1>5, RequestFacts DEF Request
  <2>2. \A v \in Workers : v # w => job'[v] = job[v]
    BY <1>5, <2>1, OtherJobs
  <2> QED
    BY <1>1, <2>1, <2>2
<1>6. ASSUME NEW w \in Workers, Step(w)
      PROVE  UNCHANGED Atomic!vars \/ Atomic!Next
  <2>1. faults' = faults /\ faults = 0
    BY <1>0, <1>6, FaultsCounted
  <2>2. up /\ UnusedIsEmpty /\ \A v \in Workers : Facts(v)
    BY <2>1 DEF ApartInv
  <2>3. up'
    BY <1>6, <2>1, <2>2, FactsStep
  <2>4. CASE \/ CheckPass(w) \/ CheckChat(w) \/ CheckAdmin(w) \/ LookUpTarget(w)
             \/ CheckFriend(w) \/ CheckInside(w) \/ CheckEntry(w) \/ LookUpMember(w)
    BY <2>2, <2>3, <2>4, ChecksAreAtomic
  <2>5. CASE InsertChat(w)
    BY <2>1, <2>2, <2>3, <2>5, InsertIsAtomic
  <2>6. CASE EnterCreator(w) \/ EnterMember(w)
    BY <2>1, <2>2, <2>3, <2>6, CreateIsAtomic
  <2>7. CASE RecoverMember(w) \/ InsertMember(w)
    BY <2>1, <2>2, <2>3, <2>7, AddIsAtomic
  <2>8. CASE RemoveMember(w)
    BY <2>1, <2>2, <2>3, <2>8, RemoveIsAtomic
  <2>9. CASE \/ CheckStillUsers(w) \/ QuitterIsAdmin(w) \/ GetFirstUser(w)
             \/ HandOver(w) \/ CloseChat(w)
    BY <2>1, <2>2, <2>3, <2>9, QuitIsAtomic
  <2>10. CASE Invalidate(w) \/ LeaveAll(w)
    BY <2>1, <2>2, <2>3, <2>10, UnregisterIsAtomic
  <2>11. CASE UndoChat(w)
    BY <2>2, <2>11 DEF UndoChat, At, Facts, FactsAt
  <2> QED
    BY <1>6, <2>4, <2>5, <2>6, <2>7, <2>8, <2>9, <2>10, <2>11 DEF Step
<1> QED
  BY <1>2, <1>3, <1>4, <1>5, <1>6 DEF Next

\* The database the server starts on is one ChatsAtomic may start on.
LEMMA StartIsAtomic ==
  ASSUME Init
  PROVE  ApartInv /\ Atomic!Init
<1>1. \A w \in Workers : job[w].at = "idle"
  BY DEF Init, Rest
<1>2. ApartInv
  BY <1>1 DEF Init, ApartInv, UnusedIsEmpty, Facts, FactsAt, Resting, Creating, Entering, Quitting
<1>3. \A c : ~ Unfinished(c) /\ Quitters(c) = {} /\ Gone = {}
  BY <1>1 DEF Unfinished, Quitters, Gone, Quitting
<1>4. \A c \in ChatIds : /\ SeenStatus[c] = status[c] /\ SeenAdmin[c] = admin[c]
                         /\ SeenMembers[c] = Members(c)
  BY <1>3 DEF SeenStatus, SeenAdmin, SeenMembers
<1>5. /\ status \in [ChatIds -> {"none", "valid"}]
      /\ admin \in [ChatIds -> Users \cup {NoUser}]
      /\ \A c \in ChatIds : Members(c) \subseteq Users
      /\ \A c \in ChatIds : IF status[c] = "none" THEN admin[c] = NoUser /\ Members(c) = {}
                                                  ELSE admin[c] \in Members(c)
  BY DEF Init, Members
<1>6. SeenStatus = status /\ SeenAdmin = admin
  BY <1>4, <1>5 DEF SeenStatus, SeenAdmin
<1>7. SeenMembers \in [ChatIds -> SUBSET Users]
  BY <1>4, <1>5, SeenFunctions
<1>8. valid = Users
  BY DEF Init
<1> QED
  BY <1>2, <1>4, <1>5, <1>6, <1>7, <1>8 DEF Atomic!Init

\* Whatever threads serve them, and whatever fails later: as long as no query
\* has failed and the server has not been killed, requests that keep apart take
\* effect at once.
THEOREM ApartRefinement == Spec /\ []ChatsApart => HandlersAreAtomic
<1>1. Init => ApartInv /\ Atomic!Init
  BY StartIsAtomic
<1>2. TypeOK /\ ApartInv /\ ChatsApart /\ ChatsApart' /\ [Next]_vars => ApartInv'
  BY ApartInductive
<1>3. TypeOK /\ ApartInv /\ ChatsApart /\ ChatsApart' /\ [Next]_vars
        => [faults' = 0 => UNCHANGED Atomic!vars \/ Atomic!Next]_vars
  BY StepIsAtomic
<1> QED
  BY <1>1, <1>2, <1>3, Typing, PTL DEF Spec, HandlersAreAtomic

\* In particular, of a server that takes one request at a time.
THEOREM SequentialRefinement ==
  ASSUME NEW w, Workers = {w}
  PROVE  Spec => HandlersAreAtomic
<1>1. ChatsApart
  BY DEF ChatsApart
<1> QED
  BY <1>1, ApartRefinement, PTL

\* Requests that keep apart do not bring the process down.
THEOREM ApartServerStaysUp == Spec /\ []ChatsApart => []ServerSurvives
<1>1. Init => ApartInv
  BY StartIsAtomic
<1>2. TypeOK /\ ApartInv /\ ChatsApart /\ ChatsApart' /\ [Next]_vars => ApartInv'
  BY ApartInductive
<1>3. ApartInv => ServerSurvives
  BY DEF ApartInv, ServerSurvives
<1> QED
  BY <1>1, <1>2, <1>3, Typing, PTL DEF Spec

-----------------------------------------------------------------------------
(* What it is good for: chats that take their requests at once stay        *)
(* consistent.                                                             *)

\* Every action of ChatsAtomic keeps the chats consistent.
LEMMA AtomicConsistent ==
  ASSUME Atomic!Consistent, UNCHANGED Atomic!vars \/ Atomic!Next
  PROVE  Atomic!Consistent'
<1>0. /\ SeenStatus = [c \in ChatIds |-> SeenStatus[c]]
      /\ SeenAdmin = [c \in ChatIds |-> SeenAdmin[c]]
      /\ SeenMembers = [c \in ChatIds |-> SeenMembers[c]]
  BY SeenFunctions
<1> USE DEF Atomic!Consistent
<1> SUFFICES ASSUME NEW d \in ChatIds
             PROVE  /\ SeenStatus'[d] = "valid" /\ SeenAdmin'[d] \in valid'
                         => SeenAdmin'[d] \in SeenMembers'[d]
                    /\ SeenStatus'[d] = "deleted" => SeenMembers'[d] = {}
                    /\ SeenMembers'[d] \subseteq valid'
  OBVIOUS
<1>1. CASE UNCHANGED Atomic!vars
  BY <1>1 DEF Atomic!vars
<1>2. ASSUME NEW u, NEW c \in ChatIds, NEW others, Atomic!Create(u, others, c)
      PROVE  /\ SeenStatus'[d] = "valid" /\ SeenAdmin'[d] \in valid'
                  => SeenAdmin'[d] \in SeenMembers'[d]
             /\ SeenStatus'[d] = "deleted" => SeenMembers'[d] = {}
             /\ SeenMembers'[d] \subseteq valid'
  BY <1>0, <1>2 DEF Atomic!Create
<1>3. ASSUME NEW u, NEW v, NEW c \in ChatIds, Atomic!Add(u, v, c) \/ Atomic!Remove(u, v, c)
      PROVE  /\ SeenStatus'[d] = "valid" /\ SeenAdmin'[d] \in valid'
                  => SeenAdmin'[d] \in SeenMembers'[d]
             /\ SeenStatus'[d] = "deleted" => SeenMembers'[d] = {}
             /\ SeenMembers'[d] \subseteq valid'
  BY <1>0, <1>3 DEF Atomic!Add, Atomic!Remove
<1>4. ASSUME NEW u, NEW c \in ChatIds, Atomic!QuitLast(u, c) \/ Atomic!Quit(u, c)
      PROVE  /\ SeenStatus'[d] = "valid" /\ SeenAdmin'[d] \in valid'
                  => SeenAdmin'[d] \in SeenMembers'[d]
             /\ SeenStatus'[d] = "deleted" => SeenMembers'[d] = {}
             /\ SeenMembers'[d] \subseteq valid'
  BY <1>0, <1>4 DEF Atomic!QuitLast, Atomic!Quit
<1>5. ASSUME NEW u, Atomic!Unregister(u)
      PROVE  /\ SeenStatus'[d] = "valid" /\ SeenAdmin'[d] \in valid'
                  => SeenAdmin'[d] \in SeenMembers'[d]
             /\ SeenStatus'[d] = "deleted" => SeenMembers'[d] = {}
             /\ SeenMembers'[d] \subseteq valid'
  BY <1>0, <1>5 DEF Atomic!Unregister
<1> QED
  BY <1>1, <1>2, <1>3, <1>4, <1>5 DEF Atomic!Next

\* Between requests clients see the tables as they are.
LEMMA SeenAtRest ==
  ASSUME AtRest, NEW c \in ChatIds
  PROVE  SeenStatus[c] = status[c] /\ SeenAdmin[c] = admin[c] /\ SeenMembers[c] = Members(c)
<1>1. ~ Unfinished(c) /\ Quitters(c) = {} /\ Gone = {}
  BY DEF AtRest, Unfinished, Quitters, Gone, Quitting, Resting
<1> QED
  BY <1>1 DEF SeenStatus, SeenAdmin, SeenMembers

\* What ConsistentAtRest holds against: chats are seen consistent at any moment.
SeenConsistent == faults = 0 => Atomic!Consistent

\* Requests that keep apart leave the tables consistent.
THEOREM ApartServer == Spec /\ []ChatsApart => []ConsistentAtRest
<1>1. Init => ApartInv /\ SeenConsistent
  <2> SUFFICES ASSUME Init PROVE ApartInv /\ Atomic!Consistent
    BY DEF SeenConsistent
  <2>1. ApartInv /\ Atomic!Init
    BY StartIsAtomic
  <2>2. Atomic!Consistent
    BY <2>1 DEF Atomic!Init, Atomic!Consistent
  <2> QED
    BY <2>1, <2>2
<1>2. TypeOK /\ ApartInv /\ ChatsApart /\ ChatsApart' /\ [Next]_vars => ApartInv'
  BY ApartInductive
<1>3. TypeOK /\ ApartInv /\ SeenConsistent /\ ChatsApart /\ ChatsApart' /\ [Next]_vars
        => SeenConsistent'
  <2> SUFFICES ASSUME TypeOK, ApartInv, SeenConsistent, ChatsApart, ChatsApart', [Next]_vars,
                      faults' = 0
               PROVE  Atomic!Consistent'
    BY DEF SeenConsistent
  <2>1. faults = 0
    BY FaultsCounted, MaxFaultsAssumption DEF TypeOK, Next
  <2>2. UNCHANGED Atomic!vars \/ Atomic!Next
    BY StepIsAtomic
  <2> QED
    BY <2>1, <2>2, AtomicConsistent DEF SeenConsistent
<1>4. SeenConsistent => ConsistentAtRest
  <2> SUFFICES ASSUME Atomic!Consistent, AtRest, NEW c \in ChatIds
               PROVE  AdminIsMember(c) /\ DeletedIsEmpty(c) /\ Members(c) \subseteq valid
    BY DEF SeenConsistent, ConsistentAtRest
  <2>1. SeenStatus[c] = status[c] /\ SeenAdmin[c] = admin[c] /\ SeenMembers[c] = Members(c)
    BY SeenAtRest
  <2> QED
    BY <2>1 DEF Atomic!Consistent, AdminIsMember, DeletedIsEmpty
<1> QED
  BY <1>1, <1>2, <1>3, <1>4, Typing, PTL DEF Spec

-----------------------------------------------------------------------------
(* What the crash of two quits needs.                                      *)

\* What the request of w knows at statement s of a chat it takes members out of.
DepartsAt(w, s) ==
  LET j == job[w]
  IN  /\ j.op \in {"add", "remove", "quit"} => j.chat \in ChatIds
      /\ s = "pass" => j.op \in AllOps
      /\ s \in {"chat", "inside"} => j.op \in {"add", "remove", "quit"}
      /\ s \in {"admin", "who"} => j.op \in {"add", "remove"}
      /\ s = "friend" => j.op = "add"
      /\ s = "remove" => j.op \in {"remove", "quit"}
      /\ s \in Quitting => j.op = "quit"
      /\ s \in {"invalidate", "leave_all"} => j.op = "unregister"
      /\ s \in {"am_admin", "first"} => Members(j.chat) # {}

Departs(w) == DepartsAt(w, job[w].at)

\* A handler goes on at a statement it has reason to go on at.
LEMMA DepartsGoOn ==
  ASSUME TypeOK, NEW w \in Workers, NEW s, DepartsAt(w, s), Goto(w, s),
         s \in {"am_admin", "first"} => UNCHANGED tables
  PROVE  Departs(w)'
<1>1. job'[w].at = s /\ job \in [Workers -> Job]
  BY GotoFields DEF TypeOK
<1>2. CASE s \in Resting
  BY <1>1, <1>2, GotoFields DEF Departs, DepartsAt, Resting, Quitting
<1>3. CASE s \notin Resting
  <2>1. job'[w].op = job[w].op /\ job'[w].chat = job[w].chat
    BY <1>1, <1>3, GotoFields
  <2>2. UNCHANGED tables => \A c : Members(c)' = Members(c)
    BY DEF tables, Members
  <2> QED
    BY <1>1, <2>1, <2>2 DEF Departs, DepartsAt
<1> QED
  BY <1>2, <1>3

\* Every statement, whether its query fails or not, goes on like that, and the
\* row of a first member is there.
LEMMA DepartsStep ==
  ASSUME TypeOK, NEW w \in Workers, Departs(w), Step(w), up
  PROVE  Departs(w)' /\ up'
<1> DEFINE j == job[w]
<1>0. job \in [Workers -> Job] /\ j \in Job
  BY DEF TypeOK
<1>1. DepartsAt(w, j.at)
  BY DEF Departs
<1>2. ASSUME NEW s, s \notin {"am_admin", "first"}, DepartsAt(w, s), Goto(w, s)
      PROVE  Departs(w)'
  BY <1>2, DepartsGoOn
<1>3. DepartsAt(w, "ok") /\ DepartsAt(w, "error") /\ DepartsAt(w, "undo") /\ DepartsAt(w, "enter_who")
  BY <1>1 DEF DepartsAt, Quitting
<1>4. ASSUME NEW Effect, NEW good, NEW bad, good # "am_admin", good # "first",
             bad \in {"ok", "error", "undo"}, DepartsAt(w, good), Attempt(w, Effect, good, bad)
      PROVE  Departs(w)' /\ up'
  BY <1>2, <1>3, <1>4 DEF Attempt
<1>5. CASE CheckPass(w)
  <2>1. j.at = "pass" /\ up' /\ (Goto(w, AfterLogin(j.op)) \/ Goto(w, "error"))
    BY <1>5 DEF CheckPass, At, Observed
  <2>2. DepartsAt(w, AfterLogin(j.op)) /\ AfterLogin(j.op) \notin {"am_admin", "first"}
    BY <1>1, <2>1 DEF AfterLogin, AllOps, DepartsAt, Quitting
  <2> QED
    BY <1>2, <1>3, <2>1, <2>2
<1>6. CASE LookUpMember(w)
  <2>1. up' /\ \E x : job' = [job EXCEPT ![w].at = "new_chat", ![w].who = x]
    BY <1>6 DEF LookUpMember, Observed, At
  <2>2. job'[w].at = "new_chat" /\ job'[w].op = j.op /\ job'[w].chat = j.chat
    BY <1>0, <2>1 DEF Job
  <2> QED
    BY <1>1, <2>1, <2>2 DEF Departs, DepartsAt, Quitting
<1>7. CASE InsertChat(w)
  <2>1. up' /\ (Goto(w, "error") \/ \E c \in ChatIds : job' = [job EXCEPT ![w].at = "enter_me", ![w].chat = c])
    BY <1>7 DEF InsertChat, At
  <2>2. CASE Goto(w, "error")
    BY <1>2, <1>3, <2>1, <2>2
  <2>3. ASSUME NEW c \in ChatIds, job' = [job EXCEPT ![w].at = "enter_me", ![w].chat = c]
        PROVE  Departs(w)'
    <3>1. job'[w].at = "enter_me" /\ job'[w].chat = c
      BY <1>0, <2>3 DEF Job
    <3> QED
      BY <3>1 DEF Departs, DepartsAt, Quitting
  <2> QED
    BY <2>1, <2>2, <2>3
<1>8. CASE EnterCreator(w) \/ UndoChat(w) \/ RecoverMember(w) \/ InsertMember(w)
  BY <1>3, <1>4, <1>8 DEF EnterCreator, UndoChat, RecoverMember, InsertMember
<1>9. CASE EnterMember(w)
  BY <1>2, <1>3, <1>4, <1>9 DEF EnterMember, At
<1>10. CASE CheckChat(w)
  <2>1. j.at = "chat" /\ up'
        /\ (Goto(w, IF j.op = "quit" THEN "inside" ELSE "admin") \/ Goto(w, "error"))
    BY <1>10 DEF CheckChat, At, Observed
  <2>2. DepartsAt(w, IF j.op = "quit" THEN "inside" ELSE "admin")
    BY <1>1, <2>1 DEF DepartsAt, Quitting
  <2> QED
    BY <1>2, <1>3, <2>1, <2>2
<1>11. CASE CheckAdmin(w)
  <2>1. j.at = "admin" /\ up' /\ (Goto(w, "who") \/ Goto(w, "error"))
    BY <1>11 DEF CheckAdmin, At, Observed
  <2>2. DepartsAt(w, "who")
    BY <1>1, <2>1 DEF DepartsAt, Quitting
  <2> QED
    BY <1>2, <1>3, <2>1, <2>2
<1>12. CASE LookUpTarget(w)
  <2>1. j.at = "who" /\ up'
        /\ (Goto(w, IF j.op = "add" THEN "friend" ELSE "inside") \/ Goto(w, "error"))
    BY <1>12 DEF LookUpTarget, At, Observed
  <2>2. DepartsAt(w, IF j.op = "add" THEN "friend" ELSE "inside")
    BY <1>1, <2>1 DEF DepartsAt, Quitting
  <2> QED
    BY <1>2, <1>3, <2>1, <2>2
<1>13. CASE CheckFriend(w)
  <2>1. j.at = "friend" /\ up' /\ (Goto(w, "inside") \/ Goto(w, "error"))
    BY <1>13 DEF CheckFriend, At, Observed
  <2>2. DepartsAt(w, "inside")
    BY <1>1, <2>1 DEF DepartsAt, Quitting
  <2> QED
    BY <1>2, <1>3, <2>1, <2>2
<1>14. CASE CheckInside(w)
  <2>1. j.at = "inside" /\ up'
        /\ (Goto(w, IF j.op = "add" THEN "entry" ELSE "remove") \/ Goto(w, "error"))
    BY <1>14 DEF CheckInside, At, Observed
  <2>2. DepartsAt(w, IF j.op = "add" THEN "entry" ELSE "remove")
    BY <1>1, <2>1 DEF DepartsAt, Quitting
  <2> QED
    BY <1>2, <1>3, <2>1, <2>2
<1>15. CASE CheckEntry(w)
  <2>1. up' /\ (Goto(w, "recover") \/ Goto(w, "insert"))
    BY <1>15 DEF CheckEntry, At, Observed
  <2>2. DepartsAt(w, "recover") /\ DepartsAt(w, "insert")
    BY <1>1 DEF DepartsAt, Quitting
  <2> QED
    BY <1>2, <2>1, <2>2
<1>16. CASE RemoveMember(w)
  <2>1. j.at = "remove" /\ Attempt(w, DelUserChat(j.who, j.chat),
                                   IF j.op = "quit" THEN "still" ELSE "ok", "error")
    BY <1>16 DEF RemoveMember, At
  <2>2. DepartsAt(w, IF j.op = "quit" THEN "still" ELSE "ok")
    BY <1>1, <2>1 DEF DepartsAt, Quitting
  <2> QED
    BY <1>4, <2>1, <2>2
<1>17. CASE CheckStillUsers(w)
  <2>1. PICK r \in Answers(StillUsersInChat(j.chat)) :
          Observed(r) /\ Goto(w, IF r = 1 THEN "am_admin" ELSE "close")
    BY <1>17 DEF CheckStillUsers
  <2>0. r = 1 => StillUsersInChat(j.chat)
    BY <2>1 DEF Answers
  <2>2. j.at = "still" /\ up' /\ UNCHANGED tables /\ (r = 1 => Members(j.chat) # {})
    BY <1>17, <2>0, <2>1 DEF CheckStillUsers, At, Observed, StillUsersInChat
  <2>3. DepartsAt(w, IF r = 1 THEN "am_admin" ELSE "close")
    BY <1>1, <2>2 DEF DepartsAt, Quitting
  <2> QED
    BY <2>1, <2>2, <2>3, DepartsGoOn
<1>18. CASE QuitterIsAdmin(w)
  <2>1. j.at = "am_admin" /\ up' /\ UNCHANGED tables /\ (Goto(w, "first") \/ Goto(w, "ok"))
    BY <1>18 DEF QuitterIsAdmin, At, Observed
  <2>2. DepartsAt(w, "first")
    BY <1>1, <2>1 DEF DepartsAt, Quitting
  <2> QED
    BY <1>3, <2>1, <2>2, DepartsGoOn
<1>19. CASE GetFirstUser(w)
  <2>1. j.at = "first" /\ Members(j.chat) # {} /\ j.op = "quit" /\ j.chat \in ChatIds
    BY <1>1, <1>19 DEF GetFirstUser, At, DepartsAt, Quitting
  <2>2. up' /\ \E u : job' = [job EXCEPT ![w].at = "handover", ![w].first = u]
    BY <1>19, <2>1 DEF GetFirstUser, At
  <2>3. job'[w].at = "handover" /\ job'[w].op = j.op /\ job'[w].chat = j.chat
    BY <1>0, <2>2 DEF Job
  <2> QED
    BY <2>1, <2>2, <2>3 DEF Departs, DepartsAt, Quitting
<1>20. CASE HandOver(w)
  BY <1>2, <1>3, <1>4, <1>20 DEF HandOver, At
<1>21. CASE CloseChat(w) \/ LeaveAll(w)
  BY <1>3, <1>4, <1>21 DEF CloseChat, LeaveAll
<1>22. CASE Invalidate(w)
  <2>1. j.at = "invalidate" /\ Attempt(w, DelUser(j.me), "leave_all", "error")
    BY <1>22 DEF Invalidate, At
  <2>2. DepartsAt(w, "leave_all")
    BY <1>1, <2>1 DEF DepartsAt, Quitting
  <2> QED
    BY <1>3, <1>4, <2>1, <2>2
<1> QED
  BY <1>5, <1>6, <1>7, <1>8, <1>9, <1>10, <1>11, <1>12, <1>13, <1>14, <1>15, <1>16, <1>17,
     <1>18, <1>19, <1>20, <1>21, <1>22 DEF Step

\* Only remove_member, quit_from_chat and user_unregister take members out.
LEMMA MembersStay ==
  ASSUME TypeOK, NEW w \in Workers, Step(w), ~ RemoveMember(w), ~ LeaveAll(w),
         NEW c \in ChatIds
  PROVE  Members(c) \subseteq Members(c)'
<1>0. TablesTypeOK
  BY DEF TypeOK
<1>1. UNCHANGED live => Members(c)' = Members(c)
  BY DEF Members
<1>2. UNCHANGED tables => UNCHANGED live
  BY DEF tables
<1>3. CASE \/ CheckChat(w) \/ CheckAdmin(w) \/ LookUpTarget(w) \/ CheckFriend(w)
           \/ CheckInside(w) \/ CheckEntry(w) \/ CheckStillUsers(w) \/ QuitterIsAdmin(w)
           \/ CheckPass(w) \/ LookUpMember(w) \/ GetFirstUser(w)
  BY <1>1, <1>2, <1>3 DEF CheckPass, CheckChat, CheckAdmin, LookUpTarget, CheckFriend,
     CheckInside, CheckEntry, CheckStillUsers, QuitterIsAdmin, LookUpMember, GetFirstUser,
     Observed
<1>4. CASE EnterCreator(w) \/ EnterMember(w) \/ RecoverMember(w) \/ InsertMember(w)
  <2>1. \/ UNCHANGED tables
        \/ \E u, d : AddUserChat(u, d) \/ RecoverUserChat(u, d)
    BY <1>4 DEF EnterCreator, EnterMember, RecoverMember, InsertMember, Attempt
  <2> QED
    BY <1>0, <1>1, <1>2, <2>1, MembersGrow
<1>5. CASE InsertChat(w) \/ UndoChat(w) \/ HandOver(w) \/ CloseChat(w) \/ Invalidate(w)
  <2>1. \/ UNCHANGED tables
        \/ \E u, d : AddChat(u, d) \/ DelChat(d) \/ ChangeAdmin(u, d) \/ DelUser(u)
    BY <1>5 DEF InsertChat, UndoChat, HandOver, CloseChat, Invalidate, Attempt
  <2>2. UNCHANGED live
    BY <1>2, <2>1 DEF AddChat, DelChat, ChangeAdmin, DelUser
  <2> QED
    BY <1>1, <2>2
<1> QED
  BY <1>3, <1>4, <1>5 DEF Step

\* Nobody else empties the chat of an administrator who is about to hand it over.
LEMMA OthersStay ==
  ASSUME TypeOK, DeparturesApart, NEW w \in Workers, NEW v \in Workers, v # w,
         Departs(w), Departs(v), Step(w), up'
  PROVE  Departs(v)'
<1>1. job'[v] = job[v]
  BY OtherJobs
<1>2. CASE job[v].at \notin {"am_admin", "first"}
  BY <1>1, <1>2 DEF Departs, DepartsAt
<1>3. CASE job[v].at \in {"am_admin", "first"}
  <2>1. job[v].op = "quit" /\ job[v].chat \in ChatIds /\ job[v].at \notin Resting
    BY <1>3 DEF Departs, DepartsAt, Quitting, Resting
  <2>2. /\ job[w].at = "remove" => job[w].op \in {"remove", "quit"} /\ job[w].at \notin Resting
        /\ job[w].at = "leave_all" => job[w].op = "unregister" /\ job[w].at \notin Resting
    BY DEF Departs, DepartsAt, Resting
  <2>3. /\ job[w].at # "leave_all"
        /\ job[w].at = "remove" => job[w].chat # job[v].chat
    BY <2>1, <2>2 DEF DeparturesApart
  <2>4. \A c \in ChatIds : c = job[v].chat => Members(c) \subseteq Members(c)'
    <3>1. CASE RemoveMember(w)
      <4>1. \A c \in ChatIds : c = job[v].chat => c # job[w].chat
        BY <2>3, <3>1 DEF RemoveMember, At
      <4>2. ~ InsertChat(w) /\ ~ Invalidate(w) /\ ~ LeaveAll(w)
        BY <3>1 DEF RemoveMember, InsertChat, Invalidate, LeaveAll, At
      <4> QED
        BY <4>1, <4>2, StepElsewhere DEF Elsewhere
    <3>2. CASE ~ RemoveMember(w)
      <4>1. ~ LeaveAll(w)
        BY <2>3 DEF LeaveAll, At
      <4> QED
        BY <3>2, <4>1, MembersStay
    <3> QED
      BY <3>1, <3>2
  <2>6. \A c \in ChatIds : c = job[v].chat /\ Members(c) # {} => Members(c)' # {}
    BY <2>4
  <2> QED
    BY <1>1, <2>1, <2>6 DEF Departs, DepartsAt
<1> QED
  BY <1>2, <1>3

\* What every request knows; a server that is down knows nothing.
DepartingInv == \A w \in Workers : Departs(w)

\* A step keeps it, and brings the process down only by a kill.
LEMMA DepartingInductive ==
  ASSUME TypeOK, DepartingInv, DeparturesApart, [Next]_vars
  PROVE  DepartingInv' /\ (up /\ ~up' => faults' = faults + 1)
<1>1. CASE UNCHANGED vars
  <2>1. UNCHANGED <<job, up>> /\ \A c : Members(c)' = Members(c)
    BY <1>1 DEF vars, Members
  <2> QED
    BY <2>1 DEF DepartingInv, Departs, DepartsAt
<1>2. ASSUME NEW w \in Workers, Request(w)
      PROVE  DepartingInv' /\ up'
  <2>1. job'[w].at = "pass" /\ job'[w].op \in AllOps
        /\ (job'[w].op \in {"add", "remove", "quit"} => job'[w].chat \in ChatIds)
        /\ up' /\ UNCHANGED tables
    <3>1. up /\ UNCHANGED <<tables, up>> /\ job \in [Workers -> Job]
      BY <1>2 DEF Request, TypeOK
    <3>2. PICK op \in Ops, me \in valid, who \in Users \cup {NoUser}, chat \in ChatIds \cup {NoChat} :
            /\ Arrives(w, op, me, who, chat)
            /\ op \in {"add", "remove", "quit"} => chat \in ChatIds
      BY <1>2, RequestArrives
    <3>3. job'[w].at = "pass" /\ job'[w].op = op /\ job'[w].chat = chat
      BY <3>1, <3>2 DEF Arrives
    <3> QED
      BY <3>1, <3>2, <3>3, OpsAssumption
  <2>2. Departs(w)'
    BY <2>1 DEF Departs, DepartsAt, Quitting
  <2>3. ASSUME NEW v \in Workers, v # w PROVE Departs(v)'
    <3>1. job'[v] = job[v]
      BY <1>2, <2>1, <2>3, OtherJobs
    <3>2. \A c : Members(c)' = Members(c)
      BY <2>1 DEF tables, Members
    <3> QED
      BY <3>1, <3>2 DEF DepartingInv, Departs, DepartsAt
  <2> QED
    BY <2>1, <2>2, <2>3 DEF DepartingInv
<1>3. ASSUME NEW w \in Workers, Step(w)
      PROVE  DepartingInv' /\ up'
  <2>1. up
    BY <1>3 DEF Step, CheckPass, LookUpMember, InsertChat, EnterCreator, UndoChat, EnterMember,
       CheckChat, CheckAdmin, LookUpTarget, CheckFriend, CheckInside, CheckEntry,
       RecoverMember, InsertMember, RemoveMember, CheckStillUsers, QuitterIsAdmin,
       GetFirstUser, HandOver, CloseChat, Invalidate, LeaveAll, At
  <2>2. Departs(w)' /\ up'
    BY <1>3, <2>1, DepartsStep DEF DepartingInv
  <2>3. \A v \in Workers : v # w => Departs(v)'
    BY <1>3, <2>2, OthersStay DEF DepartingInv
  <2> QED
    BY <2>2, <2>3 DEF DepartingInv
<1>4. CASE Kill
  <2>1. faults' = faults + 1 /\ \A w \in Workers : job'[w].at = "idle" /\ job'[w].op = "none"
    BY <1>4 DEF Kill, Stopped, Rest
  <2> QED
    BY <2>1 DEF DepartingInv, Departs, DepartsAt, Quitting
<1>5. CASE Restart
  <2>1. UNCHANGED job /\ up' /\ \A c : Members(c)' = Members(c)
    BY <1>5 DEF Restart, tables, Members
  <2> QED
    BY <2>1 DEF DepartingInv, Departs, DepartsAt
<1> QED
  BY <1>1, <1>2, <1>3, <1>4, <1>5 DEF Next, vars

\* Where nobody takes members out of a chat while somebody else quits from it,
\* every quit that looks for the first member of its chat finds one, however many
\* threads serve whatever else, and however many queries fail:
\* get_first_users_in_chat never reads a row that is not there.  Only a kill
\* stops the process.
THEOREM OnlyKilled == Spec /\ []DeparturesApart => OnlyKillsStop
<1>1. Init => DepartingInv
  <2>1. Init => \A w \in Workers : job[w].at = "idle" /\ job[w].op = "none"
    BY DEF Init, Rest
  <2> QED
    BY <2>1 DEF DepartingInv, Departs, DepartsAt, Quitting
<1>2. TypeOK /\ DepartingInv /\ DeparturesApart /\ [Next]_vars
        => DepartingInv' /\ [up /\ ~up' => faults' = faults + 1]_vars
  BY DepartingInductive
<1> QED
  BY <1>1, <1>2, Typing, PTL DEF Spec, OnlyKillsStop

\* So a server that loses no query and is not killed stays up.
THEOREM StaysUp == Spec /\ []DeparturesApart => []ServerSurvives
<1>1. Init => ServerSurvives
  BY DEF Init, ServerSurvives
<1>2. TypeOK /\ TypeOK' /\ ServerSurvives /\ [Next]_vars
        /\ [up /\ ~up' => faults' = faults + 1]_vars => ServerSurvives'
  <2> SUFFICES ASSUME TypeOK, TypeOK', ServerSurvives, [Next]_vars,
                      [up /\ ~up' => faults' = faults + 1]_vars, faults' = 0
               PROVE  up'
    BY DEF ServerSurvives
  <2>1. faults \in Nat /\ faults' \in Nat
    BY MaxFaultsAssumption DEF TypeOK
  <2>2. faults' \in {faults, faults + 1}
    BY FaultsCounted DEF Next
  <2>3. faults = 0 /\ up
    BY <2>1, <2>2 DEF ServerSurvives
  <2>4. CASE up /\ ~ up' => faults' = faults + 1
    BY <2>1, <2>3, <2>4
  <2>5. CASE UNCHANGED vars
    BY <2>3, <2>5 DEF vars
  <2> QED
    BY <2>4, <2>5
<1> QED
  BY <1>1, <1>2, OnlyKilled, Typing, PTL DEF Spec, OnlyKillsStop

-----------------------------------------------------------------------------
(* What faults spoil when several requests that keep apart are at work.    *)

\* Requests that keep apart depart apart.
LEMMA ApartDepartures ==
  ASSUME DepartingInv, ChatsApart
  PROVE  DeparturesApart
BY DEF DepartingInv, Departs, DepartsAt, ChatsApart, DeparturesApart

\* A chat no fault has harmed: consistent or being mended by a request, and what
\* the requests about it have read is so.
SharedSound(c) ==
  /\ DeletedIsEmpty(c)
  /\ AdminIsMember(c) \/ \E w \in Workers : Mending(w, c, job[w].at)
  /\ \A w \in Workers : job[w].chat = c => Known(w, c, job[w].at)

\* The chats that are not sound and the users who are not whole are at most one
\* per worker and fault.
SharedDamageInv ==
  /\ DepartingInv
  /\ \A w \in Workers : Leaving(w) /\ Named(w)
  /\ \E H :
       /\ IsFiniteSet(H) /\ Cardinality(H) <= faults * Cardinality(Workers)
       /\ \A c \in ChatIds : <<"chat", c>> \notin H => SharedSound(c)
       /\ \A u \in Users : <<"user", u>> \notin H => Whole(u)

\* Who is at rest knows nothing and mends nothing.
LEMMA RestKnows ==
  ASSUME NEW w, NEW c, NEW s \in Resting
  PROVE  Known(w, c, s) /\ ~ Mending(w, c, s)
BY DEF Known, Mending, Resting

\* A statement of a request about another chat, while somebody is at work on c.
LEMMA BusyChatSound ==
  ASSUME TypeOK, DepartingInv, ChatsApart, ChatsApart', NEW w \in Workers, Step(w), up',
         NEW c \in ChatIds, SharedSound(c), NEW v \in Workers, v # w,
         job[v].chat = c, job[v].at \notin Resting
  PROVE  SharedSound(c)'
<1>1. job'[v] = job[v] /\ job[w].at \notin Resting
  BY OtherJobs, AtWork
<1>2. job[w].op # "unregister" /\ job[w].chat # c
  BY <1>1 DEF ChatsApart
<1>3. ~ Invalidate(w) /\ ~ LeaveAll(w)
  BY <1>2 DEF Invalidate, LeaveAll, At, DepartingInv, Departs, DepartsAt
<1>4. job'[w].chat # c \/ job'[w].at \in Resting
  BY <1>1 DEF ChatsApart
<1>5. /\ UNCHANGED valid /\ status'[c] = status[c] /\ admin'[c] = admin[c]
      /\ Members(c)' = Members(c)
  BY <1>2, <1>3, <1>4, OtherRows
<1>6. DeletedIsEmpty(c)' /\ (AdminIsMember(c)' <=> AdminIsMember(c))
  BY <1>5 DEF SharedSound, DeletedIsEmpty, AdminIsMember
<1>7. ASSUME NEW u \in Workers, Mending(u, c, job[u].at)
      PROVE  Mending(u, c, job[u].at)'
  <2>1. job'[u] = job[u]
    BY <1>2, <1>7, OtherJobs DEF Mending
  <2> QED
    BY <1>5, <1>7, <2>1 DEF Mending
<1>8. ASSUME NEW u \in Workers, job'[u].chat = c
      PROVE  Known(u, c, job[u].at)'
  <2>1. CASE u = w
    BY <1>4, <1>8, <2>1 DEF Known, Resting
  <2>2. CASE u # w
    <3>1. job'[u] = job[u]
      BY <2>2, OtherJobs
    <3>2. Known(u, c, job[u].at)
      BY <1>8, <3>1 DEF SharedSound
    <3> QED
      BY <1>5, <3>1, <3>2 DEF Known
  <2> QED
    BY <2>1, <2>2
<1> QED
  BY <1>6, <1>7, <1>8 DEF SharedSound

\* A statement keeps every sound chat sound, but the one at stake where it fails.
LEMMA SharedStep ==
  ASSUME TypeOK, DepartingInv, ChatsApart, ChatsApart', NEW w \in Workers, Step(w), up',
         Leaving(w), NEW c \in ChatIds, SharedSound(c), faults' = faults \/ AtStake(w) # <<"chat", c>>
  PROVE  SharedSound(c)'
<1>1. CASE \E v \in Workers : v # w /\ job[v].chat = c /\ job[v].at \notin Resting
  BY <1>1, BusyChatSound
<1>2. CASE ~ \E v \in Workers : v # w /\ job[v].chat = c /\ job[v].at \notin Resting
  <2>1. \A u \in Workers : Mending(u, c, job[u].at) => u = w
    BY <1>2, RestKnows DEF Mending
  <2>2. Sound(w, c)
    BY <2>1 DEF SharedSound, Sound, SoundAt
  <2>3. Sound(w, c)'
    BY <2>2, StepSound
  <2>4. ASSUME NEW u \in Workers, u # w, job'[u].chat = c
        PROVE  Known(u, c, job[u].at)'
    <3>1. job'[u] = job[u]
      BY <2>4, OtherJobs
    <3>2. job'[u].at \in Resting
      BY <1>2, <2>4, <3>1
    <3> QED
      BY <3>2 DEF Known, Resting
  <2> QED
    BY <2>3, <2>4 DEF SharedSound, Sound, SoundAt
<1> QED
  BY <1>1, <1>2

\* So do a request that arrives, and a kill but for the chats it finds at stake.
LEMMA SharedOutside ==
  ASSUME TypeOK, NEW c \in ChatIds, SharedSound(c),
         \/ \E w \in Workers : Request(w)
         \/ Kill /\ \A v \in Workers : AtStake(v) # <<"chat", c>>
         \/ Restart \/ UNCHANGED vars
  PROVE  SharedSound(c)'
<1>0. job \in [Workers -> Job]
  BY DEF TypeOK
<1>1. /\ UNCHANGED valid /\ status'[c] = status[c] /\ admin'[c] = admin[c]
      /\ Members(c)' = Members(c)
  BY TablesElsewhere DEF Request, Restart, Kill, vars, tables
<1>2. DeletedIsEmpty(c)' /\ (AdminIsMember(c)' <=> AdminIsMember(c))
  BY <1>1 DEF SharedSound, DeletedIsEmpty, AdminIsMember
<1>3. ASSUME NEW w \in Workers, Request(w)
      PROVE  SharedSound(c)'
  <2>1. PICK op, me, who, chat : Arrives(w, op, me, who, chat) /\ (op = "quit" => who = me)
    BY <1>3, RequestArrives
  <2>2. /\ job'[w].at = "pass" /\ job[w].at \in Resting
        /\ job'[w].op = "quit" => job'[w].who = job'[w].me
        /\ \A u \in Workers : u # w => job'[u] = job[u]
    BY <1>0, <1>3, <2>1 DEF Arrives, Request
  <2>3. ASSUME NEW u \in Workers, Mending(u, c, job[u].at)
        PROVE  Mending(u, c, job[u].at)'
    <3>1. u # w
      BY <2>2, <2>3, RestKnows
    <3> QED
      BY <1>1, <2>2, <2>3, <3>1 DEF Mending
  <2>4. ASSUME NEW u \in Workers, job'[u].chat = c
        PROVE  Known(u, c, job[u].at)'
    <3>1. CASE u = w
      BY <2>2, <3>1 DEF Known
    <3>2. CASE u # w
      <4>1. job'[u] = job[u]
        BY <2>2, <3>2
      <4>2. Known(u, c, job[u].at)
        BY <2>4, <4>1 DEF SharedSound
      <4> QED
        BY <1>1, <4>1, <4>2 DEF Known
    <3> QED
      BY <3>1, <3>2
  <2> QED
    BY <1>2, <2>3, <2>4 DEF SharedSound
<1>4. CASE Restart \/ UNCHANGED vars
  <2>1. UNCHANGED job
    BY <1>4 DEF Restart, vars
  <2> QED
    BY <1>1, <1>2, <2>1 DEF SharedSound, Mending, Known
<1>5. CASE Kill /\ \A v \in Workers : AtStake(v) # <<"chat", c>>
  <2>1. AdminIsMember(c)
    BY <1>5 DEF AtStake, SharedSound, Mending
  <2>2. \A u \in Workers : job'[u].at = "idle"
    BY <1>5 DEF Kill, Stopped, Rest
  <2> QED
    BY <1>2, <2>1, <2>2 DEF SharedSound, Known
<1> QED
  BY <1>3, <1>4, <1>5

\* Nobody becomes valid again.
LEMMA OthersLeave ==
  ASSUME TypeOK, NEW w \in Workers, Step(w), up', NEW v \in Workers, v # w, Leaving(v)
  PROVE  Leaving(v)'
<1>1. job'[v] = job[v]
  BY OtherJobs
<1>2. valid' \subseteq valid
  <2>1. CASE Invalidate(w)
    BY <2>1 DEF Invalidate, Attempt, DelUser, tables
  <2>2. CASE ~ Invalidate(w)
    BY <2>2, OneValid
  <2> QED
    BY <2>1, <2>2
<1> QED
  BY <1>1, <1>2 DEF Leaving

\* Who is named in a request stays valid while another request is at work.
LEMMA OthersNamed ==
  ASSUME TypeOK, DepartingInv, ChatsApart, NEW w \in Workers, Step(w), up',
         NEW v \in Workers, v # w, Named(v)
  PROVE  Named(v)'
<1>1. job'[v] = job[v] /\ job[w].at \notin Resting
  BY OtherJobs, AtWork
<1>2. CASE job[v].at \in Resting
  BY <1>1, <1>2 DEF Named, NamedAt, Resting
<1>3. CASE job[v].at \notin Resting
  <2>1. job[w].op # "unregister"
    BY <1>1, <1>3 DEF ChatsApart
  <2>2. ~ Invalidate(w)
    BY <2>1 DEF Invalidate, At, DepartingInv, Departs, DepartsAt
  <2>3. UNCHANGED valid
    BY <2>2, OneValid
  <2> QED
    BY <1>1, <2>3 DEF Named, NamedAt
<1> QED
  BY <1>2, <1>3

\* What is at stake is no more than the workers.
LEMMA StakesAtWork ==
  ASSUME IsFiniteSet(Workers)
  PROVE  LET Stakes == {AtStake(w) : w \in Workers}
         IN  /\ IsFiniteSet(Stakes) /\ Cardinality(Stakes) \in Nat
             /\ Cardinality(Stakes) <= Cardinality(Workers)
<1> DEFINE Stakes == {AtStake(w) : w \in Workers}
           f == [w \in Workers |-> AtStake(w)]
<1>1. f \in Surjection(Workers, Stakes)
  BY DEF Surjection
<1> HIDE DEF Stakes, f
<1>2. IsFiniteSet(Stakes) /\ Cardinality(Stakes) <= Cardinality(Workers)
  BY <1>1, FS_Surjection
<1> QED
  BY <1>2, FS_CardinalityType DEF Stakes

\* A fault adds what is at stake to what may be harmed; nothing else does.
LEMMA SharedDamageInductive ==
  ASSUME IsFiniteSet(Workers), TypeOK, SharedDamageInv, ChatsApart, ChatsApart', [Next]_vars
  PROVE  SharedDamageInv'
<1> DEFINE n == Cardinality(Workers)
           Stakes == {AtStake(w) : w \in Workers}
<1>0. /\ faults \in Nat /\ n \in Nat /\ DepartingInv
      /\ \A w \in Workers : Leaving(w) /\ Named(w)
      /\ IsFiniteSet(Stakes) /\ Cardinality(Stakes) \in Nat /\ Cardinality(Stakes) <= n
  BY StakesAtWork, FS_CardinalityType, MaxFaultsAssumption DEF TypeOK, SharedDamageInv
<1>1. DepartingInv' /\ (up /\ ~up' => faults' = faults + 1)
  BY <1>0, ApartDepartures, DepartingInductive
<1>2. PICK H :
        /\ IsFiniteSet(H) /\ Cardinality(H) <= faults * n
        /\ \A c \in ChatIds : <<"chat", c>> \notin H => SharedSound(c)
        /\ \A u \in Users : <<"user", u>> \notin H => Whole(u)
  BY DEF SharedDamageInv
<1>3. ASSUME NEW w \in Workers, Step(w)
      PROVE  up'
  BY <1>0, <1>3, AtWork, DepartsStep DEF DepartingInv
<1>4. \A v \in Workers : Leaving(v)' /\ Named(v)'
  <2>1. ASSUME NEW w \in Workers, Step(w), NEW v \in Workers
        PROVE  Leaving(v)' /\ Named(v)'
    BY <1>0, <1>3, <2>1, LeavingKept, OthersLeave, NamedKept, OthersNamed
  <2>2. ASSUME NEW w \in Workers, Request(w), NEW v \in Workers
        PROVE  Leaving(v)' /\ Named(v)'
    <3>1. CASE v = w
      BY <1>0, <2>2, <3>1, LeavingKept, NamedKept
    <3>2. CASE v # w
      <4>1. UNCHANGED valid /\ up'
        BY <2>2 DEF Request, tables
      <4>2. job'[v] = job[v]
        BY <2>2, <3>2, <4>1, OtherJobs
      <4>3. Leaving(v) /\ Named(v)
        BY <1>0
      <4> QED
        BY <4>1, <4>2, <4>3 DEF Leaving, Named, NamedAt
    <3> QED
      BY <3>1, <3>2
  <2> QED
    BY <1>0, <2>1, <2>2, LeavingKept, NamedKept DEF Next
<1>5. ASSUME NEW c \in ChatIds, <<"chat", c>> \notin H, faults' = faults \/ <<"chat", c>> \notin Stakes
      PROVE  SharedSound(c)'
  <2>1. SharedSound(c)
    BY <1>2, <1>5
  <2>2. ASSUME NEW w \in Workers, Step(w)
        PROVE  SharedSound(c)'
    <3>1. faults' = faults \/ AtStake(w) # <<"chat", c>>
      BY <1>5
    <3> QED
      BY <1>0, <1>3, <2>1, <2>2, <3>1, SharedStep
  <2>3. CASE Kill
    <3>1. \A v \in Workers : AtStake(v) # <<"chat", c>>
      BY <1>0, <1>5, <2>3 DEF Kill
    <3> QED
      BY <2>1, <2>3, <3>1, SharedOutside
  <2> QED
    BY <2>1, <2>2, <2>3, SharedOutside DEF Next
<1>6. ASSUME NEW u \in Users, <<"user", u>> \notin H, faults' = faults \/ <<"user", u>> \notin Stakes
      PROVE  Whole(u)'
  <2>1. Whole(u)
    BY <1>2, <1>6
  <2>2. ASSUME NEW w \in Workers, Step(w)
        PROVE  Whole(u)'
    <3>1. faults' = faults \/ AtStake(w) # <<"user", u>>
      BY <1>6
    <3>2. \A v \in Workers : v # w => job'[v] = job[v]
      BY <1>3, <2>2, OtherJobs
    <3> QED
      BY <1>0, <2>1, <2>2, <3>1, <3>2, StepWhole
  <2>3. CASE Kill
    <3>1. \A v \in Workers : AtStake(v) # <<"user", u>>
      BY <1>0, <1>6, <2>3 DEF Kill
    <3> QED
      BY <2>1, <2>3, <3>1, OutsideWhole
  <2> QED
    BY <2>1, <2>2, <2>3, OutsideWhole DEF Next
<1>7. CASE faults' = faults
  BY <1>1, <1>2, <1>4, <1>5, <1>6, <1>7 DEF SharedDamageInv
<1>8. CASE faults' = faults + 1
  <2> DEFINE E == H \cup Stakes
  <2>1. \A c \in ChatIds : <<"chat", c>> \notin E => SharedSound(c)'
    BY <1>5
  <2>2. \A u \in Users : <<"user", u>> \notin E => Whole(u)'
    BY <1>6
  <2>3. IsFiniteSet(E) /\ Cardinality(E) <= faults' * n
    <3>1. IsFiniteSet(E) /\ Cardinality(H) \in Nat /\ Cardinality(H \cap Stakes) \in Nat
          /\ Cardinality(E) = Cardinality(H) + Cardinality(Stakes) - Cardinality(H \cap Stakes)
      BY <1>0, <1>2, FS_Union, FS_Intersection, FS_CardinalityType
    <3>2. faults' * n = faults * n + n /\ faults * n \in Nat
      BY <1>0, <1>8
    <3> HIDE DEF E, Stakes, n
    <3> QED
      BY <1>0, <1>2, <3>1, <3>2
  <2> HIDE DEF E
  <2> QED
    BY <1>1, <1>4, <2>1, <2>2, <2>3 DEF SharedDamageInv
<1>9. faults' = faults \/ faults' = faults + 1
  BY FaultsCounted DEF Next
<1> QED
  BY <1>7, <1>8, <1>9

\* Requests that keep apart spread no damage either: n failed queries and killed
\* servers leave at most n chats and users per worker harmed, whatever requests
\* follow.  A failed query harms what its request is about, a kill what all
\* requests at work are about.
THEOREM FaultsHarmWhatIsAtWork ==
  ASSUME IsFiniteSet(Workers)
  PROVE  Spec /\ []ChatsApart => []DamageIsBounded
<1>1. Init => SharedDamageInv
  <2> SUFFICES ASSUME Init PROVE SharedDamageInv
    OBVIOUS
  <2>1. faults = 0 /\ \A w \in Workers : job[w].at = "idle" /\ job[w].op = "none"
    BY DEF Init, Rest
  <2>2. \A c \in ChatIds : AdminIsMember(c) /\ DeletedIsEmpty(c)
    BY DEF Init, AdminIsMember, DeletedIsEmpty
  <2>3. \A c \in ChatIds : SharedSound(c)
    BY <2>1, <2>2 DEF SharedSound, Known
  <2>4. \A u \in Users : Whole(u)
    BY DEF Init, Whole
  <2>5. IsFiniteSet({}) /\ Cardinality({}) <= faults * Cardinality(Workers)
    BY <2>1, FS_EmptySet, FS_CardinalityType
  <2>6. DepartingInv
    BY <2>1 DEF DepartingInv, Departs, DepartsAt, Quitting
  <2>7. \A w \in Workers : Leaving(w) /\ Named(w)
    BY <2>1 DEF Leaving, Named, NamedAt, Resting
  <2> QED
    BY <2>3, <2>4, <2>5, <2>6, <2>7 DEF SharedDamageInv
<1>2. TypeOK /\ SharedDamageInv /\ ChatsApart /\ ChatsApart' /\ [Next]_vars => SharedDamageInv'
  BY SharedDamageInductive
<1>3. TypeOK /\ SharedDamageInv => DamageIsBounded
  <2> SUFFICES ASSUME TypeOK, SharedDamageInv, AtRest
               PROVE  Cardinality(Damage) <= faults * Cardinality(Workers)
    BY DEF DamageIsBounded
  <2>1. PICK H :
          /\ IsFiniteSet(H) /\ Cardinality(H) <= faults * Cardinality(Workers)
          /\ \A c \in ChatIds : <<"chat", c>> \notin H => SharedSound(c)
          /\ \A u \in Users : <<"user", u>> \notin H => Whole(u)
    BY DEF SharedDamageInv
  <2>2. \A c \in ChatIds : <<"chat", c>> \notin H => AdminIsMember(c) /\ DeletedIsEmpty(c)
    BY <2>1, RestKnows DEF AtRest, SharedSound
  <2>3. faults * Cardinality(Workers) \in Nat
    <3>1. faults \in Nat /\ Cardinality(Workers) \in Nat
      BY FS_CardinalityType, MaxFaultsAssumption DEF TypeOK
    <3> QED
      BY <3>1
  <2> QED
    BY <2>1, <2>2, <2>3, DamageAmong
<1> QED
  BY <1>1, <1>2, <1>3, Typing, PTL DEF Spec

\* Requests that keep apart do not bring the process down, however many of their
\* queries fail.
THEOREM ApartOnlyKilled == Spec /\ []ChatsApart => OnlyKillsStop
<1>1. Init => DepartingInv
  <2>1. Init => \A w \in Workers : job[w].at = "idle" /\ job[w].op = "none"
    BY DEF Init, Rest
  <2> QED
    BY <2>1 DEF DepartingInv, Departs, DepartsAt, Quitting
<1>2. TypeOK /\ DepartingInv /\ ChatsApart /\ [Next]_vars
        => DepartingInv' /\ [up /\ ~up' => faults' = faults + 1]_vars
  BY ApartDepartures, DepartingInductive
<1> QED
  BY <1>1, <1>2, Typing, PTL DEF Spec, OnlyKillsStop
=============================================================================
