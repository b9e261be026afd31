--------------------------- MODULE Damage_proofs ----------------------------
(***************************************************************************)
(* Why a failed query or a killed server harms one chat at most, or the    *)
(* membership of one user: what the request at hand is about.              *)
(***************************************************************************)
EXTENDS Chats_proofs, FiniteSetTheorems

\* The request of w, at statement s, has left chat c without an administrator
\* among its members, and is about to enter its creator, to hand it over or to
\* delete it.
Mending(w, c, s) ==
  /\ job[w].chat = c
  /\ \/ s = "close"
     \/ /\ s \in {"enter_me", "still", "am_admin", "first", "handover"}
        /\ admin[c] = job[w].me

\* What the request of w knows about its chat c at statement s.
Known(w, c, s) ==
  LET j == job[w]
  IN  /\ s # "undo"
      /\ s \in {"enter_me", "enter_who", "admin", "who", "friend", "inside", "entry",
                "recover", "insert", "remove", "still", "am_admin", "first", "handover"}
           => status[c] = "valid"
      /\ s \in {"admin", "who", "friend"} => j.op # "quit"
      /\ s \in {"pass", "chat", "inside", "remove"} /\ j.op = "quit" => j.who = j.me
      /\ s \in {"who", "friend", "inside", "remove"} /\ j.op # "quit" => admin[c] = j.me
      /\ s \in {"friend", "inside", "remove"} /\ j.op # "quit" => j.who # j.me
      /\ s \in {"am_admin", "first"} => Members(c) # {}
      /\ s = "handover" => j.first \in Members(c)
      /\ s = "close" => Members(c) = {}

\* A chat no fault has harmed: consistent or being mended, and what the request
\* at hand has read about it is so.
SoundAt(w, c, s) ==
  /\ DeletedIsEmpty(c)
  /\ AdminIsMember(c) \/ Mending(w, c, s)
  /\ job[w].chat = c => Known(w, c, s)

Sound(w, c) == SoundAt(w, c, job[w].at)

\* user_unregister takes a user out of the chats after it made him invalid.
Leaving(w) == job[w].at = "leave_all" => job[w].me \notin valid

\* Whom the request of w at statement s may enter in a chat is valid.
NamedAt(w, s) ==
  LET j == job[w]
  IN  /\ s \notin Resting \cup {"leave_all"} => j.me \in valid
      /\ s \in {"friend", "entry", "recover", "insert"} => j.who \in valid
      /\ s = "inside" /\ j.op = "add" => j.who \in valid
      /\ s \in {"new_chat", "enter_me", "enter_who"} => j.who \in valid \cup {NoUser}

Named(w) == NamedAt(w, job[w].at)

\* A user no fault has harmed: valid, or in no chat, or about to be taken out of
\* all his chats.
Whole(u) ==
  \/ u \in valid
  \/ \A c \in ChatIds : u \notin Members(c)
  \/ \E v \in Workers : job[v].at = "leave_all" /\ job[v].me = u

\* What a fault may harm while w is at work.
AtStake(w) ==
  IF job[w].at = "leave_all" THEN <<"user", job[w].me>> ELSE <<"chat", job[w].chat>>

\* All chats but some are sound and all users but some are whole, and the
\* exceptions are as many as there were faults.
DamageInv(w) ==
  /\ Leaving(w) /\ Named(w)
  /\ \E H :
       /\ IsFiniteSet(H) /\ Cardinality(H) <= faults
       /\ \A c \in ChatIds : <<"chat", c>> \notin H => Sound(w, c)
       /\ \A u \in Users : <<"user", u>> \notin H => Whole(u)

-----------------------------------------------------------------------------
(* The other chats.                                                        *)

\* Nothing changes in chat c, and the request at hand is not about it.
Elsewhere(w, c) ==
  /\ UNCHANGED valid /\ status'[c] = status[c] /\ admin'[c] = admin[c]
  /\ Members(c)' = Members(c)
  /\ job'[w].chat # c \/ job'[w].at \in Resting

LEMMA ElsewhereSound ==
  ASSUME NEW w, NEW c, Sound(w, c), AdminIsMember(c), Elsewhere(w, c)
  PROVE  Sound(w, c)'
<1>1. AdminIsMember(c)' /\ DeletedIsEmpty(c)'
  BY DEF Sound, SoundAt, Elsewhere, AdminIsMember, DeletedIsEmpty
<1>2. CASE job'[w].chat # c
  BY <1>1, <1>2 DEF Sound, SoundAt
<1>3. CASE job'[w].at \in Resting
  BY <1>1, <1>3 DEF Sound, SoundAt, Known, Resting
<1> QED
  BY <1>2, <1>3 DEF Elsewhere

\* A writer changes the rows of the chat it names only.
LEMMA RowsElsewhere ==
  ASSUME TablesTypeOK, NEW u, NEW chat, NEW c \in ChatIds, c # chat,
         \/ DelChat(chat) \/ ChangeAdmin(u, chat) \/ AddChat(u, chat)
         \/ AddUserChat(u, chat) \/ RecoverUserChat(u, chat) \/ DelUserChat(u, chat)
  PROVE  /\ UNCHANGED valid /\ status'[c] = status[c] /\ admin'[c] = admin[c]
         /\ Members(c)' = Members(c)
<1>1. UNCHANGED valid /\ status'[c] = status[c] /\ admin'[c] = admin[c] /\ live'[c] = live[c]
  BY DEF TablesTypeOK, DelChat, ChangeAdmin, AddChat, AddUserChat, RecoverUserChat, DelUserChat
<1> QED
  BY <1>1 DEF Members

\* What the statements about members do to the members of the chat they name.
LEMMA RowsHere ==
  ASSUME TablesTypeOK, NEW u, NEW c \in ChatIds
  PROVE  /\ AddUserChat(u, c) \/ RecoverUserChat(u, c) => Members(c) \subseteq Members(c)'
         /\ AddUserChat(u, c) /\ u \in Users => u \in Members(c)'
         /\ DelUserChat(u, c) => Members(c)' = Members(c) \ {u}
         /\ DelUserAllChats(u) => Members(c)' = Members(c) \ {u}
<1>1. /\ live \in [ChatIds -> [Users -> Nat]] /\ left \in [ChatIds -> [Users -> Nat]]
      /\ \A v \in Users : live[c][v] \in Nat /\ left[c][v] \in Nat
  BY DEF TablesTypeOK
<1>2. ASSUME AddUserChat(u, c)
      PROVE  Members(c) \subseteq Members(c)' /\ (u \in Users => u \in Members(c)')
  <2>1. \A v \in Users : live'[c][v] = IF v = u THEN live[c][v] + 1 ELSE live[c][v]
    BY <1>1, <1>2 DEF AddUserChat
  <2> QED
    BY <1>1, <2>1 DEF Members
<1>3. ASSUME RecoverUserChat(u, c) PROVE Members(c) \subseteq Members(c)'
  <2>1. \A v \in Users : live'[c][v] = IF v = u THEN live[c][v] + left[c][v] ELSE live[c][v]
    BY <1>1, <1>3 DEF RecoverUserChat, AllRows
  <2> QED
    BY <1>1, <2>1 DEF Members
<1>4. ASSUME DelUserChat(u, c) PROVE Members(c)' = Members(c) \ {u}
  <2>1. \A v \in Users : live'[c][v] = IF v = u THEN 0 ELSE live[c][v]
    BY <1>1, <1>4 DEF DelUserChat
  <2> QED
    BY <1>1, <2>1 DEF Members
<1>5. ASSUME DelUserAllChats(u) PROVE Members(c)' = Members(c) \ {u}
  <2>1. \A v \in Users : live'[c][v] = IF v = u THEN 0 ELSE live[c][v]
    BY <1>1, <1>5 DEF DelUserAllChats
  <2> QED
    BY <1>1, <2>1 DEF Members
<1> QED
  BY <1>2, <1>3, <1>4, <1>5

\* What a reader, a writer and a failed statement leave of the other chats.
LEMMA GotoElsewhere ==
  ASSUME TypeOK, NEW w \in Workers, NEW c \in ChatIds, c # job[w].chat,
         NEW s, Goto(w, s)
  PROVE  job'[w].chat # c \/ job'[w].at \in Resting
BY GotoFields DEF TypeOK

LEMMA TablesElsewhere ==
  ASSUME NEW c, UNCHANGED tables
  PROVE  /\ UNCHANGED valid /\ status'[c] = status[c] /\ admin'[c] = admin[c]
         /\ Members(c)' = Members(c)
BY DEF tables, Members

\* A statement that fails or succeeds leaves all other chats as they are, except
\* for a new chat and the statements of user_unregister.
LEMMA StepElsewhere ==
  ASSUME TypeOK, NEW w \in Workers, NEW c \in ChatIds, c # job[w].chat,
         Step(w), ~ InsertChat(w), ~ Invalidate(w), ~ LeaveAll(w)
  PROVE  Elsewhere(w, c)
<1> DEFINE j == job[w]
<1>0. TablesTypeOK /\ job \in [Workers -> Job] /\ j \in Job
  BY DEF TypeOK
<1>1. ASSUME NEW s, Goto(w, s), UNCHANGED tables PROVE Elsewhere(w, c)
  BY <1>1, GotoElsewhere, TablesElsewhere DEF Elsewhere
<1>2. ASSUME NEW s, Goto(w, s), NEW u,
             \/ DelChat(j.chat) \/ ChangeAdmin(u, j.chat)
             \/ AddUserChat(u, j.chat) \/ RecoverUserChat(u, j.chat) \/ DelUserChat(u, j.chat)
      PROVE  Elsewhere(w, c)
  BY <1>0, <1>2, GotoElsewhere, RowsElsewhere DEF Elsewhere
<1>3. ASSUME NEW u, NEW good, NEW bad,
             \/ Attempt(w, DelChat(j.chat), good, bad)
             \/ Attempt(w, ChangeAdmin(u, j.chat), good, bad)
             \/ Attempt(w, AddUserChat(u, j.chat), good, bad)
             \/ Attempt(w, RecoverUserChat(u, j.chat), good, bad)
             \/ Attempt(w, DelUserChat(u, j.chat), good, bad)
      PROVE  Elsewhere(w, c)
  BY <1>1, <1>2, <1>3 DEF Attempt
<1>4. CASE \/ CheckPass(w) \/ CheckChat(w) \/ CheckAdmin(w) \/ LookUpTarget(w)
           \/ CheckFriend(w) \/ CheckInside(w) \/ CheckEntry(w) \/ CheckStillUsers(w)
           \/ QuitterIsAdmin(w)
  BY <1>1, <1>4 DEF CheckPass, CheckChat, CheckAdmin, LookUpTarget, CheckFriend, CheckInside,
     CheckEntry, CheckStillUsers, QuitterIsAdmin, Observed
<1>5. CASE LookUpMember(w)
  <2>1. UNCHANGED tables /\ \E x : job' = [job EXCEPT ![w].at = "new_chat", ![w].who = x]
    BY <1>5 DEF LookUpMember, Observed
  <2>2. job'[w].chat = j.chat
    BY <1>0, <2>1 DEF Job
  <2> QED
    BY <2>1, <2>2, TablesElsewhere DEF Elsewhere
<1>6. CASE GetFirstUser(w)
  <2>1. UNCHANGED tables
    BY <1>6 DEF GetFirstUser
  <2>2. job' = Stopped \/ \E x : job' = [job EXCEPT ![w].at = "handover", ![w].first = x]
    BY <1>6 DEF GetFirstUser
  <2>3. job'[w].chat = j.chat \/ job'[w].at = "idle"
    BY <1>0, <2>2 DEF Stopped, Rest, Job
  <2> QED
    BY <2>1, <2>3, TablesElsewhere DEF Elsewhere, Resting
<1>7. CASE EnterCreator(w) \/ RecoverMember(w) \/ InsertMember(w) \/ RemoveMember(w)
  BY <1>3, <1>7 DEF EnterCreator, RecoverMember, InsertMember, RemoveMember
<1>8. CASE UndoChat(w) \/ CloseChat(w)
  BY <1>3, <1>8 DEF UndoChat, CloseChat
<1>9. CASE EnterMember(w) \/ HandOver(w)
  BY <1>1, <1>3, <1>9 DEF EnterMember, HandOver
<1> QED
  BY <1>4, <1>5, <1>6, <1>7, <1>8, <1>9 DEF Step

-----------------------------------------------------------------------------
(* The chat at hand.                                                       *)

\* A reader goes on at a statement that knows no more than it has found.
LEMMA GoesOn ==
  ASSUME TypeOK, NEW w \in Workers, NEW c \in ChatIds, NEW s,
         SoundAt(w, c, s), UNCHANGED tables, Goto(w, s)
  PROVE  Sound(w, c)'
<1>1. UNCHANGED valid /\ status'[c] = status[c] /\ admin'[c] = admin[c]
      /\ Members(c)' = Members(c)
  BY TablesElsewhere
<1>2. DeletedIsEmpty(c)' /\ (AdminIsMember(c)' <=> AdminIsMember(c))
  BY <1>1 DEF SoundAt, DeletedIsEmpty, AdminIsMember
<1>3. job'[w].at = s /\ job \in [Workers -> Job]
  BY GotoFields DEF TypeOK
<1>4. CASE s \in Resting
  <2>1. AdminIsMember(c)
    BY <1>4 DEF SoundAt, Mending, Resting
  <2> QED
    BY <1>2, <1>3, <1>4, <2>1 DEF Sound, SoundAt, Known, Resting
<1>5. CASE s \notin Resting
  <2>1. /\ job'[w].op = job[w].op /\ job'[w].me = job[w].me /\ job'[w].who = job[w].who
        /\ job'[w].chat = job[w].chat /\ job'[w].first = job[w].first
    BY <1>3, <1>5, GotoFields
  <2>2. AdminIsMember(c)' \/ Mending(w, c, job[w].at)'
    BY <1>1, <1>2, <1>3, <2>1 DEF SoundAt, Mending
  <2>3. job'[w].chat = c => Known(w, c, job[w].at)'
    BY <1>1, <1>3, <2>1 DEF SoundAt, Known
  <2> QED
    BY <1>2, <2>2, <2>3 DEF Sound, SoundAt
<1> QED
  BY <1>4, <1>5

\* Where the query did not fail, a reader of the chat at hand finds what is so.
LEMMA ReadHere ==
  ASSUME TypeOK, NEW w \in Workers, NEW c \in ChatIds, c = job[w].chat, Sound(w, c),
         faults' = faults,
         \/ CheckPass(w) \/ CheckChat(w) \/ CheckAdmin(w) \/ LookUpTarget(w)
         \/ CheckFriend(w) \/ CheckInside(w) \/ CheckEntry(w) \/ CheckStillUsers(w)
         \/ QuitterIsAdmin(w)
  PROVE  Sound(w, c)'
<1> DEFINE j == job[w]
<1>0. faults \in Nat /\ j \in Job
  BY MaxFaultsAssumption DEF TypeOK
<1>1. ASSUME NEW b, NEW r \in Answers(b), Observed(r)
      PROVE  (b => r = 1) /\ (~ b => r = 0) /\ UNCHANGED tables
  BY <1>0, <1>1 DEF Answers, Observed
<1>2. SoundAt(w, c, j.at)
  BY DEF Sound
<1>3. CASE CheckPass(w)
  <2>1. j.at = "pass" /\ UNCHANGED tables
        /\ (Goto(w, AfterLogin(j.op)) \/ Goto(w, "error"))
    BY <1>3 DEF CheckPass, At, Observed
  <2>2. AfterLogin(j.op) \in {"member", "invalidate", "chat"}
    BY DEF AfterLogin
  <2>3. \A s \in {"member", "invalidate", "chat", "error"} : SoundAt(w, c, s)
    BY <1>2, <2>1 DEF SoundAt, Mending, Known
  <2> QED
    BY <2>1, <2>2, <2>3, GoesOn
<1>4. CASE CheckChat(w)
  <2>1. PICK r \in Answers(ChatExist(j.chat)) :
          Observed(r) /\ Goto(w, IF r # 1 THEN "error"
                                 ELSE IF j.op = "quit" THEN "inside" ELSE "admin")
    BY <1>4 DEF CheckChat
  <2>0. /\ (ChatExist(j.chat) => r = 1) /\ (~ ChatExist(j.chat) => r = 0)
        /\ UNCHANGED tables
    BY <1>1, <2>1
  <2>2. j.at = "chat" /\ UNCHANGED tables /\ (r = 1 => status[c] = "valid")
    BY <1>4, <2>0 DEF CheckChat, At, ChatExist
  <2>3. /\ SoundAt(w, c, "error")
        /\ r = 1 => SoundAt(w, c, IF j.op = "quit" THEN "inside" ELSE "admin")
    BY <1>2, <2>2 DEF SoundAt, Mending, Known
  <2> QED
    BY <2>1, <2>2, <2>3, GoesOn
<1>5. CASE CheckAdmin(w)
  <2>1. PICK r \in Answers(IsAdmin(j.me, j.chat)) :
          Observed(r) /\ Goto(w, IF r = 0 THEN "error" ELSE "who")
    BY <1>5 DEF CheckAdmin
  <2>2. j.at = "admin" /\ UNCHANGED tables /\ (r # 0 => admin[c] = j.me)
    BY <1>1, <1>5, <2>1 DEF CheckAdmin, At, IsAdmin
  <2>3. SoundAt(w, c, "error") /\ (r # 0 => SoundAt(w, c, "who"))
    BY <1>2, <2>2 DEF SoundAt, Mending, Known
  <2> QED
    BY <2>1, <2>2, <2>3, GoesOn
<1>6. CASE LookUpTarget(w)
  <2>1. PICK r \in Answers(GetUserId(j.who) # NoUser) :
          Observed(r) /\ Goto(w, IF r # 1 \/ j.who = j.me THEN "error"
                                 ELSE IF j.op = "add" THEN "friend" ELSE "inside")
    BY <1>6 DEF LookUpTarget
  <2>2. j.at = "who" /\ UNCHANGED tables
    BY <1>1, <1>6, <2>1 DEF LookUpTarget, At
  <2>3. /\ SoundAt(w, c, "error")
        /\ j.who # j.me /\ j.op = "add" => SoundAt(w, c, "friend")
        /\ j.who # j.me => SoundAt(w, c, "inside")
    BY <1>2, <2>2 DEF SoundAt, Mending, Known
  <2> QED
    BY <2>1, <2>2, <2>3, GoesOn
<1>7. CASE CheckFriend(w)
  <2>1. PICK r : Observed(r) /\ Goto(w, IF r # 1 THEN "error" ELSE "inside")
    BY <1>7 DEF CheckFriend
  <2>2. j.at = "friend" /\ UNCHANGED tables
    BY <1>7, <2>1 DEF CheckFriend, At, Observed
  <2>3. SoundAt(w, c, "error") /\ SoundAt(w, c, "inside")
    BY <1>2, <2>2 DEF SoundAt, Mending, Known
  <2> QED
    BY <2>1, <2>2, <2>3, GoesOn
<1>8. CASE CheckInside(w)
  <2>1. PICK r : Observed(r) /\ Goto(w, IF Refused(j.op, r) THEN "error"
                                        ELSE IF j.op = "add" THEN "entry" ELSE "remove")
    BY <1>8 DEF CheckInside
  <2>2. j.at = "inside" /\ UNCHANGED tables
    BY <1>8, <2>1 DEF CheckInside, At, Observed
  <2>3. SoundAt(w, c, "error") /\ SoundAt(w, c, "entry") /\ SoundAt(w, c, "remove")
    BY <1>2, <2>2 DEF SoundAt, Mending, Known
  <2> QED
    BY <2>1, <2>2, <2>3, GoesOn
<1>9. CASE CheckEntry(w)
  <2>1. PICK r : Observed(r) /\ Goto(w, IF r = 1 THEN "recover" ELSE "insert")
    BY <1>9 DEF CheckEntry
  <2>2. j.at = "entry" /\ UNCHANGED tables
    BY <1>9, <2>1 DEF CheckEntry, At, Observed
  <2>3. SoundAt(w, c, "recover") /\ SoundAt(w, c, "insert")
    BY <1>2, <2>2 DEF SoundAt, Mending, Known
  <2> QED
    BY <2>1, <2>2, <2>3, GoesOn
<1>10. CASE CheckStillUsers(w)
  <2>1. PICK r \in Answers(StillUsersInChat(j.chat)) :
          Observed(r) /\ Goto(w, IF r = 1 THEN "am_admin" ELSE "close")
    BY <1>10 DEF CheckStillUsers
  <2>0. /\ (StillUsersInChat(j.chat) => r = 1) /\ (~ StillUsersInChat(j.chat) => r = 0)
        /\ UNCHANGED tables
    BY <1>1, <2>1
  <2>2. j.at = "still" /\ UNCHANGED tables /\ (r = 1 <=> Members(c) # {})
    BY <1>10, <2>0 DEF CheckStillUsers, At, StillUsersInChat
  <2>3. SoundAt(w, c, IF r = 1 THEN "am_admin" ELSE "close")
    BY <1>2, <2>2 DEF SoundAt, Mending, Known
  <2> QED
    BY <2>1, <2>2, <2>3, GoesOn
<1>11. CASE QuitterIsAdmin(w)
  <2>1. PICK r \in Answers(IsAdmin(j.me, j.chat)) :
          Observed(r) /\ Goto(w, IF r = 1 THEN "first" ELSE "ok")
    BY <1>11 DEF QuitterIsAdmin
  <2>0. /\ (IsAdmin(j.me, j.chat) => r = 1) /\ (~ IsAdmin(j.me, j.chat) => r = 0)
        /\ UNCHANGED tables
    BY <1>1, <2>1
  <2>2. j.at = "am_admin" /\ UNCHANGED tables
        /\ (r = 1 <=> status[c] # "none" /\ admin[c] = j.me)
    BY <1>11, <2>0 DEF QuitterIsAdmin, At, IsAdmin
  <2>3. SoundAt(w, c, IF r = 1 THEN "first" ELSE "ok")
    BY <1>2, <2>2 DEF SoundAt, Mending, Known
  <2> QED
    BY <2>1, <2>2, <2>3, GoesOn
<1> QED
  BY <1>3, <1>4, <1>5, <1>6, <1>7, <1>8, <1>9, <1>10, <1>11

\* The statements that enter a member or take one out, create a chat, hand it
\* over or delete it, where they succeed.
LEMMA WriteHere ==
  ASSUME TypeOK, NEW w \in Workers, NEW c \in ChatIds, c = job[w].chat, Sound(w, c),
         faults' = faults,
         \/ EnterCreator(w) \/ UndoChat(w) \/ EnterMember(w) \/ RecoverMember(w)
         \/ InsertMember(w) \/ RemoveMember(w) \/ GetFirstUser(w) \/ HandOver(w)
         \/ CloseChat(w) \/ LookUpMember(w)
  PROVE  Sound(w, c)'
<1> DEFINE j == job[w]
<1>0. /\ TablesTypeOK /\ job \in [Workers -> Job] /\ j \in Job
      /\ valid \subseteq Users /\ faults \in Nat
  BY MaxFaultsAssumption DEF TypeOK, TablesTypeOK
<1>1. SoundAt(w, c, j.at)
  BY DEF Sound
<1>2. ASSUME NEW s \in Resting, Goto(w, s), AdminIsMember(c)', DeletedIsEmpty(c)'
      PROVE  Sound(w, c)'
  BY <1>0, <1>2, GotoFields DEF Sound, SoundAt, Known, Resting
<1>3. ASSUME NEW Effect, NEW good, NEW bad, Attempt(w, Effect, good, bad)
      PROVE  Effect /\ Goto(w, good)
  BY <1>0, <1>3 DEF Attempt
<1>4. ASSUME NEW u, AddUserChat(u, c) \/ RecoverUserChat(u, c), status[c] = "valid",
             AdminIsMember(c) \/ (AddUserChat(u, c) /\ admin[c] = u)
      PROVE  AdminIsMember(c)' /\ DeletedIsEmpty(c)' /\ status'[c] = "valid"
  <2>1. UNCHANGED <<valid, status, admin>> /\ Members(c) \subseteq Members(c)'
    BY <1>0, <1>4, RowsHere DEF AddUserChat, RecoverUserChat
  <2>2. AddUserChat(u, c) /\ u \in Users => u \in Members(c)'
    BY <1>0, RowsHere
  <2> QED
    BY <1>0, <1>4, <2>1, <2>2 DEF AdminIsMember, DeletedIsEmpty
<1>5. CASE EnterCreator(w)
  <2>1. j.at = "enter_me" /\ AddUserChat(j.me, c) /\ Goto(w, "enter_who")
    BY <1>3, <1>5 DEF EnterCreator, At
  <2>2. AdminIsMember(c)' /\ DeletedIsEmpty(c)' /\ status'[c] = "valid"
    BY <1>1, <1>4, <2>1 DEF SoundAt, Mending, Known
  <2>3. job'[w].at = "enter_who"
    BY <1>0, <2>1, GotoFields
  <2> QED
    BY <2>2, <2>3 DEF Sound, SoundAt, Known
<1>6. CASE UndoChat(w)
  BY <1>1, <1>6 DEF UndoChat, At, SoundAt, Known
<1>7. CASE EnterMember(w)
  <2>1. j.at = "enter_who" /\ AdminIsMember(c) /\ status[c] = "valid"
    BY <1>1, <1>7 DEF EnterMember, At, SoundAt, Mending, Known
  <2>2. CASE Goto(w, "error") /\ UNCHANGED tables
    <3>1. SoundAt(w, c, "error")
      BY <1>1, <2>1 DEF SoundAt, Known
    <3> QED
      BY <2>2, <3>1, GoesOn
  <2>3. CASE Attempt(w, AddUserChat(j.who, c), "ok", "error")
    <3>1. AddUserChat(j.who, c) /\ Goto(w, "ok")
      BY <1>3, <2>3
    <3>2. AdminIsMember(c)' /\ DeletedIsEmpty(c)'
      BY <1>4, <2>1, <3>1
    <3> QED
      BY <1>2, <3>1, <3>2 DEF Resting
  <2> QED
    BY <1>7, <2>2, <2>3 DEF EnterMember
<1>8. CASE RecoverMember(w) \/ InsertMember(w)
  <2>1. /\ j.at \in {"recover", "insert"} /\ Goto(w, "ok")
        /\ RecoverUserChat(j.who, c) \/ AddUserChat(j.who, c)
    BY <1>3, <1>8 DEF RecoverMember, InsertMember, At
  <2>2. AdminIsMember(c) /\ status[c] = "valid"
    BY <1>1, <2>1 DEF SoundAt, Mending, Known
  <2>3. AdminIsMember(c)' /\ DeletedIsEmpty(c)'
    BY <1>4, <2>1, <2>2
  <2> QED
    BY <1>2, <2>1, <2>3 DEF Resting
<1>9. CASE RemoveMember(w)
  <2>1. /\ j.at = "remove" /\ DelUserChat(j.who, c)
        /\ Goto(w, IF j.op = "quit" THEN "still" ELSE "ok")
    BY <1>3, <1>9 DEF RemoveMember, At
  <2>2. AdminIsMember(c) /\ status[c] = "valid"
    BY <1>1, <2>1 DEF SoundAt, Mending, Known
  <2>3. /\ UNCHANGED <<valid, status, admin>> /\ Members(c)' = Members(c) \ {j.who}
    BY <1>0, <2>1, RowsHere DEF DelUserChat
  <2>4. DeletedIsEmpty(c)' /\ status'[c] = "valid"
    BY <2>2, <2>3 DEF DeletedIsEmpty
  <2>5. CASE j.op = "quit"
    <3>1. j.who = j.me
      BY <1>1, <2>1, <2>5 DEF SoundAt, Known
    <3>2. AdminIsMember(c)' \/ admin'[c] = j.me
      BY <2>2, <2>3, <3>1 DEF AdminIsMember
    <3>3. job'[w].at = "still" /\ job'[w].me = j.me /\ job'[w].chat = c
      BY <1>0, <2>1, <2>5, GotoFields DEF Resting
    <3> QED
      BY <2>4, <3>2, <3>3 DEF Sound, SoundAt, Mending, Known
  <2>6. CASE j.op # "quit"
    <3>1. j.who # j.me /\ admin[c] = j.me
      BY <1>1, <2>1, <2>6 DEF SoundAt, Known
    <3>2. AdminIsMember(c)'
      BY <2>2, <2>3, <3>1 DEF AdminIsMember
    <3> QED
      BY <1>2, <2>1, <2>4, <2>6, <3>2 DEF Resting
  <2> QED
    BY <2>5, <2>6
<1>10. CASE GetFirstUser(w)
  <2>1. j.at = "first" /\ Members(c) # {} /\ UNCHANGED tables
    BY <1>1, <1>10 DEF GetFirstUser, At, SoundAt, Known
  <2>2. PICK u \in Members(c) : job' = [job EXCEPT ![w].at = "handover", ![w].first = u]
    BY <1>0, <1>10, <2>1 DEF GetFirstUser
  <2>3. /\ job'[w].at = "handover" /\ job'[w].first = u /\ job'[w].me = j.me
        /\ job'[w].chat = c /\ job'[w].op = j.op /\ job'[w].who = j.who
    BY <1>0, <2>2 DEF Job
  <2>4. /\ UNCHANGED valid /\ status'[c] = status[c] /\ admin'[c] = admin[c]
        /\ Members(c)' = Members(c)
    BY <2>1, TablesElsewhere
  <2>5. DeletedIsEmpty(c)' /\ (AdminIsMember(c)' <=> AdminIsMember(c))
    BY <1>1, <2>4 DEF SoundAt, DeletedIsEmpty, AdminIsMember
  <2>6. AdminIsMember(c)' \/ Mending(w, c, job[w].at)'
    BY <1>1, <2>1, <2>3, <2>4, <2>5 DEF SoundAt, Mending
  <2>7. Known(w, c, job[w].at)'
    BY <1>1, <2>1, <2>3, <2>4 DEF SoundAt, Known
  <2> QED
    BY <2>5, <2>6, <2>7 DEF Sound, SoundAt
<1>11. CASE HandOver(w)
  <2>1. j.at = "handover" /\ j.first \in Members(c) /\ status[c] = "valid"
    BY <1>1, <1>11 DEF HandOver, At, SoundAt, Known
  <2>2. j.first # NoUser
    BY <2>1, UsersAssumption DEF Members
  <2>3. ChangeAdmin(j.first, c) /\ Goto(w, "ok")
    BY <1>3, <1>11, <2>2 DEF HandOver
  <2>4. admin'[c] = j.first /\ UNCHANGED <<valid, status, live>>
    BY <1>0, <2>3 DEF ChangeAdmin, TablesTypeOK
  <2>5. AdminIsMember(c)' /\ DeletedIsEmpty(c)'
    BY <1>1, <2>1, <2>4 DEF SoundAt, AdminIsMember, DeletedIsEmpty, Members
  <2> QED
    BY <1>2, <2>3, <2>5 DEF Resting
<1>12. CASE CloseChat(w)
  <2>1. j.at = "close" /\ DelChat(c) /\ Goto(w, "ok")
    BY <1>3, <1>12 DEF CloseChat, At
  <2>2. Members(c) = {}
    BY <1>1, <2>1 DEF SoundAt, Known
  <2>3. status'[c] = "deleted" /\ UNCHANGED live
    BY <1>0, <2>1 DEF DelChat, TablesTypeOK
  <2>4. AdminIsMember(c)' /\ DeletedIsEmpty(c)'
    BY <2>2, <2>3 DEF AdminIsMember, DeletedIsEmpty, Members
  <2> QED
    BY <1>2, <2>1, <2>4 DEF Resting
<1>13. CASE LookUpMember(w)
  <2>1. PICK x : j.at = "member" /\ UNCHANGED tables
                 /\ job' = [job EXCEPT ![w].at = "new_chat", ![w].who = x]
    BY <1>13 DEF LookUpMember, At, Observed
  <2>2. job'[w].at = "new_chat"
    BY <1>0, <2>1 DEF Job
  <2>3. AdminIsMember(c) /\ DeletedIsEmpty(c)
    BY <1>1, <2>1 DEF SoundAt, Mending
  <2>4. AdminIsMember(c)' /\ DeletedIsEmpty(c)'
    BY <2>1, <2>3, TablesElsewhere DEF AdminIsMember, DeletedIsEmpty
  <2> QED
    BY <2>2, <2>4 DEF Sound, SoundAt, Known
<1> QED
  BY <1>5, <1>6, <1>7, <1>8, <1>9, <1>10, <1>11, <1>12, <1>13

\* A new chat is administered by its creator, who enters next; who unregisters is
\* invalid before he is taken out of the chats.
LEMMA AnywhereSound ==
  ASSUME TypeOK, NEW w \in Workers, NEW c \in ChatIds, Sound(w, c), Leaving(w),
         InsertChat(w) \/ Invalidate(w) \/ LeaveAll(w)
  PROVE  Sound(w, c)'
<1> DEFINE j == job[w]
<1>0. /\ TablesTypeOK /\ job \in [Workers -> Job] /\ j \in Job /\ valid \subseteq Users
  BY DEF TypeOK, TablesTypeOK
<1>1. AdminIsMember(c) /\ DeletedIsEmpty(c)
  BY DEF Sound, SoundAt, Mending, InsertChat, Invalidate, LeaveAll, At
<1>2. ASSUME NEW s \in {"leave_all", "ok", "error"}, Goto(w, s),
             AdminIsMember(c)', DeletedIsEmpty(c)'
      PROVE  Sound(w, c)'
  <2>1. job'[w].at = s
    BY <1>0, <1>2, GotoFields
  <2> QED
    BY <1>2, <2>1 DEF Sound, SoundAt, Known
<1>3. UNCHANGED tables => AdminIsMember(c)' /\ DeletedIsEmpty(c)'
  BY <1>1, TablesElsewhere DEF AdminIsMember, DeletedIsEmpty
<1>4. CASE InsertChat(w)
  <2>1. CASE UNCHANGED tables /\ Goto(w, "error")
    BY <1>2, <1>3, <2>1
  <2>2. ASSUME NEW d \in ChatIds, AddChat(j.me, d),
               job' = [job EXCEPT ![w].at = "enter_me", ![w].chat = d]
        PROVE  Sound(w, c)'
    <3>1. job'[w].at = "enter_me" /\ job'[w].chat = d /\ job'[w].me = j.me
      BY <1>0, <2>2 DEF Job
    <3>2. CASE c # d
      <4>1. AdminIsMember(c)' /\ DeletedIsEmpty(c)'
        BY <1>0, <1>1, <2>2, <3>2, RowsElsewhere DEF AdminIsMember, DeletedIsEmpty
      <4> QED
        BY <3>1, <3>2, <4>1 DEF Sound, SoundAt
    <3>3. CASE c = d
      <4>1. status'[c] = "valid" /\ admin'[c] = j.me
        BY <1>0, <2>2, <3>3 DEF AddChat, TablesTypeOK
      <4> QED
        BY <3>1, <3>3, <4>1 DEF Sound, SoundAt, Mending, Known, DeletedIsEmpty
    <3> QED
      BY <3>2, <3>3
  <2> QED
    BY <1>4, <2>1, <2>2 DEF InsertChat
<1>5. CASE Invalidate(w)
  <2>1. CASE UNCHANGED tables /\ Goto(w, "error")
    BY <1>2, <1>3, <2>1
  <2>2. CASE DelUser(j.me) /\ Goto(w, "leave_all")
    <3>1. valid' \subseteq valid /\ UNCHANGED <<status, admin, live>>
      BY <2>2 DEF DelUser
    <3>2. AdminIsMember(c)' /\ DeletedIsEmpty(c)'
      BY <1>1, <3>1 DEF AdminIsMember, DeletedIsEmpty, Members
    <3> QED
      BY <1>2, <2>2, <3>2
  <2> QED
    BY <1>5, <2>1, <2>2 DEF Invalidate, Attempt
<1>6. CASE LeaveAll(w)
  <2>1. CASE UNCHANGED tables /\ Goto(w, "error")
    BY <1>2, <1>3, <2>1
  <2>2. CASE DelUserAllChats(j.me) /\ Goto(w, "ok")
    <3>1. UNCHANGED <<valid, status, admin>> /\ Members(c)' = Members(c) \ {j.me}
      BY <1>0, <2>2, RowsHere DEF DelUserAllChats
    <3>2. j.me \notin valid
      BY <1>6 DEF LeaveAll, At, Leaving
    <3>3. AdminIsMember(c)' /\ DeletedIsEmpty(c)'
      BY <1>1, <3>1, <3>2 DEF AdminIsMember, DeletedIsEmpty
    <3> QED
      BY <1>2, <2>2, <3>3
  <2> QED
    BY <1>6, <2>1, <2>2 DEF LeaveAll, Attempt
<1> QED
  BY <1>4, <1>5, <1>6

-----------------------------------------------------------------------------
(* Whole steps.                                                            *)

\* Whose statement runs is at work, and only at leave_all he leaves.
LEMMA AtWork ==
  ASSUME NEW w, Step(w)
  PROVE  /\ up /\ job[w].at \notin Resting
         /\ job[w].at = "leave_all" => LeaveAll(w)
BY DEF Step, CheckPass, LookUpMember, InsertChat, EnterCreator, UndoChat, EnterMember,
   CheckChat, CheckAdmin, LookUpTarget, CheckFriend, CheckInside, CheckEntry,
   RecoverMember, InsertMember, RemoveMember, CheckStillUsers, QuitterIsAdmin,
   GetFirstUser, HandOver, CloseChat, Invalidate, LeaveAll, At, Resting

\* A request that arrives, and a process that dies or comes back, change no row;
\* a statement that was cut short is in the chat at hand.
LEMMA OutsideSound ==
  ASSUME TypeOK, NEW w \in Workers, NEW c \in ChatIds, Sound(w, c),
         \/ Request(w) \/ Restart \/ UNCHANGED vars
         \/ Kill /\ AtStake(w) # <<"chat", c>>
  PROVE  Sound(w, c)'
<1>0. job \in [Workers -> Job]
  BY DEF TypeOK
<1>1. /\ UNCHANGED valid /\ status'[c] = status[c] /\ admin'[c] = admin[c]
      /\ Members(c)' = Members(c)
  BY TablesElsewhere DEF Request, Restart, Kill, vars, tables
<1>2. DeletedIsEmpty(c)' /\ (AdminIsMember(c)' <=> AdminIsMember(c))
  BY <1>1 DEF Sound, SoundAt, DeletedIsEmpty, AdminIsMember
<1>3. CASE Request(w)
  <2>1. AdminIsMember(c)
    BY <1>3 DEF Request, Resting, Sound, SoundAt, Mending
  <2>2. PICK op, me, who, chat : Arrives(w, op, me, who, chat) /\ (op = "quit" => who = me)
    BY <1>3, RequestArrives
  <2>3. /\ job'[w].at = "pass"
        /\ job'[w].op = "quit" => job'[w].who = job'[w].me
    BY <1>0, <2>2 DEF Arrives
  <2> QED
    BY <1>2, <2>1, <2>3 DEF Sound, SoundAt, Known
<1>4. CASE Restart \/ UNCHANGED vars
  BY <1>1, <1>2, <1>4 DEF Restart, vars, Sound, SoundAt, Mending, Known
<1>5. CASE Kill /\ AtStake(w) # <<"chat", c>>
  <2>1. AdminIsMember(c)
    BY <1>5 DEF AtStake, Sound, SoundAt, Mending
  <2>2. job'[w].at = "idle"
    BY <1>5 DEF Kill, Stopped, Rest
  <2> QED
    BY <1>2, <2>1, <2>2 DEF Sound, SoundAt, Known
<1> QED
  BY <1>3, <1>4, <1>5

\* A statement that does not fail keeps every sound chat sound, and one that
\* fails all of them but the chat at stake.
LEMMA StepSound ==
  ASSUME TypeOK, NEW w \in Workers, NEW c \in ChatIds, Sound(w, c), Leaving(w), Step(w),
         faults' = faults \/ AtStake(w) # <<"chat", c>>
  PROVE  Sound(w, c)'
<1>1. CASE InsertChat(w) \/ Invalidate(w) \/ LeaveAll(w)
  BY <1>1, AnywhereSound
<1>2. CASE ~ (InsertChat(w) \/ Invalidate(w) \/ LeaveAll(w)) /\ c # job[w].chat
  <2>1. AdminIsMember(c)
    BY <1>2 DEF Sound, SoundAt, Mending
  <2>2. Elsewhere(w, c)
    BY <1>2, StepElsewhere
  <2> QED
    BY <2>1, <2>2, ElsewhereSound
<1>3. CASE ~ (InsertChat(w) \/ Invalidate(w) \/ LeaveAll(w)) /\ c = job[w].chat
  <2>1. job[w].at # "leave_all"
    BY <1>3, AtWork
  <2>2. faults' = faults
    BY <1>3, <2>1 DEF AtStake
  <2> QED
    BY <1>3, <2>2, ReadHere, WriteHere DEF Step
<1> QED
  BY <1>1, <1>2, <1>3

\* Only a user_unregister that has made its user invalid goes on to leave_all.
LEMMA LeavingKept ==
  ASSUME TypeOK, NEW w \in Workers, Leaving(w),
         Request(w) \/ Step(w) \/ Kill \/ Restart \/ UNCHANGED vars
  PROVE  Leaving(w)'
<1> DEFINE j == job[w]
<1>0. job \in [Workers -> Job] /\ j \in Job
  BY DEF TypeOK
<1>1. ASSUME NEW s, s # "leave_all", Goto(w, s) PROVE Leaving(w)'
  BY <1>0, <1>1, GotoFields DEF Leaving
<1>2. ASSUME job'[w].at # "leave_all" PROVE Leaving(w)'
  BY <1>2 DEF Leaving
<1>3. CASE Request(w)
  <2>1. PICK op, me, who, chat : Arrives(w, op, me, who, chat)
    BY <1>3, RequestArrives
  <2> QED
    BY <1>0, <1>2, <2>1 DEF Arrives
<1>4. CASE Kill
  BY <1>2, <1>4 DEF Kill, Stopped, Rest
<1>5. CASE Restart \/ UNCHANGED vars
  BY <1>5 DEF Restart, vars, tables, Leaving
<1>6. CASE Step(w)
  <2>1. CASE \/ CheckChat(w) \/ CheckAdmin(w) \/ LookUpTarget(w)
             \/ CheckFriend(w) \/ CheckInside(w) \/ CheckEntry(w) \/ CheckStillUsers(w)
             \/ QuitterIsAdmin(w) \/ CheckPass(w)
    <3>1. AfterLogin(j.op) # "leave_all"
      BY DEF AfterLogin
    <3>2. CASE CheckPass(w)
      <4>1. Goto(w, AfterLogin(j.op)) \/ Goto(w, "error")
        BY <3>2 DEF CheckPass
      <4> QED
        BY <1>1, <3>1, <4>1
    <3> QED
      BY <1>1, <2>1, <3>2 DEF CheckChat, CheckAdmin, LookUpTarget, CheckFriend, CheckInside,
         CheckEntry, CheckStillUsers, QuitterIsAdmin
  <2>2. CASE \/ EnterCreator(w) \/ UndoChat(w) \/ EnterMember(w) \/ RecoverMember(w)
             \/ InsertMember(w) \/ RemoveMember(w) \/ HandOver(w) \/ CloseChat(w) \/ LeaveAll(w)
    BY <1>1, <2>2 DEF EnterCreator, UndoChat, EnterMember, RecoverMember, InsertMember,
       RemoveMember, HandOver, CloseChat, LeaveAll, Attempt
  <2>3. CASE LookUpMember(w) \/ InsertChat(w) \/ GetFirstUser(w)
    <3>1. CASE LookUpMember(w)
      <4>1. \E x : job' = [job EXCEPT ![w].at = "new_chat", ![w].who = x]
        BY <3>1 DEF LookUpMember
      <4> QED
        BY <1>0, <1>2, <4>1 DEF Job
    <3>2. CASE InsertChat(w)
      <4>1. \/ Goto(w, "error")
            \/ \E y : job' = [job EXCEPT ![w].at = "enter_me", ![w].chat = y]
        BY <3>2 DEF InsertChat
      <4> QED
        BY <1>0, <1>1, <1>2, <4>1 DEF Job
    <3>3. CASE GetFirstUser(w)
      <4>1. \/ job' = Stopped
            \/ \E z : job' = [job EXCEPT ![w].at = "handover", ![w].first = z]
        BY <3>3 DEF GetFirstUser
      <4> QED
        BY <1>0, <1>2, <4>1 DEF Stopped, Rest, Job
    <3> QED
      BY <2>3, <3>1, <3>2, <3>3
  <2>4. CASE Invalidate(w)
    <3>1. Goto(w, "error") \/ (DelUser(j.me) /\ Goto(w, "leave_all"))
      BY <2>4 DEF Invalidate, Attempt
    <3>2. ASSUME DelUser(j.me), Goto(w, "leave_all") PROVE Leaving(w)'
      <4>1. job'[w].me = j.me /\ valid' = valid \ {j.me}
        BY <1>0, <3>2, GotoFields DEF DelUser, Resting
      <4> QED
        BY <4>1 DEF Leaving
    <3> QED
      BY <1>1, <3>1, <3>2
  <2> QED
    BY <1>6, <2>1, <2>2, <2>3, <2>4 DEF Step
<1> QED
  BY <1>3, <1>4, <1>5, <1>6

-----------------------------------------------------------------------------
(* The users.                                                              *)

\* Only a user_unregister makes a user invalid.
LEMMA OneValid ==
  ASSUME NEW w, Step(w), ~ Invalidate(w)
  PROVE  UNCHANGED valid
<1>1. CASE UNCHANGED tables
  BY <1>1 DEF tables
<1>2. CASE \/ EnterCreator(w) \/ UndoChat(w) \/ EnterMember(w) \/ RecoverMember(w)
           \/ InsertMember(w) \/ RemoveMember(w) \/ HandOver(w) \/ CloseChat(w)
           \/ LeaveAll(w) \/ InsertChat(w)
  BY <1>1, <1>2 DEF EnterCreator, UndoChat, EnterMember, RecoverMember, InsertMember,
     RemoveMember, HandOver, CloseChat, LeaveAll, InsertChat, Attempt, AddChat, DelChat,
     ChangeAdmin, AddUserChat, RecoverUserChat, DelUserChat, DelUserAllChats, tables
<1>3. CASE \/ CheckPass(w) \/ CheckChat(w) \/ CheckAdmin(w) \/ LookUpTarget(w)
           \/ CheckFriend(w) \/ CheckInside(w) \/ CheckEntry(w) \/ CheckStillUsers(w)
           \/ QuitterIsAdmin(w) \/ LookUpMember(w) \/ GetFirstUser(w)
  BY <1>3 DEF CheckPass, CheckChat, CheckAdmin, LookUpTarget, CheckFriend, CheckInside,
     CheckEntry, CheckStillUsers, QuitterIsAdmin, LookUpMember, GetFirstUser, Observed, tables
<1> QED
  BY <1>2, <1>3 DEF Step

\* A reader goes on with users it has found valid.
LEMMA NamedGoOn ==
  ASSUME TypeOK, NEW w \in Workers, NEW s, NamedAt(w, s) \/ s \in Resting \cup {"leave_all"},
         UNCHANGED valid \/ s \in Resting \cup {"leave_all"}, Goto(w, s)
  PROVE  Named(w)'
<1>1. job'[w].at = s /\ job \in [Workers -> Job]
  BY GotoFields DEF TypeOK
<1>2. CASE s \in Resting \cup {"leave_all"}
  BY <1>1, <1>2 DEF Named, NamedAt, Resting
<1>3. CASE s \notin Resting \cup {"leave_all"}
  BY <1>1, <1>3, GotoFields DEF Named, NamedAt
<1> QED
  BY <1>2, <1>3

\* Nobody is entered in a chat who has not been found valid.
LEMMA NamedKept ==
  ASSUME TypeOK, NEW w \in Workers, Named(w),
         Request(w) \/ Step(w) \/ Kill \/ Restart \/ UNCHANGED vars
  PROVE  Named(w)'
<1> DEFINE j == job[w]
<1>0. job \in [Workers -> Job] /\ j \in Job /\ NamedAt(w, j.at)
  BY DEF TypeOK, Named
<1>1. CASE Request(w)
  <2>1. PICK op, me, who, chat : Arrives(w, op, me, who, chat) /\ me \in valid
    BY <1>1, RequestArrives
  <2>2. job'[w].at = "pass" /\ job'[w].me = me
    BY <1>0, <2>1 DEF Arrives
  <2>3. UNCHANGED valid
    BY <1>1 DEF Request, tables
  <2> QED
    BY <2>1, <2>2, <2>3 DEF Named, NamedAt
<1>2. CASE Kill
  <2>1. job'[w].at = "idle"
    BY <1>2 DEF Kill, Stopped, Rest
  <2> QED
    BY <2>1 DEF Named, NamedAt, Resting
<1>3. CASE Restart \/ UNCHANGED vars
  BY <1>3 DEF Restart, vars, tables, Named, NamedAt
<1>4. CASE Step(w)
  <2>1. ~ Invalidate(w) => UNCHANGED valid
    BY <1>4, OneValid
  <2>2. ASSUME NEW r, NEW b, r \in Answers(b)
        PROVE  r = 1 => b
    <3>1. (IF b THEN 1 ELSE 0) = 1 => b
      OBVIOUS
    <3> QED
      BY <2>2, <3>1 DEF Answers
  <2>3. CASE CheckPass(w)
    <3>1. j.at = "pass" /\ (Goto(w, AfterLogin(j.op)) \/ Goto(w, "error"))
      BY <2>3 DEF CheckPass, At
    <3>2. AfterLogin(j.op) \in {"member", "invalidate", "chat"}
      BY DEF AfterLogin
    <3>3. \A s \in {"member", "invalidate", "chat"} : NamedAt(w, s)
      BY <1>0, <3>1 DEF NamedAt, Resting
    <3>4. UNCHANGED valid
      BY <2>3 DEF CheckPass, Observed, tables
    <3> QED
      BY <3>1, <3>2, <3>3, <3>4, NamedGoOn DEF Resting
  <2>4. CASE LookUpMember(w)
    <3>1. PICK r \in Answers(GetUserId(j.who) # NoUser) :
            job' = [job EXCEPT ![w].at = "new_chat", ![w].who = IF r = 1 THEN @ ELSE NoUser]
      BY <2>4 DEF LookUpMember
    <3>2. j.at = "member" /\ UNCHANGED valid
      BY <2>4 DEF LookUpMember, At, Observed, tables
    <3>3. r = 1 => j.who \in valid
      BY <2>2, <3>1 DEF GetUserId
    <3>4. /\ job'[w].at = "new_chat" /\ job'[w].me = j.me
          /\ job'[w].who = IF r = 1 THEN j.who ELSE NoUser
      BY <1>0, <3>1 DEF Job
    <3> QED
      BY <1>0, <3>2, <3>3, <3>4 DEF Named, NamedAt, Resting
  <2>5. CASE InsertChat(w)
    <3>1. j.at = "new_chat" /\ UNCHANGED valid
      BY <2>5 DEF InsertChat, At, AddChat, tables
    <3>2. CASE Goto(w, "error")
      BY <3>1, <3>2, NamedGoOn DEF Resting
    <3>3. ASSUME NEW c, job' = [job EXCEPT ![w].at = "enter_me", ![w].chat = c]
          PROVE  Named(w)'
      <4>1. job'[w].at = "enter_me" /\ job'[w].me = j.me /\ job'[w].who = j.who
        BY <1>0, <3>3 DEF Job
      <4> QED
        BY <1>0, <3>1, <4>1 DEF Named, NamedAt, Resting
    <3> QED
      BY <2>5, <3>2, <3>3 DEF InsertChat
  <2>6. CASE GetFirstUser(w)
    <3>1. j.at = "first" /\ UNCHANGED valid
      BY <2>6 DEF GetFirstUser, At, tables
    <3>2. CASE job' = Stopped
      BY <3>2 DEF Stopped, Rest, Named, NamedAt, Resting
    <3>3. ASSUME NEW u, job' = [job EXCEPT ![w].at = "handover", ![w].first = u]
          PROVE  Named(w)'
      <4>1. job'[w].at = "handover" /\ job'[w].me = j.me
        BY <1>0, <3>3 DEF Job
      <4> QED
        BY <1>0, <3>1, <4>1 DEF Named, NamedAt, Resting
    <3> QED
      BY <2>6, <3>2, <3>3 DEF GetFirstUser
  <2>7. CASE CheckChat(w) \/ CheckAdmin(w)
    <3>1. /\ j.at \in {"chat", "admin"} /\ UNCHANGED valid
          /\ \/ Goto(w, "error") \/ Goto(w, "admin") \/ Goto(w, "who")
             \/ Goto(w, "inside") /\ j.op = "quit"
      BY <2>7 DEF CheckChat, CheckAdmin, At, Observed, tables
    <3>2. /\ NamedAt(w, "admin") /\ NamedAt(w, "who")
          /\ j.op = "quit" => NamedAt(w, "inside")
      BY <1>0, <3>1 DEF NamedAt, Resting
    <3> QED
      BY <3>1, <3>2, NamedGoOn DEF Resting
  <2>8. CASE LookUpTarget(w)
    <3>1. PICK r \in Answers(GetUserId(j.who) # NoUser) :
            Goto(w, IF r # 1 \/ j.who = j.me THEN "error"
                    ELSE IF j.op = "add" THEN "friend" ELSE "inside")
      BY <2>8 DEF LookUpTarget
    <3>2. j.at = "who" /\ UNCHANGED valid
      BY <2>8 DEF LookUpTarget, At, Observed, tables
    <3>3. r = 1 => j.who \in valid
      BY <2>2, <3>1 DEF GetUserId
    <3>4. r = 1 => NamedAt(w, "friend") /\ NamedAt(w, "inside")
      BY <1>0, <3>2, <3>3 DEF NamedAt, Resting
    <3> QED
      BY <3>1, <3>2, <3>4, NamedGoOn DEF Resting
  <2>9. CASE CheckFriend(w) \/ CheckInside(w) \/ CheckEntry(w)
    <3>1. /\ UNCHANGED valid
          /\ \/ Goto(w, "error")
             \/ j.at = "friend" /\ Goto(w, "inside")
             \/ j.at = "inside" /\ j.op = "add" /\ Goto(w, "entry")
             \/ j.at = "inside" /\ Goto(w, "remove")
             \/ j.at = "entry" /\ (Goto(w, "recover") \/ Goto(w, "insert"))
      BY <2>9 DEF CheckFriend, CheckInside, CheckEntry, At, Observed, tables
    <3>2. /\ j.at = "friend" => NamedAt(w, "inside")
          /\ j.at = "inside" => NamedAt(w, "remove") /\ (j.op = "add" => NamedAt(w, "entry"))
          /\ j.at = "entry" => NamedAt(w, "recover") /\ NamedAt(w, "insert")
      BY <1>0 DEF NamedAt, Resting
    <3> QED
      BY <3>1, <3>2, NamedGoOn DEF Resting
  <2>10. CASE CheckStillUsers(w) \/ QuitterIsAdmin(w)
    <3>1. /\ j.at \in {"still", "am_admin"} /\ UNCHANGED valid
          /\ \E s \in {"am_admin", "close", "first", "ok"} : Goto(w, s)
      BY <2>10 DEF CheckStillUsers, QuitterIsAdmin, At, Observed, tables
    <3>2. \A s \in {"am_admin", "close", "first"} : NamedAt(w, s)
      BY <1>0, <3>1 DEF NamedAt, Resting
    <3> QED
      BY <3>1, <3>2, NamedGoOn DEF Resting
  <2>11. CASE EnterCreator(w) \/ RemoveMember(w)
    <3>1. /\ j.at \in {"enter_me", "remove"}
          /\ j.at = "enter_me" => \E s \in {"enter_who", "undo"} : Goto(w, s)
          /\ j.at = "remove" => \E s \in {"still", "ok", "error"} : Goto(w, s)
      BY <2>11 DEF EnterCreator, RemoveMember, At, Attempt
    <3>2. /\ j.at = "enter_me" => NamedAt(w, "enter_who") /\ NamedAt(w, "undo")
          /\ j.at = "remove" => NamedAt(w, "still")
      BY <1>0 DEF NamedAt, Resting
    <3>3. UNCHANGED valid
      BY <2>1, <3>1 DEF Invalidate, At
    <3> QED
      BY <3>1, <3>2, <3>3, NamedGoOn DEF Resting
  <2>12. CASE \/ UndoChat(w) \/ EnterMember(w) \/ RecoverMember(w) \/ InsertMember(w)
              \/ HandOver(w) \/ CloseChat(w) \/ Invalidate(w) \/ LeaveAll(w)
    <3>1. \E s \in {"ok", "error", "leave_all"} : Goto(w, s)
      BY <2>12 DEF UndoChat, EnterMember, RecoverMember, InsertMember, HandOver, CloseChat,
         Invalidate, LeaveAll, Attempt
    <3> QED
      BY <3>1, NamedGoOn DEF Resting
  <2> QED
    BY <1>4, <2>3, <2>4, <2>5, <2>6, <2>7, <2>8, <2>9, <2>10, <2>11, <2>12 DEF Step
<1> QED
  BY <1>1, <1>2, <1>3, <1>4

\* A statement enters nobody in a chat who is not valid.
LEMMA ValidEnter ==
  ASSUME TypeOK, NEW w \in Workers, Step(w), Named(w),
         NEW u \in Users, NEW c \in ChatIds, u \in Members(c)'
  PROVE  u \in Members(c) \/ u \in valid
<1> DEFINE j == job[w]
<1>0. /\ TablesTypeOK /\ live \in [ChatIds -> [Users -> Nat]]
      /\ left \in [ChatIds -> [Users -> Nat]] /\ live[c][u] \in Nat
      /\ NamedAt(w, j.at)
  BY DEF TypeOK, TablesTypeOK, Named
<1>1. CASE UNCHANGED live
  BY <1>1 DEF Members
<1>2. ASSUME NEW x, NEW d, AddUserChat(x, d) \/ RecoverUserChat(x, d), x \in valid \/ u # x
      PROVE  u \in Members(c) \/ u \in valid
  <2>1. u # x => live'[c][u] = live[c][u]
    BY <1>0, <1>2 DEF AddUserChat, RecoverUserChat
  <2> QED
    BY <1>0, <1>2, <2>1 DEF Members
<1>3. ASSUME NEW x, NEW d, DelUserChat(x, d) \/ DelUserAllChats(x)
      PROVE  u \in Members(c) \/ u \in valid
  <2>1. DelUserChat(x, d) => live'[c][u] = live[c][u] \/ live'[c][u] = 0
    BY <1>0 DEF DelUserChat
  <2>2. DelUserAllChats(x) => live'[c][u] = live[c][u] \/ live'[c][u] = 0
    BY <1>0 DEF DelUserAllChats
  <2> QED
    BY <1>0, <1>3, <2>1, <2>2 DEF Members
<1>4. CASE EnterCreator(w) \/ EnterMember(w)
  <2>1. j.at = "enter_me" => j.me \in valid
    BY <1>0 DEF NamedAt, Resting
  <2>2. j.at = "enter_who" => j.who \in valid \cup {NoUser}
    BY <1>0 DEF NamedAt
  <2>3. u # NoUser
    BY UsersAssumption
  <2>4. \/ UNCHANGED tables
        \/ j.at = "enter_me" /\ AddUserChat(j.me, j.chat)
        \/ j.at = "enter_who" /\ AddUserChat(j.who, j.chat)
    BY <1>4 DEF EnterCreator, EnterMember, Attempt, At
  <2> QED
    BY <1>1, <1>2, <2>1, <2>2, <2>3, <2>4 DEF tables
<1>5. CASE RecoverMember(w) \/ InsertMember(w)
  <2>1. j.at \in {"recover", "insert"} => j.who \in valid
    BY <1>0 DEF NamedAt
  <2>2. \/ UNCHANGED tables
        \/ /\ j.at \in {"recover", "insert"}
           /\ AddUserChat(j.who, j.chat) \/ RecoverUserChat(j.who, j.chat)
    BY <1>5 DEF RecoverMember, InsertMember, Attempt, At
  <2> QED
    BY <1>1, <1>2, <2>1, <2>2 DEF tables
<1>6. CASE RemoveMember(w) \/ LeaveAll(w)
  BY <1>1, <1>3, <1>6 DEF RemoveMember, LeaveAll, Attempt, tables
<1>7. CASE \/ InsertChat(w) \/ UndoChat(w) \/ CloseChat(w) \/ HandOver(w) \/ Invalidate(w)
  BY <1>1, <1>7 DEF InsertChat, UndoChat, CloseChat, HandOver, Invalidate, Attempt,
     AddChat, DelChat, ChangeAdmin, DelUser, tables
<1>8. CASE \/ CheckPass(w) \/ CheckChat(w) \/ CheckAdmin(w) \/ LookUpTarget(w)
           \/ CheckFriend(w) \/ CheckInside(w) \/ CheckEntry(w) \/ CheckStillUsers(w)
           \/ QuitterIsAdmin(w) \/ LookUpMember(w) \/ GetFirstUser(w)
  BY <1>1, <1>8 DEF CheckPass, CheckChat, CheckAdmin, LookUpTarget, CheckFriend, CheckInside,
     CheckEntry, CheckStillUsers, QuitterIsAdmin, LookUpMember, GetFirstUser, Observed, tables
<1> QED
  BY <1>4, <1>5, <1>6, <1>7, <1>8 DEF Step

\* A statement keeps every user whole, but where it fails the user at stake.
LEMMA StepWhole ==
  ASSUME TypeOK, NEW w \in Workers, Step(w), Named(w), NEW u \in Users, Whole(u),
         \A v \in Workers : v # w => job'[v] = job[v],
         faults' = faults \/ AtStake(w) # <<"user", u>>
  PROVE  Whole(u)'
<1> DEFINE j == job[w]
<1>0. TablesTypeOK /\ job \in [Workers -> Job] /\ j \in Job /\ faults \in Nat
  BY MaxFaultsAssumption DEF TypeOK
<1>1. CASE u \in valid /\ ~ Invalidate(w)
  BY <1>1, OneValid DEF Whole
<1>2. CASE u \in valid /\ Invalidate(w)
  <2>1. CASE UNCHANGED tables
    BY <1>2, <2>1 DEF Whole, tables
  <2>2. CASE DelUser(j.me) /\ Goto(w, "leave_all")
    <3>1. valid' = valid \ {j.me}
      BY <2>2 DEF DelUser
    <3>2. job'[w].at = "leave_all" /\ job'[w].me = j.me
      BY <1>0, <2>2, GotoFields DEF Resting
    <3>3. u = j.me => Whole(u)'
      BY <3>2 DEF Whole
    <3>4. u # j.me => u \in valid'
      BY <1>2, <3>1
    <3> QED
      BY <3>3, <3>4 DEF Whole
  <2> QED
    BY <1>2, <2>1, <2>2 DEF Invalidate, Attempt
<1>3. CASE u \notin valid /\ \A c \in ChatIds : u \notin Members(c)
  <2>1. \A c \in ChatIds : ~ (u \in Members(c)')
    BY <1>3, ValidEnter
  <2> QED
    BY <2>1 DEF Whole
<1>4. ASSUME NEW v \in Workers, v # w, job[v].at = "leave_all", job[v].me = u
      PROVE  Whole(u)'
  <2>1. job'[v] = job[v]
    BY <1>4
  <2> QED
    BY <1>4, <2>1 DEF Whole
<1>5. CASE j.at = "leave_all" /\ j.me = u
  <2>1. faults' = faults /\ LeaveAll(w)
    BY <1>5, AtWork DEF AtStake
  <2>2. DelUserAllChats(u)
    BY <1>0, <1>5, <2>1 DEF LeaveAll, Attempt
  <2>3. \A c \in ChatIds : ~ (u \in Members(c)')
    <3> SUFFICES ASSUME NEW c \in ChatIds PROVE Members(c)' = Members(c) \ {u}
      OBVIOUS
    <3> QED
      BY <1>0, <2>2, RowsHere
  <2> QED
    BY <2>3 DEF Whole
<1> QED
  BY <1>1, <1>2, <1>3, <1>4, <1>5 DEF Whole

\* So does everything else, but for the users a kill finds about to leave.
LEMMA OutsideWhole ==
  ASSUME TypeOK, NEW u \in Users, Whole(u),
         \/ \E w \in Workers : Request(w)
         \/ Kill /\ \A v \in Workers : AtStake(v) # <<"user", u>>
         \/ Restart \/ UNCHANGED vars
  PROVE  Whole(u)'
<1>0. job \in [Workers -> Job]
  BY DEF TypeOK
<1>1. UNCHANGED valid /\ \A c \in ChatIds : Members(c)' = Members(c)
  BY TablesElsewhere DEF Request, Restart, Kill, vars, tables
<1>2. CASE u \in valid \/ \A c \in ChatIds : u \notin Members(c)
  BY <1>1, <1>2 DEF Whole
<1>3. ASSUME NEW v \in Workers, job[v].at = "leave_all", job[v].me = u
      PROVE  Whole(u)'
  <2>1. ASSUME NEW w \in Workers, Request(w)
        PROVE  job'[v] = job[v]
    <3>1. v # w
      BY <1>3, <2>1 DEF Request, Resting
    <3>2. PICK op, me, who, chat : Arrives(w, op, me, who, chat)
      BY <2>1, RequestArrives
    <3> QED
      BY <1>0, <3>1, <3>2 DEF Arrives
  <2>2. ~ Kill \/ AtStake(v) # <<"user", u>>
    BY DEF Request, Restart, Kill, vars
  <2>3. ~ Kill
    BY <1>3, <2>2 DEF AtStake
  <2>4. job'[v] = job[v]
    BY <2>1, <2>3 DEF Restart, vars
  <2> QED
    BY <1>3, <2>4 DEF Whole
<1> QED
  BY <1>2, <1>3 DEF Whole

\* A step counts one fault or none.
LEMMA FaultsCounted ==
  ASSUME NEW w, Request(w) \/ Step(w) \/ Kill \/ Restart \/ UNCHANGED vars
  PROVE  faults' = faults \/ faults' = faults + 1
BY DEF Request, Kill, Restart, vars, Step, CheckPass, CheckChat, CheckAdmin, LookUpTarget,
   CheckFriend, CheckInside, CheckEntry, CheckStillUsers, QuitterIsAdmin, LookUpMember,
   EnterCreator, UndoChat, EnterMember, RecoverMember, InsertMember, RemoveMember,
   HandOver, CloseChat, LeaveAll, Invalidate, InsertChat, GetFirstUser, Attempt, Observed

\* A fault adds what is at stake to what may be harmed; nothing else does.
LEMMA DamageInductive ==
  ASSUME NEW w, Workers = {w}, TypeOK, DamageInv(w), [Next]_vars
  PROVE  DamageInv(w)'
<1>0. w \in Workers /\ Leaving(w) /\ Named(w) /\ faults \in Nat
  BY MaxFaultsAssumption DEF DamageInv, TypeOK
<1>1. Request(w) \/ Step(w) \/ Kill \/ Restart \/ UNCHANGED vars
  BY DEF Next
<1>2. PICK H :
        /\ IsFiniteSet(H) /\ Cardinality(H) <= faults
        /\ \A c \in ChatIds : <<"chat", c>> \notin H => Sound(w, c)
        /\ \A u \in Users : <<"user", u>> \notin H => Whole(u)
  BY DEF DamageInv
<1>3. Leaving(w)' /\ Named(w)'
  BY <1>0, <1>1, LeavingKept, NamedKept
<1>4. Kill => faults' = faults + 1
  BY DEF Kill
<1>5. ASSUME NEW c \in ChatIds, <<"chat", c>> \notin H,
             faults' = faults \/ AtStake(w) # <<"chat", c>>
      PROVE  Sound(w, c)'
  BY <1>0, <1>1, <1>2, <1>4, <1>5, StepSound, OutsideSound
<1>6. ASSUME NEW u \in Users, <<"user", u>> \notin H,
             faults' = faults \/ AtStake(w) # <<"user", u>>
      PROVE  Whole(u)'
  BY <1>0, <1>1, <1>2, <1>4, <1>6, StepWhole, OutsideWhole
<1>7. CASE faults' = faults
  BY <1>2, <1>3, <1>5, <1>6, <1>7 DEF DamageInv
<1>8. CASE faults' = faults + 1
  <2> DEFINE E == H \cup {AtStake(w)}
  <2>1. IsFiniteSet(E) /\ Cardinality(E) <= faults'
    <3>1. Cardinality(H) \in Nat
      BY <1>2, FS_CardinalityType
    <3>2. IsFiniteSet(E) /\ (Cardinality(E) = Cardinality(H) \/ Cardinality(E) = Cardinality(H) + 1)
      BY <1>2, FS_AddElement
    <3> HIDE DEF E
    <3> QED
      BY <1>0, <1>2, <1>8, <3>1, <3>2
  <2>2. \A c \in ChatIds : <<"chat", c>> \notin E => Sound(w, c)'
    BY <1>5
  <2>3. \A u \in Users : <<"user", u>> \notin E => Whole(u)'
    BY <1>6
  <2> HIDE DEF E
  <2> QED
    BY <1>3, <2>1, <2>2, <2>3 DEF DamageInv
<1> QED
  BY <1>0, <1>1, <1>7, <1>8, FaultsCounted

\* What is wrong between requests is among what faults may have harmed.
LEMMA DamageAmong ==
  ASSUME NEW H, IsFiniteSet(H), NEW n \in Nat, Cardinality(H) <= n, AtRest,
         \A c \in ChatIds : <<"chat", c>> \notin H => AdminIsMember(c) /\ DeletedIsEmpty(c),
         \A u \in Users : <<"user", u>> \notin H => Whole(u)
  PROVE  Cardinality(Damage) <= n
<1>1. ASSUME NEW u \in Ghosts
      PROVE  <<"user", u>> \in H
  BY <1>1 DEF Ghosts, Whole, AtRest, Resting
<1>2. Damage \in SUBSET H
  BY <1>1 DEF Damage
<1>3. IsFiniteSet(Damage) /\ Cardinality(Damage) <= Cardinality(H)
  BY <1>2, FS_Subset
<1>4. Cardinality(H) \in Nat /\ Cardinality(Damage) \in Nat
  BY <1>3, FS_CardinalityType
<1> QED
  BY <1>3, <1>4

\* Where the server takes one request at a time, n failed queries and killed
\* servers leave at most n things wrong, a chat or a user who is still a member
\* after he has unregistered, whatever requests follow: no handler spreads the
\* damage, and none does damage of its own.
THEOREM FaultsHarmOneThingEach ==
  ASSUME NEW w, Workers = {w}
  PROVE  Spec => []DamageIsLocal
<1>1. Init => DamageInv(w)
  <2> SUFFICES ASSUME Init PROVE DamageInv(w)
    OBVIOUS
  <2>1. job[w].at = "idle" /\ faults = 0
    BY DEF Init, Rest
  <2>2. \A c \in ChatIds : AdminIsMember(c) /\ DeletedIsEmpty(c)
    BY DEF Init, AdminIsMember, DeletedIsEmpty
  <2>3. \A c \in ChatIds : Sound(w, c)
    BY <2>1, <2>2 DEF Sound, SoundAt, Known
  <2>4. \A u \in Users : Whole(u)
    BY DEF Init, Whole
  <2>5. IsFiniteSet({}) /\ Cardinality({}) <= faults
    BY <2>1, FS_EmptySet
  <2>6. Leaving(w) /\ Named(w)
    BY <2>1 DEF Leaving, Named, NamedAt, Resting
  <2> QED
    BY <2>3, <2>4, <2>5, <2>6 DEF DamageInv
<1>2. TypeOK /\ DamageInv(w) /\ [Next]_vars => DamageInv(w)'
  BY DamageInductive
<1>3. TypeOK /\ DamageInv(w) => DamageIsLocal
  <2> SUFFICES ASSUME TypeOK, DamageInv(w), AtRest PROVE Cardinality(Damage) <= faults
    BY DEF DamageIsLocal
  <2>1. PICK H :
          /\ IsFiniteSet(H) /\ Cardinality(H) <= faults
          /\ \A c \in ChatIds : <<"chat", c>> \notin H => Sound(w, c)
          /\ \A u \in Users : <<"user", u>> \notin H => Whole(u)
    BY DEF DamageInv
  <2>2. \A c \in ChatIds : <<"chat", c>> \notin H => AdminIsMember(c) /\ DeletedIsEmpty(c)
    BY <2>1 DEF AtRest, Resting, Sound, SoundAt, Mending
  <2>3. faults \in Nat
    BY MaxFaultsAssumption DEF TypeOK
  <2> QED
    BY <2>1, <2>2, <2>3, DamageAmong
<1>4. QED
  BY <1>1, <1>2, <1>3, Typing, PTL DEF Spec
=============================================================================
