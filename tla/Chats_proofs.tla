---------------------------- MODULE Chats_proofs ----------------------------
(***************************************************************************)
(* Proofs about Chats, for all users, chats, workers and requests.         *)
(***************************************************************************)
EXTENDS Chats, TLAPS

-----------------------------------------------------------------------------
(* Typing.                                                                 *)

\* Every statement leaves the tables well typed.
LEMMA StatementsTyped ==
  ASSUME TablesTypeOK,
         NEW u \in Users \cup {NoUser}, NEW c,
         \/ AddChat(u, c) \/ DelChat(c) \/ ChangeAdmin(u, c)
         \/ AddUserChat(u, c) \/ RecoverUserChat(u, c) \/ DelUserChat(u, c)
         \/ DelUser(u) \/ DelUserAllChats(u)
  PROVE  TablesTypeOK'
<1> USE DEF TablesTypeOK
<1>0. \A v \in Users, d \in ChatIds : AllRows(v, d) \in Nat /\ live[d][v] + 1 \in Nat
  BY DEF AllRows
<1>1. CASE AddChat(u, c)          BY <1>1 DEF AddChat
<1>2. CASE DelChat(c)             BY <1>2 DEF DelChat
<1>3. CASE ChangeAdmin(u, c)      BY <1>3 DEF ChangeAdmin
<1>4. CASE AddUserChat(u, c)      BY <1>0, <1>4 DEF AddUserChat
<1>5. CASE RecoverUserChat(u, c)  BY <1>0, <1>5 DEF RecoverUserChat
<1>6. CASE DelUserChat(u, c)  BY <1>0, <1>6 DEF DelUserChat
<1>7. CASE DelUser(u)             BY <1>7 DEF DelUser
<1>8. CASE DelUserAllChats(u)
  <2>1. \A d \in ChatIds : [live[d] EXCEPT ![u] = 0] \in [Users -> Nat]
    OBVIOUS
  <2>2. \A d \in ChatIds : [left[d] EXCEPT ![u] = AllRows(u, d)] \in [Users -> Nat]
    <3>1. ASSUME NEW d \in ChatIds, u \in Users
          PROVE  [left[d] EXCEPT ![u] = AllRows(u, d)] \in [Users -> Nat]
      <4>1. left[d] \in [Users -> Nat] /\ AllRows(u, d) \in Nat
        BY <1>0, <3>1
      <4>2. QED BY <4>1
    <3>2. ASSUME NEW d \in ChatIds, u \notin Users
          PROVE  [left[d] EXCEPT ![u] = AllRows(u, d)] \in [Users -> Nat]
      <4>1. left[d] \in [Users -> Nat]
        OBVIOUS
      <4>2. QED BY <3>2, <4>1
    <3>3. QED BY <3>1, <3>2
  <2>3. live' \in [ChatIds -> [Users -> Nat]] /\ left' \in [ChatIds -> [Users -> Nat]]
    BY <1>8, <2>1, <2>2 DEF DelUserAllChats
  <2>4. QED BY <1>8, <2>3 DEF DelUserAllChats
<1>9. QED BY <1>1, <1>2, <1>3, <1>4, <1>5, <1>6, <1>7, <1>8

\* A worker that moves to another step keeps a well-typed job.
LEMMA GotoTyped ==
  ASSUME job \in [Workers -> Job], NEW w \in Workers,
         NEW s \in Steps \cup Resting, Goto(w, s)
  PROVE  job' \in [Workers -> Job]
BY DEF Goto, Rest, Job, Steps, Resting, AllOps

\* One more fault, where one more is allowed, keeps the count in its bounds.
LEMMA FaultCount ==
  ASSUME faults \in 0..MaxFaults, faults < MaxFaults
  PROVE  faults + 1 \in 0..MaxFaults
BY MaxFaultsAssumption

\* The queries of a reader change nothing but the fault count.
LEMMA AnswersTyped ==
  ASSUME TypeOK, NEW b, NEW r \in Answers(b), Observed(r)
  PROVE  /\ r \in {-1, 0, 1}
         /\ UNCHANGED <<tables, up>>
         /\ TablesTypeOK'
         /\ faults' \in 0..MaxFaults
BY MaxFaultsAssumption, SMTT(30) DEF Answers, Observed, TypeOK, tables, TablesTypeOK

\* A writer keeps everything typed, whether its query succeeds or fails.
LEMMA AttemptTyped ==
  ASSUME TypeOK, NEW w \in Workers,
         NEW u \in Users \cup {NoUser}, NEW c,
         NEW good \in Steps \cup Resting, NEW bad \in Steps \cup Resting,
         \/ Attempt(w, AddUserChat(u, c), good, bad)
         \/ Attempt(w, DelChat(c), good, bad)
         \/ Attempt(w, RecoverUserChat(u, c), good, bad)
         \/ Attempt(w, DelUserChat(u, c), good, bad)
         \/ Attempt(w, ChangeAdmin(u, c), good, bad)
         \/ Attempt(w, DelUser(u), good, bad)
         \/ Attempt(w, DelUserAllChats(u), good, bad)
  PROVE  TypeOK'
<1>1. up' \in BOOLEAN /\ faults' \in 0..MaxFaults
  BY MaxFaultsAssumption DEF Attempt, TypeOK
<1>2. TablesTypeOK'
  <2>1. CASE UNCHANGED tables
    BY <2>1 DEF TypeOK, tables, TablesTypeOK
  <2>2. CASE ~UNCHANGED tables
    BY <2>2, StatementsTyped DEF Attempt, TypeOK
  <2>3. QED BY <2>1, <2>2
<1>3. Goto(w, good) \/ Goto(w, bad)
  BY DEF Attempt
<1>4. job' \in [Workers -> Job]
  BY <1>3, GotoTyped DEF TypeOK
<1>5. QED BY <1>1, <1>2, <1>4 DEF TypeOK

\* A reader that goes on at some step keeps everything typed.
LEMMA ReaderTyped ==
  ASSUME TypeOK, NEW w \in Workers, NEW b, NEW r \in Answers(b), Observed(r),
         NEW s \in Steps \cup Resting, Goto(w, s)
  PROVE  TypeOK'
<1>1. job' \in [Workers -> Job]
  BY GotoTyped DEF TypeOK
<1>2. up' \in BOOLEAN /\ TablesTypeOK' /\ faults' \in 0..MaxFaults
  BY AnswersTyped DEF TypeOK
<1>3. QED BY <1>1, <1>2 DEF TypeOK

\* TypeOK is inductive.
LEMMA StepTyped ==
  ASSUME TypeOK, NEW w \in Workers, Step(w)
  PROVE  TypeOK'
<1> USE DEF Steps, Resting, TypeOK
<1>0. job[w] \in Job /\ job[w].me \in Users \cup {NoUser} /\ job[w].who \in Users \cup {NoUser}
      /\ job[w].first \in Users \cup {NoUser} /\ job[w].op \in AllOps \cup {"none"}
  BY DEF Job
<1>1. CASE CheckPass(w)
  <2>1. AfterLogin(job[w].op) \in Steps
    BY <1>0 DEF AfterLogin, AllOps
  <2>2. QED BY <1>1, <2>1, ReaderTyped DEF CheckPass
<1>2. CASE LookUpMember(w)
  <2>1. job' \in [Workers -> Job]
    <3>1. PICK x \in Users \cup {NoUser} :
            job' = [job EXCEPT ![w].at = "new_chat", ![w].who = x]
      BY <1>0, <1>2 DEF LookUpMember
    <3> DEFINE j == [job[w] EXCEPT !.at = "new_chat", !.who = x]
    <3>2. j \in Job
      BY <1>0 DEF Job
    <3>3. job' = [job EXCEPT ![w] = j]
      BY <3>1
    <3>4. QED BY <3>2, <3>3
  <2>2. QED BY <1>2, <2>1, AnswersTyped DEF LookUpMember
<1>3. CASE InsertChat(w)
  <2>1. job' \in [Workers -> Job]
    BY <1>0, <1>3, GotoTyped DEF InsertChat, Job
  <2>2. faults' \in 0..MaxFaults /\ up' \in BOOLEAN
    BY <1>3, MaxFaultsAssumption DEF InsertChat
  <2>3. TablesTypeOK'
    BY <1>0, <1>3, StatementsTyped DEF InsertChat, tables, TablesTypeOK
  <2>4. QED BY <2>1, <2>2, <2>3
<1>4. CASE EnterMember(w)
  <2>1. CASE job[w].who = NoUser
    <3>1. Goto(w, "error") /\ UNCHANGED <<tables, up, faults>>
      BY <1>4, <2>1 DEF EnterMember
    <3>2. QED BY <3>1, GotoTyped DEF tables, TablesTypeOK
  <2>2. CASE job[w].who # NoUser
    BY <1>0, <1>4, <2>2, AttemptTyped DEF EnterMember
  <2>3. QED BY <2>1, <2>2
<1>5. CASE CheckChat(w)
  BY <1>5, ReaderTyped DEF CheckChat
<1>6. CASE CheckAdmin(w)
  BY <1>6, ReaderTyped DEF CheckAdmin
<1>7. CASE LookUpTarget(w)
  BY <1>7, ReaderTyped DEF LookUpTarget
<1>8. CASE CheckFriend(w)
  BY <1>8, ReaderTyped DEF CheckFriend
<1>9. CASE CheckInside(w)
  BY <1>9, ReaderTyped DEF CheckInside
<1>10. CASE CheckEntry(w)
  BY <1>10, ReaderTyped DEF CheckEntry
<1>11. CASE CheckStillUsers(w)
  BY <1>11, ReaderTyped DEF CheckStillUsers
<1>12. CASE QuitterIsAdmin(w)
  BY <1>12, ReaderTyped DEF QuitterIsAdmin
<1>13. CASE EnterCreator(w)
  BY <1>0, <1>13, AttemptTyped DEF EnterCreator
<1>14. CASE UndoChat(w)
  BY <1>0, <1>14, AttemptTyped DEF UndoChat
<1>15. CASE RecoverMember(w)
  BY <1>0, <1>15, AttemptTyped DEF RecoverMember
<1>16. CASE InsertMember(w)
  BY <1>0, <1>16, AttemptTyped DEF InsertMember
<1>17. CASE RemoveMember(w)
  BY <1>0, <1>17, AttemptTyped DEF RemoveMember
<1>18. CASE CloseChat(w)
  BY <1>0, <1>18, AttemptTyped DEF CloseChat
<1>19. CASE Invalidate(w)
  BY <1>0, <1>19, AttemptTyped DEF Invalidate
<1>20. CASE LeaveAll(w)
  BY <1>0, <1>20, AttemptTyped DEF LeaveAll
<1>21. CASE GetFirstUser(w)
  <2>1. job' \in [Workers -> Job]
    BY <1>0, <1>21 DEF GetFirstUser, Members, Stopped, Rest, Job
  <2>2. faults' \in 0..MaxFaults /\ up' \in BOOLEAN
    BY <1>21, FaultCount DEF GetFirstUser
  <2>3. QED BY <1>21, <2>1, <2>2 DEF GetFirstUser, tables, TablesTypeOK
<1>22. CASE HandOver(w)
  <2>1. CASE job[w].first = NoUser
    <3>1. Goto(w, "ok") /\ UNCHANGED <<tables, up, faults>>
      BY <1>22, <2>1 DEF HandOver
    <3>2. QED BY <3>1, GotoTyped DEF tables, TablesTypeOK
  <2>2. CASE job[w].first # NoUser
    BY <1>0, <1>22, <2>2, AttemptTyped DEF HandOver
  <2>3. QED BY <2>1, <2>2
<1>23. QED
  BY <1>1, <1>2, <1>3, <1>4, <1>5, <1>6, <1>7, <1>8, <1>9, <1>10, <1>11, <1>12, <1>13, <1>14, <1>15, <1>16, <1>17, <1>18, <1>19, <1>20, <1>21, <1>22 DEF Step

\* Every variable keeps its type, for any requests, workers and faults.
THEOREM Typing == Spec => []TypeOK
<1>1. Init => TypeOK
  BY MaxFaultsAssumption DEF Init, TypeOK, TablesTypeOK, Rest, Job, Steps, Resting
<1>2. TypeOK /\ [Next]_vars => TypeOK'
  <2> SUFFICES ASSUME TypeOK, [Next]_vars PROVE TypeOK'
    OBVIOUS
  <2>1. ASSUME NEW w \in Workers, Request(w) PROVE TypeOK'
    <3>1. job' \in [Workers -> Job]
        <4>1. PICK op \in AllOps, me \in Users, who \in Users \cup {NoUser},
                 c \in ChatIds \cup {NoChat} : Arrives(w, op, me, who, c)
        BY <2>1, OpsAssumption DEF Request, TypeOK, TablesTypeOK, AllOps
      <4>2. QED BY <4>1 DEF Arrives, TypeOK, Job, Steps
    <3>2. QED BY <2>1, <3>1 DEF Request, TypeOK, tables, TablesTypeOK
  <2>2. ASSUME NEW w \in Workers, Step(w) PROVE TypeOK'
    BY <2>2, StepTyped
  <2>3. CASE Kill
    <3>1. job' \in [Workers -> Job]
      BY <2>3 DEF Kill, Stopped, Rest, Job, Resting
    <3>2. faults' \in 0..MaxFaults
      BY <2>3, FaultCount DEF Kill, TypeOK
    <3>3. QED BY <2>3, <3>1, <3>2 DEF Kill, TypeOK, tables, TablesTypeOK
  <2>4. CASE Restart
    BY <2>4 DEF Restart, TypeOK, tables, TablesTypeOK
  <2>5. CASE UNCHANGED vars
    BY <2>5 DEF vars, TypeOK, TablesTypeOK
  <2>6. QED BY <2>1, <2>2, <2>3, <2>4, <2>5 DEF Next
<1>3. QED BY <1>1, <1>2, PTL DEF Spec

-----------------------------------------------------------------------------
(* The administrator's role goes to somebody with a row in the chat.       *)

\* No statement deletes a row of users_chats.
LEMMA RowsStay ==
  ASSUME TablesTypeOK,
         NEW u \in Users \cup {NoUser}, NEW c,
         \/ UNCHANGED tables
         \/ AddChat(u, c) \/ DelChat(c) \/ ChangeAdmin(u, c)
         \/ AddUserChat(u, c) \/ RecoverUserChat(u, c) \/ DelUserChat(u, c)
         \/ DelUser(u) \/ DelUserAllChats(u),
         NEW v \in Users, NEW d \in ChatIds, HasRow(v, d)
  PROVE  HasRow(v, d)'
<1> USE DEF HasRow, AllRows, TablesTypeOK
<1>0. live[d][v] \in Nat /\ left[d][v] \in Nat
  OBVIOUS
<1>1. CASE UNCHANGED <<live, left>>
  BY <1>1
<1>2. CASE AddUserChat(u, c)
  BY <1>0, <1>2 DEF AddUserChat
<1>3. CASE RecoverUserChat(u, c)
  BY <1>0, <1>3 DEF RecoverUserChat
<1>4. CASE DelUserChat(u, c)
  BY <1>0, <1>4 DEF DelUserChat
<1>5. CASE DelUserAllChats(u)
  BY <1>0, <1>5 DEF DelUserAllChats
<1>6. QED
  BY <1>1, <1>2, <1>3, <1>4, <1>5 DEF tables, AddChat, DelChat, ChangeAdmin, DelUser

\* Every step of the server runs at most one of the statements.
LEMMA OneStatement ==
  ASSUME TypeOK, [Next]_vars
  PROVE  \/ UNCHANGED tables
         \/ \E u \in Users \cup {NoUser}, c \in ChatIds \cup {NoChat} :
              \/ AddChat(u, c) \/ DelChat(c) \/ ChangeAdmin(u, c)
              \/ AddUserChat(u, c) \/ RecoverUserChat(u, c) \/ DelUserChat(u, c)
              \/ DelUser(u) \/ DelUserAllChats(u)
<1>1. CASE UNCHANGED vars
  BY <1>1 DEF vars, tables
<1>2. CASE Kill \/ Restart \/ \E w \in Workers : Request(w)
  BY <1>2 DEF Kill, Restart, Request, tables
<1>3. ASSUME NEW w \in Workers, Step(w), ~UNCHANGED tables
      PROVE  \E u \in Users \cup {NoUser}, c \in ChatIds \cup {NoChat} :
               \/ AddChat(u, c) \/ DelChat(c) \/ ChangeAdmin(u, c)
               \/ AddUserChat(u, c) \/ RecoverUserChat(u, c) \/ DelUserChat(u, c)
               \/ DelUser(u) \/ DelUserAllChats(u)
  <2>1. /\ job[w].me \in Users \cup {NoUser} /\ job[w].who \in Users \cup {NoUser}
        /\ job[w].first \in Users \cup {NoUser} /\ job[w].chat \in ChatIds \cup {NoChat}
    BY DEF TypeOK, Job
  <2>2. CASE InsertChat(w)
    BY <1>3, <2>1, <2>2 DEF InsertChat
  <2>3. CASE EnterCreator(w) \/ EnterMember(w) \/ RecoverMember(w) \/ InsertMember(w)
             \/ RemoveMember(w)
    BY <1>3, <2>1, <2>3
    DEF EnterCreator, EnterMember, RecoverMember, InsertMember, RemoveMember, Attempt
  <2>4. CASE UndoChat(w) \/ CloseChat(w) \/ HandOver(w) \/ Invalidate(w) \/ LeaveAll(w)
    BY <1>3, <2>1, <2>4 DEF UndoChat, CloseChat, HandOver, Invalidate, LeaveAll, Attempt
  <2>5. ~(\/ CheckPass(w) \/ LookUpMember(w) \/ CheckChat(w) \/ CheckAdmin(w)
          \/ LookUpTarget(w) \/ CheckFriend(w) \/ CheckInside(w) \/ CheckEntry(w)
          \/ CheckStillUsers(w) \/ QuitterIsAdmin(w) \/ GetFirstUser(w))
    BY <1>3 DEF CheckPass, LookUpMember, CheckChat, CheckAdmin, LookUpTarget, CheckFriend,
                CheckInside, CheckEntry, CheckStillUsers, QuitterIsAdmin, GetFirstUser,
                Observed, tables
  <2>6. QED BY <1>3, <2>2, <2>3, <2>4, <2>5 DEF Step
<1>4. QED BY <1>1, <1>2, <1>3 DEF Next

\* A worker comes to change_admin only from a get_first_users_in_chat of its own
\* that has read a member, or has failed.
LEMMA HandoverIsRead ==
  ASSUME TypeOK, [Next]_vars, NEW w \in Workers,
         job'[w] # job[w], job'[w].at = "handover", job'[w].first # NoUser
  PROVE  \E u \in Members(job[w].chat) :
           job' = [job EXCEPT ![w].at = "handover", ![w].first = u] /\ UNCHANGED tables
<1>1. job \in [Workers -> Job] /\ job[w] \in Job
  BY DEF TypeOK
<1>2. ~(Kill \/ Restart \/ UNCHANGED vars)
  BY <1>1 DEF Kill, Restart, vars, Stopped, Rest
<1>3. ASSUME NEW v \in Workers, Request(v) PROVE FALSE
  BY <1>1, <1>3 DEF Request, Arrives
<1>4. ASSUME NEW v \in Workers, NEW s, Goto(v, s) PROVE v = w /\ s = "handover"
  BY <1>1, <1>4 DEF Goto, Rest, Resting, Job
<1>5. PICK v \in Workers : Step(v)
  BY <1>2, <1>3 DEF Next
<1>6. ~(\/ CheckPass(v) \/ CheckChat(v) \/ CheckAdmin(v) \/ LookUpTarget(v)
        \/ CheckFriend(v) \/ CheckInside(v) \/ CheckEntry(v) \/ CheckStillUsers(v)
        \/ QuitterIsAdmin(v))
  BY <1>4 DEF CheckPass, AfterLogin, CheckChat, CheckAdmin, LookUpTarget, CheckFriend,
              CheckInside, CheckEntry, CheckStillUsers, QuitterIsAdmin
<1>7. ~(\/ EnterCreator(v) \/ UndoChat(v) \/ EnterMember(v) \/ RecoverMember(v)
        \/ InsertMember(v) \/ RemoveMember(v) \/ CloseChat(v) \/ Invalidate(v)
        \/ LeaveAll(v) \/ HandOver(v))
  BY <1>4 DEF EnterCreator, UndoChat, EnterMember, RecoverMember, InsertMember, RemoveMember,
              CloseChat, Invalidate, LeaveAll, HandOver, Attempt
<1>8. ~LookUpMember(v) /\ ~InsertChat(v)
  BY <1>1, <1>4 DEF LookUpMember, InsertChat, Job
<1>9. GetFirstUser(v)
  BY <1>5, <1>6, <1>7, <1>8 DEF Step
<1>10. QED
  BY <1>1, <1>9 DEF GetFirstUser, Stopped, Rest, Job

\* HandoverInv is inductive: get_first_users_in_chat reads a member, and the
\* row it read outlives every statement of the other workers.
LEMMA HandoverInductive ==
  ASSUME TypeOK, HandoverInv, [Next]_vars
  PROVE  HandoverInv'
<1> SUFFICES ASSUME NEW w \in Workers, job'[w].at = "handover",
                    job'[w].chat \in ChatIds, job'[w].first # NoUser
             PROVE  HasRow(job[w].first, job[w].chat)'
  BY DEF HandoverInv
<1>1. ASSUME NEW u \in Users, NEW c \in ChatIds, HasRow(u, c) PROVE HasRow(u, c)'
  BY <1>1, OneStatement, RowsStay DEF TypeOK
<1>2. CASE job'[w] = job[w]
  <2>1. job[w].first \in Users /\ job[w].chat \in ChatIds
    BY <1>2 DEF TypeOK, Job
  <2>2. HasRow(job[w].first, job[w].chat)
    BY <1>2, <2>1 DEF HandoverInv
  <2>3. HasRow(job[w].first, job[w].chat)'
    <3> DEFINE u == job[w].first
               c == job[w].chat
    <3>1. live'[c][u] + left'[c][u] > 0
      BY <1>1, <2>1, <2>2 DEF HasRow
    <3>2. QED BY <3>1, <1>2 DEF HasRow
  <2>4. QED BY <2>3
<1>3. CASE job'[w] # job[w]
  <2>1. PICK u \in Members(job[w].chat) :
          job' = [job EXCEPT ![w].at = "handover", ![w].first = u] /\ UNCHANGED tables
    BY <1>3, HandoverIsRead DEF GetFirstUser
  <2>2. job[w] \in Job
    BY DEF TypeOK
  <2>3. job'[w].first = u /\ job'[w].chat = job[w].chat
    BY <2>1, <2>2 DEF TypeOK, Job
  <2>4. u \in Users /\ live[job[w].chat][u] \in Nat \ {0} /\ left[job[w].chat][u] \in Nat
    BY <2>1, <2>3 DEF Members, TypeOK, TablesTypeOK
  <2>5. QED BY <2>1, <2>3, <2>4 DEF HasRow, tables
<1>4. QED BY <1>2, <1>3

\* An administrator of an existing chat changes only in change_admin.
LEMMA AdminChange ==
  ASSUME TypeOK, [Next]_vars, NEW c \in ChatIds, NEW u \in Users,
         status[c] # "none", admin[c] # u, admin'[c] = u
  PROVE  \E w \in Workers : /\ job[w].at = "handover" /\ job[w].chat = c
                            /\ job[w].first = u
<1>1. ~UNCHANGED admin
  OBVIOUS
<1>2. ~(UNCHANGED vars \/ Kill \/ Restart \/ \E w \in Workers : Request(w))
  BY <1>1 DEF vars, Kill, Restart, Request, tables
<1>3. PICK w \in Workers : Step(w)
  BY <1>2 DEF Next
<1>4. ~(\/ CheckPass(w) \/ LookUpMember(w) \/ CheckChat(w) \/ CheckAdmin(w)
        \/ LookUpTarget(w) \/ CheckFriend(w) \/ CheckInside(w) \/ CheckEntry(w)
        \/ CheckStillUsers(w) \/ QuitterIsAdmin(w) \/ GetFirstUser(w))
  BY <1>1 DEF CheckPass, LookUpMember, CheckChat, CheckAdmin, LookUpTarget, CheckFriend,
              CheckInside, CheckEntry, CheckStillUsers, QuitterIsAdmin, GetFirstUser,
              Observed, tables
<1>5. ~(\/ EnterCreator(w) \/ UndoChat(w) \/ EnterMember(w) \/ RecoverMember(w)
        \/ InsertMember(w) \/ RemoveMember(w) \/ CloseChat(w) \/ Invalidate(w)
        \/ LeaveAll(w))
  BY <1>1 DEF EnterCreator, UndoChat, EnterMember, RecoverMember, InsertMember, RemoveMember,
              CloseChat, Invalidate, LeaveAll, Attempt, AddUserChat, DelChat,
              RecoverUserChat, DelUserChat, DelUser, DelUserAllChats, tables
<1>6. ~InsertChat(w)
  BY <1>1 DEF InsertChat, AddChat, tables, TypeOK, TablesTypeOK
<1>7. HandOver(w)
  BY <1>3, <1>4, <1>5, <1>6 DEF Step
<1>8. ChangeAdmin(job[w].first, job[w].chat)
  BY <1>1, <1>7 DEF HandOver, Attempt, tables
<1>9. QED
  BY <1>7, <1>8 DEF HandOver, At, ChangeAdmin, TypeOK, TablesTypeOK

\* change_admin only names somebody who is, or has been, in the chat, for any
\* number of workers, any requests and any failed queries.
THEOREM HandoverSafe == Spec => HandoverToMember
<1>1. Init => HandoverInv
  BY DEF Init, HandoverInv, Rest
<1>2. TypeOK /\ HandoverInv /\ [Next]_vars => HandoverInv'
  BY HandoverInductive
<1>3. TypeOK /\ HandoverInv /\ [Next]_vars
      => [\A c \in ChatIds, u \in Users :
            status[c] # "none" /\ admin[c] # u /\ admin'[c] = u => HasRow(u, c)]_vars
  <2> SUFFICES ASSUME TypeOK, HandoverInv, [Next]_vars, NEW c \in ChatIds, NEW u \in Users,
                      status[c] # "none", admin[c] # u, admin'[c] = u
               PROVE  HasRow(u, c)
    OBVIOUS
  <2>1. PICK w \in Workers : job[w].at = "handover" /\ job[w].chat = c /\ job[w].first = u
    BY AdminChange
  <2>2. QED BY <2>1, UsersAssumption DEF HandoverInv
<1>4. QED BY <1>1, <1>2, <1>3, Typing, PTL DEF Spec, HandoverToMember

-----------------------------------------------------------------------------
(* One request at a time.                                                  *)

\* Without faults a query returns what it asks and changes nothing.
LEMMA NoFaultReader ==
  ASSUME MaxFaults = 0, faults = 0, NEW b, NEW r \in Answers(b), Observed(r)
  PROVE  (b => r = 1) /\ (~b => r = 0) /\ UNCHANGED <<tables, up, faults>>
BY DEF Answers, Observed

\* Where a worker is after Goto, and what it still knows.
LEMMA GotoFields ==
  ASSUME job \in [Workers -> Job], NEW w \in Workers, NEW s, Goto(w, s)
  PROVE  /\ job'[w].at = s
         /\ s \in Resting => job'[w].op = "none"
         /\ s \notin Resting => /\ job'[w].op = job[w].op /\ job'[w].me = job[w].me
                              /\ job'[w].who = job[w].who /\ job'[w].chat = job[w].chat
                              /\ job'[w].first = job[w].first
BY DEF Goto, Rest, Job

\* A worker at rest knows nothing.
LEMMA RestFacts ==
  ASSUME NEW w, job'[w].at \in Resting, job'[w].op = "none"
  PROVE  JobFacts(w)'
BY DEF JobFacts, Resting

\* A step that changes no table keeps the invariant when the worker keeps track
\* of the chat it exposes.
LEMMA ReaderKeeps ==
  ASSUME NEW w, SequentialInv(w), UNCHANGED <<tables, up, faults>>, JobFacts(w)',
         job[w].at # "leave_all", job'[w].at # "leave_all",
         \A c \in ChatIds : Exposed(w, c) => Exposed(w, c)' \/ AdminIsMember(c)
  PROVE  SequentialInv(w)'
<1>1. \A c \in ChatIds : /\ AdminIsMember(c)' <=> AdminIsMember(c)
                         /\ DeletedIsEmpty(c)' <=> DeletedIsEmpty(c)
                         /\ Members(c)' = Members(c)
  BY DEF tables, AdminIsMember, DeletedIsEmpty, Members
<1>2. \A c \in ChatIds : Members(c)' \subseteq valid'
  BY <1>1 DEF SequentialInv, tables
<1>3. QED BY <1>1, <1>2 DEF SequentialInv

\* The statements that only read, for a single worker.
LEMMA SequentialRead ==
  ASSUME NEW w, Workers = {w}, MaxFaults = 0, TypeOK, SequentialInv(w),
         \/ CheckPass(w) \/ CheckChat(w) \/ CheckAdmin(w) \/ LookUpTarget(w)
         \/ CheckFriend(w) \/ CheckInside(w) \/ CheckEntry(w) \/ CheckStillUsers(w)
         \/ QuitterIsAdmin(w)
  PROVE  SequentialInv(w)'
<1> DEFINE j == job[w]
<1>0. /\ job \in [Workers -> Job] /\ w \in Workers /\ j \in Job
      /\ faults = 0 /\ JobFacts(w)
  BY DEF TypeOK, SequentialInv
<1>1. ASSUME NEW s \in Resting, Goto(w, s) PROVE JobFacts(w)'
  BY <1>0, <1>1, GotoFields, RestFacts
<1>2. CASE CheckChat(w)
  <2>1. /\ j.at = "chat" /\ UNCHANGED <<tables, up, faults>>
        /\ \/ Goto(w, "error")
           \/ status[j.chat] = "valid" /\ j.op = "quit" /\ Goto(w, "inside")
           \/ status[j.chat] = "valid" /\ j.op # "quit" /\ Goto(w, "admin")
    <3>1. PICK r \in Answers(ChatExist(j.chat)) :
            Observed(r) /\ Goto(w, IF r # 1 THEN "error" ELSE IF j.op = "quit" THEN "inside" ELSE "admin")
      BY <1>2 DEF CheckChat
    <3>2. (ChatExist(j.chat) => r = 1) /\ (~(ChatExist(j.chat)) => r = 0)
          /\ UNCHANGED <<tables, up, faults>>
      BY <1>0, <3>1, NoFaultReader
    <3>3. QED BY <1>0, <1>2, <3>1, <3>2 DEF CheckChat, At, ChatExist
  <2>2. JobFacts(w)'
    BY <1>0, <1>1, <2>1, GotoFields DEF JobFacts, Resting, tables, Members
  <2>3. QED
    BY <1>0, <2>1, <2>2, GotoFields, ReaderKeeps DEF Exposed, AdminIsMember, Resting, JobFacts, tables
<1>3. CASE CheckAdmin(w)
  <2>1. /\ j.at = "admin" /\ UNCHANGED <<tables, up, faults>>
        /\ \/ Goto(w, "error")
           \/ admin[j.chat] = j.me /\ Goto(w, "who")
    <3>1. PICK r \in Answers(IsAdmin(j.me, j.chat)) :
            Observed(r) /\ Goto(w, IF r = 0 THEN "error" ELSE "who")
      BY <1>3 DEF CheckAdmin
    <3>2. (IsAdmin(j.me, j.chat) => r = 1) /\ (~(IsAdmin(j.me, j.chat)) => r = 0)
          /\ UNCHANGED <<tables, up, faults>>
      BY <1>0, <3>1, NoFaultReader
    <3>3. QED BY <1>0, <1>3, <3>1, <3>2 DEF CheckAdmin, At, IsAdmin
  <2>2. JobFacts(w)'
    BY <1>0, <1>1, <2>1, GotoFields DEF JobFacts, Resting, tables, Members
  <2>3. QED
    BY <1>0, <2>1, <2>2, GotoFields, ReaderKeeps DEF Exposed, AdminIsMember, Resting, JobFacts, tables
<1>4. CASE LookUpTarget(w)
  <2>1. /\ j.at = "who" /\ UNCHANGED <<tables, up, faults>>
        /\ \/ Goto(w, "error")
           \/ j.who \in valid /\ j.who # j.me /\ j.op = "add" /\ Goto(w, "friend")
           \/ j.who \in valid /\ j.who # j.me /\ j.op # "add" /\ Goto(w, "inside")
    <3>1. PICK r \in Answers(GetUserId(j.who) # NoUser) :
            Observed(r) /\ Goto(w, IF r # 1 \/ j.who = j.me THEN "error" ELSE IF j.op = "add" THEN "friend" ELSE "inside")
      BY <1>4 DEF LookUpTarget
    <3>2. (GetUserId(j.who) # NoUser => r = 1) /\ (~(GetUserId(j.who) # NoUser) => r = 0)
          /\ UNCHANGED <<tables, up, faults>>
      BY <1>0, <3>1, NoFaultReader
    <3>3. QED BY <1>0, <1>4, <3>1, <3>2 DEF LookUpTarget, At, GetUserId
  <2>2. JobFacts(w)'
    BY <1>0, <1>1, <2>1, GotoFields DEF JobFacts, Resting, tables, Members
  <2>3. QED
    BY <1>0, <2>1, <2>2, GotoFields, ReaderKeeps DEF Exposed, AdminIsMember, Resting, JobFacts, tables
<1>5. CASE CheckFriend(w)
  <2>1. /\ j.at = "friend" /\ UNCHANGED <<tables, up, faults>>
        /\ Goto(w, "error") \/ Goto(w, "inside")
    <3>1. PICK r \in Answers(ExistFriendly(j.who, j.me)) :
            Observed(r) /\ Goto(w, IF r # 1 THEN "error" ELSE "inside")
      BY <1>5 DEF CheckFriend
    <3>2. (ExistFriendly(j.who, j.me) => r = 1) /\ (~(ExistFriendly(j.who, j.me)) => r = 0)
          /\ UNCHANGED <<tables, up, faults>>
      BY <1>0, <3>1, NoFaultReader
    <3>3. QED BY <1>0, <1>5, <3>1, <3>2 DEF CheckFriend, At
  <2>2. JobFacts(w)'
    BY <1>0, <1>1, <2>1, GotoFields DEF JobFacts, Resting, tables, Members
  <2>3. QED
    BY <1>0, <2>1, <2>2, GotoFields, ReaderKeeps DEF Exposed, AdminIsMember, Resting, JobFacts, tables
<1>6. CASE CheckInside(w)
  <2>1. /\ j.at = "inside" /\ UNCHANGED <<tables, up, faults>>
        /\ \/ Goto(w, "error")
           \/ j.op = "add" /\ Goto(w, "entry")
           \/ j.op # "add" /\ Goto(w, "remove")
    <3>1. PICK r \in Answers(ExistUserInChat(j.who, j.chat)) :
            Observed(r) /\ Goto(w, IF Refused(j.op, r) THEN "error" ELSE IF j.op = "add" THEN "entry" ELSE "remove")
      BY <1>6 DEF CheckInside
    <3>2. (ExistUserInChat(j.who, j.chat) => r = 1) /\ (~(ExistUserInChat(j.who, j.chat)) => r = 0)
          /\ UNCHANGED <<tables, up, faults>>
      BY <1>0, <3>1, NoFaultReader
    <3>3. QED BY <1>0, <1>6, <3>1, <3>2 DEF CheckInside, At
  <2>2. JobFacts(w)'
    BY <1>0, <1>1, <2>1, GotoFields DEF JobFacts, Resting, tables, Members
  <2>3. QED
    BY <1>0, <2>1, <2>2, GotoFields, ReaderKeeps DEF Exposed, AdminIsMember, Resting, JobFacts, tables
<1>7. CASE CheckEntry(w)
  <2>1. /\ j.at = "entry" /\ UNCHANGED <<tables, up, faults>>
        /\ Goto(w, "recover") \/ Goto(w, "insert")
    <3>1. PICK r \in Answers(ExistUserEntryInChat(j.who, j.chat)) :
            Observed(r) /\ Goto(w, IF r = 1 THEN "recover" ELSE "insert")
      BY <1>7 DEF CheckEntry
    <3>2. (ExistUserEntryInChat(j.who, j.chat) => r = 1) /\ (~(ExistUserEntryInChat(j.who, j.chat)) => r = 0)
          /\ UNCHANGED <<tables, up, faults>>
      BY <1>0, <3>1, NoFaultReader
    <3>3. QED BY <1>0, <1>7, <3>1, <3>2 DEF CheckEntry, At
  <2>2. JobFacts(w)'
    BY <1>0, <1>1, <2>1, GotoFields DEF JobFacts, Resting, tables, Members
  <2>3. QED
    BY <1>0, <2>1, <2>2, GotoFields, ReaderKeeps DEF Exposed, AdminIsMember, Resting, JobFacts, tables
<1>8. CASE CheckStillUsers(w)
  <2>1. /\ j.at = "still" /\ UNCHANGED <<tables, up, faults>>
        /\ \/ Members(j.chat) # {} /\ Goto(w, "am_admin")
           \/ Members(j.chat) = {} /\ Goto(w, "close")
    <3>1. PICK r \in Answers(StillUsersInChat(j.chat)) :
            Observed(r) /\ Goto(w, IF r = 1 THEN "am_admin" ELSE "close")
      BY <1>8 DEF CheckStillUsers
    <3>2. (StillUsersInChat(j.chat) => r = 1) /\ (~(StillUsersInChat(j.chat)) => r = 0)
          /\ UNCHANGED <<tables, up, faults>>
      BY <1>0, <3>1, NoFaultReader
    <3>3. QED BY <1>0, <1>8, <3>1, <3>2 DEF CheckStillUsers, At, StillUsersInChat
  <2>2. JobFacts(w)'
    BY <1>0, <1>1, <2>1, GotoFields DEF JobFacts, Resting, tables, Members
  <2>3. QED
    BY <1>0, <2>1, <2>2, GotoFields, ReaderKeeps DEF Exposed, AdminIsMember, Resting, JobFacts, tables
<1>9. CASE QuitterIsAdmin(w)
  <2>1. /\ j.at = "am_admin" /\ UNCHANGED <<tables, up, faults>>
        /\ \/ admin[j.chat] = j.me /\ Goto(w, "first")
           \/ admin[j.chat] # j.me /\ Goto(w, "ok")
    <3>1. PICK r \in Answers(IsAdmin(j.me, j.chat)) :
            Observed(r) /\ Goto(w, IF r = 1 THEN "first" ELSE "ok")
      BY <1>9 DEF QuitterIsAdmin
    <3>2. (IsAdmin(j.me, j.chat) => r = 1) /\ (~(IsAdmin(j.me, j.chat)) => r = 0)
          /\ UNCHANGED <<tables, up, faults>>
      BY <1>0, <3>1, NoFaultReader
    <3>3. QED BY <1>0, <1>9, <3>1, <3>2 DEF QuitterIsAdmin, At, IsAdmin, JobFacts
  <2>2. JobFacts(w)'
    BY <1>0, <1>1, <2>1, GotoFields DEF JobFacts, Resting, tables, Members
  <2>3. QED
    BY <1>0, <2>1, <2>2, GotoFields, ReaderKeeps DEF Exposed, AdminIsMember, Resting, JobFacts, tables
<1>10. CASE CheckPass(w)
  <2>1. /\ j.at = "pass" /\ UNCHANGED <<tables, up, faults>>
        /\ \/ Goto(w, "error")
           \/ Goto(w, "member") /\ j.op = "create"
           \/ Goto(w, "invalidate") /\ j.op = "unregister"
           \/ Goto(w, "chat") /\ j.op \in {"add", "remove", "quit"} /\ j.chat \in ChatIds
    <3>1. PICK r \in Answers(j.me \in valid) :
            Observed(r) /\ (Goto(w, AfterLogin(j.op)) \/ (r # 1 /\ Goto(w, "error")))
      BY <1>10 DEF CheckPass
    <3>2. (j.me \in valid => r = 1) /\ (~(j.me \in valid) => r = 0)
          /\ UNCHANGED <<tables, up, faults>>
      BY <1>0, <3>1, NoFaultReader
    <3>3. QED BY <1>0, <1>10, <3>1, <3>2 DEF CheckPass, At, AfterLogin, JobFacts, Job, AllOps
  <2>2. JobFacts(w)'
    BY <1>0, <1>1, <2>1, GotoFields DEF JobFacts, Resting, tables, Members
  <2>3. QED
    BY <1>0, <2>1, <2>2, GotoFields, ReaderKeeps DEF Exposed, AdminIsMember, Resting, JobFacts, tables
<1>11. QED
  BY <1>2, <1>3, <1>4, <1>5, <1>6, <1>7, <1>8, <1>9, <1>10

\* What the statements on users_chats do to the members of the chats.
LEMMA MembersMove ==
  ASSUME TablesTypeOK, NEW u \in Users, NEW c \in ChatIds
  PROVE  /\ AddUserChat(u, c) =>
              \A d \in ChatIds : Members(d)' = IF d = c THEN Members(d) \cup {u} ELSE Members(d)
         /\ RecoverUserChat(u, c) =>
              \A d \in ChatIds : /\ Members(d) \subseteq Members(d)'
                                 /\ Members(d)' \subseteq IF d = c THEN Members(d) \cup {u} ELSE Members(d)
         /\ DelUserChat(u, c) =>
              \A d \in ChatIds : Members(d)' = IF d = c THEN Members(d) \ {u} ELSE Members(d)
         /\ DelUserAllChats(u) => \A d \in ChatIds : Members(d)' = Members(d) \ {u}
<1>1. \A d \in ChatIds, v \in Users : live[d][v] \in Nat /\ left[d][v] \in Nat
  BY DEF TablesTypeOK
<1>2. /\ live \in [ChatIds -> [Users -> Nat]]
      /\ left \in [ChatIds -> [Users -> Nat]]
  BY DEF TablesTypeOK
<1>3. ASSUME AddUserChat(u, c), NEW d \in ChatIds
      PROVE  Members(d)' = IF d = c THEN Members(d) \cup {u} ELSE Members(d)
  <2>1. \A v \in Users : live'[d][v] = IF d = c /\ v = u THEN live[d][v] + 1 ELSE live[d][v]
    BY <1>2, <1>3 DEF AddUserChat
  <2>2. QED BY <1>1, <2>1 DEF Members
<1>4. ASSUME RecoverUserChat(u, c), NEW d \in ChatIds
      PROVE  /\ Members(d) \subseteq Members(d)'
             /\ Members(d)' \subseteq IF d = c THEN Members(d) \cup {u} ELSE Members(d)
  <2>1. \A v \in Users : live'[d][v] = IF d = c /\ v = u THEN live[d][v] + left[d][v]
                                                         ELSE live[d][v]
    BY <1>2, <1>4 DEF RecoverUserChat, AllRows
  <2>2. QED BY <1>1, <2>1 DEF Members
<1>5. ASSUME DelUserChat(u, c), NEW d \in ChatIds
      PROVE  Members(d)' = IF d = c THEN Members(d) \ {u} ELSE Members(d)
  <2>1. \A v \in Users : live'[d][v] = IF d = c /\ v = u THEN 0 ELSE live[d][v]
    BY <1>2, <1>5 DEF DelUserChat
  <2>2. QED BY <1>1, <2>1 DEF Members
<1>6. ASSUME DelUserAllChats(u), NEW d \in ChatIds
      PROVE  Members(d)' = Members(d) \ {u}
  <2>1. \A v \in Users : live'[d][v] = IF v = u THEN 0 ELSE live[d][v]
    BY <1>2, <1>6 DEF DelUserAllChats
  <2>2. QED BY <1>1, <2>1 DEF Members
<1>7. QED BY <1>3, <1>4, <1>5, <1>6

\* The statements of create_chat and of add_member's end, for a single worker.
LEMMA SequentialEntry ==
  ASSUME NEW w, Workers = {w}, MaxFaults = 0, TypeOK, SequentialInv(w),
         \/ LookUpMember(w) \/ InsertChat(w) \/ EnterCreator(w) \/ UndoChat(w)
         \/ EnterMember(w) \/ RecoverMember(w) \/ InsertMember(w)
  PROVE  SequentialInv(w)'
<1> DEFINE j == job[w]
<1>0. /\ job \in [Workers -> Job] /\ w \in Workers /\ j \in Job
      /\ faults = 0 /\ JobFacts(w) /\ up /\ TablesTypeOK
  BY DEF TypeOK, SequentialInv
<1>1. ASSUME NEW s \in Resting, Goto(w, s) PROVE JobFacts(w)'
  BY <1>0, <1>1, GotoFields, RestFacts
<1>2. CASE LookUpMember(w)
  <2>1. /\ j.at = "member" /\ UNCHANGED <<tables, up, faults>>
        /\ \/ j.who \in valid /\ job' = [job EXCEPT ![w].at = "new_chat", ![w].who = j.who]
           \/ job' = [job EXCEPT ![w].at = "new_chat", ![w].who = NoUser]
    <3>1. PICK r \in Answers(GetUserId(j.who) # NoUser) :
            /\ Observed(r)
            /\ job' = [job EXCEPT ![w].at = "new_chat",
                                  ![w].who = IF r = 1 THEN @ ELSE NoUser]
      BY <1>2 DEF LookUpMember
    <3>2. /\ (GetUserId(j.who) = NoUser => r = 0) /\ (GetUserId(j.who) # NoUser => r = 1)
          /\ UNCHANGED <<tables, up, faults>>
      BY <1>0, <3>1, NoFaultReader
    <3>3. j.at = "member"
      BY <1>2 DEF LookUpMember, At
    <3>4. CASE r = 1
      BY <1>0, <3>1, <3>2, <3>3, <3>4 DEF GetUserId
    <3>5. CASE r # 1
      BY <1>0, <3>1, <3>2, <3>3, <3>5
    <3>6. QED BY <3>4, <3>5
  <2>2. /\ job'[w].at = "new_chat" /\ job'[w].who \in valid \cup {NoUser}
        /\ job'[w].me = j.me /\ job'[w].op = j.op
    BY <1>0, <2>1 DEF Job
  <2>3. j.me \in valid /\ j.me \in Users /\ j.op = "create"
    BY <1>0, <2>1 DEF JobFacts, Resting
  <2>4. JobFacts(w)'
    BY <2>1, <2>2, <2>3 DEF JobFacts, Resting, tables
  <2>5. QED BY <2>1, <2>2, <2>4, ReaderKeeps DEF Exposed
<1>3. CASE InsertChat(w)
  <2>1. PICK c \in ChatIds :
          /\ j.at = "new_chat" /\ AddChat(j.me, c) /\ UNCHANGED <<up, faults>>
          /\ job' = [job EXCEPT ![w].at = "enter_me", ![w].chat = c]
    BY <1>0, <1>3 DEF InsertChat, At
  <2>2. /\ job'[w].at = "enter_me" /\ job'[w].chat = c
        /\ job'[w].me = j.me /\ job'[w].who = j.who /\ job'[w].op = j.op
    BY <1>0, <2>1 DEF Job
  <2>3. /\ j.me \in valid /\ j.me \in Users /\ j.op = "create"
        /\ j.who \in valid \cup {NoUser}
    BY <1>0, <2>1 DEF JobFacts, Resting
  <2>4. /\ status'[c] = "valid" /\ admin'[c] = j.me /\ UNCHANGED <<valid, live>>
        /\ \A d \in ChatIds : d # c => status'[d] = status[d] /\ admin'[d] = admin[d]
        /\ \A d \in ChatIds : Members(d)' = Members(d)
    BY <1>0, <2>1 DEF AddChat, TablesTypeOK, Members
  <2>5. JobFacts(w)'
    BY <2>2, <2>3, <2>4 DEF JobFacts, Resting
  <2>6. \A d \in ChatIds : AdminIsMember(d)' \/ Exposed(w, d)'
    BY <2>1, <2>2, <2>4 DEF SequentialInv, AdminIsMember, Exposed
  <2>7. \A d \in ChatIds : DeletedIsEmpty(d)'
    BY <2>4 DEF SequentialInv, DeletedIsEmpty
  <2>8. \A d \in ChatIds : Members(d)' \subseteq valid'
    BY <2>1, <2>4 DEF SequentialInv
  <2>9. QED BY <1>0, <2>1, <2>5, <2>6, <2>7, <2>8 DEF SequentialInv
<1>4. ASSUME NEW u \in valid, NEW c \in ChatIds, j.chat = c, status[c] = "valid",
             AddUserChat(u, c) \/ RecoverUserChat(u, c), UNCHANGED <<up, faults>>,
             JobFacts(w)', j.at \in {"enter_me", "enter_who", "recover", "insert"},
             j.at = "enter_me" => u = j.me /\ AddUserChat(u, c)
      PROVE  SequentialInv(w)'
  <2>1. u \in Users
    BY <1>0 DEF TablesTypeOK
  <2>2. \A d \in ChatIds :
          /\ Members(d) \subseteq Members(d)'
          /\ Members(d)' \subseteq IF d = c THEN Members(d) \cup {u} ELSE Members(d)
    BY <1>0, <1>4, <2>1, MembersMove
  <2>3. AddUserChat(u, c) => u \in Members(c)'
    BY <1>0, <2>1, MembersMove
  <2>4. UNCHANGED <<valid, status, admin>>
    BY <1>4 DEF AddUserChat, RecoverUserChat
  <2>5. \A d \in ChatIds : AdminIsMember(d)'
    BY <1>4, <2>2, <2>3, <2>4 DEF SequentialInv, AdminIsMember, Exposed
  <2>6. \A d \in ChatIds : DeletedIsEmpty(d)'
    BY <1>4, <2>2, <2>4 DEF SequentialInv, DeletedIsEmpty
  <2>7. \A d \in ChatIds : Members(d)' \subseteq valid'
    BY <1>4, <2>2, <2>4 DEF SequentialInv
  <2>8. QED BY <1>0, <1>4, <2>5, <2>6, <2>7 DEF SequentialInv
<1>5. CASE EnterCreator(w)
  <2>1. /\ j.at = "enter_me" /\ AddUserChat(j.me, j.chat) /\ UNCHANGED <<up, faults>>
        /\ Goto(w, "enter_who")
    BY <1>0, <1>5 DEF EnterCreator, At, Attempt
  <2>2. /\ j.me \in valid /\ j.me \in Users /\ j.chat \in ChatIds /\ j.op = "create"
        /\ status[j.chat] = "valid" /\ j.who \in valid \cup {NoUser}
    BY <1>0, <2>1 DEF JobFacts, Resting
  <2>3. UNCHANGED <<valid, status, admin>>
    BY <2>1 DEF AddUserChat
  <2>4. JobFacts(w)'
    BY <1>0, <2>1, <2>2, <2>3, GotoFields DEF JobFacts, Resting
  <2>5. QED BY <1>4, <2>1, <2>2, <2>4
<1>6. CASE UndoChat(w)
  BY <1>0, <1>6 DEF UndoChat, At, JobFacts
<1>7. CASE EnterMember(w)
  <2>1. /\ j.at = "enter_who"
        /\ Goto(w, "ok") \/ Goto(w, "error")
        /\ UNCHANGED <<up, faults>>
        /\ \/ UNCHANGED tables
           \/ j.who # NoUser /\ AddUserChat(j.who, j.chat)
    <3>1. CASE j.who = NoUser
      BY <1>7, <3>1 DEF EnterMember, At
    <3>2. CASE j.who # NoUser
      <4>1. j.at = "enter_who" /\ Attempt(w, AddUserChat(j.who, j.chat), "ok", "error")
        BY <1>7, <3>2 DEF EnterMember, At
      <4>2. QED BY <1>0, <3>2, <4>1 DEF Attempt
    <3>3. QED BY <3>1, <3>2
  <2>2. /\ j.chat \in ChatIds /\ status[j.chat] = "valid" /\ j.who \in valid \cup {NoUser}
    BY <1>0, <1>7 DEF EnterMember, At, JobFacts, Resting
  <2>3. JobFacts(w)' /\ job'[w].at \in {"ok", "error"}
    BY <1>0, <1>1, <2>1, GotoFields DEF Resting
  <2>4. CASE UNCHANGED tables
    BY <1>7, <2>1, <2>3, <2>4, ReaderKeeps DEF Exposed, EnterMember, At
  <2>5. CASE j.who # NoUser /\ AddUserChat(j.who, j.chat)
    BY <1>4, <1>7, <2>1, <2>2, <2>3, <2>5 DEF EnterMember, At
  <2>6. QED BY <2>1, <2>4, <2>5
<1>8. CASE RecoverMember(w) \/ InsertMember(w)
  <2>1. /\ j.at \in {"recover", "insert"} /\ Goto(w, "ok") /\ UNCHANGED <<up, faults>>
        /\ RecoverUserChat(j.who, j.chat) \/ AddUserChat(j.who, j.chat)
    <3>1. CASE RecoverMember(w)
      BY <1>0, <3>1 DEF RecoverMember, At, Attempt
    <3>2. CASE InsertMember(w)
      BY <1>0, <3>2 DEF InsertMember, At, Attempt
    <3>3. QED BY <1>8, <3>1, <3>2
  <2>2. j.who \in valid /\ j.chat \in ChatIds /\ status[j.chat] = "valid"
    BY <1>0, <2>1 DEF JobFacts
  <2>3. JobFacts(w)'
    BY <1>1, <2>1 DEF Resting
  <2>4. QED BY <1>4, <2>1, <2>2, <2>3
<1>9. QED BY <1>2, <1>3, <1>5, <1>6, <1>7, <1>8

\* The statements that take a member out, hand a chat over or end it, and those
\* of user_unregister, for a single worker.
LEMMA SequentialExit ==
  ASSUME NEW w, Workers = {w}, MaxFaults = 0, TypeOK, SequentialInv(w),
         \/ RemoveMember(w) \/ GetFirstUser(w) \/ HandOver(w) \/ CloseChat(w)
         \/ Invalidate(w) \/ LeaveAll(w)
  PROVE  SequentialInv(w)'
<1> DEFINE j == job[w]
<1>0. /\ job \in [Workers -> Job] /\ w \in Workers /\ j \in Job
      /\ faults = 0 /\ JobFacts(w) /\ up /\ TablesTypeOK
  BY DEF TypeOK, SequentialInv
<1>1. ASSUME NEW s \in Resting, Goto(w, s) PROVE JobFacts(w)' /\ job'[w].at # "leave_all"
  BY <1>0, <1>1, GotoFields, RestFacts DEF Resting
<1>2. CASE RemoveMember(w)
  <2>1. /\ j.at = "remove" /\ DelUserChat(j.who, j.chat) /\ UNCHANGED <<up, faults>>
        /\ Goto(w, IF j.op = "quit" THEN "still" ELSE "ok")
    BY <1>0, <1>2 DEF RemoveMember, At, Attempt
  <2>2. /\ j.who \in valid /\ j.who \in Users /\ j.chat \in ChatIds /\ status[j.chat] = "valid"
        /\ j.me \in valid /\ j.me \in Users
        /\ j.op = "quit" => j.who = j.me
        /\ j.op # "quit" => admin[j.chat] = j.me /\ j.who # j.me
    BY <1>0, <2>1 DEF JobFacts, Resting, TablesTypeOK
  <2>3. UNCHANGED <<valid, status, admin>>
    BY <2>1 DEF DelUserChat
  <2>4. \A d \in ChatIds : Members(d)' = IF d = j.chat THEN Members(d) \ {j.who} ELSE Members(d)
    BY <1>0, <2>1, <2>2, MembersMove
  <2>5. JobFacts(w)' /\ job'[w].at # "leave_all"
    <3>1. CASE j.op = "quit"
      BY <1>0, <2>1, <2>2, <2>3, <3>1, GotoFields DEF JobFacts, Resting
    <3>2. CASE j.op # "quit"
      BY <1>1, <2>1, <3>2 DEF Resting
    <3>3. QED BY <3>1, <3>2
  <2>6. j.op = "quit" => job'[w].at = "still" /\ job'[w].chat = j.chat /\ job'[w].me = j.me
    BY <1>0, <2>1, GotoFields DEF Resting
  <2>7. \A d \in ChatIds : AdminIsMember(d)' \/ Exposed(w, d)'
    BY <2>1, <2>2, <2>3, <2>4, <2>6 DEF SequentialInv, AdminIsMember, Exposed
  <2>8. \A d \in ChatIds : DeletedIsEmpty(d)'
    BY <2>3, <2>4 DEF SequentialInv, DeletedIsEmpty
  <2>9. \A d \in ChatIds : Members(d)' \subseteq valid'
    BY <2>1, <2>3, <2>4 DEF SequentialInv
  <2>10. QED BY <1>0, <2>1, <2>5, <2>7, <2>8, <2>9 DEF SequentialInv
<1>3. CASE GetFirstUser(w)
  <2>1. j.at = "first" /\ Members(j.chat) # {}
    BY <1>0, <1>3 DEF GetFirstUser, At, JobFacts
  <2>2. PICK u \in Members(j.chat) :
          /\ job' = [job EXCEPT ![w].at = "handover", ![w].first = u]
          /\ UNCHANGED <<tables, up, faults>>
    <3>1. up /\ UNCHANGED tables
      BY <1>0, <1>3 DEF GetFirstUser
    <3>2. \E u \in Members(j.chat) :
            /\ job' = [job EXCEPT ![w].at = "handover", ![w].first = u]
            /\ UNCHANGED <<up, faults>>
      <4>1. ~(faults < MaxFaults)
        BY <1>0
      <4>2. QED BY <1>3, <2>1, <4>1 DEF GetFirstUser
    <3>3. QED BY <3>1, <3>2
  <2>3. /\ job'[w].at = "handover" /\ job'[w].first = u /\ job'[w].me = j.me
        /\ job'[w].who = j.who /\ job'[w].chat = j.chat /\ job'[w].op = j.op
    BY <1>0, <2>2 DEF Job
  <2>4. /\ j.me \in valid /\ j.me \in Users /\ j.chat \in ChatIds /\ j.op = "quit"
        /\ j.who = j.me /\ status[j.chat] = "valid" /\ admin[j.chat] = j.me
    BY <1>0, <2>1 DEF JobFacts, Resting
  <2>5. UNCHANGED <<valid, status, admin, live>>
    BY <2>2 DEF tables
  <2>6. JobFacts(w)'
    <3>1. u \in Members(job[w].chat)'
      BY <2>2, <2>3, <2>5 DEF Members
    <3>2. QED BY <2>3, <2>4, <2>5, <3>1 DEF JobFacts, Resting
  <2>7. QED BY <2>1, <2>2, <2>3, <2>6, ReaderKeeps DEF Exposed, tables
<1>4. CASE HandOver(w)
  <2>1. /\ j.at = "handover" /\ j.me \in valid /\ j.chat \in ChatIds
        /\ status[j.chat] = "valid" /\ admin[j.chat] = j.me /\ j.first \in Members(j.chat)
    BY <1>0, <1>4 DEF HandOver, At, JobFacts, Resting
  <2>2. j.first # NoUser
    BY <2>1, UsersAssumption DEF Members
  <2>3. ChangeAdmin(j.first, j.chat) /\ Goto(w, "ok") /\ UNCHANGED <<up, faults>>
    <3>1. Attempt(w, ChangeAdmin(j.first, j.chat), "ok", "ok")
      BY <1>4, <2>2 DEF HandOver
    <3>2. QED BY <1>0, <3>1 DEF Attempt
  <2>4. /\ UNCHANGED <<valid, status, live>> /\ admin'[j.chat] = j.first
        /\ \A d \in ChatIds : d # j.chat => admin'[d] = admin[d]
        /\ \A d \in ChatIds : Members(d)' = Members(d)
    BY <1>0, <2>1, <2>3 DEF ChangeAdmin, TablesTypeOK, Members
  <2>5. JobFacts(w)' /\ job'[w].at # "leave_all"
    BY <1>1, <2>3 DEF Resting
  <2>6. \A d \in ChatIds : AdminIsMember(d)'
    BY <2>1, <2>4 DEF SequentialInv, AdminIsMember, Exposed
  <2>7. \A d \in ChatIds : DeletedIsEmpty(d)' /\ Members(d)' \subseteq valid'
    BY <2>1, <2>4 DEF SequentialInv, DeletedIsEmpty
  <2>8. QED BY <1>0, <2>3, <2>5, <2>6, <2>7 DEF SequentialInv
<1>5. CASE CloseChat(w)
  <2>1. /\ j.at = "close" /\ j.chat \in ChatIds /\ Members(j.chat) = {}
        /\ DelChat(j.chat) /\ Goto(w, "ok") /\ UNCHANGED <<up, faults>>
    BY <1>0, <1>5 DEF CloseChat, At, Attempt, JobFacts
  <2>2. /\ UNCHANGED <<valid, admin, live>> /\ status'[j.chat] = "deleted"
        /\ \A d \in ChatIds : d # j.chat => status'[d] = status[d]
        /\ \A d \in ChatIds : Members(d)' = Members(d)
    BY <1>0, <2>1 DEF DelChat, TablesTypeOK, Members
  <2>3. JobFacts(w)' /\ job'[w].at # "leave_all"
    BY <1>1, <2>1 DEF Resting
  <2>4. \A d \in ChatIds : AdminIsMember(d)'
    BY <2>1, <2>2 DEF SequentialInv, AdminIsMember, Exposed
  <2>5. \A d \in ChatIds : DeletedIsEmpty(d)' /\ Members(d)' \subseteq valid'
    BY <2>1, <2>2 DEF SequentialInv, DeletedIsEmpty
  <2>6. QED BY <1>0, <2>1, <2>3, <2>4, <2>5 DEF SequentialInv
<1>6. CASE Invalidate(w)
  <2>1. /\ j.at = "invalidate" /\ j.me \in Users /\ j.op = "unregister"
        /\ DelUser(j.me) /\ Goto(w, "leave_all") /\ UNCHANGED <<up, faults>>
    BY <1>0, <1>6 DEF Invalidate, At, Attempt, JobFacts, Resting
  <2>2. /\ UNCHANGED <<status, admin, live>> /\ valid' = valid \ {j.me}
        /\ \A d \in ChatIds : Members(d)' = Members(d)
    BY <2>1 DEF DelUser, Members
  <2>3. job'[w].at = "leave_all" /\ job'[w].me = j.me /\ job'[w].op = j.op
    BY <1>0, <2>1, GotoFields DEF Resting
  <2>4. JobFacts(w)'
    BY <2>1, <2>2, <2>3 DEF JobFacts, Resting
  <2>5. \A d \in ChatIds : AdminIsMember(d)' /\ DeletedIsEmpty(d)'
    BY <2>1, <2>2 DEF SequentialInv, AdminIsMember, DeletedIsEmpty, Exposed
  <2>6. \A d \in ChatIds : Members(d)' \subseteq valid' \cup {job'[w].me}
    BY <2>1, <2>2, <2>3 DEF SequentialInv
  <2>7. QED BY <1>0, <2>1, <2>3, <2>4, <2>5, <2>6 DEF SequentialInv
<1>7. CASE LeaveAll(w)
  <2>1. /\ j.at = "leave_all" /\ j.me \in Users /\ j.me \notin valid
        /\ DelUserAllChats(j.me) /\ Goto(w, "ok") /\ UNCHANGED <<up, faults>>
    BY <1>0, <1>7 DEF LeaveAll, At, Attempt, JobFacts, Resting
  <2>2. /\ UNCHANGED <<valid, status, admin>>
        /\ \A d \in ChatIds : Members(d)' = Members(d) \ {j.me}
    BY <1>0, <2>1, MembersMove DEF DelUserAllChats
  <2>3. JobFacts(w)' /\ job'[w].at # "leave_all"
    BY <1>1, <2>1 DEF Resting
  <2>4. \A d \in ChatIds : AdminIsMember(d)' /\ DeletedIsEmpty(d)'
    BY <2>1, <2>2 DEF SequentialInv, AdminIsMember, DeletedIsEmpty, Exposed
  <2>5. \A d \in ChatIds : Members(d)' \subseteq valid'
    BY <2>1, <2>2 DEF SequentialInv
  <2>6. QED BY <1>0, <2>1, <2>3, <2>4, <2>5 DEF SequentialInv
<1>8. QED BY <1>2, <1>3, <1>4, <1>5, <1>6, <1>7

\* What a request may ask.
LEMMA RequestArrives ==
  ASSUME TypeOK, NEW w, Request(w)
  PROVE  \E op \in Ops, me \in valid, who \in Users \cup {NoUser}, chat \in ChatIds \cup {NoChat} :
           /\ Arrives(w, op, me, who, chat)
           /\ op = "quit" => who = me
           /\ op \in {"add", "remove", "quit"} => chat \in ChatIds
<1>1. PICK me \in valid :
         \/ "create" \in Ops /\ \E who \in Users : Arrives(w, "create", me, who, NoChat)
         \/ \E op \in Ops \cap {"add", "remove"}, who \in Users, c \in ChatIds :
              Arrives(w, op, me, who, c)
         \/ "quit" \in Ops /\ \E c \in ChatIds : Arrives(w, "quit", me, me, c)
         \/ "unregister" \in Ops /\ Arrives(w, "unregister", me, NoUser, NoChat)
  BY DEF Request
<1>2. me \in Users
  BY DEF TypeOK, TablesTypeOK
<1>3. CASE "create" \in Ops /\ \E who \in Users : Arrives(w, "create", me, who, NoChat)
  BY <1>3
<1>4. CASE \E op \in Ops \cap {"add", "remove"}, who \in Users, c \in ChatIds :
              Arrives(w, op, me, who, c)
  BY <1>4
<1>5. CASE "quit" \in Ops /\ \E c \in ChatIds : Arrives(w, "quit", me, me, c)
  BY <1>2, <1>5
<1>6. CASE "unregister" \in Ops /\ Arrives(w, "unregister", me, NoUser, NoChat)
  BY <1>6
<1>7. QED BY <1>1, <1>3, <1>4, <1>5, <1>6

\* A request finds the database consistent and exposes nothing.
LEMMA SequentialRequest ==
  ASSUME NEW w, Workers = {w}, TypeOK, SequentialInv(w), Request(w)
  PROVE  SequentialInv(w)'
<1>1. /\ job[w].at \in Resting /\ UNCHANGED <<tables, up, faults>>
      /\ job \in [Workers -> Job] /\ w \in Workers
  BY DEF Request, TypeOK
<1>2. PICK op \in Ops, me \in valid, who \in Users \cup {NoUser}, chat \in ChatIds \cup {NoChat} :
        /\ Arrives(w, op, me, who, chat)
        /\ op = "quit" => who = me
        /\ op \in {"add", "remove", "quit"} => chat \in ChatIds
  BY RequestArrives
<1>3. /\ job'[w].at = "pass" /\ job'[w].op = op /\ job'[w].me = me
      /\ job'[w].who = who /\ job'[w].chat = chat
  BY <1>1, <1>2 DEF Arrives
<1>4. me \in Users /\ op \in AllOps
  BY OpsAssumption DEF TypeOK, TablesTypeOK
<1>5. JobFacts(w)'
  BY <1>1, <1>2, <1>3, <1>4 DEF JobFacts, Resting, tables
<1>6. QED
  BY <1>1, <1>3, <1>5, ReaderKeeps DEF Exposed, Resting

\* The invariant holds from the start, whatever consistent database it is.
LEMMA SequentialInit ==
  ASSUME NEW w, Workers = {w}, Init
  PROVE  SequentialInv(w)
<1>1. job[w].at = "idle" /\ job[w].op = "none" /\ up /\ faults = 0 /\ valid = Users
  BY DEF Init, Rest
<1>2. JobFacts(w)
  BY <1>1 DEF JobFacts, Resting
<1>3. \A c \in ChatIds : AdminIsMember(c) /\ DeletedIsEmpty(c)
  BY DEF Init, AdminIsMember, DeletedIsEmpty
<1>4. \A c \in ChatIds : Members(c) \subseteq valid
  BY <1>1 DEF Members
<1>5. QED BY <1>1, <1>2, <1>3, <1>4 DEF SequentialInv

LEMMA SequentialInvariance ==
  ASSUME NEW w, Workers = {w}, MaxFaults = 0
  PROVE  Spec => []SequentialInv(w)
<1>1. Init => SequentialInv(w)
  BY SequentialInit
<1>2. TypeOK /\ SequentialInv(w) /\ [Next]_vars => SequentialInv(w)'
  <2> SUFFICES ASSUME TypeOK, SequentialInv(w), [Next]_vars
               PROVE  SequentialInv(w)'
    OBVIOUS
  <2>1. CASE Request(w)
    BY <2>1, SequentialRequest
  <2>2. CASE Step(w)
    BY <2>2, SequentialRead, SequentialEntry, SequentialExit DEF Step
  <2>3. CASE Kill \/ Restart
    BY <2>3 DEF Kill, Restart, SequentialInv
  <2>4. CASE UNCHANGED vars
    BY <2>4 DEF vars, SequentialInv, JobFacts, AdminIsMember, DeletedIsEmpty, Exposed, Members
  <2>5. QED BY <2>1, <2>2, <2>3, <2>4 DEF Next
<1>3. QED BY <1>1, <1>2, Typing, PTL DEF Spec

\* Where the server takes one request at a time (sthread_listen_connection) and
\* no query fails, every handler, whatever path it takes, leaves the tables
\* consistent.
THEOREM SequentialServer ==
  ASSUME NEW w, Workers = {w}, MaxFaults = 0
  PROVE  Spec => []ConsistentAtRest
<1>1. SequentialInv(w) => ConsistentAtRest
  <2> SUFFICES ASSUME SequentialInv(w) PROVE ConsistentAtRest
    OBVIOUS
  <2>1. ASSUME AtRest PROVE \A c \in ChatIds : ~Exposed(w, c) /\ job[w].at # "leave_all"
    BY <2>1 DEF AtRest, Resting, Exposed
  <2>2. QED BY <2>1 DEF SequentialInv, ConsistentAtRest
<1>2. QED BY <1>1, SequentialInvariance, PTL

\* There the process never dies: get_first_users_in_chat never finds the chat
\* it looks in empty.
THEOREM ServerStaysUp ==
  ASSUME NEW w, Workers = {w}, MaxFaults = 0
  PROVE  Spec => []ServerSurvives
<1>1. SequentialInv(w) => ServerSurvives
  BY DEF SequentialInv, ServerSurvives
<1>2. QED BY <1>1, SequentialInvariance, PTL

-----------------------------------------------------------------------------
(* Many requests at a time: departures.                                    *)

\* What a query may answer when it cannot fail.
LEMMA NoFault ==
  ASSUME TypeOK, MaxFaults = 0
  PROVE  faults = 0 /\ ~(faults < MaxFaults)
BY DEF TypeOK

\* Removing a user from a chat, or from all, adds nobody anywhere.
LEMMA MembersShrink ==
  ASSUME TablesTypeOK, NEW u, NEW c, DelUserChat(u, c) \/ DelUserAllChats(u)
  PROVE  \A d \in ChatIds : Members(d)' \subseteq Members(d)
<1>1. \A d \in ChatIds, v \in Users : live'[d][v] = live[d][v] \/ live'[d][v] = 0
  <2> SUFFICES ASSUME NEW d \in ChatIds, NEW v \in Users
               PROVE  live'[d][v] = live[d][v] \/ live'[d][v] = 0
    OBVIOUS
  <2>0. live \in [ChatIds -> [Users -> Nat]]
    BY DEF TablesTypeOK
  <2>1. CASE DelUserChat(u, c)
    <3>1. live' = [live EXCEPT ![c][u] = 0]
      BY <2>1 DEF DelUserChat
    <3>2. CASE c = d
      BY <2>0, <3>1, <3>2
    <3>3. CASE c # d
      BY <2>0, <3>1, <3>3
    <3>4. QED BY <3>2, <3>3
  <2>2. CASE DelUserAllChats(u)
    BY <2>0, <2>2 DEF DelUserAllChats
  <2>3. QED BY <2>1, <2>2
<1>2. QED BY <1>1 DEF Members

\* A statement of a handler that asks nobody in takes members out of chats,
\* and deletes empty ones.
LEMMA ClosingStep ==
  ASSUME TypeOK, MaxFaults = 0, NEW w \in Workers, ClosingEmpty(w), Step(w)
  PROVE  /\ \A d \in ChatIds : Members(d)' \subseteq Members(d)
         /\ \A d \in ChatIds : status'[d] = status[d] \/ Members(d) = {}
         /\ ClosingEmpty(w)'
         /\ \A v \in Workers \ {w} : job'[v] = job[v] \/ job'[v] = Rest("idle")
<1> DEFINE j == job[w]
           entry == {"member", "new_chat", "enter_me", "undo", "enter_who",
                     "friend", "entry", "recover", "insert"}
<1>0. /\ job \in [Workers -> Job] /\ TablesTypeOK /\ ~(faults < MaxFaults)
      /\ j.op \notin {"create", "add"} /\ j.at \notin entry
  BY NoFault DEF TypeOK, ClosingEmpty
<1>1. ASSUME NEW s, Goto(w, s), s \notin entry, s = "close" => Members(j.chat) = {},
             UNCHANGED tables
      PROVE  /\ \A d \in ChatIds : Members(d)' \subseteq Members(d)
             /\ \A d \in ChatIds : status'[d] = status[d] \/ Members(d) = {}
             /\ ClosingEmpty(w)'
             /\ \A v \in Workers \ {w} : job'[v] = job[v] \/ job'[v] = Rest("idle")
  <2>1. job'[w].at = s /\ job'[w].op \notin {"create", "add"}
    BY <1>0, <1>1, GotoFields
  <2>2. s = "close" => job'[w].chat = j.chat
    BY <1>0, <1>1, GotoFields DEF Resting
  <2>3. UNCHANGED live /\ UNCHANGED status
    BY <1>1 DEF tables
  <2>4. ClosingEmpty(w)'
    BY <1>1, <2>1, <2>2, <2>3 DEF ClosingEmpty, Members
  <2>5. \A v \in Workers \ {w} : job'[v] = job[v]
    BY <1>0, <1>1 DEF Goto
  <2>6. QED BY <2>3, <2>4, <2>5 DEF Members
<1>2. CASE CheckPass(w)
  <2>1. UNCHANGED tables /\ (Goto(w, AfterLogin(j.op)) \/ Goto(w, "error"))
    BY <1>2 DEF CheckPass, Observed
  <2>2. AfterLogin(j.op) \in {"invalidate", "chat"}
    BY <1>0 DEF AfterLogin
  <2>3. QED BY <1>1, <2>1, <2>2
<1>3. CASE CheckChat(w) \/ CheckAdmin(w)
  <2>1. UNCHANGED tables /\ \E s \in {"error", "inside", "admin", "who"} : Goto(w, s)
    BY <1>3 DEF CheckChat, CheckAdmin, Observed
  <2>2. QED BY <1>1, <2>1
<1>4. CASE LookUpTarget(w)
  <2>1. UNCHANGED tables /\ \E s \in {"error", "inside"} : Goto(w, s)
    BY <1>0, <1>4 DEF LookUpTarget, Observed
  <2>2. QED BY <1>1, <2>1
<1>5. CASE CheckInside(w)
  <2>1. UNCHANGED tables /\ \E s \in {"error", "remove"} : Goto(w, s)
    BY <1>0, <1>5 DEF CheckInside, Observed
  <2>2. QED BY <1>1, <2>1
<1>6. CASE CheckStillUsers(w)
  <2>1. PICK r \in Answers(StillUsersInChat(j.chat)) :
          Observed(r) /\ Goto(w, IF r = 1 THEN "am_admin" ELSE "close")
    BY <1>6 DEF CheckStillUsers
  <2>2. UNCHANGED tables
    BY <2>1 DEF Observed
  <2>3. CASE r = 1
    BY <1>1, <2>1, <2>2, <2>3
  <2>4. CASE r # 1
    <3>1. Members(j.chat) = {}
      BY <1>0, <2>1, <2>4 DEF Answers, StillUsersInChat
    <3>2. QED BY <1>1, <2>1, <2>2, <2>4, <3>1
  <2>5. QED BY <2>3, <2>4
<1>7. CASE QuitterIsAdmin(w)
  <2>1. UNCHANGED tables /\ \E s \in {"first", "ok"} : Goto(w, s)
    BY <1>7 DEF QuitterIsAdmin, Observed
  <2>2. QED BY <1>1, <2>1
<1>8. CASE GetFirstUser(w)
  <2>1. UNCHANGED tables
    BY <1>8 DEF GetFirstUser
  <2>2. UNCHANGED live /\ UNCHANGED status
    BY <2>1 DEF tables
  <2>3. \/ job' = Stopped
        \/ \E u \in Members(j.chat) : job' = [job EXCEPT ![w].at = "handover", ![w].first = u]
    BY <1>0, <1>8 DEF GetFirstUser
  <2>4. /\ job'[w].at \in {"idle", "handover"} /\ job'[w].op \notin {"create", "add"}
        /\ \A v \in Workers \ {w} : job'[v] = job[v] \/ job'[v] = Rest("idle")
    BY <1>0, <2>3 DEF Stopped, Rest, Job
  <2>5. QED BY <2>2, <2>4 DEF ClosingEmpty, Members
<1>9. CASE RemoveMember(w) \/ LeaveAll(w)
  <2>1. PICK s \in {"still", "ok"} :
          Goto(w, s) /\ (DelUserChat(j.who, j.chat) \/ DelUserAllChats(j.me))
    BY <1>0, <1>9 DEF RemoveMember, LeaveAll, Attempt
  <2>2. \A d \in ChatIds : Members(d)' \subseteq Members(d)
    BY <1>0, <2>1, MembersShrink
  <2>3. UNCHANGED status
    BY <2>1 DEF DelUserChat, DelUserAllChats
  <2>4. job'[w].at = s /\ job'[w].op \notin {"create", "add"}
    BY <1>0, <2>1, GotoFields
  <2>5. \A v \in Workers \ {w} : job'[v] = job[v]
    BY <1>0, <2>1 DEF Goto
  <2>6. QED BY <2>1, <2>2, <2>3, <2>4, <2>5 DEF ClosingEmpty
<1>10. CASE HandOver(w) \/ Invalidate(w)
  <2>1. PICK s \in {"ok", "leave_all"} : Goto(w, s) /\ UNCHANGED <<status, live>>
    BY <1>0, <1>10 DEF HandOver, Invalidate, Attempt, ChangeAdmin, DelUser, tables
  <2>2. job'[w].at = s /\ job'[w].op \notin {"create", "add"}
    BY <1>0, <2>1, GotoFields
  <2>3. \A v \in Workers \ {w} : job'[v] = job[v]
    BY <1>0, <2>1 DEF Goto
  <2>4. QED BY <2>1, <2>2, <2>3 DEF ClosingEmpty, Members
<1>11. CASE CloseChat(w)
  <2>1. j.at = "close" /\ DelChat(j.chat) /\ Goto(w, "ok")
    BY <1>0, <1>11 DEF CloseChat, At, Attempt
  <2>2. /\ UNCHANGED live
        /\ \A d \in ChatIds : status'[d] = status[d] \/ d = j.chat
    BY <1>0, <2>1 DEF DelChat, TablesTypeOK
  <2>3. j.chat \in ChatIds => Members(j.chat) = {}
    BY <2>1 DEF ClosingEmpty
  <2>4. job'[w].at = "ok" /\ job'[w].op \notin {"create", "add"}
    BY <1>0, <2>1, GotoFields
  <2>5. \A v \in Workers \ {w} : job'[v] = job[v]
    BY <1>0, <2>1 DEF Goto
  <2>6. QED BY <2>2, <2>3, <2>4, <2>5 DEF ClosingEmpty, Members
<1>12. CASE \/ LookUpMember(w) \/ InsertChat(w) \/ EnterCreator(w) \/ UndoChat(w)
            \/ EnterMember(w) \/ CheckFriend(w) \/ CheckEntry(w) \/ RecoverMember(w)
            \/ InsertMember(w)
  BY <1>0, <1>12 DEF LookUpMember, InsertChat, EnterCreator, UndoChat, EnterMember,
     CheckFriend, CheckEntry, RecoverMember, InsertMember, At
<1>13. QED
  BY <1>2, <1>3, <1>4, <1>5, <1>6, <1>7, <1>8, <1>9, <1>10, <1>11, <1>12 DEF Step

\* Quits, removals and unregistrations by any number of threads, in any
\* interleaving, only delete chats that are empty and stay so.
THEOREM DeletedStayEmpty ==
  ASSUME Ops \subseteq {"quit", "remove", "unregister"}, MaxFaults = 0
  PROVE  Spec => []DeletedChatsAreEmpty
<1>1. Init => DeparturesInv
  <2> SUFFICES ASSUME Init PROVE DeparturesInv
    OBVIOUS
  <2>1. DeletedChatsAreEmpty
    BY DEF Init, DeletedChatsAreEmpty, DeletedIsEmpty
  <2>2. \A w \in Workers : ClosingEmpty(w)
    BY DEF Init, Rest, ClosingEmpty
  <2>3. QED BY <2>1, <2>2 DEF DeparturesInv
<1>2. TypeOK /\ DeparturesInv /\ [Next]_vars => DeparturesInv'
  <2> SUFFICES ASSUME TypeOK, DeparturesInv, [Next]_vars
               PROVE  DeparturesInv'
    OBVIOUS
  <2>1. ASSUME \A d \in ChatIds : Members(d)' \subseteq Members(d),
               \A d \in ChatIds : status'[d] = status[d] \/ Members(d) = {},
               \A v \in Workers : ClosingEmpty(v)'
        PROVE  DeparturesInv'
    BY <2>1 DEF DeparturesInv, DeletedChatsAreEmpty, DeletedIsEmpty
  <2>2. ASSUME NEW v \in Workers, job'[v] = job[v] \/ job'[v] = Rest("idle"),
               \A d \in ChatIds : Members(d)' \subseteq Members(d)
        PROVE  ClosingEmpty(v)'
    <3>1. CASE job'[v] = job[v]
      <4>1. job[v].chat \in ChatIds => Members(job[v].chat)' \subseteq Members(job[v].chat)
        BY <2>2, <3>1 DEF Members
      <4>2. QED BY <2>2, <3>1, <4>1 DEF DeparturesInv, ClosingEmpty, Members
    <3>2. CASE job'[v] = Rest("idle")
      BY <3>2 DEF ClosingEmpty, Rest
    <3>3. QED BY <2>2, <3>1, <3>2
  <2>3. ASSUME NEW w \in Workers, Request(w) PROVE DeparturesInv'
    <3>1. UNCHANGED tables
      BY <2>3 DEF Request
    <3>2. PICK op \in Ops, me \in valid, who \in Users \cup {NoUser},
               chat \in ChatIds \cup {NoChat} : Arrives(w, op, me, who, chat)
      BY <2>3, RequestArrives
    <3>3. \A d \in ChatIds : Members(d)' = Members(d) /\ status'[d] = status[d]
      BY <3>1 DEF tables, Members
    <3>4. /\ job'[w].op = op /\ job'[w].at = "pass"
          /\ \A v \in Workers \ {w} : job'[v] = job[v]
      BY <3>2 DEF Arrives, TypeOK
    <3>5. ClosingEmpty(w)'
      BY <3>2, <3>4 DEF ClosingEmpty
    <3>6. \A v \in Workers : ClosingEmpty(v)'
      BY <2>2, <3>3, <3>4, <3>5
    <3>7. QED BY <2>1, <3>3, <3>6
  <2>4. ASSUME NEW w \in Workers, Step(w) PROVE DeparturesInv'
    <3>1. /\ \A d \in ChatIds : Members(d)' \subseteq Members(d)
          /\ \A d \in ChatIds : status'[d] = status[d] \/ Members(d) = {}
          /\ ClosingEmpty(w)'
          /\ \A v \in Workers \ {w} : job'[v] = job[v] \/ job'[v] = Rest("idle")
      BY <2>4, ClosingStep DEF DeparturesInv
    <3>2. \A v \in Workers : ClosingEmpty(v)'
      BY <2>2, <3>1
    <3>3. QED BY <2>1, <3>1, <3>2
  <2>5. CASE Kill
    BY <2>5, NoFault DEF Kill
  <2>6. CASE Restart \/ UNCHANGED vars
    <3>1. UNCHANGED job /\ UNCHANGED tables
      BY <2>6 DEF Restart, vars, tables
    <3>2. \A d \in ChatIds : Members(d)' = Members(d) /\ status'[d] = status[d]
      BY <3>1 DEF tables, Members
    <3>3. \A v \in Workers : ClosingEmpty(v)'
      BY <2>2, <3>1, <3>2
    <3>4. QED BY <2>1, <3>2, <3>3
  <2>7. QED BY <2>3, <2>4, <2>5, <2>6 DEF Next
<1>3. DeparturesInv => DeletedChatsAreEmpty
  BY DEF DeparturesInv
<1>4. QED BY <1>1, <1>2, <1>3, Typing, PTL DEF Spec

-----------------------------------------------------------------------------
(* Many requests at a time: no departures.                                 *)

\* Entering or recovering a member takes nobody out of any chat.
LEMMA MembersGrow ==
  ASSUME TablesTypeOK, NEW u, NEW c, AddUserChat(u, c) \/ RecoverUserChat(u, c)
  PROVE  \A d \in ChatIds : Members(d) \subseteq Members(d)'
<1>0. /\ live \in [ChatIds -> [Users -> Nat]]
      /\ left \in [ChatIds -> [Users -> Nat]]
  BY DEF TablesTypeOK
<1>1. \A d \in ChatIds, v \in Users : live[d][v] > 0 => live'[d][v] > 0
  <2> SUFFICES ASSUME NEW d \in ChatIds, NEW v \in Users, live[d][v] > 0
               PROVE  live'[d][v] > 0
    OBVIOUS
  <2>0. live[d][v] \in Nat /\ left[d][v] \in Nat
    BY <1>0
  <2>1. CASE AddUserChat(u, c)
    <3>1. live' = [live EXCEPT ![c][u] = @ + 1]
      BY <2>1 DEF AddUserChat
    <3>2. CASE c = d /\ u = v
      BY <1>0, <2>0, <3>1, <3>2
    <3>3. CASE ~(c = d /\ u = v)
      BY <1>0, <3>1, <3>3
    <3>4. QED BY <3>2, <3>3
  <2>2. CASE RecoverUserChat(u, c)
    <3>1. live' = [live EXCEPT ![c][u] = live[c][u] + left[c][u]]
      BY <2>2 DEF RecoverUserChat, AllRows
    <3>2. CASE c = d /\ u = v
      BY <1>0, <2>0, <3>1, <3>2
    <3>3. CASE ~(c = d /\ u = v)
      BY <1>0, <3>1, <3>3
    <3>4. QED BY <3>2, <3>3
  <2>3. QED BY <2>1, <2>2
<1>2. QED BY <1>1 DEF Members

\* A statement that changes nobody's administrator keeps what the others know.
LEMMA OthersKnow ==
  ASSUME NEW v \in Workers, AdminKnown(v), job'[v] = job[v],
         \A d \in ChatIds : status[d] = "valid" => status'[d] = "valid" /\ admin'[d] = admin[d]
  PROVE  AdminKnown(v)'
BY DEF AdminKnown

\* A statement that takes no administrator out of his chat.
LEMMA AdminStays ==
  ASSUME NEW w \in Workers, AdminStaysMember, UNCHANGED <<status, admin>>,
         job[w].at # "enter_me", \A v \in Workers \ {w} : job'[v] = job[v],
         \A d \in ChatIds : status[d] = "valid" /\ admin[d] \in Members(d) => admin[d] \in Members(d)'
  PROVE  AdminStaysMember'
BY DEF AdminStaysMember, BeingCreated

\* The statements that change no table.
LEMMA NoDepartureRead ==
  ASSUME TypeOK, MaxFaults = 0, NoDeparturesInv, NEW w \in Workers,
         \/ CheckPass(w) \/ LookUpMember(w) \/ CheckChat(w) \/ CheckAdmin(w)
         \/ LookUpTarget(w) \/ CheckFriend(w) \/ CheckInside(w) \/ CheckEntry(w)
  PROVE  AdminKnown(w)' /\ UNCHANGED tables /\ \A v \in Workers \ {w} : job'[v] = job[v]
<1> DEFINE j == job[w]
<1>0. job \in [Workers -> Job] /\ AdminKnown(w) /\ faults = 0
  BY NoFault DEF TypeOK, NoDeparturesInv
<1>1. UNCHANGED tables /\ \A v \in Workers \ {w} : job'[v] = job[v]
  BY <1>0 DEF CheckPass, LookUpMember, CheckChat, CheckAdmin, LookUpTarget, CheckFriend,
     CheckInside, CheckEntry, Observed, Goto
<1>2. UNCHANGED <<status, admin>>
  BY <1>1 DEF tables
<1>3. CASE CheckPass(w)
  <2>1. j.at = "pass" /\ (Goto(w, AfterLogin(j.op)) \/ Goto(w, "error"))
    BY <1>3 DEF CheckPass, At
  <2>2. /\ j.op = "create" => AfterLogin(j.op) = "member" /\ j.me \in Users
        /\ j.op # "create" => /\ AfterLogin(j.op) = "chat" /\ j.chat \in ChatIds
                              /\ j.op \in {"add", "remove"}
    BY <1>0, <2>1 DEF AdminKnown, AfterLogin
  <2>3. QED BY <1>0, <1>1, <2>1, <2>2, GotoFields DEF AdminKnown, Resting
<1>4. CASE LookUpMember(w)
  <2>1. j.at = "member" /\ job'[w].at = "new_chat" /\ job'[w].me = j.me
    <3>1. PICK x : job' = [job EXCEPT ![w] = [@ EXCEPT !.at = "new_chat", !.who = x]]
      BY <1>4 DEF LookUpMember
    <3>2. job'[w] = [j EXCEPT !.at = "new_chat", !.who = x] /\ j \in Job
      BY <1>0, <3>1
    <3>3. job'[w].at = "new_chat" /\ job'[w].me = j.me
      BY <3>2 DEF Job
    <3>4. j.at = "member"
      BY <1>4 DEF LookUpMember, At
    <3>5. QED BY <3>3, <3>4
  <2>2. QED BY <1>0, <1>1, <2>1 DEF AdminKnown, Resting
<1>5. CASE CheckChat(w)
  <2>1. /\ j.at = "chat"
        /\ \/ Goto(w, "error")
           \/ status[j.chat] = "valid" /\ Goto(w, "admin")
    <3>1. PICK r \in Answers(ChatExist(j.chat)) :
            Observed(r) /\ Goto(w, IF r # 1 THEN "error" ELSE IF j.op = "quit" THEN "inside" ELSE "admin")
      BY <1>5 DEF CheckChat
    <3>2. (ChatExist(j.chat) => r = 1) /\ (~(ChatExist(j.chat)) => r = 0)
      BY <1>0, <3>1, NoFaultReader
    <3>3. QED BY <1>0, <1>5, <3>1, <3>2 DEF CheckChat, At, ChatExist, AdminKnown
  <2>2. QED BY <1>0, <1>1, <1>2, <2>1, GotoFields DEF AdminKnown, Resting
<1>6. CASE CheckAdmin(w)
  <2>1. /\ j.at = "admin"
        /\ \/ Goto(w, "error")
           \/ admin[j.chat] = j.me /\ Goto(w, "who")
    <3>1. PICK r \in Answers(IsAdmin(j.me, j.chat)) :
            Observed(r) /\ Goto(w, IF r = 0 THEN "error" ELSE "who")
      BY <1>6 DEF CheckAdmin
    <3>2. (IsAdmin(j.me, j.chat) => r = 1) /\ (~(IsAdmin(j.me, j.chat)) => r = 0)
      BY <1>0, <3>1, NoFaultReader
    <3>3. QED BY <1>0, <1>6, <3>1, <3>2 DEF CheckAdmin, At, IsAdmin
  <2>2. QED BY <1>0, <1>1, <1>2, <2>1, GotoFields DEF AdminKnown, Resting
<1>7. CASE LookUpTarget(w)
  <2>1. /\ j.at = "who"
        /\ \/ Goto(w, "error")
           \/ j.who # j.me /\ j.op = "add" /\ Goto(w, "friend")
           \/ j.who # j.me /\ j.op # "add" /\ Goto(w, "inside")
    <3>1. PICK r \in Answers(GetUserId(j.who) # NoUser) :
            Observed(r) /\ Goto(w, IF r # 1 \/ j.who = j.me THEN "error" ELSE IF j.op = "add" THEN "friend" ELSE "inside")
      BY <1>7 DEF LookUpTarget
    <3>2. (GetUserId(j.who) # NoUser => r = 1) /\ (~(GetUserId(j.who) # NoUser) => r = 0)
      BY <1>0, <3>1, NoFaultReader
    <3>3. QED BY <1>0, <1>7, <3>1, <3>2 DEF LookUpTarget, At
  <2>2. QED BY <1>0, <1>1, <1>2, <2>1, GotoFields DEF AdminKnown, Resting
<1>8. CASE CheckFriend(w)
  <2>1. /\ j.at = "friend"
        /\ Goto(w, "error") \/ Goto(w, "inside")
    <3>1. PICK r \in Answers(ExistFriendly(j.who, j.me)) :
            Observed(r) /\ Goto(w, IF r # 1 THEN "error" ELSE "inside")
      BY <1>8 DEF CheckFriend
    <3>2. (ExistFriendly(j.who, j.me) => r = 1) /\ (~(ExistFriendly(j.who, j.me)) => r = 0)
      BY <1>0, <3>1, NoFaultReader
    <3>3. QED BY <1>0, <1>8, <3>1, <3>2 DEF CheckFriend, At
  <2>2. QED BY <1>0, <1>1, <1>2, <2>1, GotoFields DEF AdminKnown, Resting
<1>9. CASE CheckInside(w)
  <2>1. /\ j.at = "inside"
        /\ \/ Goto(w, "error") \/ Goto(w, "entry")
           \/ j.op # "add" /\ Goto(w, "remove")
    <3>1. PICK r \in Answers(ExistUserInChat(j.who, j.chat)) :
            Observed(r) /\ Goto(w, IF Refused(j.op, r) THEN "error" ELSE IF j.op = "add" THEN "entry" ELSE "remove")
      BY <1>9 DEF CheckInside
    <3>2. (ExistUserInChat(j.who, j.chat) => r = 1) /\ (~(ExistUserInChat(j.who, j.chat)) => r = 0)
      BY <1>0, <3>1, NoFaultReader
    <3>3. QED BY <1>0, <1>9, <3>1, <3>2 DEF CheckInside, At
  <2>2. QED BY <1>0, <1>1, <1>2, <2>1, GotoFields DEF AdminKnown, Resting
<1>10. CASE CheckEntry(w)
  <2>1. /\ j.at = "entry"
        /\ Goto(w, "recover") \/ Goto(w, "insert")
    <3>1. PICK r \in Answers(ExistUserEntryInChat(j.who, j.chat)) :
            Observed(r) /\ Goto(w, IF r = 1 THEN "recover" ELSE "insert")
      BY <1>10 DEF CheckEntry
    <3>2. (ExistUserEntryInChat(j.who, j.chat) => r = 1) /\ (~(ExistUserEntryInChat(j.who, j.chat)) => r = 0)
      BY <1>0, <3>1, NoFaultReader
    <3>3. QED BY <1>0, <1>10, <3>1, <3>2 DEF CheckEntry, At
  <2>2. QED BY <1>0, <1>1, <1>2, <2>1, GotoFields DEF AdminKnown, Resting
<1>11. QED BY <1>1, <1>3, <1>4, <1>5, <1>6, <1>7, <1>8, <1>9, <1>10

\* A statement of a handler, where nobody leaves by himself.
LEMMA NoDepartureStep ==
  ASSUME TypeOK, MaxFaults = 0, NoDeparturesInv, NEW w \in Workers, Step(w)
  PROVE  NoDeparturesInv'
<1> DEFINE j == job[w]
<1>0. /\ job \in [Workers -> Job] /\ TablesTypeOK /\ ~(faults < MaxFaults)
      /\ AdminKnown(w) /\ AdminStaysMember
  BY NoFault DEF TypeOK, NoDeparturesInv
<1>1. ASSUME AdminKnown(w)', AdminStaysMember', \A v \in Workers \ {w} : job'[v] = job[v],
             \A d \in ChatIds : status[d] = "valid" => status'[d] = "valid" /\ admin'[d] = admin[d]
      PROVE  NoDeparturesInv'
  BY <1>1, OthersKnow DEF NoDeparturesInv
<1>2. CASE \/ CheckPass(w) \/ LookUpMember(w) \/ CheckChat(w) \/ CheckAdmin(w)
           \/ LookUpTarget(w) \/ CheckFriend(w) \/ CheckInside(w) \/ CheckEntry(w)
  <2>1. AdminKnown(w)' /\ UNCHANGED tables /\ \A v \in Workers \ {w} : job'[v] = job[v]
    BY <1>2, NoDepartureRead
  <2>2. UNCHANGED <<status, admin, live>>
    BY <2>1 DEF tables
  <2>3. j.at # "enter_me"
    BY <1>2 DEF CheckPass, LookUpMember, CheckChat, CheckAdmin, LookUpTarget, CheckFriend,
       CheckInside, CheckEntry, At
  <2>4. \A d \in ChatIds : Members(d)' = Members(d)
    BY <2>2 DEF Members
  <2>5. AdminStaysMember'
    BY <1>0, <2>1, <2>2, <2>3, <2>4, AdminStays
  <2>6. QED BY <1>1, <2>1, <2>2, <2>5
<1>3. CASE InsertChat(w)
  <2>1. PICK c \in ChatIds :
          /\ j.at = "new_chat" /\ AddChat(j.me, c)
          /\ job' = [job EXCEPT ![w].at = "enter_me", ![w].chat = c]
    BY <1>0, <1>3 DEF InsertChat, At
  <2>2. /\ job'[w].at = "enter_me" /\ job'[w].chat = c /\ job'[w].me = j.me
        /\ \A v \in Workers \ {w} : job'[v] = job[v]
    BY <1>0, <2>1 DEF Job
  <2>3. /\ status[c] = "none" /\ status'[c] = "valid" /\ admin'[c] = j.me /\ UNCHANGED live
        /\ \A d \in ChatIds : d # c => status'[d] = status[d] /\ admin'[d] = admin[d]
    BY <1>0, <2>1 DEF AddChat, TablesTypeOK
  <2>4. j.me \in Users
    BY <1>0, <2>1 DEF AdminKnown
  <2>5. AdminKnown(w)'
    BY <2>2, <2>3, <2>4 DEF AdminKnown, Resting
  <2>6. AdminStaysMember'
    <3> SUFFICES ASSUME NEW d \in ChatIds, status'[d] = "valid"
                 PROVE  admin'[d] \in Members(d)' \/ BeingCreated(d)'
      BY DEF AdminStaysMember
    <3>1. CASE d = c
      BY <2>2, <3>1 DEF BeingCreated
    <3>2. CASE d # c
      <4>1. admin[d] \in Members(d) \/ BeingCreated(d)
        BY <1>0, <2>3, <3>2 DEF AdminStaysMember
      <4>2. BeingCreated(d) => BeingCreated(d)'
        BY <2>1, <2>2 DEF BeingCreated
      <4>3. QED BY <2>3, <3>2, <4>1, <4>2 DEF Members
    <3>3. QED BY <3>1, <3>2
  <2>7. QED BY <1>1, <2>2, <2>3, <2>5, <2>6
<1>4. CASE EnterCreator(w)
  <2>1. j.at = "enter_me" /\ AddUserChat(j.me, j.chat) /\ Goto(w, "enter_who")
    BY <1>0, <1>4 DEF EnterCreator, At, Attempt
  <2>2. /\ j.me \in Users /\ j.chat \in ChatIds
        /\ status[j.chat] = "valid" /\ admin[j.chat] = j.me
    BY <1>0, <2>1 DEF AdminKnown
  <2>3. UNCHANGED <<status, admin>> /\ \A v \in Workers \ {w} : job'[v] = job[v]
    BY <1>0, <2>1 DEF AddUserChat, Goto
  <2>4. AdminKnown(w)'
    BY <1>0, <2>1, GotoFields DEF AdminKnown, Resting
  <2>5. \A d \in ChatIds : Members(d)' = IF d = j.chat THEN Members(d) \cup {j.me} ELSE Members(d)
    BY <1>0, <2>1, <2>2, MembersMove
  <2>6. AdminStaysMember'
    BY <1>0, <2>1, <2>2, <2>3, <2>5 DEF AdminStaysMember, BeingCreated
  <2>7. QED BY <1>1, <2>3, <2>4, <2>6
<1>5. ASSUME NEW s \in Resting, Goto(w, s), UNCHANGED <<status, admin>>, j.at # "enter_me",
             \A d \in ChatIds : status[d] = "valid" /\ admin[d] \in Members(d)
                                  => admin[d] \in Members(d)'
      PROVE  NoDeparturesInv'
  <2>1. \A v \in Workers \ {w} : job'[v] = job[v]
    BY <1>0, <1>5 DEF Goto
  <2>2. AdminKnown(w)'
    BY <1>0, <1>5, GotoFields DEF AdminKnown, Resting
  <2>3. AdminStaysMember'
    BY <1>0, <1>5, <2>1, AdminStays
  <2>4. QED BY <1>1, <1>5, <2>1, <2>2, <2>3
<1>6. CASE EnterMember(w) \/ RecoverMember(w) \/ InsertMember(w)
  <2>1. PICK s \in {"ok", "error"} :
          /\ j.at # "enter_me" /\ Goto(w, s)
          /\ \/ UNCHANGED tables
             \/ AddUserChat(j.who, j.chat)
             \/ RecoverUserChat(j.who, j.chat)
    <3>1. CASE EnterMember(w) /\ j.who = NoUser
      BY <3>1 DEF EnterMember, At
    <3>2. CASE EnterMember(w) /\ j.who # NoUser
      <4>1. j.at = "enter_who" /\ Attempt(w, AddUserChat(j.who, j.chat), "ok", "error")
        BY <3>2 DEF EnterMember, At
      <4>2. QED BY <1>0, <4>1 DEF Attempt
    <3>3. CASE RecoverMember(w)
      BY <1>0, <3>3 DEF RecoverMember, At, Attempt
    <3>4. CASE InsertMember(w)
      BY <1>0, <3>4 DEF InsertMember, At, Attempt
    <3>5. QED BY <1>6, <3>1, <3>2, <3>3, <3>4
  <2>2. UNCHANGED <<status, admin>>
    BY <2>1 DEF AddUserChat, RecoverUserChat, tables
  <2>3. \A d \in ChatIds : Members(d) \subseteq Members(d)'
    <3>1. CASE UNCHANGED tables
      BY <3>1 DEF tables, Members
    <3>2. QED BY <1>0, <2>1, <3>1, MembersGrow
  <2>4. QED BY <1>5, <2>1, <2>2, <2>3 DEF Resting
<1>7. CASE RemoveMember(w)
  <2>1. j.at = "remove"
    BY <1>7 DEF RemoveMember, At
  <2>2. /\ j.op = "remove" /\ j.chat \in ChatIds /\ admin[j.chat] = j.me /\ j.who # j.me
    BY <1>0, <2>1 DEF AdminKnown
  <2>3. DelUserChat(j.who, j.chat) /\ Goto(w, "ok")
    BY <1>0, <1>7, <2>2 DEF RemoveMember, Attempt
  <2>4. UNCHANGED <<status, admin>>
    BY <2>3 DEF DelUserChat
  <2>5. \A d \in ChatIds, v \in Users : (d # j.chat \/ v # j.who) => live'[d][v] = live[d][v]
    BY <1>0, <2>3 DEF DelUserChat, TablesTypeOK
  <2>6. \A d \in ChatIds : admin[d] \in Members(d) => admin[d] \in Members(d)'
    BY <2>2, <2>4, <2>5 DEF Members
  <2>7. QED BY <1>5, <2>1, <2>3, <2>4, <2>6 DEF Resting
<1>8. CASE \/ UndoChat(w) \/ CheckStillUsers(w) \/ QuitterIsAdmin(w) \/ GetFirstUser(w)
           \/ HandOver(w) \/ CloseChat(w) \/ Invalidate(w) \/ LeaveAll(w)
  BY <1>0, <1>8 DEF UndoChat, CheckStillUsers, QuitterIsAdmin, GetFirstUser, HandOver,
     CloseChat, Invalidate, LeaveAll, At, AdminKnown, Resting
<1>9. QED BY <1>2, <1>3, <1>4, <1>6, <1>7, <1>8 DEF Step

\* create_chat, add_member and remove_member, by any number of threads and in any
\* interleaving of their statements, never leave a chat without its
\* administrator, except between the two first inserts of create_chat.
THEOREM AdminNeverRemoved ==
  ASSUME Ops \subseteq {"create", "add", "remove"}, MaxFaults = 0
  PROVE  Spec => []AdminStaysMember
<1>1. Init => NoDeparturesInv
  <2> SUFFICES ASSUME Init PROVE NoDeparturesInv
    OBVIOUS
  <2>1. AdminStaysMember
    BY DEF Init, AdminStaysMember
  <2>2. \A w \in Workers : AdminKnown(w)
    BY DEF Init, Rest, AdminKnown, Resting
  <2>3. QED BY <2>1, <2>2 DEF NoDeparturesInv
<1>2. TypeOK /\ NoDeparturesInv /\ [Next]_vars => NoDeparturesInv'
  <2> SUFFICES ASSUME TypeOK, NoDeparturesInv, [Next]_vars
               PROVE  NoDeparturesInv'
    OBVIOUS
  <2>1. ASSUME NEW w \in Workers, Request(w) PROVE NoDeparturesInv'
    <3>1. job[w].at \in Resting /\ UNCHANGED tables
      BY <2>1 DEF Request
    <3>2. PICK op \in Ops, me \in valid, who \in Users \cup {NoUser},
               chat \in ChatIds \cup {NoChat} :
            /\ Arrives(w, op, me, who, chat)
            /\ op \in {"add", "remove", "quit"} => chat \in ChatIds
      BY <2>1, RequestArrives
    <3>3. /\ job'[w].at = "pass" /\ job'[w].op = op /\ job'[w].me = me /\ job'[w].chat = chat
          /\ \A v \in Workers \ {w} : job'[v] = job[v]
      BY <3>2 DEF Arrives, TypeOK
    <3>4. me \in Users /\ op \in {"create", "add", "remove"}
      BY DEF TypeOK, TablesTypeOK
    <3>5. AdminKnown(w)'
      BY <3>2, <3>3, <3>4 DEF AdminKnown, Resting
    <3>6. UNCHANGED <<status, admin>> /\ \A d \in ChatIds : Members(d)' = Members(d)
      BY <3>1 DEF tables, Members
    <3>7. AdminStaysMember'
      BY <3>1, <3>3, <3>6, AdminStays DEF NoDeparturesInv, Resting
    <3>8. QED BY <3>3, <3>5, <3>6, <3>7, OthersKnow DEF NoDeparturesInv
  <2>2. ASSUME NEW w \in Workers, Step(w) PROVE NoDeparturesInv'
    BY <2>2, NoDepartureStep
  <2>3. CASE Kill
    BY <2>3, NoFault DEF Kill
  <2>4. CASE Restart \/ UNCHANGED vars
    <3>1. UNCHANGED <<tables, job>>
      BY <2>4 DEF Restart, vars, tables
    <3>2. UNCHANGED <<status, admin>> /\ \A d \in ChatIds : Members(d)' = Members(d)
      BY <3>1 DEF tables, Members
    <3>3. AdminStaysMember'
      BY <3>1, <3>2 DEF NoDeparturesInv, AdminStaysMember, BeingCreated
    <3>4. QED BY <3>1, <3>2, <3>3, OthersKnow DEF NoDeparturesInv
  <2>5. QED BY <2>1, <2>2, <2>3, <2>4 DEF Next
<1>3. NoDeparturesInv => AdminStaysMember
  BY DEF NoDeparturesInv
<1>4. QED BY <1>1, <1>2, <1>3, Typing, PTL DEF Spec
=============================================================================
