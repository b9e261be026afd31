------------------------- MODULE Friendship_proofs --------------------------
(***************************************************************************)
(* Proofs about Friendship, for all users, workers and numbers of faults.  *)
(***************************************************************************)
EXTENDS Friendship, FiniteSetTheorems, TLAPS

-----------------------------------------------------------------------------
(* The steps of a worker.                                                  *)

\* Past check_login a worker knows who its sender is, and its steps are those
\* of its request.
JobInv ==
  \A w \in Workers :
    /\ job[w].at \notin {"entry", "enrol"} \cup Resting => job[w].me \in Users
    /\ job[w].at \in {"entry", "enrol", "who", "drop"} => job[w].who \in Users
    /\ job[w].at = "pass" /\ job[w].op # "unregister" => job[w].who \in Users
    /\ job[w].at \in Resting => job[w].op = "none"
    /\ job[w].at \in {"entry", "enrol"} => job[w].op = "register"
    /\ job[w].at = "pass" => job[w].op \in {"unregister", "send", "accept", "decline"}
    /\ job[w].at = "invalidate" => job[w].op = "unregister"
    /\ job[w].at \in {"who", "request"} => job[w].op \in {"send", "accept", "decline"}
    /\ job[w].at \in {"friend", "ask"} => job[w].op = "send"
    /\ job[w].at \in {"befriend", "drop"} => job[w].op = "accept"
    /\ job[w].at = "remove" => job[w].op = "decline"

\* Worker w goes on with its request, or rests; at most one failure is counted.
Moves(w, k) ==
  /\ k \in Job
  /\ job' = [job EXCEPT ![w] = k]
  /\ threads' = threads /\ clashed' = clashed
  /\ faults' \in 0..MaxFaults
  /\ k.at \in Resting => k.op = "none"
  /\ k.at \in Resting \/ (k.op = job[w].op /\ k.me = job[w].me)
  /\ k.at \in Resting \/ k.who = job[w].who \/ (job[w].at = "who" /\ k.who = NoUser)

LEMMA GotoMoves ==
  ASSUME TypeOK, NEW w \in Workers, NEW s \in Steps \cup Resting, Goto(w, s),
         threads' = threads, clashed' = clashed, faults' \in 0..MaxFaults
  PROVE  \E k \in Job : k.at = s /\ Moves(w, k)
<1> DEFINE k == IF s \in Resting THEN Rest(s) ELSE [job[w] EXCEPT !.at = s]
<1>1. job[w] \in Job
  BY DEF TypeOK
<1>2. k \in Job /\ k.at = s /\ (k.at \in Resting => k.op = "none")
  BY <1>1 DEF Job, Rest, Resting
<1>3. k.at \in Resting \/ (k.op = job[w].op /\ k.me = job[w].me /\ k.who = job[w].who)
  BY <1>1, <1>2 DEF Job
<1>4. job' = [job EXCEPT ![w] = k]
  BY DEF Goto
<1>5. QED BY <1>2, <1>3, <1>4 DEF Moves

\* A reader answers yes or no, or fails and is counted.
LEMMA AnswersFacts ==
  ASSUME TypeOK, NEW b \in BOOLEAN, NEW r \in Answers(b), Observed(r)
  PROVE  /\ UNCHANGED tables /\ threads' = threads /\ clashed' = clashed /\ faults' \in 0..MaxFaults
         /\ \/ r = 1 /\ b /\ faults' = faults
            \/ r = 0 /\ ~b /\ faults' = faults
            \/ r = -1 /\ faults' = faults + 1
BY MaxFaultsAssumption DEF Answers, Observed, TypeOK

LEMMA CheckPassFacts ==
  ASSUME TypeOK, JobInv, NEW w \in Workers, CheckPass(w)
  PROVE  /\ UNCHANGED tables
         /\ faults' \in {faults, faults + 1}
         /\ \E k \in Job : /\ Moves(w, k)
                           /\ \/ k.at = "error"
                              \/ k.at = "invalidate" /\ job[w].op = "unregister"
                              \/ k.at = "who" /\ job[w].op # "unregister"
<1>1. PICK r \in Answers(account[job[w].me] = "valid"), s \in {"invalidate", "who", "error"} :
        /\ Observed(r) /\ Goto(w, s)
        /\ s = "invalidate" => job[w].op = "unregister"
        /\ s = "who" => job[w].op # "unregister"
  BY DEF CheckPass
<1>2. s \in Steps \cup Resting
  BY DEF Steps, Resting
<1>3. QED BY <1>1, <1>2, AnswersFacts, GotoMoves

LEMMA CheckEntryFacts ==
  ASSUME TypeOK, JobInv, NEW w \in Workers, CheckEntry(w)
  PROVE  /\ UNCHANGED tables
         /\ faults' \in {faults, faults + 1}
         /\ \E k \in Job : Moves(w, k) /\ k.at \in {"enrol", "error"}
<1>1. PICK r \in Answers(UserEntryExist(job[w].who)), s \in {"enrol", "error"} :
        Observed(r) /\ Goto(w, s)
  BY DEF CheckEntry
<1>2. s \in Steps \cup Resting
  BY DEF Steps, Resting
<1>3. UserEntryExist(job[w].who) \in BOOLEAN
  BY DEF UserEntryExist
<1>4. QED BY <1>1, <1>2, <1>3, AnswersFacts, GotoMoves

LEMMA LookUpOtherFacts ==
  ASSUME TypeOK, JobInv, NEW w \in Workers, LookUpOther(w)
  PROVE  /\ UNCHANGED tables
         /\ faults' \in {faults, faults + 1}
         /\ \E k \in Job :
              /\ Moves(w, k)
              /\ \/ k.at = "error"
                 \/ /\ k.at = IF job[w].op = "send" THEN "friend" ELSE "request"
                    /\ \/ /\ k.who = job[w].who /\ account[k.who] = "valid"
                          /\ job[w].op = "send" => k.who # k.me
                       \/ k.who = NoUser
<1> DEFINE j == job[w]
<1>0. j \in Job /\ j.who \in Users /\ job[w].at = "who"
  BY DEF TypeOK, JobInv, LookUpOther
<1> DEFINE found == GetUserId(j.who) # NoUser
<1>1. PICK r \in Answers(found) :
        /\ Observed(r)
        /\ IF j.op = "send" /\ r = 1 /\ j.who = j.me
           THEN Goto(w, "error")
           ELSE job' = [job EXCEPT ![w].at = IF j.op = "send" THEN "friend" ELSE "request",
                                   ![w].who = IF r = 1 THEN @ ELSE NoUser]
  BY DEF LookUpOther
<1>2. /\ UNCHANGED tables /\ threads' = threads /\ clashed' = clashed /\ faults' \in 0..MaxFaults
      /\ faults' \in {faults, faults + 1}
      /\ r = 1 => found
  <2>1. found \in BOOLEAN
    OBVIOUS
  <2> HIDE DEF found
  <2>2. QED BY <1>1, <2>1, AnswersFacts
<1>3. CASE j.op = "send" /\ r = 1 /\ j.who = j.me
  BY <1>1, <1>2, <1>3, GotoMoves DEF Resting
<1>4. CASE ~(j.op = "send" /\ r = 1 /\ j.who = j.me)
  <2> DEFINE k == [j EXCEPT !.at = IF j.op = "send" THEN "friend" ELSE "request",
                            !.who = IF r = 1 THEN @ ELSE NoUser]
  <2>1. k \in Job /\ k.at = (IF j.op = "send" THEN "friend" ELSE "request")
        /\ k.who = (IF r = 1 THEN j.who ELSE NoUser) /\ k.op = j.op /\ k.me = j.me
    BY <1>0 DEF Job, Steps
  <2>2. job' = [job EXCEPT ![w] = k]
    BY <1>1, <1>4
  <2>3. Moves(w, k)
    BY <1>0, <1>2, <2>1, <2>2 DEF Moves, Resting
  <2>4. r = 1 => account[k.who] = "valid" /\ (j.op = "send" => k.who # k.me)
    BY <1>2, <1>4, <2>1 DEF GetUserId
  <2>5. QED BY <1>2, <2>1, <2>3, <2>4
<1>5. QED BY <1>3, <1>4

LEMMA CheckFriendFacts ==
  ASSUME TypeOK, JobInv, NEW w \in Workers, CheckFriend(w)
  PROVE  /\ UNCHANGED tables
         /\ faults' \in {faults, faults + 1}
         /\ \E k \in Job :
              /\ Moves(w, k)
              /\ \/ k.at = "error"
                 \/ k.at = "request" /\ ~ExistFriendly(k.me, k.who)
<1>0. job[w] \in Job /\ job[w].at = "friend"
  BY DEF TypeOK, CheckFriend
<1>1. PICK r \in Answers(ExistFriendly(job[w].me, job[w].who)) :
        Observed(r) /\ Goto(w, IF r # 0 THEN "error" ELSE "request")
  BY DEF CheckFriend
<1>2. ExistFriendly(job[w].me, job[w].who) \in BOOLEAN
  BY DEF ExistFriendly
<1>3. /\ UNCHANGED tables /\ threads' = threads /\ clashed' = clashed /\ faults' \in 0..MaxFaults
      /\ faults' \in {faults, faults + 1}
      /\ r = 0 => ~ExistFriendly(job[w].me, job[w].who)
  BY <1>1, <1>2, AnswersFacts
<1>4. PICK s \in Steps \cup Resting : /\ Goto(w, s)
                                     /\ s = IF r # 0 THEN "error" ELSE "request"
  BY <1>1 DEF Steps, Resting
<1>5. PICK k \in Job : k.at = s /\ Moves(w, k)
  BY <1>3, <1>4, GotoMoves
<1>6. k.at = "request" => k.me = job[w].me /\ k.who = job[w].who
  BY <1>0, <1>5 DEF Moves, Resting
<1>7. QED BY <1>3, <1>4, <1>5, <1>6

LEMMA CheckRequestFacts ==
  ASSUME TypeOK, JobInv, NEW w \in Workers, CheckRequest(w)
  PROVE  /\ UNCHANGED tables
         /\ \E k \in Job :
              /\ Moves(w, k)
              /\ \/ k.at = "error" /\ faults' \in {faults, faults + 1}
                 \/ k.at = "ask" /\ faults' = faults /\ ~ExistRequest(k.me, k.who)
                                /\ k.op = "send"
                 \/ k.at \in {"befriend", "remove"} /\ k.op # "send"
                    /\ (k.at = "befriend" => k.op = "accept")
                    /\ (k.at = "remove" => k.op = "decline")
                    /\ \/ faults' = faults /\ ExistRequest(k.who, k.me)
                       \/ faults' = faults + 1
<1> DEFINE j == job[w]
           found == IF j.op = "send" THEN ExistRequest(j.me, j.who)
                                     ELSE ExistRequest(j.who, j.me)
<1>0. j \in Job /\ j.at = "request" /\ j.op \in {"send", "accept", "decline"}
  BY DEF TypeOK, JobInv, CheckRequest
<1>1. PICK r \in Answers(found) : Observed(r) /\ Goto(w, AfterRequest(j.op, r))
  BY DEF CheckRequest
<1>2. found \in BOOLEAN
  BY DEF ExistRequest
<1>3. /\ UNCHANGED tables /\ threads' = threads /\ clashed' = clashed /\ faults' \in 0..MaxFaults
      /\ \/ r = 1 /\ found /\ faults' = faults
         \/ r = 0 /\ ~found /\ faults' = faults
         \/ r = -1 /\ faults' = faults + 1
  <2> HIDE DEF found
  <2>1. QED BY <1>1, <1>2, AnswersFacts
<1>4. PICK s \in Steps \cup Resting : Goto(w, s) /\ s = AfterRequest(j.op, r)
  BY <1>1 DEF Steps, Resting, AfterRequest
<1>5. PICK k \in Job : k.at = s /\ Moves(w, k)
  BY <1>3, <1>4, GotoMoves
<1>6. k.at \notin Resting => k.op = j.op /\ k.me = j.me /\ k.who = j.who
  BY <1>0, <1>5 DEF Moves
<1>7. CASE j.op = "send"
  <2>1. \/ k.at = "error" /\ faults' \in {faults, faults + 1}
        \/ k.at = "ask" /\ faults' = faults /\ r = 0
    BY <1>3, <1>4, <1>5, <1>7 DEF AfterRequest
  <2>2. k.at = "ask" => k.op = "send" /\ k.me = j.me /\ k.who = j.who
    BY <1>6, <1>7 DEF Resting
  <2>3. QED BY <1>3, <1>5, <1>7, <2>1, <2>2
<1>8. CASE j.op # "send"
  <2>1. \/ k.at = "error" /\ faults' \in {faults, faults + 1}
        \/ /\ r # 0
           /\ k.at = IF j.op = "accept" THEN "befriend" ELSE "remove"
    BY <1>0, <1>3, <1>4, <1>5, <1>8 DEF AfterRequest
  <2>2. k.at \in {"befriend", "remove"} => k.op = j.op /\ k.me = j.me /\ k.who = j.who
    BY <1>6 DEF Resting
  <2>3. QED BY <1>0, <1>3, <1>5, <1>8, <2>1, <2>2
<1>9. QED BY <1>7, <1>8

LEMMA Counting ==
  ASSUME TypeOK
  PROVE  faults \in 0..MaxFaults /\ (faults < MaxFaults => faults + 1 \in 0..MaxFaults)
BY MaxFaultsAssumption DEF TypeOK

\* The handlers that end with one statement.
LEMMA LastStatement ==
  ASSUME TypeOK, NEW w \in Workers,
         Enrol(w) \/ Invalidate(w) \/ InsertRequest(w) \/ RemoveRequest(w)
  PROVE  /\ \E k \in Job : Moves(w, k) /\ k.at \in {"ok", "error"}
         /\ \/ UNCHANGED tables /\ faults' \in {faults, faults + 1}
            \/ /\ faults' = faults
               /\ \/ job[w].at = "enrol" /\ AddUser(job[w].who)
                  \/ job[w].at = "invalidate" /\ DelUser(job[w].me)
                  \/ /\ job[w].at = "ask" /\ job[w].who # NoUser
                     /\ SendRequest(job[w].me, job[w].who)
                  \/ job[w].at = "remove" /\ DeclineFriendRequest(job[w].who, job[w].me)
<1> USE DEF Resting
<1>1. CASE Enrol(w)
  BY <1>1, Counting, GotoMoves DEF Enrol, Attempt
<1>2. CASE Invalidate(w)
  BY <1>2, Counting, GotoMoves DEF Invalidate, Attempt
<1>3. CASE InsertRequest(w)
  BY <1>3, Counting, GotoMoves DEF InsertRequest, Attempt
<1>4. CASE RemoveRequest(w)
  BY <1>4, Counting, GotoMoves DEF RemoveRequest, Attempt
<1>5. QED BY <1>1, <1>2, <1>3, <1>4

LEMMA BefriendFacts ==
  ASSUME TypeOK, NEW w \in Workers, Befriend(w)
  PROVE  \E k \in Job :
           /\ Moves(w, k)
           /\ \/ /\ k.at = "drop" /\ faults' = faults /\ job[w].who # NoUser
                 /\ AddFriends(job[w].who, job[w].me)
              \/ k.at = "error" /\ UNCHANGED tables /\ faults' \in {faults, faults + 1}
<1>1. CASE job[w].who # NoUser /\ AddFriends(job[w].who, job[w].me) /\ Goto(w, "drop")
           /\ UNCHANGED <<faults, threads, clashed>>
  BY <1>1, Counting, GotoMoves DEF Steps
<1>2. CASE Goto(w, "error") /\ UNCHANGED <<tables, threads, clashed>>
           /\ (faults' = faults \/ (faults < MaxFaults /\ faults' = faults + 1))
  BY <1>2, Counting, GotoMoves DEF Resting
<1>3. QED BY <1>1, <1>2 DEF Befriend, Attempt

LEMMA DropRequestFacts ==
  ASSUME TypeOK, NEW w \in Workers, DropRequest(w)
  PROVE  /\ \E k \in Job : Moves(w, k) /\ k.at = "ok"
         /\ \/ faults' = faults /\ DeclineFriendRequest(job[w].who, job[w].me)
            \/ faults' = faults + 1 /\ UNCHANGED tables
BY Counting, GotoMoves DEF DropRequest, Attempt, Resting

\* A request arrives at a worker that rests.
LEMMA RequestFacts ==
  ASSUME TypeOK, NEW w \in Workers, Request(w)
  PROVE  /\ UNCHANGED <<tables, faults>> /\ Admitted(w)
         /\ clashed' \in BOOLEAN /\ (~clashed' <=> ~clashed /\ ~Clashing')
         /\ \E k \in Job :
              /\ job' = [job EXCEPT ![w] = k] /\ threads' = threads
              /\ \/ k.at = "entry" /\ k.op = "register" /\ k.who \in Users
                 \/ /\ k.at = "pass" /\ k.me \in Users /\ account[k.me] = "valid"
                    /\ k.op \in {"unregister", "send", "accept", "decline"}
                    /\ k.op # "unregister" => k.who \in Users
<1>1. PICK op \in Ops, s \in {"entry", "pass"}, me \in Users \cup {NoUser},
           who \in Users \cup {NoUser} :
        /\ Arrives(w, op, s, me, who)
        /\ \/ s = "entry" /\ op = "register" /\ who \in Users
           \/ /\ s = "pass" /\ me \in Users /\ account[me] = "valid"
              /\ op \in {"unregister", "send", "accept", "decline"}
              /\ op # "unregister" => who \in Users
  <2>1. CASE \E u \in Users : Arrives(w, "register", "entry", NoUser, u)
    BY <2>1 DEF Ops
  <2>2. CASE \E me \in Users :
               /\ GetUserId(me) = me
               /\ \/ Arrives(w, "unregister", "pass", me, NoUser)
                  \/ \E op \in {"send", "accept", "decline"}, who \in Users :
                       Arrives(w, op, "pass", me, who)
    <3>1. PICK me \in Users :
               /\ GetUserId(me) = me
               /\ \/ Arrives(w, "unregister", "pass", me, NoUser)
                  \/ \E op \in {"send", "accept", "decline"}, who \in Users :
                       Arrives(w, op, "pass", me, who)
      BY <2>2
    <3>2. account[me] = "valid"
      BY <3>1, UsersAssumption DEF GetUserId
    <3>3. QED BY <3>1, <3>2 DEF Ops
  <2>3. QED BY <2>1, <2>2 DEF Request
<1> DEFINE k == [op |-> op, at |-> s, me |-> me, who |-> who]
<1>2. k \in Job
  BY DEF Job, Steps
<1>3. job' = [job EXCEPT ![w] = k]
  BY <1>1 DEF Arrives
<1>4. clashed' \in BOOLEAN /\ (~clashed' <=> ~clashed /\ ~Clashing')
  <2>1. clashed' = (clashed \/ Clashing') /\ clashed \in BOOLEAN
    BY DEF Request, TypeOK
  <2> HIDE DEF Clashing
  <2>2. QED BY <2>1, Zenon
<1>5. QED BY <1>1, <1>2, <1>3, <1>4 DEF Request

-----------------------------------------------------------------------------
(* Typing.                                                                 *)

\* One more row of a pair is one more.
LEMMA RowAdded ==
  ASSUME NEW S, NEW f \in [S -> Nat], NEW p
  PROVE  /\ [f EXCEPT ![p] = @ + 1] \in [S -> Nat]
         /\ \A q \in S : q # p => [f EXCEPT ![p] = @ + 1][q] = f[q]
         /\ p \in S => [f EXCEPT ![p] = @ + 1][p] = f[p] + 1
<1>1. CASE p \in S     BY <1>1
<1>2. CASE p \notin S  BY <1>2
<1>3. QED BY <1>1, <1>2

\* A move keeps the types and the facts about jobs.
LEMMA MoveTyped ==
  ASSUME TypeOK, JobInv, NEW w \in Workers, NEW k \in Job, Moves(w, k),
         /\ k.at \notin {"entry", "pass", "who"}
            \/ (k.at = "who" /\ job[w].at = "pass" /\ job[w].op # "unregister"),
         k.at = "enrol" => job[w].at = "entry",
         k.at = "invalidate" => job[w].at = "pass" /\ job[w].op = "unregister",
         k.at = "friend" => job[w].at = "who" /\ job[w].op = "send",
         k.at = "request" => job[w].at \in {"who", "friend"},
         k.at \in {"ask", "befriend", "remove"} => job[w].at = "request",
         k.at = "ask" => k.op = "send",
         k.at = "befriend" => k.op = "accept",
         k.at = "remove" => k.op = "decline",
         k.at = "drop" => job[w].at = "befriend" /\ job[w].who \in Users
  PROVE  /\ JobInv' /\ job' \in [Workers -> Job]
         /\ threads' \in BOOLEAN /\ clashed' \in BOOLEAN /\ faults' \in 0..MaxFaults
<1>0. job \in [Workers -> Job] /\ job' = [job EXCEPT ![w] = k] /\ threads \in BOOLEAN
      /\ clashed \in BOOLEAN
  BY DEF TypeOK, Moves
<1>1. \A v \in Workers : job'[v] = IF v = w THEN k ELSE job[v]
  BY <1>0
<1>2. job' \in [Workers -> Job] /\ threads' \in BOOLEAN /\ clashed' \in BOOLEAN /\ faults' \in 0..MaxFaults
  BY <1>0 DEF Moves
<1>3. k.at \in Steps \cup Resting /\ job[w].at \in Steps \cup Resting
  BY <1>0 DEF Job
<1>4. k.at \in Resting \/ (k.op = job[w].op /\ k.me = job[w].me)
  BY DEF Moves
<1>5. k.at \in Resting \/ k.who = job[w].who \/ job[w].at = "who"
  BY DEF Moves
<1>a. k.at \in Resting => k.op = "none"
  BY DEF Moves
<1>6. k.at \notin {"entry", "enrol"} \cup Resting => k.me \in Users
  BY <1>3, <1>4 DEF JobInv, Resting, Steps
<1>7. k.at \in {"entry", "enrol", "who", "drop"} => k.who \in Users
  BY <1>3, <1>5 DEF JobInv, Resting, Steps
<1>8. /\ k.at \in {"entry", "enrol"} => k.op = "register"
      /\ k.at = "invalidate" => k.op = "unregister"
      /\ k.at \in {"who", "request"} => k.op \in {"send", "accept", "decline"}
  BY <1>3, <1>4 DEF JobInv, Resting, Steps
<1>9. /\ k.at \in {"friend", "ask"} => k.op = "send"
      /\ k.at \in {"befriend", "drop"} => k.op = "accept"
      /\ k.at # "pass"
  BY <1>3, <1>4 DEF JobInv, Resting, Steps
<1>10. JobInv'
  BY <1>1, <1>a, <1>6, <1>7, <1>8, <1>9 DEF JobInv
<1>11. QED BY <1>2, <1>10

LEMMA StatementsTyped ==
  ASSUME TypeOK, NEW u1 \in Users \cup {NoUser}, NEW u2 \in Users \cup {NoUser},
         \/ AddUser(u1) \/ DelUser(u1) \/ (u1 \in Users /\ SendRequest(u1, u2))
         \/ AddFriends(u1, u2) \/ DeclineFriendRequest(u1, u2) \/ UNCHANGED tables
  PROVE  /\ account' \in [Users -> {"none", "valid", "deleted"}]
         /\ requests' \in [Pairs -> Nat] /\ friends' \in [Pairs -> Nat]
         /\ asked' \in SUBSET Pairs /\ crossed' \in SUBSET SUBSET Users
<1> USE DEF TypeOK
<1>1. CASE AddUser(u1)            BY <1>1 DEF AddUser
<1>2. CASE DelUser(u1)            BY <1>2 DEF DelUser
<1>3. CASE u1 \in Users /\ SendRequest(u1, u2)
  <2>1. <<u1, u2>> \in Pairs
    BY <1>3 DEF SendRequest, Pairs
  <2>2. QED BY <1>3, <2>1, RowAdded DEF SendRequest
<1>4. CASE AddFriends(u1, u2)
  BY <1>4, RowAdded DEF AddFriends
<1>5. CASE DeclineFriendRequest(u1, u2)
  BY <1>5 DEF DeclineFriendRequest
<1>6. CASE UNCHANGED tables       BY <1>6 DEF tables
<1>7. QED BY <1>1, <1>2, <1>3, <1>4, <1>5, <1>6

\* TypeOK and JobInv are inductive.
LEMMA StepTyped ==
  ASSUME TypeOK, JobInv, NEW w \in Workers, Step(w)
  PROVE  TypeOK' /\ JobInv'
<1> DEFINE j == job[w]
<1>0. /\ j \in Job /\ j.me \in Users \cup {NoUser} /\ j.who \in Users \cup {NoUser}
      /\ j.at \in {"ask", "befriend"} => j.me \in Users
  BY DEF TypeOK, Job, JobInv, Resting
<1>a. SUFFICES /\ JobInv' /\ job' \in [Workers -> Job]
               /\ threads' \in BOOLEAN /\ clashed' \in BOOLEAN /\ faults' \in 0..MaxFaults
               /\ \/ UNCHANGED tables
                  \/ \E u1, u2 \in Users \cup {NoUser} :
                       \/ AddUser(u1) \/ DelUser(u1) \/ (u1 \in Users /\ SendRequest(u1, u2))
                       \/ AddFriends(u1, u2) \/ DeclineFriendRequest(u1, u2)
  BY StatementsTyped DEF TypeOK
<1> USE DEF Resting
<1>1. CASE CheckPass(w)
  BY <1>1, CheckPassFacts, MoveTyped DEF CheckPass
<1>2. CASE CheckEntry(w)
  BY <1>2, CheckEntryFacts, MoveTyped DEF CheckEntry
<1>3. CASE LookUpOther(w)
  <2>1. j.at = "who"
    BY <1>3 DEF LookUpOther
  <2>2. QED BY <1>3, <2>1, LookUpOtherFacts, MoveTyped
<1>4. CASE CheckFriend(w)
  BY <1>4, CheckFriendFacts, MoveTyped DEF CheckFriend
<1>5. CASE CheckRequest(w)
  BY <1>5, CheckRequestFacts, MoveTyped DEF CheckRequest
<1>6. CASE Enrol(w) \/ Invalidate(w) \/ InsertRequest(w) \/ RemoveRequest(w)
  <2>1. JobInv' /\ job' \in [Workers -> Job] /\ threads' \in BOOLEAN /\ clashed' \in BOOLEAN
        /\ faults' \in 0..MaxFaults
    BY <1>6, LastStatement, MoveTyped
  <2>2. QED BY <1>0, <1>6, <2>1, LastStatement
<1>7. CASE Befriend(w)
  <2>1. PICK k \in Job :
           /\ Moves(w, k)
           /\ \/ /\ k.at = "drop" /\ faults' = faults /\ j.who # NoUser
                 /\ AddFriends(j.who, j.me)
              \/ k.at = "error" /\ UNCHANGED tables
    BY <1>7, BefriendFacts
  <2>2. JobInv' /\ job' \in [Workers -> Job] /\ threads' \in BOOLEAN /\ clashed' \in BOOLEAN
        /\ faults' \in 0..MaxFaults
    BY <1>0, <1>7, <2>1, MoveTyped DEF Befriend
  <2>3. QED BY <1>0, <2>1, <2>2
<1>8. CASE DropRequest(w)
  <2>1. JobInv' /\ job' \in [Workers -> Job] /\ threads' \in BOOLEAN /\ clashed' \in BOOLEAN
        /\ faults' \in 0..MaxFaults
    BY <1>8, DropRequestFacts, MoveTyped
  <2>2. QED BY <1>0, <1>8, <2>1, DropRequestFacts
<1>9. QED
  BY <1>1, <1>2, <1>3, <1>4, <1>5, <1>6, <1>7, <1>8 DEF Step

LEMMA NextTyped ==
  ASSUME TypeOK, JobInv, [Next]_vars
  PROVE  TypeOK' /\ JobInv'
<1>1. ASSUME NEW w \in Workers, Request(w) PROVE TypeOK' /\ JobInv'
  <2>1. PICK k \in Job :
              /\ job' = [job EXCEPT ![w] = k] /\ threads' = threads
              /\ \/ k.at = "entry" /\ k.op = "register" /\ k.who \in Users
                 \/ /\ k.at = "pass" /\ k.me \in Users /\ account[k.me] = "valid"
                    /\ k.op \in {"unregister", "send", "accept", "decline"}
                    /\ k.op # "unregister" => k.who \in Users
    BY <1>1, RequestFacts
  <2>2. UNCHANGED <<tables, faults>>
    BY <1>1, RequestFacts
  <2>a. clashed' \in BOOLEAN
    BY <1>1, RequestFacts
  <2>3. TypeOK'
    BY <2>1, <2>2, <2>a DEF TypeOK, tables
  <2>4. \A v \in Workers : job'[v] = IF v = w THEN k ELSE job[v]
    BY <2>1 DEF TypeOK
  <2>5. JobInv'
    BY <2>1, <2>4 DEF JobInv, Resting
  <2>6. QED BY <2>3, <2>5
<1>2. ASSUME NEW w \in Workers, Step(w) PROVE TypeOK' /\ JobInv'
  BY <1>2, StepTyped
<1>3. CASE Kill
  <2>1. TypeOK'
    BY <1>3, Counting DEF Kill, TypeOK, tables, Rest, Job, Resting
  <2>2. JobInv'
    BY <1>3 DEF Kill, JobInv, Rest, Resting
  <2>3. QED BY <2>1, <2>2
<1>4. CASE UNCHANGED vars
  BY <1>4 DEF vars, TypeOK, JobInv
<1>5. QED BY <1>1, <1>2, <1>3, <1>4 DEF Next

LEMMA InitTyped ==
  ASSUME Init
  PROVE  TypeOK /\ JobInv
<1>1. TypeOK
  <2>1. Rest("idle") \in Job
    BY DEF Rest, Job, Resting
  <2>2. threads \in BOOLEAN /\ clashed \in BOOLEAN
    BY DEF Init
  <2>3. /\ account \in [Users -> {"none", "valid", "deleted"}]
        /\ requests \in [Pairs -> Nat] /\ friends \in [Pairs -> Nat]
        /\ asked \in SUBSET Pairs /\ crossed \in SUBSET SUBSET Users
    BY DEF Init
  <2>4. job \in [Workers -> Job] /\ faults \in 0..MaxFaults
    BY <2>1, MaxFaultsAssumption DEF Init
  <2>5. QED BY <2>2, <2>3, <2>4 DEF TypeOK
<1>2. \A w \in Workers : job[w].at = "idle" /\ job[w].op = "none"
  BY DEF Init, Rest
<1>3. JobInv
  BY <1>2 DEF JobInv, Resting
<1>4. QED BY <1>1, <1>3

\* Every variable keeps its type, for any requests, workers and faults.
THEOREM Typing == Spec => []TypeOK
<1>1. Init => TypeOK /\ JobInv
  BY InitTyped
<1>2. TypeOK /\ JobInv /\ [Next]_vars => TypeOK' /\ JobInv'
  BY NextTyped
<1>3. QED BY <1>1, <1>2, PTL DEF Spec

-----------------------------------------------------------------------------
(* A friendship was asked for.                                             *)

\* The pairs nobody asked for that are friends, or about to be.
Suspects ==
  {p \in Pairs \ asked :
     \/ friends[p] > 0
     \/ \E v \in Workers : job[v].at = "befriend" /\ p = <<job[v].who, job[v].me>>}

AskedInv == \A p \in Pairs : requests[p] > 0 => p \in asked

ConsentInv == IsFiniteSet(Suspects) /\ Cardinality(Suspects) <= faults

\* What accept_request is about to insert was asked for, or a query failed.
LEMMA SuspectNeedsFault ==
  ASSUME TypeOK, JobInv, AskedInv, [Next]_vars
  PROVE  /\ AskedInv'
         /\ \/ faults' >= faults /\ Suspects' \subseteq Suspects
            \/ /\ faults' = faults + 1
               /\ \E p \in Pairs : Suspects' \subseteq Suspects \cup {p}
<1> DEFINE Befriending(v, p) == job[v].at = "befriend" /\ p = <<job[v].who, job[v].me>>
<1>0. job \in [Workers -> Job] /\ faults \in Nat /\ friends \in [Pairs -> Nat]
      /\ requests \in [Pairs -> Nat]
  BY MaxFaultsAssumption DEF TypeOK
<1>a. ASSUME NEW w \in Workers, NEW k \in Job, job' = [job EXCEPT ![w] = k], k.at # "befriend",
             friends' = friends, asked \subseteq asked'
      PROVE  Suspects' \subseteq Suspects
  <2>1. \A v \in Workers : job'[v] = IF v = w THEN k ELSE job[v]
    BY <1>0, <1>a
  <2>2. \A v \in Workers : job'[v].at = "befriend" => job'[v] = job[v]
    BY <1>a, <2>1
  <2>3. QED BY <1>a, <2>2 DEF Suspects
<1>1. ASSUME NEW w \in Workers, Request(w)
      PROVE  AskedInv' /\ Suspects' \subseteq Suspects /\ faults' >= faults
  <2>1. PICK k \in Job : job' = [job EXCEPT ![w] = k] /\ k.at # "befriend"
    BY <1>1, RequestFacts
  <2>2. UNCHANGED <<tables, faults>>
    BY <1>1, RequestFacts
  <2>3. friends' = friends /\ asked \subseteq asked' /\ AskedInv' /\ faults' >= faults
    BY <1>0, <2>2 DEF tables, AskedInv
  <2>4. QED BY <1>a, <2>1, <2>3
<1>2. ASSUME NEW w \in Workers,
             CheckPass(w) \/ CheckEntry(w) \/ LookUpOther(w) \/ CheckFriend(w)
      PROVE  AskedInv' /\ Suspects' \subseteq Suspects /\ faults' >= faults
  <2>1. PICK k \in Job : job' = [job EXCEPT ![w] = k] /\ k.at # "befriend"
    BY <1>2, CheckPassFacts, CheckEntryFacts, LookUpOtherFacts, CheckFriendFacts DEF Moves
  <2>2. UNCHANGED tables /\ faults' \in {faults, faults + 1}
    BY <1>2, CheckPassFacts, CheckEntryFacts, LookUpOtherFacts, CheckFriendFacts
  <2>3. friends' = friends /\ asked \subseteq asked' /\ AskedInv' /\ faults' >= faults
    BY <1>0, <2>2 DEF tables, AskedInv
  <2>4. QED BY <1>a, <2>1, <2>3
<1>3. ASSUME NEW w \in Workers, CheckRequest(w)
      PROVE  /\ AskedInv'
             /\ \/ faults' >= faults /\ Suspects' \subseteq Suspects
                \/ /\ faults' = faults + 1
                   /\ \E p \in Pairs : Suspects' \subseteq Suspects \cup {p}
  <2>1. PICK k \in Job :
          /\ Moves(w, k)
          /\ k.at = "befriend" => \/ faults' = faults /\ ExistRequest(k.who, k.me)
                                 \/ faults' = faults + 1
          /\ faults' \in {faults, faults + 1}
    BY <1>3, CheckRequestFacts
  <2>2. UNCHANGED tables
    BY <1>3, CheckRequestFacts
  <2>3. job' = [job EXCEPT ![w] = k]
    BY <2>1 DEF Moves
  <2>4. \A v \in Workers : job'[v] = IF v = w THEN k ELSE job[v]
    BY <1>0, <2>3
  <2>5. AskedInv'
    BY <2>2 DEF tables, AskedInv
  <2>6. CASE k.at # "befriend"
    <3>1. friends' = friends /\ asked \subseteq asked' /\ faults' >= faults
      BY <1>0, <2>1, <2>2 DEF tables
    <3>2. Suspects' \subseteq Suspects
      BY <1>a, <2>3, <2>6, <3>1
    <3>3. QED BY <2>5, <3>1, <3>2
  <2>7. CASE k.at = "befriend" /\ <<k.who, k.me>> \in asked
    <3>1. Suspects' \subseteq Suspects
      <4>1. SUFFICES ASSUME NEW p \in Suspects' PROVE p \in Suspects
        OBVIOUS
      <4>2. p \in Pairs \ asked /\ p # <<k.who, k.me>>
        BY <2>2, <2>7 DEF Suspects, tables
      <4>3. QED BY <2>2, <2>4, <4>2 DEF Suspects, tables
    <3>2. QED BY <1>0, <2>1, <2>5, <3>1
  <2>8. CASE k.at = "befriend" /\ <<k.who, k.me>> \notin asked
    <3>1. faults' = faults + 1
      <4>1. ASSUME ExistRequest(k.who, k.me) PROVE FALSE
        <5>1. k.who \in Users /\ k.me \in Users /\ requests[<<k.who, k.me>>] > 0
          BY <4>1 DEF ExistRequest, Job
        <5>2. QED BY <2>8, <5>1 DEF AskedInv, Pairs
      <4>2. QED BY <2>1, <2>8, <4>1
    <3>2. Suspects' \subseteq Suspects \cup {<<k.who, k.me>>}
      BY <2>2, <2>4 DEF Suspects, tables
    <3>3. CASE <<k.who, k.me>> \in Pairs
      BY <2>5, <3>1, <3>2, <3>3
    <3>4. CASE <<k.who, k.me>> \notin Pairs
      <4>1. Suspects' \subseteq Suspects
        BY <3>2, <3>4 DEF Suspects
      <4>2. QED BY <1>0, <2>5, <3>1, <4>1
    <3>5. QED BY <3>3, <3>4
  <2>9. QED BY <2>6, <2>7, <2>8
<1>4. ASSUME NEW w \in Workers, Enrol(w) \/ Invalidate(w) \/ InsertRequest(w) \/ RemoveRequest(w)
      PROVE  AskedInv' /\ Suspects' \subseteq Suspects /\ faults' >= faults
  <2>1. PICK k \in Job : job' = [job EXCEPT ![w] = k] /\ k.at # "befriend"
    BY <1>4, LastStatement DEF Moves
  <2>2. /\ friends' = friends /\ asked \subseteq asked' /\ faults' >= faults
        /\ AskedInv'
    <3>1. CASE UNCHANGED tables /\ faults' \in {faults, faults + 1}
      BY <1>0, <3>1 DEF tables, AskedInv
    <3>2. CASE (AddUser(job[w].who) \/ DelUser(job[w].me)) /\ faults' = faults
      BY <1>0, <3>2 DEF AddUser, DelUser, AskedInv
    <3>3. CASE SendRequest(job[w].me, job[w].who) /\ faults' = faults
      BY <1>0, <3>3 DEF SendRequest, AskedInv
    <3>4. CASE DeclineFriendRequest(job[w].who, job[w].me) /\ faults' = faults
      BY <1>0, <3>4 DEF DeclineFriendRequest, AskedInv
    <3>5. QED BY <1>4, <3>1, <3>2, <3>3, <3>4, LastStatement
  <2>3. QED BY <1>a, <2>1, <2>2
<1>5. ASSUME NEW w \in Workers, Befriend(w)
      PROVE  AskedInv' /\ Suspects' \subseteq Suspects /\ faults' >= faults
  <2>1. PICK k \in Job :
           /\ Moves(w, k)
           /\ \/ /\ k.at = "drop" /\ faults' = faults
                 /\ AddFriends(job[w].who, job[w].me)
              \/ k.at = "error" /\ UNCHANGED tables /\ faults' \in {faults, faults + 1}
    BY <1>5, BefriendFacts
  <2>2. AskedInv' /\ faults' >= faults
    BY <1>0, <2>1 DEF AddFriends, AskedInv, tables
  <2>3. CASE k.at = "error" /\ UNCHANGED tables
    BY <1>a, <2>1, <2>2, <2>3 DEF Moves, tables
  <2>4. CASE k.at = "drop" /\ AddFriends(job[w].who, job[w].me)
    <3>1. \A v \in Workers : job'[v] = IF v = w THEN k ELSE job[v]
      BY <1>0, <2>1 DEF Moves
    <3>2. asked' = asked /\ \A q \in Pairs : q # <<job[w].who, job[w].me>> => friends'[q] = friends[q]
      BY <1>0, <2>4, RowAdded DEF AddFriends
    <3>3. Befriending(w, <<job[w].who, job[w].me>>)
      BY <1>5 DEF Befriend
    <3>4. QED BY <2>2, <2>4, <3>1, <3>2, <3>3 DEF Suspects
  <2>5. QED BY <2>1, <2>3, <2>4
<1>6. ASSUME NEW w \in Workers, DropRequest(w)
      PROVE  AskedInv' /\ Suspects' \subseteq Suspects /\ faults' >= faults
  <2>1. PICK k \in Job : job' = [job EXCEPT ![w] = k] /\ k.at # "befriend"
    BY <1>6, DropRequestFacts DEF Moves
  <2>2. /\ friends' = friends /\ asked = asked' /\ faults' >= faults /\ AskedInv'
    BY <1>0, <1>6, DropRequestFacts DEF DeclineFriendRequest, AskedInv, tables
  <2>3. QED BY <1>a, <2>1, <2>2
<1>7. CASE Kill
  <2>1. \A v \in Workers : job'[v].at # "befriend"
    BY <1>7 DEF Kill, Rest
  <2>2. QED BY <1>0, <1>7, <2>1 DEF Kill, Suspects, AskedInv, tables
<1>8. CASE UNCHANGED vars
  BY <1>0, <1>8 DEF vars, Suspects, AskedInv
<1>9. QED
  BY <1>1, <1>2, <1>3, <1>4, <1>5, <1>6, <1>7, <1>8 DEF Next, Step

\* A failed query makes at most one friendship that nobody asked for, whatever
\* the interleaving of the requests.
THEOREM Consent == Spec => []FriendshipWasAskedFor
<1> DEFINE IInv == TypeOK /\ JobInv /\ AskedInv /\ ConsentInv
<1>1. Init => IInv
  <2>1. SUFFICES ASSUME Init PROVE IInv
    OBVIOUS
  <2>2. TypeOK /\ JobInv
    BY <2>1, InitTyped
  <2>3. Suspects = {} /\ AskedInv
    BY <2>1 DEF Init, Suspects, AskedInv, Rest
  <2>4. ConsentInv
    BY <2>1, <2>3, FS_EmptySet DEF ConsentInv, Init
  <2>5. QED BY <2>2, <2>3, <2>4
<1>2. IInv /\ [Next]_vars => IInv'
  <2>1. SUFFICES ASSUME IInv, [Next]_vars PROVE IInv'
    OBVIOUS
  <2>2. TypeOK' /\ JobInv' /\ AskedInv'
    BY <2>1, NextTyped, SuspectNeedsFault
  <2>3. faults \in Nat /\ faults' \in Nat
    BY <2>1, <2>2, MaxFaultsAssumption DEF TypeOK
  <2>4. IsFiniteSet(Suspects) /\ Cardinality(Suspects) \in Nat /\ Cardinality(Suspects) <= faults
    BY <2>1, FS_CardinalityType DEF ConsentInv
  <2>5. CASE faults' >= faults /\ Suspects' \subseteq Suspects
    <3>1. IsFiniteSet(Suspects') /\ Cardinality(Suspects') \in Nat
          /\ Cardinality(Suspects') <= Cardinality(Suspects)
      BY <2>4, <2>5, FS_Subset, FS_CardinalityType
    <3>2. ConsentInv'
      BY <2>3, <2>4, <2>5, <3>1 DEF ConsentInv
    <3>3. QED BY <2>2, <3>2
  <2>6. CASE faults' = faults + 1 /\ \E p \in Pairs : Suspects' \subseteq Suspects \cup {p}
    <3>1. PICK p \in Pairs : Suspects' \subseteq Suspects \cup {p}
      BY <2>6
    <3>2. /\ IsFiniteSet(Suspects \cup {p})
          /\ Cardinality(Suspects \cup {p}) \in Nat
          /\ Cardinality(Suspects \cup {p}) <= Cardinality(Suspects) + 1
      <4>1. /\ IsFiniteSet(Suspects \cup {p})
            /\ \/ Cardinality(Suspects \cup {p}) = Cardinality(Suspects)
               \/ Cardinality(Suspects \cup {p}) = Cardinality(Suspects) + 1
        BY <2>4, FS_AddElement
      <4>2. QED BY <2>4, <4>1
    <3>3. IsFiniteSet(Suspects') /\ Cardinality(Suspects') \in Nat
          /\ Cardinality(Suspects') <= Cardinality(Suspects \cup {p})
      BY <3>1, <3>2, FS_Subset, FS_CardinalityType
    <3>4. ConsentInv'
      BY <2>3, <2>4, <2>6, <3>2, <3>3 DEF ConsentInv
    <3>5. QED BY <2>2, <3>4
  <2>7. QED BY <2>1, <2>5, <2>6, SuspectNeedsFault
<1>3. IInv => FriendshipWasAskedFor
  <2>1. SUFFICES ASSUME IInv PROVE FriendshipWasAskedFor
    OBVIOUS
  <2>2. Unasked \subseteq Suspects
    BY DEF Unasked, Suspects
  <2>3. IsFiniteSet(Suspects) /\ Cardinality(Suspects) \in Nat /\ Cardinality(Suspects) <= faults
    BY <2>1, FS_CardinalityType DEF ConsentInv
  <2>4. Cardinality(Unasked) \in Nat /\ Cardinality(Unasked) <= Cardinality(Suspects)
    BY <2>2, <2>3, FS_Subset, FS_CardinalityType
  <2>5. faults \in Nat
    BY <2>1, MaxFaultsAssumption DEF TypeOK
  <2>6. QED BY <2>3, <2>4, <2>5 DEF FriendshipWasAskedFor
<1>4. QED BY <1>1, <1>2, <1>3, PTL DEF Spec

-----------------------------------------------------------------------------
(* Requests that do not clash.                                             *)

\* Until two requests have clashed, no two of those at work do.
ClashInv == ~clashed => ~Clashing

LEMMA OthersStay ==
  ASSUME TypeOK, NEW w \in Workers, NEW k \in Job, Moves(w, k)
  PROVE  \A v \in Workers : job'[v] = IF v = w THEN k ELSE job[v]
BY DEF TypeOK, Moves

\* A request at work names no more users later than when it arrived.
LEMMA MoveClash ==
  ASSUME TypeOK, JobInv, ClashInv, NEW w \in Workers, NEW k \in Job, Moves(w, k)
  PROVE  ClashInv'
<1> DEFINE asks == {"send", "accept", "decline"}
<1>1. \A v \in Workers :
        \/ job'[v].op = "none"
        \/ /\ job'[v].op = job[v].op /\ job'[v].me = job[v].me
           /\ job'[v].who = job[v].who \/ job'[v].who = NoUser
  BY OthersStay DEF Moves
<1>2. \A v \in Workers : job[v].op \in asks \cup {"unregister"} => job[v].me \in Users
  BY DEF JobInv
<1>3. SUFFICES ASSUME NEW u \in Workers, NEW v \in Workers, u # v, Clash(job'[u], job'[v])
               PROVE  Clash(job[u], job[v])
  BY DEF ClashInv, Clashing, Clash, Moves
<1>4. job'[v].op \in asks
  BY <1>3 DEF Clash
<1>5. CASE job'[u].op = "accept" /\ job'[u].who # NoUser
           /\ {job'[u].me, job'[u].who} = {job'[v].me, job'[v].who}
  <2>1. /\ job[u].op = "accept" /\ job'[u].me = job[u].me /\ job'[u].who = job[u].who
        /\ job[u].me # NoUser
    BY <1>1, <1>2, <1>5, UsersAssumption
  <2>2. job[v].op \in asks /\ job'[v].me = job[v].me /\ job'[v].who = job[v].who
    BY <1>1, <1>4, <1>5, <2>1
  <2>3. QED BY <1>5, <2>1, <2>2 DEF Clash
<1>6. CASE job'[u].op = "unregister" /\ job'[u].me \in {job'[v].me, job'[v].who}
  <2>1. job[u].op = "unregister" /\ job'[u].me = job[u].me /\ job[u].me # NoUser
    BY <1>1, <1>2, <1>6, UsersAssumption
  <2>2. job[v].op \in asks /\ job[u].me \in {job[v].me, job[v].who}
    BY <1>1, <1>4, <1>6, <2>1
  <2>3. QED BY <2>1, <2>2 DEF Clash
<1>7. QED BY <1>3, <1>5, <1>6 DEF Clash

LEMMA StepMoves ==
  ASSUME TypeOK, JobInv, NEW w \in Workers, Step(w)
  PROVE  /\ \E k \in Job : Moves(w, k)
         /\ faults' \in {faults, faults + 1}
         /\ job[w].at \notin Resting
<1>1. \E k \in Job : Moves(w, k)
  BY CheckPassFacts, CheckEntryFacts, LookUpOtherFacts, CheckFriendFacts, CheckRequestFacts,
     LastStatement, BefriendFacts, DropRequestFacts DEF Step
<1>2. faults' \in {faults, faults + 1}
  BY CheckPassFacts, CheckEntryFacts, LookUpOtherFacts, CheckFriendFacts, CheckRequestFacts,
     LastStatement, BefriendFacts, DropRequestFacts DEF Step
<1>3. job[w].at \notin Resting
  BY DEF Step, Resting, CheckPass, CheckEntry, Enrol, Invalidate, LookUpOther, CheckFriend,
         CheckRequest, InsertRequest, Befriend, DropRequest, RemoveRequest
<1>4. QED BY <1>1, <1>2, <1>3

LEMMA ClashKept ==
  ASSUME TypeOK, JobInv, ClashInv, [Next]_vars
  PROVE  ClashInv'
<1>1. ASSUME NEW w \in Workers, Request(w) PROVE ClashInv'
  BY <1>1, RequestFacts DEF ClashInv
<1>2. ASSUME NEW w \in Workers, Step(w) PROVE ClashInv'
  BY <1>2, StepMoves, MoveClash
<1>3. CASE Kill
  <2>1. \A v \in Workers : job'[v].op = "none"
    BY <1>3 DEF Kill, Rest
  <2>2. QED BY <2>1 DEF ClashInv, Clashing, Clash
<1>4. CASE UNCHANGED vars
  <2>1. job' = job /\ clashed' = clashed
    BY <1>4 DEF vars
  <2>2. QED BY <2>1 DEF ClashInv, Clashing, Clash
<1>5. QED BY <1>1, <1>2, <1>3, <1>4 DEF Next

\* Without a thread safe library no two requests ever clash: one is taken only
\* when no other is at work.
SerialInv == ~threads => ~clashed

LEMMA SerialKept ==
  ASSUME TypeOK, JobInv, SerialInv, [Next]_vars
  PROVE  SerialInv' /\ threads' = threads
<1>1. ASSUME NEW w \in Workers, Request(w), ~threads PROVE ~clashed'
  <2>1. PICK k \in Job : job' = [job EXCEPT ![w] = k]
    BY <1>1, RequestFacts
  <2>2. \A v \in Workers \ {w} : job'[v] = job[v]
    BY <2>1 DEF TypeOK
  <2>3. \A v \in Workers : job[v].at \in Resting
    BY <1>1, RequestFacts DEF Admitted
  <2>4. \A v \in Workers \ {w} : job'[v].op = "none"
    BY <2>2, <2>3 DEF JobInv
  <2>5. ~Clashing'
    BY <2>4 DEF Clashing, Clash
  <2>6. QED BY <1>1, <2>5, RequestFacts DEF SerialInv
<1>2. ASSUME NEW w \in Workers, Request(w) PROVE SerialInv' /\ threads' = threads
  BY <1>1, <1>2, RequestFacts DEF SerialInv
<1>3. ASSUME NEW w \in Workers, Step(w) PROVE SerialInv' /\ threads' = threads
  BY <1>3, StepMoves DEF SerialInv, Moves
<1>4. CASE Kill
  BY <1>4 DEF Kill, SerialInv
<1>5. CASE UNCHANGED vars
  BY <1>5 DEF vars, SerialInv
<1>6. QED BY <1>2, <1>3, <1>4, <1>5 DEF Next

-----------------------------------------------------------------------------
(* One row per friendship.                                                 *)

\* Worker w is about to make a friendship of p, or a request it may become.
Opening(w, p) ==
  \/ job[w].at = "befriend" /\ p = <<job[w].who, job[w].me>>
  \/ job[w].at \in {"request", "ask"} /\ job[w].op = "send" /\ p = <<job[w].me, job[w].who>>

Closing(w, p) == job[w].at = "drop" /\ p = <<job[w].who, job[w].me>>

\* The pairs that may get another row in friends.
Open(p) ==
  \/ requests[p] > 0 /\ ~\E w \in Workers : Closing(w, p)
  \/ \E w \in Workers : Opening(w, p)

RowInv ==
  ~clashed => \A p \in Pairs : friends[p] <= 1 + faults /\ (Open(p) => friends[p] <= faults)

\* No other request between its two users is at work with an acceptance.
LEMMA AcceptsAlone ==
  ASSUME ClashInv, ~clashed, NEW w \in Workers, NEW v \in Workers \ {w}, JobInv,
         job[w].op = "accept", NEW p \in Pairs, p = <<job[w].who, job[w].me>>
  PROVE  /\ ~Opening(v, p) /\ ~Closing(v, p)
         /\ job[v].op \in {"send", "accept", "decline"} =>
              {job[v].me, job[v].who} # {job[w].me, job[w].who}
<1>1. job[w].who \in Users
  BY DEF Pairs
<1>2. job[w].who # NoUser
  BY <1>1, UsersAssumption
<1>3. job[v].op \in {"send", "accept", "decline"} =>
        {job[v].me, job[v].who} # {job[w].me, job[w].who}
  BY <1>2 DEF ClashInv, Clashing, Clash
<1>4. ~Opening(v, p)
  BY <1>3 DEF Opening, JobInv
<1>5. ~Closing(v, p)
  BY <1>3 DEF Closing, JobInv
<1>6. QED BY <1>3, <1>4, <1>5

\* Worker w goes on as m, after what its statement has done to the tables.
Shape(w, m) ==
    /\ Moves(w, m)
    /\ \/ /\ UNCHANGED tables
          /\ \/ m.at \notin {"request", "ask", "befriend"} /\ job[w].at # "drop"
                /\ faults' \in {faults, faults + 1}
             \/ job[w].at = "who" /\ m.at = "request" /\ m.op # "send"
                /\ faults' \in {faults, faults + 1}
             \/ job[w].at = "friend" /\ m.at = "request" /\ ~ExistFriendly(m.me, m.who)
                /\ m.op = "send" /\ faults' \in {faults, faults + 1}
             \/ job[w].at = "request" /\ m.at = "ask" /\ m.op = "send" /\ faults' = faults
             \/ job[w].at = "request" /\ m.at = "befriend" /\ ExistRequest(m.who, m.me)
                /\ m.op = "accept" /\ faults' = faults
             \/ job[w].at # "who" /\ m.at \in {"befriend", "ok"} /\ faults' = faults + 1
       \/ /\ faults' = faults
          /\ \/ /\ m.at \in {"ok", "error"} /\ job[w].at # "drop"
                /\ AddUser(job[w].who) \/ DelUser(job[w].me)
             \/ /\ m.at \in {"ok", "error"} /\ job[w].at = "ask"
                /\ SendRequest(job[w].me, job[w].who)
             \/ m.at \in {"ok", "error"} /\ DeclineFriendRequest(job[w].who, job[w].me)
             \/ m.at = "drop" /\ job[w].at = "befriend" /\ AddFriends(job[w].who, job[w].me)

\* Every step has such a shape.
LEMMA StepShape ==
  ASSUME TypeOK, JobInv, NEW w \in Workers, Step(w)
  PROVE  \E m \in Job : Shape(w, m)
<1> USE DEF Shape
<1>1. CASE CheckPass(w)
  BY <1>1, CheckPassFacts DEF CheckPass
<1>2. CASE CheckEntry(w)
  BY <1>2, CheckEntryFacts DEF CheckEntry
<1>3. CASE LookUpOther(w)
  <2>1. PICK m \in Job :
         /\ Moves(w, m)
         /\ m.at \in {"error", IF job[w].op = "send" THEN "friend" ELSE "request"}
    BY <1>3, LookUpOtherFacts
  <2>2. m.at = "request" => m.op # "send"
    BY <2>1 DEF Moves, Resting
  <2>3. job[w].at = "who"
    BY <1>3 DEF LookUpOther
  <2>4. UNCHANGED tables /\ faults' \in {faults, faults + 1}
    BY <1>3, LookUpOtherFacts
  <2>5. QED BY <2>1, <2>2, <2>3, <2>4
<1>4. CASE CheckFriend(w)
  <2>1. PICK m \in Job :
         /\ Moves(w, m)
         /\ m.at = "error" \/ (m.at = "request" /\ ~ExistFriendly(m.me, m.who))
    BY <1>4, CheckFriendFacts
  <2>2. job[w].at = "friend" /\ (m.at = "request" => m.op = "send")
    BY <1>4, <2>1 DEF CheckFriend, Moves, JobInv, Resting
  <2>3. UNCHANGED tables /\ faults' \in {faults, faults + 1}
    BY <1>4, CheckFriendFacts
  <2>4. QED BY <2>1, <2>2, <2>3
<1>5. CASE CheckRequest(w)
  <2>1. job[w].at = "request"
    BY <1>5 DEF CheckRequest
  <2>2. QED BY <1>5, <2>1, CheckRequestFacts
<1>6. CASE Enrol(w) \/ Invalidate(w) \/ InsertRequest(w) \/ RemoveRequest(w)
  <2>1. job[w].at # "drop"
    BY <1>6 DEF Enrol, Invalidate, InsertRequest, RemoveRequest
  <2>2. QED BY <1>6, <2>1, LastStatement
<1>7. CASE Befriend(w)
  <2>1. job[w].at = "befriend"
    BY <1>7 DEF Befriend
  <2>2. QED BY <1>7, <2>1, BefriendFacts
<1>8. CASE DropRequest(w)
  BY <1>8, DropRequestFacts DEF DropRequest
<1>9. QED
  BY <1>1, <1>2, <1>3, <1>4, <1>5, <1>6, <1>7, <1>8 DEF Step

\* RowInv is inductive: a row is added only for an open pair, and closes it.
LEMMA RowKept ==
  ASSUME TypeOK, JobInv, ClashInv, RowInv, [Next]_vars
  PROVE  RowInv'
<1>0. /\ job \in [Workers -> Job] /\ faults \in Nat
      /\ friends \in [Pairs -> Nat] /\ requests \in [Pairs -> Nat]
  BY MaxFaultsAssumption DEF TypeOK
<1>a. ASSUME ~clashed, NEW p \in Pairs
      PROVE  friends[p] \in Nat /\ friends[p] <= 1 + faults /\ (Open(p) => friends[p] <= faults)
  BY <1>0, <1>a DEF RowInv
<1>1. ASSUME NEW w \in Workers, Request(w) PROVE RowInv'
  <2>1. PICK k \in Job : job' = [job EXCEPT ![w] = k] /\ k.at \in {"entry", "pass"}
    BY <1>1, RequestFacts
  <2>2. \A v \in Workers : job'[v] = IF v = w THEN k ELSE job[v]
    BY <1>0, <2>1
  <2>3. UNCHANGED <<tables, faults>> /\ job[w].at \in Resting
    BY <1>1, RequestFacts DEF Request, Admitted
  <2>4. \A v \in Workers : job'[v] = job[v]
                          \/ (job[v].at \in Resting /\ job'[v].at \in {"entry", "pass"})
    BY <2>1, <2>2, <2>3
  <2>5. \A p \in Pairs : Open(p)' => Open(p)
    <3>1. requests' = requests
      BY <2>3 DEF tables
    <3>2. QED BY <2>4, <3>1 DEF Open, Closing, Opening, Resting
  <2>6. ~clashed' => ~clashed
    BY <1>1, RequestFacts
  <2>7. QED BY <2>3, <2>5, <2>6 DEF RowInv, tables
<1>2. ASSUME NEW w \in Workers, Step(w) PROVE RowInv'
  <2>1. PICK k \in Job : Moves(w, k)
    BY <1>2, StepMoves
  <2>2. job[w].at \notin Resting
    BY <1>2, StepMoves
  <2>3. SUFFICES ASSUME ~clashed, NEW p \in Pairs
                 PROVE  friends'[p] <= 1 + faults' /\ (Open(p)' => friends'[p] <= faults')
    BY <2>1 DEF RowInv, Moves
  <2>4. PICK m \in Job : Shape(w, m)
    BY <1>2, StepShape
  <2> USE DEF Shape
  <2> DEFINE j == job[w]
           opened == \E v \in Workers \ {w} : Opening(v, p)
           closed == \E v \in Workers \ {w} : Closing(v, p)
  <2>5. /\ job'[w] = m
        /\ Open(p) <=> (requests[p] > 0 /\ ~closed /\ ~Closing(w, p)) \/ opened \/ Opening(w, p)
        /\ Open(p)' <=> (requests'[p] > 0 /\ ~closed /\ ~(Closing(w, p)'))
                          \/ opened \/ Opening(w, p)'
    <3>1. \A v \in Workers : job'[v] = IF v = w THEN m ELSE job[v]
      BY <2>4, OthersStay
    <3>2. \A v \in Workers \ {w} :
            (Opening(v, p)' <=> Opening(v, p)) /\ (Closing(v, p)' <=> Closing(v, p))
      BY <3>1 DEF Opening, Closing
    <3>3. /\ (\E v \in Workers : Opening(v, p)) <=> opened \/ Opening(w, p)
          /\ (\E v \in Workers : Closing(v, p)) <=> closed \/ Closing(w, p)
      OBVIOUS
    <3>4. /\ (\E v \in Workers : Opening(v, p)') <=> opened \/ Opening(w, p)'
          /\ (\E v \in Workers : Closing(v, p)') <=> closed \/ Closing(w, p)'
      BY <3>2
    <3>5. QED BY <3>1, <3>3, <3>4 DEF Open
  <2>a. ~(job[w].op = "accept" /\ p = <<j.who, j.me>> /\ (opened \/ closed))
    BY <2>3, AcceptsAlone
  <2> HIDE DEF opened, closed
  <2>6. /\ Closing(w, p)' <=> m.at = "drop" /\ p = <<m.who, m.me>>
        /\ Opening(w, p)' <=> (\/ m.at = "befriend" /\ p = <<m.who, m.me>>
                               \/ m.at \in {"request", "ask"} /\ m.op = "send" /\ p = <<m.me, m.who>>)
    BY <2>5 DEF Closing, Opening
  <2>7. /\ m.at \in Resting \/ (m.op = j.op /\ m.me = j.me)
        /\ m.at \in Resting \/ m.who = j.who \/ j.at = "who"
    BY <2>4 DEF Moves
  <2>8. friends[p] \in Nat /\ friends[p] <= 1 + faults /\ (Open(p) => friends[p] <= faults)
    BY <1>a, <2>3
  <2>9. CASE UNCHANGED tables /\ faults' = faults /\ (Open(p)' => Open(p))
    BY <2>8, <2>9 DEF tables
  <2>10. CASE UNCHANGED tables /\ faults' = faults + 1
    BY <1>0, <2>8, <2>10 DEF tables
  <2>11. CASE /\ UNCHANGED tables /\ faults' = faults
              /\ \/ m.at \notin {"request", "ask", "befriend"} /\ j.at # "drop"
                 \/ j.at = "who" /\ m.at = "request" /\ m.op # "send"
                 \/ j.at = "friend" /\ m.at = "request" /\ ~ExistFriendly(m.me, m.who)
                    /\ m.op = "send"
                 \/ j.at = "request" /\ m.at = "ask" /\ m.op = "send"
                 \/ j.at = "request" /\ m.at = "befriend" /\ ExistRequest(m.who, m.me)
                    /\ m.op = "accept"
    <3>1. CASE m.at \notin {"request", "ask", "befriend"} /\ j.at # "drop"
      <4>1. ~(Opening(w, p)') /\ ~Closing(w, p)
        BY <2>6, <3>1 DEF Closing
      <4>2. QED BY <2>5, <2>9, <2>11, <4>1 DEF tables
    <3>2. CASE j.at = "who" /\ m.at = "request" /\ m.op # "send"
      <4>1. ~(Opening(w, p)') /\ ~Closing(w, p)
        BY <2>6, <3>2 DEF Closing
      <4>2. QED BY <2>5, <2>9, <2>11, <4>1 DEF tables
    <3>3. CASE j.at = "friend" /\ m.at = "request" /\ ~ExistFriendly(m.me, m.who) /\ m.op = "send"
      <4>1. CASE p = <<m.me, m.who>>
        <5>1. m.me \in Users /\ m.who \in Users
          BY <4>1 DEF Pairs
        <5>2. ~(friends[p] > 0)
          BY <3>3, <4>1, <5>1, UsersAssumption DEF ExistFriendly
        <5>3. friends'[p] = 0
          BY <2>8, <2>11, <5>2 DEF tables
        <5>4. QED BY <1>0, <2>11, <5>3
      <4>2. CASE p # <<m.me, m.who>>
        <5>1. ~(Opening(w, p)') /\ ~Closing(w, p)
          BY <2>6, <3>3, <4>2 DEF Closing
        <5>2. QED BY <2>5, <2>9, <2>11, <5>1 DEF tables
      <4>3. QED BY <4>1, <4>2
    <3>4. CASE j.at = "request" /\ m.at = "ask" /\ m.op = "send"
      <4>1. ~Closing(w, p) /\ (Opening(w, p)' => Opening(w, p))
        BY <2>6, <2>7, <3>4 DEF Closing, Opening, Resting
      <4>2. QED BY <2>5, <2>9, <2>11, <4>1 DEF tables
    <3>5. CASE j.at = "request" /\ m.at = "befriend" /\ ExistRequest(m.who, m.me) /\ m.op = "accept"
      <4>1. ~Closing(w, p) /\ (Opening(w, p)' => requests[p] > 0 /\ ~closed)
        <5>1. m.op = j.op /\ m.me = j.me /\ m.who = j.who
          BY <2>7, <3>5 DEF Resting
        <5>2. p = <<m.who, m.me>> => ~closed
          BY <2>a, <3>5, <5>1
        <5>3. QED BY <2>6, <3>5, <5>2 DEF Closing, ExistRequest
      <4>2. QED BY <2>5, <2>9, <2>11, <4>1 DEF tables
    <3>6. QED BY <2>11, <3>1, <3>2, <3>3, <3>4, <3>5
  <2>12. CASE (AddUser(j.who) \/ DelUser(j.me)) /\ faults' = faults /\ m.at \in {"ok", "error"}
              /\ j.at # "drop"
    <3>1. friends' = friends /\ requests' = requests
      BY <2>12 DEF AddUser, DelUser
    <3>2. ~(Opening(w, p)') /\ ~Closing(w, p)
      BY <2>6, <2>12 DEF Closing
    <3>3. QED BY <2>5, <2>8, <2>12, <3>1, <3>2
  <2>13. CASE SendRequest(j.me, j.who) /\ j.at = "ask" /\ faults' = faults /\ m.at \in {"ok", "error"}
    <3>1. friends' = friends /\ \A q \in Pairs : q # <<j.me, j.who>> => requests'[q] = requests[q]
      BY <1>0, <2>13, RowAdded DEF SendRequest
    <3>2. ~(Opening(w, p)') /\ ~(Closing(w, p)') /\ ~Closing(w, p)
      BY <2>6, <2>13 DEF Closing
    <3>3. p = <<j.me, j.who>> => Opening(w, p)
      BY <2>13 DEF Opening, JobInv
    <3>4. Open(p)' => Open(p)
      BY <2>5, <3>1, <3>2, <3>3
    <3>5. QED BY <2>8, <2>13, <3>1, <3>4
  <2>14. CASE DeclineFriendRequest(j.who, j.me) /\ faults' = faults /\ m.at \in {"ok", "error"}
    <3>1. /\ friends' = friends
          /\ requests'[p] = IF p = <<j.who, j.me>> THEN 0 ELSE requests[p]
      BY <2>14 DEF DeclineFriendRequest
    <3>2. ~(Opening(w, p)') /\ (Closing(w, p) => p = <<j.who, j.me>>)
      BY <2>6, <2>14 DEF Closing
    <3>3. Open(p)' => Open(p)
      BY <1>0, <2>5, <3>1, <3>2
    <3>4. QED BY <2>8, <2>14, <3>1, <3>3
  <2>15. CASE AddFriends(j.who, j.me) /\ j.at = "befriend" /\ m.at = "drop" /\ faults' = faults
    <3>1. CASE p = <<j.who, j.me>>
      <4>1. friends'[p] = friends[p] + 1
        BY <1>0, <2>15, <3>1, RowAdded DEF AddFriends
      <4>2. Opening(w, p)
        BY <2>15, <3>1 DEF Opening
      <4>3. m.who = j.who /\ m.me = j.me
        BY <2>7, <2>15 DEF Resting
      <4>4. Closing(w, p)' /\ ~(Opening(w, p)')
        BY <2>6, <2>15, <3>1, <4>3
      <4>5. ~opened
        BY <2>a, <2>15, <3>1 DEF JobInv
      <4>6. ~(Open(p)')
        BY <2>5, <4>4, <4>5
      <4>7. QED BY <1>0, <2>5, <2>8, <2>15, <4>1, <4>2, <4>6
    <3>2. CASE p # <<j.who, j.me>>
      <4>1. friends'[p] = friends[p] /\ requests' = requests
        BY <1>0, <2>15, <3>2, RowAdded DEF AddFriends
      <4>2. ~(Opening(w, p)') /\ ~Closing(w, p)
        BY <2>6, <2>15 DEF Closing
      <4>3. QED BY <2>5, <2>8, <2>15, <4>1, <4>2
    <3>3. QED BY <3>1, <3>2
  <2>16. QED BY <2>4, <2>10, <2>11, <2>12, <2>13, <2>14, <2>15
<1>3. CASE Kill
  <2>1. SUFFICES ASSUME ~clashed, NEW p \in Pairs
                 PROVE  friends'[p] <= 1 + faults' /\ friends'[p] <= faults'
    BY <1>3 DEF RowInv, Kill
  <2>2. friends'[p] = friends[p] /\ faults' = faults + 1
    BY <1>3 DEF Kill, tables
  <2>3. QED BY <1>0, <1>a, <2>1, <2>2
<1>4. CASE UNCHANGED vars
  <2>1. \A p \in Pairs : Open(p)' <=> Open(p)
    BY <1>4 DEF vars, Open, Opening, Closing
  <2>2. QED BY <1>4, <2>1 DEF vars, RowInv
<1>5. QED BY <1>1, <1>2, <1>3, <1>4 DEF Next

\* Worker w is about to make a friendship of p, or a request.
Befriending(w, p) == job[w].at = "befriend" /\ p = <<job[w].who, job[w].me>>

Sending(w, p) ==
  job[w].at \in {"request", "ask"} /\ job[w].op = "send" /\ p = <<job[w].me, job[w].who>>

\* The pairs that can get another row in friends without a new request.
Ready(p) ==
  \/ requests[p] > 0 /\ ~\E w \in Workers : Closing(w, p)
  \/ \E w \in Workers : Befriending(w, p)

Rows(a, b) == friends[<<a, b>>] + friends[<<b, a>>]

Spare(a, b) == faults + IF {a, b} \in crossed THEN 1 ELSE 0

\* The rows of two users and those to come: each direction that is ready leaves
\* room for its row, and nobody sends a request to a friend.
Bound(a, b) ==
  /\ Rows(a, b) <= 1 + Spare(a, b)
  /\ Ready(<<a, b>>) \/ Ready(<<b, a>>) => Rows(a, b) <= Spare(a, b)
  /\ Ready(<<a, b>>) /\ Ready(<<b, a>>) => Rows(a, b) < Spare(a, b)
  /\ \A w \in Workers : Sending(w, <<a, b>>) \/ Sending(w, <<b, a>>) => Rows(a, b) = 0

PairInv == ~clashed => \A a, b \in Users : a # b => Bound(a, b)

LEMMA SpareIs ==
  ASSUME NEW a, NEW b
  PROVE  /\ {a, b} \in crossed => Spare(a, b) = faults + 1
         /\ {a, b} \notin crossed => Spare(a, b) = faults + 0
         /\ {a, b} \in crossed' => Spare(a, b)' = faults' + 1
         /\ {a, b} \notin crossed' => Spare(a, b)' = faults' + 0
<1> DEFINE s == {a, b}
<1>1. Spare(a, b) = faults + (IF s \in crossed THEN 1 ELSE 0)
  BY DEF Spare
<1>2. Spare(a, b)' = faults' + (IF s \in crossed' THEN 1 ELSE 0)
  BY DEF Spare
<1> HIDE DEF s
<1>3. /\ s \in crossed => Spare(a, b) = faults + 1
      /\ s \notin crossed => Spare(a, b) = faults + 0
  BY <1>1
<1>4. /\ s \in crossed' => Spare(a, b)' = faults' + 1
      /\ s \notin crossed' => Spare(a, b)' = faults' + 0
  BY <1>2
<1>5. QED BY <1>3, <1>4 DEF s

LEMMA SpareNat ==
  ASSUME NEW a, NEW b
  PROVE  /\ faults \in Nat => Spare(a, b) \in Nat
         /\ faults' \in Nat => Spare(a, b)' \in Nat
<1>1. Spare(a, b) = faults + 1 \/ Spare(a, b) = faults + 0
  BY SpareIs
<1>2. Spare(a, b)' = faults' + 1 \/ Spare(a, b)' = faults' + 0
  BY SpareIs
<1>3. QED BY <1>1, <1>2

LEMMA BoundNumbers ==
  ASSUME TypeOK, NEW a \in Users, NEW b \in Users
  PROVE  /\ Rows(a, b) \in Nat /\ Spare(a, b) \in Nat /\ faults \in Nat
         /\ <<a, b>> \in Pairs /\ <<b, a>> \in Pairs
         /\ friends[<<a, b>>] \in Nat /\ friends[<<b, a>>] \in Nat
<1>1. faults \in Nat /\ friends \in [Pairs -> Nat]
  BY MaxFaultsAssumption DEF TypeOK
<1>2. <<a, b>> \in Pairs /\ <<b, a>> \in Pairs
  BY DEF Pairs
<1>3. Rows(a, b) \in Nat
  BY <1>1, <1>2 DEF Rows
<1>4. Spare(a, b) \in Nat
  BY <1>1, SpareNat
<1>5. QED BY <1>1, <1>2, <1>3, <1>4

\* The bound does not depend on who is named first.
LEMMA BoundTurnedNext ==
  ASSUME TypeOK', NEW a \in Users, NEW b \in Users, Bound(b, a)'
  PROVE  Bound(a, b)'
<1>1. friends' \in [Pairs -> Nat] /\ <<a, b>> \in Pairs /\ <<b, a>> \in Pairs
  BY DEF TypeOK, Pairs
<1>2. Rows(a, b)' = Rows(b, a)'
  BY <1>1 DEF Rows
<1>3. {a, b} = {b, a}
  OBVIOUS
<1>4. Spare(a, b)' = Spare(b, a)'
  BY <1>3 DEF Spare
<1>5. QED BY <1>2, <1>4 DEF Bound

\* The bound stays when no row is added and nobody new sends, if nothing new is
\* ready, or one direction is at the price of a fault.
LEMMA BoundStays ==
  ASSUME TypeOK, TypeOK', NEW a \in Users, NEW b \in Users, Bound(a, b),
         friends' = friends, crossed \subseteq crossed',
         \A w \in Workers : \A p \in {<<a, b>>, <<b, a>>} :
           Sending(w, p)' => Sending(w, p) \/ Rows(a, b) = 0,
         \/ faults' \in {faults, faults + 1} /\ \A p \in {<<a, b>>, <<b, a>>} : Ready(p)' => Ready(p)
         \/ faults' = faults + 1 /\ \E p \in {<<a, b>>, <<b, a>>} : Ready(p)' => Ready(p)
  PROVE  Bound(a, b)'
<1>1. Rows(a, b)' = Rows(a, b)
  BY DEF Rows
<1>2. /\ Rows(a, b) \in Nat /\ Spare(a, b) \in Nat /\ Spare(a, b)' \in Nat
      /\ faults \in Nat /\ faults' \in Nat
  <2>1. faults \in Nat /\ faults' \in Nat
    BY MaxFaultsAssumption DEF TypeOK
  <2>2. Spare(a, b)' \in Nat
    BY <2>1, SpareNat
  <2>3. QED BY <2>1, <2>2, BoundNumbers
<1>3. /\ faults' \in {faults, faults + 1} => Spare(a, b)' >= Spare(a, b)
      /\ faults' = faults + 1 => Spare(a, b)' >= Spare(a, b) + 1
  <2>1. {a, b} \in crossed => {a, b} \in crossed'
    OBVIOUS
  <2>2. QED BY <1>2, <2>1, SpareIs
<1>4. \A w \in Workers : (Sending(w, <<a, b>>) \/ Sending(w, <<b, a>>))' => Rows(a, b) = 0
  BY DEF Bound
<1>5. /\ Rows(a, b) <= 1 + Spare(a, b)
      /\ Ready(<<a, b>>) \/ Ready(<<b, a>>) => Rows(a, b) <= Spare(a, b)
      /\ Ready(<<a, b>>) /\ Ready(<<b, a>>) => Rows(a, b) < Spare(a, b)
  BY DEF Bound
<1>6. CASE faults' \in {faults, faults + 1} /\ \A p \in {<<a, b>>, <<b, a>>} : Ready(p)' => Ready(p)
  <2>1. (Ready(<<a, b>>)' => Ready(<<a, b>>)) /\ (Ready(<<b, a>>)' => Ready(<<b, a>>))
    BY <1>6
  <2>2. QED BY <1>1, <1>2, <1>3, <1>4, <1>5, <1>6, <2>1 DEF Bound
<1>7. CASE faults' = faults + 1 /\ \E p \in {<<a, b>>, <<b, a>>} : Ready(p)' => Ready(p)
  <2>1. (Ready(<<a, b>>)' => Ready(<<a, b>>)) \/ (Ready(<<b, a>>)' => Ready(<<b, a>>))
    BY <1>7
  <2>2. QED BY <1>1, <1>2, <1>3, <1>4, <1>5, <1>7, <2>1 DEF Bound
<1>8. QED BY <1>6, <1>7

\* How a pair becomes ready, or a request on its way.
LEMMA BecomesReady ==
  ASSUME TypeOK, NEW w \in Workers, NEW m \in Job, Moves(w, m), NEW p \in Pairs
  PROVE  /\ Ready(p)' /\ ~Ready(p) =>
              \/ requests[p] = 0 /\ requests'[p] > 0
              \/ Closing(w, p) /\ requests'[p] > 0
              \/ m.at = "befriend" /\ p = <<m.who, m.me>>
         /\ \A v \in Workers :
              Sending(v, p)' => \/ Sending(v, p)
                                \/ m.at \in {"request", "ask"} /\ m.op = "send" /\ p = <<m.me, m.who>>
<1>1. \A v \in Workers : job'[v] = IF v = w THEN m ELSE job[v]
  BY OthersStay
<1>2. requests[p] \in Nat
  BY DEF TypeOK
<1>3. ASSUME Ready(p)', ~Ready(p), requests[p] # 0, ~(m.at = "befriend" /\ p = <<m.who, m.me>>)
      PROVE  Closing(w, p) /\ requests'[p] > 0
  <2>1. \A v \in Workers : ~(Befriending(v, p)')
    BY <1>1, <1>3 DEF Befriending, Ready
  <2>2. requests'[p] > 0 /\ \A v \in Workers : ~(Closing(v, p)')
    BY <1>3, <2>1 DEF Ready
  <2>3. PICK v \in Workers : Closing(v, p)
    BY <1>2, <1>3 DEF Ready
  <2>4. v = w
    BY <1>1, <2>2, <2>3 DEF Closing
  <2>5. QED BY <2>2, <2>3, <2>4
<1>4. ASSUME Ready(p)', ~Ready(p), requests[p] = 0, ~(m.at = "befriend" /\ p = <<m.who, m.me>>)
      PROVE  requests'[p] > 0
  <2>1. \A v \in Workers : ~(Befriending(v, p)')
    BY <1>1, <1>4 DEF Befriending, Ready
  <2>2. QED BY <1>4, <2>1 DEF Ready
<1>5. \A v \in Workers :
        Sending(v, p)' => \/ Sending(v, p)
                          \/ m.at \in {"request", "ask"} /\ m.op = "send" /\ p = <<m.me, m.who>>
  BY <1>1 DEF Sending
<1>6. QED BY <1>3, <1>4, <1>5

\* At most one of the workers at work for two users is about to insert their
\* friendship, or has inserted it, and nobody sends a request between them then.
LEMMA AcceptsAlonePair ==
  ASSUME TypeOK, JobInv, ClashInv, ~clashed, NEW a \in Users, NEW b \in Users,
         NEW w \in Workers, job[w].op = "accept", {job[w].who, job[w].me} = {a, b}
  PROVE  \A v \in Workers \ {w} : \A p \in {<<a, b>>, <<b, a>>} :
           ~Closing(v, p) /\ ~Befriending(v, p) /\ ~Sending(v, p)
<1>1. SUFFICES ASSUME NEW v \in Workers \ {w}, NEW p \in {<<a, b>>, <<b, a>>},
                      Closing(v, p) \/ Befriending(v, p) \/ Sending(v, p)
               PROVE  FALSE
  OBVIOUS
<1>2. job[w].who # NoUser
  BY UsersAssumption
<1>3. job[v].op \in {"send", "accept", "decline"}
  BY <1>1 DEF Closing, Befriending, Sending, JobInv
<1>4. {job[v].me, job[v].who} = {a, b}
  BY <1>1 DEF Closing, Befriending, Sending
<1>5. Clash(job[w], job[v])
  BY <1>2, <1>3, <1>4 DEF Clash
<1>6. QED BY <1>5 DEF ClashInv, Clashing

\* A request from a to b is inserted: they are no friends, and nobody accepts.
LEMMA BoundAsked ==
  ASSUME TypeOK, JobInv, ClashInv, ~clashed, NEW a \in Users, NEW b \in Users, a # b, Bound(a, b),
         TypeOK', NEW w \in Workers, NEW m \in Job, Moves(w, m), m.at \in {"ok", "error"},
         job[w].at = "ask", job[w].me = a, job[w].who = b, SendRequest(a, b), faults' = faults
  PROVE  Bound(a, b)'
<1>1. \A v \in Workers : job'[v] = IF v = w THEN m ELSE job[v]
  BY OthersStay
<1>2. job[w].op = "send"
  BY DEF JobInv
<1>3. Sending(w, <<a, b>>)
  BY <1>2 DEF Sending
<1>4. Rows(a, b) = 0 /\ Rows(a, b)' = 0
  <2>1. friends' = friends
    BY DEF SendRequest
  <2>2. QED BY <1>3, <2>1 DEF Bound, Rows
<1>5. \A v \in Workers : ~(Befriending(v, <<b, a>>)')
  <2>1. SUFFICES ASSUME NEW v \in Workers, Befriending(v, <<b, a>>)' PROVE FALSE
    OBVIOUS
  <2>2. v # w /\ Befriending(v, <<b, a>>)
    BY <1>1, <2>1 DEF Befriending
  <2>3. job[v].op = "accept" /\ {job[v].who, job[v].me} = {a, b}
    BY <2>2 DEF Befriending, JobInv
  <2>4. ~Sending(w, <<a, b>>)
    BY <2>2, <2>3, AcceptsAlonePair
  <2>5. QED BY <1>3, <2>4
<1>6. Ready(<<b, a>>)' => {a, b} \in crossed'
  <2>1. SUFFICES ASSUME Ready(<<b, a>>)' PROVE {a, b} \in crossed'
    OBVIOUS
  <2>2. requests'[<<b, a>>] > 0
    BY <1>5, <2>1 DEF Ready
  <2>3. requests \in [Pairs -> Nat] /\ <<a, b>> \in Pairs /\ <<b, a>> \in Pairs /\ <<a, b>> # <<b, a>>
    BY DEF TypeOK, Pairs
  <2>4. requests'[<<b, a>>] = requests[<<b, a>>]
    BY <2>3 DEF SendRequest
  <2>5. QED BY <2>2, <2>4 DEF SendRequest
<1>7. faults' \in Nat /\ Spare(a, b)' \in Nat /\ (Ready(<<b, a>>)' => Spare(a, b)' >= 1)
  <2>1. faults' \in Nat
    BY MaxFaultsAssumption DEF TypeOK
  <2>2. Spare(a, b)' \in Nat
    BY <2>1, SpareNat
  <2>a. {a, b} \in crossed' => Spare(a, b)' = faults' + 1
    BY SpareIs
  <2>3. QED BY <1>6, <2>1, <2>2, <2>a
<1>8. QED BY <1>4, <1>7 DEF Bound

\* A friendship of a, who asked, with b is inserted: it was ready and is no more.
LEMMA BoundBefriended ==
  ASSUME TypeOK, JobInv, ClashInv, ~clashed, NEW a \in Users, NEW b \in Users, a # b, Bound(a, b),
         TypeOK', NEW w \in Workers, NEW m \in Job, Moves(w, m), m.at = "drop",
         job[w].at = "befriend", job[w].who = a, job[w].me = b, AddFriends(a, b), faults' = faults
  PROVE  Bound(a, b)'
<1>1. \A v \in Workers : job'[v] = IF v = w THEN m ELSE job[v]
  BY OthersStay
<1>2. m.who = a /\ m.me = b /\ job[w].op = "accept"
  BY DEF Moves, Resting, JobInv
<1>3. \A v \in Workers \ {w} : \A p \in {<<a, b>>, <<b, a>>} :
        ~Closing(v, p) /\ ~Befriending(v, p) /\ ~Sending(v, p)
  BY <1>2, AcceptsAlonePair
<1>4. \A v \in Workers : \A p \in {<<a, b>>, <<b, a>>} : ~(Sending(v, p)') /\ ~(Befriending(v, p)')
  BY <1>1, <1>3 DEF Sending, Befriending
<1>5. Closing(w, <<a, b>>)'
  BY <1>1, <1>2 DEF Closing
<1>6. Ready(<<a, b>>) /\ ~(Ready(<<a, b>>)')
  BY <1>4, <1>5 DEF Ready, Befriending
<1>7. Ready(<<b, a>>)' => Ready(<<b, a>>)
  <2>1. requests' = requests
    BY DEF AddFriends
  <2>2. \A v \in Workers : ~Closing(v, <<b, a>>)
    BY <1>3 DEF Closing
  <2>3. QED BY <1>4, <2>1, <2>2 DEF Ready
<1>8. /\ Rows(a, b) \in Nat /\ Spare(a, b) \in Nat /\ Rows(a, b)' = Rows(a, b) + 1
      /\ Spare(a, b)' = Spare(a, b)
  <2>1. friends \in [Pairs -> Nat] /\ <<a, b>> \in Pairs /\ <<b, a>> \in Pairs /\ <<a, b>> # <<b, a>>
    BY DEF TypeOK, Pairs
  <2>2. friends' = [friends EXCEPT ![<<a, b>>] = @ + 1] /\ crossed' = crossed
    BY DEF AddFriends
  <2>3. friends'[<<a, b>>] = friends[<<a, b>>] + 1 /\ friends'[<<b, a>>] = friends[<<b, a>>]
    BY <2>1, <2>2
  <2>4. Rows(a, b)' = Rows(a, b) + 1
    BY <2>1, <2>3, BoundNumbers DEF Rows
  <2>5. QED BY <2>2, <2>4, BoundNumbers DEF Spare
<1>9. QED BY <1>4, <1>6, <1>7, <1>8 DEF Bound

\* PairInv is inductive: a direction becomes ready when it is asked for, which
\* the other one only survives by crossing, or at the price of a fault.
LEMMA PairKept ==
  ASSUME TypeOK, JobInv, ClashInv, PairInv, TypeOK', [Next]_vars
  PROVE  PairInv'
<1>0. job \in [Workers -> Job] /\ faults \in Nat
  BY MaxFaultsAssumption DEF TypeOK
<1>1. ASSUME NEW w \in Workers, Request(w) PROVE PairInv'
  <2>1. PICK k \in Job : job' = [job EXCEPT ![w] = k] /\ k.at \in {"entry", "pass"}
    BY <1>1, RequestFacts
  <2>2. \A v \in Workers : job'[v] = IF v = w THEN k ELSE job[v]
    BY <1>0, <2>1
  <2>3. UNCHANGED <<tables, faults>> /\ job[w].at \in Resting
    BY <1>1, RequestFacts DEF Request, Admitted
  <2>4. \A v \in Workers : job'[v] = job[v]
                          \/ (job[v].at \in Resting /\ job'[v].at \in {"entry", "pass"})
    BY <2>1, <2>2, <2>3
  <2>5. \A p : (Ready(p)' => Ready(p)) /\ \A v \in Workers : Sending(v, p)' => Sending(v, p)
    <3>1. requests' = requests
      BY <2>3 DEF tables
    <3>2. QED BY <2>4, <3>1 DEF Ready, Closing, Befriending, Sending, Resting
  <2>6. ~clashed' => ~clashed
    BY <1>1, RequestFacts
  <2>7. friends' = friends /\ crossed' = crossed /\ faults' = faults
    BY <2>3 DEF tables
  <2>8. SUFFICES ASSUME ~clashed, NEW a \in Users, NEW b \in Users, a # b PROVE Bound(a, b)'
    BY <2>6 DEF PairInv
  <2>9. Bound(a, b)
    BY <2>8 DEF PairInv
  <2>10. QED BY <2>5, <2>7, <2>9, BoundStays
<1>2. ASSUME NEW w \in Workers, Step(w) PROVE PairInv'
  <2>1. PICK m \in Job : Shape(w, m)
    BY <1>2, StepShape
  <2>2. Moves(w, m)
    BY <2>1 DEF Shape
  <2>3. SUFFICES ASSUME ~clashed, NEW a \in Users, NEW b \in Users, a # b PROVE Bound(a, b)'
    BY <2>2 DEF PairInv, Moves
  <2> DEFINE j == job[w]
             p == <<a, b>>
             q == <<b, a>>
  <2>4. Bound(a, b) /\ Bound(b, a)
    BY <2>3 DEF PairInv
  <2>5. p \in Pairs /\ q \in Pairs /\ p # q
    BY <2>3 DEF Pairs
  <2>6. /\ m.at \in Resting \/ (m.op = j.op /\ m.me = j.me)
        /\ m.at \in Resting \/ m.who = j.who \/ j.at = "who"
    BY <2>2 DEF Moves
  <2>7. \A x \in {p, q} :
          /\ Ready(x)' /\ ~Ready(x) => \/ requests[x] = 0 /\ requests'[x] > 0
                                       \/ Closing(w, x) /\ requests'[x] > 0
                                       \/ m.at = "befriend" /\ x = <<m.who, m.me>>
          /\ \A v \in Workers :
               Sending(v, x)' => \/ Sending(v, x)
                                 \/ m.at \in {"request", "ask"} /\ m.op = "send" /\ x = <<m.me, m.who>>
    BY <2>2, <2>5, BecomesReady
  <2>8. \A x \in {p, q} : requests[x] \in Nat /\ (Closing(w, x) <=> j.at = "drop" /\ x = <<j.who, j.me>>)
    BY <2>5 DEF TypeOK, Closing
  <2>9. ASSUME UNCHANGED tables,
               \/ /\ m.at \notin {"request", "ask", "befriend"} /\ j.at # "drop"
                  /\ faults' \in {faults, faults + 1}
               \/ j.at = "who" /\ m.at = "request" /\ m.op # "send" /\ faults' \in {faults, faults + 1}
               \/ j.at = "friend" /\ m.at = "request" /\ ~ExistFriendly(m.me, m.who)
                  /\ m.op = "send" /\ faults' \in {faults, faults + 1}
               \/ j.at = "request" /\ m.at = "ask" /\ m.op = "send" /\ faults' = faults
               \/ j.at = "request" /\ m.at = "befriend" /\ ExistRequest(m.who, m.me)
                  /\ m.op = "accept" /\ faults' = faults
        PROVE  Bound(a, b)'
    <3>1. requests' = requests /\ friends' = friends /\ crossed \subseteq crossed'
          /\ faults' \in {faults, faults + 1}
      BY <2>9 DEF tables
    <3>2. ASSUME NEW x \in {p, q} PROVE Ready(x)' => Ready(x)
      <4>1. CASE m.at # "befriend" /\ j.at # "drop"
        BY <2>7, <2>8, <3>1, <4>1
      <4>2. CASE j.at = "request" /\ m.at = "befriend" /\ ExistRequest(m.who, m.me) /\ m.op = "accept"
        <5>1. m.op = j.op /\ m.me = j.me /\ m.who = j.who
          BY <2>6, <4>2 DEF Resting
        <5>2. x = <<m.who, m.me>> => Ready(x)
          <6>1. SUFFICES ASSUME x = <<m.who, m.me>> PROVE Ready(x)
            OBVIOUS
          <6>2. {j.who, j.me} = {a, b}
            BY <5>1, <6>1
          <6>3. \A v \in Workers \ {w} : ~Closing(v, x)
            BY <2>3, <4>2, <5>1, <6>2, AcceptsAlonePair
          <6>4. ~Closing(w, x)
            BY <4>2 DEF Closing
          <6>5. requests[x] > 0
            BY <4>2, <6>1 DEF ExistRequest
          <6>6. QED BY <6>3, <6>4, <6>5 DEF Ready
        <5>3. QED BY <2>7, <2>8, <3>1, <4>2, <5>2
      <4>3. QED BY <2>9, <4>1, <4>2
    <3>3. ASSUME NEW v \in Workers, NEW x \in {p, q}
          PROVE  Sending(v, x)' => Sending(v, x) \/ Rows(a, b) = 0
      <4>1. CASE ~(m.at \in {"request", "ask"} /\ m.op = "send" /\ x = <<m.me, m.who>>)
        BY <2>7, <4>1
      <4>2. CASE j.at = "friend" /\ ~ExistFriendly(m.me, m.who) /\ x = <<m.me, m.who>>
        <5>1. NoUser \notin {m.me, m.who}
          BY <2>5, <4>2, UsersAssumption DEF Pairs
        <5>2. ~(friends[p] > 0) /\ ~(friends[q] > 0)
          BY <4>2, <5>1 DEF ExistFriendly
        <5>3. Rows(a, b) = 0
          BY <5>2, BoundNumbers DEF Rows
        <5>4. QED BY <5>3
      <4>3. CASE j.at = "request" /\ m.at = "ask" /\ m.op = "send" /\ x = <<m.me, m.who>>
        <5>1. Sending(w, x)
          BY <2>6, <4>3 DEF Sending, Resting
        <5>2. Rows(a, b) = 0
          BY <2>4, <5>1 DEF Bound
        <5>3. QED BY <5>2
      <4>4. QED BY <2>9, <4>1, <4>2, <4>3
    <3>4. QED BY <2>4, <3>1, <3>2, <3>3, BoundStays
  <2>10. CASE UNCHANGED tables /\ j.at # "who" /\ m.at \in {"befriend", "ok"} /\ faults' = faults + 1
    <3>1. requests' = requests /\ friends' = friends /\ crossed \subseteq crossed'
      BY <2>10 DEF tables
    <3>2. (Ready(p)' => Ready(p)) \/ (Ready(q)' => Ready(q))
      <4>1. ASSUME NEW x \in {p, q}, x # <<j.who, j.me>> PROVE Ready(x)' => Ready(x)
        <5>1. ~Closing(w, x) /\ ~(m.at = "befriend" /\ j.at # "who" /\ x = <<m.who, m.me>>)
          BY <2>6, <4>1 DEF Closing, Resting
        <5>2. QED BY <2>7, <2>8, <2>10, <3>1, <5>1
      <4>2. p # <<j.who, j.me>> \/ q # <<j.who, j.me>>
        BY <2>5
      <4>3. QED BY <4>1, <4>2
    <3>3. \A v \in Workers : \A x \in {p, q} : Sending(v, x)' => Sending(v, x)
      BY <2>7, <2>10
    <3>4. QED BY <2>4, <2>10, <3>1, <3>2, <3>3, BoundStays
  <2>11. CASE /\ faults' = faults /\ m.at \in {"ok", "error"}
              /\ \/ j.at # "drop" /\ (AddUser(j.who) \/ DelUser(j.me))
                 \/ DeclineFriendRequest(j.who, j.me)
                 \/ j.at = "ask" /\ SendRequest(j.me, j.who) /\ {j.me, j.who} # {a, b}
    <3>1. friends' = friends /\ crossed \subseteq crossed'
      BY <2>11 DEF AddUser, DelUser, DeclineFriendRequest, SendRequest
    <3>2. ASSUME NEW x \in {p, q} PROVE Ready(x)' => Ready(x)
      <4>1. CASE j.at # "drop" /\ requests' = requests
        BY <2>7, <2>8, <2>11, <4>1
      <4>2. CASE DeclineFriendRequest(j.who, j.me)
        <5>1. requests'[x] = IF x = <<j.who, j.me>> THEN 0 ELSE requests[x]
          BY <2>5, <4>2 DEF DeclineFriendRequest
        <5>2. QED BY <2>7, <2>8, <2>11, <5>1
      <4>3. CASE j.at = "ask" /\ SendRequest(j.me, j.who) /\ {j.me, j.who} # {a, b}
        <5>1. x # <<j.me, j.who>>
          BY <4>3
        <5>2. requests'[x] = requests[x]
          BY <2>5, <4>3, <5>1 DEF SendRequest, TypeOK
        <5>3. QED BY <2>7, <2>8, <2>11, <4>3, <5>2
      <4>4. QED BY <2>11, <4>1, <4>2, <4>3 DEF AddUser, DelUser
    <3>3. \A v \in Workers : \A x \in {p, q} : Sending(v, x)' => Sending(v, x)
      BY <2>7, <2>11
    <3>4. QED BY <2>4, <2>11, <3>1, <3>2, <3>3, BoundStays
  <2>12. CASE /\ faults' = faults /\ m.at \in {"ok", "error"} /\ j.at = "ask"
              /\ SendRequest(j.me, j.who) /\ {j.me, j.who} = {a, b}
    <3>1. (j.me = a /\ j.who = b) \/ (j.me = b /\ j.who = a)
      <4>1. j.me # j.who
        BY <2>3, <2>12
      <4>2. QED BY <2>12, <4>1
    <3>2. CASE j.me = a /\ j.who = b
      BY <2>2, <2>3, <2>4, <2>12, <3>2, BoundAsked
    <3>3. CASE j.me = b /\ j.who = a
      <4>1. Bound(b, a)'
        BY <2>2, <2>3, <2>4, <2>12, <3>3, BoundAsked
      <4>2. QED BY <4>1, BoundTurnedNext
    <3>4. QED BY <3>1, <3>2, <3>3
  <2>13. CASE faults' = faults /\ m.at = "drop" /\ j.at = "befriend" /\ AddFriends(j.who, j.me)
    <3>1. CASE j.who = a /\ j.me = b
      BY <2>2, <2>3, <2>4, <2>13, <3>1, BoundBefriended
    <3>2. CASE j.who = b /\ j.me = a
      <4>1. Bound(b, a)'
        BY <2>2, <2>3, <2>4, <2>13, <3>2, BoundBefriended
      <4>2. QED BY <4>1, BoundTurnedNext
    <3>3. CASE <<j.who, j.me>> \notin {p, q}
      <4>1. requests' = requests /\ crossed' = crossed
        BY <2>13 DEF AddFriends
      <4>2. friends'[p] = friends[p] /\ friends'[q] = friends[q]
        BY <2>5, <2>13, <3>3 DEF AddFriends, TypeOK
      <4>3. \A x \in {p, q} : Ready(x)' => Ready(x)
        BY <2>7, <2>8, <2>13, <4>1
      <4>4. \A v \in Workers : \A x \in {p, q} : Sending(v, x)' => Sending(v, x)
        BY <2>7, <2>13
      <4>5. Rows(a, b)' = Rows(a, b) /\ Spare(a, b)' = Spare(a, b)
        BY <2>13, <4>1, <4>2 DEF Rows, Spare
      <4>6. QED BY <2>4, <4>3, <4>4, <4>5 DEF Bound
    <3>4. QED BY <3>1, <3>2, <3>3
  <2>14. QED BY <2>1, <2>9, <2>10, <2>11, <2>12, <2>13 DEF Shape
<1>3. CASE Kill
  <2>1. SUFFICES ASSUME ~clashed, NEW a \in Users, NEW b \in Users, a # b PROVE Bound(a, b)'
    BY <1>3 DEF PairInv, Kill
  <2>2. Bound(a, b)
    BY <2>1 DEF PairInv
  <2>3. friends' = friends /\ crossed' = crossed /\ requests' = requests /\ faults' = faults + 1
    BY <1>3 DEF Kill, tables
  <2>4. \A v \in Workers : job'[v].at = "idle"
    BY <1>3 DEF Kill, Rest
  <2>5. \A v \in Workers : \A x : ~(Sending(v, x)') /\ ~(Befriending(v, x)')
    BY <2>4 DEF Sending, Befriending
  <2>6. (Ready(<<a, b>>)' => Ready(<<a, b>>)) \/ (Ready(<<b, a>>)' => Ready(<<b, a>>))
    <3>1. \A x : Ready(x)' => requests[x] > 0
      BY <2>3, <2>5 DEF Ready
    <3>2. CASE \E v, u \in Workers : Closing(v, <<a, b>>) /\ Closing(u, <<b, a>>)
      <4>1. PICK v, u \in Workers : Closing(v, <<a, b>>) /\ Closing(u, <<b, a>>)
        BY <3>2
      <4>2. v # u
        BY <2>1, <4>1 DEF Closing
      <4>3. job[v].op = "accept" /\ {job[v].who, job[v].me} = {a, b}
        BY <4>1 DEF Closing, JobInv
      <4>4. QED BY <2>1, <4>1, <4>2, <4>3, AcceptsAlonePair
    <3>3. CASE ~\E v, u \in Workers : Closing(v, <<a, b>>) /\ Closing(u, <<b, a>>)
      BY <3>1, <3>3 DEF Ready
    <3>4. QED BY <3>2, <3>3
  <2>7. QED BY <2>2, <2>3, <2>5, <2>6, BoundStays
<1>4. CASE UNCHANGED vars
  <2>1. SUFFICES ASSUME ~clashed, NEW a \in Users, NEW b \in Users, a # b PROVE Bound(a, b)'
    BY <1>4 DEF PairInv, vars
  <2>2. Bound(a, b)
    BY <2>1 DEF PairInv
  <2>3. QED BY <1>4, <2>2 DEF vars, Bound, Rows, Spare, Ready, Sending, Closing, Befriending
<1>5. QED BY <1>1, <1>2, <1>3, <1>4 DEF Next

LEMMA StartsApart ==
  ASSUME Init
  PROVE  SerialInv /\ ClashInv /\ RowInv /\ PairInv
<1>1. \A w \in Workers : job[w].op = "none" /\ job[w].at = "idle"
  BY DEF Init, Rest
<1>2. ClashInv
  BY <1>1 DEF ClashInv, Clashing, Clash
<1>3. SerialInv /\ RowInv
  BY DEF Init, SerialInv, RowInv
<1>4. PairInv
  <2>1. SUFFICES ASSUME NEW a \in Users, NEW b \in Users PROVE Bound(a, b)
    BY DEF PairInv
  <2>2. <<a, b>> \in Pairs /\ <<b, a>> \in Pairs
    BY DEF Pairs
  <2>3. Rows(a, b) = 0 /\ Spare(a, b) = 0
    BY <2>2 DEF Rows, Spare, Init
  <2>4. requests[<<a, b>>] = 0 /\ requests[<<b, a>>] = 0
    BY <2>2 DEF Init
  <2>5. ~Ready(<<a, b>>) /\ ~Ready(<<b, a>>)
    BY <1>1, <2>4 DEF Ready, Befriending
  <2>6. QED BY <2>3, <2>5 DEF Bound
<1>5. QED BY <1>2, <1>3, <1>4

\* While requests keep apart, two users whose requests have not crossed have one
\* row, and crossed requests two, one in each direction; each failed or
\* interrupted statement adds one at most.
THEOREM RowsOfFriends == Spec => []OneRowUnlessCrossed
<1> DEFINE IInv == TypeOK /\ JobInv /\ SerialInv /\ ClashInv /\ RowInv /\ PairInv
<1>1. Init => IInv
  BY InitTyped, StartsApart
<1>2. IInv /\ [Next]_vars => IInv'
  BY NextTyped, SerialKept, ClashKept, RowKept, PairKept
<1>3. IInv => OneRowUnlessCrossed
  <2>1. SUFFICES ASSUME IInv, Apart, NEW a \in Users, NEW b \in Users
                 PROVE  /\ friends[<<a, b>>] <= 1 + faults
                        /\ a # b => friends[<<a, b>>] + friends[<<b, a>>]
                                      <= faults + IF {a, b} \in crossed THEN 2 ELSE 1
    BY DEF OneRowUnlessCrossed
  <2>2. ~clashed
    BY <2>1 DEF SerialInv, Apart
  <2>3. friends[<<a, b>>] <= 1 + faults
    BY <2>1, <2>2, BoundNumbers DEF RowInv
  <2>4. a # b => Rows(a, b) <= 1 + Spare(a, b)
    BY <2>1, <2>2 DEF PairInv, Bound
  <2>5. QED BY <2>1, <2>3, <2>4, BoundNumbers DEF Rows, Spare
<1>4. QED BY <1>1, <1>2, <1>3, PTL DEF Spec

-----------------------------------------------------------------------------
(* The handlers implement FriendshipAtomic.                                *)

\* What a worker has read is still so, until two requests clash or a statement
\* fails.  Other requests at work may send the same request, or decline it.
FreshJob(j) ==
  /\ j.at \notin Resting /\ j.op \in {"send", "accept", "decline"} => account[j.me] = "valid"
  /\ j.at \notin Resting /\ j.op = "unregister" => account[j.me] # "none"
  /\ j.at \in {"friend", "request", "ask", "befriend", "remove", "drop"} =>
       j.who = NoUser \/ account[j.who] = "valid"
  /\ j.at \in {"friend", "request", "ask"} /\ j.op = "send" => j.who # j.me
  /\ j.at \in {"request", "ask"} /\ j.op = "send" => ~ExistFriendly(j.me, j.who)
  /\ j.at = "befriend" => ExistRequest(j.who, j.me)
  /\ j.at = "remove" => j.who # NoUser
  /\ j.at = "drop" => friends[<<j.who, j.me>>] > 0

FreshInv == ~clashed /\ faults = 0 => \A w \in Workers : FreshJob(job[w])

\* The statement a worker runs on the tables, if it runs one.
Statement(j) ==
  \/ UNCHANGED tables
  \/ j.at = "enrol" /\ AddUser(j.who)
  \/ j.at = "invalidate" /\ DelUser(j.me)
  \/ j.at = "ask" /\ SendRequest(j.me, j.who)
  \/ j.at = "befriend" /\ j.who # NoUser /\ AddFriends(j.who, j.me)
  \/ j.at \in {"remove", "drop"} /\ j.who # NoUser /\ DeclineFriendRequest(j.who, j.me)

\* What a worker has read is not made false by the statement of another one.
LEMMA Undisturbed ==
  ASSUME TypeOK, JobInv, ClashInv, ~clashed, NEW w \in Workers, NEW v \in Workers \ {w},
         NEW i, i = job[v], FreshJob(i), Statement(job[w])
  PROVE  FreshJob(i)'
<1> DEFINE j == job[w]
           asks == {"send", "accept", "decline"}
<1>0. /\ requests \in [Pairs -> Nat] /\ friends \in [Pairs -> Nat]
      /\ account \in [Users -> {"none", "valid", "deleted"}]
      /\ j \in Job /\ i \in Job
  BY DEF TypeOK
<1>1. /\ i.at \notin Resting /\ i.op \in asks => i.me \in Users
      /\ i.at \notin Resting /\ i.op = "unregister" => i.me \in Users
      /\ i.at \in {"friend", "request", "ask", "befriend", "remove", "drop"} => i.op \in asks
      /\ i.at \in {"befriend", "drop"} => i.op = "accept"
  BY DEF JobInv, Resting
<1>2. ~Clash(j, i) /\ ~Clash(i, j)
  BY DEF ClashInv, Clashing
<1>3. CASE UNCHANGED tables
  BY <1>3 DEF tables, FreshJob, ExistFriendly, ExistRequest
<1>4. CASE j.at = "enrol" /\ AddUser(j.who)
  <2>1. requests' = requests /\ friends' = friends /\ account[j.who] = "none"
        /\ account' = [account EXCEPT ![j.who] = "valid"]
    BY <1>4 DEF AddUser
  <2>2. \A u : (account[u] = "valid" => account'[u] = "valid")
               /\ (account[u] # "none" => account'[u] # "none")
    BY <1>0, <2>1
  <2>3. QED BY <2>1, <2>2 DEF FreshJob, ExistFriendly, ExistRequest
<1>5. CASE j.at = "invalidate" /\ DelUser(j.me)
  <2>1. requests' = requests /\ friends' = friends
        /\ account' = [account EXCEPT ![j.me] = "deleted"] /\ j.op = "unregister"
    BY <1>5 DEF DelUser, JobInv
  <2>2. i.op \in asks => j.me \notin {i.me, i.who}
    BY <1>2, <2>1 DEF Clash
  <2>3. /\ i.op \in asks => account'[i.me] = account[i.me] /\ account'[i.who] = account[i.who]
        /\ account[i.me] # "none" => account'[i.me] # "none"
    BY <1>0, <2>1, <2>2
  <2>4. QED BY <1>1, <2>1, <2>3 DEF FreshJob, ExistFriendly, ExistRequest
<1>6. CASE j.at = "ask" /\ SendRequest(j.me, j.who)
  <2>1. account' = account /\ friends' = friends
        /\ requests' = [requests EXCEPT ![<<j.me, j.who>>] = @ + 1]
    BY <1>6 DEF SendRequest
  <2>2. \A p \in Pairs : requests[p] > 0 => requests'[p] > 0
    BY <1>0, <2>1, RowAdded
  <2>3. i.at = "befriend" => ExistRequest(i.who, i.me)'
    <3>1. SUFFICES ASSUME i.at = "befriend" PROVE ExistRequest(i.who, i.me)'
      OBVIOUS
    <3>2. ExistRequest(i.who, i.me)
      BY <3>1 DEF FreshJob
    <3>3. <<i.who, i.me>> \in Pairs
      BY <1>0, <3>2 DEF ExistRequest, Pairs, Job
    <3>4. QED BY <2>2, <3>2, <3>3 DEF ExistRequest
  <2>4. QED BY <2>1, <2>3 DEF FreshJob, ExistFriendly
<1>7. CASE j.at = "befriend" /\ j.who # NoUser /\ AddFriends(j.who, j.me)
  <2> DEFINE p == <<j.who, j.me>>
  <2>1. account' = account /\ requests' = requests
        /\ friends' = [friends EXCEPT ![p] = @ + 1] /\ j.op = "accept"
    BY <1>7 DEF AddFriends, JobInv
  <2>2. p \in Pairs
    BY <1>0, <1>7 DEF JobInv, Job, Pairs, Resting
  <2>3. \A q \in Pairs : friends'[q] = IF q = p THEN friends[p] + 1 ELSE friends[q]
    BY <1>0, <2>1, <2>2, RowAdded
  <2>4. ASSUME i.at \in {"request", "ask"}, i.op = "send", ~ExistFriendly(i.me, i.who)
        PROVE  ~ExistFriendly(i.me, i.who)'
    <3>1. {j.me, j.who} # {i.me, i.who}
      BY <1>2, <1>7, <2>1, <2>4 DEF Clash
    <3>2. CASE NoUser \in {i.me, i.who}
      BY <3>2 DEF ExistFriendly
    <3>3. CASE NoUser \notin {i.me, i.who}
      <4>1. <<i.me, i.who>> \in Pairs /\ <<i.who, i.me>> \in Pairs
        BY <1>0, <3>3 DEF Job, Pairs
      <4>2. <<i.me, i.who>> # p /\ <<i.who, i.me>> # p
        BY <3>1
      <4>3. friends'[<<i.me, i.who>>] = friends[<<i.me, i.who>>]
            /\ friends'[<<i.who, i.me>>] = friends[<<i.who, i.me>>]
        BY <2>3, <4>1, <4>2
      <4>4. QED BY <2>4, <4>3 DEF ExistFriendly
    <3>4. QED BY <3>2, <3>3
  <2>5. ASSUME i.at = "drop", friends[<<i.who, i.me>>] > 0
        PROVE  friends'[<<i.who, i.me>>] > 0
    <3>1. i.who \in Users /\ i.me \in Users
      BY <2>5 DEF JobInv, Resting
    <3>2. <<i.who, i.me>> \in Pairs
      BY <3>1 DEF Pairs
    <3>3. QED BY <1>0, <2>3, <2>5, <3>2
  <2>6. QED BY <2>1, <2>4, <2>5 DEF FreshJob, ExistRequest
<1>8. CASE j.at \in {"remove", "drop"} /\ j.who # NoUser /\ DeclineFriendRequest(j.who, j.me)
  <2>1. account' = account /\ friends' = friends /\ j.op \in {"accept", "decline"}
        /\ requests' = [q \in Pairs |-> IF q = <<j.who, j.me>> THEN 0 ELSE requests[q]]
    BY <1>8 DEF DeclineFriendRequest, JobInv
  <2>2. ASSUME i.at = "befriend", ExistRequest(i.who, i.me)
        PROVE  ExistRequest(i.who, i.me)'
    <3>1. i.who # NoUser /\ i.me # NoUser /\ requests[<<i.who, i.me>>] > 0
      BY <2>2 DEF ExistRequest
    <3>2. {i.me, i.who} # {j.me, j.who}
      BY <1>1, <1>2, <2>1, <2>2, <3>1 DEF Clash
    <3>3. <<i.who, i.me>> # <<j.who, j.me>>
      BY <3>2
    <3>4. <<i.who, i.me>> \in Pairs
      BY <1>0, <3>1 DEF Job, Pairs
    <3>5. QED BY <2>1, <3>1, <3>3, <3>4 DEF ExistRequest
  <2>3. QED BY <2>1, <2>2 DEF FreshJob, ExistFriendly
<1>9. QED BY <1>3, <1>4, <1>5, <1>6, <1>7, <1>8 DEF Statement

\* A worker that moves.
LEMMA FreshMove ==
  ASSUME TypeOK, JobInv, ClashInv, ~clashed, faults = 0, FreshInv,
         NEW w \in Workers, NEW k \in Job, Moves(w, k), FreshJob(k)', Statement(job[w])
  PROVE  FreshInv'
<1>1. \A v \in Workers : job'[v] = IF v = w THEN k ELSE job[v]
  BY OthersStay
<1>2. ASSUME NEW v \in Workers \ {w} PROVE FreshJob(job[v])'
  <2> DEFINE i == job[v]
  <2>1. FreshJob(i)
    BY DEF FreshInv
  <2>2. i = job[v]
    OBVIOUS
  <2> HIDE DEF i
  <2>3. (job[v])' = i
    BY <1>1, <2>2
  <2>4. ASSUME NEW x, x = i, FreshJob(x) PROVE FreshJob(x)'
    BY <2>2, <2>4, Undisturbed
  <2>5. QED BY <2>1, <2>3, <2>4 DEF FreshJob
<1>3. (job[w])' = k
  BY <1>1
<1>4. FreshJob(job[w])'
  BY <1>3 DEF FreshJob
<1>5. QED BY <1>2, <1>4 DEF FreshInv

\* The abstract state moves only with the tables.
LEMMA QuietStep ==
  ASSUME TypeOK, NEW w \in Workers, job[w].at # "drop",
         NEW k \in Job, Moves(w, k), k.at # "drop"
  PROVE  Accepting' = Accepting
<1>1. \A v \in Workers : job'[v] = IF v = w THEN k ELSE job[v]
  BY OthersStay
<1>2. \A v \in Workers : /\ job'[v].at = "drop" <=> job[v].at = "drop"
                         /\ job[v].at = "drop" => job'[v] = job[v]
  BY <1>1
<1>3. QED BY <1>2 DEF Accepting

\* The steps that only read change nothing a client can tell, and leave the
\* worker with what is so.
LEMMA ReaderApart ==
  ASSUME TypeOK, JobInv, ClashInv, FreshInv, ~clashed, faults = 0, faults' = 0,
         NEW w \in Workers,
         CheckPass(w) \/ CheckEntry(w) \/ LookUpOther(w) \/ CheckFriend(w) \/ CheckRequest(w)
  PROVE  FreshInv' /\ UNCHANGED Atomic!vars
<1> DEFINE j == job[w]
           asks == {"send", "accept", "decline"}
<1>0. /\ j.at \in {"pass", "entry", "who", "friend", "request"}
      /\ UNCHANGED tables
      /\ FreshJob(j) /\ j \in Job
  BY CheckPassFacts, CheckEntryFacts, LookUpOtherFacts, CheckFriendFacts, CheckRequestFacts
  DEF CheckPass, CheckEntry, LookUpOther, CheckFriend, CheckRequest, FreshInv, TypeOK
<1>1. PICK k \in Job :
        /\ Moves(w, k)
        /\ \/ j.at = "pass" /\ k.at \in {"error", "invalidate", "who"}
           \/ j.at = "entry" /\ k.at \in {"enrol", "error"}
           \/ /\ j.at = "who"
              /\ \/ k.at = "error"
                 \/ /\ k.at = IF j.op = "send" THEN "friend" ELSE "request"
                    /\ k.who = NoUser \/ (account[k.who] = "valid" /\ (j.op = "send" => k.who # k.me))
           \/ j.at = "friend" /\ k.at \in {"error", "request"}
              /\ (k.at = "request" => ~ExistFriendly(k.me, k.who))
           \/ /\ j.at = "request"
              /\ \/ k.at = "error"
                 \/ k.at = "ask" /\ k.op = "send"
                 \/ k.at \in {"befriend", "remove"} /\ ExistRequest(k.who, k.me) /\ k.op # "send"
  <2>1. CASE CheckPass(w)
    BY <2>1, CheckPassFacts DEF CheckPass
  <2>2. CASE CheckEntry(w)
    BY <2>2, CheckEntryFacts DEF CheckEntry
  <2>3. CASE LookUpOther(w)
    <3>1. j.at = "who"
      BY <2>3 DEF LookUpOther
    <3>2. QED BY <2>3, <3>1, LookUpOtherFacts
  <2>4. CASE CheckFriend(w)
    <3>1. j.at = "friend"
      BY <2>4 DEF CheckFriend
    <3>2. QED BY <2>4, <3>1, CheckFriendFacts
  <2>5. CASE CheckRequest(w)
    <3>1. j.at = "request" /\ faults' # faults + 1
      BY <2>5 DEF CheckRequest
    <3>2. QED BY <2>5, <3>1, CheckRequestFacts
  <2>6. QED BY <2>1, <2>2, <2>3, <2>4, <2>5
<1>2. /\ k.at \in Resting \/ (k.op = j.op /\ k.me = j.me)
      /\ k.at \in Resting \/ k.who = j.who \/ j.at = "who"
      /\ j.at \notin Resting
  BY <1>0, <1>1 DEF Moves, Resting
<1>3. FreshJob(k)
  <2>1. CASE k.at \in Resting
    BY <2>1 DEF FreshJob, Resting
  <2>2. CASE k.at \notin Resting
    <3>1. k.op = j.op /\ k.me = j.me /\ (k.who = j.who \/ j.at = "who")
      BY <1>2, <2>2
    <3>a. /\ k.op \in asks => account[k.me] = "valid"
          /\ k.op = "unregister" => account[k.me] # "none"
      BY <1>0, <1>2, <3>1 DEF FreshJob
    <3>2. CASE j.at \in {"pass", "entry"}
      BY <1>1, <2>2, <3>a, <3>2 DEF FreshJob, Resting
    <3>3. CASE j.at = "who"
      <4>1. j.op \in asks /\ j.me \in Users
        BY <3>3 DEF JobInv, Resting
      <4>2. NoUser # k.me
        BY <3>1, <4>1, UsersAssumption
      <4>3. /\ k.at = IF j.op = "send" THEN "friend" ELSE "request"
            /\ k.who = NoUser \/ (account[k.who] = "valid" /\ (j.op = "send" => k.who # k.me))
        BY <1>1, <2>2, <3>3 DEF Resting
      <4>4. QED BY <3>1, <3>a, <4>1, <4>2, <4>3 DEF FreshJob
    <3>4. CASE j.at = "friend"
      <4>1. j.op = "send" /\ k.at = "request" /\ ~ExistFriendly(k.me, k.who)
        BY <1>1, <2>2, <3>4 DEF JobInv, Resting
      <4>2. (k.who = NoUser \/ account[k.who] = "valid") /\ k.who # k.me
        BY <1>0, <3>1, <3>4, <4>1 DEF FreshJob
      <4>3. QED BY <3>1, <3>a, <4>1, <4>2 DEF FreshJob
    <3>5. CASE j.at = "request"
      <4>1. /\ k.who = NoUser \/ account[k.who] = "valid"
            /\ k.op = "send" => k.who # k.me /\ ~ExistFriendly(k.me, k.who)
        BY <1>0, <3>1, <3>5 DEF FreshJob
      <4>2. \/ k.at = "ask" /\ k.op = "send"
            \/ k.at \in {"befriend", "remove"} /\ ExistRequest(k.who, k.me) /\ k.op # "send"
        BY <1>1, <2>2, <3>5 DEF Resting
      <4>3. k.at = "remove" => k.who # NoUser
        BY <4>2 DEF ExistRequest
      <4>4. QED BY <3>a, <4>1, <4>2, <4>3 DEF FreshJob
    <3>6. QED BY <1>0, <3>2, <3>3, <3>4, <3>5
  <2>3. QED BY <2>1, <2>2
<1>4. account' = account /\ requests' = requests /\ friends' = friends
  BY <1>0 DEF tables
<1>5. FreshJob(k)'
  BY <1>3, <1>4 DEF FreshJob, ExistFriendly, ExistRequest
<1>6. FreshInv'
  BY <1>0, <1>1, <1>5, FreshMove DEF Statement
<1>7. Accepting' = Accepting
  BY <1>0, <1>1, QuietStep
<1>8. AskedPairs' = AskedPairs /\ FriendPairs' = FriendPairs
  BY <1>4, <1>7 DEF FriendPairs, AskedPairs
<1>9. QED BY <1>4, <1>6, <1>8 DEF Atomic!vars

\* The last statement of a handler is its atomic step.  A second row of a
\* request, and what is left for the second of two equal requests to do, do not
\* show.
LEMMA LastApart ==
  ASSUME TypeOK, JobInv, ClashInv, FreshInv, ~clashed, faults = 0, faults' = 0,
         NEW w \in Workers,
         Enrol(w) \/ Invalidate(w) \/ InsertRequest(w) \/ RemoveRequest(w)
  PROVE  FreshInv' /\ (Atomic!Next \/ UNCHANGED Atomic!vars)
<1> DEFINE j == job[w]
<1>0. /\ j.at \in {"enrol", "invalidate", "ask", "remove"} /\ j.at \notin Resting
      /\ FreshJob(j) /\ j \in Job
  BY DEF Enrol, Invalidate, InsertRequest, RemoveRequest, FreshInv, TypeOK, Resting
<1>1. PICK k \in Job : Moves(w, k) /\ k.at \in {"ok", "error"}
  BY LastStatement
<1>2. FreshInv'
  <2>1. FreshJob(k)'
    BY <1>1 DEF FreshJob, Resting
  <2>2. Statement(j)
    BY <1>0, LastStatement DEF Statement, FreshJob
  <2>3. QED BY <1>1, <2>1, <2>2, FreshMove
<1>3. Accepting' = Accepting
  BY <1>0, <1>1, QuietStep
<1>4. /\ requests \in [Pairs -> Nat] /\ friends \in [Pairs -> Nat]
      /\ account \in [Users -> {"none", "valid", "deleted"}]
  BY DEF TypeOK
<1>5. CASE UNCHANGED tables
  <2>1. account' = account /\ requests' = requests /\ friends' = friends
    BY <1>5 DEF tables
  <2>2. AskedPairs' = AskedPairs /\ FriendPairs' = FriendPairs
    BY <1>3, <2>1 DEF FriendPairs, AskedPairs
  <2>3. QED BY <1>2, <2>1, <2>2 DEF Atomic!vars
<1>6. CASE j.at = "enrol" /\ AddUser(j.who)
  <2>1. AskedPairs' = AskedPairs /\ FriendPairs' = FriendPairs /\ j.who \in Users
    BY <1>3, <1>6 DEF AddUser, FriendPairs, AskedPairs, JobInv
  <2>2. Atomic!Register(j.who)
    BY <1>6, <2>1 DEF AddUser, Atomic!Register
  <2>3. QED BY <1>2, <2>1, <2>2 DEF Atomic!Next
<1>7. CASE j.at = "invalidate" /\ DelUser(j.me)
  <2>1. AskedPairs' = AskedPairs /\ FriendPairs' = FriendPairs /\ j.me \in Users
    BY <1>3, <1>7 DEF DelUser, FriendPairs, AskedPairs, JobInv, Resting
  <2>2. account[j.me] # "none"
    BY <1>0, <1>7 DEF FreshJob, JobInv
  <2>3. CASE account[j.me] = "valid"
    <3>1. Atomic!Unregister(j.me)
      BY <1>7, <2>1, <2>3 DEF DelUser, Atomic!Unregister
    <3>2. QED BY <1>2, <2>1, <3>1 DEF Atomic!Next
  <2>4. CASE account[j.me] = "deleted"
    <3>1. account' = account
      BY <1>4, <1>7, <2>4 DEF DelUser
    <3>2. QED BY <1>2, <2>1, <3>1 DEF Atomic!vars
  <2>5. QED BY <1>4, <2>1, <2>2, <2>3, <2>4
<1>8. CASE j.at = "ask" /\ j.who # NoUser /\ SendRequest(j.me, j.who)
  <2> DEFINE p == <<j.me, j.who>>
  <2>1. /\ j.me \in Users /\ j.who \in Users /\ j.op = "send"
        /\ p \in Pairs /\ <<j.who, j.me>> \in Pairs
    BY <1>0, <1>8 DEF Job, JobInv, Resting, Pairs
  <2>2. /\ account[j.me] = "valid" /\ account[j.who] = "valid" /\ j.me # j.who
        /\ ~ExistFriendly(j.me, j.who)
    BY <1>0, <1>8, <2>1 DEF FreshJob, Resting
  <2>3. p \notin FriendPairs /\ <<j.who, j.me>> \notin FriendPairs
    BY <2>1, <2>2, UsersAssumption DEF ExistFriendly, FriendPairs
  <2>4. p \notin Accepting
    <3>1. ASSUME NEW v \in Workers, job[v].at = "drop", p = <<job[v].who, job[v].me>>
          PROVE  FALSE
      <4>1. job[v].op = "accept" /\ v # w
        BY <1>8, <3>1 DEF JobInv
      <4>2. {job[v].me, job[v].who} = {j.me, j.who}
        BY <3>1
      <4>3. QED BY <2>1, <3>1, <4>1, <4>2, AcceptsAlone
    <3>2. QED BY <3>1 DEF Accepting
  <2>5. /\ requests'[p] > 0
        /\ \A q \in Pairs : q # p => requests'[q] = requests[q]
    <3>1. /\ requests'[p] = requests[p] + 1
          /\ \A q \in Pairs : q # p => requests'[q] = requests[q]
      BY <1>4, <1>8, <2>1, RowAdded DEF SendRequest
    <3>2. QED BY <1>4, <2>1, <3>1
  <2>6. AskedPairs' = AskedPairs \cup {p}
    BY <1>3, <2>1, <2>4, <2>5 DEF AskedPairs
  <2>7. account' = account /\ FriendPairs' = FriendPairs
    BY <1>8 DEF SendRequest, FriendPairs
  <2>8. CASE p \in AskedPairs
    BY <1>2, <2>6, <2>7, <2>8 DEF Atomic!vars
  <2>9. CASE p \notin AskedPairs
    <3>1. Atomic!Ask(j.me, j.who)
      BY <2>2, <2>3, <2>6, <2>7, <2>9 DEF Atomic!Ask
    <3>2. QED BY <1>2, <2>1, <3>1 DEF Atomic!Next
  <2>10. QED BY <2>8, <2>9
<1>9. CASE j.at = "remove" /\ DeclineFriendRequest(j.who, j.me)
  <2> DEFINE p == <<j.who, j.me>>
  <2>1. /\ j.me \in Users /\ j.who \in Users /\ p \in Pairs /\ j.op = "decline"
        /\ account[j.me] = "valid" /\ account[j.who] = "valid"
    BY <1>0, <1>9 DEF FreshJob, Job, JobInv, Resting, Pairs
  <2>2. account' = account /\ FriendPairs' = FriendPairs
    BY <1>9 DEF DeclineFriendRequest, FriendPairs
  <2>3. AskedPairs' = AskedPairs \ {p}
    BY <1>3, <1>9 DEF AskedPairs, DeclineFriendRequest
  <2>4. CASE p \notin AskedPairs
    <3>1. AskedPairs' = AskedPairs
      BY <2>3, <2>4
    <3>2. QED BY <1>2, <2>2, <3>1 DEF Atomic!vars
  <2>5. CASE p \in AskedPairs
    <3>1. Atomic!Decline(j.who, j.me)
      BY <2>1, <2>2, <2>3, <2>5 DEF Atomic!Decline
    <3>2. QED BY <1>2, <2>1, <3>1 DEF Atomic!Next
  <2>6. QED BY <2>4, <2>5
<1>10. QED BY <1>5, <1>6, <1>7, <1>8, <1>9, LastStatement

\* accept_request takes effect when its friendship is inserted: the request
\* that is deleted next no longer counts.
LEMMA AcceptApart ==
  ASSUME TypeOK, JobInv, ClashInv, RowInv, FreshInv, ~clashed, faults = 0, faults' = 0,
         NEW w \in Workers, Befriend(w) \/ DropRequest(w)
  PROVE  FreshInv' /\ (Atomic!Next \/ UNCHANGED Atomic!vars)
<1> DEFINE j == job[w]
           p == <<j.who, j.me>>
<1>0. requests \in [Pairs -> Nat] /\ friends \in [Pairs -> Nat] /\ j \in Job /\ FreshJob(j)
      /\ faults = 0 /\ faults' # faults + 1
  BY DEF TypeOK, FreshInv
<1>1. CASE Befriend(w)
  <2>1. j.at = "befriend" /\ j.at \notin Resting /\ j.op = "accept"
    BY <1>1 DEF Befriend, JobInv, Resting
  <2>2. /\ ExistRequest(j.who, j.me) /\ account[j.me] = "valid"
        /\ j.who = NoUser \/ account[j.who] = "valid"
    BY <1>0, <2>1 DEF FreshJob
  <2>3. j.me \in Users /\ j.who \in Users /\ requests[p] > 0 /\ account[j.who] = "valid"
    BY <1>0, <2>2 DEF ExistRequest, Job
  <2>4. p \in Pairs
    BY <2>3 DEF Pairs
  <2>5. PICK k \in Job :
          /\ Moves(w, k)
          /\ \/ k.at = "drop" /\ j.who # NoUser /\ AddFriends(j.who, j.me)
             \/ k.at = "error" /\ UNCHANGED tables
    BY <1>1, BefriendFacts
  <2>6. CASE k.at = "error" /\ UNCHANGED tables
    <3>1. FreshJob(k)'
      BY <2>6 DEF FreshJob, Resting
    <3>2. FreshInv'
      BY <2>5, <2>6, <3>1, FreshMove DEF Statement
    <3>3. account' = account /\ requests' = requests /\ friends' = friends
      BY <2>6 DEF tables
    <3>4. Accepting' = Accepting
      BY <2>1, <2>5, <2>6, QuietStep
    <3>5. AskedPairs' = AskedPairs /\ FriendPairs' = FriendPairs
      BY <3>3, <3>4 DEF AskedPairs, FriendPairs
    <3>6. QED BY <3>2, <3>3, <3>5 DEF Atomic!vars
  <2>7. CASE k.at = "drop" /\ j.who # NoUser /\ AddFriends(j.who, j.me)
    <3>1. k.who = j.who /\ k.me = j.me /\ k.op = j.op
      BY <2>1, <2>5, <2>7 DEF Moves, Resting
    <3>2. /\ account' = account /\ requests' = requests
          /\ friends'[p] = friends[p] + 1 /\ \A q \in Pairs : q # p => friends'[q] = friends[q]
      BY <1>0, <2>4, <2>7, RowAdded DEF AddFriends
    <3>3. friends'[p] > 0 /\ friends[p] \in Nat
      BY <1>0, <2>4, <3>2
    <3>4. FreshJob(k)'
      BY <2>1, <2>2, <2>3, <2>7, <3>1, <3>2, <3>3 DEF FreshJob
    <3>5. FreshInv'
      BY <2>1, <2>5, <2>7, <3>4, FreshMove DEF Statement
    <3>6. friends[p] = 0
      <4>1. Opening(w, p)
        BY <2>1 DEF Opening
      <4>2. Open(p)
        BY <4>1 DEF Open
      <4>3. QED BY <1>0, <2>4, <3>3, <4>2 DEF RowInv
    <3>7. \A v \in Workers : job'[v] = IF v = w THEN k ELSE job[v]
      BY <2>5, OthersStay
    <3>8. Accepting' = Accepting \cup {p}
      <4>1. \A q : q \in Accepting' <=> q \in Accepting \/ q = p
        BY <2>1, <2>7, <3>1, <3>7 DEF Accepting
      <4>2. QED BY <4>1
    <3>9. p \notin Accepting
      <4>1. \A v \in Workers \ {w} : ~Closing(v, p)
        BY <2>1, <2>4, AcceptsAlone
      <4>2. QED BY <2>1, <4>1 DEF Accepting, Closing
    <3>10. AskedPairs' = AskedPairs \ {p} /\ p \in AskedPairs
      BY <2>3, <2>4, <3>2, <3>8, <3>9 DEF AskedPairs
    <3>11. FriendPairs' = FriendPairs \cup {p} /\ p \notin FriendPairs
      BY <2>4, <3>2, <3>3, <3>6 DEF FriendPairs
    <3>12. Atomic!Accept(j.who, j.me)
      BY <2>2, <2>3, <3>2, <3>10, <3>11 DEF Atomic!Accept
    <3>13. QED BY <2>3, <3>5, <3>12 DEF Atomic!Next
  <2>8. QED BY <2>5, <2>6, <2>7
<1>2. CASE DropRequest(w)
  <2>1. j.at = "drop" /\ j.who # NoUser
    BY <1>2, UsersAssumption DEF DropRequest, JobInv
  <2>2. DeclineFriendRequest(j.who, j.me)
    BY <1>0, <1>2, DropRequestFacts
  <2>3. PICK k \in Job : Moves(w, k) /\ k.at = "ok"
    BY <1>2, DropRequestFacts
  <2>4. FreshJob(k)'
    BY <2>3 DEF FreshJob, Resting
  <2>5. FreshInv'
    BY <2>1, <2>2, <2>3, <2>4, FreshMove DEF Statement
  <2>6. \A v \in Workers : job'[v] = IF v = w THEN k ELSE job[v]
    BY <2>3, OthersStay
  <2>7. \A q : q # p => (q \in Accepting' <=> q \in Accepting)
    BY <2>1, <2>3, <2>6 DEF Accepting
  <2>8. p \in Accepting
    BY <2>1 DEF Accepting
  <2>9. AskedPairs' = AskedPairs
    BY <1>0, <2>2, <2>7, <2>8 DEF AskedPairs, DeclineFriendRequest
  <2>10. account' = account /\ FriendPairs' = FriendPairs
    BY <2>2 DEF DeclineFriendRequest, FriendPairs
  <2>11. QED BY <2>5, <2>9, <2>10 DEF Atomic!vars
<1>3. QED BY <1>1, <1>2

LEMMA NextApart ==
  ASSUME TypeOK, JobInv, ClashInv, RowInv, FreshInv, [Next]_vars
  PROVE  /\ FreshInv'
         /\ [~clashed' /\ faults' = 0 => Atomic!Next]_(Atomic!vars)
<1>0. faults \in Nat
  BY MaxFaultsAssumption DEF TypeOK
<1>1. ASSUME NEW w \in Workers, Request(w)
      PROVE  FreshInv' /\ UNCHANGED Atomic!vars
  <2>1. UNCHANGED <<tables, faults>> /\ job[w].at \in Resting
    BY <1>1, RequestFacts DEF Admitted
  <2>2. PICK k \in Job :
              /\ job' = [job EXCEPT ![w] = k] /\ threads' = threads
              /\ \/ k.at = "entry" /\ k.op = "register"
                 \/ k.at = "pass" /\ account[k.me] = "valid"
    BY <1>1, RequestFacts
  <2>3. \A v \in Workers : job'[v] = IF v = w THEN k ELSE job[v]
    BY <2>2 DEF TypeOK
  <2>4. account' = account /\ requests' = requests /\ friends' = friends /\ faults' = faults
    BY <2>1 DEF tables
  <2>5. FreshInv'
    <3>1. FreshJob(k)
      BY <2>2 DEF FreshJob, Resting
    <3>2. ASSUME ~clashed, faults = 0, NEW v \in Workers PROVE FreshJob(job[v])'
      <4>1. FreshJob(job'[v])
        BY <2>3, <3>1, <3>2 DEF FreshInv
      <4>2. QED BY <2>4, <4>1 DEF FreshJob, ExistFriendly, ExistRequest
    <3>3. ~clashed' => ~clashed
      BY <1>1, RequestFacts
    <3>4. QED BY <2>4, <3>2, <3>3 DEF FreshInv
  <2>6. \A v \in Workers : /\ job'[v].at = "drop" <=> job[v].at = "drop"
                           /\ job[v].at = "drop" => job'[v] = job[v]
    BY <2>1, <2>2, <2>3 DEF Resting
  <2>7. Accepting' = Accepting
    BY <2>6 DEF Accepting
  <2>8. QED BY <2>4, <2>5, <2>7 DEF AskedPairs, FriendPairs, Atomic!vars
<1>2. ASSUME NEW w \in Workers, Step(w)
      PROVE  /\ FreshInv'
             /\ [~clashed' /\ faults' = 0 => Atomic!Next]_(Atomic!vars)
  <2>1. clashed' = clashed /\ faults' \in {faults, faults + 1}
    BY <1>2, StepMoves DEF Moves
  <2>2. CASE clashed \/ faults' # 0
    BY <2>1, <2>2 DEF FreshInv
  <2>3. CASE ~clashed /\ faults' = 0
    <3>1. faults = 0
      BY <1>0, <2>1, <2>3
    <3>2. QED
      BY <1>2, <2>3, <3>1, ReaderApart, LastApart, AcceptApart DEF Step
  <2>4. QED BY <2>2, <2>3
<1>3. CASE Kill
  <2>1. faults' # 0
    BY <1>0, <1>3 DEF Kill
  <2>2. QED BY <2>1 DEF FreshInv
<1>4. CASE UNCHANGED vars
  <2>1. FreshInv'
    BY <1>4 DEF vars, FreshInv, FreshJob, ExistFriendly, ExistRequest
  <2>2. UNCHANGED Atomic!vars
    BY <1>4 DEF vars, Atomic!vars, AskedPairs, FriendPairs, Accepting
  <2>3. QED BY <2>1, <2>2
<1>5. QED BY <1>1, <1>2, <1>3, <1>4 DEF Next

\* While requests keep apart and until a statement fails, the handlers implement
\* FriendshipAtomic, however many threads run them: every request takes effect
\* at once.
THEOREM Refinement == Spec => ApartHandlersAreAtomic
<1> DEFINE IInv == TypeOK /\ JobInv /\ SerialInv /\ ClashInv /\ RowInv /\ FreshInv
<1>1. Init => IInv /\ Atomic!Init
  <2>1. SUFFICES ASSUME Init PROVE IInv /\ Atomic!Init
    OBVIOUS
  <2>2. TypeOK /\ JobInv /\ SerialInv /\ ClashInv /\ RowInv
    BY <2>1, InitTyped, StartsApart
  <2>3. FreshInv
    BY <2>1 DEF Init, FreshInv, FreshJob, Rest, Resting
  <2>4. AskedPairs = {} /\ FriendPairs = {}
    BY <2>1 DEF Init, AskedPairs, FriendPairs
  <2>5. QED BY <2>1, <2>2, <2>3, <2>4 DEF Init, Atomic!Init
<1>2. IInv /\ [Next]_vars => IInv' /\ [Apart' /\ faults' = 0 => Atomic!Next]_(Atomic!vars)
  <2>1. SUFFICES ASSUME IInv, [Next]_vars
                 PROVE  IInv' /\ [Apart' /\ faults' = 0 => Atomic!Next]_(Atomic!vars)
    OBVIOUS
  <2>2. IInv'
    BY <2>1, NextTyped, SerialKept, ClashKept, RowKept, NextApart
  <2>3. Apart' => ~clashed'
    BY <2>2 DEF Apart, SerialInv
  <2>4. [~clashed' /\ faults' = 0 => Atomic!Next]_(Atomic!vars)
    BY <2>1, NextApart
  <2>5. QED BY <2>2, <2>3, <2>4
<1>3. QED BY <1>1, <1>2, PTL DEF Spec, ApartHandlersAreAtomic
=============================================================================
