------------------------------- MODULE Chats --------------------------------
(***************************************************************************)
(* The handlers of server/psd_ims_server.c that change who is in a chat:   *)
(* create_chat, add_member, remove_member, quit_from_chat and              *)
(* user_unregister.  Every request runs in a worker: one detached thread   *)
(* per connection when the MySQL client library is thread safe             *)
(* (mthread_listen_connection), the main thread otherwise                  *)
(* (sthread_listen_connection), so Workers is a singleton or larger.       *)
(*                                                                         *)
(* A worker takes one step per SQL statement, in the order of the source.  *)
(* The functions of persistence.c return 1, 0 or -1 and the handlers test  *)
(* these integers in different ways ("!= 1", "== 1", "!"): the tests are   *)
(* kept literally, because they decide what a failed query means.          *)
(***************************************************************************)
EXTENDS ChatTables, Integers

CONSTANTS Workers,    \* the threads that serve requests
          Ops,        \* the requests clients send in this instance
          NoChat,     \* job[w].chat of a request that names no chat
          MaxFaults   \* bound on failed queries and killed servers

AllOps == {"create", "add", "remove", "quit", "unregister"}

ASSUME OpsAssumption == Ops \subseteq AllOps
ASSUME NoChatAssumption == NoChat \notin ChatIds
ASSUME MaxFaultsAssumption == MaxFaults \in Nat

VARIABLES
  job,     \* the request each worker serves and the statement it runs next
  up,      \* the server process is running
  faults   \* failed queries and killed servers so far (history, bounded)

vars == <<valid, status, admin, live, left, job, up, faults>>

-----------------------------------------------------------------------------
(* Jobs.                                                                   *)

Resting == {"idle", "ok", "error"}

Steps == {"pass", "member", "new_chat", "enter_me", "undo", "enter_who",
          "chat", "admin", "who", "friend", "inside", "entry", "recover",
          "insert", "remove", "still", "am_admin", "first", "handover",
          "close", "invalidate", "leave_all"}

Job == [op : AllOps \cup {"none"}, at : Steps \cup Resting,
        me : Users \cup {NoUser}, who : Users \cup {NoUser},
        chat : ChatIds \cup {NoChat}, first : Users \cup {NoUser}]

\* A worker between requests; the reply of the last one is kept as its place.
Rest(reply) == [op |-> "none", at |-> reply, me |-> NoUser, who |-> NoUser,
                chat |-> NoChat, first |-> NoUser]

TypeOK ==
  /\ TablesTypeOK
  /\ job \in [Workers -> Job]
  /\ up \in BOOLEAN
  /\ faults \in 0..MaxFaults

\* The database of a server that has been used for a while: each chat is
\* unused or has an administrator among its members, each with one row.
Init ==
  /\ valid = Users
  /\ status \in [ChatIds -> {"none", "valid"}]
  /\ admin \in [ChatIds -> Users \cup {NoUser}]
  /\ live \in [ChatIds -> [Users -> {0, 1}]]
  /\ left = [c \in ChatIds |-> [u \in Users |-> 0]]
  /\ \A c \in ChatIds :
       IF status[c] = "none" THEN admin[c] = NoUser /\ Members(c) = {}
                             ELSE admin[c] \in Members(c)
  /\ job = [w \in Workers |-> Rest("idle")]
  /\ up = TRUE
  /\ faults = 0

-----------------------------------------------------------------------------
(* How a statement ends.                                                   *)

\* The integers a reader of persistence.c may return for the condition b.
Answers(b) == {IF b THEN 1 ELSE 0}
              \cup (IF faults < MaxFaults THEN {-1} ELSE {})

\* A reader has returned r.
Observed(r) ==
  /\ faults' = IF r = -1 THEN faults + 1 ELSE faults
  /\ UNCHANGED <<tables, up>>

At(w, s) == up /\ job[w].at = s

Goto(w, s) ==
  job' = [job EXCEPT ![w] = IF s \in Resting THEN Rest(s)
                                             ELSE [job[w] EXCEPT !.at = s]]

\* A writer runs Effect and the handler goes on at good, or the query fails
\* and it goes on at bad.
Attempt(w, Effect, good, bad) ==
  /\ UNCHANGED up
  /\ \/ /\ Effect
        /\ Goto(w, good)
        /\ UNCHANGED faults
     \/ /\ faults < MaxFaults
        /\ UNCHANGED tables
        /\ Goto(w, bad)
        /\ faults' = faults + 1

-----------------------------------------------------------------------------
(* Requests and check_login.                                               *)

\* Bound: a create is only requested while an unused id remains for it.
FreshIdLeft ==
  Cardinality({c \in ChatIds : status[c] = "none"}) >
    Cardinality({w \in Workers : job[w].at \in {"pass", "member", "new_chat"}
                                   /\ job[w].op = "create"})

Arrives(w, op, me, who, chat) ==
  job' = [job EXCEPT ![w] = [op |-> op, at |-> "pass", me |-> me, who |-> who,
                             chat |-> chat, first |-> NoUser]]

\* A request arrives and the get_user_id of check_login finds its sender.  A
\* login it does not find is answered SOAP_USER_ERROR with no effect at all,
\* and so is a wrong password: these requests are not modelled.
Request(w) ==
  /\ up
  /\ job[w].at \in Resting
  /\ \E me \in valid :
       \/ /\ "create" \in Ops
          /\ FreshIdLeft
          /\ \E who \in Users : Arrives(w, "create", me, who, NoChat)
       \/ \E op \in Ops \cap {"add", "remove"}, who \in Users, c \in ChatIds :
            Arrives(w, op, me, who, c)
       \/ /\ "quit" \in Ops
          /\ \E c \in ChatIds : Arrives(w, "quit", me, me, c)
       \/ /\ "unregister" \in Ops
          /\ Arrives(w, "unregister", me, NoUser, NoChat)
  /\ UNCHANGED <<tables, up, faults>>

AfterLogin(op) == CASE op = "create" -> "member"
                    [] op = "unregister" -> "invalidate"
                    [] OTHER -> "chat"

\* get_user_pass.  When the user has been unregistered since get_user_id, or
\* the query fails, check_login compares with an uninitialised buffer: either
\* outcome of strcmp.
CheckPass(w) ==
  /\ At(w, "pass")
  /\ \E r \in Answers(job[w].me \in valid) :
       /\ Observed(r)
       /\ \/ Goto(w, AfterLogin(job[w].op))
          \/ r # 1 /\ Goto(w, "error")

-----------------------------------------------------------------------------
(* create_chat.                                                            *)

\* The id of the other member is looked up, but the test that follows reads
\* id_user, which is known to be valid: -1 goes on.
LookUpMember(w) ==
  /\ At(w, "member")
  /\ \E r \in Answers(GetUserId(job[w].who) # NoUser) :
       /\ Observed(r)
       /\ job' = [job EXCEPT ![w].at = "new_chat",
                             ![w].who = IF r = 1 THEN @ ELSE NoUser]

InsertChat(w) ==
  /\ At(w, "new_chat")
  /\ UNCHANGED up
  /\ \/ \E c \in ChatIds :
          /\ AddChat(job[w].me, c)
          /\ job' = [job EXCEPT ![w].at = "enter_me", ![w].chat = c]
          /\ UNCHANGED faults
     \/ /\ faults < MaxFaults
        /\ UNCHANGED tables
        /\ Goto(w, "error")
        /\ faults' = faults + 1

EnterCreator(w) ==
  /\ At(w, "enter_me")
  /\ Attempt(w, AddUserChat(job[w].me, job[w].chat), "enter_who", "undo")

UndoChat(w) ==
  /\ At(w, "undo")
  /\ Attempt(w, DelChat(job[w].chat), "error", "error")

\* The foreign key on ID_USERS rejects the id -1, and nothing is undone.
EnterMember(w) ==
  /\ At(w, "enter_who")
  /\ \/ /\ job[w].who # NoUser
        /\ Attempt(w, AddUserChat(job[w].who, job[w].chat), "ok", "error")
     \/ /\ job[w].who = NoUser
        /\ Goto(w, "error")
        /\ UNCHANGED <<tables, up, faults>>

-----------------------------------------------------------------------------
(* The checks that add_member, remove_member and quit_from_chat share.     *)

CheckChat(w) ==
  /\ At(w, "chat")
  /\ \E r \in Answers(ChatExist(job[w].chat)) :
       /\ Observed(r)
       /\ Goto(w, IF r # 1 THEN "error"
                  ELSE IF job[w].op = "quit" THEN "inside" ELSE "admin")

\* "if(!is_admin(...))": a failed query counts as a yes.
CheckAdmin(w) ==
  /\ At(w, "admin")
  /\ \E r \in Answers(IsAdmin(job[w].me, job[w].chat)) :
       /\ Observed(r)
       /\ Goto(w, IF r = 0 THEN "error" ELSE "who")

\* Mutant: an administrator may name himself.
LookUpTarget_Self(w) ==
  /\ At(w, "who")
  /\ \E r \in Answers(GetUserId(job[w].who) # NoUser) :
       /\ Observed(r)
       /\ Goto(w, IF r # 1 THEN "error"
                  ELSE IF job[w].op = "add" THEN "friend" ELSE "inside")

\* get_user_id of the named user, who must be somebody else.
LookUpTarget(w) ==
  /\ At(w, "who")
  /\ \E r \in Answers(GetUserId(job[w].who) # NoUser) :
       /\ Observed(r)
       /\ Goto(w, IF r # 1 \/ job[w].who = job[w].me THEN "error"
                  ELSE IF job[w].op = "add" THEN "friend" ELSE "inside")

\* Mutant: only a failed query keeps a stranger out.
CheckFriend_Skipped(w) ==
  /\ At(w, "friend")
  /\ \E r \in Answers(ExistFriendly(job[w].who, job[w].me)) :
       /\ Observed(r)
       /\ Goto(w, IF r = -1 THEN "error" ELSE "inside")

CheckFriend(w) ==
  /\ At(w, "friend")
  /\ \E r \in Answers(ExistFriendly(job[w].who, job[w].me)) :
       /\ Observed(r)
       /\ Goto(w, IF r # 1 THEN "error" ELSE "inside")

\* exist_user_in_chat: add_member fails on "== 1", remove_member on
\* "!x == 1", that is x = 0, and quit_from_chat on "!= 1".
Refused(op, r) == CASE op = "add" -> r = 1
                    [] op = "remove" -> r = 0
                    [] OTHER -> r # 1

CheckInside(w) ==
  /\ At(w, "inside")
  /\ \E r \in Answers(ExistUserInChat(job[w].who, job[w].chat)) :
       /\ Observed(r)
       /\ Goto(w, IF Refused(job[w].op, r) THEN "error"
                  ELSE IF job[w].op = "add" THEN "entry" ELSE "remove")

-----------------------------------------------------------------------------
(* add_member, from the look for an old row on.                            *)

CheckEntry(w) ==
  /\ At(w, "entry")
  /\ \E r \in Answers(ExistUserEntryInChat(job[w].who, job[w].chat)) :
       /\ Observed(r)
       /\ Goto(w, IF r = 1 THEN "recover" ELSE "insert")

RecoverMember(w) ==
  /\ At(w, "recover")
  /\ Attempt(w, RecoverUserChat(job[w].who, job[w].chat), "ok", "error")

InsertMember(w) ==
  /\ At(w, "insert")
  /\ Attempt(w, AddUserChat(job[w].who, job[w].chat), "ok", "error")

-----------------------------------------------------------------------------
(* The end of remove_member and of quit_from_chat.                         *)

RemoveMember(w) ==
  /\ At(w, "remove")
  /\ Attempt(w, DelUserChat(job[w].who, job[w].chat),
             IF job[w].op = "quit" THEN "still" ELSE "ok", "error")

\* Mutant: an empty chat is left as it is.
CheckStillUsers_NoDelete(w) ==
  /\ At(w, "still")
  /\ \E r \in Answers(StillUsersInChat(job[w].chat)) :
       /\ Observed(r)
       /\ Goto(w, IF r = 1 THEN "am_admin" ELSE "ok")

\* "still_users_in_chat(...) == 1" else del_chat.
CheckStillUsers(w) ==
  /\ At(w, "still")
  /\ \E r \in Answers(StillUsersInChat(job[w].chat)) :
       /\ Observed(r)
       /\ Goto(w, IF r = 1 THEN "am_admin" ELSE "close")

\* Mutant: the test on is_admin is inverted.
QuitterIsAdmin_Inverted(w) ==
  /\ At(w, "am_admin")
  /\ \E r \in Answers(IsAdmin(job[w].me, job[w].chat)) :
       /\ Observed(r)
       /\ Goto(w, IF r = 0 THEN "first" ELSE "ok")

QuitterIsAdmin(w) ==
  /\ At(w, "am_admin")
  /\ \E r \in Answers(IsAdmin(job[w].me, job[w].chat)) :
       /\ Observed(r)
       /\ Goto(w, IF r = 1 THEN "first" ELSE "ok")

Stopped == [w \in Workers |-> Rest("idle")]

\* Mutant: the query reads table users instead of users_chats.
GetFirstUser_AnyUser(w) ==
  /\ At(w, "first")
  /\ UNCHANGED <<tables, up, faults>>
  /\ \E u \in valid :
       job' = [job EXCEPT ![w].at = "handover", ![w].first = u]

\* The first row of a SELECT without ORDER BY: any member.  With no row left,
\* mysql_fetch_row returns NULL and row[0] ends the whole process.
GetFirstUser(w) ==
  /\ At(w, "first")
  /\ UNCHANGED tables
  /\ \/ \E u \in Members(job[w].chat) :
          /\ job' = [job EXCEPT ![w].at = "handover", ![w].first = u]
          /\ UNCHANGED <<up, faults>>
     \/ /\ Members(job[w].chat) = {}
        /\ up' = FALSE
        /\ job' = Stopped
        /\ UNCHANGED faults
     \/ /\ faults < MaxFaults
        /\ job' = [job EXCEPT ![w].at = "handover", ![w].first = NoUser]
        /\ faults' = faults + 1
        /\ UNCHANGED up

\* change_admin(...) == 1 never holds: its failures, the foreign key's on the
\* id -1 among them, are answered SOAP_OK.
HandOver(w) ==
  /\ At(w, "handover")
  /\ \/ /\ job[w].first # NoUser
        /\ Attempt(w, ChangeAdmin(job[w].first, job[w].chat), "ok", "ok")
     \/ /\ job[w].first = NoUser
        /\ Goto(w, "ok")
        /\ UNCHANGED <<tables, up, faults>>

CloseChat(w) ==
  /\ At(w, "close")
  /\ Attempt(w, DelChat(job[w].chat), "ok", "error")

-----------------------------------------------------------------------------
(* user_unregister.                                                        *)

Invalidate(w) ==
  /\ At(w, "invalidate")
  /\ Attempt(w, DelUser(job[w].me), "leave_all", "error")

LeaveAll(w) ==
  /\ At(w, "leave_all")
  /\ Attempt(w, DelUserAllChats(job[w].me), "ok", "error")

-----------------------------------------------------------------------------
(* The process.                                                            *)

\* The server is killed between two statements (bounded with the faults).
Kill ==
  /\ up
  /\ faults < MaxFaults
  /\ faults' = faults + 1
  /\ up' = FALSE
  /\ job' = Stopped
  /\ UNCHANGED tables

\* main starts again on the database as it was left.
Restart ==
  /\ ~up
  /\ up' = TRUE
  /\ UNCHANGED <<tables, job, faults>>

Step(w) ==
  \/ CheckPass(w)
  \/ LookUpMember(w) \/ InsertChat(w) \/ EnterCreator(w) \/ UndoChat(w)
  \/ EnterMember(w)
  \/ CheckChat(w) \/ CheckAdmin(w) \/ LookUpTarget(w) \/ CheckFriend(w)
  \/ CheckInside(w) \/ CheckEntry(w) \/ RecoverMember(w) \/ InsertMember(w)
  \/ RemoveMember(w) \/ CheckStillUsers(w) \/ QuitterIsAdmin(w)
  \/ GetFirstUser(w) \/ HandOver(w) \/ CloseChat(w)
  \/ Invalidate(w) \/ LeaveAll(w)

Next ==
  \/ \E w \in Workers : Request(w)
  \/ \E w \in Workers : Step(w)
  \/ Kill
  \/ Restart

Spec == Init /\ [][Next]_vars

\* A thread that has a statement to run runs it: the scheduler of the kernel
\* and the database serve every thread.  Requests and restarts are not fair.
FairSpec == Spec /\ \A w \in Workers : WF_vars(Step(w))

-----------------------------------------------------------------------------
(* Properties.                                                             *)

AtRest == \A w \in Workers : job[w].at \in Resting

AdminIsMember(c) ==
  status[c] = "valid" /\ admin[c] \in valid => admin[c] \in Members(c)

DeletedIsEmpty(c) == status[c] = "deleted" => Members(c) = {}

\* Between requests, while no query has failed and nobody has killed the
\* server, every usable chat is administered by one of its members (unless its
\* administrator has unregistered: nobody takes over then), a deleted chat has
\* no members, and nobody unregistered is a member.  The handlers break each
\* part for some statements and must repair it.
ConsistentAtRest ==
  faults = 0 /\ up /\ AtRest =>
    /\ \A c \in ChatIds : AdminIsMember(c) /\ DeletedIsEmpty(c)
    /\ \A c \in ChatIds : Members(c) \subseteq valid

\* No request brings the process down: quit_from_chat is documented to return
\* SOAP_OK, or SOAP_USER_ERROR if it fails.
ServerSurvives == faults = 0 => up

\* change_admin names somebody who is, or has been, in the chat, however long
\* ago get_first_users_in_chat read it and whatever has happened since.
HandoverToMember ==
  [][\A c \in ChatIds, u \in Users :
       status[c] # "none" /\ admin[c] # u /\ admin'[c] = u => HasRow(u, c)]_vars

\* The chat of a create_chat that has not entered its creator yet.
BeingCreated(c) ==
  \E w \in Workers : job[w].at = "enter_me" /\ job[w].chat = c

\* When nobody quits or unregisters, add_member, remove_member and create_chat
\* never take the administrator out of a chat, not even between statements.
AdminStaysMember ==
  \A c \in ChatIds : status[c] = "valid" => admin[c] \in Members(c) \/ BeingCreated(c)

\* A chat that quit_from_chat deletes is empty, and stays so.
DeletedChatsAreEmpty == \A c \in ChatIds : DeletedIsEmpty(c)

\* Who has unregistered and is still a member of a chat.
Ghosts == {u \in Users \ valid : \E c \in ChatIds : u \in Members(c)}

\* What is wrong in the tables: chats, and users who are members after they have
\* unregistered, of however many chats.
Damage ==
  ({"chat"} \X {c \in ChatIds : ~AdminIsMember(c) \/ ~DeletedIsEmpty(c)})
    \cup ({"user"} \X Ghosts)

\* A failed query or a killed server harms what the request at hand is about and
\* nothing else: the one chat of a create_chat, add_member, remove_member or
\* quit_from_chat, or the one user of a user_unregister, who then stays in all
\* his chats.  With n of them, at most n things are wrong between requests.
DamageIsLocal == up /\ AtRest => Cardinality(Damage) <= faults

\* A create_chat that fails leaves no chat behind.
FailedCreateLeavesNoChat ==
  [][\A w \in Workers :
       job[w].op = "create" /\ job'[w].at = "error" /\ job[w].chat # NoChat
         => status'[job[w].chat] # "valid"]_vars

\* A remove_member is about to take the last member out of the chat.
RemovesLast(c) ==
  \E w \in Workers :
    /\ job[w].at = "remove" /\ job[w].op = "remove" /\ job[w].chat = c
    /\ Members(c) = {job[w].who}

\* While the server stays up, an empty chat is deleted in the end, however the
\* statements of the requests that empty it interleave: the last quit_from_chat to
\* look finds it empty and deletes it.  (Or it reads the NULL row and takes the server
\* down, see ServerSurvives, and the chat may stay empty after a restart.)  The one
\* exception is a chat that a remove_member empties, which nobody looks at again:
\* a remove_member beside the administrator's quit, after still_users_in_chat has
\* found the member it takes out, or by an administrator who has left.
EmptyChatIsDeleted ==
  \A c \in ChatIds :
    [](up /\ ~RemovesLast(c)) =>
      ((status[c] = "valid" /\ Members(c) = {}) ~> status[c] = "deleted")

-----------------------------------------------------------------------------
(* The chats as clients may think of them.                                 *)

\* The chats a create_chat has inserted and not answered for: not there yet.
Unfinished(c) ==
  \E w \in Workers : job[w].at \in {"enter_me", "enter_who"} /\ job[w].chat = c

\* Who is quitting counts as a member until the chat is handed over or ended,
\* and who is unregistering as gone from the chats as soon as he is invalid.
Quitting == {"still", "am_admin", "first", "handover", "close"}

Quitters(c) ==
  {job[w].me : w \in {v \in Workers : job[v].at \in Quitting /\ job[v].chat = c}}

Gone == {job[w].me : w \in {v \in Workers : job[v].at = "leave_all"}}

SeenStatus == [c \in ChatIds |-> IF Unfinished(c) THEN "none" ELSE status[c]]
SeenAdmin == [c \in ChatIds |-> IF Unfinished(c) THEN NoUser ELSE admin[c]]
SeenMembers ==
  [c \in ChatIds |-> IF Unfinished(c) THEN {} ELSE (Members(c) \cup Quitters(c)) \ Gone]

Atomic == INSTANCE ChatsAtomic WITH
            status <- SeenStatus, admin <- SeenAdmin, members <- SeenMembers

\* Until a query fails or the server is killed, every request acts on the chats
\* as if it took effect at once: the handlers implement ChatsAtomic.  This is
\* of a server that takes one request at a time, or of requests that keep
\* apart (ChatsApart).
HandlersAreAtomic ==
  /\ Atomic!Init
  /\ [][faults' = 0 => UNCHANGED Atomic!vars \/ Atomic!Next]_vars

\* No two requests at work are about one chat, and nobody is served while
\* somebody unregisters.
ChatsApart ==
  \A v, w \in Workers :
    v # w /\ job[v].at \notin Resting /\ job[w].at \notin Resting =>
      /\ job[v].op # "unregister"
      /\ job[v].chat \in ChatIds => job[v].chat # job[w].chat

\* Nobody takes members out of a chat while somebody else quits from it.
DeparturesApart ==
  \A v, w \in Workers :
    /\ v # w /\ job[v].at \notin Resting /\ job[w].at \notin Resting
    /\ job[v].op = "quit" /\ job[w].op \in {"remove", "quit", "unregister"}
    => job[w].op # "unregister" /\ job[w].chat # job[v].chat

\* The process only goes down when it is killed.
OnlyKillsStop == [][up /\ ~up' => faults' = faults + 1]_vars

\* With n failed queries and killed servers, at most n chats and users per worker
\* are harmed between requests: a kill may find each of them at work.
DamageIsBounded ==
  up /\ AtRest => Cardinality(Damage) <= faults * Cardinality(Workers)

-----------------------------------------------------------------------------
(* Inductive invariants.                                                   *)

\* What makes HandoverToMember hold: rows are never deleted, so the member a
\* quitting administrator has read still has a row when the statement runs.
HandoverInv ==
  \A w \in Workers :
    job[w].at = "handover" /\ job[w].chat \in ChatIds /\ job[w].first # NoUser
      => HasRow(job[w].first, job[w].chat)

\* What the statements already run tell a single worker w of the tables.
JobFacts(w) ==
  LET j == job[w]
      hasChat == {"enter_me", "enter_who", "admin", "who", "friend", "inside", "entry",
                  "recover", "insert", "remove", "still", "am_admin", "first",
                  "handover", "close"}
      quitting == {"still", "am_admin", "first", "handover", "close"}
  IN  /\ j.at \notin Resting => j.me \in Users
      /\ j.at \notin Resting \cup {"leave_all"} => j.me \in valid
      /\ j.at = "leave_all" => j.me \notin valid
      /\ j.at # "undo"
      /\ j.op = "quit" => j.who = j.me
      /\ j.at = "pass" => /\ j.op \in AllOps
                          /\ j.op \in {"add", "remove", "quit"} => j.chat \in ChatIds
      /\ j.at \in {"member", "new_chat", "enter_me", "enter_who"} => j.op = "create"
      /\ j.at \in {"invalidate", "leave_all"} => j.op = "unregister"
      /\ j.at = "chat" => j.op \in {"add", "remove", "quit"}
      /\ j.at \in {"chat"} \cup hasChat => j.chat \in ChatIds
      /\ j.at \in hasChat => status[j.chat] = "valid"
      /\ j.at \in {"admin", "who"} => j.op \in {"add", "remove"}
      /\ j.at \in {"who", "inside", "remove"} /\ j.op = "remove" => admin[j.chat] = j.me
      /\ j.at \in {"inside", "remove"} /\ j.op = "remove" => j.who # j.me
      /\ j.at = "inside" => j.op \in {"add", "remove", "quit"}
      /\ j.at = "remove" => j.op \in {"remove", "quit"}
      /\ j.at \in {"friend", "entry", "recover", "insert"} => j.op = "add"
      /\ j.at \in {"friend", "inside", "entry", "recover", "insert", "remove"} => j.who \in valid
      /\ j.at \in {"new_chat", "enter_me", "enter_who"} => j.who \in valid \cup {NoUser}
      /\ j.at \in quitting => j.op = "quit"
      /\ j.at \in {"enter_me", "first", "handover"} => admin[j.chat] = j.me
      /\ j.at \in {"am_admin", "first", "handover"} => Members(j.chat) # {}
      /\ j.at = "handover" => j.first \in Members(j.chat)
      /\ j.at = "close" => Members(j.chat) = {}

\* The chat w is about to give a member, an administrator or an end to.
Exposed(w, c) ==
  /\ job[w].at \in {"enter_me", "still", "am_admin", "first", "handover", "close"}
  /\ job[w].chat = c
  /\ admin[c] = job[w].me

\* The inductive invariant of a server with the one worker w and no faults.
SequentialInv(w) ==
  /\ up
  /\ faults = 0
  /\ JobFacts(w)
  /\ \A c \in ChatIds : AdminIsMember(c) \/ Exposed(w, c)
  /\ \A c \in ChatIds : DeletedIsEmpty(c)
  /\ \A c \in ChatIds : Members(c) \subseteq valid \cup (IF job[w].at = "leave_all" THEN {job[w].me} ELSE {})

\* Where nobody is asked in, a handler runs none of the statements that put a
\* user in a chat, so that a chat found empty is empty when it is closed.
ClosingEmpty(w) ==
  /\ job[w].op \notin {"create", "add"}
  /\ job[w].at \notin {"member", "new_chat", "enter_me", "undo", "enter_who",
                       "friend", "entry", "recover", "insert"}
  /\ job[w].at = "close" /\ job[w].chat \in ChatIds => Members(job[w].chat) = {}

DeparturesInv == DeletedChatsAreEmpty /\ \A w \in Workers : ClosingEmpty(w)

\* Where nobody leaves by himself, the administrator of a chat never changes: who
\* has been found to be the administrator still is, and removes somebody else.
AdminKnown(w) ==
  LET j == job[w]
      found == /\ j.chat \in ChatIds
               /\ status[j.chat] = "valid"
               /\ admin[j.chat] = j.me
  IN  /\ j.at \in Resting \cup {"pass", "member", "new_chat", "enter_me", "enter_who",
                                "chat", "admin", "who", "friend", "inside", "entry",
                                "recover", "insert", "remove"}
      /\ j.at = "pass" => j.op \in {"create", "add", "remove"} /\ j.me \in Users
      /\ j.at = "pass" /\ j.op # "create" => j.chat \in ChatIds
      /\ j.at \in {"chat", "admin", "who", "inside"} => j.op \in {"add", "remove"}
      /\ j.at = "friend" => j.op = "add"
      /\ j.at = "remove" => j.op = "remove"
      /\ j.at \in {"chat", "admin", "who", "friend", "inside", "remove"} => j.chat \in ChatIds
      /\ j.at = "admin" => status[j.chat] = "valid"
      /\ j.at \in {"enter_me", "who", "friend", "inside", "remove"} => found
      /\ j.at \in {"friend", "inside", "remove"} => j.who # j.me
      /\ j.at \in {"member", "new_chat", "enter_me"} => j.me \in Users

NoDeparturesInv == AdminStaysMember /\ \A w \in Workers : AdminKnown(w)
=============================================================================
