------------------------ MODULE ClientThreads_proofs ------------------------
(***************************************************************************)
(* Proofs about ClientThreads: its invariants hold for any set of names    *)
(* and of chats, any number of events at the server and of failures, and a *)
(* signal at any place of main.                                            *)
(***************************************************************************)
EXTENDS ClientThreads, TLAPS

-----------------------------------------------------------------------------
(* The places where a thread waits for a mutex, one by one.                *)

LEMMA UiWantsIs ==
  /\ DOMAIN UiWants = {"continue", "call", "flag"}
  /\ UiWants["continue"].lock = "graphic" /\ UiWants["continue"].then = "continuing"
  /\ UiWants["call"].lock = "network" /\ UiWants["call"].then = "calling"
  /\ UiWants["flag"].lock = "fetch" /\ UiWants["flag"].then = "flagging"
BY DEF UiWants

LEMMA NtWantsIs ==
  /\ DOMAIN NtWants = {"collect", "poll", "requests", "friends", "news", "mail",
                       "recv", "add", "fetch", "message"}
  /\ NtWants["collect"].lock = "chats" /\ NtWants["collect"].then = "collecting"
  /\ NtWants["poll"].lock = "network" /\ NtWants["poll"].then = "polling"
  /\ NtWants["requests"].lock = "requests"
  /\ NtWants["requests"].then = "adding_requests"
  /\ NtWants["friends"].lock = "friends" /\ NtWants["friends"].then = "adding_friends"
  /\ NtWants["news"].lock = "chats" /\ NtWants["news"].then = "in_news"
  /\ NtWants["mail"].lock = "chats" /\ NtWants["mail"].then = "in_mail"
  /\ NtWants["recv"].lock = "network" /\ NtWants["recv"].then = "receiving"
  /\ NtWants["add"].lock = "chats" /\ NtWants["add"].then = "adding_chat"
  /\ NtWants["fetch"].lock = "chats" /\ NtWants["fetch"].then = "in_fetch"
  /\ NtWants["message"].lock = "network" /\ NtWants["message"].then = "fetching"
BY DEF NtWants

\* A step of the notification thread at a mutex, by where it is.
LEMMA NtLockIs ==
  ASSUME NtLock
  PROVE  LET Goes(from, m, to) ==
               nt.at = from /\ holder[m] = "none"
               /\ holder' = [holder EXCEPT ![m] = "nt"] /\ nt' = [nt EXCEPT !.at = to]
         IN  \/ Goes("collect", "chats", "collecting")
             \/ Goes("poll", "network", "polling")
             \/ Goes("requests", "requests", "adding_requests")
             \/ Goes("friends", "friends", "adding_friends")
             \/ Goes("news", "chats", "in_news")
             \/ Goes("mail", "chats", "in_mail")
             \/ Goes("recv", "network", "receiving")
             \/ Goes("add", "chats", "adding_chat")
             \/ Goes("fetch", "chats", "in_fetch")
             \/ Goes("message", "network", "fetching")
<1>1. nt.at \in {"collect", "poll", "requests", "friends", "news", "mail", "recv",
                 "add", "fetch", "message"}
  BY NtWantsIs DEF NtLock
<1>2. /\ holder[NtWants[nt.at].lock] = "none"
      /\ holder' = [holder EXCEPT ![NtWants[nt.at].lock] = "nt"]
      /\ nt' = [nt EXCEPT !.at = NtWants[nt.at].then]
  BY DEF NtLock, Lock, NtGoes
<1>3. CASE nt.at = "collect"
  BY <1>2, <1>3, NtWantsIs
<1>4. CASE nt.at = "poll"
  BY <1>2, <1>4, NtWantsIs
<1>5. CASE nt.at = "requests"
  BY <1>2, <1>5, NtWantsIs
<1>6. CASE nt.at = "friends"
  BY <1>2, <1>6, NtWantsIs
<1>7. CASE nt.at = "news"
  BY <1>2, <1>7, NtWantsIs
<1>8. CASE nt.at = "mail"
  BY <1>2, <1>8, NtWantsIs
<1>9. CASE nt.at = "recv"
  BY <1>2, <1>9, NtWantsIs
<1>10. CASE nt.at = "add"
  BY <1>2, <1>10, NtWantsIs
<1>11. CASE nt.at = "fetch"
  BY <1>2, <1>11, NtWantsIs
<1>12. CASE nt.at = "message"
  BY <1>2, <1>12, NtWantsIs
<1>13. QED
  BY <1>1, <1>3, <1>4, <1>5, <1>6, <1>7, <1>8, <1>9, <1>10, <1>11, <1>12

LEMMA UiLockIs ==
  ASSUME UiLock
  PROVE  LET Goes(from, m, to) ==
               ui.at = from /\ holder[m] = "none"
               /\ holder' = [holder EXCEPT ![m] = "main"] /\ ui' = [ui EXCEPT !.at = to]
         IN  \/ Goes("continue", "graphic", "continuing")
             \/ Goes("call", "network", "calling")
             \/ Goes("flag", "fetch", "flagging")
BY UiWantsIs DEF UiLock, Lock, UiGoes

LEMMA PlacesAre ==
  /\ UiPlaces = {"continue", "call", "flag", "stop", "rejoin", "end", "out", "menu",
                 "peek", "lock", "inside", "continuing", "calling", "flagging", "join",
                 "logout", "spin", "exited", "crashed"}
  /\ NtPlaces = {"collect", "poll", "requests", "friends", "news", "mail", "recv",
                 "add", "fetch", "message", "stamp", "receiving", "next",
                 "adding_chat", "none", "start", "collecting", "polling", "in_news",
                 "in_mail", "adding_requests", "adding_friends", "in_fetch",
                 "fetching", "check"}
BY UiWantsIs, NtWantsIs DEF UiPlaces, NtPlaces, Handler, Receiving

-----------------------------------------------------------------------------
(* The shape of the two threads' states.                                   *)

\* Where main is, or was interrupted: the list it locks is one of the three,
\* and a request is answered on a list only while it is locked or waited for.
InPlace(u) ==
  /\ u.at \in {"peek", "lock", "inside"} => u.on \in Lists
  /\ u.at = "peek" => u.op # "answer"
  /\ u.op = "answer" => (u.on = "requests" <=> u.at \in {"lock", "inside"})
  /\ u.op = "answer" => u.who \in Names

\* Main is interrupted once, while the handler runs.
HandlerInv ==
  /\ ui.at \in Handler => signalled /\ resume.at # "none"
  /\ ui.at \notin Handler \cup {"crashed"} => resume = At("none")
  /\ resume.at \notin Handler \cup {"crashed", "exited"}

\* The thread exists only from the login that created it to the join.
ThreadInv ==
  /\ tid # "thread" => nt.at = "none"
  /\ ui.at \in {"out", "logout", "end"} => nt.at = "none"
  /\ ui.at = "exited" /\ ~eof => nt.at = "none"

Shape ==
  /\ InPlace(ui) /\ InPlace(resume)
  /\ HandlerInv
  /\ ThreadInv
  /\ nt.at \in Receiving => nt.back \in {"news", "mail"}
  /\ nt.at \in {"message", "fetching"} => nt.chat \in waiting

\* TypeOK in three parts: main, the notification thread and the rest.
UiTyped == ui \in UiStates /\ ui.at # "none" /\ resume \in UiStates

NtTyped ==
  nt \in [at : NtPlaces, chat : ChatIds \cup {0}, last : ChatIds \cup {0},
         back : {"news", "mail", "none"}]

RestTyped ==
  /\ holder \in [Mutexes -> {"main", "nt", "none"}]
  /\ tid \in {"none", "thread", "joined"}
  /\ fetching \in BOOLEAN /\ graphic \in BOOLEAN /\ signalled \in BOOLEAN
  /\ eof \in BOOLEAN /\ robbed \in BOOLEAN
  /\ requests \subseteq Names /\ pending \subseteq Names
  /\ fresh \subseteq Names /\ unsettled \subseteq Names
  /\ chats \subseteq ChatIds /\ waiting \subseteq chats /\ refused \subseteq chats
  /\ cursor \in ChatIds \cup {0}
  /\ answer \in [requests : SUBSET Names, news : SUBSET ChatIds, mail : SUBSET ChatIds]
  /\ got \subseteq ChatIds /\ sought \subseteq ChatIds
  /\ member \subseteq ChatIds /\ news \subseteq ChatIds /\ mail \subseteq ChatIds
  /\ events \in 0..MaxEvents

\* Places of main.
LEMMA AtTyped ==
  /\ \A p \in UiPlaces \cup {"none"} : At(p) \in UiStates /\ At(p).at = p
  /\ \A u \in UiStates : /\ \A p \in UiPlaces : [u EXCEPT !.at = p] \in UiStates
                        /\ \A op \in Commands : [u EXCEPT !.op = op] \in UiStates
                        /\ \A l \in Lists : [u EXCEPT !.on = l] \in UiStates
                        /\ \A n \in Names : [u EXCEPT !.who = n] \in UiStates
BY DEF At, UiStates, Commands

\* What happens at the server or fails is counted.
LEMMA EventIs ==
  ASSUME TypeOK, Event
  PROVE  events' \in 0..MaxEvents
BY MaxEventsAssumption DEF Event, TypeOK

\* What the answer to a request leads to.
LEMMA CallAnswerIs ==
  ASSUME CallAnswer
  PROVE  /\ ui.at = "calling" /\ ui.op = "answer"
         /\ holder' = [holder EXCEPT !["network"] = "none"]
         /\ fresh' = fresh \cap pending'
         /\ events' = events \/ Event
         /\ \/ pending' = pending /\ unsettled' = unsettled /\ ui' = At("continue")
            \/ /\ pending' = pending \ {ui.who} /\ unsettled' = unsettled
               /\ ui' = [at |-> "lock", on |-> "requests", op |-> "answer", who |-> ui.who]
            \/ /\ pending' = pending \ {ui.who}
               /\ unsettled' = unsettled \cup {ui.who} /\ ui' = At("continue")
         /\ UNCHANGED <<resume, nt, answer, got, tid, fetching, graphic, eof, signalled>>
         /\ UNCHANGED <<requests, chats, cursor, waiting, refused, member, news, mail,
             robbed, sought>>
BY DEF CallAnswer, Unlock, client, thread, flags

LEMMA CallAnswerTyped ==
  ASSUME TypeOK, Shape, CallAnswer
  PROVE  UiTyped' /\ RestTyped' /\ InPlace(ui)'
<1> USE PlacesAre, CallAnswerIs DEF TypeOK, Shape, InPlace
<1>1. ui.who \in Names
  OBVIOUS
<1>2. pending' \subseteq Names /\ fresh' \subseteq Names /\ unsettled' \subseteq Names
  BY <1>1
<1>3. holder' \in [Mutexes -> {"main", "nt", "none"}]
  BY DEF Mutexes
<1>4. events' \in 0..MaxEvents
  BY EventIs
<1>5. RestTyped'
  BY <1>2, <1>3, <1>4 DEF RestTyped
<1>6. UiTyped' /\ InPlace(ui)'
  BY <1>1 DEF UiTyped, UiStates, At, Lists, Commands
<1>7. QED BY <1>5, <1>6

\* What psd_recv_chats receives.
LEMMA ReceiveChatsIs ==
  ASSUME ReceiveChats
  PROVE  /\ nt.at = "receiving"
         /\ holder' = [holder EXCEPT !["network"] = "none"]
         /\ events' = events \/ Event
         /\ \/ /\ got' = {c \in member : c >= cursor}
               /\ sought' = sought \cup ({nt.chat} \cap member)
               /\ \E last \in ChatIds \cup {0} :
                    /\ Newest(last, got')
                    /\ nt' = [at |-> "next", chat |-> nt.chat, last |-> last, back |->
                        nt.back]
            \/ got' = got /\ sought' = sought /\ nt' = [nt EXCEPT !.at = nt.back]
         /\ UNCHANGED <<ui, resume, answer, requests, chats, cursor, waiting, refused>>
         /\ UNCHANGED <<pending, fresh, member, news, mail, robbed, unsettled>>
         /\ UNCHANGED <<tid, fetching, graphic, eof, signalled>>
BY DEF ReceiveChats, Unlock, NtGoes, client, server, flags

\* Where main is after reading a list.
LEMMA AfterReadIs ==
  ASSUME NEW u \in UiStates, u.on \in Lists, NEW v \in AfterRead(u)
  PROVE  /\ v \in UiStates
         /\ v.at \in {"lock", "call", "continue"}
         /\ v.at = "lock" => v.on = u.on
         /\ v.op # "answer"
<1>1. CASE u.op = "create"
  BY <1>1, PlacesAre DEF AfterRead, UiStates, Commands
<1>2. CASE u.op = "pick" /\ u.on = "friends"
  BY <1>2, PlacesAre DEF AfterRead, At, UiStates, Commands
<1>3. CASE u.op \in {"pick", "send"} /\ ~(u.op = "pick" /\ u.on = "friends")
  BY <1>3, PlacesAre DEF AfterRead, At, UiStates, Commands
<1>4. CASE u.op \notin {"create", "pick", "send"}
  BY <1>4, PlacesAre DEF AfterRead, At, UiStates, Commands
<1>5. QED BY <1>1, <1>2, <1>3, <1>4

\* Where main is when it begins a command.
LEMMA CommandIs ==
  ASSUME Command
  PROVE  /\ ui' \in UiStates
         /\ ui'.at \in {"peek", "lock", "call", "continue"}
         /\ ui'.at \in {"peek", "lock"} => ui'.on \in Lists
         /\ ui'.op = "answer" => ui'.at = "call" /\ ui'.on = "none" /\ ui'.who \in Names
<1>1. CASE ui' \in ReadCommands
  BY <1>1, PlacesAre DEF ReadCommands, At, UiStates, Commands, Lists
<1>2. CASE ui' \in CallCommands
  BY <1>2, PlacesAre DEF CallCommands, At, UiStates, Commands
<1>3. CASE ui' = [At("continue") EXCEPT !.op = "quit"]
  BY <1>3, PlacesAre DEF At, UiStates
<1>4. CASE ui' \in PeekCommands
  BY <1>4, PlacesAre DEF PeekCommands, At, UiStates, Commands, Lists
<1>5. QED BY <1>1, <1>2, <1>3, <1>4 DEF Command

\* Where main is after an unlocked look at a list.
LEMMA AfterPeekIs ==
  ASSUME NEW u \in UiStates, u.on \in Lists, u.at = "peek", u.op # "answer",
         NEW v \in AfterPeek(u)
  PROVE  /\ v \in UiStates
         /\ v.at \in {"peek", "lock", "continue"}
         /\ v.at \in {"peek", "lock"} => v.on \in Lists
         /\ v.op # "answer"
<1>1. CASE u.on \in {"friends", "requests"}
  BY <1>1, PlacesAre DEF AfterPeek, At, UiStates, Commands, Lists
<1>2. CASE u.on = "chats" /\ u.op = "view"
  BY <1>2, PlacesAre DEF AfterPeek, At, UiStates, Commands, Lists
<1>3. CASE u.on = "chats" /\ u.op # "view"
  BY <1>3, PlacesAre DEF AfterPeek, At, UiStates, Commands, Lists
<1>4. QED BY <1>1, <1>2, <1>3 DEF Lists

\* Where main goes on after the handler.
LEMMA AfterStopIs ==
  ASSUME NEW u \in UiStates, NEW v \in AfterStop(u)
  PROVE  \/ v = u /\ u.at \notin {"out", "spin", "menu"}
         \/ v = At("exited") /\ u.at \in {"out", "spin", "menu"}
         \/ v = At("continue") /\ u.at = "menu"
BY DEF AfterStop

LEMMA TypeStep ==
  ASSUME TypeOK, Shape, [Next]_vars
  PROVE  TypeOK'
<1> USE PlacesAre, ChatIdsAssumption, MaxEventsAssumption, NoNameAssumption DEF
    TypeOK, UiStates, Commands, Lists, Mutexes, Shape, HandlerInv, InPlace, Handler,
    client, server, thread, flags, history
<1>1. CASE UiLock
  BY <1>1, UiLockIs DEF UiLock
<1>2. CASE BeginRead
  BY <1>2 DEF BeginRead, Lock, UiGoes
<1>3. CASE EndRead
  <2>1. UiTyped'
    BY <1>3, AfterReadIs DEF EndRead, UiTyped
  <2>2. NtTyped'
    BY <1>3 DEF EndRead, NtTyped
  <2>3. RestTyped'
    BY <1>3 DEF EndRead, Unlock, RestTyped
  <2>4. QED BY <2>1, <2>2, <2>3 DEF UiTyped, NtTyped, RestTyped
<1>4. CASE DeleteRequest
  BY <1>4 DEF DeleteRequest, Unlock, At
<1>5. CASE Call
  BY <1>5 DEF Call, Unlock, At
<1>6. CASE CallAnswer
  <2>1. NtTyped'
    BY <1>6, CallAnswerIs DEF NtTyped
  <2>2. QED BY <1>6, <2>1, CallAnswerTyped DEF UiTyped, NtTyped, RestTyped
<1>7. CASE Continue
  BY <1>7 DEF Continue, Unlock, At
<1>8. CASE StopFetching
  <2>1. UiTyped'
    BY <1>8 DEF StopFetching, Unlock, At, UiTyped
  <2>2. NtTyped'
    BY <1>8 DEF StopFetching, Unlock, At, NtTyped
  <2>3. RestTyped'
    BY <1>8 DEF StopFetching, Unlock, At, RestTyped
  <2>4. QED BY <2>1, <2>2, <2>3 DEF UiTyped, NtTyped, RestTyped
<1>9. CASE StopClient
  <2>1. UiTyped'
    BY <1>9 DEF StopClient, At, UiTyped
  <2>2. NtTyped'
    BY <1>9 DEF StopClient, At, NtTyped
  <2>3. RestTyped'
    BY <1>9 DEF StopClient, At, RestTyped
  <2>4. QED BY <2>1, <2>2, <2>3 DEF UiTyped, NtTyped, RestTyped
<1>10. CASE Join
  BY <1>10 DEF Join, At
<1>11. CASE Logout
  <2>1. UiTyped'
    BY <1>11 DEF Logout, At, UiTyped
  <2>2. NtTyped'
    BY <1>11 DEF Logout, NtTyped
  <2>3. RestTyped'
    BY <1>11 DEF Logout, RestTyped
  <2>4. QED BY <2>1, <2>2, <2>3 DEF UiTyped, NtTyped, RestTyped
<1>12. CASE EndStop
  <2>1. UiTyped'
    BY <1>12, AfterStopIs DEF EndStop, At, UiTyped
  <2>2. NtTyped'
    BY <1>12 DEF EndStop, NtTyped
  <2>3. RestTyped'
    BY <1>12 DEF EndStop, RestTyped
  <2>4. QED BY <2>1, <2>2, <2>3 DEF UiTyped, NtTyped, RestTyped
<1>13. CASE Login
  <2>1. UiTyped'
    BY <1>13 DEF Login, At, UiTyped
  <2>2. NtTyped'
    BY <1>13 DEF Login, Idle, NtTyped
  <2>3. requests' \subseteq Names /\ fresh' \subseteq Names
    BY <1>13 DEF Login
  <2>4. /\ chats' \subseteq ChatIds /\ cursor' \in ChatIds \cup {0}
        /\ news' \subseteq ChatIds /\ mail' \subseteq ChatIds
    BY <1>13 DEF Login
  <2>5. events' \in 0..MaxEvents /\ tid' \in {"none", "thread", "joined"}
    BY <1>13, EventIs DEF Login
  <2>6. /\ waiting' = {} /\ refused' = {} /\ unsettled' = {} /\ sought' = {}
        /\ robbed' = FALSE
        /\ UNCHANGED <<holder, answer, got, pending, member, fetching, graphic, eof,
            signalled>>
    BY <1>13 DEF Login
  <2>7. RestTyped'
    BY <2>3, <2>4, <2>5, <2>6 DEF RestTyped
  <2>8. QED BY <2>1, <2>2, <2>7 DEF UiTyped, NtTyped, RestTyped
<1>14. CASE Command
  <2>1. UiTyped'
    BY <1>14, CommandIs DEF Command, UiTyped
  <2>2. NtTyped'
    BY <1>14 DEF Command, NtTyped
  <2>3. RestTyped'
    BY <1>14 DEF Command, RestTyped
  <2>4. QED BY <2>1, <2>2, <2>3 DEF UiTyped, NtTyped, RestTyped
<1>15. CASE EndOfInput
  BY <1>15 DEF EndOfInput, At
<1>16. CASE Signal
  BY <1>16 DEF Signal, At
<1>17. CASE NtLock
  BY <1>17, NtLockIs DEF NtLock
<1>18. CASE Start
  BY <1>18 DEF Start, NtGoes
<1>19. CASE Collected
  BY <1>19 DEF Collected, Unlock, NtGoes
<1>20. CASE Poll
  <2>1. UiTyped'
    BY <1>20 DEF Poll, UiTyped
  <2>2. NtTyped'
    BY <1>20 DEF Poll, NtGoes, NtTyped
  <2>3. answer' \in [requests : SUBSET Names, news : SUBSET ChatIds, mail : SUBSET ChatIds]
    <3>1. CASE answer' = answer
      BY <3>1
    <3>2. CASE answer' # answer
      <4>1. PICK asking \in SUBSET pending :
              answer' = [requests |-> asking, news |-> news, mail |-> mail]
        BY <1>20, <3>2 DEF Poll
      <4>2. QED BY <4>1
    <3>3. QED BY <3>1, <3>2
  <2>4. events' \in 0..MaxEvents
    BY <1>20, EventIs DEF Poll
  <2>5. RestTyped'
    BY <1>20, <2>3, <2>4 DEF Poll, Unlock, RestTyped
  <2>6. QED BY <2>1, <2>2, <2>5 DEF UiTyped, NtTyped, RestTyped
<1>21. CASE AddRequests
  BY <1>21 DEF AddRequests, Unlock, NtGoes
<1>22. CASE AddFriends
  BY <1>22 DEF AddFriends, Unlock, NtGoes
<1>23. CASE ReadCursor
  BY <1>23 DEF ReadCursor, NtGoes
<1>24. CASE ReceiveChats
  <2>1. UiTyped'
    BY <1>24, ReceiveChatsIs DEF UiTyped
  <2>2. NtTyped'
    BY <1>24, ReceiveChatsIs DEF NtTyped
  <2>3. RestTyped'
    BY <1>24, ReceiveChatsIs, EventIs DEF RestTyped
  <2>4. QED BY <2>1, <2>2, <2>3 DEF UiTyped, NtTyped, RestTyped
<1>25. CASE UnlockFriends
  BY <1>25 DEF UnlockFriends, Unlock, NtGoes
<1>26. CASE AddChat
  <2>1. UiTyped'
    BY <1>26 DEF AddChat, UiTyped
  <2>2. NtTyped'
    BY <1>26 DEF AddChat, NtGoes, NtTyped
  <2>3. RestTyped'
    BY <1>26 DEF AddChat, Unlock, RestTyped
  <2>4. QED BY <2>1, <2>2, <2>3 DEF UiTyped, NtTyped, RestTyped
<1>27. CASE SaveCursor
  <2>1. UiTyped'
    BY <1>27 DEF SaveCursor, NtGoes, UiTyped
  <2>2. NtTyped'
    BY <1>27 DEF SaveCursor, NtGoes, NtTyped
  <2>3. RestTyped'
    BY <1>27 DEF SaveCursor, NtGoes, RestTyped
  <2>4. QED BY <2>1, <2>2, <2>3 DEF UiTyped, NtTyped, RestTyped
<1>28. CASE FetchMessages
  <2>1. PICK c \in waiting : nt' = [nt EXCEPT !.at = "message", !.chat = c]
    BY <1>28 DEF FetchMessages
  <2>2. NtTyped'
    BY <2>1 DEF NtTyped
  <2>3. QED BY <1>28, <2>2 DEF FetchMessages, NtTyped
<1>29. CASE Fetched
  <2>1. UiTyped'
    BY <1>29 DEF Fetched, UiTyped
  <2>2. NtTyped'
    BY <1>29 DEF Fetched, NtTyped
  <2>3. RestTyped'
    BY <1>29, EventIs DEF Fetched, Unlock, RestTyped
  <2>4. QED BY <2>1, <2>2, <2>3 DEF UiTyped, NtTyped, RestTyped
<1>30. CASE AllFetched
  BY <1>30 DEF AllFetched, Unlock, NtGoes
<1>31. CASE Check
  BY <1>31 DEF Check, NtGoes
<1>32. ASSUME NEW list \in {"news", "mail"}, Handled(list)
      PROVE  TypeOK'
  <2>1. UiTyped'
    BY <1>32 DEF Handled, Unlock, NtGoes, Todo, Inside, UiTyped
  <2>2. NtTyped'
    BY <1>32 DEF Handled, Unlock, NtGoes, Todo, Inside, NtTyped
  <2>3. RestTyped'
    BY <1>32 DEF Handled, Unlock, NtGoes, Todo, Inside, RestTyped
  <2>4. QED BY <2>1, <2>2, <2>3 DEF UiTyped, NtTyped, RestTyped
<1>33. ASSUME NEW list \in {"news", "mail"}, NEW c \in ChatIds, Handle(list, c)
      PROVE  TypeOK'
  <2>1. UiTyped'
    BY <1>33 DEF Handle, Todo, Inside, UiTyped
  <2>2. NtTyped'
    BY <1>33 DEF Handle, Todo, Inside, NtTyped
  <2>3. RestTyped'
    BY <1>33 DEF Handle, Todo, Inside, RestTyped
  <2>4. QED BY <2>1, <2>2, <2>3 DEF UiTyped, NtTyped, RestTyped
<1>34. ASSUME NEW list \in {"news", "mail"}, NEW c \in ChatIds, AskForChat(list, c)
      PROVE  TypeOK'
  <2>1. UiTyped'
    BY <1>34 DEF AskForChat, UiTyped
  <2>2. nt' = [nt EXCEPT !.at = "stamp", !.chat = c, !.back = list]
    BY <1>34 DEF AskForChat
  <2>3. NtTyped'
    BY <1>34, <2>2 DEF NtTyped
  <2>4. RestTyped'
    BY <1>34 DEF AskForChat, Unlock, RestTyped
  <2>5. QED BY <2>1, <2>3, <2>4 DEF UiTyped, NtTyped, RestTyped
<1>35. ASSUME NEW n \in Names, Ask(n)
      PROVE  TypeOK'
  BY <1>35 DEF Ask, ServerEvent, Event
<1>36. ASSUME NEW c \in ChatIds, AddMember(c)
      PROVE  TypeOK'
  BY <1>36 DEF AddMember, ServerEvent, Event
<1>37. ASSUME NEW c \in ChatIds, RemoveMember(c)
      PROVE  TypeOK'
  BY <1>37 DEF RemoveMember, ServerEvent, Event
<1>38. ASSUME NEW c \in ChatIds, ChangeMembers(c)
      PROVE  TypeOK'
  BY <1>38 DEF ChangeMembers, ServerEvent, Event
<1>39. ASSUME NEW c \in ChatIds, Write(c)
      PROVE  TypeOK'
  BY <1>39 DEF Write, ServerEvent, Event
<1>40. CASE UNCHANGED vars
  BY <1>40 DEF vars
<1>41. CASE Peek
  BY <1>41, AfterPeekIs DEF Peek
<1>42. QED
  BY <1>1, <1>2, <1>3, <1>4, <1>5, <1>6, <1>7, <1>8, <1>9, <1>10, <1>11, <1>12, <1>13,
      <1>14, <1>15, <1>16, <1>17, <1>18, <1>19, <1>20, <1>21, <1>22, <1>23, <1>24, <1>25,
      <1>26, <1>27, <1>28, <1>29, <1>30, <1>31, <1>32, <1>33, <1>34, <1>35, <1>36, <1>37,
      <1>38, <1>39, <1>40, <1>41
     DEF Next, UiRuns, UiReturns, User, NtRuns, NtReturns, World

LEMMA ShapeStep ==
  ASSUME TypeOK, Shape, [Next]_vars
  PROVE  Shape'
<1> USE PlacesAre DEF Shape, HandlerInv, ThreadInv, InPlace, Handler, Receiving,
    TypeOK, UiStates, client, server, thread, flags, history
<1>1. CASE UiLock
  BY <1>1, UiLockIs DEF UiLock
<1>2. CASE BeginRead
  BY <1>2 DEF BeginRead, Lock, UiGoes
<1>3. CASE EndRead
  BY <1>3, AfterReadIs DEF EndRead
<1>4. CASE DeleteRequest
  BY <1>4 DEF DeleteRequest, Unlock, At
<1>5. CASE Call
  BY <1>5 DEF Call, Unlock, At
<1>6. CASE CallAnswer
  <2>1. InPlace(ui)'
    BY <1>6, CallAnswerTyped
  <2>2. ui'.at \in {"continue", "lock"}
    BY <1>6, CallAnswerIs DEF At
  <2>3. QED BY <1>6, <2>1, <2>2, CallAnswerIs
<1>7. CASE Continue
  BY <1>7 DEF Continue, Unlock, At
<1>8. CASE StopFetching
  BY <1>8 DEF StopFetching, Unlock, At
<1>9. CASE StopClient
  BY <1>9 DEF StopClient, At
<1>10. CASE Join
  BY <1>10 DEF Join, At
<1>11. CASE Logout
  BY <1>11 DEF Logout, At
<1>12. CASE EndStop
  BY <1>12, AfterStopIs DEF EndStop, At
<1>13. CASE Login
  BY <1>13 DEF Login, At, Idle, Newest, Event
<1>14. CASE Command
  BY <1>14, CommandIs DEF Command
<1>15. CASE EndOfInput
  BY <1>15 DEF EndOfInput, At
<1>16. CASE Signal
  BY <1>16 DEF Signal, At
<1>17. CASE NtLock
  BY <1>17, NtLockIs DEF NtLock
<1>18. CASE Start
  BY <1>18 DEF Start, NtGoes
<1>19. CASE Collected
  BY <1>19 DEF Collected, Unlock, NtGoes
<1>20. CASE Poll
  BY <1>20 DEF Poll, Unlock, NtGoes, Event
<1>21. CASE AddRequests
  BY <1>21 DEF AddRequests, Unlock, NtGoes
<1>22. CASE AddFriends
  BY <1>22 DEF AddFriends, Unlock, NtGoes
<1>23. CASE ReadCursor
  BY <1>23 DEF ReadCursor, NtGoes
<1>24. CASE ReceiveChats
  BY <1>24, ReceiveChatsIs
<1>25. CASE UnlockFriends
  BY <1>25 DEF UnlockFriends, Unlock, NtGoes
<1>26. CASE AddChat
  BY <1>26 DEF AddChat, Unlock, NtGoes
<1>27. CASE SaveCursor
  BY <1>27 DEF SaveCursor, NtGoes
<1>28. CASE FetchMessages
  BY <1>28 DEF FetchMessages
<1>29. CASE Fetched
  BY <1>29 DEF Fetched, Unlock, Event
<1>30. CASE AllFetched
  BY <1>30 DEF AllFetched, Unlock, NtGoes
<1>31. CASE Check
  BY <1>31 DEF Check, NtGoes
<1>32. ASSUME NEW list \in {"news", "mail"}, Handled(list)
      PROVE  Shape'
  BY <1>32 DEF Handled, Unlock, NtGoes, Todo, Inside
<1>33. ASSUME NEW list \in {"news", "mail"}, NEW c \in ChatIds, Handle(list, c)
      PROVE  Shape'
  BY <1>33 DEF Handle, Todo, Inside
<1>34. ASSUME NEW list \in {"news", "mail"}, NEW c \in ChatIds, AskForChat(list, c)
      PROVE  Shape'
  BY <1>34 DEF AskForChat, Unlock, Todo, Inside
<1>35. ASSUME NEW n \in Names, Ask(n)
      PROVE  Shape'
  BY <1>35 DEF Ask, ServerEvent, Event
<1>36. ASSUME NEW c \in ChatIds, AddMember(c)
      PROVE  Shape'
  BY <1>36 DEF AddMember, ServerEvent, Event
<1>37. ASSUME NEW c \in ChatIds, RemoveMember(c)
      PROVE  Shape'
  BY <1>37 DEF RemoveMember, ServerEvent, Event
<1>38. ASSUME NEW c \in ChatIds, ChangeMembers(c)
      PROVE  Shape'
  BY <1>38 DEF ChangeMembers, ServerEvent, Event
<1>39. ASSUME NEW c \in ChatIds, Write(c)
      PROVE  Shape'
  BY <1>39 DEF Write, ServerEvent, Event
<1>40. CASE UNCHANGED vars
  BY <1>40 DEF vars
<1>41. CASE Peek
  BY <1>41, AfterPeekIs DEF Peek
<1>42. QED
  BY <1>1, <1>2, <1>3, <1>4, <1>5, <1>6, <1>7, <1>8, <1>9, <1>10, <1>11, <1>12, <1>13,
      <1>14, <1>15, <1>16, <1>17, <1>18, <1>19, <1>20, <1>21, <1>22, <1>23, <1>24, <1>25,
      <1>26, <1>27, <1>28, <1>29, <1>30, <1>31, <1>32, <1>33, <1>34, <1>35, <1>36, <1>37,
      <1>38, <1>39, <1>40, <1>41
     DEF Next, UiRuns, UiReturns, User, NtRuns, NtReturns, World

-----------------------------------------------------------------------------
(* Who has locked what.  LockInv ties the mutexes to the places of the two *)
(* threads: what a thread has locked, in the place where it is and in the  *)
(* one where a signal found it, it still has, friends_mutex apart once it  *)
(* was unlocked by the other.                                              *)

MainIn(u, m) ==
  \/ u.at = "inside" /\ m = u.on
  \/ u.at = "continuing" /\ m = "graphic"
  \/ u.at = "calling" /\ m = "network"
  \/ u.at = "flagging" /\ m = "fetch"

NtIn(at, m) ==
  \/ /\ at \in {"collecting", "in_news", "in_mail", "adding_chat", "in_fetch",
                "message", "fetching"}
     /\ m = "chats"
  \/ at \in {"polling", "receiving", "fetching"} /\ m = "network"
  \/ at = "adding_requests" /\ m = "requests"
  \/ at = "adding_friends" /\ m = "friends"

LEMMA HoldsAre ==
  /\ \A u, m : m \in UiHolds(u) <=> MainIn(u, m)
  /\ \A at, m : m \in NtHolds(at) <=> NtIn(at, m)
BY DEF UiHolds, NtHolds, MainIn, NtIn

MainHas(m) == MainIn(ui, m) \/ MainIn(resume, m)
NtHas(m) == NtIn(nt.at, m)

LockInv ==
  \A m \in Mutexes :
    /\ holder[m] = "main" => MainHas(m)
    /\ holder[m] = "nt" => NtHas(m)
    /\ (m = "friends" => ~robbed)
       => (MainHas(m) => holder[m] = "main") /\ (NtHas(m) => holder[m] = "nt")

LEMMA LockStep ==
  ASSUME TypeOK, Shape, LockInv, [Next]_vars
  PROVE  LockInv'
<1> USE PlacesAre DEF LockInv, MainHas, MainIn, NtHas, NtIn, Mutexes, Lists, Shape,
    HandlerInv, ThreadInv, InPlace, Handler, Receiving, TypeOK, UiStates, client, server,
    thread, flags, history
<1>1. CASE UiLock
  BY <1>1, UiLockIs DEF UiLock
<1>2. CASE BeginRead
  BY <1>2 DEF BeginRead, Lock, UiGoes
<1>3. CASE EndRead
  <2>1. /\ ui.at = "inside" /\ ui.on \in Mutexes /\ resume = At("none")
        /\ holder' = [holder EXCEPT ![ui.on] = "none"] /\ resume' = resume
        /\ nt' = nt /\ robbed' = robbed
    BY <1>3 DEF EndRead, Unlock
  <2>2. ui'.at \in {"lock", "call", "continue"}
    BY <1>3, AfterReadIs DEF EndRead
  <2>3. QED BY <2>1, <2>2 DEF At
<1>4. CASE DeleteRequest
  BY <1>4 DEF DeleteRequest, Unlock, At
<1>5. CASE Call
  BY <1>5 DEF Call, Unlock, At
<1>6. CASE CallAnswer
  BY <1>6, CallAnswerIs DEF At
<1>7. CASE Continue
  BY <1>7 DEF Continue, Unlock, At
<1>8. CASE StopFetching
  BY <1>8 DEF StopFetching, Unlock, At
<1>9. CASE StopClient
  BY <1>9 DEF StopClient, At
<1>10. CASE Join
  BY <1>10 DEF Join, At
<1>11. CASE Logout
  BY <1>11 DEF Logout, At
<1>12. CASE EndStop
  BY <1>12, AfterStopIs DEF EndStop, At
<1>13. CASE Login
  BY <1>13 DEF Login, At, Idle, Newest, Event
<1>14. CASE Command
  BY <1>14, CommandIs DEF Command
<1>15. CASE EndOfInput
  BY <1>15 DEF EndOfInput, At
<1>16. CASE Signal
  BY <1>16 DEF Signal, At
<1>17. CASE NtLock
  BY <1>17, NtLockIs DEF NtLock
<1>18. CASE Start
  BY <1>18 DEF Start, NtGoes
<1>19. CASE Collected
  BY <1>19 DEF Collected, Unlock, NtGoes
<1>20. CASE Poll
  BY <1>20 DEF Poll, Unlock, NtGoes, Event
<1>21. CASE AddRequests
  BY <1>21 DEF AddRequests, Unlock, NtGoes
<1>22. CASE AddFriends
  BY <1>22 DEF AddFriends, Unlock, NtGoes
<1>23. CASE ReadCursor
  BY <1>23 DEF ReadCursor, NtGoes
<1>24. CASE ReceiveChats
  BY <1>24, ReceiveChatsIs
<1>25. CASE UnlockFriends
  <2>1. /\ ui' = ui /\ resume' = resume /\ nt.at = "next" /\ nt'.at = "add"
        /\ holder' = [holder EXCEPT !["friends"] = "none"]
    BY <1>25 DEF UnlockFriends, Unlock, NtGoes
  <2>2. \A m \in Mutexes \ {"friends"} :
          /\ holder'[m] = "main" => MainHas(m)'
          /\ holder'[m] = "nt" => NtHas(m)'
          /\ (MainHas(m)' => holder'[m] = "main") /\ (NtHas(m)' => holder'[m] = "nt")
    BY <2>1
  <2>3. ~robbed' => ~robbed /\ holder["friends"] = "none"
    BY <1>25 DEF UnlockFriends
  <2>4. ~robbed' => ~MainHas("friends")' /\ ~NtHas("friends")'
    BY <2>1, <2>3
  <2>5. QED BY <2>1, <2>2, <2>4
<1>26. CASE AddChat
  BY <1>26 DEF AddChat, Unlock, NtGoes
<1>27. CASE SaveCursor
  BY <1>27 DEF SaveCursor, NtGoes
<1>28. CASE FetchMessages
  BY <1>28 DEF FetchMessages
<1>29. CASE Fetched
  BY <1>29 DEF Fetched, Unlock, Event
<1>30. CASE AllFetched
  BY <1>30 DEF AllFetched, Unlock, NtGoes
<1>31. CASE Check
  BY <1>31 DEF Check, NtGoes
<1>32. ASSUME NEW list \in {"news", "mail"}, Handled(list)
      PROVE  LockInv'
  BY <1>32 DEF Handled, Unlock, NtGoes, Todo, Inside
<1>33. ASSUME NEW list \in {"news", "mail"}, NEW c \in ChatIds, Handle(list, c)
      PROVE  LockInv'
  BY <1>33 DEF Handle, Todo, Inside
<1>34. ASSUME NEW list \in {"news", "mail"}, NEW c \in ChatIds, AskForChat(list, c)
      PROVE  LockInv'
  BY <1>34 DEF AskForChat, Unlock, Todo, Inside
<1>35. ASSUME NEW n \in Names, Ask(n)
      PROVE  LockInv'
  BY <1>35 DEF Ask, ServerEvent, Event
<1>36. ASSUME NEW c \in ChatIds, AddMember(c)
      PROVE  LockInv'
  BY <1>36 DEF AddMember, ServerEvent, Event
<1>37. ASSUME NEW c \in ChatIds, RemoveMember(c)
      PROVE  LockInv'
  BY <1>37 DEF RemoveMember, ServerEvent, Event
<1>38. ASSUME NEW c \in ChatIds, ChangeMembers(c)
      PROVE  LockInv'
  BY <1>38 DEF ChangeMembers, ServerEvent, Event
<1>39. ASSUME NEW c \in ChatIds, Write(c)
      PROVE  LockInv'
  BY <1>39 DEF Write, ServerEvent, Event
<1>40. CASE UNCHANGED vars
  BY <1>40 DEF vars
<1>41. CASE Peek
  BY <1>41, AfterPeekIs DEF Peek
<1>42. QED
  BY <1>1, <1>2, <1>3, <1>4, <1>5, <1>6, <1>7, <1>8, <1>9, <1>10, <1>11, <1>12, <1>13,
      <1>14, <1>15, <1>16, <1>17, <1>18, <1>19, <1>20, <1>21, <1>22, <1>23, <1>24, <1>25,
      <1>26, <1>27, <1>28, <1>29, <1>30, <1>31, <1>32, <1>33, <1>34, <1>35, <1>36, <1>37,
      <1>38, <1>39, <1>40, <1>41
     DEF Next, UiRuns, UiReturns, User, NtRuns, NtReturns, World

-----------------------------------------------------------------------------
(* Requests the server no longer has.  A poll may hold one that is settled *)
(* before its result is added to the list: the names received and not yet  *)
(* added count as shown.                                                   *)

Answering(u, n) == u.op = "answer" /\ u.on = "requests" /\ u.who = n

GhostInv ==
  /\ \A n \in (requests \cup answer.requests) \ pending :
       n \in unsettled \/ Answering(ui, n) \/ Answering(resume, n)
  /\ nt.at \notin {"requests", "adding_requests"} => answer.requests = {}

LEMMA GhostStep ==
  ASSUME TypeOK, Shape, GhostInv, [Next]_vars
  PROVE  GhostInv'
<1> USE PlacesAre DEF GhostInv, Answering, Shape, HandlerInv, ThreadInv, InPlace,
    Handler, TypeOK, UiStates, client, server, thread, flags, history
<1>1. CASE UiLock
  BY <1>1, UiLockIs DEF UiLock
<1>2. CASE BeginRead
  BY <1>2 DEF BeginRead, Lock, UiGoes
<1>3. CASE EndRead
  BY <1>3, AfterReadIs DEF EndRead
<1>4. CASE DeleteRequest
  BY <1>4 DEF DeleteRequest, Unlock, At
<1>5. CASE Call
  BY <1>5 DEF Call, Unlock, At
<1>6. CASE CallAnswer
  BY <1>6, CallAnswerIs DEF At
<1>7. CASE Continue
  BY <1>7 DEF Continue, Unlock, At
<1>8. CASE StopFetching
  BY <1>8 DEF StopFetching, Unlock, At
<1>9. CASE StopClient
  BY <1>9 DEF StopClient, At
<1>10. CASE Join
  BY <1>10 DEF Join, At
<1>11. CASE Logout
  BY <1>11 DEF Logout, At
<1>12. CASE EndStop
  BY <1>12, AfterStopIs DEF EndStop, At
<1>13. CASE Login
  BY <1>13 DEF Login, At, Idle, Newest, Event
<1>14. CASE Command
  BY <1>14, CommandIs DEF Command
<1>15. CASE EndOfInput
  BY <1>15 DEF EndOfInput, At
<1>16. CASE Signal
  BY <1>16 DEF Signal, At
<1>17. CASE NtLock
  BY <1>17, NtLockIs DEF NtLock
<1>18. CASE Start
  BY <1>18 DEF Start, NtGoes
<1>19. CASE Collected
  BY <1>19 DEF Collected, Unlock, NtGoes
<1>20. CASE Poll
  BY <1>20 DEF Poll, Unlock, NtGoes, Event
<1>21. CASE AddRequests
  BY <1>21 DEF AddRequests, Unlock, NtGoes
<1>22. CASE AddFriends
  BY <1>22 DEF AddFriends, Unlock, NtGoes
<1>23. CASE ReadCursor
  BY <1>23 DEF ReadCursor, NtGoes
<1>24. CASE ReceiveChats
  BY <1>24, ReceiveChatsIs
<1>25. CASE UnlockFriends
  BY <1>25 DEF UnlockFriends, Unlock, NtGoes
<1>26. CASE AddChat
  BY <1>26 DEF AddChat, Unlock, NtGoes
<1>27. CASE SaveCursor
  BY <1>27 DEF SaveCursor, NtGoes
<1>28. CASE FetchMessages
  BY <1>28 DEF FetchMessages
<1>29. CASE Fetched
  BY <1>29 DEF Fetched, Unlock, Event
<1>30. CASE AllFetched
  BY <1>30 DEF AllFetched, Unlock, NtGoes
<1>31. CASE Check
  BY <1>31 DEF Check, NtGoes
<1>32. ASSUME NEW list \in {"news", "mail"}, Handled(list)
      PROVE  GhostInv'
  BY <1>32 DEF Handled, Unlock, NtGoes, Todo, Inside
<1>33. ASSUME NEW list \in {"news", "mail"}, NEW c \in ChatIds, Handle(list, c)
      PROVE  GhostInv'
  BY <1>33 DEF Handle, Todo, Inside
<1>34. ASSUME NEW list \in {"news", "mail"}, NEW c \in ChatIds, AskForChat(list, c)
      PROVE  GhostInv'
  BY <1>34 DEF AskForChat, Unlock, Todo, Inside
<1>35. ASSUME NEW n \in Names, Ask(n)
      PROVE  GhostInv'
  BY <1>35 DEF Ask, ServerEvent, Event
<1>36. ASSUME NEW c \in ChatIds, AddMember(c)
      PROVE  GhostInv'
  BY <1>36 DEF AddMember, ServerEvent, Event
<1>37. ASSUME NEW c \in ChatIds, RemoveMember(c)
      PROVE  GhostInv'
  BY <1>37 DEF RemoveMember, ServerEvent, Event
<1>38. ASSUME NEW c \in ChatIds, ChangeMembers(c)
      PROVE  GhostInv'
  BY <1>38 DEF ChangeMembers, ServerEvent, Event
<1>39. ASSUME NEW c \in ChatIds, Write(c)
      PROVE  GhostInv'
  BY <1>39 DEF Write, ServerEvent, Event
<1>40. CASE UNCHANGED vars
  BY <1>40 DEF vars
<1>41. CASE Peek
  BY <1>41, AfterPeekIs DEF Peek
<1>42. QED
  BY <1>1, <1>2, <1>3, <1>4, <1>5, <1>6, <1>7, <1>8, <1>9, <1>10, <1>11, <1>12, <1>13,
      <1>14, <1>15, <1>16, <1>17, <1>18, <1>19, <1>20, <1>21, <1>22, <1>23, <1>24, <1>25,
      <1>26, <1>27, <1>28, <1>29, <1>30, <1>31, <1>32, <1>33, <1>34, <1>35, <1>36, <1>37,
      <1>38, <1>39, <1>40, <1>41
     DEF Next, UiRuns, UiReturns, User, NtRuns, NtReturns, World

-----------------------------------------------------------------------------
(* Chats that were asked for.  The cursor and the one to be saved are 0 or *)
(* chats of the list, once the chats received are added; and what the user *)
(* asked for is on its way to the list or older than one of its chats.     *)

Adding == {"next", "add", "adding_chat"}

CursorInv ==
  /\ cursor \in chats \cup {0}
  /\ nt.at \in Adding => nt.last \in chats \cup got \cup {0}
  /\ \A c \in sought \ chats :
       \/ c \in got /\ nt.at \in Adding
       \/ \E d \in chats : c < d

LEMMA CursorStep ==
  ASSUME TypeOK, Shape, CursorInv, [Next]_vars
  PROVE  CursorInv'
<1> USE PlacesAre, ChatIdsAssumption DEF CursorInv, Adding, Shape, HandlerInv,
    ThreadInv, Receiving, Handler, TypeOK, client, server, thread, flags, history
<1>1. CASE UiLock
  BY <1>1, UiLockIs DEF UiLock
<1>2. CASE BeginRead
  BY <1>2 DEF BeginRead, Lock, UiGoes
<1>3. CASE EndRead
  BY <1>3 DEF EndRead
<1>4. CASE DeleteRequest
  BY <1>4 DEF DeleteRequest, Unlock, At
<1>5. CASE Call
  BY <1>5 DEF Call
<1>6. CASE CallAnswer
  <2>1. UNCHANGED <<nt, got, chats, cursor, sought>>
    BY <1>6, CallAnswerIs
  <2>2. QED BY <2>1
<1>7. CASE Continue
  BY <1>7 DEF Continue, Unlock, At
<1>8. CASE StopFetching
  BY <1>8 DEF StopFetching, Unlock, At
<1>9. CASE StopClient
  BY <1>9 DEF StopClient, At
<1>10. CASE Join
  BY <1>10 DEF Join, At
<1>11. CASE Logout
  BY <1>11 DEF Logout, At
<1>12. CASE EndStop
  BY <1>12 DEF EndStop, AfterStop, At
<1>13. CASE Login
  BY <1>13 DEF Login, At, Idle, Newest, Event
<1>14. CASE Command
  BY <1>14 DEF Command, ReadCommands, CallCommands, At, Lists
<1>15. CASE EndOfInput
  BY <1>15 DEF EndOfInput, At
<1>16. CASE Signal
  BY <1>16 DEF Signal, At
<1>17. CASE NtLock
  BY <1>17, NtLockIs DEF NtLock
<1>18. CASE Start
  BY <1>18 DEF Start, NtGoes
<1>19. CASE Collected
  BY <1>19 DEF Collected, Unlock, NtGoes
<1>20. CASE Poll
  BY <1>20 DEF Poll, Unlock, NtGoes, Event
<1>21. CASE AddRequests
  BY <1>21 DEF AddRequests, Unlock, NtGoes
<1>22. CASE AddFriends
  BY <1>22 DEF AddFriends, Unlock, NtGoes
<1>23. CASE ReadCursor
  BY <1>23 DEF ReadCursor, NtGoes
<1>24. CASE ReceiveChats
  BY <1>24, ReceiveChatsIs DEF Newest
<1>25. CASE UnlockFriends
  BY <1>25 DEF UnlockFriends, Unlock, NtGoes
<1>26. CASE AddChat
  BY <1>26 DEF AddChat, Unlock, NtGoes
<1>27. CASE SaveCursor
  BY <1>27 DEF SaveCursor, NtGoes
<1>28. CASE FetchMessages
  BY <1>28 DEF FetchMessages
<1>29. CASE Fetched
  BY <1>29 DEF Fetched, Unlock, Event
<1>30. CASE AllFetched
  BY <1>30 DEF AllFetched, Unlock, NtGoes
<1>31. CASE Check
  BY <1>31 DEF Check, NtGoes
<1>32. ASSUME NEW list \in {"news", "mail"}, Handled(list)
      PROVE  CursorInv'
  BY <1>32 DEF Handled, Unlock, NtGoes, Todo, Inside
<1>33. ASSUME NEW list \in {"news", "mail"}, NEW c \in ChatIds, Handle(list, c)
      PROVE  CursorInv'
  BY <1>33 DEF Handle, Todo, Inside
<1>34. ASSUME NEW list \in {"news", "mail"}, NEW c \in ChatIds, AskForChat(list, c)
      PROVE  CursorInv'
  BY <1>34 DEF AskForChat, Unlock, Todo, Inside
<1>35. ASSUME NEW n \in Names, Ask(n)
      PROVE  CursorInv'
  BY <1>35 DEF Ask, ServerEvent, Event
<1>36. ASSUME NEW c \in ChatIds, AddMember(c)
      PROVE  CursorInv'
  BY <1>36 DEF AddMember, ServerEvent, Event
<1>37. ASSUME NEW c \in ChatIds, RemoveMember(c)
      PROVE  CursorInv'
  BY <1>37 DEF RemoveMember, ServerEvent, Event
<1>38. ASSUME NEW c \in ChatIds, ChangeMembers(c)
      PROVE  CursorInv'
  BY <1>38 DEF ChangeMembers, ServerEvent, Event
<1>39. ASSUME NEW c \in ChatIds, Write(c)
      PROVE  CursorInv'
  BY <1>39 DEF Write, ServerEvent, Event
<1>40. CASE UNCHANGED vars
  BY <1>40 DEF vars
<1>41. CASE Peek
  BY <1>41, AfterPeekIs DEF Peek
<1>42. QED
  BY <1>1, <1>2, <1>3, <1>4, <1>5, <1>6, <1>7, <1>8, <1>9, <1>10, <1>11, <1>12, <1>13,
      <1>14, <1>15, <1>16, <1>17, <1>18, <1>19, <1>20, <1>21, <1>22, <1>23, <1>24, <1>25,
      <1>26, <1>27, <1>28, <1>29, <1>30, <1>31, <1>32, <1>33, <1>34, <1>35, <1>36, <1>37,
      <1>38, <1>39, <1>40, <1>41
     DEF Next, UiRuns, UiReturns, User, NtRuns, NtReturns, World

-----------------------------------------------------------------------------
(* The theorems.                                                           *)

IInv == TypeOK /\ Shape /\ LockInv /\ GhostInv /\ CursorInv

LEMMA InitIInv == Init => IInv
<1> SUFFICES ASSUME Init PROVE IInv
  OBVIOUS
<1> USE PlacesAre, MaxEventsAssumption DEF Init
<1>1. TypeOK
  <2>1. UiTyped
    BY DEF UiTyped, UiStates, At, Commands
  <2>2. NtTyped
    BY DEF NtTyped, Idle
  <2>3. answer \in [requests : SUBSET Names, news : SUBSET ChatIds, mail : SUBSET ChatIds]
    BY DEF NoAnswer
  <2>4. holder \in [Mutexes -> {"main", "nt", "none"}]
    OBVIOUS
  <2>5. /\ fetching \in BOOLEAN /\ graphic \in BOOLEAN /\ signalled \in BOOLEAN
        /\ eof \in BOOLEAN /\ robbed \in BOOLEAN
    OBVIOUS
  <2>6. events \in 0..MaxEvents /\ tid \in {"none", "thread", "joined"}
    OBVIOUS
  <2>7. RestTyped
    BY <2>3, <2>4, <2>5, <2>6 DEF RestTyped
  <2>8. QED BY <2>1, <2>2, <2>7 DEF TypeOK, UiTyped, NtTyped, RestTyped
<1>2. Shape
  BY DEF Shape, InPlace, HandlerInv, ThreadInv, Handler, Receiving, At, Idle
<1>3. LockInv
  BY DEF LockInv, MainHas, MainIn, NtHas, NtIn, At, Idle
<1>4. GhostInv
  BY DEF GhostInv, NoAnswer
<1>5. CursorInv
  BY DEF CursorInv, Adding, Idle
<1>6. QED BY <1>1, <1>2, <1>3, <1>4, <1>5 DEF IInv

LEMMA Invariance == Spec => []IInv
<1>1. IInv /\ [Next]_vars => IInv'
  BY TypeStep, ShapeStep, LockStep, GhostStep, CursorStep DEF IInv
<1>2. QED BY InitIInv, <1>1, PTL DEF Spec

\* The lists, mutexes and places have the values they are meant to have.
THEOREM Typing == Spec => []TypeOK
BY Invariance, PTL DEF IInv

\* A list that a thread has locked is not used by the other, but for the
\* friends after the stray unlock of psd_recv_chats and for the unlocked looks
\* of main.
THEOREM Exclusion == Spec => []ListsAreExclusive
<1>1. IInv => ListsAreExclusive
  <2> SUFFICES ASSUME IInv, NEW l \in Lists, l \in Uses("main"), l \in Uses("nt")
               PROVE  (l = "friends" /\ robbed) \/ l \in Peeked \ Held("main")
    BY DEF ListsAreExclusive
  <2>1. CASE l \notin Held("main")
    BY <2>1 DEF Uses
  <2>2. CASE l \in Held("main")
    <3>1. MainHas(l) /\ NtHas(l)
      BY <2>2, HoldsAre DEF Uses, Held, Running, MainHas, NtHas
    <3>2. l \in Mutexes
      BY DEF Lists, Mutexes
    <3>3. QED BY <3>1, <3>2 DEF IInv, LockInv
  <2>3. QED BY <2>1, <2>2
<1>2. QED BY Invariance, <1>1, PTL

\* What a thread waits for, by its place.
LEMMA WaitsAre ==
  /\ \A m \in Waits("main") :
       /\ m \in Mutexes \/ (ui.at = "lock" /\ m = ui.on)
       /\ ui.at \in {"continue", "call", "flag", "lock", "stop", "end"}
  /\ \A m \in Waits("nt") : m \in Mutexes /\ ~NtIn(nt.at, m)
  /\ \A m \in Waits("nt") : nt.at # "none"
<1>1. ASSUME NEW m \in Waits("main")
      PROVE  /\ m \in Mutexes \/ (ui.at = "lock" /\ m = ui.on)
             /\ ui.at \in {"continue", "call", "flag", "lock", "stop", "end"}
  BY <1>1, UiWantsIs DEF Waits, Mutexes
<1>2. ASSUME NEW m \in Waits("nt")
      PROVE  m \in Mutexes /\ ~NtIn(nt.at, m) /\ nt.at # "none"
  <2>1. CASE nt.at \in {"collect", "poll", "requests", "friends", "news"}
    BY <1>2, <2>1, NtWantsIs DEF Waits, Mutexes, NtIn
  <2>2. CASE nt.at \in {"mail", "recv", "add", "fetch", "message"}
    BY <1>2, <2>2, NtWantsIs DEF Waits, Mutexes, NtIn
  <2>3. CASE nt.at \in {"check", "stamp", "next"}
    BY <1>2, <2>3, NtWantsIs DEF Waits, Mutexes, NtIn
  <2>4. CASE nt.at \notin {"collect", "poll", "requests", "friends", "news", "mail", "recv",
                         "add", "fetch", "message", "check", "stamp", "next"}
    BY <1>2, <2>4, NtWantsIs DEF Waits
  <2>5. QED BY <2>1, <2>2, <2>3, <2>4
<1>3. QED BY <1>1, <1>2

\* No deadlock: while no signal has interrupted a section of main, one of two
\* threads that wait can go on, and main joins a thread that is not blocked.
THEOREM DeadlockFreedom == Spec => []NoDeadlock
<1>1. ASSUME IInv, resume.at = "none", Blocked("nt"), \A m \in Mutexes : ~MainIn(ui, m)
      PROVE  FALSE
  <2>1. PICK m \in Waits("nt") : holder[m] # "none"
    BY <1>1 DEF Blocked
  <2>2. m \in Mutexes /\ ~NtHas(m)
    BY <2>1, WaitsAre DEF NtHas
  <2>3. ~MainHas(m)
    BY <1>1, <2>2 DEF MainHas, MainIn
  <2>4. holder[m] \in {"main", "nt", "none"}
    BY <1>1, <2>2 DEF IInv, TypeOK
  <2>5. QED BY <1>1, <2>1, <2>2, <2>3, <2>4 DEF IInv, LockInv
<1>2. ASSUME IInv PROVE NoDeadlock
  <2>1. ASSUME Blocked("main"), Blocked("nt"), ~Interrupted
        PROVE  FALSE
    <3>1. ui.at \in {"continue", "call", "flag", "lock", "stop", "end"}
      BY <2>1, WaitsAre DEF Blocked
    <3>2. \A m \in Mutexes : ~MainIn(ui, m)
      BY <3>1 DEF MainIn
    <3>3. QED BY <1>1, <1>2, <2>1, <3>2 DEF Interrupted
  <2>2. ASSUME ui.at = "join", Blocked("nt")
        PROVE  FALSE
    <3>1. resume.at = "none"
      BY <1>2, <2>2 DEF IInv, Shape, HandlerInv, Handler, At
    <3>2. \A m \in Mutexes : ~MainIn(ui, m)
      BY <2>2 DEF MainIn
    <3>3. QED BY <1>1, <1>2, <2>2, <3>1, <3>2
  <2>3. QED BY <2>1, <2>2 DEF NoDeadlock
<1>3. QED BY Invariance, <1>2, PTL

\* A request shown that the server no longer has is being answered, or its
\* answer crossed a poll or got no reply.
THEOREM Ghosts == Spec => []GhostRequestsAreExcused
<1>1. IInv => GhostRequestsAreExcused
  BY DEF IInv, GhostInv, Answering, GhostRequestsAreExcused, Running
<1>2. QED BY Invariance, <1>1, PTL

\* A chat asked for that is missing from the list is older than one of its
\* chats: the cursor skips nothing else.
THEOREM Cursor == Spec => []MissingChatsAreOlder
<1>1. IInv => MissingChatsAreOlder
  BY DEF IInv, CursorInv, Adding, Receiving, MissingChatsAreOlder
<1>2. QED BY Invariance, <1>1, PTL

\* The lists are freed when the notification thread is gone, unless stdin ended.
THEOREM Ends == Spec => []ThreadEndsBeforeLists
<1>1. IInv => ThreadEndsBeforeLists
  BY DEF IInv, Shape, ThreadInv, ThreadEndsBeforeLists, Freed
<1>2. QED BY Invariance, <1>1, PTL


=============================================================================
