---------------------------- MODULE ClientThreads ----------------------------
(***************************************************************************)
(* The two threads of the client: main, which runs the menus of            *)
(* client/client_graphic_v2.c, and the notification thread, which runs     *)
(* notifications_fetch.  They share the lists of client/psd_ims_client.c   *)
(* under one mutex per list; network_mutex serialises the calls.           *)
(*                                                                         *)
(* The server is reduced to what a call returns: who asked for friendship, *)
(* which chats the user is in, and what happened since the last poll.      *)
(* screen_update_mutex is left out: only main takes it, since the call in  *)
(* notifications_fetch is commented out.                                   *)
(***************************************************************************)
EXTENDS Integers, FiniteSets

CONSTANTS Names,      \* users who may ask for friendship
          ChatIds,    \* ids of chats, given in the order of their creation
          NoName,
          MaxEvents   \* bound on what happens at the server and what fails

ASSUME ChatIdsAssumption == ChatIds \subseteq Nat \ {0}
ASSUME NoNameAssumption == NoName \notin Names
ASSUME MaxEventsAssumption == MaxEvents \in Nat

VARIABLES
  \* the client
  ui,         \* where main is: what it does, on which list, for which command
  resume,     \* where the signal handler stop_client interrupted main
  nt,         \* where the notification thread is
  holder,     \* per mutex, the thread that has locked it
  tid,        \* notifications_tid: -1, a thread, or a thread already joined
  fetching,   \* continue_fetching
  graphic,    \* continue_graphic
  requests,   \* names in client->requests
  chats,      \* ids in client->chats
  cursor,     \* the timestamp of client->chats: the newest chat received
  waiting,    \* chats with pending_messages = 1
  refused,    \* chats whose list of messages refuses what the server sends
  \* the notification thread's local results of calls
  answer,     \* notifications received and not yet handled
  got,        \* chats received and not yet added; chats whose messages failed
  \* the server
  pending,    \* names whose request to the user is in friends_request
  fresh,      \* those that came after the last poll
  member,     \* chats the user is in
  news,       \* chats whose members changed after the last poll
  mail,       \* chats with messages or read times after the last poll
  \* bounds and history
  events,     \* what happened at the server and what failed (bounded)
  signalled,  \* a signal came (one at most)
  eof,        \* stdin ended while the user was logged in
  robbed,     \* friends_mutex was unlocked by a thread that had not locked it
  unsettled,  \* names whose answer crossed a poll, or got no reply
  sought      \* chats asked for with psd_recv_chats while the user was in them

client == <<requests, chats, cursor, waiting, refused>>
server == <<pending, fresh, member, news, mail>>
thread == <<nt, answer, got>>
flags == <<tid, fetching, graphic, eof, signalled>>
history == <<robbed, unsettled, sought>>
vars == <<ui, resume, holder, events, client, server, thread, flags, history>>

-----------------------------------------------------------------------------
(* Places.                                                                 *)

Mutexes == {"friends", "requests", "chats", "network", "fetch", "graphic"}
Lists == {"friends", "requests", "chats"}

\* What a thread waits for in a place where it locks, and where it is then.
UiWants == [continue |-> [lock |-> "graphic", then |-> "continuing"],
            call |-> [lock |-> "network", then |-> "calling"],
            flag |-> [lock |-> "fetch", then |-> "flagging"]]

NtWants == [collect |-> [lock |-> "chats", then |-> "collecting"],
            poll |-> [lock |-> "network", then |-> "polling"],
            requests |-> [lock |-> "requests", then |-> "adding_requests"],
            friends |-> [lock |-> "friends", then |-> "adding_friends"],
            news |-> [lock |-> "chats", then |-> "in_news"],
            mail |-> [lock |-> "chats", then |-> "in_mail"],
            recv |-> [lock |-> "network", then |-> "receiving"],
            add |-> [lock |-> "chats", then |-> "adding_chat"],
            fetch |-> [lock |-> "chats", then |-> "in_fetch"],
            message |-> [lock |-> "network", then |-> "fetching"]]

Handler == {"stop", "rejoin", "end"}
UiPlaces == DOMAIN UiWants \cup Handler \cup
            {"out", "menu", "peek", "lock", "inside", "continuing", "calling",
             "flagging", "join", "logout", "spin", "exited", "crashed"}
Receiving == {"stamp", "recv", "receiving", "next", "add", "adding_chat"}
NtPlaces == DOMAIN NtWants \cup Receiving \cup
            {"none", "start", "collecting", "polling", "in_news", "in_mail",
             "adding_requests", "adding_friends", "in_fetch", "fetching", "check"}

Commands == {"view", "create", "pick", "send", "answer", "none"}

\* What main and the notification thread have locked in a place, had nobody
\* else unlocked it.
UiHolds(u) ==
  CASE u.at = "inside" -> {u.on}
    [] u.at = "continuing" -> {"graphic"}
    [] u.at = "calling" -> {"network"}
    [] u.at = "flagging" -> {"fetch"}
    [] OTHER -> {}

NtHolds(at) ==
  CASE at \in {"collecting", "in_news", "in_mail", "adding_chat", "in_fetch", "message"}
         -> {"chats"}
    [] at \in {"polling", "receiving"} -> {"network"}
    [] at = "adding_requests" -> {"requests"}
    [] at = "adding_friends" -> {"friends"}
    [] at = "fetching" -> {"chats", "network"}
    [] OTHER -> {}

At(place) == [at |-> place, on |-> "none", op |-> "none", who |-> NoName]

Interrupted == resume.at # "none"

\* The commands main is carrying out: the one it runs and the one interrupted.
Running == {ui, resume}

\* last_timestamp of a list of chats, 0 when it is empty.
Newest(last, set) == last \in set \cup {0} /\ \A c \in set : c <= last

NoAnswer == [requests |-> {}, news |-> {}, mail |-> {}]
Idle == [at |-> "none", chat |-> 0, last |-> 0, back |-> "none"]

UiStates == [at : UiPlaces \cup {"none"}, on : Lists \cup {"none"},
             op : Commands \cup {"quit"}, who : Names \cup {NoName}]

TypeOK ==
  /\ ui \in UiStates /\ ui.at # "none"
  /\ resume \in UiStates
  /\ nt \in [at : NtPlaces, chat : ChatIds \cup {0}, last : ChatIds \cup {0},
             back : {"news", "mail", "none"}]
  /\ holder \in [Mutexes -> {"main", "nt", "none"}]
  /\ tid \in {"none", "thread", "joined"}
  /\ fetching \in BOOLEAN /\ graphic \in BOOLEAN /\ signalled \in BOOLEAN
  /\ eof \in BOOLEAN /\ robbed \in BOOLEAN
  /\ requests \subseteq Names /\ pending \subseteq Names
  /\ fresh \subseteq Names /\ unsettled \subseteq Names
  /\ chats \subseteq ChatIds /\ waiting \subseteq chats /\ refused \subseteq chats
  /\ cursor \in ChatIds \cup {0}
  /\ answer \in [requests : SUBSET Names, news : SUBSET ChatIds, mail : SUBSET ChatIds]
  /\ got \subseteq ChatIds /\ sought \subseteq ChatIds
  /\ member \subseteq ChatIds /\ news \subseteq ChatIds /\ mail \subseteq ChatIds
  /\ events \in 0..MaxEvents

Init ==
  /\ ui = At("out") /\ resume = At("none") /\ nt = Idle
  /\ holder = [m \in Mutexes |-> "none"]
  /\ tid = "none" /\ fetching = FALSE /\ graphic = TRUE
  /\ requests = {} /\ chats = {} /\ cursor = 0 /\ waiting = {} /\ refused = {}
  /\ answer = NoAnswer /\ got = {}
  /\ pending = {} /\ fresh = {}
  /\ member = {} /\ news = {} /\ mail = {}
  /\ events = 0 /\ signalled = FALSE
  /\ eof = FALSE /\ robbed = FALSE /\ unsettled = {} /\ sought = {}

-----------------------------------------------------------------------------
(* Mutexes.  pthread_mutex_unlock frees the mutex whoever calls it: the    *)
(* default mutex does not record its owner.                                *)

Lock(t, m) == holder[m] = "none" /\ holder' = [holder EXCEPT ![m] = t]
Unlock(m) == holder' = [holder EXCEPT ![m] = "none"]

\* Something happens at the server, or fails.
Event == events < MaxEvents /\ events' = events + 1

UiGoes(place) == ui' = [ui EXCEPT !.at = place]
NtGoes(place) == nt' = [nt EXCEPT !.at = place]

UiLock ==
  /\ ui.at \in DOMAIN UiWants
  /\ Lock("main", UiWants[ui.at].lock)
  /\ UiGoes(UiWants[ui.at].then)
  /\ UNCHANGED <<resume, events, client, server, thread, flags, history>>

NtLock ==
  /\ nt.at \in DOMAIN NtWants
  /\ Lock("nt", NtWants[nt.at].lock)
  /\ NtGoes(NtWants[nt.at].then)
  /\ UNCHANGED <<ui, resume, answer, got, events, client, server, flags, history>>

-----------------------------------------------------------------------------
(* The menus.                                                              *)

\* menu_login: login, retrieve_user_data and run_notifications_thread.  No
\* other thread runs, so the locks they take are free and no step of another
\* shows.  A failed retrieve_user_data is not a failed login: the lists stay
\* empty and the first poll asks for everything since 0.
Login ==
  /\ ui.at = "out"
  /\ \A m \in Mutexes : holder[m] = "none"
  /\ \E data, create \in BOOLEAN :
       /\ IF data /\ create THEN UNCHANGED events ELSE Event
       /\ requests' = IF data THEN pending ELSE {}
       /\ chats' = IF data THEN member ELSE {}
       /\ cursor' \in ChatIds \cup {0} /\ Newest(cursor', chats')
       /\ fresh' = IF data THEN {} ELSE pending
       /\ news' = IF data THEN {} ELSE member
       /\ mail' = IF data THEN {} ELSE member
       /\ IF create THEN nt' = [Idle EXCEPT !.at = "start"] /\ tid' = "thread"
                    ELSE UNCHANGED <<nt, tid>>
  /\ ui' = At("menu")
  /\ waiting' = {} /\ refused' = {} /\ unsettled' = {} /\ sought' = {} /\ robbed' = FALSE
  /\ UNCHANGED <<resume, holder, answer, got, pending, member, fetching,
                 graphic, eof, signalled>>

\* One command of menu_main, menu_chat or menu_friend_req.  The lists come
\* first: a screen or view_friends reads one; create_new_chat shows the
\* friends and psd_create_chat looks one up; add_member_to_chat,
\* delete_member_from_chat and download_attach read one and call the server;
\* psd_send_message looks its chat up, and calls twice with an attachment.
\* show_timestamps looks at the three lists without a lock; so does
\* psd_chat_exists at the chats before menu_chat shows one, and the iteration
\* over the members of a chat in show_chat_members and delete_member_from_chat
\* before it locks the chats.  The rest only call the server.
ReadCommands ==
  {[At("lock") EXCEPT !.on = l, !.op = "view"] : l \in Lists}
  \cup {[At("lock") EXCEPT !.on = "friends", !.op = op] : op \in {"create", "pick"}}
  \cup {[At("lock") EXCEPT !.on = "chats", !.op = op] : op \in {"pick", "send"}}
PeekCommands == {[At("peek") EXCEPT !.on = "chats", !.op = op] : op \in {"view", "pick"}}
CallCommands ==
  {[At("call") EXCEPT !.op = "pick"]}
  \cup {[At("call") EXCEPT !.op = "answer", !.who = n] : n \in Names}

Command ==
  /\ ui.at = "menu"
  /\ ui' \in ReadCommands \cup PeekCommands \cup CallCommands
             \cup {[At("continue") EXCEPT !.op = "quit"]}
  /\ UNCHANGED <<resume, holder, events, client, server, thread, flags, history>>

\* What follows an unlocked look.  A number that is no chat's is dropped.
AfterPeek(u) ==
  CASE u.on = "friends" -> {[u EXCEPT !.on = "requests"]}
    [] u.on = "requests" -> {At("continue")}
    [] u.op = "view" -> {[u EXCEPT !.at = "lock"], [u EXCEPT !.on = "friends"], At("continue")}
    [] OTHER -> {[u EXCEPT !.at = "lock"]}

Peek ==
  /\ ui.at = "peek"
  /\ ui' \in AfterPeek(ui)
  /\ UNCHANGED <<resume, holder, events, client, server, thread, flags, history>>

BeginRead ==
  /\ ui.at = "lock"
  /\ Lock("main", ui.on)
  /\ UiGoes("inside")
  /\ UNCHANGED <<resume, events, client, server, thread, flags, history>>

\* What follows the reading of a list.  A name that is no friend's ends
\* psd_create_chat.
AfterRead(u) ==
  CASE u.op = "create" -> {[u EXCEPT !.at = "lock", !.op = "pick"]}
    [] u.op = "pick" /\ u.on = "friends"
         -> {[At("call") EXCEPT !.op = "pick"], At("continue")}
    [] u.op \in {"pick", "send"} -> {[At("call") EXCEPT !.op = u.op]}
    [] OTHER -> {At("continue")}

\* Mutant: psd_send_message returns without unlocking the chats.
EndRead_KeepsChats ==
  /\ ui.at = "inside" /\ ui.op # "answer"
  /\ IF ui.op = "send" THEN UNCHANGED holder ELSE Unlock(ui.on)
  /\ ui' \in AfterRead(ui)
  /\ UNCHANGED <<resume, events, client, server, thread, flags, history>>

EndRead ==
  /\ ui.at = "inside" /\ ui.op # "answer"
  /\ Unlock(ui.on)
  /\ ui' \in AfterRead(ui)
  /\ UNCHANGED <<resume, events, client, server, thread, flags, history>>

\* req_del_request of psd_send_request_accept or psd_send_request_decline.
DeleteRequest ==
  /\ ui.at = "inside" /\ ui.op = "answer"
  /\ requests' = requests \ {ui.who}
  /\ unsettled' = IF ui.who \in answer.requests THEN unsettled \cup {ui.who}
                                                ELSE unsettled
  /\ Unlock("requests")
  /\ ui' = At("continue")
  /\ UNCHANGED <<resume, events, chats, cursor, waiting, refused, server, thread, flags,
                 robbed, sought>>

\* A call that has no effect on what is modelled here, or fails.
Call ==
  /\ ui.at = "calling" /\ ui.op # "answer"
  /\ Unlock("network")
  /\ \/ ui' = At("continue")
     \/ ui.op = "send" /\ ui' = [At("call") EXCEPT !.op = "pick"]
  /\ UNCHANGED <<resume, events, client, server, thread, flags, history>>

\* Mutant: the request is deleted without locking the list.
CallAnswer_Unlocked ==
  /\ ui.at = "calling" /\ ui.op = "answer"
  /\ Unlock("network")
  /\ pending' = pending \ {ui.who} /\ fresh' = fresh \ {ui.who}
  /\ ui' = [ui EXCEPT !.at = "inside", !.on = "requests"]
  /\ UNCHANGED <<resume, events, client, member, news, mail, thread, flags, history>>

\* Mutant: the local request is not deleted.
CallAnswer_KeepsRequest ==
  /\ ui.at = "calling" /\ ui.op = "answer"
  /\ Unlock("network")
  /\ pending' = pending \ {ui.who} /\ fresh' = fresh \ {ui.who}
  /\ ui' = At("continue")
  /\ UNCHANGED <<resume, events, client, member, news, mail, thread, flags, history>>

\* The server deletes the request it is told to accept or decline, refuses a
\* name that has not asked, and a failed call may have been served.
CallAnswer ==
  /\ ui.at = "calling" /\ ui.op = "answer"
  /\ Unlock("network")
  /\ \/ /\ ui.who \in pending
        /\ pending' = pending \ {ui.who}
        /\ ui' = [at |-> "lock", on |-> "requests", op |-> "answer", who |-> ui.who]
        /\ UNCHANGED <<events, unsettled>>
     \/ /\ ui.who \notin pending
        /\ ui' = At("continue")
        /\ UNCHANGED <<events, pending, unsettled>>
     \/ /\ Event
        /\ ui' = At("continue")
        /\ \/ UNCHANGED <<pending, unsettled>>
           \/ pending' = pending \ {ui.who} /\ unsettled' = unsettled \cup {ui.who}
  /\ fresh' = fresh \cap pending'
  /\ UNCHANGED <<resume, client, member, news, mail, thread, flags,
                 robbed, sought>>

\* get_continue_graphic at the end of a loop of a menu.
Continue ==
  /\ ui.at = "continuing"
  /\ Unlock("graphic")
  /\ ui' = IF graphic /\ ui.op # "quit" THEN At("menu") ELSE At("flag")
  /\ UNCHANGED <<resume, events, client, server, thread, flags, history>>

-----------------------------------------------------------------------------
(* Leaving: logout, the end of stdin and signals.                          *)

\* set_continue_fetching(graphic, FALSE) of menu_main.
StopFetching ==
  /\ ui.at = "flagging"
  /\ fetching' = FALSE
  /\ Unlock("fetch")
  /\ ui' = At("join")
  /\ UNCHANGED <<resume, events, client, server, thread, tid, graphic, eof, signalled,
                 history>>

\* The same of stop_client, in one step: nothing interrupts the handler.  It
\* waits for ever for a mutex that main has locked.
StopClient ==
  /\ ui.at = "stop" /\ holder["fetch"] = "none"
  /\ fetching' = FALSE
  /\ ui' = At("rejoin")
  /\ UNCHANGED <<resume, holder, events, client, server, thread, tid, graphic, eof,
                 signalled, history>>

\* Mutant: nobody waits for the thread.
Join_NoWait ==
  /\ ui.at \in {"join", "rejoin"}
  /\ ui' = At(IF ui.at = "join" THEN "logout" ELSE "end")
  /\ UNCHANGED <<resume, holder, events, client, server, thread, flags, history>>

\* pthread_join, of no thread, of the thread, or of one that was joined
\* before: then its outcome is undefined.
Join ==
  /\ ui.at \in {"join", "rejoin"}
  /\ \/ /\ tid = "thread" => nt.at = "none"
        /\ ui' = At(IF ui.at = "join" THEN "logout" ELSE "end")
     \/ tid = "joined" /\ ui' = At("crashed")
  /\ tid' = IF tid = "thread" THEN "joined" ELSE tid
  /\ UNCHANGED <<resume, holder, events, client, server, thread, fetching, graphic,
                 eof, signalled, history>>

\* psd_logout, then /e leaves menu_login and /l does not.
Logout ==
  /\ ui.at = "logout"
  /\ ui' \in {At("exited")} \cup (IF graphic THEN {At("out")} ELSE {})
  /\ requests' = {} /\ chats' = {} /\ cursor' = 0 /\ waiting' = {} /\ refused' = {}
  /\ sought' = {} /\ unsettled' = {} /\ robbed' = FALSE
  /\ UNCHANGED <<resume, holder, events, server, thread, flags>>

\* Ctrl-D: menu_main returns without joining or logging out, and menu_login
\* spins, its input failing, on the last character typed: 0 leaves it.
EndOfInput ==
  /\ ui.at = "menu"
  /\ eof' = TRUE
  /\ ui' \in {At("spin"), At("exited")}
  /\ UNCHANGED <<resume, holder, events, client, server, thread, tid, fetching, graphic,
                 signalled, history>>

\* SIGINT, SIGTERM or SIGABRT, one, wherever main is.
Signal ==
  /\ ~signalled /\ ui.at \notin {"exited", "crashed"}
  /\ signalled' = TRUE
  /\ resume' = ui
  /\ ui' = At("stop")
  /\ UNCHANGED <<holder, events, client, server, thread, tid, fetching, graphic, eof,
                 history>>

\* The end of stop_client: set_continue_graphic(FALSE) and fclose(stdin).  A
\* read that was interrupted fails: menu_login ends, menu_main returns, a
\* menu inside menu_main comes back to it.  A command that was interrupted
\* goes on.
AfterStop(u) ==
  CASE u.at \in {"out", "spin"} -> {At("exited")}
    [] u.at = "menu" -> {At("exited"), At("continue")}
    [] OTHER -> {u}

EndStop ==
  /\ ui.at = "end" /\ holder["graphic"] = "none"
  /\ graphic' = FALSE
  /\ ui' \in AfterStop(resume)
  /\ resume' = At("none")
  /\ UNCHANGED <<holder, events, client, server, thread, tid, fetching, eof, signalled, history>>

-----------------------------------------------------------------------------
(* notifications_fetch.                                                    *)

\* The store on line 992 takes no lock.
Start ==
  /\ nt.at = "start"
  /\ fetching' = TRUE
  /\ NtGoes("collect")
  /\ UNCHANGED <<ui, resume, holder, answer, got, events, client, server, tid, graphic,
                 eof, signalled, history>>

\* psd_recv_notifications, after a sleep, has copied the ids and read times of
\* the chats.
Collected ==
  /\ nt.at = "collecting"
  /\ Unlock("chats")
  /\ NtGoes("poll")
  /\ UNCHANGED <<ui, resume, answer, got, events, client, server, flags, history>>

\* net_recv_notifications.  The poll asks for what happened since the second
\* of the last one, so a request that is still pending may come again.
Poll ==
  /\ nt.at = "polling"
  /\ Unlock("network")
  /\ \/ /\ \E asking \in SUBSET pending :
             /\ fresh \subseteq asking
             /\ answer' = [requests |-> asking, news |-> news, mail |-> mail]
        /\ fresh' = {} /\ news' = {} /\ mail' = {}
        /\ NtGoes("requests")
        /\ UNCHANGED events
     \/ /\ Event
        /\ NtGoes("fetch")
        /\ UNCHANGED <<answer, fresh, news, mail>>
  /\ UNCHANGED <<ui, resume, got, client, pending, member, flags, history>>

AddRequests ==
  /\ nt.at = "adding_requests"
  /\ requests' = requests \cup answer.requests
  /\ answer' = [answer EXCEPT !.requests = {}]
  /\ Unlock("requests")
  /\ NtGoes("friends")
  /\ UNCHANGED <<ui, resume, got, events, chats, cursor, waiting, refused, server, flags, history>>

AddFriends ==
  /\ nt.at = "adding_friends"
  /\ Unlock("friends")
  /\ NtGoes("news")
  /\ UNCHANGED <<ui, resume, answer, got, events, client, server, flags, history>>

\* The loops over new members, removed members and administrators, then those
\* over chats with messages and with read times: a chat that is not in the
\* list is asked for once with psd_recv_chats, outside the lock.
Inside == [news |-> "in_news", mail |-> "in_mail"]
Todo(list) == IF list = "news" THEN answer.news ELSE answer.mail

\* Mutant: a ghost chat is marked as pending.
Handle_Ghost(list, c) ==
  /\ nt.at = Inside[list]
  /\ c \in Todo(list)
  /\ c \in chats \/ nt.chat = c
  /\ answer' = [answer EXCEPT ![list] = Todo(list) \ {c}]
  /\ waiting' = IF list = "mail" THEN waiting \cup {c} ELSE waiting
  /\ nt' = [nt EXCEPT !.chat = 0, !.back = "none"]
  /\ UNCHANGED <<ui, resume, holder, got, events, requests, chats, cursor, refused,
                 server, flags, history>>

Handle(list, c) ==
  /\ nt.at = Inside[list]
  /\ c \in Todo(list)
  /\ c \in chats \/ nt.chat = c
  /\ answer' = [answer EXCEPT ![list] = Todo(list) \ {c}]
  /\ waiting' = IF list = "mail" /\ c \in chats THEN waiting \cup {c} ELSE waiting
  /\ nt' = [nt EXCEPT !.chat = 0, !.back = "none"]
  /\ UNCHANGED <<ui, resume, holder, got, events, requests, chats, cursor, refused,
                 server, flags, history>>

AskForChat(list, c) ==
  /\ nt.at = Inside[list]
  /\ c \in Todo(list) \ chats
  /\ nt.chat = 0
  /\ Unlock("chats")
  /\ nt' = [nt EXCEPT !.at = "stamp", !.chat = c, !.back = list]
  /\ UNCHANGED <<ui, resume, answer, got, events, client, server, flags, history>>

Handled(list) ==
  /\ nt.at = Inside[list]
  /\ Todo(list) = {}
  /\ Unlock("chats")
  /\ NtGoes(IF list = "news" THEN "mail" ELSE "fetch")
  /\ UNCHANGED <<ui, resume, answer, got, events, client, server, flags, history>>

-----------------------------------------------------------------------------
(* psd_recv_chats, called with no lock.                                    *)

\* The cursor is read under chats_mutex, and written under it in SaveCursor:
\* each in one step, that waits for the mutex and leaves it free.
ReadCursor ==
  /\ nt.at = "stamp" /\ holder["chats"] = "none"
  /\ NtGoes("recv")
  /\ UNCHANGED <<ui, resume, holder, answer, got, events, client, server, flags, history>>

\* net_get_chat_list: the chats the user is in that were created at or after
\* the cursor.
ReceiveChats ==
  /\ nt.at = "receiving"
  /\ Unlock("network")
  /\ \/ /\ got' = {c \in member : c >= cursor}
        /\ \E last \in ChatIds \cup {0} :
             /\ Newest(last, got')
             /\ nt' = [at |-> "next", chat |-> nt.chat, last |-> last, back |-> nt.back]
        /\ sought' = sought \cup ({nt.chat} \cap member)
        /\ UNCHANGED events
     \/ /\ Event
        /\ NtGoes(nt.back)
        /\ UNCHANGED <<got, sought>>
  /\ UNCHANGED <<ui, resume, answer, client, server, flags, robbed, unsettled>>

\* The members are looked up among the friends without a lock, and then
\* friends_mutex is unlocked.
UnlockFriends ==
  /\ nt.at = "next" /\ got # {}
  /\ robbed' = (robbed \/ holder["friends"] # "none")
  /\ Unlock("friends")
  /\ NtGoes("add")
  /\ UNCHANGED <<ui, resume, answer, got, events, client, server, flags, unsettled, sought>>

\* Mutant: the loop over the received chats ends after the first.
AddChat_One ==
  /\ nt.at = "adding_chat"
  /\ \E c \in got : chats' = chats \cup {c} /\ got' = {}
  /\ Unlock("chats")
  /\ NtGoes("next")
  /\ UNCHANGED <<ui, resume, answer, events, requests, cursor, waiting, refused, server,
                 flags, history>>

AddChat ==
  /\ nt.at = "adding_chat"
  /\ \E c \in got : chats' = chats \cup {c} /\ got' = got \ {c}
  /\ Unlock("chats")
  /\ NtGoes("next")
  /\ UNCHANGED <<ui, resume, answer, events, requests, cursor, waiting, refused, server,
                 flags, history>>

SaveCursor ==
  /\ nt.at = "next" /\ got = {} /\ holder["chats"] = "none"
  /\ cursor' = nt.last
  /\ nt' = [nt EXCEPT !.at = nt.back, !.last = 0]
  /\ UNCHANGED <<ui, resume, holder, answer, got, events, requests, chats, waiting,
                 refused, server, flags, history>>

-----------------------------------------------------------------------------
(* psd_recv_all_pending_messages and the end of the loop.                  *)

\* _recv_messages calls the server with chats_mutex locked.
FetchMessages ==
  /\ nt.at = "in_fetch"
  /\ \E c \in waiting \ got : nt' = [nt EXCEPT !.at = "message", !.chat = c]
  /\ UNCHANGED <<ui, resume, holder, answer, got, events, client, server, flags, history>>

\* Mutant: pending_messages is not reset.
Fetched_StaysPending ==
  /\ nt.at = "fetching"
  /\ Unlock("network")
  /\ nt' = [nt EXCEPT !.at = "in_fetch", !.chat = 0]
  /\ got' = got \cup {nt.chat}
  /\ UNCHANGED <<ui, resume, answer, events, client, server, flags, history>>

\* The messages are added, or the list refuses one, or the call fails; then the
\* chat stays pending for the next round.  A refused message is sent again with
\* every call, as the timestamp of the messages stays: it is refused for ever,
\* unless so many newer ones follow it that the list has no place for it.
Fetched ==
  /\ nt.at = "fetching"
  /\ Unlock("network")
  /\ nt' = [nt EXCEPT !.at = "in_fetch", !.chat = 0]
  /\ \/ /\ waiting' = waiting \ {nt.chat} /\ refused' = refused \ {nt.chat}
        /\ UNCHANGED <<got, events>>
     \/ /\ refused' = refused \cup {nt.chat} /\ got' = got \cup {nt.chat}
        /\ UNCHANGED <<waiting, events>>
     \/ /\ Event
        /\ got' = got \cup {nt.chat}
        /\ UNCHANGED <<waiting, refused>>
  /\ UNCHANGED <<ui, resume, answer, requests, chats, cursor, server, flags, history>>

AllFetched ==
  /\ nt.at = "in_fetch" /\ waiting \subseteq got
  /\ got' = {}
  /\ Unlock("chats")
  /\ NtGoes("check")
  /\ UNCHANGED <<ui, resume, answer, events, client, server, flags, history>>

\* Mutant: the thread never reads continue_fetching.
Check_Ignores ==
  /\ nt.at = "check" /\ holder["fetch"] = "none"
  /\ NtGoes("collect")
  /\ UNCHANGED <<ui, resume, holder, answer, got, events, client, server, flags, history>>

Check ==
  /\ nt.at = "check" /\ holder["fetch"] = "none"
  /\ NtGoes(IF fetching THEN "collect" ELSE "none")
  /\ UNCHANGED <<ui, resume, holder, answer, got, events, client, server, flags, history>>

-----------------------------------------------------------------------------
(* The server: other users ask for friendship, put the user in chats and   *)
(* take it out, write, and change the members of its chats.                *)

ServerEvent ==
  /\ Event
  /\ UNCHANGED <<ui, resume, holder, client, thread, flags, robbed, unsettled>>

Ask(n) ==
  /\ n \notin pending
  /\ pending' = pending \cup {n} /\ fresh' = fresh \cup {n}
  /\ ServerEvent
  /\ UNCHANGED <<member, news, mail, sought>>

AddMember(c) ==
  /\ c \notin member
  /\ member' = member \cup {c} /\ news' = news \cup {c}
  /\ mail' \in {mail, mail \cup {c}}
  /\ ServerEvent
  /\ UNCHANGED <<pending, fresh, sought>>

RemoveMember(c) ==
  /\ c \in member
  /\ member' = member \ {c} /\ news' = news \cup {c}
  /\ sought' = sought \ {c}
  /\ ServerEvent
  /\ UNCHANGED <<pending, fresh, mail>>

ChangeMembers(c) ==
  /\ c \in member
  /\ news' = news \cup {c}
  /\ ServerEvent
  /\ UNCHANGED <<pending, fresh, member, mail, sought>>

Write(c) ==
  /\ c \in member
  /\ mail' = mail \cup {c}
  /\ ServerEvent
  /\ UNCHANGED <<pending, fresh, member, news, sought>>

-----------------------------------------------------------------------------
\* The steps of the two threads that end a call to the server, and the others.
UiReturns == Call \/ CallAnswer

UiRuns ==
  \/ UiLock \/ Peek \/ BeginRead \/ EndRead \/ DeleteRequest
  \/ Continue \/ StopFetching \/ StopClient \/ Join \/ Logout \/ EndStop

User == Login \/ Command \/ EndOfInput \/ Signal

NtReturns == Poll \/ ReceiveChats \/ Fetched

NtRuns ==
  \/ Start \/ Collected \/ AddRequests \/ AddFriends
  \/ ReadCursor \/ UnlockFriends \/ AddChat \/ SaveCursor
  \/ FetchMessages \/ AllFetched \/ Check
  \/ \E list \in {"news", "mail"} :
       \/ Handled(list)
       \/ \E c \in ChatIds : Handle(list, c) \/ AskForChat(list, c)

World ==
  \/ \E n \in Names : Ask(n)
  \/ \E c \in ChatIds :
       AddMember(c) \/ RemoveMember(c) \/ ChangeMembers(c) \/ Write(c)

Next == UiRuns \/ UiReturns \/ User \/ NtLock \/ NtRuns \/ NtReturns \/ World

Spec == Init /\ [][Next]_vars

\* Both threads run, but a call need not return: net_new sets the time-outs of
\* the sockets before soap_init, which resets them.  Main waits for the user
\* between any two reads of a list, so the notification thread gets a mutex it
\* waits for: it finds it free again and again.
FairSpec == Spec /\ WF_vars(UiRuns) /\ WF_vars(NtRuns) /\ SF_vars(NtLock)

-----------------------------------------------------------------------------
(* Properties.                                                             *)

Held(t) == IF t = "main" THEN UNION {UiHolds(u) : u \in Running} ELSE NtHolds(nt.at)

\* The lists main and the notification thread use, locked or not.  That the
\* thread looks up friends without a lock is left out: main only reads them.
Peeked == {u.on : u \in {v \in Running : v.at = "peek"}}
Uses(t) == Held(t) \cup (IF t = "main" THEN Peeked ELSE {})

\* A list that a thread has locked is not used by the other one ("thread-safe
\* friend iteration block", client/psd_ims_client.h:127), but for two cases:
\* psd_recv_chats unlocks friends_mutex without having locked it, so friends
\* that come with a later poll may change the list under an iteration of main;
\* and main looks at a list without a lock for show_timestamps, for the number
\* of a chat and before it lists the members of one.
ListsAreExclusive ==
  \A l \in Uses("main") \cap Uses("nt") \cap Lists :
    \/ l = "friends" /\ robbed
    \/ l \in Peeked \ Held("main")

\* No deadlock: the two threads never wait for a mutex the other has locked,
\* and main waits for the end of the thread with no mutex the thread waits
\* for, unless stop_client interrupted a section of main.
Waits(t) ==
  IF t = "main"
    THEN CASE ui.at \in DOMAIN UiWants -> {UiWants[ui.at].lock}
           [] ui.at = "lock" -> {ui.on}
           [] ui.at = "stop" -> {"fetch"}
           [] ui.at = "end" -> {"graphic"}
           [] OTHER -> {}
    ELSE CASE nt.at \in DOMAIN NtWants -> {NtWants[nt.at].lock}
           [] nt.at = "check" -> {"fetch"}
           [] nt.at = "stamp" \/ (nt.at = "next" /\ got = {}) -> {"chats"}
           [] OTHER -> {}

Blocked(t) == \E m \in Waits(t) : holder[m] # "none"

NoDeadlock ==
  /\ Blocked("main") /\ Blocked("nt") => Interrupted
  /\ ui.at = "join" => ~Blocked("nt")

\* A friend request shown that the server no longer has is being answered
\* now, or its answer crossed the poll that brought it, or got no reply.
GhostRequestsAreExcused ==
  requests \ pending \subseteq
    unsettled \cup {u.who : u \in {v \in Running : v.op = "answer" /\ v.on = "requests"}}

\* A chat psd_recv_chats was called for is missing from the list only if the
\* list has a newer one: the cursor has passed the creation of the chat.
MissingChatsAreOlder ==
  nt.at \notin Receiving =>
    \A c \in sought \ chats : \E d \in chats : c < d

\* The lists are freed by psd_logout or psd_free_client only when the thread
\* is gone, unless stdin ended.
Freed == ui.at \in {"logout", "exited"}
ThreadEndsBeforeLists == Freed /\ ~eof => nt.at = "none"

\* A thread is in a call to the server.
InCall == ui.at = "calling" \/ nt.at \in {"polling", "receiving", "fetching"}

\* Logging out and the signal handler wait for the thread, and it ends, when
\* main has no mutex and the thread has begun its loop before it is stopped,
\* unless a call never returns.
JoinEnds ==
  (ui.at \in {"join", "rejoin"} /\ Held("main") = {} /\ nt.at # "start" /\ ~fetching)
    ~> (ui.at \notin {"join", "rejoin"} \/ []InCall)

\* The messages of a chat marked as pending are fetched, if the user stays,
\* unless the list of messages refuses one or a call never returns.
PendingIsFetched ==
  \A c \in ChatIds :
    c \in waiting ~> (\/ c \notin waiting \/ c \in refused
                     \/ signalled \/ nt.at = "none" \/ []InCall)
=============================================================================
