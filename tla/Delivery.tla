------------------------------ MODULE Delivery ------------------------------
(***************************************************************************)
(* How the messages of one chat reach its members: send_message,           *)
(* get_chat_messages, get_pending_notifications and get_all_data of        *)
(* server/psd_ims_server.c, with the client that calls them: its menu      *)
(* thread (send, open the chat, log in and out) and its notification       *)
(* thread (sleep, poll, fetch).                                            *)
(*                                                                         *)
(* Everything is keyed by a time in whole seconds: a message has no id but *)
(* its stamp, a client remembers the stamp its next fetch starts from (the *)
(* cursor) and the time of its last poll, and "read" means a stamp too.    *)
(* The network_mutex of a client admits one request at a time, and the     *)
(* chats_mutex is held during a whole fetch; on the server every request   *)
(* has a thread of its own, so the requests of different clients           *)
(* interleave at every SQL statement.                                      *)
(***************************************************************************)
EXTENDS Naturals, SequencesExt

CONSTANTS Users,        \* the members of the chat
          Senders,      \* those of them who write
          Joined,       \* users_chats.CREATION_TIME, the same for all members
          MaxTime,      \* bound on the clock
          MaxMessages,  \* the bound of a client's message list
          Prompt,       \* no second passes between a stamp and its INSERT
          Relogin,      \* users log out and in again
          MaxFaults     \* bound on failed queries

ASSUME SendersAssumption == Senders \subseteq Users
ASSUME TimeAssumption == Joined \in Nat \ {0} /\ MaxTime \in Nat /\ Joined <= MaxTime
ASSUME MaxMessagesAssumption == MaxMessages \in Nat \ {0}
ASSUME MaxFaultsAssumption == MaxFaults \in Nat
ASSUME SwitchesAssumption == Prompt \in BOOLEAN /\ Relogin \in BOOLEAN

VARIABLES
  now,      \* time(NULL) of the server
  rows,     \* the rows of table messages
  readMsg,  \* users_chats.READ_MSG_TIME of each member
  readAll,  \* chats.READ_TIME
  client,   \* what each client keeps between requests
  call,     \* the request each client has at the server
  faults    \* failed queries so far (history, bounded)

vars == <<now, rows, readMsg, readAll, client, call, faults>>

Times == 0..MaxTime

\* A sender waits for the reply to one message before the next, and stamps
\* never repeat for one sender: a message is known by these two.
Messages == [sender : Users, stamp : Times]

\* call[u]: the statement the server runs next for u and the handler's local
\* variables: t is local_time or last_timestamp, found the result of
\* get_notif_chats_with_messages.
NoCall == [at |-> "none", t |-> 0, found |-> FALSE]

\* client[u].at: where u is in the loop of notifications_fetch; sent: the copy of
\* the read time a poll takes with it.  got is history: the messages fetched
\* since the login, those the bounded list dropped included.  Locals that are
\* not used any more go back to 0.
LoggedOut == [at |-> "out", wake |-> 0, lastNotif |-> 0, pending |-> FALSE,
              cursor |-> 0, list |-> <<>>, got |-> {},
              readTs |-> 0, sent |-> 0, allRead |-> 0]

Client == [at : {"out", "data", "sleep", "poll", "fetch"},
           wake : 0..MaxTime + 1, lastNotif : Times, pending : BOOLEAN,
           cursor : Nat, list : Seq(Messages), got : SUBSET Messages,
           readTs : Nat, sent : Nat, allRead : Nat]

Call == [at : {"none", "check", "insert", "nap", "data_chats",
               "sync_all", "clock", "chats", "times"},
         t : Nat, found : BOOLEAN]

\* A client shows nothing it has not fetched, and fetches nothing but rows.
TypeOK ==
  /\ now \in Joined..MaxTime
  /\ rows \subseteq Messages
  /\ readMsg \in [Users -> Nat]
  /\ readAll \in Nat
  /\ client \in [Users -> Client]
  /\ \A u \in Users : /\ Len(client[u].list) <= MaxMessages
                      /\ Range(client[u].list) \subseteq client[u].got
                      /\ client[u].got \subseteq rows
  /\ call \in [Users -> Call]
  /\ faults \in 0..MaxFaults

\* A new chat: create_chat has just written its rows, nobody is logged in.
Init ==
  /\ now = Joined
  /\ rows = {}
  /\ readMsg = [u \in Users |-> Joined]
  /\ readAll = 0
  /\ client = [u \in Users |-> LoggedOut]
  /\ call = [u \in Users |-> NoCall]
  /\ faults = 0

-----------------------------------------------------------------------------
Online(u) == client[u].at \in {"sleep", "poll", "fetch"}

\* The network_mutex of u is free.
Free(u) == call[u].at = "none"

CallGoes(u, next) == call' = [call EXCEPT ![u] = next]

Returns(u) == CallGoes(u, NoCall)

\* A query fails, or none does.
Fault == faults < MaxFaults /\ faults' = faults + 1
NoFault == UNCHANGED faults

\* The rows of table messages a member may see.
Visible == {m \in rows : m.stamp > Joined}

Stamps(M) == {m.stamp : m \in M}

-----------------------------------------------------------------------------
(* The clock.                                                              *)

\* One second passes.  Where Prompt holds it waits for the messages that have
\* been stamped: the server is faster than its clock is coarse.
Tick ==
  /\ now < MaxTime
  /\ Prompt => \A u \in Users : call[u].at \notin {"check", "insert"}
  /\ now' = now + 1
  /\ UNCHANGED <<rows, readMsg, readAll, client, call, faults>>

-----------------------------------------------------------------------------
(* send_message.                                                           *)

\* local_time = time(NULL), of a new request or after the sleep(1) of one that
\* found its stamp taken.  Members stay in the chat: the membership test passes.
SendStamp(u) ==
  /\ u \in Senders
  /\ \/ Online(u) /\ Free(u)
     \/ call[u].at = "nap" /\ now >= call[u].t
  /\ CallGoes(u, [NoCall EXCEPT !.at = "check", !.t = now])
  /\ UNCHANGED <<now, rows, readMsg, readAll, client, faults>>

\* exist_timestamp_in_messages: a failed query (-1) counts as a taken stamp.
StampTaken(t) == t \in Stamps(rows)

\* Mutant: instead of waiting for the next second the handler takes its stamp.
SendCheck_NextSecond(u) ==
  /\ call[u].at = "check"
  /\ CallGoes(u, [call[u] EXCEPT !.at = "insert",
                                 !.t = IF StampTaken(@) THEN @ + 1 ELSE @])
  /\ UNCHANGED <<now, rows, readMsg, readAll, client, faults>>

SendCheck(u) ==
  /\ call[u].at = "check"
  /\ \/ /\ (StampTaken(call[u].t) /\ NoFault) \/ Fault
        /\ CallGoes(u, [NoCall EXCEPT !.at = "nap", !.t = now + 1])
     \/ /\ ~ StampTaken(call[u].t) /\ NoFault
        /\ CallGoes(u, [call[u] EXCEPT !.at = "insert"])
  /\ UNCHANGED <<now, rows, readMsg, readAll, client>>

\* send_messages: the INSERT, and the reply.
SendInsert(u) ==
  /\ call[u].at = "insert"
  /\ \/ NoFault /\ rows' = rows \cup {[sender |-> u, stamp |-> call[u].t]}
     \/ Fault /\ UNCHANGED rows
  /\ Returns(u)
  /\ UNCHANGED <<now, readMsg, readAll, client>>

-----------------------------------------------------------------------------
(* get_chat_messages and _recv_messages.                                   *)

\* Mutant: the query excludes the cursor itself.
Pending_Strict(cursor) == {m \in Visible : m.stamp > cursor}

\* The rows get_list_messages returns for a cursor.
Pending(cursor) == {m \in Visible : m.stamp >= cursor}

\* last_timestamp: the newest stamp, or the cursor when there is none, plus
\* one: an empty fetch moves the cursor, too.  The mutant adds two.
NextCursor_Twice(cursor, batch) ==
  {s + 2 : s \in {t \in Stamps(batch) \cup {cursor} :
                    \A d \in Stamps(batch) : d <= t}}
NextCursor(cursor, batch) ==
  {s + 1 : s \in {t \in Stamps(batch) \cup {cursor} :
                    \A d \in Stamps(batch) : d <= t}}

\* cha_add_messages: of more messages than the list holds only the last ones,
\* for which room is made at the front of the list ...
NewestOf(batch) ==
  IF Len(batch) > MaxMessages
  THEN SubSeq(batch, Len(batch) - MaxMessages + 1, Len(batch)) ELSE batch

Kept(list, batch) ==
  LET gapsNeeded == Len(batch) - (MaxMessages - Len(list))
  IN  IF gapsNeeded > 0 THEN SubSeq(list, gapsNeeded + 1, Len(list)) ELSE list

\* ... are appended one by one until list_add_item refuses one, for the list is
\* full or has its stamp already.  n of them can be added.
Refused(list, batch, i) ==
  \/ Len(list) + i > MaxMessages
  \/ batch[i].stamp \in Stamps(Range(list))
  \/ \E j \in 1..(i - 1) : batch[j].stamp = batch[i].stamp

Addable(list, batch, n) ==
  /\ \A i \in 1..n : ~ Refused(list, batch, i)
  /\ n < Len(batch) => Refused(list, batch, n + 1)

\* One iteration of notifications_fetch ends with client record c: the thread
\* goes to sleep(1), or has been told to stop and psd_logout forgets everything.
EndIteration(u, c) ==
  \/ client' = [client EXCEPT ![u] = [c EXCEPT !.at = "sleep", !.wake = now + 1]]
  \/ /\ Relogin /\ Online(u) /\ Free(u)
     /\ client' = [client EXCEPT ![u] = LoggedOut]

\* _recv_messages.  The SELECT has no ORDER BY.  It is one action with what the
\* client does with the rows: chats_mutex is held until the end.
ReceiveMessages(u, c) ==
  /\ Free(u)
  /\ \/ /\ NoFault
        /\ \E batch \in SetToSeqs(Pending(c.cursor)) :
          LET new == NewestOf(batch)
              kept == Kept(c.list, new)
          IN  \E n \in 0..Len(new) :
                LET added == SubSeq(new, 1, n)
                    listed == [c EXCEPT !.list = kept \o added]
                IN  /\ Addable(kept, new, n)
                    /\ IF n = Len(new)
                       THEN \E next \in NextCursor(c.cursor, Range(batch)) :
                              EndIteration(u, [listed EXCEPT
                                !.got = @ \cup Range(batch),
                                !.pending = FALSE, !.cursor = next])
                       ELSE EndIteration(u, [listed EXCEPT
                              !.got = @ \cup Range(added)])
     \/ Fault /\ EndIteration(u, c)
  /\ UNCHANGED <<now, rows, readMsg, readAll, call>>

\* psd_recv_all_pending_messages.
Fetch(u) ==
  /\ client[u].at = "fetch"
  /\ IF client[u].pending
     THEN ReceiveMessages(u, client[u])
     ELSE /\ EndIteration(u, client[u])
          /\ UNCHANGED <<now, rows, readMsg, readAll, call, faults>>

-----------------------------------------------------------------------------
(* Logging in: get_all_data (psd_recv_all_data), then a first fetch of the  *)
(* whole chat (psd_recv_all_messages).                                     *)

LoginClock(u) ==
  /\ client[u].at = "out" /\ Free(u)
  /\ CallGoes(u, [NoCall EXCEPT !.at = "data_chats", !.t = now])
  /\ UNCHANGED <<now, rows, readMsg, readAll, client, faults>>

LoginChats(u) ==
  /\ call[u].at = "data_chats"
  /\ client' = [client EXCEPT ![u] = [LoggedOut EXCEPT
                   !.at = "data", !.lastNotif = call[u].t,
                   !.readTs = readMsg[u], !.allRead = readAll]]
  /\ Returns(u)
  /\ UNCHANGED <<now, rows, readMsg, readAll, faults>>

LoginFetch(u) ==
  /\ client[u].at = "data"
  /\ ReceiveMessages(u, client[u])

-----------------------------------------------------------------------------
(* get_pending_notifications and psd_recv_notifications.                   *)

\* sleep(1) is over; the poll copies the read time under chats_mutex.
Wake(u) ==
  /\ client[u].at = "sleep" /\ now >= client[u].wake
  /\ client' = [client EXCEPT ![u].at = "poll", ![u].wake = 0,
                              ![u].sent = client[u].readTs]
  /\ UNCHANGED <<now, rows, readMsg, readAll, call, faults>>

\* update_sync: the read time of the member, then the one of the chat.  The
\* handler ignores its result: a failed query only skips the rest of it.
SyncEnds(u) ==
  /\ CallGoes(u, [NoCall EXCEPT !.at = "clock"])
  /\ client' = [client EXCEPT ![u].sent = 0]

SyncMine(u) ==
  /\ client[u].at = "poll" /\ Free(u)
  /\ \/ /\ NoFault
        /\ readMsg' = [readMsg EXCEPT ![u] = IF @ < client[u].sent
                                             THEN client[u].sent ELSE @]
        /\ CallGoes(u, [NoCall EXCEPT !.at = "sync_all"])
        /\ UNCHANGED client
     \/ /\ Fault
        /\ UNCHANGED readMsg
        /\ SyncEnds(u)
  /\ UNCHANGED <<now, rows, readAll>>

\* Mutants: the subquery finds somebody who has read, or is left out.
AllHaveRead_Some(r) == \E v \in Users : readMsg[v] >= r
AllHaveRead_Always(r) == TRUE
AllHaveRead(r) == \A v \in Users : readMsg[v] >= r

SyncAll(u) ==
  /\ call[u].at = "sync_all"
  /\ \/ /\ NoFault
        /\ readAll' = IF AllHaveRead(client[u].sent) THEN client[u].sent
                                                     ELSE readAll
     \/ Fault /\ UNCHANGED readAll
  /\ SyncEnds(u)
  /\ UNCHANGED <<now, rows, readMsg>>

\* notifications->last_timestamp = time(NULL).
PollClock(u) ==
  /\ call[u].at = "clock"
  /\ CallGoes(u, [NoCall EXCEPT !.at = "chats", !.t = now])
  /\ UNCHANGED <<now, rows, readMsg, readAll, client, faults>>

\* The request fails: the client goes on to its fetch with what it had.
PollFails(u) ==
  /\ Fault
  /\ Returns(u)
  /\ client' = [client EXCEPT ![u].at = "fetch"]
  /\ UNCHANGED <<now, rows, readMsg, readAll>>

\* get_notif_chats_with_messages.  Mutant: the last second is not asked again.
Announced_Strict(since) == \E m \in Visible : m.stamp > since
Announced(since) == \E m \in Visible : m.stamp >= since

PollChats(u) ==
  /\ call[u].at = "chats"
  /\ \/ /\ CallGoes(u, [call[u] EXCEPT !.at = "times",
                            !.found = Announced(client[u].lastNotif)])
        /\ UNCHANGED <<now, rows, readMsg, readAll, client, faults>>
     \/ PollFails(u)

\* get_notif_chats_read_times, the queries about friends and members, which
\* may fail as well, and what the client does with the reply.
PollTimes(u) ==
  /\ call[u].at = "times"
  /\ \/ /\ client' = [client EXCEPT ![u].at = "fetch",
                           ![u].lastNotif = call[u].t,
                           ![u].pending = @ \/ call[u].found,
                           ![u].allRead = readAll]
        /\ Returns(u)
        /\ UNCHANGED <<now, rows, readMsg, readAll, faults>>
     \/ PollFails(u)

-----------------------------------------------------------------------------
(* The screen of the chat.                                                 *)

\* screen_chat_show: when there is a message on it, cha_clear_unread takes the
\* cursor as the time up to which the user has read.
OpenChat(u) ==
  /\ Online(u)
  /\ client[u].list # <<>>
  /\ client' = [client EXCEPT ![u].readTs = client[u].cursor]
  /\ UNCHANGED <<now, rows, readMsg, readAll, call, faults>>

-----------------------------------------------------------------------------
Next ==
  \/ Tick
  \/ \E u \in Users :
       \/ SendStamp(u) \/ SendCheck(u) \/ SendInsert(u)
       \/ LoginClock(u) \/ LoginChats(u) \/ LoginFetch(u)
       \/ Wake(u) \/ SyncMine(u) \/ SyncAll(u)
       \/ PollClock(u) \/ PollChats(u) \/ PollTimes(u)
       \/ Fetch(u) \/ OpenChat(u)

Spec == Init /\ [][Next]_vars

-----------------------------------------------------------------------------
(* Safety.                                                                 *)

\* A fetch moves a cursor at most to the second after it, even though empty
\* fetches count it up (persistence.c:791): the sleep(1) between two fetches
\* makes up for it.  So a message of a later second is never behind a cursor.
CursorNotAhead ==
  \A u \in Users : client[u].cursor <= IF client[u].at = "sleep"
                                      THEN client[u].wake ELSE now

\* A cursor never passes a message that is in the table without the client
\* getting it, whether the list is full, refuses a message, or a query fails.
FetchSkipsNothing ==
  [][\A u \in Users : \A m \in Visible :
       client[u].cursor <= m.stamp /\ m.stamp < client'[u].cursor
         => m \in client'[u].got]_vars

\* A message that a client can still fetch will be asked for: a fetch is
\* pending or the message is not older than the last poll.  The exception is
\* a client whose first fetch failed (cursor 0).  Needs Prompt: the comment in
\* get_pending_notifications ("There may be problems with this") is right.
UnfetchedIsAnnounced ==
  \A u \in Users : Online(u) /\ client[u].cursor # 0 =>
    \A m \in Visible : client[u].cursor <= m.stamp =>
      client[u].pending \/ client[u].lastNotif <= m.stamp

\* What Project_notes.txt:8 asks for ("recibir mensajes de texto de otros
\* usuario"): no message is left behind the cursor of a member without having
\* been fetched, since nothing asks for it again.
Skipped(u, m) == m.stamp < client[u].cursor /\ m \notin client[u].got
NoneSkipped == \A u \in Users : \A m \in Visible : ~ Skipped(u, m)

\* A message with no other in its second and the one before is never skipped:
\* a cursor is at most two beyond the newest message.
Spaced(m) == \A n \in rows \ {m} : n.stamp > m.stamp \/ n.stamp + 2 <= m.stamp
SpacedNeverSkipped ==
  \A u \in Users : \A m \in Visible : Spaced(m) => ~ Skipped(u, m)

\* No two messages have the same stamp, which stands for an id everywhere:
\* "they need diferent timestamps" (psd_ims_server.c:1113).
StampsDistinct == \A m, n \in rows : m.stamp = n.stamp => m = n

\* Within a session and with one sender the read time of the chat
\* (chats.READ_TIME) never goes back, in whatever order the polls of the members
\* arrive.  With two messages of one stamp it may: a full list refuses the
\* second of a first fetch, and the cursor stays at 0.
ReadTimeMonotonic == [][readAll' >= readAll]_vars

\* A message older than the read time a client has been told is behind the
\* cursor of every member: a double check is never shown for a message that
\* some client has yet to ask for.
ConfirmedBehindCursors ==
  \A u, v \in Users : \A m \in Visible :
    m.stamp < client[u].allRead => m.stamp < client[v].cursor
=============================================================================
