# A TLA+ model of PSD-IMS

PSD-IMS is an instant message service: a gSOAP server (`src/server`) that keeps
users, friends, chats and messages in a MySQL database, and a terminal client
(`src/client`) that sends requests and fetches notifications from a background
thread. This directory holds TLA+ modules translated from that code, TLC
configurations that check them on small instances, and TLAPS proofs of what
matters most for every instance. Paths below are relative to the repository.

## How to run

    tlc -config chats_sequential.cfg MCChats     # and the other chats_*.cfg
    tlc -config delivery_any.cfg MCDelivery      # and the other delivery_*.cfg
    tlc -config friendship.cfg MCFriendship
    tlc -config client_threads.cfg MCClientThreads
    tlc -config server_pool.cfg MCServerPool
    tlapm Chats_proofs.tla                       # and the other *_proofs.tla

## Inventory

### The server

| component | state | operations | what makes it correct |
|---|---|---|---|
| **Chat membership** `psd_ims_server.c` 340-379, 840-1079 | tables `chats` (ID_ADMIN, VALID), `users_chats` (REM_TIME), `users.VALID` | create_chat, add_member, remove_member, quit_from_chat, user_unregister | a usable chat is administered by a member; a deleted chat is empty; a chat its last member quits is deleted; no request ends the process |
| **Accounts** 271-333 | `users` | user_register, check_login | a login that was refused has no effect; a name belongs to one row |
| **Friendship** 1136-1262 | `friends`, `friends_request` | send_friend_request, accept_request, decline_request | one row per request; one row per friendship, unless two users have asked each other; an accepted or declined request is gone; nobody becomes a friend unasked |
| **Messages** 566-598, 1086-1129 | `messages`, `users_chats.READ_MSG_TIME` | send_message, get_chat_messages | two messages of a chat differ in their stamp; what was sent is delivered to every member once |
| **Notifications, read receipts** 779-833 | `chats.READ_TIME`, `users_chats.READ_MSG_TIME`, the client's cursor | get_pending_notifications, update_sync | no notification is lost; read times never go back |
| **Lists and infos** 386-559, 736-772 | none of their own | get_user, get_friends, get_friend_info, get_chats, get_chat_info, get_all_data | they return what the tables hold |
| **Attachments** 602-729 | files named after chat and stamp, `messages.FILE_` | send_attachment, get_attachment | a message that announces a file has it |
| **Listening loop** 160-268, `server.c` | the count of live threads, its mutex and condition | listen_connection, free_server, stop_server | every accepted connection is served; a stop ends |
| **Persistence** `persistence.c` | a MySQL connection per request | one SQL statement per function, in autocommit | returns 1/0/-1 (readers) or 0/-1 (writers) |

### The client

| component | state | operations | what makes it correct |
|---|---|---|---|
| **Core** `psd_ims_client.c` | a mutex per list (chats, friends, requests, new chats) and one for the network; notification cursor | psd_login ... psd_decline_request, psd_recv_notifications | every path releases what it locks; no lost or resurrected item |
| **Structures** `common/list.c`, `chats.c`, `messages.c`, `friends.c`, `friend_requests.c`, `chat_members.c` | bounded lists with an order and duplicate checks | add, find, delete, delete first or last | size within the bound, order and uniqueness kept |
| **Interface** `client_graphic_v2.c` | the flag `continue_fetching`, the notification thread | menu_login, menu_main, notifications_fetch, stop_client | the thread stops when the user logs out |
| **Network** `network.c`, `rpc/ims.h` | the soap context | one wrapper per request | - |

### How the parts interact

A request is one SOAP call. The server serves it in a thread of its own
(`mthread_listen_connection`), with a database connection of its own
(`clone_persistence`), when the MySQL client library is thread safe; otherwise
the main thread serves one request at a time (`sthread_listen_connection`). The
handlers share nothing but the database, use no transaction and no lock: every
SQL statement is atomic and anything may happen between two of them. The client
calls from the menu thread and from the notification thread, which share the
lists under the mutexes, and remembers a cursor (a time in seconds) that the
next fetch starts from.

The hard behaviours are therefore: interleavings of statements of several
handlers; statements that fail half way through a handler (nothing is rolled
back); the server killed between two statements; integers tested in different
ways (`!= 1`, `== 1`, `!x`), which gives a failed query a different meaning
at every call; time stamps in seconds used as identities and as cursors; two
client threads with several mutexes; threads that must be waited for.
`PROJECT.json` lists each hazard at its line.

## Modules

| module | models |
|---|---|
| `ChatTables` | the columns of `users`, `chats`, `users_chats` and `friends` that membership depends on, and the functions of `persistence.c` on them: a SELECT is a predicate, an INSERT or UPDATE an action |
| `Chats` | the five handlers that change membership, `check_login`, the worker threads, failed queries, a killed and restarted server |
| `ChatsAtomic` | what these handlers promise: every request takes effect at once or not at all |
| `MCChats` | the values of the constants for TLC |
| `Chats_proofs` | theorems about `Chats` and their proofs |
| `Damage_proofs` | the theorem about failed queries and killed servers |
| `ChatsAtomic_proofs` | the refinement of `ChatsAtomic`, and the theorems about several threads whose requests keep apart |
| `Delivery` | how messages, their notifications and read times travel between the members of one chat: four handlers of the server and the two threads of each client |
| `MCDelivery` | the values of the constants for TLC |
| `Delivery_proofs` | theorems about `Delivery` and their proofs |
| `ReadTimes_proofs` | the theorems about its stamps and read times |
| `Friendship` | accounts, friend requests and friendships: five handlers of the server, statement by statement |
| `FriendshipAtomic` | what they promise: every request takes effect at once or not at all |
| `MCFriendship` | the symmetry of users and workers for TLC |
| `Friendship_proofs` | theorems about `Friendship`, the refinement among them |
| `ClientThreads` | the two threads of the client, their mutexes and the lists they share |
| `MCClientThreads` | the ids of the chats for TLC |
| `ClientThreads_proofs` | theorems about `ClientThreads` and their proofs |
| `ServerPool` | the threads of the server, the count of them, and the signal handler |
| `MCServerPool` | the values of the constants for TLC |
| `ServerPool_proofs` | theorems about `ServerPool` and their proofs |

The three modules of handlers are checked apart. Where they meet in the tables, the
one that reads takes what the other writes as given: `Chats` reads `friends` and
takes its rows as a constant (nothing deletes a friendship), `Delivery` reads
`users_chats` and takes the members as fixed. `users.VALID` is a variable of both
`Chats` and `Friendship`. `ServerPool` has the threads all of them run in, and
`ClientThreads` the client at the other end of the calls.

### Chats, ChatTables and ChatsAtomic

**Tables.** `live[c][u]` and `left[c][u]` count the rows of `users_chats` of a
user in a chat with REM_TIME zero and not zero: there is no unique key on the
pair, so that there may be several, and an UPDATE rewrites all of them.
`status[c]` says whether chat `c` has no row yet, a row with VALID 1 or one
with VALID 0. Row times are left out except for that. Rows of `friends` are a
constant: no handler of this component changes them.

**Jobs.** `job[w]` is the request worker `w` serves: its operation, the
statement it runs next (`at`), and the handler's local variables (`me` the id of
the sender, `who` the id of the named user, `chat`, `first`). A worker at rest
keeps the reply of its last request as its place (`"ok"`, `"error"`). One action
is one SQL statement and the branch taken on its result; statements that two
handlers share are one action, and `Refused` holds the three different tests of
exist_user_in_chat. `Answers(b)` is what a reader may return: 1 or 0, or -1
while the bound on faults allows; `Attempt` is the same for a writer. What each
handler then does with a -1 is its own test, kept literally: for instance
`if(!is_admin(...))` lets a failed query pass and `still_users_in_chat(...) == 1`
takes it for an empty chat.

**Abstraction.** In `ChatsAtomic` a chat has a status, an administrator and a set of
members, and a chat is created, joined, left, handed over or ended in one step. The
mapping (`SeenStatus`, `SeenAdmin`, `SeenMembers`) hides what clients may not count on
yet: the chat of a create_chat that has not answered is not there (`Unfinished`), who is
quitting is a member until the chat is handed over or ended (`Quitters`), and who is
unregistering is out of the chats as soon as he is invalid (`Gone`). So a quit takes
effect at its last statement and an unregistration at its first. The rows of a pair and
the order of the checks are forgotten. An administrator who unregisters keeps his title,
as the code leaves it.

Details worth a note:

* A request of an unknown user, or with a wrong password, changes nothing and
  is left out; a request that arrives has found its sender's id (the first
  statement of `check_login`). When the user is unregistered before the second
  one, the password buffer is uninitialised: `CheckPass` goes either way.
* `create_chat` tests the wrong variable after looking the member up, so an
  unknown member goes on as -1 until the foreign key rejects it (`EnterMember`).
* `get_first_users_in_chat` has no ORDER BY: any member. With no row it reads
  through a null pointer: the process ends (`up` becomes FALSE).
* The test of its result against 1 cannot hold: the row with ID 1 is the user
  System, which has no VALID and can enter no chat. `change_admin` returns 0 or
  -1, never 1, so that a failed hand-over is answered SOAP_OK.
* The server leaves the cloned connection open on every early return; running
  out of connections looks to a handler like a request that never started.

### Delivery

One chat with members that stay. A message is its sender and its stamp, a time in
seconds; `now` is the server's clock. `rows` is table `messages`, `readMsg` and
`readAll` the two columns of read times.

**Clients.** `client[u]` is what `u`'s process keeps between requests: the place of
its notification thread in the loop of `notifications_fetch` (`at`), the time its
sleep ends, the time of its last poll (`lastNotif`), whether the chat has a
fetch pending, the cursor (the `timestamp` of the chat), the bounded list of
messages, the two read times. `got` is history: what was fetched since the login.
`network_mutex` admits one request of a client at a time (`Free`), and
`chats_mutex` is held during a whole fetch, so that `ReceiveMessages` is one
action: the SELECT, the new cursor, the room made in the list, the messages
appended until the list refuses one. The SELECT has no ORDER BY: any order.

**Requests.** `call[u]` is the request `u` has at the server: the statement it runs
next and the handler's locals. Requests of different clients interleave at every
statement and at every tick of the clock. `SendStamp`, `SendCheck` and `SendInsert` are
send_message, with the wait for the next second when a stamp is taken;
`Wake` to `PollTimes` a poll; `LoginClock`, `LoginChats`, `LoginFetch` the login.

**Settings.** `Prompt`: no second passes between the stamp of a message and its
INSERT (the server is fast, its clock coarse); `Relogin`: users log out and in
again; `MaxFaults` bounds failed queries. A property that needs one of them is
run with it, and its theorem names it.

Details worth a note:

* An empty fetch moves the cursor one second on (`NextCursor`). It happens whenever
  a message was announced twice, which is whenever it was stamped in the second
  of a poll.
* A read time is the newest stamp plus one, and a message is shown as read when its
  stamp is at most the read time of the chat: the message of the second after
  the newest one read is marked at once.
* The read time a client sends is its cursor at the last opening of the chat, and the
  cursor can be behind an earlier one: after a login it restarts from the newest
  message, though empty fetches had counted it further up, and a first fetch that
  fails or is refused part way (two messages of one stamp, list full) leaves it at 0.
  `ReadTimeMonotonic` is therefore stated for one session and one sender; TLC finds
  it violated with two senders.
* Left out: logins whose get_all_data fails (nothing changes but the locks, which
  belong to `ClientThreads`), the count of unread messages, attachments, and what
  a poll brings about friends, requests, members and administrators.

### Friendship and FriendshipAtomic

**Tables.** `account` has a row per name (`users.NAME` is the one column with a
UNIQUE): an account that was deleted keeps its name. `requests` and `friends` count
the rows of a pair, in its direction; no key forbids a second one. `asked` is
history: the pairs that ever had a row in `friends_request`. `crossed` is history too:
the users who had a request in each direction at a time, which exist_request, asked for
one direction, does not see. So is `clashed`: two requests at work at once have clashed.

**Jobs** are as in `Chats`: the request of a worker and the statement it runs next.
`threads` is what `mysql_thread_safe()` answered when the server was started;
without it `Admitted` lets one request in at a time. The readers return 1, 0 or -1
and the handlers read a -1 in opposite ways: `exist_request(...) != 0` refuses a new
request, `== 0` lets an accept or a decline go on as if there were one
(`AfterRequest`). A name nobody has goes on as the id -1, which the foreign
keys of a later statement reject. `Befriend` and `DropRequest` are the two
statements of `accept_friend_request`; the result of the second one is ignored.

**Abstraction.** In `FriendshipAtomic` a request is sent, accepted or declined at once,
and a pair is or is not a friendship. The mapping forgets how many rows there are
(`FriendPairs`, `AskedPairs`) and counts a request that is being accepted as gone
as soon as its friendship is in the table (`Accepting`). What the abstract module
does not promise shows in it too: two users who have asked each other may both
accept, and then two rows stand for one friendship.

**Clashes.** Of the handlers that threads may run at once, `Clash` names the pairs
whose statements do not go together: an acceptance with any other request between
the same two users, in either direction, and an account that is deleted with a
request of friendship that names it, as its sender or as the other. Two equal
requests, two refusals, a request against a refusal, crossed requests and two
deletions of an account are not among them: what the second finds done already
does not show. Without a thread safe library no two requests clash, because one is
served at a time; `Apart` says that this is so, or that no two have clashed yet. Each
of the six combinations (an acceptance with a request, an acceptance, a refusal; a
deletion with each of the three) is needed: with any one of them left out of `Clash`
TLC finds a behaviour of two threads, without a fault, that breaks a property of the
run.

### ClientThreads

**Threads.** `ui` is where main is: its place, the list it reads, the command it
carries out and for which name; `resume` is where it was when a signal made it run
`stop_client`; `nt` is where the notification thread is in its loop. `holder` says
who has locked each mutex: `requests_mutex`, `friends_mutex` and `chats_mutex` over
the lists, `network_mutex` over a call, and the two of the flags `continue_fetching`
and `continue_graphic`. A place that waits for a mutex is in `UiWants` or `NtWants`,
and `UiLock`, `NtLock` and `BeginRead` take it. pthread_mutex_unlock frees a mutex
whoever calls it, as the default type of mutex does.

**Menus.** A command of a menu is the list it reads and the call it makes:
`ReadCommands`, `CallCommands`, `AfterRead`. A screen reads a list under its mutex for
as long as it prints. Some commands begin with a look that takes no lock
(`PeekCommands`, `Peek`, `AfterPeek`): show_timestamps at the three lists,
psd_chat_exists at the chats before one is shown, psd_begin_member_iteration at them
before it locks. Answering a friend request calls the server and then deletes the
request from the list, in two sections.

**Notifications.** A round of `notifications_fetch` is `Collected` to `Check`: the
cursors are copied, the server is polled, requests and friends are added, then the
loops over chats run under `chats_mutex` (`Handle`), which is released to ask
for a chat that is not in the list (`AskForChat` to `SaveCursor`, psd_recv_chats),
and last the messages of each waiting chat are fetched with the mutex held
(`FetchMessages`, `Fetched`). A fetch fails when the call does, which is an event, or
when the list refuses a message: `refused` has the chats where it does. A refused message
is sent again with every fetch, so that may go on for ever and no event is counted.

**The server** is reduced to what a call can return: who has asked, which chats the
user is in, and what happened since the last poll.

Details worth a note:

* psd_recv_chats unlocks `friends_mutex`, which it has not locked. `robbed` records
  that main had it then.
* The thread sets `continue_fetching` to TRUE when it starts, without the mutex: a
  logout that comes before it is undone, and waits for ever.
* A second pthread_join, after the one of the signal handler, is undefined
  behaviour: `Join` goes on or crashes.
* A call need not return. net_new sets the two time-outs of the client's socket
  (`network.c` 139-140) and then calls soap_init, which resets them. `InCall` says that a
  thread is in a call.
* At the end of stdin menu_main returns without stopping the thread (`EndOfInput`).
* Left out: `screen_update_mutex`, which only main takes; the bound of 50 of the
  lists; allocations that fail; the information of friends and the members of
  chats, which no property tells apart.

### ServerPool

`at` is where main and each worker thread are, `count` is `n_alive_threads` under
`mutex`, `connections` are the connections open at MySQL with the server's own among
them, `closed` and `freed` say whether the socket was closed and `server.persistence`
freed. A request is abstracted to what it does to these: it clones the persistence and
closes its connection, or returns an error and leaves it open (`Serve`): nothing gives
back what a failed request has left open. A signal interrupts any thread at any place
where it is not blocked; `resume` is where it came. `stop_server` then closes the
socket, waits until no thread is counted (`AwaitThreads`, woken by `Leave`), frees the
persistence and returns into what it interrupted. A thread that takes the signal while
it serves a request is counted itself, so that its handler waits for itself and for
ever: only main ever frees the persistence (`FreeInv`).

Left out: a signal that interrupts the handler in its own thread, and keep-alive,
which the server does not enable: a thread serves one request.

## What is checked

| run | instance | properties |
|---|---|---|
| `chats_sequential` | 1 worker, 3 users, 2 chats, all requests, 1 fault | `TypeOK`, `ConsistentAtRest`, `ServerSurvives`, `DamageIsLocal`, `HandlersAreAtomic` |
| `chats_no_departures` | 2 workers, 3 users, 1 chat; create, add, remove | `AdminStaysMember` |
| `chats_departures` | 2 workers, 3 users, 1 chat; quit, remove; fair | `DeletedChatsAreEmpty`, `HandoverToMember`, `EmptyChatIsDeleted` |
| `chats_crash` | 2 workers, 3 users, 1 chat; quit | `ServerSurvives` is violated |
| `chats_failed_create` | 1 worker, 3 users, 1 chat; create, unregister | `FailedCreateLeavesNoChat` is violated |
| `delivery_any` | 2 users who both send, 3 seconds, list of 2, any pace, logouts | `TypeOK`, `CursorNotAhead`, `FetchSkipsNothing` |
| `delivery_session` | 2 users, one sends, seconds 2 to 5, list of 1, `Prompt`, 1 fault | `UnfetchedIsAnnounced`, `SpacedNeverSkipped`, `ConfirmedBehindCursors`, `ReadTimeMonotonic` |
| `delivery_skipped` | 2 users, one sends, 4 seconds, `Prompt`, no fault | `NoneSkipped` is violated |
| `delivery_same_stamp` | 2 users who both send, 3 seconds, `Prompt`, no fault | `StampsDistinct` is violated |
| `friendship` | 2 workers, 2 users, all requests, 2 faults, with and without threads | `TypeOK`, `FriendshipWasAskedFor`, `OneRowUnlessCrossed`, `ApartHandlersAreAtomic` |
| `client_threads` | 1 client, 1 name, 2 chats, 2 events, 1 signal; fair | `TypeOK`, `ListsAreExclusive`, `NoDeadlock`, `GhostRequestsAreExcused`, `MissingChatsAreOlder`, `ThreadEndsBeforeLists`, `JoinEnds`, `PendingIsFetched` |
| `server_pool` | main, 3 threads, 3 connections, 2 signals; fair | `TypeOK`, `CountIsExact`, `PersistenceOutlivesThreads`, `WaitersAreWoken`, `CrashesAreExcused`, `StopEnds` |

* `ConsistentAtRest`: until a query fails, between requests a usable chat is administered by one of
  its members, a deleted chat has none, and nobody unregistered is a member.
  An administrator who unregisters is the exception the code makes: nobody
  takes his chats over. Served one at a time, the handlers keep it; concurrently
  they do not (two quits race for the hand-over, an add races with a deletion).
* `HandlersAreAtomic`: with one worker and until a query fails, `Chats` implements
  `ChatsAtomic`: whatever path a handler takes, what clients see of it is one allowed step
  (only a friend of the administrator is let in, only the last to leave ends a chat) or
  nothing. With several threads it does not, unless their requests keep apart (see the
  theorems).
* `AdminStaysMember`: without departures it holds at every statement, however
  adds, removes and creates interleave.
* `DeletedChatsAreEmpty`: quits and removes that empty a chat together do not delete it
  under somebody.
* `EmptyChatIsDeleted`: nor do quits, however they interleave, leave a chat empty that
  nobody deletes, as long as the server stays up (two quits may take it down, see
  `ServerSurvives` in `chats_crash`, and the chat they emptied stays after a restart). The
  one other exception is a chat that a remove_member empties (`RemovesLast`):
  when it takes out, beside the administrator's quit, the member whom
  still_users_in_chat has found, or when an administrator who has left sends it, the chat
  stays valid and empty for ever, because only quit_from_chat looks.
* `HandoverToMember`: the member that quit_from_chat read some statements ago
  may have left, but a chat is never handed to somebody who was never in it.
* `ServerSurvives`: served one at a time, no request ends the process, because the
  NULL row is read only for an empty chat.
* `DamageIsLocal`: each failed query or killed server makes at most one thing wrong: one
  chat (`AdminIsMember` or `DeletedIsEmpty` broken), or one user who has unregistered and
  stays a member of his chats (`Ghosts`). The second is what a fault between del_user and
  del_user_all_chats leaves, in all his chats at once; `Damage` counts it as one.
* `CursorNotAhead`: the cursor counts up at empty fetches, yet never beyond the second
  the next fetch starts in: the sleep between two fetches makes up for it.
* `FetchSkipsNothing`: a cursor does not pass a row that is in the table without the
  client getting it, also when the list is full, refuses a message or a query fails.
* `UnfetchedIsAnnounced`: what a client can still fetch has a fetch pending or is in
  the range of its next poll, although polls, inserts and the clock interleave.
* `SpacedNeverSkipped`: how far the loss of `delivery_skipped` goes. A message with no
  other in its second and the one before is never behind a cursor unfetched.
* `ConfirmedBehindCursors`, `ReadTimeMonotonic`: the read time of the chat is computed
  from those of the members while their polls interleave, and told to clients by
  later polls; a client never hears of a read message that another member has
  yet to ask for, and the read time never goes back.
* `FriendshipWasAskedFor`: in any interleaving a friendship had a request first; a
  failed query, which accept_request takes for a request, makes one at most that had
  none.
* `OneRowUnlessCrossed`: while requests keep apart, two friends have one row, in the
  direction that was accepted. If they have asked each other, with no fault and no two
  requests at once, and both accept, they have two: exist_request looks in one direction,
  and accept_request does not look for a friendship. Every failed or interrupted
  statement adds one row at most: the second statement of accept_friend_request is lost
  and the request is accepted again.
* `ApartHandlersAreAtomic`: while requests keep apart and until a statement fails,
  `Friendship` implements `FriendshipAtomic`, with threads and without. When two clash it
  does not: an accept and a decline, or an accept and a request the other way, leave
  rows no order of atomic requests leaves.
* `ListsAreExclusive`: a list that a thread has locked is not used by the other. It has
  two exceptions. After the stray unlock in psd_recv_chats the thread may change the
  friends while main reads them; and where main looks at a list without a lock
  (`Peeked`) nothing keeps the thread from changing it: TLC finds both.
* `NoDeadlock`: the threads never wait for each other, `chats_mutex` being held during
  calls included, and a logout joins the thread with no mutex that the thread needs.
  A signal handler that interrupted a section of main is the exception.
* `GhostRequestsAreExcused`: a request shown that the server no longer has is being
  answered, or its answer crossed a poll, or the answer got no reply.
* `MissingChatsAreOlder`: psd_recv_chats asks for what was created after the newest
  chat it has; it misses older ones, and those only.
* `ThreadEndsBeforeLists`: the lists are freed when the thread that uses them is
  gone, on every way out but the end of stdin.
* `JoinEnds`: a logout and the signal handler wait for the thread no longer than
  the round it is in. A thread that has not begun its loop is one exception, a call that
  never returns the other.
* `PendingIsFetched`: messages announced are fetched if the user stays, unless the list
  refuses one of them, after which no fetch of that chat need succeed, or a call never
  returns.
* `CountIsExact`: `n_alive_threads` is what free_server believes it is. Every
  pthread_create that fails stays counted.
* `PersistenceOutlivesThreads`: nothing frees the persistence under a running thread,
  unless the signal finds main between accepting a connection and counting it.
* `WaitersAreWoken`: pthread_cond_wait in the handler misses no wake-up, although only
  the thread that leaves last signals, and wakes one waiter.
* `CrashesAreExcused`: where a signal must find main for freed memory to be read.
* `StopEnds`: one signal that main takes ends the server, unless it finds main between
  the lock of the count and pthread_create, or a creation has failed.

Several of these properties name an exception. Each exception can occur; the
following states were found by checking its negation: the
stray unlock frees a mutex that main has locked; a logout waits for ever on
a thread that started late; the handler waits for a thread that was never created;
the persistence is freed with a thread alive after a late signal, read after it was
freed, and freed twice after two signals; an idle server has no connection left; and
without any signal main can end by itself, cutting the requests of its threads.

**Findings.** `chats_crash`: two members who quit at once can end the process
(`persistence.c:1523`), while the handler is documented to return an error. It takes
somebody else who leaves the chat, or is removed from it, during a quit (`StaysUp` below).
`chats_failed_create`: create_chat with an unknown member answers an error and
leaves the chat behind (`psd_ims_server.c:866`). `delivery_skipped`: an empty fetch
moves the cursor (`persistence.c:791`), and a message sent later in that second is
never delivered in this session. `delivery_same_stamp`: the test that a stamp is
free and the INSERT are two statements (`psd_ims_server.c:1116`), so that two
messages may share the stamp that stands for their id; a client that gets both
refuses the second and gets nothing more from this chat.

**Bounds.** `Users`, `ChatIds`, `Workers` are finite; a create is only sent while an
unused id remains (`FreshIdLeft`); `MaxFaults` bounds failed queries and kills together.
Three users let one quit, one be handed the chat and a third be removed; two chats tell
a statement on one chat from a statement on all; two workers are enough for every race
above, each of which is between two handlers. The database a run starts from is any
consistent one with at most one row per pair (the 13 to 169 initial states), so that a
run need not build it up. Row counts are not bounded: they stay finite because a second
insert needs a concurrent add or a creator who names himself. In `chats_sequential` one
fault is a failed query at any statement of any handler, or a kill between any two; what
follows it, restarts included, is run without bound. In `friendship` two users can ask
each other, cross their requests and accept twice, and two workers race at every
statement; with two faults one can make a friendship that was not asked for while the
other leaves a request behind. A third user adds pairs but no handler names three users.
Row counts are bounded by the number of workers and faults that can insert before a
check sees the row. In `client_threads` two chats are an older and a newer one, which is
what the cursor tells apart; a list may refuse messages any number of times; one name
asks, is answered and asks again; two events are a message and a failed call, or two
changes at the server between two steps of the client. In `server_pool` three threads
stand for 200: one serves, one leaves, one is being created; three connections run out
with two requests that leak; two signals come to two threads, or to main one after the
other. In `Delivery` the clock stops at `MaxTime`. Three to four seconds from the
creation of the chat leave room for a login, a poll in the second of a message, the
empty fetch after it and a message sent later; a list of one message drops one at every
fetch of two. Two members have all the races between a sender and a reader, two senders,
and two readers whose read times meet; the theorems hold for any number.

**Symmetry** is used in runs of safety properties only: users u2 and u3 play the
same part in `MCFriends`, and the test of friendship is symmetric; in `chats_sequential`
the chats are alike too. In `delivery_any` both users send, poll and log in alike. In
`friendship` users and workers are alike.

**Deadlock** is checked where requests can always arrive. `chats_sequential` and
`chats_failed_create` have users who unregister: all of them may, and nothing more
happens, since registration is not part of `Chats`. In `Delivery` the clock stops. In
`client_threads` and `server_pool` the process ends, or the handler of a signal waits
for a mutex of the code it interrupted; `NoDeadlock`, `JoinEnds` and `StopEnds` say
where nothing may wait.

**Fairness.** In `Chats`, `FairSpec` asks that a thread which has a statement to run runs
it (weak fairness of `Step(w)`): kernel and database serve every thread, and the
handlers contain no wait. Requests, faults and restarts are not fair. In `ServerPool`
main and every thread run (weak fairness of `MainStep` and `WorkerStep(w)`): a
request ends because its socket times out after 60 seconds; connections and signals
come or do not, except that accept returns once the socket is closed. In
`ClientThreads` both threads run (weak fairness of `UiRuns` and `NtRuns`), but the return of
a call (`UiReturns`, `NtReturns`) is not fair, because the client's sockets have no
time-outs; the two liveness properties say `[]InCall` for a call that never
returns. The time-outs of the server are set after its soap_init and are in force.
What the user does is not fair. `NtLock` is
strongly fair: pthread mutexes promise no order, but main waits for the user between
two readings of a list, so that the notification thread finds the mutex free again
and again and takes it.

## What is proved

`Chats_proofs`, for any users, chats, workers, requests and friends:

* `Typing`: `Spec => []TypeOK`.
* `HandoverSafe`: `Spec => HandoverToMember`. The invariant is `HandoverInv`: a
  worker about to hand over to somebody knows that he has a row in the chat. It is
  inductive because no statement deletes a row (`RowsStay`), and the member was
  read from the rows of the chat (`HandoverIsRead`). Only `HandOver` changes the
  administrator of a chat that exists (`AdminChange`).
* `SequentialServer`, `ServerStaysUp`: with `Workers = {w}` and `MaxFaults = 0`,
  `Spec => []ConsistentAtRest` and `Spec => []ServerSurvives`, both from
  `SequentialInvariance`. `ConsistentAtRest` is not
  inductive: it says nothing of a handler half way through. `SequentialInv`
  adds what the statements already run have established (`JobFacts`: the chat
  exists, I am its administrator, the target is somebody else, the chat has
  members...), and which single chat may be without its administrator
  meanwhile (`Exposed`). The steps are split into readers (`SequentialRead`),
  which change no table, entries (`SequentialEntry`) and exits
  (`SequentialExit`), with `MembersMove` for what the statements do to the
  members. That the NULL row is never read is the fact that `Members` is not
  empty at `"am_admin"`, `"first"` and `"handover"`: it is what a concurrent quit
  breaks.

* `DeletedStayEmpty`: where requests only quit, remove and unregister, and no query
  fails, `Spec => []DeletedChatsAreEmpty` for any number of threads. The invariant
  `DeparturesInv` adds that a worker about to delete a chat has found it empty
  (`ClosingEmpty`); it stays so because in this setting members only leave
  (`MembersShrink`, `ClosingStep`).
* `AdminNeverRemoved`: where requests only create, add and remove, and no query
  fails, `Spec => []AdminStaysMember` for any number of threads. `NoDeparturesInv`
  adds what a worker has found out (`AdminKnown`): it stays true under every step
  of the others (`OthersKnow`) because the administrator of a chat never changes
  here, so that remove_member removes somebody else.

`Damage_proofs` adds to them:

* `FaultsHarmOneThingEach`: with `Workers = {w}` and any number of faults,
  `Spec => []DamageIsLocal`. `DamageInv` says that what is not in order is in a set `H` of
  chats and users, no larger than the number of faults. A chat in order is `Sound`:
  consistent, or left inconsistent for the moment by the request at hand, which is about to
  repair it (`Mending`), with what that request has read about the chat still so (`Known`).
  A user in order is `Whole`: he is no member once he has unregistered, unless the request
  at hand is about to take him out of his chats. A statement leaves the other chats as they
  are (`StepElsewhere`); one that does not fail keeps its own chat sound (`ReadHere`,
  `WriteHere`, `AnywhereSound`); one that fails adds its chat or user to `H`, and so does a
  kill (`DamageInductive`). Nothing more is known of a chat in `H`, which is why later
  requests may do there what they like.

`ChatsAtomic_proofs` is about any number of threads. What the theorems above say of one
request at a time holds of several as long as they keep apart: `ChatsApart` says that no
two requests at work name one chat and that an unregistration is served alone. Without
the first part a quit and an add meet as in the hazards; without the second one an
administrator may let in somebody who is gone when the row is written.

* `ApartRefinement`: `Spec /\ []ChatsApart => HandlersAreAtomic`. `ApartInv` says that until
  the first fault everything a request has read is still so when it uses it (`Facts`): a
  statement keeps the facts of its own request (`FactsRead`, `FactsWrite`) and touches
  nothing the others know (`OtherRows`, `OthersUndisturbed`). With them every statement is
  a stutter of `ChatsAtomic` or one action of it, handler by handler (`ChecksAreAtomic`,
  `CreateIsAtomic`, `AddIsAtomic`, `RemoveIsAtomic`, `QuitIsAtomic`, `UnregisterIsAtomic`). For
  that a request need only look at its own chat: what is seen of it depends on that
  request alone (`AloneSeen`), and the other chats look the same (`SeenElsewhere`).
* `SequentialRefinement`: with `Workers = {w}`, `Spec => HandlersAreAtomic`, since one request
  is always apart.
* `ApartServer`, `ApartServerStaysUp`: `Spec /\ []ChatsApart` implies `[]ConsistentAtRest` and
  `[]ServerSurvives`. The first is inherited through the refinement: `ChatsAtomic` keeps its
  `Consistent` (`AtomicConsistent`), and at rest what is seen is what the tables hold
  (`SeenAtRest`).
* `OnlyKilled`, `StaysUp`: what the crash of `chats_crash` needs. Chats may be shared, queries
  may fail and users may unregister: as long as nobody removes, quits or unregisters
  while somebody else quits from the same chat (`DeparturesApart`), the process goes down
  only by a kill (`OnlyKillsStop`), and stays up without faults. `DepartingInv` says of a
  quit between still_users_in_chat and get_first_users_in_chat that its chat has a
  member; only the three departing requests take one out (`MembersStay`).
* `FaultsHarmWhatIsAtWork`, `ApartOnlyKilled`: what faults do to requests that keep apart.
  `Spec /\ []ChatsApart` implies `[]DamageIsBounded`, with the number of chats and users harmed
  at most that of faults times that of workers, and `OnlyKillsStop`. A failed query harms the
  chat, or the user who unregisters, of its request, a kill those of all requests at work,
  and no request spreads the damage.
  `SharedDamageInv` is `DamageInv` with every request at work in the place of the one
  (`SharedSound`); a statement keeps what the others know (`BusyChatSound`) or is
  alone with its chat, when the lemmas of `Damage_proofs` apply (`SharedStep`).

For `Chats` the assumptions are those the modules declare (`UsersAssumption`,
`FriendsAssumption`, `OpsAssumption`, `NoChatAssumption`, `MaxFaultsAssumption`),
which TLC evaluates on every instance, and those in the theorem.

`Delivery_proofs`, for any users and senders, and any bounds on the clock, the list
and the faults:

* `Typing`: `Spec => []TypeOK`, which includes that lists keep their bound and show
  only fetched rows. `TypeInv` adds where a client may be during a request
  (`Phases`), that no stamp is of the future (`Past`) and that the table is finite.
* `CursorsNotAhead`, `FetchesSkipNothing`: `ReceiveStores` says what a fetch does to
  a client for any order of the rows and any place where the list refuses one
  (`Fetched`): either the cursor and the pending flag stay, or everything at or
  after the cursor is got and the cursor is after it. It rests on lemmas about
  batches and the bounded list (`BatchHasAll`, `RoomIsMade`, `ListStaysBounded`,
  `CursorMoves`). `ClientSteps` says what any step may do to a client.
* `UnfetchedMessagesAnnounced`, with `Prompt`: `AnnounceInv` adds that a stamped message
  has the stamp of the current second, and that a poll between its two queries has
  either found a message or taken its time before it. Without `Prompt` the first of
  these fails: a message may be stored with a stamp older than a poll, which is
  the problem the comment in get_pending_notifications fears.
* `SpacedMessagesKept`, with `Prompt`: `NearInv` says that a cursor is at most two seconds
  after the newest message, and one while an empty fetch may still follow. Empty
  fetches follow announcements, and a message is announced twice only if it was
  stamped in the second of a poll, when no cursor is beyond that second.
* `ConfirmedMessagesBehind`, without `Relogin`: `ReadInv` says of each of the five places
  a read time is copied to (column of the member, column of the chat, read time of
  the client, the copy a poll takes, the read time the client was told) that it is
  behind the cursors of those it speaks of. Cursors only grow within a session,
  and the update of the chat takes the minimum (`ReadTimesNext`).

`ReadTimes_proofs` adds to them:

* `ReadTimesKept`: `Spec /\ []StampsDistinct => ReadTimeMonotonic`, without `Relogin`.
  `OrderInv` says that a client's read time is not older than its column, that the
  copy a poll takes is not either until it is stored, and that a list that shows
  something has a cursor after `Joined`. The last is where distinct stamps are
  needed: then an empty list takes all of a first fetch (`EmptyListTakesAll`).
* `OneSenderStampsDistinct`, `OneSenderReadTimesKept`: with one sender the stamps are
  distinct, so the theorem says of any instance what the run checks on one.

For `Delivery` they are `SendersAssumption`, `TimeAssumption`, `MaxMessagesAssumption`,
`MaxFaultsAssumption`, `SwitchesAssumption` and the setting in the theorem.

`Friendship_proofs`, for any users, workers and number of faults:

* `Typing`: `Spec => []TypeOK`. It adds to the types what a job knows (`JobInv`): past
  check_login it has a sender, and its steps are those of its request.
* `Consent`: `Spec => []FriendshipWasAskedFor`. The property is not
  inductive by itself: `ConsentInv` counts the pairs nobody asked for that are
  friends or about to be (`Suspects`), and `AskedInv` says that a request in the table
  was asked for. A new suspect costs a failed query (`SuspectNeedsFault`).
* `RowsOfFriends`: `Spec => []OneRowUnlessCrossed`. `SerialInv` says that without threads no two
  requests clash; `ClashInv` that until two have clashed no two of those at work do, because
  a request names no more users later than when it arrived (`MoveClash`); `RowInv` that a
  row is only added for a pair that is open (a request is in the table, or is about to
  be) and that adding it closes the pair, unless a statement fails: so rows and
  openness together stay below the faults. An acceptance is alone with its pair
  (`AcceptsAlone`), so nobody opens it again before the request is deleted. `PairInv` counts
  the two directions together: each one that is ready for an acceptance leaves room for
  its row (`Bound`), and only crossed requests make both ready.
* `Refinement`: `Spec => ApartHandlersAreAtomic`. Every statement of a handler is a
  stutter of `FriendshipAtomic` except the one that decides: the INSERT of an account or a
  request, the first statement of an accept, the DELETE of a decline, the UPDATE of a
  deleted account. `FreshInv` says what of the things the handler has read is still so
  then, and `Undisturbed` that no statement of another thread makes it false. What it
  leaves out is what other threads may change: that a request is not yet in the table
  when it is inserted, that it still is when it is declined, that an account is not
  yet deleted when it is; then the statement is a stutter (`ReaderApart`,
  `LastApart`, `AcceptApart`, `NextApart`).

`ClientThreads_proofs`, for any names, chats and number of events:

* `Typing`, `Exclusion`, `DeadlockFreedom`, `Ghosts`, `Cursor`, `Ends`: the six invariants
  of the run follow from one, `IInv`: `Shape` (which command may be at which place, and
  what a signal may have interrupted), `LockInv` (a thread holds exactly the mutexes
  its place says, except a stolen `friends`; of a look without a lock it says nothing,
  which is the second exception of `ListsAreExclusive`), `GhostInv` and `CursorInv` (every chat
  that was sought is in the list, on its way in `got`, or older than one that is).

`ServerPool_proofs`, for any finite set of threads, any limits and any number of signals:

* `Typing`, `Count_Exact`, `Outlives`, `Woken`, `Crashes`: the invariants of
  the run with `ConnectedInv`, `HandlerInv`, `LockInv` and `FreeInv`. The first bounds the
  connections from below, which typing needs; the others say what each thread may
  have interrupted, that a locked mutex belongs to the thread whose place, or
  interrupted place, holds it, and that the persistence is freed only after a handler
  has found the count at 0. The counting of threads and connections uses the
  cardinality theorems of the library (`FiniteSetTheorems`).

The assumptions of these three are `UsersAssumption`, `MaxFaultsAssumption`,
`ChatIdsAssumption`, `NoNameAssumption`, `MaxEventsAssumption`, `ThreadsAssumption` and
`BoundsAssumption`.

**Model-checked only.** `EmptyChatIsDeleted`, `JoinEnds`, `PendingIsFetched` and `StopEnds`
are liveness under fairness, which the prover does not reach, nor does it reach
ENABLED, induction over data given by an operator, or RECURSIVE operators (none is
used). Every invariant and every action property of a passing run is also a theorem.

## Plan

Done: `ChatTables` and `Chats` with `ChatsAtomic` and the refinement, `Delivery`,
`Friendship` with `FriendshipAtomic` and the refinement, `ClientThreads`, `ServerPool`,
and their proofs.

Worth adding next:

1. Attachments: the test of the stamp, the file written in place and read by others.
2. `Chats` composed with `Delivery`: messages of members who come and go.
3. For `Chats` what `Clash` is for `Friendship`: `ChatsApart` keeps any two requests of one
   chat apart, which is more than their statements need.

## Not modelled

* Attachments (`send_attachment`, `get_attachment`): file input and output, under a name
  made of chat and stamp. The stamps are in `Delivery`, the calls in `ClientThreads`.
* SOAP stubs and the wrappers of `network.c` beyond one request and one reply that may
  fail, before or after it was served.
* What screens and menus print, and the parsing of commands.
* `client_graphic.c`, an earlier interface that is not linked, and the functions of
  `psd_ims_client.c` only it calls: psd_recv_friends, psd_recv_messages,
  psd_recv_pending_messages, psd_remove_chat.
* Signal handlers that interrupt themselves, keep-alive connections, the bound of 50 of
  the client's lists of chats, friends and requests, allocations that fail, the lengths of
  query strings, and memory errors other than those named above.
* Debug macros, the leak detector, test programs and build files.

Passwords, texts and descriptions are not data any property tells apart.
