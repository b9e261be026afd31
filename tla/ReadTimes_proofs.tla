-------------------------- MODULE ReadTimes_proofs --------------------------
(***************************************************************************)
(* Why the read time of a chat does not go back within a session: what     *)
(* Delivery_proofs says of cursors, lists and requests, and the order of   *)
(* the places a read time is copied to.                                    *)
(***************************************************************************)
EXTENDS Delivery_proofs

USE DEF Times

-----------------------------------------------------------------------------
(* The first fetch.                                                        *)

\* Messages of different stamps that are not more than the bound are all taken by
\* an empty list.
LEMMA EmptyListTakesAll ==
  ASSUME NEW batch \in Seq(Messages), NEW n \in 0..Len(NewestOf(batch)),
         \A i, j \in 1..Len(batch) : i # j => batch[i].stamp # batch[j].stamp,
         Addable(Kept(<<>>, NewestOf(batch)), NewestOf(batch), n)
  PROVE  /\ n = Len(NewestOf(batch))
         /\ batch = <<>> => Kept(<<>>, NewestOf(batch)) \o SubSeq(NewestOf(batch), 1, n) = <<>>
<1> DEFINE new == NewestOf(batch)
<1>1. MaxMessages \in Nat \ {0}
  BY MaxMessagesAssumption
<1>2. <<>> \in Seq(Messages) /\ Len(<<>>) = 0 /\ Len(<<>>) <= MaxMessages
  BY <1>1
<1>3. new \in Seq(Messages) /\ Len(new) <= MaxMessages
  BY <1>2, RoomIsMade
<1>4. \A i, j \in 1..Len(new) : i # j => new[i].stamp # new[j].stamp
  <2>1. CASE Len(batch) > MaxMessages
    <3> DEFINE k == Len(batch) - MaxMessages
    <3>1. k \in Nat /\ Len(batch) = k + MaxMessages /\ k + 1 \in Nat
      BY <1>1, <2>1
    <3>2. new = SubSeq(batch, k + 1, Len(batch))
      BY <2>1 DEF NewestOf
    <3> HIDE DEF k, new
    <3>3. \A i \in (k + 1)..Len(batch) : batch[i] \in Messages
      BY <3>1
    <3>4. /\ Len(new) = Len(batch) - (k + 1) + 1
          /\ \A i \in 1..Len(batch) - (k + 1) + 1 : new[i] = batch[(k + 1) + i - 1]
      BY <1>1, <3>1, <3>2, <3>3, SubSeqProperties
    <3>5. Len(batch) - (k + 1) + 1 = MaxMessages
      BY <1>1, <3>1
    <3>6. \A i \in 1..MaxMessages : /\ (k + 1) + i - 1 = i + k
                                   /\ i + k \in 1..Len(batch)
      BY <1>1, <3>1
    <3>7. Len(new) = MaxMessages /\ \A i \in 1..MaxMessages : new[i] = batch[i + k]
      BY <3>4, <3>5, <3>6
    <3>8. \A i, j \in 1..MaxMessages : i # j => i + k # j + k
      BY <1>1, <3>1
    <3> QED
      BY <3>6, <3>7, <3>8
  <2>2. CASE ~ (Len(batch) > MaxMessages)
    BY <2>2 DEF NewestOf
  <2> QED
    BY <2>1, <2>2
<1> HIDE DEF new
<1>5. Kept(<<>>, new) = <<>>
  BY <1>1, <1>2, <1>3 DEF Kept
<1>6. Stamps(Range(<<>>)) = {}
  BY <1>2 DEF Stamps, Range
<1>7. \A i \in 1..Len(new) : ~ Refused(<<>>, new, i)
  BY <1>1, <1>2, <1>3, <1>4, <1>6 DEF Refused
<1>8. n = Len(new)
  BY <1>3, <1>5, <1>7 DEF Addable, new
<1>9. ASSUME batch = <<>> PROVE <<>> \o SubSeq(new, 1, n) = <<>>
  <2>1. new = <<>>
    BY <1>1, <1>2, <1>9 DEF new, NewestOf
  <2>2. SubSeq(new, 1, n) = <<>>
    BY <1>2, <1>8, <2>1
  <2> QED
    BY <2>2
<1> QED
  BY <1>5, <1>8, <1>9 DEF new

\* A fetch that puts the first messages into a list moves the cursor past them.
LEMMA FirstFetch ==
  ASSUME TypeInv, StampsDistinct, NEW u \in Users, client[u].list = <<>>,
         ReceiveMessages(u, client[u])
  PROVE  client'[u].list # <<>> => Joined < client'[u].cursor
<1> DEFINE c == client[u]
           S == Pending(c.cursor)
<1>1. /\ client \in [Users -> Client] /\ c \in Client /\ c.cursor \in Nat
      /\ rows \subseteq Messages /\ now \in Nat /\ Joined \in Nat
      /\ \A m \in rows : m.stamp <= now
  BY TimeAssumption DEF TypeInv, TypeOK, Client
<1>2. S \subseteq Messages /\ S \subseteq rows /\ IsFiniteSet(S)
  BY <1>1, FS_Subset DEF TypeInv, Pending, Visible
<1>3. \A m \in S : m.stamp \in Nat /\ c.cursor <= m.stamp /\ m.stamp <= now /\ Joined < m.stamp
  BY <1>1 DEF Pending, Visible, Messages
<1>4. ASSUME NEW d \in Client, EndIteration(u, d)
      PROVE  client'[u].list # <<>> => /\ d.list # <<>>
                                       /\ client'[u].cursor = d.cursor
  <2> DEFINE e == [d EXCEPT !.at = "sleep", !.wake = now + 1]
  <2>1. e.list = d.list /\ e.cursor = d.cursor
    BY <1>4 DEF Client
  <2>2. client' = [client EXCEPT ![u] = e] \/ client' = [client EXCEPT ![u] = LoggedOut]
    BY <1>4 DEF EndIteration
  <2> HIDE DEF e
  <2>3. client'[u] = e \/ client'[u] = LoggedOut
    BY <1>1, <2>2
  <2> QED
    BY <2>1, <2>3 DEF LoggedOut
<1>5. CASE EndIteration(u, c)
  BY <1>1, <1>4, <1>5
<1>6. ASSUME NEW batch \in SetToSeqs(S), NEW n \in 0..Len(NewestOf(batch)),
             Addable(Kept(c.list, NewestOf(batch)), NewestOf(batch), n),
             LET new == NewestOf(batch)
                 kept == Kept(c.list, new)
                 added == SubSeq(new, 1, n)
                 listed == [c EXCEPT !.list = kept \o added]
             IN  IF n = Len(new)
                 THEN \E next \in NextCursor(c.cursor, Range(batch)) :
                        EndIteration(u, [listed EXCEPT
                          !.got = @ \cup Range(batch),
                          !.pending = FALSE, !.cursor = next])
                 ELSE EndIteration(u, [listed EXCEPT
                        !.got = @ \cup Range(added)])
      PROVE  client'[u].list # <<>> => Joined < client'[u].cursor
  <2> DEFINE new == NewestOf(batch)
             list == Kept(c.list, new) \o SubSeq(new, 1, n)
             listed == [c EXCEPT !.list = list]
  <2>1. batch \in Seq(S) /\ Range(batch) = S /\ Len(batch) = Cardinality(S)
    BY <1>2, BatchIsSeq, BatchHasAll
  <2>2. batch \in Seq(Messages)
    BY <1>2, <2>1
  <2>3. \A i, j \in 1..Len(batch) : i # j => batch[i].stamp # batch[j].stamp
    <3>1. \A i, j \in 1..Len(batch) : i # j => batch[i] # batch[j]
      BY <2>1 DEF SetToSeqs
    <3>2. \A i \in 1..Len(batch) : batch[i] \in rows
      BY <1>2, <2>1
    <3> QED
      BY <3>1, <3>2 DEF StampsDistinct
  <2>4. n = Len(new) /\ (batch = <<>> => list = <<>>)
    BY <1>6, <2>2, <2>3, EmptyListTakesAll
  <2>5. PICK next \in NextCursor(c.cursor, S) :
               EndIteration(u, [listed EXCEPT !.got = @ \cup Range(batch),
                                              !.pending = FALSE, !.cursor = next])
    BY <1>6, <2>1, <2>4
  <2>6. next \in Nat /\ \A m \in S : m.stamp < next
    BY <1>1, <1>3, CursorMoves
  <2> DEFINE d == [listed EXCEPT !.got = @ \cup Range(batch),
                                 !.pending = FALSE, !.cursor = next]
  <2>7. list \in Seq(Messages)
    <3>1. <<>> \in Seq(Messages) /\ Len(<<>>) <= MaxMessages
      BY MaxMessagesAssumption
    <3>2. new \in Seq(Messages) /\ Kept(c.list, new) \in Seq(Messages)
      BY <2>2, <3>1, RoomIsMade
    <3> HIDE DEF new
    <3>3. SubSeq(new, 1, n) \in Seq(Messages)
      BY <2>4, <3>2, PartOfSeq
    <3> QED
      BY <3>2, <3>3, ConcatProperties
  <2> HIDE DEF list
  <2>8. d \in Client /\ d.list = list /\ d.cursor = next
    BY <1>1, <1>2, <2>1, <2>6, <2>7 DEF Client
  <2> HIDE DEF d
  <2>9. CASE S = {}
    <3>1. batch = <<>>
      BY <2>1, <2>9
    <3> QED
      BY <1>4, <2>4, <2>5, <2>8, <3>1 DEF d
  <2>10. CASE S # {}
    <3>1. Joined < next
      BY <1>1, <1>3, <2>6, <2>10
    <3> QED
      BY <1>4, <2>5, <2>8, <3>1 DEF d
  <2> QED
    BY <2>9, <2>10
<1> QED
  BY <1>5, <1>6 DEF ReceiveMessages

-----------------------------------------------------------------------------
(* One sender.                                                             *)

\* Where one user writes no two messages have the same stamp: what the comment
\* in send_message asks for is kept by the client, which sends one at a time.
THEOREM OneSenderStampsDistinct ==
  ASSUME NEW s, Senders = {s}
  PROVE  Spec => []StampsDistinct
<1> DEFINE SenderInv ==
      /\ \A u \in Users : call[u].at \in {"check", "nap", "insert"} => u = s
      /\ \A m \in rows : m.sender = s
<1>1. Init => SenderInv
  BY DEF Init, NoCall
<1>2. TypeInv /\ SenderInv /\ [Next]_vars => SenderInv'
  <2> SUFFICES ASSUME TypeInv, SenderInv, [Next]_vars PROVE SenderInv'
    OBVIOUS
  <2>1. call \in [Users -> Call]
    BY DEF TypeInv, TypeOK
  <2>2. ASSUME NEW u \in Users, NEW k, call' = [call EXCEPT ![u] = k], rows' = rows,
               k.at \in {"check", "nap", "insert"} => u = s
        PROVE  SenderInv'
    BY <2>1, <2>2
  <2>3. ASSUME NEW u \in Users, SendStamp(u) PROVE SenderInv'
    BY <2>2, <2>3 DEF SendStamp, CallGoes
  <2>4. ASSUME NEW u \in Users, SendCheck(u) PROVE SenderInv'
    BY <2>2, <2>4 DEF SendCheck, CallGoes
  <2>5. ASSUME NEW u \in Users, SendInsert(u) PROVE SenderInv'
    <3>1. call[u].at = "insert" /\ u = s
      BY <2>5 DEF SendInsert
    <3>2. call' = [call EXCEPT ![u] = NoCall]
      BY <2>5 DEF SendInsert, Returns, CallGoes
    <3>3. \A v \in Users : call'[v].at \in {"check", "nap", "insert"} => v = s
      BY <2>1, <3>2 DEF NoCall
    <3>4. \A m \in rows' : m \in rows \/ m.sender = u
      BY <2>5 DEF SendInsert
    <3> QED
      BY <3>1, <3>3, <3>4
  <2>6. ASSUME NEW u \in Users,
               LoginClock(u) \/ LoginChats(u) \/ SyncMine(u) \/ SyncAll(u) \/ PollClock(u)
        PROVE  SenderInv'
    BY <2>2, <2>6 DEF LoginClock, LoginChats, SyncMine, SyncAll, SyncEnds, PollClock,
       Returns, CallGoes, NoCall
  <2>7. ASSUME NEW u \in Users, PollChats(u) PROVE SenderInv'
    <3> DEFINE f == Announced(client[u].lastNotif)
               k == [call[u] EXCEPT !.at = "times", !.found = f]
    <3>1. k.at = "times"
      BY <2>1 DEF Call
    <3>2. CASE CallGoes(u, k) /\ rows' = rows
      <4> HIDE DEF k
      <4> QED
        BY <2>2, <3>1, <3>2 DEF CallGoes
    <3>3. CASE Returns(u) /\ rows' = rows
      BY <2>2, <3>3 DEF Returns, CallGoes, NoCall
    <3> QED
      BY <2>7, <3>2, <3>3 DEF PollChats, PollFails
  <2>8. ASSUME NEW u \in Users, PollTimes(u) PROVE SenderInv'
    BY <2>2, <2>8 DEF PollTimes, PollFails, Returns, CallGoes, NoCall
  <2>9. ASSUME NEW u \in Users, LoginFetch(u) \/ Wake(u) \/ Fetch(u) \/ OpenChat(u)
        PROVE  SenderInv'
    BY <2>9 DEF LoginFetch, ReceiveMessages, Wake, Fetch, OpenChat
  <2>10. Tick \/ UNCHANGED vars => SenderInv'
    BY DEF Tick, vars
  <2> QED
    BY <2>3, <2>4, <2>5, <2>6, <2>7, <2>8, <2>9, <2>10 DEF Next
<1>3. TypeInv /\ SenderInv => StampsDistinct
  BY DEF TypeInv, TypeOK, Messages, StampsDistinct
<1> QED
  BY <1>1, <1>2, <1>3, TypeInvInit, TypeInvNext, PTL DEF Spec

-----------------------------------------------------------------------------
(* The order of the read times.                                            *)

\* A read time goes from the column of the member (r) to the client, grows there
\* with the cursor, and comes back with a poll: client c, whose request is k,
\* has one that is not older than the column, and so has the copy a poll takes
\* with it until it is stored.
InOrder(c, k, r) ==
  /\ c.at = "out" => r = Joined
  /\ c.at # "out" => r <= c.readTs /\ (c.readTs = Joined \/ c.readTs <= c.cursor)
  /\ c.at = "poll" => /\ c.sent <= c.readTs
                      /\ k.at \notin {"clock", "chats", "times"} => r <= c.sent
  /\ c.list # <<>> => Joined < c.cursor

OrderInv ==
  /\ \A v \in Users : InOrder(client[v], call[v], readMsg[v])
  /\ \A v \in Users : readAll <= readMsg[v]

\* A step of one user that leaves the read times of the server alone.
LEMMA OneInOrder ==
  ASSUME TypeInv, OrderInv, NEW u \in Users, NEW d, NEW k,
         client' = [client EXCEPT ![u] = d], call' = [call EXCEPT ![u] = k],
         UNCHANGED <<readMsg, readAll>>, InOrder(d, k, readMsg[u])
  PROVE  OrderInv' /\ readAll' >= readAll
<1>1. client \in [Users -> Client] /\ call \in [Users -> Call]
  BY DEF TypeInv, TypeOK
<1>2. \A v \in Users : /\ client'[v] = IF v = u THEN d ELSE client[v]
                       /\ call'[v] = IF v = u THEN k ELSE call[v]
  BY <1>1
<1>3. \A v \in Users : InOrder(client'[v], call'[v], readMsg'[v])
  BY <1>2 DEF OrderInv
<1>4. \A v \in Users : InOrder(client[v], call[v], readMsg[v])'
  BY <1>3 DEF InOrder
<1>5. readAll' >= readAll
  BY DEF TypeInv, TypeOK
<1> QED
  BY <1>4, <1>5 DEF OrderInv

\* ... and leaves its request as it was.
LEMMA ClientInOrder ==
  ASSUME TypeInv, OrderInv, NEW u \in Users, NEW d,
         client' = [client EXCEPT ![u] = d], call' = call,
         UNCHANGED <<readMsg, readAll>>, InOrder(d, call[u], readMsg[u])
  PROVE  OrderInv' /\ readAll' >= readAll
<1>1. call' = [call EXCEPT ![u] = call[u]]
  BY DEF TypeInv, TypeOK
<1> QED
  BY <1>1, OneInOrder

\* ... or its client.
LEMMA RequestInOrder ==
  ASSUME TypeInv, OrderInv, NEW u \in Users, NEW k,
         client' = client, call' = [call EXCEPT ![u] = k],
         UNCHANGED <<readMsg, readAll>>, InOrder(client[u], k, readMsg[u])
  PROVE  OrderInv' /\ readAll' >= readAll
<1>1. client' = [client EXCEPT ![u] = client[u]]
  BY DEF TypeInv, TypeOK
<1> QED
  BY <1>1, OneInOrder

LEMMA OrderNext ==
  ASSUME TypeInv, OrderInv, StampsDistinct, ~ Relogin, [Next]_vars
  PROVE  OrderInv' /\ readAll' >= readAll
<1>1. /\ client \in [Users -> Client] /\ call \in [Users -> Call]
      /\ readMsg \in [Users -> Nat] /\ readAll \in Nat /\ Joined \in Nat
      /\ \A v \in Users : client[v].cursor \in Nat /\ client[v].readTs \in Nat
                          /\ client[v].sent \in Nat
  BY TimeAssumption DEF TypeInv, TypeOK, Client
<1>2. \A v \in Users : InOrder(client[v], call[v], readMsg[v])
  BY DEF OrderInv
<1>3. \A v \in Users : Phases(client[v], call[v]) /\ Past(client[v], call[v])
  BY DEF TypeInv
<1>4. ASSUME UNCHANGED <<client, call, readMsg, readAll>>
      PROVE  OrderInv' /\ readAll' >= readAll
  BY <1>1, <1>4 DEF OrderInv, InOrder
<1>5. ASSUME NEW u \in Users, NEW k, call' = [call EXCEPT ![u] = k],
             UNCHANGED <<client, readMsg, readAll>>,
             k.at \in {"clock", "chats", "times"}
             \/ call[u].at \notin {"clock", "chats", "times"}
      PROVE  OrderInv' /\ readAll' >= readAll
  <2>1. InOrder(client[u], k, readMsg[u])
    BY <1>2, <1>5 DEF InOrder
  <2> QED
    BY <1>5, <2>1, RequestInOrder
<1>6. ASSUME NEW u \in Users, SendStamp(u) PROVE OrderInv' /\ readAll' >= readAll
  BY <1>5, <1>6 DEF SendStamp, Free, CallGoes
<1>7. ASSUME NEW u \in Users, SendCheck(u) PROVE OrderInv' /\ readAll' >= readAll
  BY <1>5, <1>7 DEF SendCheck, CallGoes
<1>8. ASSUME NEW u \in Users, SendInsert(u) PROVE OrderInv' /\ readAll' >= readAll
  BY <1>5, <1>8 DEF SendInsert, Returns, CallGoes
<1>9. ASSUME NEW u \in Users, LoginClock(u) PROVE OrderInv' /\ readAll' >= readAll
  BY <1>5, <1>9 DEF LoginClock, Free, CallGoes
<1>10. ASSUME NEW u \in Users, LoginChats(u) PROVE OrderInv' /\ readAll' >= readAll
  <2> DEFINE d == [LoggedOut EXCEPT !.at = "data", !.lastNotif = call[u].t,
                     !.readTs = readMsg[u], !.allRead = readAll]
  <2>1. client[u].at = "out"
    BY <1>3, <1>10 DEF LoginChats, Phases
  <2>2. readMsg[u] = Joined
    BY <1>2, <2>1 DEF InOrder
  <2>3. d.at = "data" /\ d.readTs = readMsg[u] /\ d.list = <<>>
    BY DEF LoggedOut
  <2>4. client' = [client EXCEPT ![u] = d] /\ call' = [call EXCEPT ![u] = NoCall]
        /\ UNCHANGED <<readMsg, readAll>>
    BY <1>10 DEF LoginChats, Returns, CallGoes
  <2> HIDE DEF d
  <2>5. InOrder(d, NoCall, readMsg[u])
    BY <1>1, <2>2, <2>3 DEF InOrder
  <2> QED
    BY <2>4, <2>5, OneInOrder
<1>11. ASSUME NEW u \in Users, NEW d, Stored(u, d), d.list # <<>> => Joined < d.cursor,
              UNCHANGED <<call, readMsg, readAll>>, client[u].at \in {"data", "fetch"}
       PROVE  OrderInv' /\ readAll' >= readAll
  <2>1. client' = [client EXCEPT ![u] = d] /\ Fetched(client[u], d)
    BY <1>11 DEF Stored
  <2>2. d.at = "sleep" /\ d.readTs = client[u].readTs /\ client[u].cursor <= d.cursor
        /\ d.cursor \in Nat
    BY <1>1, <1>11, <2>1 DEF Fetched, Stored, Client
  <2>3. InOrder(d, call[u], readMsg[u])
    BY <1>1, <1>2, <1>11, <2>2 DEF InOrder
  <2> QED
    BY <1>11, <2>1, <2>3, ClientInOrder
<1>12. ASSUME NEW u \in Users, ReceiveMessages(u, client[u]), client[u].at \in {"data", "fetch"}
       PROVE  OrderInv' /\ readAll' >= readAll
  <2>1. PICK d : Stored(u, d)
    BY <1>12, ReceiveStores
  <2>2. client'[u] = d /\ client[u].cursor <= d.cursor /\ d.cursor \in Nat
    BY <1>1, <2>1 DEF Stored, Fetched, Client
  <2>3. d.list # <<>> => Joined < d.cursor
    <3>1. CASE client[u].list = <<>>
      BY <1>12, <2>2, <3>1, FirstFetch
    <3>2. CASE client[u].list # <<>>
      BY <1>1, <1>2, <2>2, <3>2 DEF InOrder
    <3> QED
      BY <3>1, <3>2
  <2> QED
    BY <1>11, <1>12, <2>1, <2>3 DEF ReceiveMessages
<1>13. ASSUME NEW u \in Users, LoginFetch(u) PROVE OrderInv' /\ readAll' >= readAll
  BY <1>12, <1>13 DEF LoginFetch
<1>14. ASSUME NEW u \in Users, Fetch(u) PROVE OrderInv' /\ readAll' >= readAll
  <2>1. CASE client[u].pending
    BY <1>12, <1>14, <2>1 DEF Fetch
  <2>2. CASE ~ client[u].pending
    <3> DEFINE d == [client[u] EXCEPT !.at = "sleep", !.wake = now + 1]
    <3>1. client' = [client EXCEPT ![u] = d] /\ call' = call /\ UNCHANGED <<readMsg, readAll>>
      BY <1>14, <2>2 DEF Fetch, EndIteration
    <3>2. /\ d.at = "sleep" /\ d.readTs = client[u].readTs
          /\ d.cursor = client[u].cursor /\ d.list = client[u].list
      BY <1>1 DEF Client
    <3>3. client[u].at = "fetch"
      BY <1>14 DEF Fetch
    <3> HIDE DEF d
    <3>4. InOrder(d, call[u], readMsg[u])
      BY <1>2, <3>2, <3>3 DEF InOrder
    <3> QED
      BY <3>1, <3>4, ClientInOrder
  <2> QED
    BY <2>1, <2>2
<1>15. ASSUME NEW u \in Users, Wake(u) PROVE OrderInv' /\ readAll' >= readAll
  <2> DEFINE d == [client[u] EXCEPT !.at = "poll", !.wake = 0, !.sent = client[u].readTs]
  <2>1. client' = [client EXCEPT ![u] = d] /\ call' = call /\ UNCHANGED <<readMsg, readAll>>
    BY <1>15 DEF Wake
  <2>2. /\ d.at = "poll" /\ d.readTs = client[u].readTs /\ d.sent = client[u].readTs
        /\ d.cursor = client[u].cursor /\ d.list = client[u].list
    BY <1>1 DEF Client
  <2>3. client[u].at = "sleep"
    BY <1>15 DEF Wake
  <2> HIDE DEF d
  <2>4. InOrder(d, call[u], readMsg[u])
    BY <1>1, <1>2, <2>2, <2>3 DEF InOrder
  <2> QED
    BY <2>1, <2>4, ClientInOrder
<1>16. ASSUME NEW u \in Users, SyncEnds(u), client[u].at = "poll", UNCHANGED readMsg,
              readAll' >= readAll, readAll' \in Nat, \A v \in Users : readAll' <= readMsg[v]
       PROVE  OrderInv' /\ readAll' >= readAll
  <2> DEFINE d == [client[u] EXCEPT !.sent = 0]
             k == [NoCall EXCEPT !.at = "clock"]
  <2>1. client' = [client EXCEPT ![u] = d] /\ call' = [call EXCEPT ![u] = k]
    BY <1>16 DEF SyncEnds, CallGoes
  <2>2. /\ d.at = "poll" /\ d.readTs = client[u].readTs /\ d.sent = 0
        /\ d.cursor = client[u].cursor /\ d.list = client[u].list /\ k.at = "clock"
    BY <1>1, <1>16 DEF Client, NoCall
  <2> HIDE DEF d, k
  <2>3. InOrder(d, k, readMsg[u])
    BY <1>1, <1>2, <1>16, <2>2 DEF InOrder
  <2>4. \A v \in Users : InOrder(client'[v], call'[v], readMsg'[v])
    BY <1>1, <1>2, <1>16, <2>1, <2>3
  <2> QED
    BY <1>16, <2>4 DEF OrderInv, InOrder
<1>17. ASSUME NEW u \in Users, SyncMine(u) PROVE OrderInv' /\ readAll' >= readAll
  <2>1. client[u].at = "poll" /\ call[u].at = "none" /\ UNCHANGED readAll
    BY <1>17 DEF SyncMine, Free
  <2>2. readMsg[u] <= client[u].sent /\ client[u].sent <= client[u].readTs
    BY <1>2, <2>1 DEF InOrder
  <2>3. CASE UNCHANGED readMsg /\ SyncEnds(u)
    BY <1>1, <1>16, <2>1, <2>3 DEF OrderInv
  <2>4. CASE /\ readMsg' = [readMsg EXCEPT ![u] = IF @ < client[u].sent
                                                  THEN client[u].sent ELSE @]
             /\ CallGoes(u, [NoCall EXCEPT !.at = "sync_all"])
             /\ UNCHANGED client
    <3> DEFINE k == [NoCall EXCEPT !.at = "sync_all"]
    <3>1. call' = [call EXCEPT ![u] = k]
      BY <2>4 DEF CallGoes
    <3>2. readMsg'[u] = client[u].sent /\ \A v \in Users \ {u} : readMsg'[v] = readMsg[v]
      BY <1>1, <2>2, <2>4
    <3>3. InOrder(client[u], k, readMsg'[u])
      BY <1>1, <1>2, <2>1, <2>2, <3>2 DEF InOrder
    <3> HIDE DEF k
    <3>4. \A v \in Users : InOrder(client'[v], call'[v], readMsg'[v])
      BY <1>1, <1>2, <2>4, <3>1, <3>2, <3>3
    <3>5. \A v \in Users : readAll' <= readMsg'[v]
      BY <1>1, <2>1, <2>2, <3>2 DEF OrderInv
    <3> QED
      BY <1>1, <2>1, <3>4, <3>5 DEF OrderInv, InOrder
  <2> QED
    BY <1>17, <2>3, <2>4 DEF SyncMine
<1>18. ASSUME NEW u \in Users, SyncAll(u) PROVE OrderInv' /\ readAll' >= readAll
  <2>1. client[u].at = "poll"
    BY <1>3, <1>18 DEF SyncAll, Phases
  <2>2. call[u].at = "sync_all" /\ UNCHANGED readMsg /\ SyncEnds(u)
    BY <1>18 DEF SyncAll
  <2>3. readMsg[u] <= client[u].sent /\ readAll <= readMsg[u]
    BY <1>2, <2>1, <2>2 DEF InOrder, OrderInv
  <2>4. readAll' = readAll \/ (readAll' = client[u].sent /\ AllHaveRead(client[u].sent))
    BY <1>18 DEF SyncAll
  <2>5. /\ readAll' >= readAll /\ readAll' \in Nat
        /\ \A v \in Users : readAll' <= readMsg[v]
    BY <1>1, <2>3, <2>4 DEF AllHaveRead, OrderInv
  <2> QED
    BY <1>16, <2>1, <2>2, <2>5
<1>19. ASSUME NEW u \in Users, PollClock(u) PROVE OrderInv' /\ readAll' >= readAll
  <2>1. [NoCall EXCEPT !.at = "chats", !.t = now].at = "chats"
    BY DEF NoCall
  <2> QED
    BY <1>5, <1>19, <2>1 DEF PollClock, CallGoes
<1>20. ASSUME NEW u \in Users, NEW d, client' = [client EXCEPT ![u] = d], Returns(u),
              UNCHANGED <<readMsg, readAll>>, client[u].at = "poll", d.at = "fetch",
              d.readTs = client[u].readTs, d.cursor = client[u].cursor,
              d.list = client[u].list
       PROVE  OrderInv' /\ readAll' >= readAll
  <2>1. InOrder(d, NoCall, readMsg[u])
    BY <1>2, <1>20 DEF InOrder
  <2> QED
    BY <1>20, <2>1, OneInOrder DEF Returns, CallGoes
<1>21. ASSUME NEW u \in Users, PollFails(u), client[u].at = "poll"
       PROVE  OrderInv' /\ readAll' >= readAll
  <2> DEFINE d == [client[u] EXCEPT !.at = "fetch"]
  <2>1. client' = [client EXCEPT ![u] = d]
    BY <1>21 DEF PollFails
  <2>2. /\ d.at = "fetch" /\ d.readTs = client[u].readTs
        /\ d.cursor = client[u].cursor /\ d.list = client[u].list
    BY <1>1 DEF Client
  <2> HIDE DEF d
  <2> QED
    BY <1>20, <1>21, <2>1, <2>2 DEF PollFails
<1>22. ASSUME NEW u \in Users, PollChats(u) PROVE OrderInv' /\ readAll' >= readAll
  <2>1. client[u].at = "poll" /\ call[u].at = "chats"
    BY <1>3, <1>22 DEF PollChats, Phases
  <2> DEFINE f == Announced(client[u].lastNotif)
             k == [call[u] EXCEPT !.at = "times", !.found = f]
  <2>2. k.at = "times"
    BY <1>1 DEF Call
  <2>3. CASE call' = [call EXCEPT ![u] = k] /\ UNCHANGED <<now, rows, readMsg, readAll, client, faults>>
    <3> HIDE DEF k
    <3> QED
      BY <1>5, <2>2, <2>3
  <2> QED
    BY <1>21, <1>22, <2>1, <2>3 DEF PollChats, CallGoes
<1>23. ASSUME NEW u \in Users, PollTimes(u) PROVE OrderInv' /\ readAll' >= readAll
  <2>1. client[u].at = "poll"
    BY <1>3, <1>23 DEF PollTimes, Phases
  <2> DEFINE d == [client[u] EXCEPT !.at = "fetch", !.lastNotif = call[u].t,
                     !.pending = client[u].pending \/ call[u].found, !.allRead = readAll]
  <2>2. /\ d.at = "fetch" /\ d.readTs = client[u].readTs
        /\ d.cursor = client[u].cursor /\ d.list = client[u].list
    BY <1>1 DEF Client
  <2>3. CASE client' = [client EXCEPT ![u] = d] /\ Returns(u) /\ UNCHANGED <<readMsg, readAll>>
    <3> HIDE DEF d
    <3> QED
      BY <1>20, <2>1, <2>2, <2>3
  <2> QED
    BY <1>21, <1>23, <2>1, <2>3 DEF PollTimes
<1>24. ASSUME NEW u \in Users, OpenChat(u) PROVE OrderInv' /\ readAll' >= readAll
  <2> DEFINE d == [client[u] EXCEPT !.readTs = client[u].cursor]
  <2>1. client' = [client EXCEPT ![u] = d] /\ call' = call /\ UNCHANGED <<readMsg, readAll>>
    BY <1>24 DEF OpenChat
  <2>2. /\ d.at = client[u].at /\ d.readTs = client[u].cursor /\ d.sent = client[u].sent
        /\ d.cursor = client[u].cursor /\ d.list = client[u].list
    BY <1>1 DEF Client
  <2>3. client[u].at # "out" /\ Joined < client[u].cursor
    BY <1>2, <1>24 DEF OpenChat, Online, InOrder
  <2>4. client[u].readTs <= client[u].cursor
    BY <1>1, <1>2, <2>3 DEF InOrder
  <2> HIDE DEF d
  <2>5. InOrder(d, call[u], readMsg[u])
    BY <1>1, <1>2, <2>2, <2>3, <2>4 DEF InOrder
  <2> QED
    BY <2>1, <2>5, ClientInOrder
<1>25. Tick \/ UNCHANGED vars => OrderInv' /\ readAll' >= readAll
  BY <1>4 DEF Tick, vars
<1> QED
  BY <1>6, <1>7, <1>8, <1>9, <1>10, <1>13, <1>14, <1>15, <1>17, <1>18, <1>19,
     <1>22, <1>23, <1>24, <1>25 DEF Next

\* Within a session the read time of a chat never goes back, in whatever order
\* the polls of any number of members arrive, as long as no two messages have
\* the same stamp.
THEOREM ReadTimesKept ==
  ASSUME ~ Relogin
  PROVE  Spec /\ []StampsDistinct => ReadTimeMonotonic
<1>1. Init => OrderInv
  BY TimeAssumption DEF Init, OrderInv, InOrder, LoggedOut, NoCall
<1>2. TypeInv /\ OrderInv /\ StampsDistinct /\ [Next]_vars
      => OrderInv' /\ [readAll' >= readAll]_vars
  BY OrderNext
<1> QED
  BY <1>1, <1>2, TypeInvInit, TypeInvNext, PTL DEF Spec, ReadTimeMonotonic

\* ... which is so where one user writes.
THEOREM OneSenderReadTimesKept ==
  ASSUME ~ Relogin, NEW s, Senders = {s}
  PROVE  Spec => ReadTimeMonotonic
BY ReadTimesKept, OneSenderStampsDistinct, PTL
=============================================================================
