-------------------------- MODULE Delivery_proofs ---------------------------
(***************************************************************************)
(* What holds of Delivery for any users, clock, bounds and settings.       *)
(***************************************************************************)
EXTENDS Delivery, FiniteSetTheorems, SequenceTheorems, TLAPS

USE DEF Times

-----------------------------------------------------------------------------
(* Batches and the bounded list.                                           *)

\* A batch holds the rows of the SELECT, each at some place.
LEMMA BatchIsSeq ==
  ASSUME NEW S, IsFiniteSet(S), NEW batch \in SetToSeqs(S)
  PROVE  /\ batch \in Seq(S)
         /\ Len(batch) = Cardinality(S)
<1>1. Cardinality(S) \in Nat
  BY FS_CardinalityType
<1>2. batch \in [1..Cardinality(S) -> S]
  BY DEF SetToSeqs
<1> QED
  BY <1>1, <1>2

LEMMA BatchHasAll ==
  ASSUME NEW S, IsFiniteSet(S), NEW batch \in SetToSeqs(S)
  PROVE  Range(batch) = S
<1> DEFINE D == 1..Cardinality(S)
<1>1. /\ Cardinality(S) \in Nat /\ IsFiniteSet(D) /\ Cardinality(D) = Cardinality(S)
  BY FS_CardinalityType, FS_Interval
<1>2. batch \in [D -> S] /\ \A i, j \in D : i # j => batch[i] # batch[j]
  BY DEF SetToSeqs
<1>3. DOMAIN batch = D
  BY <1>2
<1>4. batch \in Injection(D, S)
  BY <1>2, <1>3 DEF Injection, IsInjective
<1>5. batch \in Surjection(D, S)
  BY <1>1, <1>4, FS_Injection
<1> QED
  BY <1>2, <1>3, <1>5 DEF Surjection, Range

\* A part of a sequence is a sequence of its elements.
LEMMA PartOfSeq ==
  ASSUME NEW S, NEW s \in Seq(S), NEW i \in Nat \ {0}, NEW j \in 0..Len(s)
  PROVE  /\ SubSeq(s, i, j) \in Seq(S)
         /\ Len(SubSeq(s, i, j)) = IF i <= j THEN j - i + 1 ELSE 0
<1>1. \A k \in i..j : s[k] \in S
  OBVIOUS
<1> QED
  BY <1>1, SubSeqProperties

\* What is left of a batch for the list fits it, and so does what is kept.
LEMMA RoomIsMade ==
  ASSUME NEW S, NEW T, NEW list \in Seq(T), NEW batch \in Seq(S),
         Len(list) <= MaxMessages
  PROVE  /\ NewestOf(batch) \in Seq(S) /\ Len(NewestOf(batch)) <= MaxMessages
         /\ Kept(list, NewestOf(batch)) \in Seq(T)
         /\ Len(Kept(list, NewestOf(batch))) <= MaxMessages
<1> DEFINE new == NewestOf(batch)
           gaps == Len(new) - (MaxMessages - Len(list))
<1>1. MaxMessages \in Nat \ {0}
  BY MaxMessagesAssumption
<1>2. new \in Seq(S) /\ Len(new) <= MaxMessages
  <2>1. CASE Len(batch) > MaxMessages
    <3>1. Len(batch) - MaxMessages + 1 \in Nat \ {0}
      BY <1>1, <2>1
    <3> QED
      BY <1>1, <2>1, <3>1, PartOfSeq DEF NewestOf
  <2> QED
    BY <2>1, <1>1 DEF NewestOf
<1>3. Kept(list, new) = IF gaps > 0 THEN SubSeq(list, gaps + 1, Len(list)) ELSE list
  BY DEF Kept
<1> HIDE DEF new
<1>4. Kept(list, new) \in Seq(T) /\ Len(Kept(list, new)) <= MaxMessages
  <2>1. CASE gaps > 0
    <3>1. gaps + 1 \in Nat \ {0}
      BY <1>1, <1>2, <2>1
    <3> QED
      BY <1>1, <1>2, <1>3, <2>1, <3>1, PartOfSeq
  <2>2. CASE ~ (gaps > 0)
    BY <1>3, <2>2
  <2> QED
    BY <2>1, <2>2
<1> QED
  BY <1>2, <1>4 DEF new

\* cha_add_messages adds messages of the batch, and never makes the list longer
\* than its bound.
LEMMA ListStaysBounded ==
  ASSUME NEW S, NEW T, NEW kept \in Seq(T), NEW new \in Seq(S), NEW n \in 0..Len(new),
         Len(kept) <= MaxMessages, Addable(kept, new, n)
  PROVE  LET added == SubSeq(new, 1, n)
         IN  /\ kept \o added \in Seq(S \cup T)
             /\ Len(kept \o added) <= MaxMessages
             /\ Range(added) \subseteq S
             /\ Range(kept \o added) \subseteq T \cup Range(added)
<1> DEFINE added == SubSeq(new, 1, n)
<1>1. added \in Seq(S) /\ Len(added) = n
  BY PartOfSeq
<1> HIDE DEF added
<1>2. Len(kept) + n <= MaxMessages
  <2>1. CASE n = 0
    BY <2>1, MaxMessagesAssumption
  <2>2. CASE n # 0
    BY <2>2, MaxMessagesAssumption DEF Addable, Refused
  <2> QED
    BY <2>1, <2>2
<1>3. added \in Seq(S \cup T) /\ kept \in Seq(S \cup T)
  BY <1>1
<1>4. kept \o added \in Seq(S \cup T) /\ Len(kept \o added) = Len(kept) + Len(added)
  BY <1>3, ConcatProperties
<1>5. Range(added) \subseteq S /\ Range(kept) \subseteq T
  BY <1>1, RangeOfSeq
<1>6. Range(kept \o added) = Range(kept) \cup Range(added)
  BY <1>3, RangeConcatenation
<1>7. Len(kept \o added) <= MaxMessages
  BY <1>1, <1>2, <1>4
<1> QED
  BY <1>4, <1>5, <1>6, <1>7 DEF added

\* A fetch moves the cursor past everything it got: by one when it got nothing,
\* else to the second after a message that was there.
LEMMA CursorMoves ==
  ASSUME NEW S, NEW cursor \in Nat, NEW next \in NextCursor(cursor, S),
         \A m \in S : m.stamp \in Nat /\ cursor <= m.stamp /\ m.stamp <= now,
         now \in Nat
  PROVE  /\ next \in Nat /\ cursor < next
         /\ next = cursor + 1 \/ next <= now + 1
         /\ next = cursor + 1 \/ \E m \in S : next = m.stamp + 1
         /\ \A m \in S : m.stamp < next
<1>1. PICK s \in Stamps(S) \cup {cursor} : /\ next = s + 1
                                           /\ \A d \in Stamps(S) : d <= s
  BY DEF NextCursor
<1>2. s \in Nat /\ cursor <= s /\ (s = cursor \/ s <= now)
  BY <1>1 DEF Stamps
<1>3. \A m \in S : m.stamp <= s
  BY <1>1 DEF Stamps
<1>4. s = cursor \/ \E m \in S : s = m.stamp
  BY <1>1 DEF Stamps
<1> QED
  BY <1>1, <1>2, <1>3, <1>4

-----------------------------------------------------------------------------
(* Types, the clock, and where a client may be in a request.               *)

\* Where client c may be while its request is k: a poll is under way only in the
\* state "poll", a login only when logged out, and only users online send.
Phases(c, k) ==
  /\ k.at \in {"sync_all", "clock", "chats", "times"} => c.at = "poll"
  /\ k.at = "data_chats" => c.at = "out"
  /\ k.at \in {"check", "insert", "nap"} => c.at \in {"sleep", "poll", "fetch"}

\* No stamp is of the future.
Past(c, k) ==
  /\ k.t <= IF k.at = "nap" THEN now + 1 ELSE now
  /\ c.lastNotif <= now
  /\ c.wake <= now + 1
  /\ c.at \in {"out", "data"} => c.cursor = 0

\* The list of a client shows what it fetched, and that is in the table.
Lists(c) ==
  /\ Len(c.list) <= MaxMessages
  /\ Range(c.list) \subseteq c.got
  /\ c.got \subseteq rows

TypeInv ==
  /\ TypeOK
  /\ IsFiniteSet(rows)
  /\ \A m \in rows : m.stamp <= now
  /\ \A u \in Users : Phases(client[u], call[u]) /\ Past(client[u], call[u])

\* What a fetch does to a client that does not log out at its end.
Fetched(c, d) ==
  /\ d.at = "sleep" /\ d.wake = now + 1
  /\ d.lastNotif = c.lastNotif /\ d.readTs = c.readTs
  /\ d.sent = c.sent /\ d.allRead = c.allRead
  /\ c.got \subseteq d.got
  /\ \/ d.cursor = c.cursor /\ d.pending = c.pending
     \/ /\ c.cursor < d.cursor /\ (d.cursor = c.cursor + 1 \/ d.cursor <= now + 1)
        /\ d.cursor = c.cursor + 1 \/ \E m \in Visible : d.cursor = m.stamp + 1
        /\ ~ d.pending
        /\ \A m \in Visible : c.cursor <= m.stamp => m.stamp < d.cursor /\ m \in d.got

\* The client record after one iteration of notifications_fetch.
Stored(u, d) ==
  /\ client' = [client EXCEPT ![u] = d]
  /\ d \in Client
  /\ Len(d.list) <= MaxMessages /\ Range(d.list) \subseteq d.got /\ d.got \subseteq rows
  /\ \/ Fetched(client[u], d)
     \/ d = LoggedOut /\ Relogin /\ Online(u) /\ Free(u)

LEMMA LoggedOutType ==
  ASSUME TypeInv
  PROVE  /\ LoggedOut \in Client
         /\ Len(LoggedOut.list) <= MaxMessages
         /\ Range(LoggedOut.list) = {} /\ LoggedOut.got = {}
<1>1. <<>> \in Seq(Messages) /\ Len(<<>>) = 0 /\ DOMAIN <<>> = {}
  OBVIOUS
<1>2. Range(<<>>) = {}
  BY <1>1 DEF Range
<1> QED
  BY <1>1, <1>2, TimeAssumption, MaxMessagesAssumption DEF LoggedOut, Client

\* The end of an iteration, for a client record that is a fetch's.
LEMMA IterationEnds ==
  ASSUME TypeInv, NEW u \in Users, NEW c \in Client,
         Len(c.list) <= MaxMessages, Range(c.list) \subseteq c.got, c.got \subseteq rows,
         EndIteration(u, c),
         Fetched(client[u], [c EXCEPT !.at = "sleep", !.wake = now + 1])
  PROVE  \E d : Stored(u, d) /\ (d = LoggedOut \/ d.cursor = c.cursor)
<1>1. CASE client' = [client EXCEPT ![u] = [c EXCEPT !.at = "sleep", !.wake = now + 1]]
  <2> DEFINE d == [c EXCEPT !.at = "sleep", !.wake = now + 1]
  <2>1. now + 1 \in 0..(MaxTime + 1)
    BY TimeAssumption DEF TypeInv, TypeOK
  <2>2. d \in Client /\ d.list = c.list /\ d.got = c.got /\ d.cursor = c.cursor
    BY <2>1 DEF Client
  <2>3. Stored(u, d) /\ d.cursor = c.cursor
    BY <1>1, <2>2 DEF Stored
  <2> QED
    BY <2>3
<1>2. CASE Relogin /\ Online(u) /\ Free(u) /\ client' = [client EXCEPT ![u] = LoggedOut]
  <2>1. Stored(u, LoggedOut)
    BY <1>2, LoggedOutType DEF Stored
  <2> QED
    BY <2>1
<1> QED
  BY <1>1, <1>2 DEF EndIteration

\* _recv_messages, whatever the order of the rows and wherever the list refuses
\* one: what is skipped is never more than what was got.
LEMMA ReceiveStores ==
  ASSUME TypeInv, NEW u \in Users, client[u].at \in {"data", "fetch"},
         ReceiveMessages(u, client[u])
  PROVE  \E d : Stored(u, d)
<1> DEFINE c == client[u]
           S == Pending(c.cursor)
<1>1. /\ c \in Client /\ Len(c.list) <= MaxMessages
      /\ Range(c.list) \subseteq c.got /\ c.got \subseteq rows
      /\ rows \subseteq Messages /\ now \in Nat
      /\ \A m \in rows : m.stamp <= now
  BY TimeAssumption DEF TypeInv, TypeOK
<1>2. /\ c.cursor \in Nat /\ c.list \in Seq(Messages) /\ c.got \subseteq Messages
  BY <1>1 DEF Client
<1>3. c.list \in Seq(c.got)
  BY <1>1, <1>2, SeqOfRange
<1>4. S \subseteq rows /\ \A m \in S : m.stamp \in Nat /\ c.cursor <= m.stamp /\ m.stamp <= now
  BY <1>1 DEF Pending, Visible, Messages
<1>5. IsFiniteSet(S)
  BY <1>4, FS_Subset DEF TypeInv
<1>6. \A m \in Visible : c.cursor <= m.stamp => m \in S
  BY DEF Pending
<1>7. CASE EndIteration(u, c)
  <2>1. Fetched(c, [c EXCEPT !.at = "sleep", !.wake = now + 1])
    BY <1>1 DEF Fetched, Client
  <2> QED
    BY <1>1, <1>7, <2>1, IterationEnds
<1>8. ASSUME NEW batch \in SetToSeqs(S), NEW n \in 0..Len(NewestOf(batch)),
             Addable(Kept(c.list, NewestOf(batch)), NewestOf(batch), n),
             LET new == NewestOf(batch)
                 kept == Kept(c.list, new)
                 added == SubSeq(new, 1, n)
                 listed == [c EXCEPT !.list = kept \o added]
             IN  IF n = Len(new)
                 THEN \E next \in NextCursor(c.cursor, Range(batch)) :
                        EndIteration(u, [listed EXCEPT
                          !.got = @ \cup Range(batch),
                          !.pending = FALSE, !.cursor = next])
                 ELSE EndIteration(u, [listed EXCEPT
                        !.got = @ \cup Range(added)])
      PROVE  \E d : Stored(u, d)
  <2> DEFINE new == NewestOf(batch)
             kept == Kept(c.list, new)
             added == SubSeq(new, 1, n)
             list == kept \o added
             listed == [c EXCEPT !.list = list]
  <2>1. batch \in Seq(S) /\ Range(batch) = S
    BY <1>5, BatchIsSeq, BatchHasAll
  <2>2. new \in Seq(S) /\ kept \in Seq(c.got) /\ Len(kept) <= MaxMessages
    BY <1>1, <1>3, <2>1, RoomIsMade
  <2> HIDE DEF new, kept
  <2>3. Addable(kept, new, n) /\ n \in 0..Len(new)
    BY <1>8 DEF new, kept
  <2>4. /\ list \in Seq(S \cup c.got) /\ Len(list) <= MaxMessages
        /\ Range(added) \subseteq S /\ Range(list) \subseteq c.got \cup Range(added)
    <3> DEFINE R == S
               G == c.got
    <3>1. new \in Seq(R) /\ kept \in Seq(G) /\ Len(kept) <= MaxMessages
      BY <2>2
    <3> HIDE DEF R, G
    <3>2. /\ kept \o SubSeq(new, 1, n) \in Seq(R \cup G)
          /\ Len(kept \o SubSeq(new, 1, n)) <= MaxMessages
          /\ Range(SubSeq(new, 1, n)) \subseteq R
          /\ Range(kept \o SubSeq(new, 1, n)) \subseteq G \cup Range(SubSeq(new, 1, n))
      BY <2>3, <3>1, ListStaysBounded, Zenon
    <3> QED
      BY <3>2 DEF R, G
  <2> HIDE DEF added, list
  <2>5. list \in Seq(Messages) /\ S \subseteq Messages
    BY <1>1, <1>4, <2>4
  <2>6. ASSUME NEW next \in NextCursor(c.cursor, Range(batch)),
               EndIteration(u, [listed EXCEPT !.got = @ \cup Range(batch),
                                              !.pending = FALSE, !.cursor = next])
        PROVE  \E d : Stored(u, d)
    <3> DEFINE e == [listed EXCEPT !.got = @ \cup Range(batch),
                                   !.pending = FALSE, !.cursor = next]
    <3>1. /\ next \in Nat /\ c.cursor < next /\ (next = c.cursor + 1 \/ next <= now + 1)
          /\ next = c.cursor + 1 \/ \E m \in S : next = m.stamp + 1
          /\ \A m \in S : m.stamp < next
      BY <1>1, <1>2, <1>4, <2>1, <2>6, CursorMoves
    <3>0. S \subseteq Visible
      BY DEF Pending
    <3>2. /\ e \in Client /\ e.list = list /\ e.got = c.got \cup S
      BY <1>1, <1>2, <2>1, <2>5, <3>1 DEF Client
    <3>3. Range(e.list) \subseteq e.got /\ e.got \subseteq rows
      BY <1>1, <1>4, <2>4, <3>2
    <3>4. Fetched(c, [e EXCEPT !.at = "sleep", !.wake = now + 1])
      <4> DEFINE d == [e EXCEPT !.at = "sleep", !.wake = now + 1]
      <4>1. /\ d.at = "sleep" /\ d.wake = now + 1 /\ d.cursor = next
            /\ d.lastNotif = c.lastNotif /\ d.readTs = c.readTs
            /\ d.sent = c.sent /\ d.allRead = c.allRead
            /\ d.got = c.got \cup S /\ ~ d.pending
        BY <1>1, <2>1 DEF Client
      <4> HIDE DEF d
      <4>2. Fetched(c, d)
        BY <4>1, <3>0, <3>1, <1>6 DEF Fetched
      <4> QED
        BY <4>2 DEF d
    <3> QED
      BY <2>4, <2>6, <3>2, <3>3, <3>4, IterationEnds
  <2>7. ASSUME EndIteration(u, [listed EXCEPT !.got = @ \cup Range(added)])
        PROVE  \E d : Stored(u, d)
    <3> DEFINE e == [listed EXCEPT !.got = @ \cup Range(added)]
    <3>1. /\ e \in Client /\ e.list = list /\ e.got = c.got \cup Range(added)
      BY <1>1, <1>2, <2>4, <2>5 DEF Client
    <3>2. Range(e.list) \subseteq e.got /\ e.got \subseteq rows
      BY <1>1, <1>4, <2>4, <3>1
    <3>3. Fetched(c, [e EXCEPT !.at = "sleep", !.wake = now + 1])
      BY <1>1 DEF Client, Fetched
    <3> QED
      BY <2>4, <2>7, <3>1, <3>2, <3>3, IterationEnds
  <2> QED
    BY <1>8, <2>6, <2>7 DEF new, kept, added, list
<1> QED
  BY <1>7, <1>8 DEF ReceiveMessages

\* A step that concerns one user, and adds no row.
LEMMA OneUser ==
  ASSUME TypeInv, NEW u \in Users, NEW d \in Client, NEW k \in Call,
         client' = [client EXCEPT ![u] = d], call' = [call EXCEPT ![u] = k],
         now' = now, rows' = rows,
         readMsg' \in [Users -> Nat], readAll' \in Nat, faults' \in 0..MaxFaults,
         Lists(d), Phases(d, k), Past(d, k)
  PROVE  TypeInv'
<1>1. /\ client \in [Users -> Client] /\ call \in [Users -> Call]
      /\ \A v \in Users : Lists(client[v])
      /\ \A v \in Users : Phases(client[v], call[v]) /\ Past(client[v], call[v])
  BY DEF TypeInv, TypeOK, Lists
<1>2. client' \in [Users -> Client] /\ call' \in [Users -> Call]
  BY <1>1
<1>3. \A v \in Users : /\ client'[v] = IF v = u THEN d ELSE client[v]
                       /\ call'[v] = IF v = u THEN k ELSE call[v]
  BY <1>1
<1>4. \A v \in Users : Lists(client[v])'
  BY <1>1, <1>3 DEF Lists
<1>5. \A v \in Users : Phases(client[v], call[v])'
  BY <1>1, <1>3 DEF Phases
<1>6. \A v \in Users : Past(client[v], call[v])'
  BY <1>1, <1>3 DEF Past
<1>7. TypeOK'
  BY <1>2, <1>4 DEF TypeInv, TypeOK, Lists
<1> QED
  BY <1>5, <1>6, <1>7 DEF TypeInv

\* ... and leaves its client as it was, or its request.
LEMMA OneRequest ==
  ASSUME TypeInv, NEW u \in Users, NEW k \in Call,
         client' = client, call' = [call EXCEPT ![u] = k],
         now' = now, rows' = rows,
         readMsg' \in [Users -> Nat], readAll' \in Nat, faults' \in 0..MaxFaults,
         Phases(client[u], k), Past(client[u], k)
  PROVE  TypeInv'
<1>1. client[u] \in Client /\ client' = [client EXCEPT ![u] = client[u]] /\ Lists(client[u])
  BY DEF TypeInv, TypeOK, Lists
<1> QED
  BY <1>1, OneUser

LEMMA OneClient ==
  ASSUME TypeInv, NEW u \in Users, NEW d \in Client,
         client' = [client EXCEPT ![u] = d], call' = call,
         now' = now, rows' = rows,
         readMsg' = readMsg, readAll' = readAll, faults' \in 0..MaxFaults,
         Lists(d), Phases(d, call[u]), Past(d, call[u])
  PROVE  TypeInv'
<1>1. call[u] \in Call /\ call' = [call EXCEPT ![u] = call[u]]
      /\ readMsg \in [Users -> Nat] /\ readAll \in Nat
  BY DEF TypeInv, TypeOK
<1> QED
  BY <1>1, OneUser

-----------------------------------------------------------------------------
(* Type correctness.                                                       *)

LEMMA TypeInvInit == Init => TypeInv
<1> SUFFICES ASSUME Init PROVE TypeInv
  OBVIOUS
<1>1. LoggedOut \in Client /\ NoCall \in Call
  BY TimeAssumption DEF LoggedOut, NoCall, Client, Call
<1>2. \A u \in Users : Lists(client[u])
  <2>1. Len(<<>>) = 0 /\ Range(<<>>) = {}
    BY DEF Range
  <2> QED
    BY <2>1, MaxMessagesAssumption DEF Init, Lists, LoggedOut
<1>3. TypeOK
  BY <1>1, <1>2, TimeAssumption, MaxFaultsAssumption DEF Init, TypeOK, Lists
<1>4. IsFiniteSet(rows) /\ \A m \in rows : m.stamp <= now
  BY FS_EmptySet DEF Init
<1>5. \A u \in Users : Phases(client[u], call[u]) /\ Past(client[u], call[u])
  BY TimeAssumption DEF Init, Phases, Past, LoggedOut, NoCall
<1> QED
  BY <1>3, <1>4, <1>5 DEF TypeInv

LEMMA TypeInvNext == TypeInv /\ [Next]_vars => TypeInv'
<1> SUFFICES ASSUME TypeInv, [Next]_vars PROVE TypeInv'
  OBVIOUS
<1>1. /\ now \in Nat /\ now <= MaxTime /\ Joined <= now
      /\ readMsg \in [Users -> Nat] /\ readAll \in Nat /\ faults \in 0..MaxFaults
      /\ client \in [Users -> Client] /\ call \in [Users -> Call]
      /\ \A u \in Users : Lists(client[u])
  BY TimeAssumption DEF TypeInv, TypeOK, Lists
<1>2. \A u \in Users : Phases(client[u], call[u]) /\ Past(client[u], call[u])
  BY DEF TypeInv
<1>3. NoFault => faults' \in 0..MaxFaults
  BY <1>1 DEF NoFault
<1>4. Fault => faults' \in 0..MaxFaults
  BY <1>1, MaxFaultsAssumption DEF Fault
<1>5. NoCall \in Call /\ NoCall.at = "none" /\ NoCall.t = 0
  BY DEF NoCall, Call
<1>6. ASSUME Tick PROVE TypeInv'
  <2>1. now' = now + 1 /\ now' <= MaxTime /\ UNCHANGED <<rows, client, call, readMsg, readAll, faults>>
    BY <1>1, <1>6, TimeAssumption DEF Tick
  <2>2. TypeOK'
    BY <1>1, <2>1, TimeAssumption DEF TypeInv, TypeOK
  <2>3. \A u \in Users : Phases(client[u], call[u])'
    BY <1>2, <2>1 DEF Phases
  <2>4. \A u \in Users : Past(client[u], call[u])'
    BY <1>1, <1>2, <2>1 DEF Past, Client, Call
  <2>5. IsFiniteSet(rows)' /\ \A m \in rows' : m.stamp <= now'
    BY <1>1, <2>1 DEF TypeInv, TypeOK, Messages
  <2> QED
    BY <2>2, <2>3, <2>4, <2>5 DEF TypeInv
<1>7. ASSUME NEW u \in Users, SendStamp(u) PROVE TypeInv'
  <2> DEFINE k == [NoCall EXCEPT !.at = "check", !.t = now]
  <2>1. k \in Call /\ k.at = "check" /\ k.t = now
    BY <1>1 DEF NoCall, Call
  <2>2. client[u].at \in {"sleep", "poll", "fetch"}
    BY <1>2, <1>7 DEF SendStamp, Online, Phases
  <2>3. Phases(client[u], k) /\ Past(client[u], k)
    BY <1>1, <1>2, <2>1, <2>2 DEF Phases, Past
  <2> QED
    BY <1>1, <1>7, <2>1, <2>3, OneRequest DEF SendStamp, CallGoes
<1>8. ASSUME NEW u \in Users, SendCheck(u) PROVE TypeInv'
  <2>1. client[u].at \in {"sleep", "poll", "fetch"}
    BY <1>2, <1>8 DEF SendCheck, Phases
  <2>2. CASE CallGoes(u, [NoCall EXCEPT !.at = "nap", !.t = now + 1])
    <3> DEFINE k == [NoCall EXCEPT !.at = "nap", !.t = now + 1]
    <3>0. now + 1 \in Nat
      BY <1>1
    <3>1. k \in Call /\ k.at = "nap" /\ k.t = now + 1
      BY <3>0 DEF NoCall, Call
    <3>2. Phases(client[u], k) /\ Past(client[u], k)
      BY <1>1, <1>2, <2>1, <3>1 DEF Phases, Past
    <3> QED
      BY <1>1, <1>3, <1>4, <1>8, <2>2, <3>1, <3>2, OneRequest DEF SendCheck, CallGoes
  <2>3. CASE CallGoes(u, [call[u] EXCEPT !.at = "insert"])
    <3> DEFINE k == [call[u] EXCEPT !.at = "insert"]
    <3>1. k \in Call /\ k.at = "insert" /\ k.t = call[u].t
      BY <1>1 DEF Call
    <3>2. Phases(client[u], k) /\ Past(client[u], k)
      BY <1>1, <1>2, <1>8, <2>1, <3>1 DEF Phases, Past, SendCheck
    <3> QED
      BY <1>1, <1>3, <1>4, <1>8, <2>3, <3>1, <3>2, OneRequest DEF SendCheck, CallGoes
  <2> QED
    BY <1>8, <2>2, <2>3 DEF SendCheck
<1>9. ASSUME NEW u \in Users, SendInsert(u) PROVE TypeInv'
  <2> DEFINE m == [sender |-> u, stamp |-> call[u].t]
  <2>1. call[u].t \in 0..MaxTime /\ call[u].t <= now
    BY <1>1, <1>2, <1>9, TimeAssumption DEF SendInsert, Past, Call
  <2>2. m \in Messages /\ m.stamp <= now
    BY <2>1 DEF Messages
  <2>3. rows' = rows \cup {m} \/ rows' = rows
    BY <1>9 DEF SendInsert
  <2>4. call' = [call EXCEPT ![u] = NoCall]
    BY <1>9 DEF SendInsert, Returns, CallGoes
  <2>5. UNCHANGED <<now, readMsg, readAll, client>> /\ faults' \in 0..MaxFaults
    BY <1>3, <1>4, <1>9 DEF SendInsert
  <2>6. rows \subseteq rows' /\ rows' \subseteq Messages /\ \A x \in rows' : x.stamp <= now'
    BY <2>2, <2>3, <2>5 DEF TypeInv, TypeOK
  <2>7. IsFiniteSet(rows)'
    BY <2>3, FS_AddElement DEF TypeInv
  <2>8. call' \in [Users -> Call]
    BY <1>1, <1>5, <2>4
  <2>9. TypeOK'
    BY <1>1, <2>5, <2>6, <2>8 DEF TypeInv, TypeOK, Lists
  <2>10. \A v \in Users : Phases(client[v], call[v])' /\ Past(client[v], call[v])'
    BY <1>1, <1>2, <1>5, <2>4, <2>5 DEF Phases, Past, Call
  <2> QED
    BY <2>6, <2>7, <2>9, <2>10 DEF TypeInv
<1>10. ASSUME NEW u \in Users, LoginClock(u) PROVE TypeInv'
  <2> DEFINE k == [NoCall EXCEPT !.at = "data_chats", !.t = now]
  <2>1. k \in Call /\ k.at = "data_chats" /\ k.t = now
    BY <1>1 DEF NoCall, Call
  <2>2. Phases(client[u], k) /\ Past(client[u], k)
    BY <1>1, <1>2, <1>10, <2>1 DEF Phases, Past, LoginClock
  <2> QED
    BY <1>1, <1>10, <2>1, <2>2, OneRequest DEF LoginClock, CallGoes
<1>11. ASSUME NEW u \in Users, LoginChats(u) PROVE TypeInv'
  <2> DEFINE d == [LoggedOut EXCEPT !.at = "data", !.lastNotif = call[u].t,
                     !.readTs = readMsg[u], !.allRead = readAll]
  <2>1. call[u].t <= now /\ call[u].t \in 0..MaxTime
    BY <1>1, <1>2, <1>11, TimeAssumption DEF LoginChats, Past, Call
  <2>2. /\ LoggedOut \in Client /\ Lists(LoggedOut)
        /\ LoggedOut.cursor = 0 /\ LoggedOut.wake = 0
    BY LoggedOutType DEF Lists, LoggedOut
  <2>3. /\ d \in Client /\ d.at = "data" /\ d.lastNotif = call[u].t /\ d.cursor = 0
        /\ d.wake = 0 /\ d.list = LoggedOut.list /\ d.got = LoggedOut.got
    BY <1>1, <2>1, <2>2 DEF Client
  <2>4. Lists(d) /\ Phases(d, NoCall) /\ Past(d, NoCall)
    BY <1>1, <1>5, <2>1, <2>2, <2>3 DEF Lists, Phases, Past
  <2> HIDE DEF d
  <2> QED
    BY <1>1, <1>5, <1>11, <2>3, <2>4, OneUser DEF LoginChats, Returns, CallGoes, d
<1>12. ASSUME NEW u \in Users, NEW d, Stored(u, d), client[u].at \in {"data", "fetch"},
              UNCHANGED <<now, rows, readMsg, readAll, call>>, faults' \in 0..MaxFaults,
              client[u].at = "data" => Free(u)
       PROVE  TypeInv'
  <2>1. d \in Client /\ Lists(d) /\ client' = [client EXCEPT ![u] = d]
    BY <1>12 DEF Stored, Lists
  <2>2. CASE Fetched(client[u], d)
    <3>1. Phases(d, call[u])
      BY <1>2, <1>12, <2>2 DEF Phases, Fetched, Free
    <3>2. Past(d, call[u])
      BY <1>1, <1>2, <2>2 DEF Past, Fetched
    <3> QED
      BY <1>12, <2>1, <3>1, <3>2, OneClient
  <2>3. CASE d = LoggedOut /\ Free(u)
    <3>1. d.at = "out" /\ d.lastNotif = 0 /\ d.wake = 0 /\ d.cursor = 0
      BY <2>3 DEF LoggedOut
    <3>2. Phases(d, call[u]) /\ Past(d, call[u])
      BY <1>1, <1>2, <2>3, <3>1 DEF Phases, Past, Free
    <3> QED
      BY <1>12, <2>1, <3>2, OneClient
  <2> QED
    BY <1>12, <2>2, <2>3 DEF Stored
<1>13. ASSUME NEW u \in Users, LoginFetch(u) PROVE TypeInv'
  <2>1. client[u].at = "data" /\ ReceiveMessages(u, client[u])
    BY <1>13 DEF LoginFetch
  <2>2. PICK d : Stored(u, d)
    BY <2>1, ReceiveStores
  <2>3. Free(u) /\ UNCHANGED <<now, rows, readMsg, readAll, call>> /\ faults' \in 0..MaxFaults
    BY <1>3, <1>4, <2>1 DEF ReceiveMessages
  <2> QED
    BY <1>12, <2>1, <2>2, <2>3
<1>14. ASSUME NEW u \in Users, Wake(u) PROVE TypeInv'
  <2> DEFINE d == [client[u] EXCEPT !.at = "poll", !.wake = 0, !.sent = client[u].readTs]
  <2>1. client' = [client EXCEPT ![u] = d]
    BY <1>14 DEF Wake
  <2>2. /\ d \in Client /\ d.at = "poll" /\ d.wake = 0 /\ d.lastNotif = client[u].lastNotif
        /\ d.list = client[u].list /\ d.got = client[u].got
    <3>1. client[u] \in Client /\ 0 \in 0..MaxTime + 1
      BY <1>1, TimeAssumption
    <3> QED
      BY <3>1 DEF Client
  <2>3. Lists(d) /\ Phases(d, call[u]) /\ Past(d, call[u])
    BY <1>1, <1>2, <1>14, <2>2 DEF Lists, Phases, Past, Wake
  <2> HIDE DEF d
  <2> QED
    BY <1>1, <1>14, <2>1, <2>2, <2>3, OneClient DEF Wake
<1>15. ASSUME NEW u \in Users, SyncMine(u) \/ SyncAll(u),
              SyncEnds(u) PROVE TypeInv'
  <2> DEFINE d == [client[u] EXCEPT !.sent = 0]
             k == [NoCall EXCEPT !.at = "clock"]
  <2>1. client' = [client EXCEPT ![u] = d] /\ call' = [call EXCEPT ![u] = k]
    BY <1>15 DEF SyncEnds, CallGoes
  <2>2. /\ d \in Client /\ d.at = client[u].at /\ d.wake = client[u].wake
        /\ d.lastNotif = client[u].lastNotif
        /\ d.list = client[u].list /\ d.got = client[u].got
    BY <1>1 DEF Client
  <2>3. k \in Call /\ k.at = "clock" /\ k.t = 0
    BY DEF NoCall, Call
  <2>4. client[u].at = "poll"
    BY <1>2, <1>15 DEF SyncMine, SyncAll, Phases
  <2>5. Lists(d) /\ Phases(d, k) /\ Past(d, k)
    BY <1>1, <1>2, <2>2, <2>3, <2>4 DEF Lists, Phases, Past
  <2>6. UNCHANGED <<now, rows>> /\ readMsg' \in [Users -> Nat] /\ faults' \in 0..MaxFaults
    <3>1. CASE SyncMine(u)
      <4>1. client[u].sent \in Nat
        BY <1>1 DEF Client
      <4> QED
        BY <1>1, <1>3, <1>4, <3>1, <4>1 DEF SyncMine
    <3>2. CASE SyncAll(u)
      BY <1>1, <1>3, <1>4, <3>2 DEF SyncAll
    <3> QED
      BY <1>15, <3>1, <3>2
  <2>7. readAll' \in Nat
    BY <1>1, <1>15 DEF SyncMine, SyncAll, Client
  <2> HIDE DEF d, k
  <2> QED
    BY <2>1, <2>2, <2>3, <2>5, <2>6, <2>7, OneUser
<1>16. ASSUME NEW u \in Users, SyncMine(u) PROVE TypeInv'
  <2>1. CASE /\ NoFault
             /\ readMsg' = [readMsg EXCEPT ![u] = IF @ < client[u].sent
                                                  THEN client[u].sent ELSE @]
             /\ CallGoes(u, [NoCall EXCEPT !.at = "sync_all"])
             /\ UNCHANGED client
    <3> DEFINE k == [NoCall EXCEPT !.at = "sync_all"]
    <3>1. k \in Call /\ k.at = "sync_all" /\ k.t = 0
      BY DEF NoCall, Call
    <3>2. Phases(client[u], k) /\ Past(client[u], k)
      BY <1>1, <1>2, <1>16, <3>1 DEF Phases, Past, SyncMine
    <3>3. client[u].sent \in Nat
      BY <1>1 DEF Client
    <3>4. readMsg' \in [Users -> Nat]
      BY <1>1, <2>1, <3>3
    <3> HIDE DEF k
    <3> QED
      BY <1>1, <1>3, <1>16, <2>1, <3>1, <3>2, <3>4, OneRequest DEF SyncMine, CallGoes, k
  <2> QED
    BY <1>15, <1>16, <2>1 DEF SyncMine
<1>17. ASSUME NEW u \in Users, SyncAll(u) PROVE TypeInv'
  BY <1>15, <1>17 DEF SyncAll
<1>18. ASSUME NEW u \in Users, PollClock(u) PROVE TypeInv'
  <2> DEFINE k == [NoCall EXCEPT !.at = "chats", !.t = now]
  <2>1. k \in Call /\ k.at = "chats" /\ k.t = now
    BY <1>1 DEF NoCall, Call
  <2>2. Phases(client[u], k) /\ Past(client[u], k)
    BY <1>1, <1>2, <1>18, <2>1 DEF Phases, Past, PollClock
  <2> QED
    BY <1>1, <1>18, <2>1, <2>2, OneRequest DEF PollClock, CallGoes
<1>19. ASSUME NEW u \in Users, PollFails(u), client[u].at = "poll" PROVE TypeInv'
  <2> DEFINE d == [client[u] EXCEPT !.at = "fetch"]
  <2>1. client' = [client EXCEPT ![u] = d] /\ call' = [call EXCEPT ![u] = NoCall]
    BY <1>19 DEF PollFails, Returns, CallGoes
  <2>2. /\ d \in Client /\ d.at = "fetch" /\ d.wake = client[u].wake
        /\ d.lastNotif = client[u].lastNotif
        /\ d.list = client[u].list /\ d.got = client[u].got
    BY <1>1 DEF Client
  <2>3. Lists(d) /\ Phases(d, NoCall) /\ Past(d, NoCall)
    BY <1>1, <1>2, <1>5, <2>2 DEF Lists, Phases, Past
  <2> HIDE DEF d
  <2> QED
    BY <1>1, <1>4, <1>5, <1>19, <2>1, <2>2, <2>3, OneUser DEF PollFails
<1>20. ASSUME NEW u \in Users, PollChats(u) PROVE TypeInv'
  <2>1. CASE /\ CallGoes(u, [call[u] EXCEPT !.at = "times",
                                            !.found = Announced(client[u].lastNotif)])
             /\ UNCHANGED <<now, rows, readMsg, readAll, client, faults>>
    <3> DEFINE f == Announced(client[u].lastNotif)
               k == [call[u] EXCEPT !.at = "times", !.found = f]
    <3>1. f \in BOOLEAN
      BY DEF Announced
    <3>2. call' = [call EXCEPT ![u] = k]
      BY <2>1 DEF CallGoes
    <3> HIDE DEF f
    <3>3. k \in Call /\ k.at = "times" /\ k.t = call[u].t
      BY <1>1, <3>1 DEF Call
    <3>4. Phases(client[u], k) /\ Past(client[u], k)
      BY <1>1, <1>2, <1>20, <3>3 DEF Phases, Past, PollChats
    <3> HIDE DEF k
    <3> QED
      BY <1>1, <2>1, <3>2, <3>3, <3>4, OneRequest
  <2> QED
    BY <1>2, <1>19, <1>20, <2>1 DEF PollChats, Phases
<1>21. ASSUME NEW u \in Users, PollTimes(u) PROVE TypeInv'
  <2>1. CASE /\ client' = [client EXCEPT ![u].at = "fetch",
                             ![u].lastNotif = call[u].t,
                             ![u].pending = @ \/ call[u].found,
                             ![u].allRead = readAll]
             /\ Returns(u)
             /\ UNCHANGED <<now, rows, readMsg, readAll, faults>>
    <3> DEFINE p == client[u].pending \/ call[u].found
               d == [client[u] EXCEPT !.at = "fetch", !.lastNotif = call[u].t,
                                      !.pending = p, !.allRead = readAll]
    <3>1. p \in BOOLEAN
      OBVIOUS
    <3>2. client' = [client EXCEPT ![u] = d] /\ call' = [call EXCEPT ![u] = NoCall]
      BY <2>1 DEF Returns, CallGoes
    <3>3. call[u].t <= now /\ call[u].t \in 0..MaxTime
      BY <1>1, <1>2, <1>21, TimeAssumption DEF PollTimes, Past, Call
    <3> HIDE DEF p
    <3>4. /\ d \in Client /\ d.at = "fetch" /\ d.wake = client[u].wake
          /\ d.lastNotif = call[u].t
          /\ d.list = client[u].list /\ d.got = client[u].got
      BY <1>1, <3>1, <3>3 DEF Client
    <3>5. Lists(d) /\ Phases(d, NoCall) /\ Past(d, NoCall)
      BY <1>1, <1>2, <1>5, <3>3, <3>4 DEF Lists, Phases, Past
    <3> HIDE DEF d
    <3> QED
      BY <1>1, <1>5, <2>1, <3>2, <3>4, <3>5, OneUser
  <2> QED
    BY <1>2, <1>19, <1>21, <2>1 DEF PollTimes, Phases
<1>22. ASSUME NEW u \in Users, Fetch(u) PROVE TypeInv'
  <2>1. CASE client[u].pending
    <3>1. ReceiveMessages(u, client[u]) /\ client[u].at = "fetch"
      BY <1>22, <2>1 DEF Fetch
    <3>2. PICK d : Stored(u, d)
      BY <3>1, ReceiveStores
    <3>3. UNCHANGED <<now, rows, readMsg, readAll, call>> /\ faults' \in 0..MaxFaults
      BY <1>3, <1>4, <3>1 DEF ReceiveMessages
    <3> QED
      BY <1>12, <3>1, <3>2, <3>3
  <2>2. CASE ~ client[u].pending
    <3>1. /\ EndIteration(u, client[u]) /\ client[u].at = "fetch"
          /\ UNCHANGED <<now, rows, readMsg, readAll, call, faults>>
      BY <1>22, <2>2 DEF Fetch
    <3>2. Fetched(client[u], [client[u] EXCEPT !.at = "sleep", !.wake = now + 1])
      BY <1>1 DEF Fetched, Client
    <3>3. PICK d : Stored(u, d)
      BY <1>1, <3>1, <3>2, IterationEnds DEF Lists
    <3> QED
      BY <1>1, <1>12, <3>1, <3>3
  <2> QED
    BY <2>1, <2>2
<1>23. ASSUME NEW u \in Users, OpenChat(u) PROVE TypeInv'
  <2> DEFINE d == [client[u] EXCEPT !.readTs = client[u].cursor]
  <2>1. client' = [client EXCEPT ![u] = d]
    BY <1>23 DEF OpenChat
  <2>2. /\ d \in Client /\ d.at = client[u].at /\ d.wake = client[u].wake
        /\ d.lastNotif = client[u].lastNotif /\ d.cursor = client[u].cursor
        /\ d.list = client[u].list /\ d.got = client[u].got
    BY <1>1 DEF Client
  <2>3. Lists(d) /\ Phases(d, call[u]) /\ Past(d, call[u])
    BY <1>1, <1>2, <2>2 DEF Lists, Phases, Past
  <2> HIDE DEF d
  <2> QED
    BY <1>1, <1>23, <2>1, <2>2, <2>3, OneClient DEF OpenChat
<1>24. CASE UNCHANGED vars
  BY <1>24 DEF TypeInv, TypeOK, Phases, Past, vars
<1> QED
  BY <1>6, <1>7, <1>8, <1>9, <1>10, <1>11, <1>13, <1>14, <1>16, <1>17, <1>18,
     <1>20, <1>21, <1>22, <1>23, <1>24 DEF Next

\* Every variable has its type, a list keeps its bound and shows only messages
\* that were fetched from the table.
THEOREM Typing == Spec => []TypeOK
<1>1. TypeInv => TypeOK
  BY DEF TypeInv
<1> QED
  BY <1>1, TypeInvInit, TypeInvNext, PTL DEF Spec

\* What a step may do to the record of a client: a fetch, a logout, the reply to
\* a login, or a part of a poll or the opening of the chat.
ClientStep(v) ==
  LET c == client[v]
      d == client'[v]
  IN  \/ /\ c.at \in {"data", "fetch"} /\ Fetched(c, d) /\ now' = now /\ rows' = rows
         /\ c.at = "fetch" /\ ~ c.pending => d.cursor = c.cursor
      \/ /\ Relogin /\ Free(v)
         /\ d.at = "out" /\ d.cursor = 0 /\ d.readTs = 0 /\ d.sent = 0 /\ d.allRead = 0
         /\ d.got = {} /\ ~ d.pending
      \/ /\ d.at = "data" /\ d.cursor = 0
         /\ c.at = "out"
         /\ d.got = {} /\ ~ d.pending
         /\ d.readTs = readMsg[v] /\ d.sent = 0 /\ d.allRead = readAll
      \/ /\ d.cursor = c.cursor /\ d.got = c.got
         /\ d.readTs \in {c.readTs, c.cursor} /\ d.sent \in {0, c.sent, c.readTs}
         /\ \/ /\ d.lastNotif = c.lastNotif /\ d.pending = c.pending
               /\ d.allRead = c.allRead
               /\ \/ d.at = c.at /\ d.wake = c.wake
                  \/ c.at = "sleep" /\ now >= c.wake /\ d.at = "poll"
                  \/ c.at = "poll" /\ d.at = "fetch"
            \/ /\ c.at = "poll" /\ call[v].at = "times"
               /\ call'[v].at = "none" /\ rows' = rows
               /\ d.at = "fetch" /\ d.lastNotif = call[v].t
               /\ d.pending = (c.pending \/ call[v].found) /\ d.allRead = readAll

LEMMA ClientSteps ==
  ASSUME TypeInv, [Next]_vars, NEW v \in Users
  PROVE  ClientStep(v)
<1>1. client \in [Users -> Client] /\ \A u \in Users : Phases(client[u], call[u])
  BY DEF TypeInv, TypeOK
<1>0. client[v] \in Client
  BY <1>1
<1>2. ASSUME client' = client PROVE ClientStep(v)
  BY <1>2 DEF ClientStep
<1>3. ASSUME NEW u \in Users, u # v, NEW d, client' = [client EXCEPT ![u] = d]
      PROVE  ClientStep(v)
  BY <1>1, <1>3 DEF ClientStep
<1>4. ASSUME NEW d, client' = [client EXCEPT ![v] = d] PROVE client'[v] = d
  BY <1>1, <1>4
<1>5. ASSUME NEW u \in Users, NEW d, Stored(u, d), client[u].at \in {"data", "fetch"},
             now' = now, rows' = rows,
             client[u].at = "fetch" /\ ~ client[u].pending /\ Fetched(client[u], d)
               => d.cursor = client[u].cursor
      PROVE  ClientStep(v)
  <2>1. client' = [client EXCEPT ![u] = d]
    BY <1>5 DEF Stored
  <2>2. CASE u = v
    <3>1. client'[v] = d
      BY <1>0, <1>4, <2>1, <2>2
    <3> QED
      BY <1>5, <2>2, <3>1 DEF Stored, ClientStep, LoggedOut
  <2> QED
    BY <1>3, <2>1, <2>2
<1>6. ASSUME NEW u \in Users, LoginFetch(u) PROVE ClientStep(v)
  <2>1. client[u].at = "data" /\ now' = now /\ rows' = rows
    BY <1>6 DEF LoginFetch, ReceiveMessages
  <2>2. PICK d : Stored(u, d)
    BY <1>6, <2>1, ReceiveStores DEF LoginFetch
  <2> QED
    BY <1>5, <2>1, <2>2
<1>7. ASSUME NEW u \in Users, Fetch(u) PROVE ClientStep(v)
  <2>1. client[u].at = "fetch" /\ now' = now /\ rows' = rows
    BY <1>7 DEF Fetch, ReceiveMessages
  <2>2. CASE client[u].pending
    <3>1. PICK d : Stored(u, d)
      BY <1>7, <2>1, <2>2, ReceiveStores DEF Fetch
    <3> QED
      BY <1>5, <2>1, <2>2, <3>1
  <2>3. CASE ~ client[u].pending
    <3>1. Lists(client[u]) /\ client[u] \in Client
      BY <1>1 DEF TypeInv, TypeOK, Lists
    <3>2. Fetched(client[u], [client[u] EXCEPT !.at = "sleep", !.wake = now + 1])
      BY <3>1 DEF Fetched, Client
    <3>3. PICK d : Stored(u, d) /\ (d = LoggedOut \/ d.cursor = client[u].cursor)
      BY <1>7, <2>3, <3>1, <3>2, IterationEnds DEF Fetch, Lists
    <3>4. Fetched(client[u], d) => d.cursor = client[u].cursor
      BY <3>3 DEF Fetched, LoggedOut
    <3> QED
      BY <1>5, <2>1, <3>3, <3>4
  <2> QED
    BY <2>2, <2>3
<1>8. ASSUME NEW u \in Users, LoginChats(u) PROVE ClientStep(v)
  <2> DEFINE d == [LoggedOut EXCEPT !.at = "data", !.lastNotif = call[u].t,
                     !.readTs = readMsg[u], !.allRead = readAll]
  <2>1. client' = [client EXCEPT ![u] = d]
    BY <1>8 DEF LoginChats
  <2>2. client[u].at = "out" /\ call[u].at = "data_chats"
    BY <1>1, <1>8 DEF LoginChats, Phases
  <2>3. CASE u = v
    <3>1. client'[v] = d
      BY <1>0, <1>4, <2>1, <2>3
    <3>2. /\ d.at = "data" /\ d.cursor = 0
          /\ d.readTs = readMsg[v] /\ d.sent = 0 /\ d.allRead = readAll
          /\ d.got = {} /\ ~ d.pending
      BY <2>3 DEF LoggedOut
    <3> QED
      BY <2>2, <2>3, <3>1, <3>2 DEF ClientStep
  <2> HIDE DEF d
  <2> QED
    BY <1>3, <2>1, <2>3
<1>9. ASSUME NEW u \in Users, Wake(u) PROVE ClientStep(v)
  <2> DEFINE d == [client[u] EXCEPT !.at = "poll", !.wake = 0, !.sent = client[u].readTs]
  <2>1. client' = [client EXCEPT ![u] = d]
    BY <1>9 DEF Wake
  <2>2. client[u].at = "sleep" /\ now >= client[u].wake
    BY <1>9 DEF Wake
  <2>3. CASE u = v
    BY <1>0, <1>4, <2>1, <2>2, <2>3 DEF ClientStep, Client
  <2> HIDE DEF d
  <2> QED
    BY <1>3, <2>1, <2>3
<1>10. ASSUME NEW u \in Users, SyncEnds(u), client[u].at = "poll" PROVE ClientStep(v)
  <2> DEFINE d == [client[u] EXCEPT !.sent = 0]
  <2>1. client' = [client EXCEPT ![u] = d]
    BY <1>10 DEF SyncEnds
  <2>2. CASE u = v
    BY <1>0, <1>4, <1>10, <2>1, <2>2 DEF ClientStep, Client
  <2> HIDE DEF d
  <2> QED
    BY <1>3, <2>1, <2>2
<1>11. ASSUME NEW u \in Users, SyncMine(u) \/ SyncAll(u) PROVE ClientStep(v)
  BY <1>1, <1>2, <1>10, <1>11 DEF SyncMine, SyncAll, Phases
<1>12. ASSUME NEW u \in Users, PollFails(u), client[u].at = "poll" PROVE ClientStep(v)
  <2> DEFINE d == [client[u] EXCEPT !.at = "fetch"]
  <2>1. client' = [client EXCEPT ![u] = d]
    BY <1>12 DEF PollFails
  <2>2. CASE u = v
    BY <1>0, <1>4, <1>12, <2>1, <2>2 DEF ClientStep, Client
  <2> HIDE DEF d
  <2> QED
    BY <1>3, <2>1, <2>2
<1>13. ASSUME NEW u \in Users, PollTimes(u) PROVE ClientStep(v)
  <2>1. client[u].at = "poll" /\ call[u].at = "times"
    BY <1>1, <1>13 DEF PollTimes, Phases
  <2>2. CASE /\ client' = [client EXCEPT ![u].at = "fetch",
                             ![u].lastNotif = call[u].t,
                             ![u].pending = @ \/ call[u].found,
                             ![u].allRead = readAll]
             /\ Returns(u) /\ rows' = rows
    <3> DEFINE p == client[u].pending \/ call[u].found
               d == [client[u] EXCEPT !.at = "fetch", !.lastNotif = call[u].t,
                                      !.pending = p, !.allRead = readAll]
    <3>1. client' = [client EXCEPT ![u] = d]
      BY <2>2
    <3>2. CASE u = v
      <4>1. client'[v] = d
        BY <1>4, <3>1, <3>2
      <4> HIDE DEF p
      <4>2. /\ d.cursor = client[v].cursor /\ d.got = client[v].got
            /\ d.readTs = client[v].readTs
            /\ d.sent = client[v].sent /\ d.at = "fetch"
            /\ d.lastNotif = call[v].t /\ d.pending = p /\ d.allRead = readAll
        BY <1>0, <3>2 DEF Client
      <4>3. p = (client[v].pending \/ call[v].found)
        BY <3>2 DEF p
      <4>4. call'[v].at = "none"
        BY <2>2, <3>2 DEF TypeInv, TypeOK, Returns, CallGoes, NoCall
      <4> HIDE DEF d
      <4> QED
        BY <2>1, <2>2, <3>2, <4>1, <4>2, <4>3, <4>4 DEF ClientStep
    <3> HIDE DEF d
    <3> QED
      BY <1>3, <3>1, <3>2
  <2> QED
    BY <1>12, <1>13, <2>1, <2>2 DEF PollTimes
<1>14. ASSUME NEW u \in Users, OpenChat(u) PROVE ClientStep(v)
  <2> DEFINE d == [client[u] EXCEPT !.readTs = client[u].cursor]
  <2>1. client' = [client EXCEPT ![u] = d]
    BY <1>14 DEF OpenChat
  <2>2. CASE u = v
    BY <1>0, <1>4, <1>14, <2>1, <2>2 DEF ClientStep, Client, OpenChat
  <2> HIDE DEF d
  <2> QED
    BY <1>3, <2>1, <2>2
<1>15. ASSUME NEW u \in Users, PollChats(u) PROVE ClientStep(v)
  BY <1>1, <1>2, <1>12, <1>15 DEF PollChats, Phases
<1>16. ASSUME NEW u \in Users,
              \/ SendStamp(u) \/ SendCheck(u) \/ SendInsert(u)
              \/ LoginClock(u) \/ PollClock(u)
       PROVE  ClientStep(v)
  BY <1>2, <1>16 DEF SendStamp, SendCheck, SendInsert, LoginClock, PollClock
<1>17. ASSUME Tick \/ UNCHANGED vars PROVE ClientStep(v)
  BY <1>2, <1>17 DEF Tick, vars
<1> QED
  BY <1>6, <1>7, <1>8, <1>9, <1>11, <1>13, <1>14, <1>15, <1>16, <1>17 DEF Next

-----------------------------------------------------------------------------
(* Cursors.                                                                *)

LEMMA ClockStill ==
  ASSUME [Next]_vars
  PROVE  now' = now \/ Tick
<1>1. ASSUME NEW u \in Users, SendStamp(u) \/ SendCheck(u) \/ SendInsert(u)
      PROVE  now' = now
  BY <1>1 DEF SendStamp, SendCheck, SendInsert
<1>2. ASSUME NEW u \in Users,
             LoginClock(u) \/ LoginChats(u) \/ LoginFetch(u) \/ Fetch(u)
      PROVE  now' = now
  BY <1>2 DEF LoginClock, LoginChats, LoginFetch, Fetch, ReceiveMessages
<1>3. ASSUME NEW u \in Users, Wake(u) \/ SyncMine(u) \/ SyncAll(u) \/ PollClock(u)
      PROVE  now' = now
  BY <1>3 DEF Wake, SyncMine, SyncAll, PollClock
<1>4. ASSUME NEW u \in Users, PollChats(u) \/ PollTimes(u) \/ OpenChat(u)
      PROVE  now' = now
  BY <1>4 DEF PollChats, PollTimes, PollFails, OpenChat
<1> QED
  BY <1>1, <1>2, <1>3, <1>4 DEF Next, vars

LEMMA ClockNext ==
  ASSUME TypeInv, [Next]_vars
  PROVE  now' \in Nat /\ now <= now'
<1>1. now \in Nat
  BY TimeAssumption DEF TypeInv, TypeOK
<1> QED
  BY <1>1, ClockStill DEF Tick

LEMMA CursorNext ==
  TypeInv /\ CursorNotAhead /\ [Next]_vars => CursorNotAhead'
<1> SUFFICES ASSUME TypeInv, CursorNotAhead, [Next]_vars, NEW v \in Users
             PROVE  client'[v].cursor <= IF client'[v].at = "sleep"
                                         THEN client'[v].wake ELSE now'
  BY DEF CursorNotAhead
<1> DEFINE c == client[v]
<1>1. c \in Client /\ now \in Nat /\ now' \in Nat /\ now <= now'
  BY ClockNext, TimeAssumption DEF TypeInv, TypeOK
<1>2. /\ c.cursor <= IF c.at = "sleep" THEN c.wake ELSE now
      /\ Past(c, call[v])
  BY DEF CursorNotAhead, TypeInv
<1>3. CASE client'[v] = c
  BY <1>1, <1>2, <1>3 DEF Client
<1>4. CASE c.at \in {"data", "fetch"} /\ Fetched(c, client'[v])
  <2>1. c.cursor \in Nat /\ c.cursor <= now
    BY <1>1, <1>2, <1>4 DEF Client
  <2> QED
    BY <1>1, <1>4, <2>1 DEF Fetched
<1>5. CASE client'[v].cursor = 0 /\ client'[v].at # "sleep"
  BY <1>1, <1>5
<1>6. CASE /\ client'[v].cursor = c.cursor /\ client'[v].at # "sleep"
           /\ c.at = "sleep" => now >= c.wake
  BY <1>1, <1>2, <1>6 DEF Client
<1>7. CASE /\ client'[v].cursor = c.cursor /\ client'[v].at = c.at
           /\ client'[v].wake = c.wake
  BY <1>1, <1>2, <1>7 DEF Client
<1>8. \/ client'[v] = c
      \/ c.at \in {"data", "fetch"} /\ Fetched(c, client'[v])
      \/ client'[v].cursor = 0 /\ client'[v].at # "sleep"
      \/ /\ client'[v].cursor = c.cursor /\ client'[v].at # "sleep"
         /\ c.at = "sleep" => now >= c.wake
      \/ /\ client'[v].cursor = c.cursor /\ client'[v].at = c.at
         /\ client'[v].wake = c.wake
  BY ClientSteps DEF ClientStep
<1> QED
  BY <1>3, <1>4, <1>5, <1>6, <1>7, <1>8

\* The cursor of a client is never beyond the clock, or the second in which its
\* sleep ends, however often its fetches come back empty.
THEOREM CursorsNotAhead == Spec => []CursorNotAhead
<1>1. Init => CursorNotAhead
  BY TimeAssumption DEF Init, CursorNotAhead, LoggedOut
<1> QED
  BY <1>1, TypeInvInit, TypeInvNext, CursorNext, PTL DEF Spec

\* No fetch moves a cursor past a message of the table without getting it.
THEOREM FetchesSkipNothing == Spec => FetchSkipsNothing
<1>1. ASSUME TypeInv, [Next]_vars, NEW v \in Users, NEW m \in Visible,
             client[v].cursor <= m.stamp, m.stamp < client'[v].cursor
      PROVE  m \in client'[v].got
  <2>1. client[v] \in Client /\ m.stamp \in Nat
    BY <1>1, TimeAssumption DEF TypeInv, TypeOK, Visible, Messages
  <2>2. client[v].cursor \in Nat
    BY <2>1 DEF Client
  <2>3. client'[v].cursor # 0 /\ client'[v].cursor # client[v].cursor
    BY <1>1, <2>1, <2>2
  <2>4. Fetched(client[v], client'[v])
    BY <1>1, <2>3, ClientSteps DEF ClientStep
  <2> QED
    BY <1>1, <2>3, <2>4 DEF Fetched
<1>2. TypeInv /\ [Next]_vars =>
        [\A u \in Users : \A m \in Visible :
           client[u].cursor <= m.stamp /\ m.stamp < client'[u].cursor
             => m \in client'[u].got]_vars
  BY <1>1
<1> QED
  BY <1>2, TypeInvInit, TypeInvNext, PTL DEF Spec, FetchSkipsNothing

-----------------------------------------------------------------------------
(* Read times.                                                             *)

\* A read time r of member v says nothing of a message v has yet to ask for.
Behind(r, v) == r <= Joined \/ r <= client[v].cursor

ReadInv ==
  /\ \A v \in Users : /\ Behind(readMsg[v], v)
                      /\ Behind(client[v].readTs, v)
                      /\ Behind(client[v].sent, v)
  /\ \A v \in Users : /\ Behind(readAll, v)
                      /\ \A u \in Users : Behind(client[u].allRead, v)

\* Where the two read times of the server come from.
LEMMA ReadTimesNext ==
  ASSUME TypeInv, [Next]_vars
  PROVE  /\ \A v \in Users : readMsg'[v] \in {readMsg[v], client[v].sent}
         /\ \/ readAll' = readAll
            \/ \E u \in Users : readAll' = client[u].sent /\ AllHaveRead(client[u].sent)
<1>1. readMsg \in [Users -> Nat]
  BY DEF TypeInv, TypeOK
<1>2. ASSUME NEW u \in Users, SyncMine(u)
      PROVE  /\ \A v \in Users : readMsg'[v] \in {readMsg[v], client[v].sent}
             /\ readAll' = readAll
  <2>1. CASE readMsg' = [readMsg EXCEPT ![u] = IF @ < client[u].sent
                                               THEN client[u].sent ELSE @]
    BY <1>1, <1>2, <2>1 DEF SyncMine
  <2>2. CASE readMsg' = readMsg
    BY <1>2, <2>2 DEF SyncMine
  <2> QED
    BY <1>2, <2>1, <2>2 DEF SyncMine
<1>3. ASSUME NEW u \in Users, SyncAll(u)
      PROVE  /\ readMsg' = readMsg
             /\ \/ readAll' = readAll
                \/ readAll' = client[u].sent /\ AllHaveRead(client[u].sent)
  BY <1>3 DEF SyncAll
<1>4. ASSUME NEW u \in Users,
             SendStamp(u) \/ SendCheck(u) \/ SendInsert(u) \/ LoginClock(u)
             \/ LoginChats(u) \/ Wake(u) \/ PollClock(u) \/ OpenChat(u)
      PROVE  UNCHANGED <<readMsg, readAll>>
  BY <1>4 DEF SendStamp, SendCheck, SendInsert, LoginClock, LoginChats, Wake,
     PollClock, OpenChat
<1>5. ASSUME NEW u \in Users,
             LoginFetch(u) \/ Fetch(u) \/ PollChats(u) \/ PollTimes(u)
      PROVE  UNCHANGED <<readMsg, readAll>>
  BY <1>5 DEF LoginFetch, Fetch, ReceiveMessages, PollChats, PollTimes, PollFails
<1>6. Tick \/ UNCHANGED vars => UNCHANGED <<readMsg, readAll>>
  BY DEF Tick, vars
<1> QED
  BY <1>2, <1>3, <1>4, <1>5, <1>6 DEF Next

LEMMA ReadNext ==
  ASSUME TypeInv, ReadInv, ~ Relogin, [Next]_vars
  PROVE  ReadInv'
<1>1. /\ readMsg \in [Users -> Nat] /\ readAll \in Nat
      /\ client \in [Users -> Client] /\ Joined \in Nat
      /\ \A v \in Users : client[v].cursor \in Nat /\ client[v].readTs \in Nat
                          /\ client[v].sent \in Nat /\ client[v].allRead \in Nat
  BY TimeAssumption DEF TypeInv, TypeOK, Client
<1>2. TypeInv'
  BY TypeInvNext
<1>3. \A v \in Users : client'[v].cursor \in Nat
  BY <1>2 DEF TypeInv, TypeOK, Client
<1>4. \A v \in Users : Past(client[v], call[v])
  BY DEF TypeInv
<1>5. ASSUME NEW v \in Users
      PROVE  /\ client[v].cursor <= client'[v].cursor
             /\ client'[v].readTs \in {client[v].readTs, client[v].cursor, readMsg[v]}
             /\ client'[v].sent \in {0, client[v].sent, client[v].readTs}
             /\ client'[v].allRead \in {client[v].allRead, readAll}
  BY <1>1, <1>3, <1>4, <1>5, ClientSteps DEF ClientStep, Fetched, Past
<1>6. ASSUME NEW r \in Nat, NEW v \in Users, Behind(r, v)
      PROVE  r <= Joined \/ r <= client'[v].cursor
  BY <1>1, <1>3, <1>5, <1>6 DEF Behind
<1>7. ASSUME NEW v \in Users
      PROVE  (Behind(readMsg[v], v) /\ Behind(client[v].readTs, v) /\ Behind(client[v].sent, v))'
  <2>1. Behind(0, v) /\ Behind(client[v].cursor, v)
    BY <1>1 DEF Behind
  <2>2. /\ Behind(readMsg'[v], v) /\ readMsg'[v] \in Nat
        /\ Behind(client'[v].readTs, v) /\ client'[v].readTs \in Nat
        /\ Behind(client'[v].sent, v) /\ client'[v].sent \in Nat
    BY <1>1, <1>5, <2>1, ReadTimesNext DEF ReadInv
  <2> QED
    BY <1>6, <2>2 DEF Behind
<1>8. ASSUME NEW v \in Users PROVE Behind(readAll, v)'
  <2>1. CASE readAll' = readAll
    BY <1>1, <1>6, <2>1 DEF ReadInv, Behind
  <2>2. ASSUME NEW u \in Users, readAll' = client[u].sent, AllHaveRead(client[u].sent)
        PROVE  Behind(readAll, v)'
    <3>1. client[u].sent <= readMsg[v] /\ Behind(readMsg[v], v)
      BY <1>1, <2>2 DEF AllHaveRead, ReadInv
    <3>2. Behind(client[u].sent, v)
      BY <1>1, <3>1 DEF Behind
    <3> QED
      BY <1>1, <1>6, <2>2, <3>2 DEF Behind
  <2> QED
    BY <2>1, <2>2, ReadTimesNext
<1>9. ASSUME NEW u \in Users, NEW v \in Users PROVE Behind(client[u].allRead, v)'
  <2>1. Behind(client'[u].allRead, v) /\ client'[u].allRead \in Nat
    BY <1>1, <1>5 DEF ReadInv
  <2> QED
    BY <1>6, <2>1 DEF Behind
<1> QED
  BY <1>7, <1>8, <1>9 DEF ReadInv

\* Where users stay logged in, no client is told of a double check on a message
\* that some member's client has yet to ask for.
THEOREM ConfirmedMessagesBehind ==
  ASSUME ~ Relogin
  PROVE  Spec => []ConfirmedBehindCursors
<1>1. Init => ReadInv
  BY TimeAssumption DEF Init, ReadInv, Behind, LoggedOut
<1>2. TypeInv /\ ReadInv /\ [Next]_vars => ReadInv'
  BY ReadNext
<1>3. TypeInv /\ ReadInv => ConfirmedBehindCursors
  <2> SUFFICES ASSUME TypeInv, ReadInv, NEW u \in Users, NEW v \in Users,
                      NEW m \in Visible, m.stamp < client[u].allRead
               PROVE  m.stamp < client[v].cursor
    BY DEF ConfirmedBehindCursors
  <2>1. m.stamp \in Nat /\ m.stamp > Joined /\ Joined \in Nat
    BY TimeAssumption DEF Visible, TypeInv, TypeOK, Messages
  <2>2. client[u].allRead \in Nat /\ client[v].cursor \in Nat
    BY DEF TypeInv, TypeOK, Client
  <2>3. client[u].allRead <= Joined \/ client[u].allRead <= client[v].cursor
    BY DEF ReadInv, Behind
  <2> QED
    BY <2>1, <2>2, <2>3
<1> QED
  BY <1>1, <1>2, <1>3, TypeInvInit, TypeInvNext, PTL DEF Spec

-----------------------------------------------------------------------------
(* Notifications.                                                          *)

\* What a step may do to a request.
CallStep(v) ==
  LET k == call[v]
      l == call'[v]
  IN  \/ l = k
      \/ l.at \notin {"check", "insert", "chats", "times"}
      \/ l.at = "chats" /\ l.t = now /\ client[v].at = "poll" /\ UNCHANGED <<rows, client>>
      \/ l.at \in {"check", "insert"} /\ (l.t = now \/ (k.at = "check" /\ l.t = k.t))
      \/ /\ l.at = "times" /\ k.at = "chats" /\ l.t = k.t
         /\ l.found = Announced(client[v].lastNotif)
         /\ UNCHANGED <<rows, client>>

LEMMA CallSteps ==
  ASSUME TypeInv, [Next]_vars, NEW v \in Users
  PROVE  CallStep(v) /\ (now' = now \/ call' = call)
<1>1. call \in [Users -> Call]
  BY DEF TypeInv, TypeOK
<1>2. ASSUME NEW u \in Users, NEW l, call' = [call EXCEPT ![u] = l],
             l.at \notin {"check", "insert", "chats", "times"}
      PROVE  CallStep(v)
  BY <1>1, <1>2 DEF CallStep
<1>3. ASSUME NEW u \in Users, Returns(u) PROVE CallStep(v)
  BY <1>2, <1>3 DEF Returns, CallGoes, NoCall
<1>4. ASSUME NEW u \in Users, SendStamp(u) PROVE CallStep(v)
  BY <1>1, <1>4 DEF SendStamp, CallGoes, NoCall, CallStep
<1>5. ASSUME NEW u \in Users, SendCheck(u) PROVE CallStep(v)
  <2>1. CASE CallGoes(u, [NoCall EXCEPT !.at = "nap", !.t = now + 1])
    BY <1>2, <2>1 DEF CallGoes, NoCall
  <2>2. CASE CallGoes(u, [call[u] EXCEPT !.at = "insert"])
    <3>1. call[u] \in Call /\ call[u].at = "check"
      BY <1>1, <1>5 DEF SendCheck
    <3> DEFINE l == [call[u] EXCEPT !.at = "insert"]
    <3>2. l.at = "insert" /\ l.t = call[u].t
      BY <3>1 DEF Call
    <3>3. call' = [call EXCEPT ![u] = l]
      BY <2>2 DEF CallGoes
    <3> HIDE DEF l
    <3> QED
      BY <1>1, <3>1, <3>2, <3>3 DEF CallStep
  <2> QED
    BY <1>5, <2>1, <2>2 DEF SendCheck
<1>6. ASSUME NEW u \in Users,
             LoginClock(u) \/ SyncMine(u) \/ SyncAll(u)
      PROVE  CallStep(v)
  BY <1>2, <1>6 DEF LoginClock, SyncMine, SyncAll, SyncEnds, CallGoes, NoCall
<1>13. ASSUME NEW u \in Users, PollClock(u) PROVE CallStep(v)
  <2>1. client[u].at = "poll"
    BY <1>13 DEF PollClock, TypeInv, Phases
  <2> QED
    BY <1>1, <1>13, <2>1 DEF PollClock, CallGoes, NoCall, CallStep
<1>7. ASSUME NEW u \in Users,
             SendInsert(u) \/ LoginChats(u) \/ PollTimes(u)
      PROVE  CallStep(v)
  BY <1>3, <1>7 DEF SendInsert, LoginChats, PollTimes, PollFails
<1>8. ASSUME NEW u \in Users, PollChats(u) PROVE CallStep(v)
  <2>1. CASE /\ CallGoes(u, [call[u] EXCEPT !.at = "times",
                                            !.found = Announced(client[u].lastNotif)])
             /\ UNCHANGED <<rows, client>>
    <3> DEFINE f == Announced(client[u].lastNotif)
               l == [call[u] EXCEPT !.at = "times", !.found = f]
    <3>1. call' = [call EXCEPT ![u] = l]
      BY <2>1 DEF CallGoes
    <3>2. call[u] \in Call /\ call[u].at = "chats"
      BY <1>1, <1>8 DEF PollChats
    <3> HIDE DEF f
    <3>3. l.at = "times" /\ l.t = call[u].t /\ l.found = f
      BY <3>2 DEF Call
    <3> HIDE DEF l
    <3>4. u = v => CallStep(v)
      BY <1>1, <2>1, <3>1, <3>2, <3>3 DEF CallStep, f
    <3>5. u # v => CallStep(v)
      BY <1>1, <3>1 DEF CallStep
    <3> QED
      BY <3>4, <3>5
  <2> QED
    BY <1>3, <1>8, <2>1 DEF PollChats, PollFails
<1>9. ASSUME NEW u \in Users, LoginFetch(u) \/ Wake(u) \/ Fetch(u) \/ OpenChat(u)
      PROVE  call' = call
  BY <1>9 DEF LoginFetch, ReceiveMessages, Wake, Fetch, OpenChat
<1>10. Tick \/ UNCHANGED vars => call' = call
  BY DEF Tick, vars
<1>11. call' = call => CallStep(v)
  BY DEF CallStep
<1>12. CallStep(v)
  BY <1>4, <1>5, <1>6, <1>7, <1>8, <1>9, <1>10, <1>11, <1>13 DEF Next
<1>14. now' = now \/ call' = call
  BY <1>10, ClockStill
<1> QED
  BY <1>12, <1>14

\* The only new row is the one of a message that has been stamped.
LEMMA RowsNext ==
  ASSUME TypeInv, [Next]_vars
  PROVE  /\ \A m \in rows' : m \in rows \/ \E u \in Users : /\ call[u].at = "insert"
                                                            /\ m.stamp = call[u].t
         /\ rows \subseteq rows'
         /\ rows' = rows \/ UNCHANGED <<now, client>>
<1>1. ASSUME NEW u \in Users, SendInsert(u)
      PROVE  /\ \A m \in rows' : m \in rows \/ (call[u].at = "insert" /\ m.stamp = call[u].t)
             /\ rows \subseteq rows' /\ UNCHANGED <<now, client>>
  BY <1>1 DEF SendInsert
<1>2. ASSUME NEW u \in Users,
             SendStamp(u) \/ SendCheck(u) \/ LoginClock(u) \/ LoginChats(u)
             \/ Wake(u) \/ SyncMine(u) \/ SyncAll(u) \/ PollClock(u) \/ OpenChat(u)
      PROVE  rows' = rows
  BY <1>2 DEF SendStamp, SendCheck, LoginClock, LoginChats, Wake, SyncMine, SyncAll,
     PollClock, OpenChat
<1>3. ASSUME NEW u \in Users, LoginFetch(u) \/ Fetch(u) \/ PollChats(u) \/ PollTimes(u)
      PROVE  rows' = rows
  BY <1>3 DEF LoginFetch, Fetch, ReceiveMessages, PollChats, PollTimes, PollFails
<1>4. Tick \/ UNCHANGED vars => rows' = rows
  BY DEF Tick, vars
<1>5. \A m \in rows' : m \in rows \/ \E u \in Users : /\ call[u].at = "insert"
                                                      /\ m.stamp = call[u].t
  BY <1>1, <1>2, <1>3, <1>4 DEF Next
<1>6. rows \subseteq rows' /\ (rows' = rows \/ UNCHANGED <<now, client>>)
  BY <1>1, <1>2, <1>3, <1>4 DEF Next
<1> QED
  BY <1>5, <1>6

AnnounceInv ==
  /\ UnfetchedIsAnnounced
  /\ \A u \in Users : call[u].at \in {"check", "insert"} => call[u].t = now
  /\ \A u \in Users : call[u].at = "times" =>
       \A m \in Visible : client[u].lastNotif <= m.stamp =>
         call[u].found \/ call[u].t <= m.stamp

LEMMA AnnounceNext ==
  ASSUME TypeInv, AnnounceInv, Prompt, [Next]_vars
  PROVE  AnnounceInv'
<1>1. /\ now \in Nat /\ Joined \in Nat
      /\ \A m \in rows : m.stamp \in Nat
      /\ \A v \in Users : /\ client[v].cursor \in Nat /\ client[v].lastNotif \in Nat
                          /\ call[v].t \in Nat
                          /\ client[v].pending \in BOOLEAN /\ call[v].found \in BOOLEAN
  BY TimeAssumption DEF TypeInv, TypeOK, Client, Call, Messages
<1>2. \A v \in Users : Past(client[v], call[v]) /\ Phases(client[v], call[v])
  BY DEF TypeInv
<1>3. \A m \in Visible' : m \in Visible \/ m.stamp = now
  BY RowsNext DEF Visible, AnnounceInv
<1>4. rows' = rows => Visible' = Visible
  BY DEF Visible
<1>5. UnfetchedIsAnnounced'
  <2> SUFFICES ASSUME NEW v \in Users, Online(v)', client'[v].cursor # 0,
                      NEW m \in Visible', client'[v].cursor <= m.stamp
               PROVE  client'[v].pending \/ client'[v].lastNotif <= m.stamp
    BY DEF UnfetchedIsAnnounced
  <2> DEFINE c == client[v]
             d == client'[v]
  <2>1. ASSUME Online(v), c.cursor # 0, c.cursor <= m.stamp, m \in Visible
        PROVE  c.pending \/ c.lastNotif <= m.stamp
    BY <2>1 DEF AnnounceInv, UnfetchedIsAnnounced
  <2>2. CASE c.at \in {"data", "fetch"} /\ Fetched(c, d) /\ rows' = rows
    <3>1. m \in Visible /\ m.stamp \in Nat
      BY <1>1, <1>4, <2>2 DEF Visible
    <3>2. CASE d.cursor = c.cursor /\ d.pending = c.pending
      <4>1. c.at = "fetch"
        BY <1>2, <2>2, <3>2 DEF Past
      <4> QED
        BY <2>1, <2>2, <3>1, <3>2, <4>1 DEF Fetched, Online
    <3>3. CASE /\ c.cursor < d.cursor /\ (d.cursor = c.cursor + 1 \/ d.cursor <= now + 1)
               /\ m.stamp >= c.cursor => m.stamp < d.cursor
      <4>1. d.cursor \in Nat
        BY TypeInvNext DEF TypeInv, TypeOK, Client
      <4> QED
        BY <1>1, <3>1, <3>3, <4>1
    <3> QED
      BY <1>1, <2>2, <3>1, <3>2, <3>3 DEF Fetched
  <2>3. CASE d.at \in {"out", "data"}
    BY <2>3 DEF Online
  <2>4. CASE /\ d.cursor = c.cursor /\ d.lastNotif = c.lastNotif /\ d.pending = c.pending
             /\ \/ d.at = c.at
                \/ c.at = "sleep" /\ d.at = "poll"
                \/ c.at = "poll" /\ d.at = "fetch"
    <3>1. Online(v)
      BY <2>4 DEF Online
    <3> QED
      BY <1>1, <1>2, <1>3, <2>1, <2>4, <3>1 DEF Past
  <2>5. CASE /\ d.cursor = c.cursor /\ c.at = "poll" /\ call[v].at = "times"
             /\ rows' = rows /\ d.lastNotif = call[v].t
             /\ d.pending = (c.pending \/ call[v].found)
    <3>1. m \in Visible
      BY <1>4, <2>5
    <3>2. c.pending \/ c.lastNotif <= m.stamp
      BY <2>1, <2>5, <3>1 DEF Online
    <3>3. c.lastNotif <= m.stamp => call[v].found \/ call[v].t <= m.stamp
      BY <2>5, <3>1 DEF AnnounceInv
    <3> QED
      BY <2>5, <3>2, <3>3
  <2> QED
    BY <2>2, <2>3, <2>4, <2>5, ClientSteps DEF ClientStep
<1>6. ASSUME NEW v \in Users, call'[v].at \in {"check", "insert"}
      PROVE  call'[v].t = now'
  <2>1. CASE now' = now
    BY <1>6, <2>1, CallSteps DEF CallStep, AnnounceInv
  <2>2. CASE now' # now
    <3>1. Tick /\ call' = call
      BY <2>2, ClockStill, CallSteps
    <3> QED
      BY <1>6, <3>1 DEF Tick
  <2> QED
    BY <2>1, <2>2
<1>7. ASSUME NEW v \in Users, call'[v].at = "times",
             NEW m \in Visible', client'[v].lastNotif <= m.stamp
      PROVE  call'[v].found \/ call'[v].t <= m.stamp
  <2>1. CASE call'[v] = call[v]
    <3>1. client[v].at = "poll" /\ call[v].t <= now
      BY <1>2, <1>7, <2>1 DEF Phases, Past
    <3>2. client'[v].lastNotif = client[v].lastNotif
      BY <1>7, <2>1, <3>1, ClientSteps DEF ClientStep, Free
    <3>3. CASE m \in Visible
      BY <1>7, <2>1, <3>2, <3>3 DEF AnnounceInv
    <3>4. CASE m.stamp = now
      BY <2>1, <3>1, <3>4
    <3> QED
      BY <1>3, <3>3, <3>4
  <2>2. CASE /\ call'[v].found = Announced(client[v].lastNotif)
             /\ UNCHANGED <<rows, client>>
    <3>1. m \in Visible /\ client[v].lastNotif <= m.stamp
      BY <1>4, <1>7, <2>2
    <3>2. Announced(client[v].lastNotif)
      BY <1>1, <3>1 DEF Announced, Visible
    <3> QED
      BY <2>2, <3>2
  <2> QED
    BY <1>7, <2>1, <2>2, CallSteps DEF CallStep
<1> QED
  BY <1>5, <1>6, <1>7 DEF AnnounceInv

\* Where no second passes between the stamp of a message and its INSERT, each
\* message that a client can still fetch has a fetch pending, or will be
\* announced by the next poll: nothing is forgotten between two polls.
THEOREM UnfetchedMessagesAnnounced ==
  ASSUME Prompt
  PROVE  Spec => []UnfetchedIsAnnounced
<1>1. Init => AnnounceInv
  BY DEF Init, AnnounceInv, UnfetchedIsAnnounced, Online, LoggedOut, NoCall
<1>2. TypeInv /\ AnnounceInv /\ [Next]_vars => AnnounceInv'
  BY AnnounceNext
<1>3. AnnounceInv => UnfetchedIsAnnounced
  BY DEF AnnounceInv
<1> QED
  BY <1>1, <1>2, <1>3, TypeInvInit, TypeInvNext, PTL DEF Spec

-----------------------------------------------------------------------------
(* Skipped messages.                                                       *)

\* Some message is at most k seconds before the cursor of u.
Near(u, k) == \E n \in Visible : client[u].cursor <= n.stamp + k

\* A cursor is at most two seconds after the newest message, and one while an
\* empty fetch may still follow: an announcement is repeated only for the
\* second of the last poll, and no cursor is beyond it then.
NearInv ==
  \A u \in Users :
    /\ client[u].pending => client[u].cursor <= client[u].lastNotif
    /\ call[u].at \in {"chats", "times"} => client[u].cursor <= call[u].t
    /\ client[u].cursor <= 1 \/ Near(u, 2)
    /\ \/ client[u].pending
       \/ call[u].at = "times" /\ call[u].found
       \/ Announced(client[u].lastNotif)
       => Near(u, 1)

LEMMA NearNext ==
  ASSUME TypeInv, CursorNotAhead, AnnounceInv, NearInv, Prompt, [Next]_vars
  PROVE  NearInv'
<1>0. TypeInv'
  BY TypeInvNext
<1>1. /\ now \in Nat /\ Joined \in Nat \ {0}
      /\ \A m \in rows' : m.stamp \in Nat
      /\ \A v \in Users : /\ client[v].cursor \in Nat /\ client'[v].cursor \in Nat
                          /\ client[v].lastNotif \in Nat /\ call[v].t \in Nat
                          /\ client'[v].lastNotif \in Nat
  <2>1. now \in Nat /\ Joined \in Nat \ {0}
    BY TimeAssumption DEF TypeInv, TypeOK
  <2>2. \A m \in rows' : m.stamp \in Nat
    BY <1>0, TimeAssumption DEF TypeInv, TypeOK, Messages
  <2>3. \A v \in Users : /\ client[v].cursor \in Nat /\ client[v].lastNotif \in Nat
                        /\ call[v].t \in Nat
    BY TimeAssumption DEF TypeInv, TypeOK, Client, Call
  <2>4. \A v \in Users : client'[v].cursor \in Nat /\ client'[v].lastNotif \in Nat
    <3>1. \A v \in Users : client'[v] \in Client
      BY <1>0 DEF TypeInv, TypeOK
    <3> QED
      BY <3>1, TimeAssumption DEF Client
  <2> QED
    BY <2>1, <2>2, <2>3, <2>4
<1>2. \A v \in Users : Past(client[v], call[v]) /\ Phases(client[v], call[v])
  BY DEF TypeInv
<1>3. Visible \subseteq Visible' /\ \A m \in Visible' : m \in Visible \/ m.stamp = now
  BY RowsNext DEF Visible, AnnounceInv
<1>4. rows' = rows => Visible' = Visible
  BY DEF Visible
<1> SUFFICES ASSUME NEW v \in Users
             PROVE  /\ client'[v].pending => client'[v].cursor <= client'[v].lastNotif
                    /\ call'[v].at \in {"chats", "times"} => client'[v].cursor <= call'[v].t
                    /\ client'[v].cursor <= 1 \/ Near(v, 2)'
                    /\ \/ client'[v].pending
                       \/ call'[v].at = "times" /\ call'[v].found
                       \/ \E m \in Visible' : m.stamp >= client'[v].lastNotif
                       => Near(v, 1)'
  BY DEF NearInv, Announced, Visible
<1> DEFINE c == client[v]
           d == client'[v]
           Heard == \E m \in Visible' : m.stamp >= d.lastNotif
<1>5. /\ c.pending => c.cursor <= c.lastNotif
      /\ call[v].at \in {"chats", "times"} => c.cursor <= call[v].t
      /\ c.cursor <= 1 \/ Near(v, 2)
      /\ \/ c.pending \/ (call[v].at = "times" /\ call[v].found) \/ Announced(c.lastNotif)
         => Near(v, 1)
  BY DEF NearInv
<1>6. ASSUME NEW k \in Nat, d.cursor <= c.cursor, Near(v, k) PROVE Near(v, k)'
  BY <1>1, <1>3, <1>6 DEF Near, Visible
<1>7. ASSUME d.cursor = 0, Heard PROVE Near(v, 1)'
  BY <1>1, <1>7 DEF Near, Visible
\* Where only a request moves, or a message is stored.
<1>9. ASSUME d.cursor = c.cursor, d.lastNotif = c.lastNotif, d.pending = c.pending
      PROVE  /\ Heard => Near(v, 1)'
             /\ c.pending => Near(v, 1)'
  <2>1. c.cursor <= now + 1
    <3>1. c.wake \in Nat
      BY TimeAssumption DEF TypeInv, TypeOK, Client
    <3> QED
      BY <1>1, <1>2, <3>1 DEF CursorNotAhead, Past
  <2>2. ASSUME NEW m \in Visible', m.stamp >= d.lastNotif PROVE Near(v, 1)'
    <3>1. CASE m \in Visible
      <4>1. Announced(c.lastNotif)
        BY <1>9, <2>2, <3>1 DEF Announced
      <4> QED
        BY <1>1, <1>5, <1>6, <1>9, <4>1
    <3>2. CASE m.stamp = now
      BY <1>9, <2>1, <3>2 DEF Near
    <3> QED
      BY <1>3, <2>2, <3>1, <3>2
  <2> QED
    BY <1>1, <1>5, <1>6, <1>9, <2>2
\* What the request of v knows after the step.
<1>10. ASSUME call'[v].at \in {"chats", "times"}
       PROVE  /\ d.cursor <= call'[v].t
              /\ call'[v].at = "times" /\ call'[v].found => Near(v, 1)'
  <2>1. CASE call'[v] = call[v]
    <3>1. c.at = "poll" /\ ~ Free(v)
      BY <1>2, <1>10, <2>1 DEF Phases, Free
    <3>2. d.cursor = c.cursor
      BY <2>1, <3>1, ClientSteps DEF ClientStep
    <3> QED
      BY <1>1, <1>5, <1>6, <1>10, <2>1, <3>2
  <2>2. CASE /\ call'[v].at = "chats" /\ call'[v].t = now /\ c.at = "poll" /\ client' = client
    BY <2>2 DEF CursorNotAhead
  <2>3. CASE /\ call'[v].at = "times" /\ call'[v].t = call[v].t
             /\ call'[v].found = Announced(c.lastNotif) /\ UNCHANGED <<rows, client>>
             /\ call[v].at = "chats"
    BY <1>1, <1>5, <1>6, <2>3
  <2> QED
    BY <1>10, <2>1, <2>2, <2>3, CallSteps DEF CallStep
<1>11. CASE /\ c.at \in {"data", "fetch"} /\ Fetched(c, d) /\ rows' = rows
            /\ c.at = "fetch" /\ ~ c.pending => d.cursor = c.cursor
  <2>1. call'[v].at \notin {"chats", "times"}
    BY <1>2, <1>11, CallSteps DEF CallStep, Phases
  <2>2. Visible' = Visible /\ d.lastNotif = c.lastNotif
    BY <1>4, <1>11 DEF Fetched
  <2>3. CASE d.cursor = c.cursor /\ d.pending = c.pending
    BY <1>1, <1>5, <1>6, <1>9, <2>1, <2>2, <2>3
  <2>4. CASE /\ d.cursor = c.cursor + 1 \/ \E m \in Visible : d.cursor = m.stamp + 1
             /\ ~ d.pending /\ d.cursor # c.cursor
    <3>1. CASE \E m \in Visible : d.cursor = m.stamp + 1 \/ c.cursor <= m.stamp
      <4>1. Near(v, 1)' /\ Near(v, 2)'
        BY <1>1, <2>2, <2>4, <3>1 DEF Near, Visible
      <4> QED
        BY <2>1, <2>4, <4>1
    <3>2. CASE d.cursor = c.cursor + 1 /\ \A m \in Visible : m.stamp < c.cursor
      <4>1. d.cursor <= 1 \/ Near(v, 2)'
        <5>1. CASE c.at = "data"
          BY <1>2, <3>2, <5>1 DEF Past
        <5>2. CASE c.pending
          BY <1>1, <1>5, <2>2, <3>2, <5>2 DEF Near, Visible
        <5> QED
          BY <1>11, <2>4, <5>1, <5>2
      <4>2. ~ Heard
        <5>1. CASE c.at = "data"
          BY <1>1, <1>2, <2>2, <3>2, <5>1 DEF Past, Visible
        <5>2. CASE c.pending
          BY <1>1, <1>5, <2>2, <3>2, <5>2 DEF Visible
        <5> QED
          BY <1>11, <2>4, <5>1, <5>2
      <4> QED
        BY <2>1, <2>4, <4>1, <4>2
    <3>3. \A m \in Visible : m.stamp \in Nat
      BY <1>1, <2>2 DEF Visible
    <3> QED
      BY <1>1, <2>4, <3>1, <3>2, <3>3
  <2> QED
    BY <1>1, <1>11, <2>3, <2>4 DEF Fetched
<1>12. CASE d.at \in {"out", "data"} /\ d.cursor = 0 /\ ~ d.pending
  <2>1. call'[v].at \notin {"chats", "times"}
    BY <1>12, TypeInvNext DEF TypeInv, Phases
  <2> QED
    BY <1>7, <1>12, <2>1
<1>13. CASE d.cursor = c.cursor /\ d.lastNotif = c.lastNotif /\ d.pending = c.pending
  BY <1>1, <1>5, <1>6, <1>9, <1>10, <1>13
<1>14. CASE /\ d.cursor = c.cursor /\ call[v].at = "times" /\ call'[v].at = "none"
            /\ rows' = rows /\ d.lastNotif = call[v].t
            /\ d.pending = (c.pending \/ call[v].found)
  <2>1. c.cursor <= d.lastNotif
    BY <1>5, <1>14
  <2>2. d.pending => Near(v, 1)'
    <3>1. Near(v, 1) => Near(v, 1)'
      BY <1>1, <1>6, <1>14
    <3>2. c.pending \/ call[v].found => Near(v, 1)
      BY <1>5, <1>14
    <3> QED
      BY <1>14, <3>1, <3>2
  <2>3. Heard => Near(v, 1)'
    BY <1>1, <1>14, <2>1 DEF Near, Visible
  <2> QED
    BY <1>1, <1>5, <1>6, <1>14, <2>1, <2>2, <2>3
<1> QED
  BY <1>11, <1>12, <1>13, <1>14, ClientSteps DEF ClientStep

LEMMA SpacedNext ==
  ASSUME TypeInv, AnnounceInv, NearInv, SpacedNeverSkipped, Prompt, [Next]_vars
  PROVE  SpacedNeverSkipped'
<1> SUFFICES ASSUME NEW v \in Users, NEW m \in Visible', Spaced(m)',
                    m.stamp < client'[v].cursor
             PROVE  m \in client'[v].got
  BY DEF SpacedNeverSkipped, Skipped
<1>0. TypeInv'
  BY TypeInvNext
<1>1. /\ now \in Nat /\ Joined \in Nat \ {0} /\ m.stamp > Joined
      /\ m.stamp \in Nat /\ (\A n \in rows' : n.stamp \in Nat)
      /\ \A n \in rows : n.stamp <= now
      /\ client[v].cursor \in Nat /\ client'[v].cursor \in Nat
  <2>1. now \in Nat /\ Joined \in Nat \ {0} /\ \A n \in rows : n.stamp <= now
    BY TimeAssumption DEF TypeInv, TypeOK
  <2>2. m.stamp > Joined /\ m.stamp \in Nat /\ \A n \in rows' : n.stamp \in Nat
    BY <1>0, TimeAssumption DEF TypeInv, TypeOK, Messages, Visible
  <2>3. client[v].cursor \in Nat /\ client'[v].cursor \in Nat
    BY <1>0 DEF TypeInv, TypeOK, Client
  <2> QED
    BY <2>1, <2>2, <2>3
<1>2. CASE m \in rows
  <2>1. m \in Visible /\ Spaced(m)
    BY <1>2, RowsNext DEF Visible, Spaced
  <2>2. ~ Skipped(v, m)
    BY <2>1 DEF SpacedNeverSkipped
  <2>3. CASE Fetched(client[v], client'[v])
    <3>1. client[v].got \subseteq client'[v].got
      BY <2>3 DEF Fetched
    <3>2. m.stamp < client[v].cursor \/ m \in client'[v].got
      BY <1>1, <1>2, <2>1, <2>3 DEF Fetched
    <3> QED
      BY <2>2, <3>1, <3>2 DEF Skipped
  <2>4. CASE client'[v].cursor = 0
    <3>1. ~ (m.stamp < 0)
      BY <1>1
    <3> QED
      BY <2>4, <3>1
  <2>5. CASE client'[v].cursor = client[v].cursor /\ client'[v].got = client[v].got
    BY <1>1, <2>2, <2>5 DEF Skipped
  <2> QED
    BY <2>3, <2>4, <2>5, ClientSteps DEF ClientStep
<1>3. CASE m \notin rows
  <2>1. m.stamp = now /\ client' = client
    BY <1>3, RowsNext DEF Visible, AnnounceInv
  <2>2. PICK n \in Visible : client[v].cursor <= n.stamp + 2
    BY <1>1, <2>1 DEF NearInv, Near
  <2>3. n \in rows' \ {m} /\ n.stamp <= now /\ n.stamp \in Nat
    BY <1>1, <1>3, <2>2, RowsNext DEF Visible
  <2>4. n.stamp + 2 <= m.stamp
    BY <1>1, <2>1, <2>3 DEF Spaced
  <2> QED
    BY <1>1, <2>1, <2>2, <2>3, <2>4
<1> QED
  BY <1>2, <1>3

\* Where no second passes between the stamp of a message and its INSERT, a
\* message with no other in its second and the one before is never left behind
\* a cursor unfetched: an empty fetch goes at most one second too far.
THEOREM SpacedMessagesKept ==
  ASSUME Prompt
  PROVE  Spec => []SpacedNeverSkipped
<1> DEFINE IInv == CursorNotAhead /\ AnnounceInv /\ NearInv /\ SpacedNeverSkipped
<1>1. Init => IInv
  <2> SUFFICES ASSUME Init PROVE IInv
    OBVIOUS
  <2>1. CursorNotAhead /\ AnnounceInv
    BY TimeAssumption DEF Init, CursorNotAhead, AnnounceInv, UnfetchedIsAnnounced,
       Online, LoggedOut, NoCall
  <2>2. NearInv /\ SpacedNeverSkipped
    BY TimeAssumption DEF Init, NearInv, SpacedNeverSkipped, Announced, Visible,
       LoggedOut, NoCall
  <2> QED
    BY <2>1, <2>2
<1>2. TypeInv /\ IInv /\ [Next]_vars => IInv'
  BY CursorNext, AnnounceNext, NearNext, SpacedNext
<1> QED
  BY <1>1, <1>2, TypeInvInit, TypeInvNext, PTL DEF Spec
=============================================================================
