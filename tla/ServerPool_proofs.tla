-------------------------- MODULE ServerPool_proofs -------------------------
(***************************************************************************)
(* Proofs about ServerPool, for any set of threads and limits of threads,  *)
(* connections and signals.                                                *)
(***************************************************************************)
EXTENDS ServerPool, FiniteSetTheorems, TLAPS

-----------------------------------------------------------------------------
(* The shape of the threads' states.                                       *)

\* A thread that was interrupted is in the handler, and its place is kept.
HandlerInv ==
  /\ \A t \in Threads : at[t] \in Handler => resume[t] # "none"
  /\ at[Main] \notin Handler \cup {"crashed"} => resume[Main] = "none"
  /\ \A v \in Workers : at[v] \notin Handler => resume[v] = "none"
  /\ resume[Main] \in MainPlaces \cup {"none"}
  /\ \A v \in Workers : resume[v] \in WorkerPlaces
  /\ resume[Main] # "none" => resume[Main] \in found

\* n_threads_mutex is locked in two places, and kept there by a thread that
\* was interrupted: its handler then waits for itself.
LockInv ==
  /\ at[Main] # "crashed" /\ "locked" \in {at[Main], resume[Main]} => mutex = Main
  /\ \A v \in Workers : "holding" \in {at[v], resume[v]} => mutex = v
  /\ at[Main] \in {"waiting", "free"} => resume[Main] # "locked"

\* Freed once, by main, with no thread counted; from then on main is on its
\* way out, but for where the signal found it.
FreeInv ==
  /\ \A v \in Workers : at[v] # "free"
  /\ at[Main] = "free" => count = 0
  /\ freed => closed /\ ~listening /\ signals > 0
  /\ \A t \in Threads : at[t] \in Handler => closed /\ signals > 0
  /\ freed /\ at[Main] \in Handler => signals > 1
  /\ freed /\ {at[Main], resume[Main]} \cap {"accepted", "lock", "locked", "create"} # {} => Late
  /\ freed /\ {at[Main], resume[Main]} \cap {"listen", "unblocked"} # {}
       => found \cap {"listen", "unblocked"} # {}

\* Each request that runs has a connection, and the server its own until the
\* persistence is freed; requests that failed may have left others open.
Busy == {w \in Workers : "running" \in {at[w], resume[w]}}
ConnectedInv == connections >= Cardinality(Busy) + (IF freed THEN 0 ELSE 1)

Invs == /\ TypeOK /\ CountIsExact /\ ConnectedInv
        /\ HandlerInv /\ LockInv /\ FreeInv
        /\ PersistenceOutlivesThreads /\ WaitersAreWoken /\ CrashesAreExcused

-----------------------------------------------------------------------------
(* Counting.                                                               *)

LEMMA SubsetCount ==
  ASSUME NEW S \in SUBSET Workers
  PROVE  /\ Cardinality(S) \in Nat
         /\ Cardinality(S) = 0 => S = {}
         /\ \A v \in S : Cardinality(S \ {v}) = Cardinality(S) - 1 /\ Cardinality(S) > 0
         /\ \A v \in Workers \ S : Cardinality(S \cup {v}) = Cardinality(S) + 1
<1>1. IsFiniteSet(S)
  BY ThreadsAssumption, FS_Subset
<1>2. QED
  BY <1>1, FS_CardinalityType, FS_EmptySet, FS_AddElement, FS_RemoveElement

\* The counts of threads and of connections, as numbers.
LEMMA Counts ==
  /\ Cardinality(Alive) \in Nat /\ Cardinality(Busy) \in Nat
  /\ Cardinality(Alive) = 0 => Alive = {}
  /\ \A v \in Alive : Cardinality(Alive) > 0
  /\ \A v \in Busy : Cardinality(Busy) > 0
<1>1. Alive \in SUBSET Workers /\ Busy \in SUBSET Workers
  BY DEF Alive, Busy
<1>2. QED BY <1>1, SubsetCount

\* The end of the handler: the thread goes on, or freed memory is used.
LEMMA FreeIs ==
  ASSUME NEW t \in Threads, Free(t)
  PROVE  /\ at[Main] # "crashed" /\ at[t] = "free"
         /\ UNCHANGED <<mutex, count, ret, closed, signals, found, lost>>
         /\ \/ /\ at' = [at EXCEPT ![t] = resume[t]]
               /\ resume' = [resume EXCEPT ![t] = "none"]
               /\ freed' = TRUE /\ listening' = FALSE
               /\ \/ freed /\ connections' = connections
                  \/ ~freed /\ connections' = connections - 1
            \/ /\ at' = [at EXCEPT ![Main] = "crashed"]
               /\ freed
               /\ UNCHANGED <<resume, freed, listening, connections>>
<1>1. CASE Crash(t, "free") /\ UNCHANGED <<resume, freed, listening, connections>>
  BY <1>1 DEF Free, Crash, Running, history
<1>2. CASE ~(Crash(t, "free") /\ UNCHANGED <<resume, freed, listening, connections>>)
  BY <1>2 DEF Free, Running, history
<1>3. QED BY <1>1, <1>2

-----------------------------------------------------------------------------
(* One lemma per part of the invariant.                                    *)

LEMMA CountStep ==
  ASSUME TypeOK, HandlerInv, CountIsExact, [Next]_vars
  PROVE  CountIsExact'
<1> USE ThreadsAssumption DEF TypeOK, Threads, Handler, MainPlaces, WorkerPlaces,
    loop, history
<1>1. CASE Listen
  <2>1. CASE at'[Main] = "crashed"
    BY <2>1 DEF CountIsExact
  <2>2. CASE at'[Main] # "crashed"
    <3>1. Alive' = Alive /\ (Creating' <=> Creating) /\ at[Main] # "crashed"
      BY <1>1, <2>2 DEF Listen, Goes, Crash, Alive, Creating, HandlerInv, Blocked, Running
    <3>2. lost' = lost /\ count' = count
      BY <1>1 DEF Listen, Goes, Crash
    <3>3. QED BY <3>1, <3>2 DEF CountIsExact
  <2>3. QED BY <2>1, <2>2
<1>2. CASE Connect
  <2>1. CASE at'[Main] = "crashed"
    BY <2>1 DEF CountIsExact
  <2>2. CASE at'[Main] # "crashed"
    <3>1. Alive' = Alive /\ (Creating' <=> Creating) /\ at[Main] # "crashed"
      BY <1>2, <2>2 DEF Connect, Goes, Alive, Creating, HandlerInv, Blocked, Running
    <3>2. lost' = lost /\ count' = count
      BY <1>2 DEF Connect, Goes
    <3>3. QED BY <3>1, <3>2 DEF CountIsExact
  <2>3. QED BY <2>1, <2>2
<1>3. CASE AcceptFails
  <2>1. CASE at'[Main] = "crashed"
    BY <2>1 DEF CountIsExact
  <2>2. CASE at'[Main] # "crashed"
    <3>1. Alive' = Alive /\ (Creating' <=> Creating) /\ at[Main] # "crashed"
      BY <1>3, <2>2 DEF AcceptFails, Goes, Alive, Creating, HandlerInv, Blocked, Running
    <3>2. lost' = lost /\ count' = count
      BY <1>3 DEF AcceptFails, Goes
    <3>3. QED BY <3>1, <3>2 DEF CountIsExact
  <2>3. QED BY <2>1, <2>2
<1>4. CASE Copy
  <2>1. CASE at'[Main] = "crashed"
    BY <2>1 DEF CountIsExact
  <2>2. CASE at'[Main] # "crashed"
    <3>1. Alive' = Alive /\ (Creating' <=> Creating) /\ at[Main] # "crashed"
      BY <1>4, <2>2 DEF Copy, Goes, Crash, Alive, Creating, HandlerInv, Blocked, Running
    <3>2. lost' = lost /\ count' = count
      BY <1>4 DEF Copy, Goes, Crash
    <3>3. QED BY <3>1, <3>2 DEF CountIsExact
  <2>3. QED BY <2>1, <2>2
<1>5. CASE LockCount
  <2>1. CASE at'[Main] = "crashed"
    BY <2>1 DEF CountIsExact
  <2>2. CASE at'[Main] # "crashed"
    <3>1. Alive' = Alive /\ (Creating' <=> Creating) /\ at[Main] # "crashed"
      BY <1>5, <2>2 DEF LockCount, Goes, Lock, Alive, Creating, HandlerInv, Blocked, Running
    <3>2. lost' = lost /\ count' = count
      BY <1>5 DEF LockCount, Goes, Lock
    <3>3. QED BY <3>1, <3>2 DEF CountIsExact
  <2>3. QED BY <2>1, <2>2
<1>6. CASE Count
  <2>1. Alive' = Alive /\ lost' = lost /\ at[Main] = "locked" /\ ~Creating
    BY <1>6 DEF Count, Goes, Alive, Creating, HandlerInv
  <2>2. \/ Creating' /\ count' = count + 1
        \/ ~Creating' /\ count' = count
    BY <1>6 DEF Count, Goes, Creating, HandlerInv
  <2>3. QED BY <2>1, <2>2, Counts DEF CountIsExact
<1>7. CASE CreateFails
  <2>1. Alive' = Alive /\ lost' = lost + 1 /\ at[Main] = "create" /\ Creating /\ ~Creating'
    BY <1>7 DEF CreateFails, Goes, Alive, Creating, HandlerInv
  <2>2. count' = count
    BY <1>7 DEF CreateFails, Goes
  <2>3. QED BY <2>1, <2>2, Counts DEF CountIsExact
<1>8. CASE Block
  <2>1. CASE at'[Main] = "crashed"
    BY <2>1 DEF CountIsExact
  <2>2. CASE at'[Main] # "crashed"
    <3>1. Alive' = Alive /\ (Creating' <=> Creating) /\ at[Main] # "crashed"
      BY <1>8, <2>2 DEF Block, Goes, Alive, Creating, HandlerInv, Blocked, Running
    <3>2. lost' = lost /\ count' = count
      BY <1>8 DEF Block, Goes
    <3>3. QED BY <3>1, <3>2 DEF CountIsExact
  <2>3. QED BY <2>1, <2>2
<1>9. CASE Unblock
  <2>1. CASE at'[Main] = "crashed"
    BY <2>1 DEF CountIsExact
  <2>2. CASE at'[Main] # "crashed"
    <3>1. Alive' = Alive /\ (Creating' <=> Creating) /\ at[Main] # "crashed"
      BY <1>9, <2>2 DEF Unblock, Goes, Alive, Creating, HandlerInv, Blocked, Running
    <3>2. lost' = lost /\ count' = count
      BY <1>9 DEF Unblock, Goes
    <3>3. QED BY <3>1, <3>2 DEF CountIsExact
  <2>3. QED BY <2>1, <2>2
<1>10. CASE Loop
  <2>1. CASE at'[Main] = "crashed"
    BY <2>1 DEF CountIsExact
  <2>2. CASE at'[Main] # "crashed"
    <3>1. Alive' = Alive /\ (Creating' <=> Creating) /\ at[Main] # "crashed"
      BY <1>10, <2>2 DEF Loop, Goes, Alive, Creating, HandlerInv, Blocked, Running
    <3>2. lost' = lost /\ count' = count
      BY <1>10 DEF Loop, Goes
    <3>3. QED BY <3>1, <3>2 DEF CountIsExact
  <2>3. QED BY <2>1, <2>2
<1>11. ASSUME NEW w \in Workers, Create(w)
      PROVE  CountIsExact'
  <2>1. Alive' = Alive \cup {w} /\ w \notin Alive
    BY <1>11 DEF Create, Alive
  <2>2. at[Main] = "create" /\ Creating /\ ~Creating' /\ lost' = lost /\ count' = count
    BY <1>11 DEF Create, Creating, HandlerInv
  <2>3. Cardinality(Alive') = Cardinality(Alive) + 1
    BY <2>1, SubsetCount DEF Alive
  <2>4. QED BY <2>2, <2>3, Counts DEF CountIsExact
<1>12. ASSUME NEW w \in Workers, Clone(w)
      PROVE  CountIsExact'
  <2>1. CASE at'[Main] = "crashed"
    BY <2>1 DEF CountIsExact
  <2>2. CASE at'[Main] # "crashed"
    <3>1. Alive' = Alive /\ (Creating' <=> Creating) /\ at[Main] # "crashed"
      BY <1>12, <2>2 DEF Clone, Goes, Crash, Alive, Creating, HandlerInv, Blocked, Running
    <3>2. lost' = lost /\ count' = count
      BY <1>12 DEF Clone, Goes, Crash
    <3>3. QED BY <3>1, <3>2 DEF CountIsExact
  <2>3. QED BY <2>1, <2>2
<1>13. ASSUME NEW w \in Workers, Serve(w)
      PROVE  CountIsExact'
  <2>1. CASE at'[Main] = "crashed"
    BY <2>1 DEF CountIsExact
  <2>2. CASE at'[Main] # "crashed"
    <3>1. Alive' = Alive /\ (Creating' <=> Creating) /\ at[Main] # "crashed"
      BY <1>13, <2>2 DEF Serve, Goes, Alive, Creating, HandlerInv, Blocked, Running
    <3>2. lost' = lost /\ count' = count
      BY <1>13 DEF Serve, Goes
    <3>3. QED BY <3>1, <3>2 DEF CountIsExact
  <2>3. QED BY <2>1, <2>2
<1>14. ASSUME NEW w \in Workers, LockLeave(w)
      PROVE  CountIsExact'
  <2>1. CASE at'[Main] = "crashed"
    BY <2>1 DEF CountIsExact
  <2>2. CASE at'[Main] # "crashed"
    <3>1. Alive' = Alive /\ (Creating' <=> Creating) /\ at[Main] # "crashed"
      BY <1>14, <2>2 DEF LockLeave, Goes, Lock, Alive, Creating, HandlerInv, Blocked,
          Running
    <3>2. lost' = lost /\ count' = count
      BY <1>14 DEF LockLeave, Goes, Lock
    <3>3. QED BY <3>1, <3>2 DEF CountIsExact
  <2>3. QED BY <2>1, <2>2
<1>15. ASSUME NEW w \in Workers, Leave(w)
      PROVE  CountIsExact'
  <2>1. Alive' = Alive \ {w} /\ w \in Alive
    BY <1>15 DEF Leave, Alive, Waiting
  <2>2. (Creating' <=> Creating) /\ lost' = lost /\ count' = count - 1
    BY <1>15 DEF Leave, Creating, HandlerInv, Waiting
  <2>3. Cardinality(Alive') = Cardinality(Alive) - 1
    BY <2>1, SubsetCount DEF Alive
  <2>4. at[Main] # "crashed"
    BY <1>15 DEF Leave, Running
  <2>5. QED BY <2>2, <2>3, <2>4, Counts DEF CountIsExact
<1>16. ASSUME NEW t \in Threads, Signal(t)
      PROVE  CountIsExact'
  <2>1. CASE at'[Main] = "crashed"
    BY <2>1 DEF CountIsExact
  <2>2. CASE at'[Main] # "crashed"
    <3>1. Alive' = Alive /\ (Creating' <=> Creating) /\ at[Main] # "crashed"
      BY <1>16, <2>2 DEF Signal, Alive, Creating, HandlerInv, Blocked, Running
    <3>2. lost' = lost /\ count' = count
      BY <1>16 DEF Signal
    <3>3. QED BY <3>1, <3>2 DEF CountIsExact
  <2>3. QED BY <2>1, <2>2
<1>17. ASSUME NEW t \in Threads, AwaitThreads(t)
      PROVE  CountIsExact'
  <2>1. CASE at'[Main] = "crashed"
    BY <2>1 DEF CountIsExact
  <2>2. CASE at'[Main] # "crashed"
    <3>1. Alive' = Alive /\ (Creating' <=> Creating) /\ at[Main] # "crashed"
      BY <1>17, <2>2 DEF AwaitThreads, Goes, Alive, Creating, HandlerInv, Blocked, Running
    <3>2. lost' = lost /\ count' = count
      BY <1>17 DEF AwaitThreads, Goes
    <3>3. QED BY <3>1, <3>2 DEF CountIsExact
  <2>3. QED BY <2>1, <2>2
<1>18. ASSUME NEW t \in Threads, Free(t)
      PROVE  CountIsExact'
  <2>1. CASE at'[Main] = "crashed"
    BY <2>1 DEF CountIsExact
  <2>2. CASE at'[Main] # "crashed"
    <3>1. Alive' = Alive /\ (Creating' <=> Creating) /\ at[Main] # "crashed"
      BY <1>18, <2>2 DEF Free, Crash, Alive, Creating, HandlerInv, Blocked, Running
    <3>2. lost' = lost /\ count' = count
      BY <1>18 DEF Free, Crash
    <3>3. QED BY <3>1, <3>2 DEF CountIsExact
  <2>3. QED BY <2>1, <2>2
<1>19. CASE UNCHANGED vars
  <2>1. Alive' = Alive /\ (Creating' <=> Creating) /\ lost' = lost /\ count' = count /\ at' = at
    BY <1>19 DEF vars, Alive, Creating
  <2>2. QED BY <2>1 DEF CountIsExact
<1>20. QED
  BY <1>1, <1>2, <1>3, <1>4, <1>5, <1>6, <1>7, <1>8, <1>9, <1>10, <1>11, <1>12, <1>13,
      <1>14, <1>15, <1>16, <1>17, <1>18, <1>19
     DEF Next, MainStep, World, WorkerStep, Stopping, Threads

LEMMA ConnectionStep ==
  ASSUME TypeOK, HandlerInv, ConnectedInv, [Next]_vars
  PROVE  ConnectedInv'
<1> USE ThreadsAssumption DEF TypeOK, Threads, Handler, MainPlaces, WorkerPlaces,
    loop, history
<1>1. CASE Listen
  <2>1. Busy' = Busy
    BY <1>1 DEF Listen, Goes, Crash, Busy, HandlerInv
  <2>2. connections' = connections /\ freed' = freed
    BY <1>1 DEF Listen, Goes, Crash
  <2>3. QED BY <2>1, <2>2 DEF ConnectedInv
<1>2. CASE Connect
  <2>1. Busy' = Busy
    BY <1>2 DEF Connect, Goes, Busy, HandlerInv
  <2>2. connections' = connections /\ freed' = freed
    BY <1>2 DEF Connect, Goes
  <2>3. QED BY <2>1, <2>2 DEF ConnectedInv
<1>3. CASE AcceptFails
  <2>1. Busy' = Busy
    BY <1>3 DEF AcceptFails, Goes, Busy, HandlerInv
  <2>2. connections' = connections /\ freed' = freed
    BY <1>3 DEF AcceptFails, Goes
  <2>3. QED BY <2>1, <2>2 DEF ConnectedInv
<1>4. CASE Copy
  <2>1. Busy' = Busy
    BY <1>4 DEF Copy, Goes, Crash, Busy, HandlerInv
  <2>2. connections' = connections /\ freed' = freed
    BY <1>4 DEF Copy, Goes, Crash
  <2>3. QED BY <2>1, <2>2 DEF ConnectedInv
<1>5. CASE LockCount
  <2>1. Busy' = Busy
    BY <1>5 DEF LockCount, Goes, Lock, Busy, HandlerInv
  <2>2. connections' = connections /\ freed' = freed
    BY <1>5 DEF LockCount, Goes, Lock
  <2>3. QED BY <2>1, <2>2 DEF ConnectedInv
<1>6. CASE Count
  <2>1. Busy' = Busy
    BY <1>6 DEF Count, Goes, Busy, HandlerInv
  <2>2. connections' = connections /\ freed' = freed
    BY <1>6 DEF Count, Goes
  <2>3. QED BY <2>1, <2>2 DEF ConnectedInv
<1>7. CASE CreateFails
  <2>1. Busy' = Busy
    BY <1>7 DEF CreateFails, Goes, Busy, HandlerInv
  <2>2. connections' = connections /\ freed' = freed
    BY <1>7 DEF CreateFails, Goes
  <2>3. QED BY <2>1, <2>2 DEF ConnectedInv
<1>8. CASE Block
  <2>1. Busy' = Busy
    BY <1>8 DEF Block, Goes, Busy, HandlerInv
  <2>2. connections' = connections /\ freed' = freed
    BY <1>8 DEF Block, Goes
  <2>3. QED BY <2>1, <2>2 DEF ConnectedInv
<1>9. CASE Unblock
  <2>1. Busy' = Busy
    BY <1>9 DEF Unblock, Goes, Busy, HandlerInv
  <2>2. connections' = connections /\ freed' = freed
    BY <1>9 DEF Unblock, Goes
  <2>3. QED BY <2>1, <2>2 DEF ConnectedInv
<1>10. CASE Loop
  <2>1. Busy' = Busy
    BY <1>10 DEF Loop, Goes, Busy, HandlerInv
  <2>2. connections' = connections /\ freed' = freed
    BY <1>10 DEF Loop, Goes
  <2>3. QED BY <2>1, <2>2 DEF ConnectedInv
<1>11. ASSUME NEW w \in Workers, Create(w)
      PROVE  ConnectedInv'
  <2>1. Busy' = Busy
    BY <1>11 DEF Create, Busy, HandlerInv
  <2>2. connections' = connections /\ freed' = freed
    BY <1>11 DEF Create
  <2>3. QED BY <2>1, <2>2 DEF ConnectedInv
<1>12. ASSUME NEW w \in Workers, Clone(w)
      PROVE  ConnectedInv'
  <2>1. freed' = freed
    BY <1>12 DEF Clone, Goes, Crash
  <2>2. CASE connections' = connections /\ at'[w] # "running"
    <3>1. Busy' = Busy
      BY <1>12, <2>2 DEF Clone, Goes, Crash, Busy, HandlerInv
    <3>2. QED BY <2>1, <2>2, <3>1 DEF ConnectedInv
  <2>3. CASE connections' = connections + 1 /\ at' = [at EXCEPT ![w] = "running"] /\ at[w] = "serving"
    <3>1. Busy' = Busy \cup {w} /\ w \notin Busy
      BY <1>12, <2>3 DEF Clone, Busy, HandlerInv
    <3>2. Cardinality(Busy') = Cardinality(Busy) + 1
      BY <3>1, SubsetCount DEF Busy
    <3>3. QED BY <2>1, <2>3, <3>2, Counts DEF ConnectedInv
  <2>4. QED BY <1>12, <2>2, <2>3 DEF Clone, Goes, Crash
<1>13. ASSUME NEW w \in Workers, Serve(w)
      PROVE  ConnectedInv'
  <2>1. Busy' = Busy \ {w} /\ w \in Busy
    BY <1>13 DEF Serve, Goes, Busy, HandlerInv
  <2>2. Cardinality(Busy') = Cardinality(Busy) - 1
    BY <2>1, SubsetCount DEF Busy
  <2>3. /\ freed' = freed
        /\ connections' \in {connections - 1, connections}
    BY <1>13 DEF Serve, Goes
  <2>4. QED BY <2>2, <2>3, Counts DEF ConnectedInv
<1>14. ASSUME NEW w \in Workers, LockLeave(w)
      PROVE  ConnectedInv'
  <2>1. Busy' = Busy
    BY <1>14 DEF LockLeave, Goes, Lock, Busy, HandlerInv
  <2>2. connections' = connections /\ freed' = freed
    BY <1>14 DEF LockLeave, Goes, Lock
  <2>3. QED BY <2>1, <2>2 DEF ConnectedInv
<1>15. ASSUME NEW w \in Workers, Leave(w)
      PROVE  ConnectedInv'
  <2>1. Busy' = Busy
    BY <1>15 DEF Leave, Busy, HandlerInv, Waiting
  <2>2. connections' = connections /\ freed' = freed
    BY <1>15 DEF Leave
  <2>3. QED BY <2>1, <2>2 DEF ConnectedInv
<1>16. ASSUME NEW t \in Threads, Signal(t)
      PROVE  ConnectedInv'
  <2>1. Busy' = Busy
    BY <1>16 DEF Signal, Busy, HandlerInv, Blocked
  <2>2. connections' = connections /\ freed' = freed
    BY <1>16 DEF Signal
  <2>3. QED BY <2>1, <2>2 DEF ConnectedInv
<1>17. ASSUME NEW t \in Threads, AwaitThreads(t)
      PROVE  ConnectedInv'
  <2>1. Busy' = Busy
    BY <1>17 DEF AwaitThreads, Goes, Busy, HandlerInv
  <2>2. connections' = connections /\ freed' = freed
    BY <1>17 DEF AwaitThreads, Goes
  <2>3. QED BY <2>1, <2>2 DEF ConnectedInv
<1>18. ASSUME NEW t \in Threads, Free(t)
      PROVE  ConnectedInv'
  <2>1. Busy' = Busy
    <3>1. ASSUME NEW v \in Workers
          PROVE  "running" \in {at'[v], resume'[v]} <=> "running" \in {at[v], resume[v]}
      <4>1. CASE at' = [at EXCEPT ![t] = resume[t]] /\ resume' = [resume EXCEPT ![t] = "none"]
        <5>1. CASE v = t
          BY <1>18, <4>1, <5>1, FreeIs
        <5>2. CASE v # t
          BY <4>1, <5>2
        <5>3. QED BY <5>1, <5>2
      <4>2. CASE at' = [at EXCEPT ![Main] = "crashed"] /\ resume' = resume
        BY <4>2
      <4>3. QED BY <1>18, <4>1, <4>2, FreeIs
    <3>2. QED BY <3>1 DEF Busy
  <2>2. \/ connections' = connections /\ (freed' <=> freed)
        \/ connections' = connections - 1 /\ ~freed /\ freed'
    BY <1>18, FreeIs
  <2>3. QED BY <2>1, <2>2, Counts DEF ConnectedInv
<1>19. CASE UNCHANGED vars
  <2>1. Busy' = Busy /\ connections' = connections /\ freed' = freed
    BY <1>19 DEF vars, Busy
  <2>2. QED BY <2>1 DEF ConnectedInv
<1>20. QED
  BY <1>1, <1>2, <1>3, <1>4, <1>5, <1>6, <1>7, <1>8, <1>9, <1>10, <1>11, <1>12, <1>13,
      <1>14, <1>15, <1>16, <1>17, <1>18, <1>19
     DEF Next, MainStep, World, WorkerStep, Stopping, Threads

LEMMA TypeStep ==
  ASSUME TypeOK, HandlerInv, CountIsExact, ConnectedInv, [Next]_vars
  PROVE  TypeOK'
<1> USE ThreadsAssumption, BoundsAssumption DEF TypeOK, Threads, Handler, MainPlaces,
    WorkerPlaces, loop, history
<1>1. CASE Listen
  BY <1>1 DEF Listen, Goes, Crash
<1>2. CASE Connect
  BY <1>2 DEF Connect, Goes
<1>3. CASE AcceptFails
  BY <1>3 DEF AcceptFails, Goes
<1>4. CASE Copy
  BY <1>4 DEF Copy, Goes, Crash
<1>5. CASE LockCount
  BY <1>5 DEF LockCount, Goes, Lock
<1>6. CASE Count
  BY <1>6 DEF Count, Goes
<1>7. CASE CreateFails
  BY <1>7 DEF CreateFails, Goes
<1>8. CASE Block
  BY <1>8 DEF Block, Goes
<1>9. CASE Unblock
  BY <1>9 DEF Unblock, Goes
<1>10. CASE Loop
  BY <1>10 DEF Loop, Goes
<1>11. ASSUME NEW w \in Workers, Create(w)
      PROVE  TypeOK'
  BY <1>11 DEF Create
<1>12. ASSUME NEW w \in Workers, Clone(w)
      PROVE  TypeOK'
  BY <1>12 DEF Clone, Goes, Crash
<1>13. ASSUME NEW w \in Workers, Serve(w)
      PROVE  TypeOK'
  <2>1. w \in Busy
    BY <1>13 DEF Serve, Goes, Busy
  <2>2. connections > 0
    BY <2>1, Counts DEF ConnectedInv
  <2>3. QED BY <1>13, <2>2 DEF Serve, Goes
<1>14. ASSUME NEW w \in Workers, LockLeave(w)
      PROVE  TypeOK'
  BY <1>14 DEF LockLeave, Goes, Lock
<1>15. ASSUME NEW w \in Workers, Leave(w)
      PROVE  TypeOK'
  <2>1. count > 0
    <3>1. w \in Alive /\ at[Main] # "crashed"
      BY <1>15 DEF Leave, Alive, Running
    <3>2. QED BY <3>1, Counts DEF CountIsExact
  <2>2. QED BY <1>15, <2>1 DEF Leave, Waiting
<1>16. ASSUME NEW t \in Threads, Signal(t)
      PROVE  TypeOK'
  <2>1. at[t] \in (MainPlaces \cup WorkerPlaces) \ {"blocked", "ended", "crashed"}
    BY <1>16 DEF Signal, Blocked
  <2>2. found' \subseteq MainPlaces
    BY <1>16, <2>1 DEF Signal
  <2>3. signals' \in 0..MaxSignals
    BY <1>16 DEF Signal
  <2>4. /\ at' \in [Threads -> MainPlaces \cup WorkerPlaces \cup Handler]
        /\ at'[Main] \notin WorkerPlaces
        /\ \A v \in Workers : at'[v] \notin MainPlaces
        /\ resume' \in [Threads -> (MainPlaces \cup WorkerPlaces) \ {"blocked", "ended", "crashed"}]
    BY <1>16, <2>1 DEF Signal
  <2>5. QED BY <1>16, <2>2, <2>3, <2>4 DEF Signal
<1>17. ASSUME NEW t \in Threads, AwaitThreads(t)
      PROVE  TypeOK'
  BY <1>17 DEF AwaitThreads, Goes
<1>18. ASSUME NEW t \in Threads, Free(t)
      PROVE  TypeOK'
  <2>1. ~freed => connections > 0
    BY Counts DEF ConnectedInv
  <2>2. connections' \in 0..MaxConnections
    <3>1. connections' = connections \/ (~freed /\ connections' = connections - 1)
      BY <1>18, FreeIs
    <3>2. QED BY <2>1, <3>1
  <2>3. freed' \in BOOLEAN /\ listening' \in BOOLEAN
    BY <1>18, FreeIs
  <2>4. /\ at' \in [Threads -> MainPlaces \cup WorkerPlaces \cup Handler]
        /\ at'[Main] \notin WorkerPlaces
        /\ \A v \in Workers : at'[v] \notin MainPlaces
        /\ resume' \in [Threads -> (MainPlaces \cup WorkerPlaces) \ {"blocked", "ended", "crashed"}]
    <3>1. /\ at[t] = "free" /\ resume[t] # "none" /\ resume[t] \notin {"blocked", "ended", "crashed"}
          /\ t = Main => resume[t] \in MainPlaces
          /\ t \in Workers => resume[t] \in WorkerPlaces
      BY <1>18, FreeIs DEF HandlerInv
    <3>2. CASE at' = [at EXCEPT ![t] = resume[t]] /\ resume' = [resume EXCEPT ![t] = "none"]
      BY <3>1, <3>2
    <3>3. CASE at' = [at EXCEPT ![Main] = "crashed"] /\ resume' = resume
      BY <3>3
    <3>4. QED BY <1>18, <3>2, <3>3, FreeIs
  <2>5. QED BY <1>18, <2>2, <2>3, <2>4, FreeIs
<1>19. CASE UNCHANGED vars
  BY <1>19 DEF vars
<1>20. QED
  BY <1>1, <1>2, <1>3, <1>4, <1>5, <1>6, <1>7, <1>8, <1>9, <1>10, <1>11, <1>12, <1>13,
      <1>14, <1>15, <1>16, <1>17, <1>18, <1>19
     DEF Next, MainStep, World, WorkerStep, Stopping, Threads

LEMMA HandlerStep ==
  ASSUME TypeOK, HandlerInv, [Next]_vars
  PROVE  HandlerInv'
<1> USE ThreadsAssumption DEF TypeOK, HandlerInv, Threads, Handler, MainPlaces,
    WorkerPlaces, loop, history
<1>1. CASE Listen
  BY <1>1 DEF Listen, Goes, Crash
<1>2. CASE Connect
  BY <1>2 DEF Connect, Goes
<1>3. CASE AcceptFails
  BY <1>3 DEF AcceptFails, Goes
<1>4. CASE Copy
  BY <1>4 DEF Copy, Goes, Crash
<1>5. CASE LockCount
  BY <1>5 DEF LockCount, Goes, Lock
<1>6. CASE Count
  BY <1>6 DEF Count, Goes
<1>7. CASE CreateFails
  BY <1>7 DEF CreateFails, Goes
<1>8. CASE Block
  BY <1>8 DEF Block, Goes
<1>9. CASE Unblock
  BY <1>9 DEF Unblock, Goes
<1>10. CASE Loop
  BY <1>10 DEF Loop, Goes
<1>11. ASSUME NEW w \in Workers, Create(w)
      PROVE  HandlerInv'
  BY <1>11 DEF Create
<1>12. ASSUME NEW w \in Workers, Clone(w)
      PROVE  HandlerInv'
  BY <1>12 DEF Clone, Goes, Crash
<1>13. ASSUME NEW w \in Workers, Serve(w)
      PROVE  HandlerInv'
  BY <1>13 DEF Serve, Goes
<1>14. ASSUME NEW w \in Workers, LockLeave(w)
      PROVE  HandlerInv'
  BY <1>14 DEF LockLeave, Goes, Lock
<1>15. ASSUME NEW w \in Workers, Leave(w)
      PROVE  HandlerInv'
  BY <1>15 DEF Leave, Waiting
<1>16. ASSUME NEW t \in Threads, Signal(t)
      PROVE  HandlerInv'
  BY <1>16 DEF Signal, Blocked
<1>17. ASSUME NEW t \in Threads, AwaitThreads(t)
      PROVE  HandlerInv'
  BY <1>17 DEF AwaitThreads, Goes
<1>18. ASSUME NEW t \in Threads, Free(t)
      PROVE  HandlerInv'
  BY <1>18 DEF Free, Crash
<1>19. CASE UNCHANGED vars
  BY <1>19 DEF vars
<1>20. QED
  BY <1>1, <1>2, <1>3, <1>4, <1>5, <1>6, <1>7, <1>8, <1>9, <1>10, <1>11, <1>12, <1>13,
      <1>14, <1>15, <1>16, <1>17, <1>18, <1>19
     DEF Next, MainStep, World, WorkerStep, Stopping, Threads

LEMMA LockStep ==
  ASSUME TypeOK, HandlerInv, LockInv, [Next]_vars
  PROVE  LockInv'
<1> USE ThreadsAssumption DEF TypeOK, HandlerInv, LockInv, Threads, Handler,
    MainPlaces, WorkerPlaces, loop, history
<1>1. CASE Listen
  BY <1>1 DEF Listen, Goes, Crash
<1>2. CASE Connect
  BY <1>2 DEF Connect, Goes
<1>3. CASE AcceptFails
  BY <1>3 DEF AcceptFails, Goes
<1>4. CASE Copy
  BY <1>4 DEF Copy, Goes, Crash
<1>5. CASE LockCount
  BY <1>5 DEF LockCount, Goes, Lock
<1>6. CASE Count
  BY <1>6 DEF Count, Goes
<1>7. CASE CreateFails
  BY <1>7 DEF CreateFails, Goes
<1>8. CASE Block
  BY <1>8 DEF Block, Goes
<1>9. CASE Unblock
  BY <1>9 DEF Unblock, Goes
<1>10. CASE Loop
  BY <1>10 DEF Loop, Goes
<1>11. ASSUME NEW w \in Workers, Create(w)
      PROVE  LockInv'
  BY <1>11 DEF Create
<1>12. ASSUME NEW w \in Workers, Clone(w)
      PROVE  LockInv'
  BY <1>12 DEF Clone, Goes, Crash
<1>13. ASSUME NEW w \in Workers, Serve(w)
      PROVE  LockInv'
  BY <1>13 DEF Serve, Goes
<1>14. ASSUME NEW w \in Workers, LockLeave(w)
      PROVE  LockInv'
  BY <1>14 DEF LockLeave, Goes, Lock
<1>15. ASSUME NEW w \in Workers, Leave(w)
      PROVE  LockInv'
  BY <1>15 DEF Leave, Waiting
<1>16. ASSUME NEW t \in Threads, Signal(t)
      PROVE  LockInv'
  BY <1>16 DEF Signal, Blocked
<1>17. ASSUME NEW t \in Threads, AwaitThreads(t)
      PROVE  LockInv'
  BY <1>17 DEF AwaitThreads, Goes
<1>18. ASSUME NEW t \in Threads, Free(t)
      PROVE  LockInv'
  BY <1>18 DEF Free, Crash
<1>19. CASE UNCHANGED vars
  BY <1>19 DEF vars
<1>20. QED
  BY <1>1, <1>2, <1>3, <1>4, <1>5, <1>6, <1>7, <1>8, <1>9, <1>10, <1>11, <1>12, <1>13,
      <1>14, <1>15, <1>16, <1>17, <1>18, <1>19
     DEF Next, MainStep, World, WorkerStep, Stopping, Threads

LEMMA FreeStep ==
  ASSUME TypeOK, HandlerInv, LockInv, CountIsExact, FreeInv, [Next]_vars
  PROVE  FreeInv'
<1> USE ThreadsAssumption DEF TypeOK, HandlerInv, LockInv, FreeInv, Late, Threads,
    Handler, MainPlaces, WorkerPlaces, loop, history
<1>1. CASE Listen
  BY <1>1 DEF Listen, Goes, Crash
<1>2. CASE Connect
  BY <1>2 DEF Connect, Goes
<1>3. CASE AcceptFails
  BY <1>3 DEF AcceptFails, Goes
<1>4. CASE Copy
  BY <1>4 DEF Copy, Goes, Crash
<1>5. CASE LockCount
  BY <1>5 DEF LockCount, Goes, Lock
<1>6. CASE Count
  BY <1>6 DEF Count, Goes
<1>7. CASE CreateFails
  BY <1>7 DEF CreateFails, Goes
<1>8. CASE Block
  BY <1>8 DEF Block, Goes
<1>9. CASE Unblock
  BY <1>9 DEF Unblock, Goes
<1>10. CASE Loop
  BY <1>10 DEF Loop, Goes
<1>11. ASSUME NEW w \in Workers, Create(w)
      PROVE  FreeInv'
  BY <1>11 DEF Create
<1>12. ASSUME NEW w \in Workers, Clone(w)
      PROVE  FreeInv'
  BY <1>12 DEF Clone, Goes, Crash
<1>13. ASSUME NEW w \in Workers, Serve(w)
      PROVE  FreeInv'
  BY <1>13 DEF Serve, Goes
<1>14. ASSUME NEW w \in Workers, LockLeave(w)
      PROVE  FreeInv'
  BY <1>14 DEF LockLeave, Goes, Lock
<1>15. ASSUME NEW w \in Workers, Leave(w)
      PROVE  FreeInv'
  <2>1. w \in Alive /\ at[Main] # "crashed"
    BY <1>15 DEF Leave, Alive, Running
  <2>2. count > 0
    BY <2>1, Counts DEF CountIsExact
  <2>3. QED BY <1>15, <2>2 DEF Leave, Waiting
<1>16. ASSUME NEW t \in Threads, Signal(t)
      PROVE  FreeInv'
  BY <1>16 DEF Signal, Blocked
<1>17. ASSUME NEW t \in Threads, AwaitThreads(t)
      PROVE  FreeInv'
  <2>1. ASSUME t \in Workers, count = 0
      PROVE  FALSE
    <3>1. t \in Alive /\ at[Main] # "crashed"
      BY <1>17, <2>1 DEF AwaitThreads, Goes, Alive, Running
    <3>2. QED BY <2>1, <3>1, Counts DEF CountIsExact
  <2>2. QED BY <1>17, <2>1 DEF AwaitThreads, Goes
<1>18. ASSUME NEW t \in Threads, Free(t)
      PROVE  FreeInv'
  <2>1. t = Main /\ count = 0 /\ at[Main] = "free"
    BY <1>18, FreeIs
  <2>2. ~Creating
    BY <2>1, Counts DEF CountIsExact
  <2>3. resume[Main] \in found /\ resume[Main] \notin {"locked", "create"} \cup Handler
    BY <2>1, <2>2 DEF Creating
  <2>4. CASE at' = [at EXCEPT ![Main] = resume[Main]]
    <3>1. /\ closed' = closed /\ found' = found /\ signals' = signals /\ count' = count
      BY <1>18, FreeIs
    <3>2. at' # [at EXCEPT ![Main] = "crashed"]
      BY <2>1, <2>3, <2>4
    <3>3. freed' /\ ~listening' /\ resume' = [resume EXCEPT ![t] = "none"]
      BY <1>18, <3>2, FreeIs
    <3>4. /\ resume'[Main] = "none" /\ at'[Main] = resume[Main]
          /\ \A v \in Workers : at'[v] = at[v]
      BY <2>1, <2>4, <3>3
    <3>5. closed /\ signals > 0
      BY <2>1
    <3>6. QED BY <2>1, <2>3, <3>1, <3>3, <3>4, <3>5
  <2>5. CASE at' = [at EXCEPT ![Main] = "crashed"]
    <3>1. at'[Main] # resume[Main]
      BY <2>5
    <3>2. at' # [at EXCEPT ![t] = resume[t]]
      BY <2>1, <3>1
    <3>3. UNCHANGED <<resume, freed, listening, closed, found, signals, count>>
      BY <1>18, <3>2, FreeIs
    <3>4. QED BY <2>5, <3>3
  <2>6. QED BY <1>18, <2>1, <2>4, <2>5, FreeIs
<1>19. CASE UNCHANGED vars
  BY <1>19 DEF vars
<1>20. QED
  BY <1>1, <1>2, <1>3, <1>4, <1>5, <1>6, <1>7, <1>8, <1>9, <1>10, <1>11, <1>12, <1>13,
      <1>14, <1>15, <1>16, <1>17, <1>18, <1>19
     DEF Next, MainStep, World, WorkerStep, Stopping, Threads

LEMMA OutliveStep ==
  ASSUME TypeOK, CountIsExact, FreeInv, PersistenceOutlivesThreads, [Next]_vars
  PROVE  PersistenceOutlivesThreads'
<1> USE ThreadsAssumption DEF TypeOK, Threads, Handler, MainPlaces, WorkerPlaces,
    loop, history
<1>1. CASE Listen
  <2>1. Alive' \subseteq Alive /\ freed' = freed /\ found \subseteq found'
    BY <1>1 DEF Listen, Goes, Crash, Alive
  <2>2. QED BY <2>1 DEF PersistenceOutlivesThreads, Late
<1>2. CASE Connect
  <2>1. Alive' \subseteq Alive /\ freed' = freed /\ found \subseteq found'
    BY <1>2 DEF Connect, Goes, Alive
  <2>2. QED BY <2>1 DEF PersistenceOutlivesThreads, Late
<1>3. CASE AcceptFails
  <2>1. Alive' \subseteq Alive /\ freed' = freed /\ found \subseteq found'
    BY <1>3 DEF AcceptFails, Goes, Alive
  <2>2. QED BY <2>1 DEF PersistenceOutlivesThreads, Late
<1>4. CASE Copy
  <2>1. Alive' \subseteq Alive /\ freed' = freed /\ found \subseteq found'
    BY <1>4 DEF Copy, Goes, Crash, Alive
  <2>2. QED BY <2>1 DEF PersistenceOutlivesThreads, Late
<1>5. CASE LockCount
  <2>1. Alive' \subseteq Alive /\ freed' = freed /\ found \subseteq found'
    BY <1>5 DEF LockCount, Goes, Lock, Alive
  <2>2. QED BY <2>1 DEF PersistenceOutlivesThreads, Late
<1>6. CASE Count
  <2>1. Alive' \subseteq Alive /\ freed' = freed /\ found \subseteq found'
    BY <1>6 DEF Count, Goes, Alive
  <2>2. QED BY <2>1 DEF PersistenceOutlivesThreads, Late
<1>7. CASE CreateFails
  <2>1. Alive' \subseteq Alive /\ freed' = freed /\ found \subseteq found'
    BY <1>7 DEF CreateFails, Goes, Alive
  <2>2. QED BY <2>1 DEF PersistenceOutlivesThreads, Late
<1>8. CASE Block
  <2>1. Alive' \subseteq Alive /\ freed' = freed /\ found \subseteq found'
    BY <1>8 DEF Block, Goes, Alive
  <2>2. QED BY <2>1 DEF PersistenceOutlivesThreads, Late
<1>9. CASE Unblock
  <2>1. Alive' \subseteq Alive /\ freed' = freed /\ found \subseteq found'
    BY <1>9 DEF Unblock, Goes, Alive
  <2>2. QED BY <2>1 DEF PersistenceOutlivesThreads, Late
<1>10. CASE Loop
  <2>1. Alive' \subseteq Alive /\ freed' = freed /\ found \subseteq found'
    BY <1>10 DEF Loop, Goes, Alive
  <2>2. QED BY <2>1 DEF PersistenceOutlivesThreads, Late
<1>11. ASSUME NEW w \in Workers, Create(w)
      PROVE  PersistenceOutlivesThreads'
  <2>1. freed' = freed /\ found' = found /\ at[Main] = "create"
    BY <1>11 DEF Create
  <2>2. QED BY <2>1 DEF PersistenceOutlivesThreads, FreeInv, Late
<1>12. ASSUME NEW w \in Workers, Clone(w)
      PROVE  PersistenceOutlivesThreads'
  <2>1. Alive' \subseteq Alive /\ freed' = freed /\ found \subseteq found'
    BY <1>12 DEF Clone, Goes, Crash, Alive
  <2>2. QED BY <2>1 DEF PersistenceOutlivesThreads, Late
<1>13. ASSUME NEW w \in Workers, Serve(w)
      PROVE  PersistenceOutlivesThreads'
  <2>1. Alive' \subseteq Alive /\ freed' = freed /\ found \subseteq found'
    BY <1>13 DEF Serve, Goes, Alive
  <2>2. QED BY <2>1 DEF PersistenceOutlivesThreads, Late
<1>14. ASSUME NEW w \in Workers, LockLeave(w)
      PROVE  PersistenceOutlivesThreads'
  <2>1. Alive' \subseteq Alive /\ freed' = freed /\ found \subseteq found'
    BY <1>14 DEF LockLeave, Goes, Lock, Alive
  <2>2. QED BY <2>1 DEF PersistenceOutlivesThreads, Late
<1>15. ASSUME NEW w \in Workers, Leave(w)
      PROVE  PersistenceOutlivesThreads'
  <2>1. Alive' \subseteq Alive /\ freed' = freed /\ found \subseteq found'
    BY <1>15 DEF Leave, Alive, Waiting
  <2>2. QED BY <2>1 DEF PersistenceOutlivesThreads, Late
<1>16. ASSUME NEW t \in Threads, Signal(t)
      PROVE  PersistenceOutlivesThreads'
  <2>1. Alive' \subseteq Alive /\ freed' = freed /\ found \subseteq found'
    BY <1>16 DEF Signal, Alive, Blocked
  <2>2. QED BY <2>1 DEF PersistenceOutlivesThreads, Late
<1>17. ASSUME NEW t \in Threads, AwaitThreads(t)
      PROVE  PersistenceOutlivesThreads'
  <2>1. Alive' \subseteq Alive /\ freed' = freed /\ found \subseteq found'
    BY <1>17 DEF AwaitThreads, Goes, Alive
  <2>2. QED BY <2>1 DEF PersistenceOutlivesThreads, Late
<1>18. ASSUME NEW t \in Threads, Free(t)
      PROVE  PersistenceOutlivesThreads'
  <2>1. t = Main /\ count = 0 /\ at[Main] # "crashed"
    BY <1>18 DEF Free, Crash, FreeInv, Running
  <2>2. Alive = {}
    BY <2>1, Counts DEF CountIsExact
  <2>3. Alive' = {}
    BY <1>18, <2>1, <2>2 DEF Free, Crash, Alive
  <2>4. QED BY <2>3 DEF PersistenceOutlivesThreads
<1>19. CASE UNCHANGED vars
  <2>1. Alive' = Alive /\ freed' = freed /\ found' = found
    BY <1>19 DEF vars, Alive
  <2>2. QED BY <2>1 DEF PersistenceOutlivesThreads, Late
<1>20. QED
  BY <1>1, <1>2, <1>3, <1>4, <1>5, <1>6, <1>7, <1>8, <1>9, <1>10, <1>11, <1>12, <1>13,
      <1>14, <1>15, <1>16, <1>17, <1>18, <1>19
     DEF Next, MainStep, World, WorkerStep, Stopping, Threads

LEMMA WaitStep ==
  ASSUME TypeOK, CountIsExact, HandlerInv, WaitersAreWoken, [Next]_vars
  PROVE  WaitersAreWoken'
<1> USE ThreadsAssumption DEF TypeOK, HandlerInv, WaitersAreWoken, Waiting, Running,
    Threads, Handler, MainPlaces, WorkerPlaces, loop, history
<1>1. CASE Listen
  BY <1>1 DEF Listen, Goes, Crash
<1>2. CASE Connect
  BY <1>2 DEF Connect, Goes
<1>3. CASE AcceptFails
  BY <1>3 DEF AcceptFails, Goes
<1>4. CASE Copy
  BY <1>4 DEF Copy, Goes, Crash
<1>5. CASE LockCount
  BY <1>5 DEF LockCount, Goes, Lock
<1>6. CASE Count
  BY <1>6 DEF Count, Goes
<1>7. CASE CreateFails
  BY <1>7 DEF CreateFails, Goes
<1>8. CASE Block
  BY <1>8 DEF Block, Goes
<1>9. CASE Unblock
  BY <1>9 DEF Unblock, Goes
<1>10. CASE Loop
  BY <1>10 DEF Loop, Goes
<1>11. ASSUME NEW w \in Workers, Create(w)
      PROVE  WaitersAreWoken'
  BY <1>11 DEF Create
<1>12. ASSUME NEW w \in Workers, Clone(w)
      PROVE  WaitersAreWoken'
  BY <1>12 DEF Clone, Goes, Crash
<1>13. ASSUME NEW w \in Workers, Serve(w)
      PROVE  WaitersAreWoken'
  BY <1>13 DEF Serve, Goes
<1>14. ASSUME NEW w \in Workers, LockLeave(w)
      PROVE  WaitersAreWoken'
  BY <1>14 DEF LockLeave, Goes, Lock
<1>15. ASSUME NEW w \in Workers, Leave(w)
      PROVE  WaitersAreWoken'
  <2>1. at[Main] # "crashed" /\ Alive' = Alive \ {w} /\ w \in Alive
    BY <1>15 DEF Leave, Alive, Waiting, Running
  <2>2. CASE count' # 0
    <3>1. count > 0
      BY <2>1, Counts DEF CountIsExact
    <3>2. QED BY <1>15, <2>2, <3>1 DEF Leave
  <2>3. CASE count' = 0
    <3>1. Cardinality(Alive) = 1
      BY <1>15, <2>1, <2>3, Counts DEF Leave, CountIsExact
    <3>2. Cardinality(Alive \ {w}) = 0
      BY <2>1, <3>1, SubsetCount DEF Alive
    <3>3. Alive \ {w} = {}
      BY <3>2, SubsetCount DEF Alive
    <3>4. Waiting \subseteq {Main}
      BY <1>15, <3>3 DEF Leave, Waiting, Alive
    <3>5. Waiting' = {}
      BY <1>15, <2>3, <3>4 DEF Leave, Waiting
    <3>6. QED BY <3>5 DEF WaitersAreWoken, Waiting
  <2>4. QED BY <2>2, <2>3
<1>16. ASSUME NEW t \in Threads, Signal(t)
      PROVE  WaitersAreWoken'
  BY <1>16 DEF Signal
<1>17. ASSUME NEW t \in Threads, AwaitThreads(t)
      PROVE  WaitersAreWoken'
  BY <1>17 DEF AwaitThreads, Goes
<1>18. ASSUME NEW t \in Threads, Free(t)
      PROVE  WaitersAreWoken'
  BY <1>18 DEF Free, Crash
<1>19. CASE UNCHANGED vars
  BY <1>19 DEF vars
<1>20. QED
  BY <1>1, <1>2, <1>3, <1>4, <1>5, <1>6, <1>7, <1>8, <1>9, <1>10, <1>11, <1>12, <1>13,
      <1>14, <1>15, <1>16, <1>17, <1>18, <1>19
     DEF Next, MainStep, World, WorkerStep, Stopping, Threads

LEMMA CrashStep ==
  ASSUME TypeOK, HandlerInv, FreeInv, PersistenceOutlivesThreads, CrashesAreExcused, [Next]_vars
  PROVE  CrashesAreExcused'
<1> USE ThreadsAssumption DEF TypeOK, HandlerInv, FreeInv, Late, CrashesAreExcused,
    Running, Threads, Handler, MainPlaces, WorkerPlaces, loop, history
<1>1. CASE Listen
  BY <1>1 DEF Listen, Goes, Crash
<1>2. CASE Connect
  BY <1>2 DEF Connect, Goes
<1>3. CASE AcceptFails
  BY <1>3 DEF AcceptFails, Goes
<1>4. CASE Copy
  BY <1>4 DEF Copy, Goes, Crash
<1>5. CASE LockCount
  BY <1>5 DEF LockCount, Goes, Lock
<1>6. CASE Count
  BY <1>6 DEF Count, Goes
<1>7. CASE CreateFails
  BY <1>7 DEF CreateFails, Goes
<1>8. CASE Block
  BY <1>8 DEF Block, Goes
<1>9. CASE Unblock
  BY <1>9 DEF Unblock, Goes
<1>10. CASE Loop
  BY <1>10 DEF Loop, Goes
<1>11. ASSUME NEW w \in Workers, Create(w)
      PROVE  CrashesAreExcused'
  BY <1>11 DEF Create
<1>12. ASSUME NEW w \in Workers, Clone(w)
      PROVE  CrashesAreExcused'
  <2>1. at'[Main] = "crashed" => freed /\ w \in Alive
    BY <1>12 DEF Clone, Goes, Crash, Alive, Running
  <2>2. QED BY <1>12, <2>1 DEF Clone, Goes, Crash, PersistenceOutlivesThreads
<1>13. ASSUME NEW w \in Workers, Serve(w)
      PROVE  CrashesAreExcused'
  BY <1>13 DEF Serve, Goes
<1>14. ASSUME NEW w \in Workers, LockLeave(w)
      PROVE  CrashesAreExcused'
  BY <1>14 DEF LockLeave, Goes, Lock
<1>15. ASSUME NEW w \in Workers, Leave(w)
      PROVE  CrashesAreExcused'
  BY <1>15 DEF Leave, Waiting, Running
<1>16. ASSUME NEW t \in Threads, Signal(t)
      PROVE  CrashesAreExcused'
  BY <1>16 DEF Signal, Running
<1>17. ASSUME NEW t \in Threads, AwaitThreads(t)
      PROVE  CrashesAreExcused'
  BY <1>17 DEF AwaitThreads, Goes
<1>18. ASSUME NEW t \in Threads, Free(t)
      PROVE  CrashesAreExcused'
  BY <1>18 DEF Free, Crash
<1>19. CASE UNCHANGED vars
  BY <1>19 DEF vars
<1>20. QED
  BY <1>1, <1>2, <1>3, <1>4, <1>5, <1>6, <1>7, <1>8, <1>9, <1>10, <1>11, <1>12, <1>13,
      <1>14, <1>15, <1>16, <1>17, <1>18, <1>19
     DEF Next, MainStep, World, WorkerStep, Stopping, Threads

-----------------------------------------------------------------------------
(* The theorems.                                                           *)

LEMMA InitInvs == Init => Invs
<1> SUFFICES ASSUME Init PROVE Invs
  OBVIOUS
<1> USE ThreadsAssumption, BoundsAssumption DEF Init
<1>1. TypeOK
  <2>1. found \subseteq MainPlaces /\ signals \in 0..MaxSignals /\ lost \in Nat
    OBVIOUS
  <2>2. connections \in 0..MaxConnections /\ count \in 0..MaxAlive
    OBVIOUS
  <2>3. listening \in BOOLEAN /\ closed \in BOOLEAN /\ freed \in BOOLEAN
    OBVIOUS
  <2>4. QED BY <2>1, <2>2, <2>3 DEF TypeOK, Threads, Handler, MainPlaces, WorkerPlaces
<1>2. Alive = {} /\ Busy = {} /\ Waiting = {} /\ ~Creating /\ at[Main] = "listen"
  BY DEF Alive, Busy, Waiting, Creating, Threads
<1>3. CountIsExact /\ ConnectedInv
  BY <1>2, FS_EmptySet DEF CountIsExact, ConnectedInv
<1>4. HandlerInv /\ LockInv /\ FreeInv
  BY DEF HandlerInv, LockInv, FreeInv, Threads, Handler, MainPlaces, WorkerPlaces
<1>5. PersistenceOutlivesThreads /\ WaitersAreWoken /\ CrashesAreExcused
  BY <1>2 DEF PersistenceOutlivesThreads, WaitersAreWoken, CrashesAreExcused
<1>6. QED BY <1>1, <1>3, <1>4, <1>5 DEF Invs

LEMMA Invariance == Spec => []Invs
<1>1. Invs /\ [Next]_vars => Invs'
  BY CountStep, ConnectionStep, TypeStep, HandlerStep, LockStep, FreeStep, OutliveStep,
     WaitStep, CrashStep DEF Invs
<1>2. QED BY InitInvs, <1>1, PTL DEF Spec

\* The state has the values it is meant to have: no more threads are counted
\* than MAX_ALIVE_THREADS, nor connections opened than MySQL accepts.
THEOREM Typing == Spec => []TypeOK
BY Invariance, PTL DEF Invs

\* n_alive_threads counts the threads that live, one to be created, and for
\* ever those whose creation failed.
THEOREM Count_Exact == Spec => []CountIsExact
BY Invariance, PTL DEF Invs

\* The persistence is freed after the last thread has ended, unless the signal
\* found main between accept and the count.
THEOREM Outlives == Spec => []PersistenceOutlivesThreads
BY Invariance, PTL DEF Invs

\* The handler waits only while some thread is counted.
THEOREM Woken == Spec => []WaitersAreWoken
BY Invariance, PTL DEF Invs

\* One signal that does not find main on its way to accept or to the count
\* leads to no use of freed memory.
THEOREM Crashes == Spec => []CrashesAreExcused
BY Invariance, PTL DEF Invs

=============================================================================
