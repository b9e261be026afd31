----------------------------- MODULE ServerPool -----------------------------
(***************************************************************************)
(* The threads of the server (server/server.c, server/psd_ims_server.c):   *)
(* main accepts connections and creates a thread for each, the threads     *)
(* serve one request and end, and the signal handler stop_server closes    *)
(* the socket, waits for the threads and frees the persistence, in         *)
(* whichever thread the signal interrupts.                                 *)
(*                                                                         *)
(* What a request does is left to Chats, Delivery and Friendship: here it  *)
(* opens a connection to MySQL, and closes it unless it fails.             *)
(***************************************************************************)
EXTENDS Integers, FiniteSets

CONSTANTS Main, Workers, NoThread,
          MaxAlive,         \* MAX_ALIVE_THREADS
          MaxConnections,   \* connections MySQL accepts
          MaxSignals        \* bound on signals

ASSUME ThreadsAssumption ==
  Main \notin Workers /\ NoThread \notin Workers \cup {Main} /\ IsFiniteSet(Workers)
ASSUME BoundsAssumption ==
  MaxAlive \in Nat \ {0} /\ MaxConnections \in Nat \ {0} /\ MaxSignals \in Nat

VARIABLES
  at,           \* where each thread is
  resume,       \* where a signal interrupted it, "none" if none has
  mutex,        \* the thread that has locked n_threads_mutex
  count,        \* n_alive_threads
  ret,          \* listenner_ret_value
  listening,    \* continue_listening
  closed,       \* the listening socket is closed (soap_done)
  freed,        \* server.persistence is freed
  connections,  \* connections open at MySQL, the server's own first
  \* bounds and history
  signals,      \* signals received
  found,        \* places of main a signal interrupted
  lost          \* threads counted that pthread_create failed to create

loop == <<ret, listening, closed, freed>>
history == <<signals, found, lost>>
vars == <<at, resume, mutex, count, connections, loop, history>>

Threads == Workers \cup {Main}
Handler == {"stop", "waiting", "free"}
MainPlaces == {"listen", "accept", "accepted", "lock", "locked", "create", "returned",
               "blocked", "unblocked", "ended", "crashed"}
WorkerPlaces == {"none", "serving", "running", "leaving", "holding"}

\* Signals are blocked there, or there is nothing to interrupt.
Blocked == {"blocked", "ended", "crashed", "none"} \cup Handler

TypeOK ==
  /\ at \in [Threads -> MainPlaces \cup WorkerPlaces \cup Handler]
  /\ at[Main] \notin WorkerPlaces
  /\ \A w \in Workers : at[w] \notin MainPlaces
  /\ resume \in [Threads -> (MainPlaces \cup WorkerPlaces) \ {"blocked", "ended", "crashed"}]
  /\ mutex \in Threads \cup {NoThread}
  /\ count \in 0..MaxAlive /\ lost \in Nat
  /\ ret \in {0, -1}
  /\ listening \in BOOLEAN /\ closed \in BOOLEAN /\ freed \in BOOLEAN
  /\ connections \in 0..MaxConnections
  /\ signals \in 0..MaxSignals
  /\ found \subseteq MainPlaces

\* After init_server.
Init ==
  /\ at = [t \in Threads |-> IF t = Main THEN "listen" ELSE "none"]
  /\ resume = [t \in Threads |-> "none"]
  /\ mutex = NoThread /\ count = 0
  /\ ret = 0 /\ listening = TRUE /\ closed = FALSE /\ freed = FALSE
  /\ connections = 1
  /\ signals = 0 /\ found = {} /\ lost = 0

-----------------------------------------------------------------------------
Running == at[Main] \notin {"ended", "crashed"}

Goes(t, from, to) == Running /\ at[t] = from /\ at' = [at EXCEPT ![t] = to]

\* The use of freed memory by a thread in a place.
Crash(t, from) == Running /\ at[t] = from /\ freed /\ at' = [at EXCEPT ![Main] = "crashed"]

Lock(t) == mutex = NoThread /\ mutex' = t

-----------------------------------------------------------------------------
(* main and mthread_listen_connection.                                     *)

\* persistence_thread_safe reads server.persistence.
Listen ==
  /\ Goes(Main, "listen", "accept") \/ Crash(Main, "listen")
  /\ UNCHANGED <<resume, mutex, count, connections, loop, history>>

Connect ==
  /\ ~closed
  /\ Goes(Main, "accept", "accepted")
  /\ UNCHANGED <<resume, mutex, count, connections, loop, history>>

\* A time-out, an error, or the socket is closed.
AcceptFails ==
  /\ Goes(Main, "accept", "returned")
  /\ ret' = -1
  /\ UNCHANGED <<resume, mutex, count, connections, listening, closed, freed, history>>

\* persistence_err reads server.persistence, whose connection is used for
\* nothing else and has no error; soap_copy may fail.
Copy ==
  /\ \/ Goes(Main, "accepted", "lock") /\ UNCHANGED ret
     \/ Goes(Main, "accepted", "returned") /\ ret' = -1
     \/ Crash(Main, "accepted") /\ UNCHANGED ret
  /\ UNCHANGED <<resume, mutex, count, connections, listening, closed, freed, history>>

LockCount ==
  /\ Goes(Main, "lock", "locked")
  /\ Lock(Main)
  /\ UNCHANGED <<resume, count, connections, loop, history>>

\* Mutant: one thread more than MAX_ALIVE_THREADS.
Count_OneMore ==
  /\ mutex' = NoThread
  /\ \/ /\ count <= MaxAlive
        /\ Goes(Main, "locked", "create")
        /\ count' = count + 1 /\ UNCHANGED ret
     \/ /\ count > MaxAlive
        /\ Goes(Main, "locked", "returned")
        /\ ret' = -1 /\ UNCHANGED count
  /\ UNCHANGED <<resume, connections, listening, closed, freed, history>>

Count ==
  /\ mutex' = NoThread
  /\ \/ /\ count < MaxAlive
        /\ Goes(Main, "locked", "create")
        /\ count' = count + 1 /\ UNCHANGED ret
     \/ /\ count >= MaxAlive
        /\ Goes(Main, "locked", "returned")
        /\ ret' = -1 /\ UNCHANGED count
  /\ UNCHANGED <<resume, connections, listening, closed, freed, history>>

Create(w) ==
  /\ Running
  /\ at[Main] = "create" /\ at[w] = "none"
  /\ at' = [at EXCEPT ![Main] = "returned", ![w] = "serving"]
  /\ ret' = 0
  /\ UNCHANGED <<resume, mutex, count, connections, listening, closed, freed, history>>

\* pthread_create fails: its result is not looked at.
CreateFails ==
  /\ Goes(Main, "create", "returned")
  /\ ret' = 0 /\ lost' = lost + 1
  /\ UNCHANGED <<resume, mutex, count, connections, listening, closed, freed,
                 signals, found>>

Block ==
  /\ Goes(Main, "returned", "blocked")
  /\ UNCHANGED <<resume, mutex, count, connections, loop, history>>

Unblock ==
  /\ Goes(Main, "blocked", IF listening THEN "unblocked" ELSE "ended")
  /\ UNCHANGED <<resume, mutex, count, connections, loop, history>>

\* Main returns from main(): the process ends, and its threads with it.
Loop ==
  /\ Goes(Main, "unblocked", IF ret = 0 THEN "listen" ELSE "ended")
  /\ UNCHANGED <<resume, mutex, count, connections, loop, history>>

-----------------------------------------------------------------------------
(* thread_serve_request.                                                   *)

\* Mutant: a thread that gets no connection ends without lowering the count.
Clone_Ends(w) ==
  /\ \/ /\ connections < MaxConnections
        /\ Goes(w, "serving", "running")
        /\ connections' = connections + 1
     \/ /\ connections = MaxConnections
        /\ Goes(w, "serving", "none")
        /\ UNCHANGED connections
     \/ Crash(w, "serving") /\ UNCHANGED connections
  /\ UNCHANGED <<resume, mutex, count, loop, history>>

\* clone_persistence, first thing in every request, reads server.persistence.
Clone(w) ==
  /\ \/ /\ connections < MaxConnections
        /\ Goes(w, "serving", "running")
        /\ connections' = connections + 1
     \/ /\ connections = MaxConnections
        /\ Goes(w, "serving", "leaving")
        /\ UNCHANGED connections
     \/ Crash(w, "serving") /\ UNCHANGED connections
  /\ UNCHANGED <<resume, mutex, count, loop, history>>

\* The request succeeds, or returns an error without free_persistence.
Serve(w) ==
  /\ Goes(w, "running", "leaving")
  /\ connections' \in {connections - 1, connections}
  /\ UNCHANGED <<resume, mutex, count, loop, history>>

LockLeave(w) ==
  /\ Goes(w, "leaving", "holding")
  /\ Lock(w)
  /\ UNCHANGED <<resume, count, connections, loop, history>>

Waiting == {t \in Threads : at[t] = "waiting"}

\* Mutant: the last thread signals nobody.
Leave_Silent(w) ==
  /\ Goes(w, "holding", "none")
  /\ mutex' = NoThread /\ count' = count - 1
  /\ UNCHANGED <<resume, connections, loop, history>>

\* The last thread signals zero_alive_threads, and one thread wakes.
Leave(w) ==
  /\ Running /\ at[w] = "holding"
  /\ mutex' = NoThread /\ count' = count - 1
  /\ \/ /\ count' # 0 \/ Waiting = {}
        /\ at' = [at EXCEPT ![w] = "none"]
     \/ /\ count' = 0
        /\ \E t \in Waiting : at' = [at EXCEPT ![w] = "none", ![t] = "stop"]
  /\ UNCHANGED <<resume, connections, loop, history>>

-----------------------------------------------------------------------------
(* stop_server.  A signal that comes while the handler runs in the same    *)
(* thread is left out.                                                     *)

Signal(t) ==
  /\ Running /\ signals < MaxSignals
  /\ at[t] \notin Blocked /\ resume[t] = "none"
  /\ signals' = signals + 1
  /\ found' = IF t = Main THEN found \cup {at[Main]} ELSE found
  /\ resume' = [resume EXCEPT ![t] = at[t]]
  /\ at' = [at EXCEPT ![t] = "stop"]
  /\ closed' = TRUE
  /\ UNCHANGED <<mutex, count, connections, ret, listening, freed, lost>>

\* Mutant: free_server does not wait for the threads.
AwaitThreads_Not(t) ==
  /\ mutex = NoThread
  /\ Goes(t, "stop", "free")
  /\ UNCHANGED <<resume, mutex, count, connections, loop, history>>

\* free_server locks the mutex, and pthread_cond_wait unlocks it.
AwaitThreads(t) ==
  /\ mutex = NoThread
  /\ Goes(t, "stop", IF count > 0 THEN "waiting" ELSE "free")
  /\ UNCHANGED <<resume, mutex, count, connections, loop, history>>

\* free_persistence: what it does the second time is undefined.
Free(t) ==
  /\ \/ /\ Running /\ at[t] = "free"
        /\ at' = [at EXCEPT ![t] = resume[t]]
        /\ resume' = [resume EXCEPT ![t] = "none"]
        /\ freed' = TRUE /\ listening' = FALSE
        /\ connections' = IF freed THEN connections ELSE connections - 1
     \/ /\ Crash(t, "free")
        /\ UNCHANGED <<resume, freed, listening, connections>>
  /\ UNCHANGED <<mutex, count, ret, closed, history>>

-----------------------------------------------------------------------------
Stopping(t) == AwaitThreads(t) \/ Free(t)

\* What main does by itself.
MainStep ==
  \/ Listen \/ Copy \/ LockCount \/ Count \/ CreateFails \/ Block \/ Unblock \/ Loop
  \/ \E w \in Workers : Create(w)
  \/ closed /\ AcceptFails
  \/ Stopping(Main)

WorkerStep(w) == Clone(w) \/ Serve(w) \/ LockLeave(w) \/ Leave(w) \/ Stopping(w)

World == Connect \/ AcceptFails \/ \E t \in Threads : Signal(t)

Next == MainStep \/ World \/ \E w \in Workers : WorkerStep(w)

Spec == Init /\ [][Next]_vars

\* The threads run, and requests end: their socket times out after a minute.
FairSpec == Spec /\ WF_vars(MainStep) /\ \A w \in Workers : WF_vars(WorkerStep(w))

-----------------------------------------------------------------------------
(* Properties.                                                             *)

Alive == {w \in Workers : at[w] # "none"}
Creating == "create" \in {at[Main], resume[Main]}

\* free_server waits for n_alive_threads to be 0: it counts the threads that
\* live, the one main is about to create, and for ever those that
\* pthread_create did not create.
CountIsExact ==
  at[Main] # "crashed" =>
    count = Cardinality(Alive) + lost + (IF Creating THEN 1 ELSE 0)

\* No thread outlives the persistence that requests clone, and so no request
\* is cut by a stop, unless the signal found main between the acceptance of a
\* connection and the counting of its thread.
Late == found \cap {"accepted", "lock"} # {}
PersistenceOutlivesThreads == freed /\ Alive # {} => Late

\* No lost wake-up: the handler waits only while a thread is counted.
WaitersAreWoken == Running => \A t \in Waiting : count > 0

\* Freed memory is used only if the signal found main late, or on its way to
\* accept, or if a second signal came.
CrashesAreExcused ==
  at[Main] = "crashed" => Late \/ found \cap {"listen", "unblocked"} # {} \/ signals > 1

\* The handler and the server end, if a single signal comes while main is not
\* between the locking of the mutex and pthread_create, and no creation has
\* failed.
StopEnds ==
  (at[Main] \in Handler /\ signals = 1 /\ lost = 0 /\ resume[Main] \notin {"locked", "create"})
    ~> (~Running \/ signals > 1)
=============================================================================
