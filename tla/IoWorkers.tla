----------------------------- MODULE IoWorkers -----------------------------
(***************************************************************************)
(* Blocking host calls of guest threads and the host threads that run      *)
(* them: PostHostCall and the I/O workers of guest_scheduler.cc,           *)
(* KernelState::RunBlockingIo, and the asynchronous requests of XFile.     *)
(*                                                                         *)
(* A guest thread never blocks its dispatch thread in a host call.  It     *)
(* posts the call, to one serial worker or to a pool that grows, and parks *)
(* until the call says it is done; or, for an asynchronous request, it     *)
(* queues the request on its file, whose requests one posted call runs in  *)
(* order.  Shutdown stops the workers, drops what no worker has taken and  *)
(* then frees the stacks of the parked fibers, into which calls write.     *)
(***************************************************************************)
EXTENDS Integers, Sequences, FiniteSets

CONSTANTS
  Threads,    \* guest threads
  Files,
  Workers,    \* pool workers
  Serial,     \* the one worker of the other calls
  Events,     \* completion events of RunBlockingIo
  MaxPosts,   \* bound on the requests queued on a file
  Plans,      \* what a title does, of which a behaviour picks one:
              \*   callers     threads that make synchronous requests
              \*   posters     those that queue asynchronous ones and cancel
              \*   concurrent  files whose device allows concurrent calls
              \*   alerts      user APCs come
              \*   ends        Shutdown comes
              \*   pool        workers the pool grows to, kMaxIoPoolThreads
  None

ASSUME IoAssumption ==
  /\ Plans \subseteq [callers : SUBSET Threads, posters : SUBSET Threads,
                      concurrent : SUBSET Files, alerts : BOOLEAN,
                      ends : BOOLEAN, pool : SUBSET Workers]
  /\ Serial \notin Workers /\ Threads \cap (Workers \cup {Serial}) = {}
  /\ Threads \cap Files = {} /\ None \notin Threads \cup Files \cup Workers
  /\ IsFiniteSet(Threads) /\ IsFiniteSet(Workers) /\ IsFiniteSet(Events)
  /\ Cardinality(Events) >= Cardinality(Threads)
  /\ MaxPosts \in Nat \ {0}

Hosts     == Workers \cup {Serial}
Executors == Hosts \cup Threads

(* A call is named by the thread that waits for it or, if it runs the      *)
(* queued requests of a file, by the file.                                 *)
Calls == Threads \cup Files

VARIABLES
  plan,        \* which of Plans
  serialQueue, \* io_queue_
  poolQueue,   \* io_pool_queue_
  ioEvent,     \* io_event_ is set
  poolLock,    \* the worker that holds io_pool_lock_ between two steps
  wpc,         \* where each host thread is in its loop
  doing,       \* the call each executor is in
  step,        \* where it is in the call
  carried,     \* the event captured by the call
  posted,      \* posted_ of each file: the issuers, in order
  postedRunning, runningThread, \* posted_running_ and posted_running_thread_
  pc,          \* where each guest thread is
  request,     \* the file of its request
  eventOf,     \* the event of its request
  idle,        \* idle_io_events_ and those not yet created
  armed,       \* the events that are set
  done,        \* threads whose |done| is set
  halted,      \* threads whose dispatch thread has ended
  phase        \* where Shutdown is

queueVars == <<serialQueue, poolQueue>>
hostVars  == <<ioEvent, poolLock, wpc>>
execVars  == <<doing, step, carried>>
fileVars  == <<posted, postedRunning, runningThread>>
callVars  == <<request, eventOf, idle>>
vars == <<plan, queueVars, hostVars, execVars, fileVars, pc, callVars, armed, done,
          halted, phase>>

HostPcs   == {"none", "top", "look", "empty", "sleep", "run", "ended"}
Steps     == {"none", "fn", "done", "signal", "loop", "request"}
ThreadPcs == {"out", "post", "postFile", "notify", "notifyFile", "inline", "inlineFile",
              "test", "sleeping", "release", "cancelling"}
Phases    == {"up", "stopping", "nudged", "joining", "joined", "stopped"}

Init ==
  /\ plan \in Plans
  /\ serialQueue = <<>> /\ poolQueue = <<>> /\ ioEvent = FALSE /\ poolLock = None
  /\ wpc = [w \in Hosts |-> "none"]
  /\ doing = [e \in Executors |-> None]
  /\ step = [e \in Executors |-> "none"]
  /\ carried = [e \in Executors |-> None]
  /\ posted = [f \in Files |-> <<>>]
  /\ postedRunning = {} /\ runningThread = [f \in Files |-> None]
  /\ pc = [t \in Threads |-> "out"]
  /\ request = [t \in Threads |-> None] /\ eventOf = [t \in Threads |-> None]
  /\ idle = Events /\ armed = {} /\ done = {} /\ halted = {} /\ phase = "up"

ShuttingDown == phase # "up"

Goes(t, from, to) ==
  /\ t \notin halted /\ pc[t] = from
  /\ pc' = [pc EXCEPT ![t] = to]

WorkerGoes(w, from, to) == wpc[w] = from /\ wpc' = [wpc EXCEPT ![w] = to]

-----------------------------------------------------------------------------
(* Posting a call                                                          *)

(* RunBlockingIo takes an event from the pool, armed if its last user left *)
(* before the completion came.                                             *)
RunBlockingIo(t, f) ==
  /\ t \in plan.callers /\ Goes(t, "out", "post")
  /\ request' = [request EXCEPT ![t] = f]
  /\ \E e \in idle : eventOf' = [eventOf EXCEPT ![t] = e] /\ idle' = idle \ {e}
  /\ done' = done \ {t}
  /\ UNCHANGED <<plan, queueVars, hostVars, execVars, fileVars, armed, halted,
                 phase>>

(* XFile::PostIo posts a call only if the file has none.  Mutant: forgets  *)
(* to say that it has.                                                     *)
MarksNothing(f) == postedRunning
Marks(f)        == postedRunning \cup {f}

PostIo(t, f) ==
  /\ t \in plan.posters /\ Len(posted[f]) < MaxPosts
  /\ Goes(t, "out", IF f \in postedRunning THEN "out" ELSE "postFile")
  /\ posted' = [posted EXCEPT ![f] = Append(@, t)]
  /\ postedRunning' = Marks(f)
  /\ request' = [request EXCEPT ![t] = IF f \in postedRunning THEN None ELSE f]
  /\ UNCHANGED <<plan, queueVars, hostVars, execVars, runningThread, eventOf,
                 idle, armed, done, halted, phase>>

Starts(e, call) ==
  /\ doing' = [doing EXCEPT ![e] = call]
  /\ step' = [step EXCEPT ![e] = IF call \in Threads THEN "fn" ELSE "loop"]
  /\ carried' = [carried EXCEPT ![e] = IF call \in Threads THEN eventOf[call] ELSE None]

Sleepers == {w \in Workers : wpc[w] = "sleep"}
Busy     == {w \in Workers : wpc[w] = "run"}
Started  == {w \in Workers : wpc[w] # "none"}

(* The pool grows when its queued and its running calls outnumber it.      *)
(* Mutant: counts the running ones alone.                                  *)
BusyAlone(queue)     == Cardinality(Busy) > Cardinality(Started)
Outnumbered(queue)   == Cardinality(Busy) + Len(queue) > Cardinality(Started)

StartPoolWorker(queue) ==
  IF Outnumbered(queue) /\ Started # plan.pool
  THEN WorkerGoes(CHOOSE w \in plan.pool \ Started : TRUE, "none", "top")
  ELSE UNCHANGED wpc

EnsureIoWorker ==
  wpc' = [wpc EXCEPT ![Serial] = IF @ = "none" THEN "top" ELSE @]

(* EnqueueBlockingCall and EnqueuePoolCall under their locks.  Once        *)
(* shutdown has begun the caller runs the call itself.                     *)
Enqueue(t, call, from, queued, inline) ==
  /\ IF request[t] \in plan.concurrent
     THEN /\ poolLock = None
          /\ IF ShuttingDown
             THEN UNCHANGED <<poolQueue, wpc>>
             ELSE poolQueue' = Append(poolQueue, call) /\ StartPoolWorker(poolQueue')
          /\ UNCHANGED serialQueue
     ELSE /\ EnsureIoWorker
          /\ serialQueue' = IF ShuttingDown THEN serialQueue ELSE Append(serialQueue, call)
          /\ UNCHANGED poolQueue
  /\ IF ShuttingDown
     THEN Goes(t, from, inline) /\ Starts(t, call)
     ELSE Goes(t, from, queued) /\ UNCHANGED execVars
  /\ UNCHANGED <<plan, ioEvent, poolLock, fileVars, callVars, armed, done,
                 halted, phase>>

PostHostCall(t) ==
  \/ Enqueue(t, t, "post", "notify", "inline")
  \/ Enqueue(t, request[t], "postFile", "notifyFile", "inlineFile")

(* The event of the serial worker, or the condition of the pool, is set    *)
(* after the lock is dropped.                                              *)
Notify(t) ==
  /\ Goes(t, "notify", "test") \/ Goes(t, "notifyFile", "out")
  /\ IF request[t] \in plan.concurrent
     THEN /\ \/ \E w \in Sleepers : WorkerGoes(w, "sleep", "top")
             \/ Sleepers = {} /\ UNCHANGED wpc
          /\ UNCHANGED ioEvent
     ELSE ioEvent' = TRUE /\ UNCHANGED wpc
  /\ UNCHANGED <<plan, queueVars, poolLock, execVars, fileVars, callVars,
                 armed, done, halted, phase>>

-----------------------------------------------------------------------------
(* Waiting for a call, and cancelling requests                             *)

TestDone(t) ==
  /\ Goes(t, "test", IF t \in done THEN "release" ELSE "sleeping")
  /\ UNCHANGED <<plan, queueVars, hostVars, execVars, fileVars, callVars,
                 armed, done, halted, phase>>

(* Only |done| ends the wait.  Mutant: so does the event.                  *)
OnceAwake == "release"
Awake     == "test"

WakesUp(t) ==
  /\ eventOf[t] \in armed
  /\ Goes(t, "sleeping", Awake)
  /\ armed' = armed \ {eventOf[t]}
  /\ UNCHANGED <<plan, queueVars, hostVars, execVars, fileVars, callVars, done,
                 halted, phase>>

(* A user APC ends the wait for the event, not the loop around it.         *)
Alerted(t) ==
  /\ plan.alerts
  /\ Goes(t, "sleeping", "test")
  /\ UNCHANGED <<plan, queueVars, hostVars, execVars, fileVars, callVars,
                 armed, done, halted, phase>>

ReleaseIoEvent(t) ==
  /\ Goes(t, "release", "out")
  /\ armed' = armed \ {eventOf[t]}
  /\ idle' = idle \cup {eventOf[t]}
  /\ eventOf' = [eventOf EXCEPT ![t] = None]
  /\ request' = [request EXCEPT ![t] = None]
  /\ UNCHANGED <<plan, queueVars, hostVars, execVars, fileVars, done, halted,
                 phase>>

(* HasPostedIo, of which the search of the queue has a name of its own.    *)
HasQueued(t, f) == \E i \in DOMAIN posted[f] : posted[f][i] = t
HasPostedIo(t, f) == runningThread[f] = t \/ HasQueued(t, f)

(* NtCancelIoFile completes what the thread has queued on the file, and    *)
(* polls until the one request running, if its own, has completed.         *)
CancelPostedIo(t, f) ==
  /\ t \in plan.posters /\ Goes(t, "out", "cancelling")
  /\ posted' = IF HasQueued(t, f)
               THEN [posted EXCEPT ![f] = SelectSeq(@, LAMBDA u : u # t)]
               ELSE posted
  /\ request' = [request EXCEPT ![t] = f]
  /\ UNCHANGED <<plan, queueVars, hostVars, execVars, postedRunning,
                 runningThread, eventOf, idle, armed, done, halted, phase>>

CancelReturns(t) ==
  /\ Goes(t, "cancelling", "out")
  /\ ~HasPostedIo(t, request[t])
  /\ UNCHANGED <<plan, queueVars, hostVars, execVars, fileVars, callVars,
                 armed, done, halted, phase>>

-----------------------------------------------------------------------------
(* Workers                                                                 *)

(* The head of each loop.  A pool worker holds the lock from here until it *)
(* takes a call or waits, and has the lock back when either is over.       *)
PoolLoop(w) ==
  /\ poolLock = None
  /\ WorkerGoes(w, "top", IF ShuttingDown THEN "ended" ELSE "look")
  /\ poolLock' = IF ShuttingDown THEN None ELSE w
  /\ UNCHANGED <<plan, queueVars, ioEvent, execVars, fileVars, pc, callVars,
                 armed, done, halted, phase>>

PoolTakes(w) ==
  /\ poolQueue # <<>> /\ WorkerGoes(w, "look", "run")
  /\ Starts(w, Head(poolQueue))
  /\ poolQueue' = Tail(poolQueue) /\ poolLock' = None
  /\ UNCHANGED <<plan, serialQueue, ioEvent, fileVars, pc, callVars, armed,
                 done, halted, phase>>

PoolWaits(w) ==
  /\ poolQueue = <<>> /\ WorkerGoes(w, "look", "sleep")
  /\ poolLock' = None
  /\ UNCHANGED <<plan, queueVars, ioEvent, execVars, fileVars, pc, callVars,
                 armed, done, halted, phase>>

SerialLoop ==
  /\ WorkerGoes(Serial, "top", IF ShuttingDown THEN "ended" ELSE "look")
  /\ UNCHANGED <<plan, queueVars, ioEvent, poolLock, execVars, fileVars, pc,
                 callVars, armed, done, halted, phase>>

SerialTakes ==
  /\ serialQueue # <<>> /\ WorkerGoes(Serial, "look", "run")
  /\ Starts(Serial, Head(serialQueue))
  /\ serialQueue' = Tail(serialQueue)
  /\ UNCHANGED <<plan, poolQueue, ioEvent, poolLock, fileVars, pc, callVars,
                 armed, done, halted, phase>>

(* The event stays set from a call posted since the queue was looked at.   *)
SerialWaits ==
  /\ \/ serialQueue = <<>> /\ WorkerGoes(Serial, "look", "empty") /\ UNCHANGED ioEvent
     \/ WorkerGoes(Serial, "empty", "sleep") /\ UNCHANGED ioEvent
     \/ ioEvent /\ WorkerGoes(Serial, "sleep", "top") /\ ioEvent' = FALSE
  /\ UNCHANGED <<plan, queueVars, poolLock, execVars, fileVars, pc, callVars,
                 armed, done, halted, phase>>

-----------------------------------------------------------------------------
(* Running a call, on a worker or inline                                   *)

Ends(e) ==
  /\ doing' = [doing EXCEPT ![e] = None]
  /\ step' = [step EXCEPT ![e] = "none"]
  /\ carried' = [carried EXCEPT ![e] = None]
  /\ IF e \in Hosts
     THEN WorkerGoes(e, "run", "top") /\ UNCHANGED pc
     ELSE /\ Goes(e, "inline", "test") \/ Goes(e, "inlineFile", "out")
          /\ UNCHANGED wpc

(* The call of RunBlockingIo says that it is done, then signals.  Mutant:  *)
(* the other way round.                                                    *)
SignalFirst == <<"signal", "done">>
DoneFirst   == <<"done", "signal">>

Then(e, now) ==
  IF DoneFirst[2] = now THEN Ends(e)
  ELSE /\ step' = [step EXCEPT ![e] = DoneFirst[2]]
       /\ UNCHANGED <<doing, carried, wpc, pc>>

RunFn(e) ==
  /\ step[e] = "fn" /\ step' = [step EXCEPT ![e] = DoneFirst[1]]
  /\ UNCHANGED <<plan, queueVars, hostVars, doing, carried, fileVars, pc,
                 callVars, armed, done, halted, phase>>

StoreDone(e) ==
  /\ step[e] = "done" /\ Then(e, "done")
  /\ done' = done \cup {doing[e]}
  /\ UNCHANGED <<plan, queueVars, ioEvent, poolLock, fileVars, callVars, armed,
                 halted, phase>>

SignalDone(e) ==
  /\ step[e] = "signal" /\ Then(e, "signal")
  /\ armed' = armed \cup {carried[e]}
  /\ UNCHANGED <<plan, queueVars, ioEvent, poolLock, fileVars, callVars, done,
                 halted, phase>>

(* RunPostedIo: between two requests the lock of the file is held.         *)
NextRequest(e) ==
  /\ step[e] \in {"loop", "request"}
  /\ LET f == doing[e]
     IN  /\ posted[f] # <<>>
         /\ posted' = [posted EXCEPT ![f] = Tail(@)]
         /\ runningThread' = [runningThread EXCEPT ![f] = Head(posted[f])]
  /\ step' = [step EXCEPT ![e] = "request"]
  /\ UNCHANGED <<plan, queueVars, hostVars, doing, carried, postedRunning, pc,
                 callVars, armed, done, halted, phase>>

NoMoreRequests(e) ==
  /\ step[e] \in {"loop", "request"}
  /\ LET f == doing[e]
     IN  /\ posted[f] = <<>>
         /\ postedRunning' = postedRunning \ {f}
         /\ runningThread' = [runningThread EXCEPT ![f] = None]
  /\ Ends(e)
  /\ UNCHANGED <<plan, queueVars, ioEvent, poolLock, posted, callVars, armed,
                 done, halted, phase>>

-----------------------------------------------------------------------------
(* Shutdown                                                                *)

ShutdownGoes(from, to) == phase = from /\ phase' = to

ShutdownBegins ==
  /\ plan.ends /\ ShutdownGoes("up", "stopping")
  /\ UNCHANGED <<plan, queueVars, hostVars, execVars, fileVars, pc, callVars,
                 armed, done, halted>>

NudgeSerial ==
  /\ ShutdownGoes("stopping", "nudged")
  /\ ioEvent' = (ioEvent \/ wpc[Serial] # "none")
  /\ UNCHANGED <<plan, queueVars, poolLock, wpc, execVars, fileVars, pc,
                 callVars, armed, done, halted>>

(* The pool is notified under its lock, as a worker may have looked at     *)
(* shutting_down_ and not be waiting yet.  Mutant: a bare notify.          *)
Bare       == TRUE
UnderLock  == poolLock = None

NudgePool ==
  /\ ShutdownGoes("nudged", "joining") /\ UnderLock
  /\ wpc' = [w \in Hosts |-> IF w \in Sleepers THEN "top" ELSE wpc[w]]
  /\ UNCHANGED <<plan, queueVars, ioEvent, poolLock, execVars, fileVars, pc,
                 callVars, armed, done, halted>>

(* The dispatch thread of a guest thread ends once the thread is parked or *)
(* preempted, which it is not inside these calls.                          *)
Halt(t) ==
  /\ ShuttingDown /\ t \notin halted
  /\ pc[t] \in {"out", "sleeping", "cancelling"}
  /\ halted' = halted \cup {t}
  /\ UNCHANGED <<plan, queueVars, hostVars, execVars, fileVars, pc, callVars,
                 armed, done, phase>>

JoinDispatch ==
  /\ halted = Threads /\ ShutdownGoes("joining", "joined")
  /\ UNCHANGED <<plan, queueVars, hostVars, execVars, fileVars, pc, callVars,
                 armed, done, halted>>

(* The queues are dropped once no worker is left, and then the fibers are  *)
(* reclaimed.  Mutant: waits for the serial worker alone.                  *)
SerialJoined  == wpc[Serial] \in {"none", "ended"}
WorkersJoined == \A w \in Hosts : wpc[w] \in {"none", "ended"}

JoinWorkers ==
  /\ WorkersJoined /\ ShutdownGoes("joined", "stopped")
  /\ serialQueue' = <<>> /\ poolQueue' = <<>>
  /\ UNCHANGED <<plan, hostVars, execVars, fileVars, pc, callVars, armed, done,
                 halted>>

-----------------------------------------------------------------------------
ThreadActs(t) ==
  \/ PostHostCall(t) \/ Notify(t) \/ TestDone(t) \/ WakesUp(t) \/ ReleaseIoEvent(t)

Executes(e) ==
  \/ RunFn(e) \/ StoreDone(e) \/ SignalDone(e) \/ NextRequest(e) \/ NoMoreRequests(e)

PoolActs(w) == PoolLoop(w) \/ PoolTakes(w) \/ PoolWaits(w)
SerialActs  == SerialLoop \/ SerialTakes \/ SerialWaits

Shutdown == NudgeSerial \/ NudgePool \/ JoinDispatch \/ JoinWorkers

Next ==
  \/ \E t \in Threads, f \in Files :
       RunBlockingIo(t, f) \/ PostIo(t, f) \/ CancelPostedIo(t, f)
  \/ \E t \in Threads : ThreadActs(t) \/ Alerted(t) \/ CancelReturns(t) \/ Halt(t)
  \/ \E w \in Workers : PoolActs(w)
  \/ SerialActs
  \/ \E e \in Executors : Executes(e)
  \/ ShutdownBegins \/ Shutdown

Spec == Init /\ [][Next]_vars

(* Guest threads, workers and Shutdown run, host calls end, and the flag   *)
(* that Shutdown keeps raising stops the guest threads at their safepoints *)
(* (each stops once, so one condition does for all).                       *)
FairSpec ==
  /\ Spec
  /\ \A t \in Threads : WF_vars(ThreadActs(t))
  /\ SF_vars(\E t \in Threads : Halt(t))
  /\ \A w \in Workers : WF_vars(PoolActs(w))
  /\ WF_vars(SerialActs)
  /\ \A e \in Executors : WF_vars(Executes(e))
  /\ WF_vars(Shutdown)

-----------------------------------------------------------------------------
(* Properties                                                              *)

(* Every variable keeps to its values.                                     *)
TypeOK ==
  /\ serialQueue \in Seq(Calls) /\ poolQueue \in Seq(Calls)
  /\ ioEvent \in BOOLEAN /\ poolLock \in Workers \cup {None}
  /\ wpc \in [Hosts -> HostPcs]
  /\ doing \in [Executors -> Calls \cup {None}]
  /\ step \in [Executors -> Steps]
  /\ carried \in [Executors -> Events \cup {None}]
  /\ posted \in [Files -> Seq(Threads)]
  /\ postedRunning \subseteq Files
  /\ runningThread \in [Files -> Threads \cup {None}]
  /\ pc \in [Threads -> ThreadPcs]
  /\ request \in [Threads -> Files \cup {None}]
  /\ eventOf \in [Threads -> Events \cup {None}]
  /\ idle \subseteq Events /\ armed \subseteq Events
  /\ done \subseteq Threads /\ halted \subseteq Threads
  /\ phase \in Phases

Occurs(call, queue) == {i \in DOMAIN queue : queue[i] = call}

(* A call of RunBlockingIo writes into the stack of the thread that posted *)
(* it, which is still in that wait: not only until the thread leaves it,   *)
(* but until Shutdown has freed the stack of a parked one.                 *)
FrameOutlivesCall ==
  /\ \A t \in Threads :
       \/ Occurs(t, serialQueue) \cup Occurs(t, poolQueue) # {}
       \/ \E e \in Executors : doing[e] = t /\ step[e] \in {"fn", "done"}
       => pc[t] \in {"notify", "inline", "test", "sleeping"}
  /\ phase = "stopped" => \A e \in Executors : step[e] = "none"

(* The requests of a file are run by one call at a time, so in order, and  *)
(* a file with requests has one: posted, queued or running.                *)
Places(f) ==
  Cardinality(Occurs(f, serialQueue)) + Cardinality(Occurs(f, poolQueue))
  + Cardinality({e \in Executors : doing[e] = f})
  + Cardinality({t \in Threads : pc[t] = "postFile" /\ request[t] = f})

OneRunnerPerFile ==
  phase # "stopped" =>
    \A f \in Files : /\ Places(f) = IF f \in postedRunning THEN 1 ELSE 0
                     /\ posted[f] # <<>> => f \in postedRunning

(* guest_scheduler.h, PostHostCall: the pool is there "so one slow call    *)
(* cannot hold up the rest".  Unless the pool is full, there is a worker   *)
(* for every call that is queued.                                          *)
NoCallHeldUp ==
  ~ShuttingDown /\ Started # plan.pool =>
    Len(poolQueue) <= Cardinality(Started) - Cardinality(Busy)

(* A guest thread that waits for a call goes on in the end, unless a file  *)
(* whose requests never end keeps a worker to itself.                      *)
CallsComplete ==
  \/ \E f \in Files : <>[](f \in postedRunning)
  \/ \A t \in Threads : pc[t] = "sleeping" ~> pc[t] = "out" \/ ShuttingDown

(* Shutdown joins every worker, wherever it is in its loop.                *)
ShutdownEnds == phase = "stopping" ~> phase = "stopped"

=============================================================================
