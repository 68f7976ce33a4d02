-------------------------- MODULE IoWorkersProofs --------------------------
(***************************************************************************)
(* Proofs that a posted call is in one place at a time, for any number of  *)
(* guest threads, files and workers: so the stack it writes into is there, *)
(* the requests of a file have one runner, and the pool has a worker for   *)
(* every call that is queued.                                              *)
(*                                                                         *)
(* A call is placed while it is queued or an executor has not yet said     *)
(* that it is done.  The invariant says that it is so at most once, and    *)
(* relates that to where the thread that posted it is or, for the call of  *)
(* a file, to posted_running_.                                             *)
(***************************************************************************)
EXTENDS IoWorkers, FiniteSetTheorems, TLAPS

(* A queue has a call, and has none twice.                                  *)
In(call, queue) == \E i \in DOMAIN queue : queue[i] = call
Distinct(queue) == \A i, j \in DOMAIN queue : queue[i] = queue[j] => i = j

Queued(call)    == In(call, serialQueue) \/ In(call, poolQueue)
Live(e, call)   == doing[e] = call /\ step[e] # "signal"
Placed(call)    == Queued(call) \/ \E e \in Executors : Live(e, call)
Posting(t, f)   == pc[t] = "postFile" /\ request[t] = f

(* The types, but for the requests queued on a file.                       *)
Typed ==
  /\ plan \in Plans
  /\ serialQueue \in Seq(Calls) /\ poolQueue \in Seq(Calls)
  /\ ioEvent \in BOOLEAN /\ poolLock \in Workers \cup {None}
  /\ wpc \in [Hosts -> HostPcs]
  /\ doing \in [Executors -> Calls \cup {None}]
  /\ step \in [Executors -> Steps]
  /\ carried \in [Executors -> Events \cup {None}]
  /\ DOMAIN posted = Files
  /\ postedRunning \subseteq Files
  /\ pc \in [Threads -> ThreadPcs]
  /\ request \in [Threads -> Files \cup {None}]
  /\ eventOf \in [Threads -> Events \cup {None}]
  /\ idle \subseteq Events /\ done \subseteq Threads /\ halted \subseteq Threads
  /\ phase \in Phases

(* Where a thread holds the event of its call.                              *)
WaitPcs == {"post", "notify", "inline", "test", "sleeping", "release"}

(* An executor is in a call exactly where its own state says so.           *)
StepsFit ==
  /\ \A e \in Executors :
       /\ step[e] = "none" => doing[e] = None
       /\ step[e] \in {"fn", "done", "signal"} => doing[e] \in Threads
       /\ step[e] \in {"loop", "request"} => doing[e] \in Files
  /\ \A w \in Hosts : step[w] # "none" <=> wpc[w] = "run"
  /\ \A t \in Threads :
       /\ step[t] # "none" <=> pc[t] \in {"inline", "inlineFile"}
       /\ pc[t] = "inlineFile" => step[t] \in {"loop", "request"}
       /\ pc[t] = "inline" => step[t] \in {"fn", "done", "signal"} /\ doing[t] = t
       /\ pc[t] = "postFile" => request[t] \in Files
       /\ pc[t] \in WaitPcs => eventOf[t] \in Events

(* Threads halt outside these calls, and Shutdown waits for all of them,   *)
(* then for the workers.                                                   *)
PhasesFit ==
  /\ \A t \in halted : pc[t] \in {"out", "sleeping", "cancelling"}
  /\ phase \in {"joined", "stopped"} => halted = Threads
  /\ phase = "stopped" => WorkersJoined

(* No call is queued twice, in both queues, queued and executed, or         *)
(* executed by two.                                                         *)
OnePlace ==
  /\ Distinct(serialQueue) /\ Distinct(poolQueue)
  /\ \A c \in Calls : ~(In(c, serialQueue) /\ In(c, poolQueue))
  /\ \A c \in Calls, e \in Executors : Live(e, c) => ~Queued(c)
  /\ \A c \in Calls, d, e \in Executors : Live(d, c) /\ Live(e, c) => d = e

(* A thread stays where it is as long as its call is placed.               *)
FramesHold ==
  \A t \in Threads :
    /\ Placed(t) => pc[t] \in {"notify", "inline", "test", "sleeping"} /\ t \notin done
    /\ pc[t] = "post" => t \notin done

(* posted_running_ says that the call of the file is placed, or about to.  *)
FilesHold ==
  \A f \in Files :
    /\ Placed(f) => f \in postedRunning /\ \A t \in Threads : ~Posting(t, f)
    /\ \A t \in Threads : Posting(t, f) =>
         f \in postedRunning /\ \A u \in Threads : Posting(u, f) => u = t
    /\ f \in postedRunning /\ phase # "stopped" =>
         Placed(f) \/ \E t \in Threads : Posting(t, f)
    /\ posted[f] # <<>> => f \in postedRunning

(* The workers started are those of the pool, and as many as the queue      *)
(* needs.                                                                   *)
PoolHolds == Started \subseteq plan.pool /\ NoCallHeldUp

(* The inductive invariant.                                                 *)
IInv == /\ Typed /\ StepsFit /\ PhasesFit /\ OnePlace /\ FramesHold /\ FilesHold
        /\ PoolHolds


-----------------------------------------------------------------------------
(* What a plan says.                                                       *)
LEMMA PlanIs ==
  ASSUME IInv
  PROVE  /\ plan.callers \subseteq Threads /\ plan.posters \subseteq Threads
         /\ plan.concurrent \subseteq Files /\ plan.pool \subseteq Workers
         /\ Serial \notin Workers /\ Threads \cap (Workers \cup {Serial}) = {}
         /\ Threads \cap Files = {} /\ None \notin Threads \cup Files \cup Workers
BY IoAssumption DEF IInv, Typed

(* Queues whose calls are distinct.                                        *)
LEMMA AppendIs ==
  ASSUME NEW q \in Seq(Calls), NEW c \in Calls
  PROVE  /\ Append(q, c) \in Seq(Calls)
         /\ \A x : In(x, Append(q, c)) <=> In(x, q) \/ x = c
         /\ Distinct(q) /\ ~In(c, q) => Distinct(Append(q, c))
<1>1. /\ Append(q, c) \in Seq(Calls) /\ Len(q) \in Nat
      /\ DOMAIN q = 1 .. Len(q) /\ DOMAIN Append(q, c) = 1 .. Len(q) + 1
      /\ \A i \in 1 .. Len(q) : Append(q, c)[i] = q[i]
      /\ Append(q, c)[Len(q) + 1] = c
  OBVIOUS
<1>2. \A i \in DOMAIN Append(q, c) : i \in DOMAIN q \/ i = Len(q) + 1
  BY <1>1
<1>3. \A x : In(x, Append(q, c)) <=> In(x, q) \/ x = c
  BY <1>1, <1>2 DEF In
<1>4. ASSUME Distinct(q), ~In(c, q) PROVE Distinct(Append(q, c))
  BY <1>1, <1>2, <1>4 DEF In, Distinct
<1> QED BY <1>1, <1>3, <1>4

(* What is left of such a queue when its first call is taken.               *)
LEMMA TailIs ==
  ASSUME NEW q \in Seq(Calls), q # <<>>, Distinct(q)
  PROVE  /\ Head(q) \in Calls /\ Tail(q) \in Seq(Calls) /\ In(Head(q), q)
         /\ \A x : In(x, Tail(q)) <=> In(x, q) /\ x # Head(q)
         /\ Distinct(Tail(q))
<1>1. /\ Tail(q) \in Seq(Calls) /\ Len(q) \in Nat \ {0} /\ Head(q) = q[1] /\ q[1] \in Calls
      /\ DOMAIN q = 1 .. Len(q) /\ DOMAIN Tail(q) = 1 .. Len(q) - 1
      /\ \A i \in 1 .. Len(q) - 1 : Tail(q)[i] = q[i + 1]
  OBVIOUS
<1>2. 1 \in DOMAIN q
  BY <1>1
<1>3. ASSUME NEW x, In(x, Tail(q)) PROVE In(x, q) /\ x # Head(q)
  <2>1. PICK i \in 1 .. Len(q) - 1 : Tail(q)[i] = x
    BY <1>1, <1>3 DEF In
  <2>2. i + 1 \in DOMAIN q /\ i + 1 # 1 /\ q[i + 1] = x
    BY <1>1, <2>1
  <2> QED BY <1>1, <1>2, <2>2 DEF In, Distinct
<1>4. ASSUME NEW x, In(x, q), x # Head(q) PROVE In(x, Tail(q))
  <2>1. PICK i \in DOMAIN q : q[i] = x
    BY <1>4 DEF In
  <2>2. i # 1
    BY <1>1, <1>4, <2>1
  <2>3. i - 1 \in DOMAIN Tail(q) /\ Tail(q)[i - 1] = x
    BY <1>1, <2>1, <2>2
  <2> QED BY <2>3 DEF In
<1>5. Distinct(Tail(q))
  <2> SUFFICES ASSUME NEW i \in DOMAIN Tail(q), NEW j \in DOMAIN Tail(q), Tail(q)[i] = Tail(q)[j]
               PROVE  i = j
    BY DEF Distinct
  <2>1. i + 1 \in DOMAIN q /\ j + 1 \in DOMAIN q /\ q[i + 1] = q[j + 1]
    BY <1>1
  <2>2. i + 1 = j + 1
    BY <2>1 DEF Distinct
  <2> QED BY <1>1, <2>2
<1> QED BY <1>1, <1>2, <1>3, <1>4, <1>5 DEF In

(* What posting a call does: it is queued, or run inline.                  *)
Posts(t, call, from, queued, inline) ==
  /\ pc[t] = from /\ t \notin halted
  /\ UNCHANGED <<plan, ioEvent, poolLock, posted, postedRunning, runningThread, request,
                 eventOf, idle, armed, done, halted, phase>>
  /\ wpc' \in [Hosts -> HostPcs]
  /\ \A w \in Hosts : wpc'[w] = wpc[w] \/ (wpc[w] = "none" /\ wpc'[w] = "top")
  /\ \/ /\ ShuttingDown /\ pc' = [pc EXCEPT ![t] = inline] /\ Starts(t, call)
        /\ UNCHANGED <<serialQueue, poolQueue>>
     \/ /\ ~ShuttingDown /\ pc' = [pc EXCEPT ![t] = queued]
        /\ UNCHANGED <<doing, step, carried>>
        /\ \/ serialQueue' = Append(serialQueue, call) /\ poolQueue' = poolQueue
           \/ poolQueue' = Append(poolQueue, call) /\ serialQueue' = serialQueue

(* EnqueueIoCall queues the call, having started a worker if need be, or    *)
(* runs it inline.                                                          *)
LEMMA EnqueueDoes ==
  ASSUME IInv, NEW t \in Threads, NEW call \in Calls, NEW from, NEW queued, NEW inline,
         Enqueue(t, call, from, queued, inline)
  PROVE  Posts(t, call, from, queued, inline)
<1>0. wpc \in [Hosts -> HostPcs] /\ "top" \in HostPcs /\ Started \subseteq plan.pool
      /\ plan.pool \subseteq Workers
  BY PlanIs DEF IInv, Typed, HostPcs, PoolHolds
<1>1. /\ wpc' \in [Hosts -> HostPcs]
      /\ \A w \in Hosts : wpc'[w] = wpc[w] \/ (wpc[w] = "none" /\ wpc'[w] = "top")
  <2>1. CASE wpc' = wpc
    BY <1>0, <2>1
  <2>2. CASE EnsureIoWorker
    BY <1>0, <2>2 DEF EnsureIoWorker, Hosts
  <2>3. ASSUME StartPoolWorker(poolQueue'), wpc' # wpc
        PROVE  /\ wpc' \in [Hosts -> HostPcs]
               /\ \A w \in Hosts : wpc'[w] = wpc[w] \/ (wpc[w] = "none" /\ wpc'[w] = "top")
    <3>1. Started # plan.pool
      BY <2>3 DEF StartPoolWorker
    <3>2. \E w \in plan.pool : w \notin Started
      BY <1>0, <3>1
    <3> DEFINE v == CHOOSE w \in plan.pool \ Started : TRUE
    <3>3. v \in plan.pool \ Started
      BY <3>2
    <3>4. WorkerGoes(v, "none", "top")
      BY <2>3 DEF StartPoolWorker
    <3> HIDE DEF v
    <3> QED BY <1>0, <3>3, <3>4 DEF WorkerGoes, Hosts
  <2> QED BY <2>1, <2>2, <2>3 DEF Enqueue
<1> QED BY <1>1 DEF Enqueue, Posts, Goes, execVars, fileVars, callVars

(* So does PostHostIoCall, for the thread itself or for the file it         *)
(* requests something of.                                                   *)
LEMMA PostHostCallDoes ==
  ASSUME IInv, NEW t \in Threads, PostHostCall(t)
  PROVE  \/ Posts(t, t, "post", "notify", "inline")
         \/ /\ request[t] \in Files
            /\ Posts(t, request[t], "postFile", "notifyFile", "inlineFile")
<1>1. CASE Enqueue(t, t, "post", "notify", "inline")
  BY <1>1, EnqueueDoes DEF Calls
<1>2. CASE Enqueue(t, request[t], "postFile", "notifyFile", "inlineFile")
  <2>1. request[t] \in Files
    BY <1>2 DEF IInv, StepsFit, Enqueue, Goes
  <2> QED BY <1>2, <2>1, EnqueueDoes DEF Calls
<1> QED BY <1>1, <1>2 DEF PostHostCall

(* What the end of a call does.                                            *)
Over(e) ==
  /\ doing' = [doing EXCEPT ![e] = None]
  /\ step' = [step EXCEPT ![e] = "none"]
  /\ carried' = [carried EXCEPT ![e] = None]
  /\ \/ /\ e \in Hosts /\ wpc[e] = "run" /\ wpc' = [wpc EXCEPT ![e] = "top"]
        /\ pc' = pc
     \/ /\ e \in Threads /\ e \notin halted /\ wpc' = wpc
        /\ \/ pc[e] = "inline" /\ pc' = [pc EXCEPT ![e] = "test"]
           \/ pc[e] = "inlineFile" /\ pc' = [pc EXCEPT ![e] = "out"]

(* An executor that ends its call goes back to its loop or, inline, to the  *)
(* code after the call.                                                     *)
LEMMA EndsDoes ==
  ASSUME IInv, NEW e \in Executors, Ends(e)
  PROVE  Over(e)
<1>1. CASE e \in Hosts
  BY <1>1 DEF Ends, Over, WorkerGoes
<1>2. CASE e \notin Hosts
  BY <1>2 DEF Ends, Over, Goes, Executors
<1> QED BY <1>1, <1>2

(* The signal of done_event is the last thing the call of a thread does.    *)
LEMMA SignalDoneDoes ==
  ASSUME IInv, NEW e \in Executors, SignalDone(e)
  PROVE  /\ step[e] = "signal" /\ Over(e)
         /\ UNCHANGED <<plan, serialQueue, poolQueue, ioEvent, poolLock, posted, postedRunning,
                        runningThread, request, eventOf, idle, done, halted, phase>>
BY EndsDoes DEF SignalDone, Then, DoneFirst, queueVars, fileVars, callVars

(* The call of a file ends where it finds no more requests, and says that   *)
(* it no longer runs.                                                       *)
LEMMA NoMoreRequestsDoes ==
  ASSUME IInv, NEW e \in Executors, NoMoreRequests(e)
  PROVE  /\ step[e] \in {"loop", "request"} /\ Over(e) /\ posted[doing[e]] = <<>>
         /\ postedRunning' = postedRunning \ {doing[e]}
         /\ UNCHANGED <<plan, serialQueue, poolQueue, ioEvent, poolLock, posted,
                        request, eventOf, idle, done, halted, phase>>
BY EndsDoes DEF NoMoreRequests, queueVars, callVars

(* The store to done is before the signal; after it the frame of the        *)
(* thread is not used.                                                      *)
LEMMA StoreDoneDoes ==
  ASSUME IInv, NEW e \in Executors, StoreDone(e)
  PROVE  /\ step[e] = "done" /\ step' = [step EXCEPT ![e] = "signal"]
         /\ done' = done \cup {doing[e]}
         /\ UNCHANGED <<plan, serialQueue, poolQueue, ioEvent, poolLock, wpc, doing, carried,
                        posted, postedRunning, runningThread, pc, request, eventOf, idle,
                        halted, phase>>
BY DEF StoreDone, Then, DoneFirst, queueVars, fileVars, callVars

-----------------------------------------------------------------------------
(* Where calls are after a step.                                           *)
LiveStays == \A d \in Executors, x \in Calls : Live(d, x)' <=> Live(d, x)
(* An executor begins a call, or is past its last use of it; a queue gains  *)
(* a call at its end, or loses its first.                                   *)
LiveGains(e, c) ==
  \A d \in Executors, x \in Calls : Live(d, x)' <=> Live(d, x) \/ (d = e /\ x = c)
LiveLoses(e) == \A d \in Executors, x \in Calls : Live(d, x)' <=> Live(d, x) /\ d # e

QueueStays == UNCHANGED <<serialQueue, poolQueue>>
QueueGains(c) == \/ serialQueue' = Append(serialQueue, c) /\ poolQueue' = poolQueue
                 \/ poolQueue' = Append(poolQueue, c) /\ serialQueue' = serialQueue
QueueLoses(c) ==
  \/ /\ serialQueue # <<>> /\ c = Head(serialQueue)
     /\ serialQueue' = Tail(serialQueue) /\ poolQueue' = poolQueue
  \/ /\ poolQueue # <<>> /\ c = Head(poolQueue)
     /\ poolQueue' = Tail(poolQueue) /\ serialQueue' = serialQueue

(* No call changes its place.                                               *)
LEMMA RestingPlaces ==
  ASSUME LiveStays, QueueStays
  PROVE  (OnePlace => OnePlace') /\ \A c \in Calls : Placed(c)' <=> Placed(c)
<1>1. \A c \in Calls : Queued(c)' <=> Queued(c)
  BY DEF QueueStays, Queued
<1>2. \A c \in Calls : Placed(c)' <=> Placed(c)
  BY <1>1 DEF LiveStays, Placed
<1>3. OnePlace => OnePlace'
  BY <1>1 DEF OnePlace, LiveStays, QueueStays
<1> QED BY <1>2, <1>3

(* A call that had no place gets one, in a queue or inline.                 *)
LEMMA GainedPlace ==
  ASSUME Typed, OnePlace, NEW c \in Calls, ~Placed(c),
         \/ LiveStays /\ QueueGains(c)
         \/ \E e \in Executors : LiveGains(e, c) /\ QueueStays
  PROVE  OnePlace' /\ \A x \in Calls : Placed(x)' <=> Placed(x) \/ x = c
<1>0. /\ ~In(c, serialQueue) /\ ~In(c, poolQueue) /\ \A e \in Executors : ~Live(e, c)
      /\ Distinct(serialQueue) /\ Distinct(poolQueue)
  BY DEF Placed, Queued, OnePlace
<1>1. CASE LiveStays /\ QueueGains(c)
  <2>1. /\ \A x : (In(x, serialQueue) \/ In(x, poolQueue))'
                     <=> In(x, serialQueue) \/ In(x, poolQueue) \/ x = c
        /\ \A x : In(x, serialQueue)' /\ In(x, poolQueue)' => In(x, serialQueue) /\ In(x, poolQueue)
        /\ Distinct(serialQueue)' /\ Distinct(poolQueue)'
    <3>1. CASE serialQueue' = Append(serialQueue, c) /\ poolQueue' = poolQueue
      BY <1>0, <3>1, AppendIs DEF Typed
    <3>2. CASE poolQueue' = Append(poolQueue, c) /\ serialQueue' = serialQueue
      BY <1>0, <3>2, AppendIs DEF Typed
    <3> QED BY <1>1, <3>1, <3>2 DEF QueueGains
  <2>2. \A x : Queued(x)' <=> Queued(x) \/ x = c
    BY <2>1 DEF Queued
  <2>3. OnePlace'
    BY <1>0, <1>1, <2>1, <2>2 DEF OnePlace, LiveStays
  <2> QED BY <1>1, <2>2, <2>3 DEF Placed, LiveStays
<1>2. ASSUME NEW e \in Executors, LiveGains(e, c), QueueStays
      PROVE  OnePlace' /\ \A x \in Calls : Placed(x)' <=> Placed(x) \/ x = c
  <2>1. \A x : Queued(x)' <=> Queued(x)
    BY <1>2 DEF QueueStays, Queued
  <2>2. OnePlace'
    BY <1>0, <1>2, <2>1 DEF OnePlace, LiveGains, QueueStays, Queued
  <2> QED BY <1>2, <2>1, <2>2 DEF Placed, LiveGains
<1> QED BY <1>1, <1>2

(* The first of a queue goes to an executor.                                *)
LEMMA TakenPlace ==
  ASSUME Typed, OnePlace, NEW c, NEW e \in Executors, QueueLoses(c), LiveGains(e, c)
  PROVE  OnePlace' /\ c \in Calls /\ \A x \in Calls : Placed(x)' <=> Placed(x)
<1>1. /\ c \in Calls /\ Queued(c) /\ ~Queued(c)'
      /\ \A x : x # c => (Queued(x)' <=> Queued(x))
      /\ \A x : In(x, serialQueue)' /\ In(x, poolQueue)' => In(x, serialQueue) /\ In(x, poolQueue)
      /\ Distinct(serialQueue)' /\ Distinct(poolQueue)'
  <2>1. CASE /\ serialQueue # <<>> /\ c = Head(serialQueue)
             /\ serialQueue' = Tail(serialQueue) /\ poolQueue' = poolQueue
    BY <2>1, TailIs DEF Typed, OnePlace, Queued
  <2>2. CASE /\ poolQueue # <<>> /\ c = Head(poolQueue)
             /\ poolQueue' = Tail(poolQueue) /\ serialQueue' = serialQueue
    BY <2>2, TailIs DEF Typed, OnePlace, Queued
  <2> QED BY <2>1, <2>2 DEF QueueLoses
<1>2. \A d \in Executors : ~Live(d, c)
  BY <1>1 DEF OnePlace
<1>3. OnePlace'
  BY <1>1, <1>2 DEF OnePlace, LiveGains
<1> QED BY <1>1, <1>3 DEF Placed, LiveGains

(* The call of an executor is over.                                         *)
LEMMA LostPlace ==
  ASSUME OnePlace, NEW e \in Executors, LiveLoses(e), QueueStays
  PROVE  OnePlace' /\ \A x \in Calls : Placed(x)' <=> Placed(x) /\ ~Live(e, x)
<1>1. \A x : Queued(x)' <=> Queued(x)
  BY DEF QueueStays, Queued
<1>2. OnePlace'
  BY <1>1 DEF OnePlace, LiveLoses, QueueStays
<1> QED BY <1>1, <1>2 DEF OnePlace, Placed, LiveLoses

(* Steps that touch neither the queues nor the executors.                   *)
LEMMA UnmovedPlaces ==
  ASSUME UNCHANGED <<doing, step>>, QueueStays
  PROVE  (OnePlace => OnePlace') /\ \A c \in Calls : Placed(c)' <=> Placed(c)
<1>1. LiveStays
  BY DEF LiveStays, Live
<1> QED BY <1>1, RestingPlaces

(* The places of the calls after the steps that move one.                  *)
LEMMA PostedPlaces ==
  ASSUME IInv, NEW t \in Threads, NEW c \in Calls, NEW from, NEW queued, NEW inline,
         Posts(t, c, from, queued, inline), ~Placed(c), step[t] = "none"
  PROVE  OnePlace' /\ \A x \in Calls : Placed(x)' <=> Placed(x) \/ x = c
<1>0. Typed /\ OnePlace /\ StepsFit /\ t \in Executors /\ doing[t] = None
  BY DEF IInv, StepsFit, Executors
<1>1. CASE Starts(t, c) /\ QueueStays
  <2>1. \A x \in Calls : ~Live(t, x)
    BY <1>0, PlanIs DEF Live, Calls
  <2>2. LiveGains(t, c)
    BY <1>0, <1>1, <2>1 DEF Starts, LiveGains, Live, Typed
  <2> QED BY <1>0, <1>1, <2>2, GainedPlace
<1>2. CASE UNCHANGED <<doing, step>> /\ QueueGains(c)
  <2>1. LiveStays
    BY <1>2 DEF LiveStays, Live
  <2> QED BY <1>0, <1>2, <2>1, GainedPlace
<1> QED BY <1>1, <1>2 DEF Posts, QueueStays, QueueGains

(* A worker takes the first call of a queue: it stays in one place.         *)
LEMMA TakenPlaces ==
  ASSUME IInv, NEW w \in Hosts, NEW c, wpc[w] = "look", QueueLoses(c), Starts(w, c)
  PROVE  OnePlace' /\ \A x \in Calls : Placed(x)' <=> Placed(x)
<1>0. Typed /\ OnePlace /\ StepsFit /\ w \in Executors /\ step[w] = "none" /\ doing[w] = None
  BY DEF IInv, StepsFit, Executors
<1>1. \A x \in Calls : ~Live(w, x)
  BY <1>0, PlanIs DEF Live, Calls
<1>2. LiveGains(w, c)
  BY <1>0, <1>1 DEF Starts, LiveGains, Live, Typed
<1> QED BY <1>0, <1>2, TakenPlace

(* An executor ends its call.                                               *)
LEMMA EndedPlaces ==
  ASSUME IInv, NEW e \in Executors, Over(e), QueueStays
  PROVE  OnePlace' /\ \A x \in Calls : Placed(x)' <=> Placed(x) /\ ~Live(e, x)
<1>0. Typed /\ OnePlace
  BY DEF IInv
<1>1. LiveLoses(e)
  BY <1>0, PlanIs DEF Over, LiveLoses, Live, Typed, Calls
<1> QED BY <1>0, <1>1, LostPlace

(* The store to done ends the place of the call, before its signal.         *)
LEMMA StoredPlaces ==
  ASSUME IInv, NEW e \in Executors, step[e] = "done", step' = [step EXCEPT ![e] = "signal"],
         doing' = doing, QueueStays
  PROVE  OnePlace' /\ \A x \in Calls : Placed(x)' <=> Placed(x) /\ ~Live(e, x)
<1>0. Typed /\ OnePlace
  BY DEF IInv
<1>1. LiveLoses(e)
  BY <1>0 DEF LiveLoses, Live, Typed
<1> QED BY <1>0, <1>1, LostPlace

(* The steps inside a call leave it where it is.                            *)
LEMMA RunningPlaces ==
  ASSUME IInv, NEW e \in Executors, RunFn(e) \/ NextRequest(e)
  PROVE  OnePlace' /\ \A x \in Calls : Placed(x)' <=> Placed(x)
<1>0. Typed /\ OnePlace
  BY DEF IInv
<1>1. step[e] # "signal" /\ QueueStays /\ doing' = doing
  BY DEF RunFn, NextRequest, QueueStays, queueVars
<1>2. step' = [step EXCEPT ![e] = "done"] \/ step' = [step EXCEPT ![e] = "request"]
  BY DEF RunFn, NextRequest, DoneFirst
<1>3. LiveStays
  BY <1>0, <1>1, <1>2 DEF LiveStays, Live, Typed
<1> QED BY <1>0, <1>1, <1>3, RestingPlaces

(* When the workers are joined no call is placed: what is still queued is   *)
(* dropped.                                                                 *)
LEMMA DroppedPlaces ==
  ASSUME IInv, JoinWorkers
  PROVE  OnePlace' /\ \A x \in Calls : ~Placed(x)'
<1>0. Typed /\ StepsFit /\ PhasesFit
  BY DEF IInv
<1>1. \A e \in Hosts : step[e] = "none"
  BY <1>0 DEF JoinWorkers, WorkersJoined, StepsFit
<1>2. \A e \in Threads : step[e] = "none"
  BY <1>0 DEF JoinWorkers, ShutdownGoes, PhasesFit, StepsFit
<1>3. \A e \in Executors, x \in Calls : ~Live(e, x)'
  BY <1>0, <1>1, <1>2, PlanIs DEF Live, JoinWorkers, execVars, Executors, Calls, StepsFit
<1>4. \A x : ~In(x, serialQueue)' /\ ~In(x, poolQueue)'
  BY DEF JoinWorkers, In
<1>5. Distinct(serialQueue)' /\ Distinct(poolQueue)'
  BY DEF JoinWorkers, Distinct
<1> QED BY <1>3, <1>4, <1>5 DEF OnePlace, Placed, Queued

-----------------------------------------------------------------------------
(* The workers of the pool.                                                *)
LEMMA PoolIsFinite ==
  /\ IsFiniteSet(Started) /\ IsFiniteSet(Busy)
  /\ Cardinality(Started) \in Nat /\ Cardinality(Busy) \in Nat
<1>1. IsFiniteSet(Started) /\ IsFiniteSet(Busy)
  <2>1. Started \subseteq Workers /\ Busy \subseteq Workers
    BY DEF Started, Busy
  <2> QED BY <2>1, IoAssumption, FS_Subset
<1> QED BY <1>1, FS_CardinalityType

(* StartPoolWorker keeps the pool as large as the queue needs when a call   *)
(* is added; the rest keeps both.                                           *)
LEMMA PoolGrows ==
  ASSUME IInv, UNCHANGED plan,
         \/ /\ StartPoolWorker(poolQueue')
            /\ \E c \in Calls : poolQueue' = Append(poolQueue, c)
         \/ UNCHANGED wpc /\ UNCHANGED poolQueue
         \/ EnsureIoWorker /\ UNCHANGED poolQueue,
         ~ShuttingDown
  PROVE  PoolHolds'
<1>0. /\ wpc \in [Hosts -> HostPcs] /\ Started \subseteq plan.pool /\ plan.pool \subseteq Workers
      /\ (Started # plan.pool => Len(poolQueue) <= Cardinality(Started) - Cardinality(Busy))
      /\ Len(poolQueue) \in Nat /\ \A c \in Calls : Len(Append(poolQueue, c)) = Len(poolQueue) + 1
      /\ Serial \notin Workers
  BY PlanIs DEF IInv, Typed, PoolHolds, NoCallHeldUp
<1>1. CASE UNCHANGED wpc /\ UNCHANGED poolQueue
  BY <1>0, <1>1 DEF PoolHolds, NoCallHeldUp, Started, Busy
<1>2. CASE EnsureIoWorker /\ UNCHANGED poolQueue
  <2>1. Started' = Started /\ Busy' = Busy
    BY <1>0, <1>2 DEF EnsureIoWorker, Started, Busy, Hosts
  <2> QED BY <1>0, <1>2, <2>1 DEF PoolHolds, NoCallHeldUp
<1>3. ASSUME StartPoolWorker(poolQueue'), NEW c \in Calls, poolQueue' = Append(poolQueue, c)
      PROVE  PoolHolds'
  <2>1. Len(poolQueue') = Len(poolQueue) + 1
    BY <1>0, <1>3
  <2>2. CASE Outnumbered(poolQueue') /\ Started # plan.pool
    <3> DEFINE v == CHOOSE w \in plan.pool \ Started : TRUE
    <3>1. v \in plan.pool \ Started
      BY <1>0, <2>2
    <3>2. WorkerGoes(v, "none", "top")
      BY <1>3, <2>2 DEF StartPoolWorker
    <3> HIDE DEF v
    <3>3. v \in Workers /\ Started' = Started \cup {v} /\ Busy' = Busy
      BY <1>0, <3>1, <3>2 DEF WorkerGoes, Started, Busy, Hosts
    <3>4. Cardinality(Started') = Cardinality(Started) + 1
      BY <3>1, <3>3, PoolIsFinite, FS_AddElement
    <3> QED BY <1>0, <2>1, <2>2, <3>1, <3>3, <3>4, PoolIsFinite DEF PoolHolds,
      NoCallHeldUp
  <2>3. CASE ~(Outnumbered(poolQueue') /\ Started # plan.pool)
    <3>1. Started' = Started /\ Busy' = Busy
      BY <1>3, <2>3 DEF StartPoolWorker, Started, Busy
    <3> QED BY <1>0, <2>1, <2>3, <3>1, PoolIsFinite DEF PoolHolds, NoCallHeldUp,
      Outnumbered
  <2> QED BY <2>2, <2>3
<1> QED BY <1>1, <1>2, <1>3

(* Steps that change neither the queue of the pool nor how many of its      *)
(* workers are busy.                                                        *)
LEMMA PoolRests ==
  ASSUME PoolHolds, UNCHANGED <<plan, poolQueue>>, ShuttingDown => ShuttingDown',
         Started' = Started, Busy' = Busy
  PROVE  PoolHolds'
BY DEF PoolHolds, NoCallHeldUp


(* The types are kept.                                                     *)
LEMMA TypesAreKept ==
  ASSUME IInv, Next
  PROVE  Typed'
<1>0. Typed /\ StepsFit
  BY DEF IInv
<1>1. ASSUME NEW t \in Threads, NEW f \in Files, RunBlockingIo(t, f) PROVE Typed'
  <2>1. "post" \in ThreadPcs
    BY DEF ThreadPcs
  <2>2. PICK e \in idle : eventOf' = [eventOf EXCEPT ![t] = e]
    BY <1>1 DEF RunBlockingIo
  <2> QED BY <1>0, <1>1, <2>1, <2>2 DEF RunBlockingIo, Goes, Typed, queueVars, hostVars,
    execVars, fileVars
<1>2. ASSUME NEW t \in Threads, NEW f \in Files, PostIo(t, f) PROVE Typed'
  BY <1>0, <1>2, PlanIs DEF PostIo, Marks, Goes, queueVars, hostVars, execVars, Typed,
     StepsFit, WaitPcs, HostPcs, Steps, ThreadPcs, Phases, Hosts, Executors, Calls
<1>3. ASSUME NEW t \in Threads, NEW f \in Files, CancelPostedIo(t, f) PROVE Typed'
  BY <1>0, <1>3, PlanIs DEF CancelPostedIo, Goes, queueVars, hostVars, execVars, Typed,
     StepsFit, WaitPcs, HostPcs, Steps, ThreadPcs, Phases, Hosts, Executors, Calls
<1>4. ASSUME NEW t \in Threads, PostHostCall(t) PROVE Typed'
  <2>1. \/ Posts(t, t, "post", "notify", "inline")
        \/ /\ request[t] \in Files
           /\ Posts(t, request[t], "postFile", "notifyFile", "inlineFile")
    BY <1>4, PostHostCallDoes
  <2>2. CASE Posts(t, t, "post", "notify", "inline")
    <3>1. pc' \in [Threads -> ThreadPcs] /\ t \in Calls
      BY <1>0, <2>2 DEF Posts, Typed, ThreadPcs, Calls
    <3>2. /\ doing' \in [Executors -> Calls \cup {None}]
          /\ step' \in [Executors -> Steps]
          /\ carried' \in [Executors -> Events \cup {None}]
      <4>1. CASE Starts(t, t)
        <5>1. /\ (IF t \in Threads THEN "fn" ELSE "loop") \in Steps
              /\ (IF t \in Threads THEN eventOf[t] ELSE None) \in Events \cup {None}
          BY <1>0 DEF Typed, Steps
        <5> QED BY <1>0, <3>1, <4>1, <5>1 DEF Starts, Typed
      <4>2. CASE UNCHANGED <<doing, step, carried>>
        BY <1>0, <4>2 DEF Typed
      <4> QED BY <2>2, <4>1, <4>2 DEF Posts
    <3>3. serialQueue' \in Seq(Calls) /\ poolQueue' \in Seq(Calls)
      <4>1. Append(serialQueue, t) \in Seq(Calls) /\ Append(poolQueue, t) \in Seq(Calls)
        BY <1>0, <3>1, AppendIs DEF Typed
      <4> QED BY <1>0, <2>2, <4>1 DEF Posts, Typed
    <3> QED BY <1>0, <2>2, <3>1, <3>2, <3>3 DEF Posts, Typed
  <2>3. CASE request[t] \in Files /\ Posts(t, request[t], "postFile", "notifyFile", "inlineFile")
    <3>1. pc' \in [Threads -> ThreadPcs] /\ request[t] \in Calls
      BY <1>0, <2>3 DEF Posts, Typed, ThreadPcs, Calls
    <3>2. /\ doing' \in [Executors -> Calls \cup {None}]
          /\ step' \in [Executors -> Steps]
          /\ carried' \in [Executors -> Events \cup {None}]
      <4>1. CASE Starts(t, request[t])
        <5>1. /\ (IF request[t] \in Threads THEN "fn" ELSE "loop") \in Steps
              /\ (IF request[t] \in Threads THEN eventOf[request[t]] ELSE None) \in Events \cup {None}
          BY <1>0 DEF Typed, Steps
        <5> QED BY <1>0, <3>1, <4>1, <5>1 DEF Starts, Typed
      <4>2. CASE UNCHANGED <<doing, step, carried>>
        BY <1>0, <4>2 DEF Typed
      <4> QED BY <2>3, <4>1, <4>2 DEF Posts
    <3>3. serialQueue' \in Seq(Calls) /\ poolQueue' \in Seq(Calls)
      <4>1. /\ Append(serialQueue, request[t]) \in Seq(Calls)
            /\ Append(poolQueue, request[t]) \in Seq(Calls)
        BY <1>0, <3>1, AppendIs DEF Typed
      <4> QED BY <1>0, <2>3, <4>1 DEF Posts, Typed
    <3> QED BY <1>0, <2>3, <3>1, <3>2, <3>3 DEF Posts, Typed
  <2> QED BY <2>1, <2>2, <2>3
<1>5. ASSUME NEW t \in Threads, Notify(t) PROVE Typed'
  <2>1. /\ pc[t] \in {"notify", "notifyFile"} /\ t \notin halted
        /\ \/ pc' = [pc EXCEPT ![t] = "test"] \/ pc' = [pc EXCEPT ![t] = "out"]
    BY <1>5 DEF Notify, Goes
  <2>2. /\ wpc' \in [Hosts -> HostPcs]
        /\ \A w \in Hosts : wpc'[w] = wpc[w] \/ (wpc[w] = "sleep" /\ wpc'[w] = "top")
    BY <1>0, <1>5 DEF Notify, Sleepers, WorkerGoes, Typed, Hosts, HostPcs
  <2>3. ioEvent' \in BOOLEAN
    BY <1>0, <1>5 DEF Notify, Typed
  <2>4. UNCHANGED <<plan, serialQueue, poolQueue, poolLock, doing, step, carried, posted,
                   postedRunning, runningThread, request, eventOf, idle, done, halted, phase>>
    BY <1>5 DEF Notify, queueVars, execVars, fileVars, callVars
  <2> QED BY <1>0, <2>1, <2>2, <2>3, <2>4 DEF Typed, StepsFit, WaitPcs, HostPcs, Steps,
    ThreadPcs, Phases, Hosts, Executors, Calls
<1>6. ASSUME NEW t \in Threads, TestDone(t) PROVE Typed'
  BY <1>0, <1>6, PlanIs DEF TestDone, Goes, queueVars, hostVars, execVars, fileVars,
     callVars, Typed, StepsFit, WaitPcs, HostPcs, Steps, ThreadPcs, Phases, Hosts,
     Executors, Calls
<1>7. ASSUME NEW t \in Threads, WakesUp(t) PROVE Typed'
  BY <1>0, <1>7, PlanIs DEF WakesUp, Awake, Goes, queueVars, hostVars, execVars, fileVars,
     callVars, Typed, StepsFit, WaitPcs, HostPcs, Steps, ThreadPcs, Phases, Hosts,
     Executors, Calls
<1>8. ASSUME NEW t \in Threads, ReleaseIoEvent(t) PROVE Typed'
  BY <1>0, <1>8, PlanIs DEF ReleaseIoEvent, Goes, queueVars, hostVars, execVars, fileVars,
     Typed, StepsFit, WaitPcs, HostPcs, Steps, ThreadPcs, Phases, Hosts, Executors, Calls
<1>9. ASSUME NEW t \in Threads, Alerted(t) PROVE Typed'
  BY <1>0, <1>9, PlanIs DEF Alerted, Goes, queueVars, hostVars, execVars, fileVars,
     callVars, Typed, StepsFit, WaitPcs, HostPcs, Steps, ThreadPcs, Phases, Hosts,
     Executors, Calls
<1>10. ASSUME NEW t \in Threads, CancelReturns(t) PROVE Typed'
  BY <1>0, <1>10, PlanIs DEF CancelReturns, Goes, queueVars, hostVars, execVars, fileVars,
     callVars, Typed, StepsFit, WaitPcs, HostPcs, Steps, ThreadPcs, Phases, Hosts,
     Executors, Calls
<1>11. ASSUME NEW t \in Threads, Halt(t) PROVE Typed'
  BY <1>0, <1>11, PlanIs DEF Halt, ShuttingDown, queueVars, hostVars, execVars, fileVars,
     callVars, Typed, StepsFit, WaitPcs, HostPcs, Steps, ThreadPcs, Phases, Hosts,
     Executors, Calls
<1>12. ASSUME NEW w \in Workers, PoolLoop(w) PROVE Typed'
  BY <1>0, <1>12, PlanIs DEF PoolLoop, WorkerGoes, ShuttingDown, queueVars, execVars,
     fileVars, callVars, Typed, StepsFit, WaitPcs, HostPcs, Steps, ThreadPcs, Phases,
     Hosts, Executors, Calls
<1>13. ASSUME NEW w \in Workers, PoolTakes(w) PROVE Typed'
  BY <1>0, <1>13, PlanIs DEF PoolTakes, Starts, WorkerGoes, fileVars, callVars, Typed,
     StepsFit, WaitPcs, HostPcs, Steps, ThreadPcs, Phases, Hosts, Executors, Calls
<1>14. ASSUME NEW w \in Workers, PoolWaits(w) PROVE Typed'
  BY <1>0, <1>14, PlanIs DEF PoolWaits, WorkerGoes, queueVars, execVars, fileVars,
     callVars, Typed, StepsFit, WaitPcs, HostPcs, Steps, ThreadPcs, Phases, Hosts,
     Executors, Calls
<1>15. ASSUME SerialLoop PROVE Typed'
  BY <1>0, <1>15, PlanIs DEF SerialLoop, WorkerGoes, ShuttingDown, queueVars, execVars,
     fileVars, callVars, Typed, StepsFit, WaitPcs, HostPcs, Steps, ThreadPcs, Phases,
     Hosts, Executors, Calls
<1>16. ASSUME SerialTakes PROVE Typed'
  BY <1>0, <1>16, PlanIs DEF SerialTakes, Starts, WorkerGoes, fileVars, callVars, Typed,
     StepsFit, WaitPcs, HostPcs, Steps, ThreadPcs, Phases, Hosts, Executors, Calls
<1>17. ASSUME SerialWaits PROVE Typed'
  <2>1. /\ \/ wpc' = [wpc EXCEPT ![Serial] = "empty"] \/ wpc' = [wpc EXCEPT ![Serial] = "sleep"]
           \/ wpc' = [wpc EXCEPT ![Serial] = "top"]
        /\ ioEvent' \in BOOLEAN
    BY <1>0, <1>17 DEF SerialWaits, WorkerGoes, Typed
  <2>2. {"empty", "sleep", "top"} \subseteq HostPcs /\ Serial \in Hosts
    BY DEF HostPcs, Hosts
  <2>3. UNCHANGED <<plan, queueVars, poolLock, execVars, fileVars, pc, callVars, done, halted, phase>>
    BY <1>17 DEF SerialWaits
  <2> QED BY <1>0, <2>1, <2>2, <2>3 DEF Typed, queueVars, execVars, fileVars, callVars
<1>18. ASSUME NEW e \in Executors, RunFn(e) PROVE Typed'
  BY <1>0, <1>18, PlanIs DEF RunFn, DoneFirst, queueVars, hostVars, fileVars, callVars,
     Typed, StepsFit, WaitPcs, HostPcs, Steps, ThreadPcs, Phases, Hosts, Executors, Calls
<1>19. ASSUME NEW e \in Executors, StoreDone(e) PROVE Typed'
  <2>1. /\ step[e] = "done" /\ step' = [step EXCEPT ![e] = "signal"]
        /\ done' = done \cup {doing[e]}
        /\ UNCHANGED <<plan, serialQueue, poolQueue, ioEvent, poolLock, wpc, doing, carried,
                       posted, postedRunning, runningThread, pc, request, eventOf, idle,
                       halted, phase>>
    BY <1>19, StoreDoneDoes
  <2> QED BY <1>0, <2>1, PlanIs DEF Typed, StepsFit, WaitPcs, HostPcs, Steps, ThreadPcs,
    Phases, Hosts, Executors, Calls
<1>20. ASSUME NEW e \in Executors, SignalDone(e) PROVE Typed'
  <2>1. /\ step[e] = "signal" /\ Over(e)
        /\ UNCHANGED <<plan, serialQueue, poolQueue, ioEvent, poolLock, posted, postedRunning,
                       runningThread, request, eventOf, idle, done, halted, phase>>
    BY <1>20, SignalDoneDoes
  <2>2. /\ doing' \in [Executors -> Calls \cup {None}] /\ step' \in [Executors -> Steps]
        /\ carried' \in [Executors -> Events \cup {None}]
    BY <1>0, <2>1 DEF Over, Typed, Steps
  <2>3. pc' \in [Threads -> ThreadPcs] /\ wpc' \in [Hosts -> HostPcs]
    BY <1>0, <2>1 DEF Over, Typed, ThreadPcs, HostPcs
  <2> QED BY <1>0, <2>1, <2>2, <2>3 DEF Typed
<1>21. ASSUME NEW e \in Executors, NextRequest(e) PROVE Typed'
  BY <1>0, <1>21, PlanIs DEF NextRequest, queueVars, hostVars, callVars, Typed, StepsFit,
     WaitPcs, HostPcs, Steps, ThreadPcs, Phases, Hosts, Executors, Calls
<1>22. ASSUME NEW e \in Executors, NoMoreRequests(e) PROVE Typed'
  <2>1. /\ step[e] \in {"loop", "request"} /\ Over(e) /\ posted[doing[e]] = <<>>
        /\ postedRunning' = postedRunning \ {doing[e]}
        /\ UNCHANGED <<plan, serialQueue, poolQueue, ioEvent, poolLock, posted,
                       request, eventOf, idle, done, halted, phase>>
    BY <1>22, NoMoreRequestsDoes
  <2> QED BY <1>0, <2>1, PlanIs DEF Over, Typed, StepsFit, WaitPcs, HostPcs, Steps,
    ThreadPcs, Phases, Hosts, Executors, Calls
<1>23. ASSUME ShutdownBegins PROVE Typed'
  BY <1>0, <1>23, PlanIs DEF ShutdownBegins, ShutdownGoes, queueVars, hostVars, execVars,
     fileVars, callVars, Typed, StepsFit, WaitPcs, HostPcs, Steps, ThreadPcs, Phases,
     Hosts, Executors, Calls
<1>24. ASSUME NudgeSerial PROVE Typed'
  BY <1>0, <1>24, PlanIs DEF NudgeSerial, ShutdownGoes, queueVars, execVars, fileVars,
     callVars, Typed, StepsFit, WaitPcs, HostPcs, Steps, ThreadPcs, Phases, Hosts,
     Executors, Calls
<1>25. ASSUME NudgePool PROVE Typed'
  BY <1>0, <1>25, PlanIs DEF NudgePool, Sleepers, UnderLock, ShutdownGoes, queueVars,
     execVars, fileVars, callVars, Typed, StepsFit, WaitPcs, HostPcs, Steps, ThreadPcs,
     Phases, Hosts, Executors, Calls
<1>26. ASSUME JoinDispatch PROVE Typed'
  BY <1>0, <1>26, PlanIs DEF JoinDispatch, ShutdownGoes, queueVars, hostVars, execVars,
     fileVars, callVars, Typed, StepsFit, WaitPcs, HostPcs, Steps, ThreadPcs, Phases,
     Hosts, Executors, Calls
<1>27. ASSUME JoinWorkers PROVE Typed'
  BY <1>0, <1>27, PlanIs DEF JoinWorkers, WorkersJoined, ShutdownGoes, hostVars, execVars,
     fileVars, callVars, Typed, StepsFit, WaitPcs, HostPcs, Steps, ThreadPcs, Phases,
     Hosts, Executors, Calls
<1> QED
  BY <1>1, <1>2, <1>3, <1>4, <1>5, <1>6, <1>7, <1>8, <1>9, <1>10, <1>11, <1>12, <1>13,
     <1>14, <1>15, <1>16, <1>17, <1>18, <1>19, <1>20, <1>21, <1>22, <1>23, <1>24, <1>25,
     <1>26, <1>27
  DEF Next, ThreadActs, PoolActs, SerialActs, Executes, Shutdown

(* Executors and their states go together.                                 *)
LEMMA StepsAreFit ==
  ASSUME IInv, Next
  PROVE  StepsFit'
<1>0. Typed /\ StepsFit /\ PhasesFit
  BY DEF IInv
<1>1. ASSUME NEW t \in Threads, NEW f \in Files, RunBlockingIo(t, f) PROVE StepsFit'
  BY <1>0, <1>1, PlanIs DEF RunBlockingIo, Goes, queueVars, hostVars, execVars, fileVars,
     Typed, StepsFit, PhasesFit, WaitPcs, Hosts, Executors, Calls, HostPcs, ThreadPcs
<1>2. ASSUME NEW t \in Threads, NEW f \in Files, PostIo(t, f) PROVE StepsFit'
  BY <1>0, <1>2, PlanIs DEF PostIo, Marks, Goes, queueVars, hostVars, execVars, Typed,
     StepsFit, PhasesFit, WaitPcs, Hosts, Executors, Calls, HostPcs, ThreadPcs
<1>3. ASSUME NEW t \in Threads, NEW f \in Files, CancelPostedIo(t, f) PROVE StepsFit'
  BY <1>0, <1>3, PlanIs DEF CancelPostedIo, Goes, queueVars, hostVars, execVars, Typed,
     StepsFit, PhasesFit, WaitPcs, Hosts, Executors, Calls, HostPcs, ThreadPcs
<1>4. ASSUME NEW t \in Threads, PostHostCall(t) PROVE StepsFit'
  <2>1. \/ Posts(t, t, "post", "notify", "inline")
        \/ /\ request[t] \in Files
           /\ Posts(t, request[t], "postFile", "notifyFile", "inlineFile")
    BY <1>4, PostHostCallDoes
  <2>2. CASE Posts(t, t, "post", "notify", "inline")
    <3>1. CASE ShuttingDown
      BY <1>0, <2>2, <3>1, PlanIs DEF Posts, Starts, Typed, StepsFit, PhasesFit, WaitPcs,
         Hosts, Executors, Calls, HostPcs, ThreadPcs
    <3>2. CASE ~ShuttingDown
      BY <1>0, <2>2, <3>2, PlanIs DEF Posts, Typed, StepsFit, PhasesFit, WaitPcs, Hosts,
         Executors, Calls, HostPcs, ThreadPcs
    <3> QED BY <3>1, <3>2
  <2>3. CASE request[t] \in Files /\ Posts(t, request[t], "postFile", "notifyFile", "inlineFile")
    <3>1. CASE ShuttingDown
      <4>1. /\ step' = [step EXCEPT ![t] = "loop"] /\ doing' = [doing EXCEPT ![t] = request[t]]
            /\ pc' = [pc EXCEPT ![t] = "inlineFile"] /\ UNCHANGED <<request, eventOf>>
            /\ \A w \in Hosts : wpc'[w] = wpc[w] \/ (wpc[w] = "none" /\ wpc'[w] = "top")
        BY <2>3, <3>1, PlanIs DEF Posts, Starts
      <4>2. t \in Executors /\ t \notin Hosts
        BY PlanIs DEF Executors, Hosts
      <4> QED BY <1>0, <2>3, <4>1, <4>2 DEF StepsFit, Typed, WaitPcs
    <3>2. CASE ~ShuttingDown
      BY <1>0, <2>3, <3>2, PlanIs DEF Posts, Typed, StepsFit, PhasesFit, WaitPcs, Hosts,
         Executors, Calls, HostPcs, ThreadPcs
    <3> QED BY <3>1, <3>2
  <2> QED BY <2>1, <2>2, <2>3
<1>5. ASSUME NEW t \in Threads, Notify(t) PROVE StepsFit'
  BY <1>0, <1>5, PlanIs DEF Notify, Sleepers, Goes, WorkerGoes, queueVars, execVars,
     fileVars, callVars, Typed, StepsFit, PhasesFit, WaitPcs, Hosts, Executors, Calls,
     HostPcs, ThreadPcs
<1>6. ASSUME NEW t \in Threads, TestDone(t) PROVE StepsFit'
  BY <1>0, <1>6, PlanIs DEF TestDone, Goes, queueVars, hostVars, execVars, fileVars,
     callVars, Typed, StepsFit, PhasesFit, WaitPcs, Hosts, Executors, Calls, HostPcs,
     ThreadPcs
<1>7. ASSUME NEW t \in Threads, WakesUp(t) PROVE StepsFit'
  BY <1>0, <1>7, PlanIs DEF WakesUp, Awake, Goes, queueVars, hostVars, execVars, fileVars,
     callVars, Typed, StepsFit, PhasesFit, WaitPcs, Hosts, Executors, Calls, HostPcs,
     ThreadPcs
<1>8. ASSUME NEW t \in Threads, ReleaseIoEvent(t) PROVE StepsFit'
  BY <1>0, <1>8, PlanIs DEF ReleaseIoEvent, Goes, queueVars, hostVars, execVars, fileVars,
     Typed, StepsFit, PhasesFit, WaitPcs, Hosts, Executors, Calls, HostPcs, ThreadPcs
<1>9. ASSUME NEW t \in Threads, Alerted(t) PROVE StepsFit'
  BY <1>0, <1>9, PlanIs DEF Alerted, Goes, queueVars, hostVars, execVars, fileVars,
     callVars, Typed, StepsFit, PhasesFit, WaitPcs, Hosts, Executors, Calls, HostPcs,
     ThreadPcs
<1>10. ASSUME NEW t \in Threads, CancelReturns(t) PROVE StepsFit'
  BY <1>0, <1>10, PlanIs DEF CancelReturns, Goes, queueVars, hostVars, execVars, fileVars,
     callVars, Typed, StepsFit, PhasesFit, WaitPcs, Hosts, Executors, Calls, HostPcs,
     ThreadPcs
<1>11. ASSUME NEW t \in Threads, Halt(t) PROVE StepsFit'
  BY <1>0, <1>11, PlanIs DEF Halt, ShuttingDown, queueVars, hostVars, execVars, fileVars,
     callVars, Typed, StepsFit, PhasesFit, WaitPcs, Hosts, Executors, Calls, HostPcs,
     ThreadPcs
<1>12. ASSUME NEW w \in Workers, PoolLoop(w) PROVE StepsFit'
  BY <1>0, <1>12, PlanIs DEF PoolLoop, WorkerGoes, ShuttingDown, queueVars, execVars,
     fileVars, callVars, Typed, StepsFit, PhasesFit, WaitPcs, Hosts, Executors, Calls,
     HostPcs, ThreadPcs
<1>13. ASSUME NEW w \in Workers, PoolTakes(w) PROVE StepsFit'
  BY <1>0, <1>13, PlanIs DEF PoolTakes, Starts, WorkerGoes, fileVars, callVars, Typed,
     StepsFit, PhasesFit, WaitPcs, Hosts, Executors, Calls, HostPcs, ThreadPcs
<1>14. ASSUME NEW w \in Workers, PoolWaits(w) PROVE StepsFit'
  BY <1>0, <1>14, PlanIs DEF PoolWaits, WorkerGoes, queueVars, execVars, fileVars,
     callVars, Typed, StepsFit, PhasesFit, WaitPcs, Hosts, Executors, Calls, HostPcs,
     ThreadPcs
<1>15. ASSUME SerialLoop PROVE StepsFit'
  BY <1>0, <1>15, PlanIs DEF SerialLoop, WorkerGoes, ShuttingDown, queueVars, execVars,
     fileVars, callVars, Typed, StepsFit, PhasesFit, WaitPcs, Hosts, Executors, Calls,
     HostPcs, ThreadPcs
<1>16. ASSUME SerialTakes PROVE StepsFit'
  BY <1>0, <1>16, PlanIs DEF SerialTakes, Starts, WorkerGoes, fileVars, callVars, Typed,
     StepsFit, PhasesFit, WaitPcs, Hosts, Executors, Calls, HostPcs, ThreadPcs
<1>17. ASSUME SerialWaits PROVE StepsFit'
  BY <1>0, <1>17, PlanIs DEF SerialWaits, WorkerGoes, queueVars, execVars, fileVars,
     callVars, Typed, StepsFit, PhasesFit, WaitPcs, Hosts, Executors, Calls, HostPcs,
     ThreadPcs
<1>18. ASSUME NEW e \in Executors, RunFn(e) PROVE StepsFit'
  BY <1>0, <1>18, PlanIs DEF RunFn, DoneFirst, queueVars, hostVars, fileVars, callVars,
     Typed, StepsFit, PhasesFit, WaitPcs, Hosts, Executors, Calls, HostPcs, ThreadPcs
<1>19. ASSUME NEW e \in Executors, StoreDone(e) PROVE StepsFit'
  <2>1. /\ step[e] = "done" /\ step' = [step EXCEPT ![e] = "signal"]
        /\ done' = done \cup {doing[e]}
        /\ UNCHANGED <<plan, serialQueue, poolQueue, ioEvent, poolLock, wpc, doing, carried,
                       posted, postedRunning, runningThread, pc, request, eventOf, idle,
                       halted, phase>>
    BY <1>19, StoreDoneDoes
  <2> QED BY <1>0, <2>1, PlanIs DEF Typed, StepsFit, PhasesFit, WaitPcs, Hosts, Executors,
    Calls, HostPcs, ThreadPcs
<1>20. ASSUME NEW e \in Executors, SignalDone(e) PROVE StepsFit'
  <2>1. /\ step[e] = "signal" /\ Over(e)
        /\ UNCHANGED <<plan, serialQueue, poolQueue, ioEvent, poolLock, posted, postedRunning,
                       runningThread, request, eventOf, idle, done, halted, phase>>
    BY <1>20, SignalDoneDoes
  <2> QED BY <1>0, <2>1, PlanIs DEF Over, Typed, StepsFit, PhasesFit, WaitPcs, Hosts,
    Executors, Calls, HostPcs, ThreadPcs
<1>21. ASSUME NEW e \in Executors, NextRequest(e) PROVE StepsFit'
  BY <1>0, <1>21, PlanIs DEF NextRequest, queueVars, hostVars, callVars, Typed, StepsFit,
     PhasesFit, WaitPcs, Hosts, Executors, Calls, HostPcs, ThreadPcs
<1>22. ASSUME NEW e \in Executors, NoMoreRequests(e) PROVE StepsFit'
  <2>1. /\ step[e] \in {"loop", "request"} /\ Over(e) /\ posted[doing[e]] = <<>>
        /\ postedRunning' = postedRunning \ {doing[e]}
        /\ UNCHANGED <<plan, serialQueue, poolQueue, ioEvent, poolLock, posted,
                       request, eventOf, idle, done, halted, phase>>
    BY <1>22, NoMoreRequestsDoes
  <2> QED BY <1>0, <2>1, PlanIs DEF Over, Typed, StepsFit, PhasesFit, WaitPcs, Hosts,
    Executors, Calls, HostPcs, ThreadPcs
<1>23. ASSUME ShutdownBegins PROVE StepsFit'
  BY <1>0, <1>23, PlanIs DEF ShutdownBegins, ShutdownGoes, queueVars, hostVars, execVars,
     fileVars, callVars, Typed, StepsFit, PhasesFit, WaitPcs, Hosts, Executors, Calls,
     HostPcs, ThreadPcs
<1>24. ASSUME NudgeSerial PROVE StepsFit'
  BY <1>0, <1>24, PlanIs DEF NudgeSerial, ShutdownGoes, queueVars, execVars, fileVars,
     callVars, Typed, StepsFit, PhasesFit, WaitPcs, Hosts, Executors, Calls, HostPcs,
     ThreadPcs
<1>25. ASSUME NudgePool PROVE StepsFit'
  BY <1>0, <1>25, PlanIs DEF NudgePool, Sleepers, UnderLock, ShutdownGoes, queueVars,
     execVars, fileVars, callVars, Typed, StepsFit, PhasesFit, WaitPcs, Hosts, Executors,
     Calls, HostPcs, ThreadPcs
<1>26. ASSUME JoinDispatch PROVE StepsFit'
  BY <1>0, <1>26, PlanIs DEF JoinDispatch, ShutdownGoes, queueVars, hostVars, execVars,
     fileVars, callVars, Typed, StepsFit, PhasesFit, WaitPcs, Hosts, Executors, Calls,
     HostPcs, ThreadPcs
<1>27. ASSUME JoinWorkers PROVE StepsFit'
  BY <1>0, <1>27, PlanIs DEF JoinWorkers, WorkersJoined, ShutdownGoes, hostVars, execVars,
     fileVars, callVars, Typed, StepsFit, PhasesFit, WaitPcs, Hosts, Executors, Calls,
     HostPcs, ThreadPcs
<1> QED
  BY <1>1, <1>2, <1>3, <1>4, <1>5, <1>6, <1>7, <1>8, <1>9, <1>10, <1>11, <1>12, <1>13,
     <1>14, <1>15, <1>16, <1>17, <1>18, <1>19, <1>20, <1>21, <1>22, <1>23, <1>24, <1>25,
     <1>26, <1>27
  DEF Next, ThreadActs, PoolActs, SerialActs, Executes, Shutdown

(* Shutdown waits for all.                                                 *)
LEMMA ShutdownWaits ==
  ASSUME IInv, Next
  PROVE  PhasesFit'
<1>0. Typed /\ StepsFit /\ PhasesFit
  BY DEF IInv
<1>1. ASSUME NEW t \in Threads, NEW f \in Files, RunBlockingIo(t, f) PROVE PhasesFit'
  BY <1>0, <1>1, PlanIs DEF RunBlockingIo, Goes, queueVars, hostVars, execVars, fileVars,
     Typed, StepsFit, PhasesFit, WorkersJoined, Hosts, Executors
<1>2. ASSUME NEW t \in Threads, NEW f \in Files, PostIo(t, f) PROVE PhasesFit'
  BY <1>0, <1>2, PlanIs DEF PostIo, Marks, Goes, queueVars, hostVars, execVars, Typed,
     StepsFit, PhasesFit, WorkersJoined, Hosts, Executors
<1>3. ASSUME NEW t \in Threads, NEW f \in Files, CancelPostedIo(t, f) PROVE PhasesFit'
  BY <1>0, <1>3, PlanIs DEF CancelPostedIo, Goes, queueVars, hostVars, execVars, Typed,
     StepsFit, PhasesFit, WorkersJoined, Hosts, Executors
<1>4. ASSUME NEW t \in Threads, PostHostCall(t) PROVE PhasesFit'
  <2>1. \/ Posts(t, t, "post", "notify", "inline")
        \/ /\ request[t] \in Files
           /\ Posts(t, request[t], "postFile", "notifyFile", "inlineFile")
    BY <1>4, PostHostCallDoes
  <2>2. /\ t \notin halted /\ UNCHANGED <<halted, phase>>
        /\ \A u \in Threads : u # t => pc'[u] = pc[u]
    BY <1>0, <2>1 DEF Posts, Typed
  <2>3. phase \notin {"joined", "stopped"}
    BY <1>0, <2>2 DEF PhasesFit
  <2> QED BY <1>0, <2>2, <2>3 DEF PhasesFit, Typed
<1>5. ASSUME NEW t \in Threads, Notify(t) PROVE PhasesFit'
  <2>1. /\ pc[t] \in {"notify", "notifyFile"} /\ t \notin halted
        /\ \/ pc' = [pc EXCEPT ![t] = "test"] \/ pc' = [pc EXCEPT ![t] = "out"]
    BY <1>5 DEF Notify, Goes
  <2>2. /\ wpc' \in [Hosts -> HostPcs]
        /\ \A w \in Hosts : wpc'[w] = wpc[w] \/ (wpc[w] = "sleep" /\ wpc'[w] = "top")
    BY <1>0, <1>5 DEF Notify, Sleepers, WorkerGoes, Typed, Hosts, HostPcs
  <2>3. ioEvent' \in BOOLEAN
    BY <1>0, <1>5 DEF Notify, Typed
  <2>4. UNCHANGED <<plan, serialQueue, poolQueue, poolLock, doing, step, carried, posted,
                   postedRunning, runningThread, request, eventOf, idle, done, halted, phase>>
    BY <1>5 DEF Notify, queueVars, execVars, fileVars, callVars
  <2> QED BY <1>0, <2>1, <2>2, <2>3, <2>4 DEF Typed, StepsFit, PhasesFit, WorkersJoined,
    Hosts, Executors
<1>6. ASSUME NEW t \in Threads, TestDone(t) PROVE PhasesFit'
  BY <1>0, <1>6, PlanIs DEF TestDone, Goes, queueVars, hostVars, execVars, fileVars,
     callVars, Typed, StepsFit, PhasesFit, WorkersJoined, Hosts, Executors
<1>7. ASSUME NEW t \in Threads, WakesUp(t) PROVE PhasesFit'
  BY <1>0, <1>7, PlanIs DEF WakesUp, Awake, Goes, queueVars, hostVars, execVars, fileVars,
     callVars, Typed, StepsFit, PhasesFit, WorkersJoined, Hosts, Executors
<1>8. ASSUME NEW t \in Threads, ReleaseIoEvent(t) PROVE PhasesFit'
  BY <1>0, <1>8, PlanIs DEF ReleaseIoEvent, Goes, queueVars, hostVars, execVars, fileVars,
     Typed, StepsFit, PhasesFit, WorkersJoined, Hosts, Executors
<1>9. ASSUME NEW t \in Threads, Alerted(t) PROVE PhasesFit'
  BY <1>0, <1>9, PlanIs DEF Alerted, Goes, queueVars, hostVars, execVars, fileVars,
     callVars, Typed, StepsFit, PhasesFit, WorkersJoined, Hosts, Executors
<1>10. ASSUME NEW t \in Threads, CancelReturns(t) PROVE PhasesFit'
  BY <1>0, <1>10, PlanIs DEF CancelReturns, Goes, queueVars, hostVars, execVars, fileVars,
     callVars, Typed, StepsFit, PhasesFit, WorkersJoined, Hosts, Executors
<1>11. ASSUME NEW t \in Threads, Halt(t) PROVE PhasesFit'
  BY <1>0, <1>11, PlanIs DEF Halt, ShuttingDown, queueVars, hostVars, execVars, fileVars,
     callVars, Typed, StepsFit, PhasesFit, WorkersJoined, Hosts, Executors, ShuttingDown
<1>12. ASSUME NEW w \in Workers, PoolLoop(w) PROVE PhasesFit'
  BY <1>0, <1>12, PlanIs DEF PoolLoop, WorkerGoes, ShuttingDown, queueVars, execVars,
     fileVars, callVars, Typed, StepsFit, PhasesFit, WorkersJoined, Hosts, Executors,
     ShuttingDown
<1>13. ASSUME NEW w \in Workers, PoolTakes(w) PROVE PhasesFit'
  BY <1>0, <1>13, PlanIs DEF PoolTakes, Starts, WorkerGoes, fileVars, callVars, Typed,
     StepsFit, PhasesFit, WorkersJoined, Hosts, Executors
<1>14. ASSUME NEW w \in Workers, PoolWaits(w) PROVE PhasesFit'
  BY <1>0, <1>14, PlanIs DEF PoolWaits, WorkerGoes, queueVars, execVars, fileVars,
     callVars, Typed, StepsFit, PhasesFit, WorkersJoined, Hosts, Executors
<1>15. ASSUME SerialLoop PROVE PhasesFit'
  BY <1>0, <1>15, PlanIs DEF SerialLoop, WorkerGoes, ShuttingDown, queueVars, execVars,
     fileVars, callVars, Typed, StepsFit, PhasesFit, WorkersJoined, Hosts, Executors,
     ShuttingDown
<1>16. ASSUME SerialTakes PROVE PhasesFit'
  BY <1>0, <1>16, PlanIs DEF SerialTakes, Starts, WorkerGoes, fileVars, callVars, Typed,
     StepsFit, PhasesFit, WorkersJoined, Hosts, Executors
<1>17. ASSUME SerialWaits PROVE PhasesFit'
  BY <1>0, <1>17, PlanIs DEF SerialWaits, WorkerGoes, queueVars, execVars, fileVars,
     callVars, Typed, StepsFit, PhasesFit, WorkersJoined, Hosts, Executors
<1>18. ASSUME NEW e \in Executors, RunFn(e) PROVE PhasesFit'
  BY <1>0, <1>18, PlanIs DEF RunFn, DoneFirst, queueVars, hostVars, fileVars, callVars,
     Typed, StepsFit, PhasesFit, WorkersJoined, Hosts, Executors
<1>19. ASSUME NEW e \in Executors, StoreDone(e) PROVE PhasesFit'
  <2>1. /\ step[e] = "done" /\ step' = [step EXCEPT ![e] = "signal"]
        /\ done' = done \cup {doing[e]}
        /\ UNCHANGED <<plan, serialQueue, poolQueue, ioEvent, poolLock, wpc, doing, carried,
                       posted, postedRunning, runningThread, pc, request, eventOf, idle,
                       halted, phase>>
    BY <1>19, StoreDoneDoes
  <2> QED BY <1>0, <2>1, PlanIs DEF Typed, StepsFit, PhasesFit, WorkersJoined, Hosts,
    Executors
<1>20. ASSUME NEW e \in Executors, SignalDone(e) PROVE PhasesFit'
  <2>1. /\ step[e] = "signal" /\ Over(e)
        /\ UNCHANGED <<plan, serialQueue, poolQueue, ioEvent, poolLock, posted, postedRunning,
                       runningThread, request, eventOf, idle, done, halted, phase>>
    BY <1>20, SignalDoneDoes
  <2> QED BY <1>0, <2>1, PlanIs DEF Over, Typed, StepsFit, PhasesFit, WorkersJoined,
    Hosts, Executors
<1>21. ASSUME NEW e \in Executors, NextRequest(e) PROVE PhasesFit'
  BY <1>0, <1>21, PlanIs DEF NextRequest, queueVars, hostVars, callVars, Typed, StepsFit,
     PhasesFit, WorkersJoined, Hosts, Executors
<1>22. ASSUME NEW e \in Executors, NoMoreRequests(e) PROVE PhasesFit'
  <2>1. /\ step[e] \in {"loop", "request"} /\ Over(e) /\ posted[doing[e]] = <<>>
        /\ postedRunning' = postedRunning \ {doing[e]}
        /\ UNCHANGED <<plan, serialQueue, poolQueue, ioEvent, poolLock, posted,
                       request, eventOf, idle, done, halted, phase>>
    BY <1>22, NoMoreRequestsDoes
  <2> QED BY <1>0, <2>1, PlanIs DEF Over, Typed, StepsFit, PhasesFit, WorkersJoined,
    Hosts, Executors
<1>23. ASSUME ShutdownBegins PROVE PhasesFit'
  BY <1>0, <1>23, PlanIs DEF ShutdownBegins, ShutdownGoes, queueVars, hostVars, execVars,
     fileVars, callVars, Typed, StepsFit, PhasesFit, WorkersJoined, Hosts, Executors
<1>24. ASSUME NudgeSerial PROVE PhasesFit'
  BY <1>0, <1>24, PlanIs DEF NudgeSerial, ShutdownGoes, queueVars, execVars, fileVars,
     callVars, Typed, StepsFit, PhasesFit, WorkersJoined, Hosts, Executors
<1>25. ASSUME NudgePool PROVE PhasesFit'
  BY <1>0, <1>25, PlanIs DEF NudgePool, Sleepers, UnderLock, ShutdownGoes, queueVars,
     execVars, fileVars, callVars, Typed, StepsFit, PhasesFit, WorkersJoined, Hosts,
     Executors
<1>26. ASSUME JoinDispatch PROVE PhasesFit'
  BY <1>0, <1>26, PlanIs DEF JoinDispatch, ShutdownGoes, queueVars, hostVars, execVars,
     fileVars, callVars, Typed, StepsFit, PhasesFit, WorkersJoined, Hosts, Executors
<1>27. ASSUME JoinWorkers PROVE PhasesFit'
  BY <1>0, <1>27, PlanIs DEF JoinWorkers, WorkersJoined, ShutdownGoes, hostVars, execVars,
     fileVars, callVars, Typed, StepsFit, PhasesFit, WorkersJoined, Hosts, Executors
<1> QED
  BY <1>1, <1>2, <1>3, <1>4, <1>5, <1>6, <1>7, <1>8, <1>9, <1>10, <1>11, <1>12, <1>13,
     <1>14, <1>15, <1>16, <1>17, <1>18, <1>19, <1>20, <1>21, <1>22, <1>23, <1>24, <1>25,
     <1>26, <1>27
  DEF Next, ThreadActs, PoolActs, SerialActs, Executes, Shutdown

(* A call stays in one place.                                              *)
LEMMA PlacesAreOne ==
  ASSUME IInv, Next
  PROVE  OnePlace'
<1>0. Typed /\ StepsFit /\ PhasesFit /\ OnePlace /\ FramesHold /\ FilesHold
  BY DEF IInv
<1>1. ASSUME NEW t \in Threads, NEW f \in Files, RunBlockingIo(t, f) PROVE OnePlace'
  <2>1. OnePlace' /\ \A c \in Calls : Placed(c)' <=> Placed(c)
    BY <1>0, <1>1, UnmovedPlaces DEF RunBlockingIo, QueueStays, queueVars, execVars
  <2> QED BY <2>1
<1>2. ASSUME NEW t \in Threads, NEW f \in Files, PostIo(t, f) PROVE OnePlace'
  <2>1. OnePlace' /\ \A c \in Calls : Placed(c)' <=> Placed(c)
    BY <1>0, <1>2, UnmovedPlaces DEF PostIo, QueueStays, queueVars, execVars
  <2> QED BY <2>1
<1>3. ASSUME NEW t \in Threads, NEW f \in Files, CancelPostedIo(t, f) PROVE OnePlace'
  <2>1. OnePlace' /\ \A c \in Calls : Placed(c)' <=> Placed(c)
    BY <1>0, <1>3, UnmovedPlaces DEF CancelPostedIo, QueueStays, queueVars, execVars
  <2> QED BY <2>1
<1>4. ASSUME NEW t \in Threads, PostHostCall(t) PROVE OnePlace'
  <2>1. \/ Posts(t, t, "post", "notify", "inline")
        \/ /\ request[t] \in Files
           /\ Posts(t, request[t], "postFile", "notifyFile", "inlineFile")
    BY <1>4, PostHostCallDoes
  <2>2. CASE Posts(t, t, "post", "notify", "inline")
    <3>1. t \in Calls /\ ~Placed(t) /\ step[t] = "none"
      BY <1>0, <2>2 DEF Posts, FramesHold, FilesHold, Posting, StepsFit, Calls
    <3>2. OnePlace' /\ \A x \in Calls : Placed(x)' <=> Placed(x) \/ x = t
      BY <2>2, <3>1, PostedPlaces
    <3> QED BY <3>2
  <2>3. CASE request[t] \in Files /\ Posts(t, request[t], "postFile", "notifyFile", "inlineFile")
    <3>1. request[t] \in Calls /\ ~Placed(request[t]) /\ step[t] = "none"
      BY <1>0, <2>3 DEF Posts, FramesHold, FilesHold, Posting, StepsFit, Calls
    <3>2. OnePlace' /\ \A x \in Calls : Placed(x)' <=> Placed(x) \/ x = request[t]
      BY <2>3, <3>1, PostedPlaces
    <3> QED BY <3>2
  <2> QED BY <2>1, <2>2, <2>3
<1>5. ASSUME NEW t \in Threads, Notify(t) PROVE OnePlace'
  <2>1. OnePlace' /\ \A c \in Calls : Placed(c)' <=> Placed(c)
    BY <1>0, <1>5, UnmovedPlaces DEF Notify, QueueStays, queueVars, execVars
  <2> QED BY <2>1
<1>6. ASSUME NEW t \in Threads, TestDone(t) PROVE OnePlace'
  <2>1. OnePlace' /\ \A c \in Calls : Placed(c)' <=> Placed(c)
    BY <1>0, <1>6, UnmovedPlaces DEF TestDone, QueueStays, queueVars, execVars
  <2> QED BY <2>1
<1>7. ASSUME NEW t \in Threads, WakesUp(t) PROVE OnePlace'
  <2>1. OnePlace' /\ \A c \in Calls : Placed(c)' <=> Placed(c)
    BY <1>0, <1>7, UnmovedPlaces DEF WakesUp, QueueStays, queueVars, execVars
  <2> QED BY <2>1
<1>8. ASSUME NEW t \in Threads, ReleaseIoEvent(t) PROVE OnePlace'
  <2>1. OnePlace' /\ \A c \in Calls : Placed(c)' <=> Placed(c)
    BY <1>0, <1>8, UnmovedPlaces DEF ReleaseIoEvent, QueueStays, queueVars, execVars
  <2> QED BY <2>1
<1>9. ASSUME NEW t \in Threads, Alerted(t) PROVE OnePlace'
  <2>1. OnePlace' /\ \A c \in Calls : Placed(c)' <=> Placed(c)
    BY <1>0, <1>9, UnmovedPlaces DEF Alerted, QueueStays, queueVars, execVars
  <2> QED BY <2>1
<1>10. ASSUME NEW t \in Threads, CancelReturns(t) PROVE OnePlace'
  <2>1. OnePlace' /\ \A c \in Calls : Placed(c)' <=> Placed(c)
    BY <1>0, <1>10, UnmovedPlaces DEF CancelReturns, QueueStays, queueVars, execVars
  <2> QED BY <2>1
<1>11. ASSUME NEW t \in Threads, Halt(t) PROVE OnePlace'
  <2>1. OnePlace' /\ \A c \in Calls : Placed(c)' <=> Placed(c)
    BY <1>0, <1>11, UnmovedPlaces DEF Halt, QueueStays, queueVars, execVars
  <2> QED BY <2>1
<1>12. ASSUME NEW w \in Workers, PoolLoop(w) PROVE OnePlace'
  <2>1. OnePlace' /\ \A c \in Calls : Placed(c)' <=> Placed(c)
    BY <1>0, <1>12, UnmovedPlaces DEF PoolLoop, QueueStays, queueVars, execVars
  <2> QED BY <2>1
<1>13. ASSUME NEW w \in Workers, PoolTakes(w) PROVE OnePlace'
  <2>1. w \in Hosts /\ wpc[w] = "look" /\ Starts(w, Head(poolQueue)) /\ QueueLoses(Head(poolQueue))
    BY <1>13 DEF PoolTakes, WorkerGoes, QueueLoses, Hosts
  <2>2. OnePlace' /\ \A x \in Calls : Placed(x)' <=> Placed(x)
    BY <2>1, TakenPlaces
  <2> QED BY <2>2
<1>14. ASSUME NEW w \in Workers, PoolWaits(w) PROVE OnePlace'
  <2>1. OnePlace' /\ \A c \in Calls : Placed(c)' <=> Placed(c)
    BY <1>0, <1>14, UnmovedPlaces DEF PoolWaits, QueueStays, queueVars, execVars
  <2> QED BY <2>1
<1>15. ASSUME SerialLoop PROVE OnePlace'
  <2>1. OnePlace' /\ \A c \in Calls : Placed(c)' <=> Placed(c)
    BY <1>0, <1>15, UnmovedPlaces DEF SerialLoop, QueueStays, queueVars, execVars
  <2> QED BY <2>1
<1>16. ASSUME SerialTakes PROVE OnePlace'
  <2>1. Serial \in Hosts /\ wpc[Serial] = "look" /\ Starts(Serial, Head(serialQueue))
        /\ QueueLoses(Head(serialQueue))
    BY <1>16 DEF SerialTakes, WorkerGoes, QueueLoses, Hosts
  <2>2. OnePlace' /\ \A x \in Calls : Placed(x)' <=> Placed(x)
    BY <2>1, TakenPlaces
  <2> QED BY <2>2
<1>17. ASSUME SerialWaits PROVE OnePlace'
  <2>1. OnePlace' /\ \A c \in Calls : Placed(c)' <=> Placed(c)
    BY <1>0, <1>17, UnmovedPlaces DEF SerialWaits, QueueStays, queueVars, execVars
  <2> QED BY <2>1
<1>18. ASSUME NEW e \in Executors, RunFn(e) PROVE OnePlace'
  <2>1. OnePlace' /\ \A c \in Calls : Placed(c)' <=> Placed(c)
    BY <1>18, RunningPlaces
  <2> QED BY <2>1
<1>19. ASSUME NEW e \in Executors, StoreDone(e) PROVE OnePlace'
  <2>1. /\ step[e] = "done" /\ step' = [step EXCEPT ![e] = "signal"]
        /\ done' = done \cup {doing[e]}
        /\ UNCHANGED <<plan, serialQueue, poolQueue, ioEvent, poolLock, wpc, doing, carried,
                       posted, postedRunning, runningThread, pc, request, eventOf, idle,
                       halted, phase>>
    BY <1>19, StoreDoneDoes
  <2>2. OnePlace' /\ \A x \in Calls : Placed(x)' <=> Placed(x) /\ ~Live(e, x)
    BY <2>1, StoredPlaces DEF QueueStays
  <2> QED BY <2>2
<1>20. ASSUME NEW e \in Executors, SignalDone(e) PROVE OnePlace'
  <2>1. /\ step[e] = "signal" /\ Over(e)
        /\ UNCHANGED <<plan, serialQueue, poolQueue, ioEvent, poolLock, posted, postedRunning,
                       runningThread, request, eventOf, idle, done, halted, phase>>
    BY <1>20, SignalDoneDoes
  <2>2. OnePlace' /\ \A x \in Calls : Placed(x)' <=> Placed(x) /\ ~Live(e, x)
    BY <2>1, EndedPlaces DEF QueueStays
  <2> QED BY <2>2
<1>21. ASSUME NEW e \in Executors, NextRequest(e) PROVE OnePlace'
  <2>1. OnePlace' /\ \A c \in Calls : Placed(c)' <=> Placed(c)
    BY <1>21, RunningPlaces
  <2> QED BY <2>1
<1>22. ASSUME NEW e \in Executors, NoMoreRequests(e) PROVE OnePlace'
  <2>1. /\ step[e] \in {"loop", "request"} /\ Over(e) /\ posted[doing[e]] = <<>>
        /\ postedRunning' = postedRunning \ {doing[e]}
        /\ UNCHANGED <<plan, serialQueue, poolQueue, ioEvent, poolLock, posted,
                       request, eventOf, idle, done, halted, phase>>
    BY <1>22, NoMoreRequestsDoes
  <2>2. OnePlace' /\ \A x \in Calls : Placed(x)' <=> Placed(x) /\ ~Live(e, x)
    BY <2>1, EndedPlaces DEF QueueStays
  <2> QED BY <2>2
<1>23. ASSUME ShutdownBegins PROVE OnePlace'
  <2>1. OnePlace' /\ \A c \in Calls : Placed(c)' <=> Placed(c)
    BY <1>0, <1>23, UnmovedPlaces DEF ShutdownBegins, QueueStays, queueVars, execVars
  <2> QED BY <2>1
<1>24. ASSUME NudgeSerial PROVE OnePlace'
  <2>1. OnePlace' /\ \A c \in Calls : Placed(c)' <=> Placed(c)
    BY <1>0, <1>24, UnmovedPlaces DEF NudgeSerial, QueueStays, queueVars, execVars
  <2> QED BY <2>1
<1>25. ASSUME NudgePool PROVE OnePlace'
  <2>1. OnePlace' /\ \A c \in Calls : Placed(c)' <=> Placed(c)
    BY <1>0, <1>25, UnmovedPlaces DEF NudgePool, QueueStays, queueVars, execVars
  <2> QED BY <2>1
<1>26. ASSUME JoinDispatch PROVE OnePlace'
  <2>1. OnePlace' /\ \A c \in Calls : Placed(c)' <=> Placed(c)
    BY <1>0, <1>26, UnmovedPlaces DEF JoinDispatch, QueueStays, queueVars, execVars
  <2> QED BY <2>1
<1>27. ASSUME JoinWorkers PROVE OnePlace'
  <2>1. OnePlace' /\ \A x \in Calls : ~Placed(x)'
    BY <1>27, DroppedPlaces
  <2> QED BY <2>1
<1> QED
  BY <1>1, <1>2, <1>3, <1>4, <1>5, <1>6, <1>7, <1>8, <1>9, <1>10, <1>11, <1>12, <1>13,
     <1>14, <1>15, <1>16, <1>17, <1>18, <1>19, <1>20, <1>21, <1>22, <1>23, <1>24, <1>25,
     <1>26, <1>27
  DEF Next, ThreadActs, PoolActs, SerialActs, Executes, Shutdown

(* A thread waits for its call.                                            *)
LEMMA FramesAreHeld ==
  ASSUME IInv, Next
  PROVE  FramesHold'
<1>0. Typed /\ StepsFit /\ PhasesFit /\ OnePlace /\ FramesHold /\ FilesHold
  BY DEF IInv
<1>1. ASSUME NEW t \in Threads, NEW f \in Files, RunBlockingIo(t, f) PROVE FramesHold'
  <2>1. OnePlace' /\ \A c \in Calls : Placed(c)' <=> Placed(c)
    BY <1>0, <1>1, UnmovedPlaces DEF RunBlockingIo, QueueStays, queueVars, execVars
  <2> QED BY <1>0, <1>1, <2>1, PlanIs DEF RunBlockingIo, Goes, queueVars, hostVars,
    execVars, fileVars, FramesHold, Typed, Calls
<1>2. ASSUME NEW t \in Threads, NEW f \in Files, PostIo(t, f) PROVE FramesHold'
  <2>1. OnePlace' /\ \A c \in Calls : Placed(c)' <=> Placed(c)
    BY <1>0, <1>2, UnmovedPlaces DEF PostIo, QueueStays, queueVars, execVars
  <2> QED BY <1>0, <1>2, <2>1, PlanIs DEF PostIo, Marks, Goes, queueVars, hostVars,
    execVars, FramesHold, Typed, Calls
<1>3. ASSUME NEW t \in Threads, NEW f \in Files, CancelPostedIo(t, f) PROVE FramesHold'
  <2>1. OnePlace' /\ \A c \in Calls : Placed(c)' <=> Placed(c)
    BY <1>0, <1>3, UnmovedPlaces DEF CancelPostedIo, QueueStays, queueVars, execVars
  <2> QED BY <1>0, <1>3, <2>1, PlanIs DEF CancelPostedIo, Goes, queueVars, hostVars,
    execVars, FramesHold, Typed, Calls
<1>4. ASSUME NEW t \in Threads, PostHostCall(t) PROVE FramesHold'
  <2>1. \/ Posts(t, t, "post", "notify", "inline")
        \/ /\ request[t] \in Files
           /\ Posts(t, request[t], "postFile", "notifyFile", "inlineFile")
    BY <1>4, PostHostCallDoes
  <2>2. CASE Posts(t, t, "post", "notify", "inline")
    <3>1. t \in Calls /\ ~Placed(t) /\ step[t] = "none"
      BY <1>0, <2>2 DEF Posts, FramesHold, FilesHold, Posting, StepsFit, Calls
    <3>2. OnePlace' /\ \A x \in Calls : Placed(x)' <=> Placed(x) \/ x = t
      BY <2>2, <3>1, PostedPlaces
    <3>3. /\ UNCHANGED <<request, postedRunning, posted, phase, done>> /\ pc[t] = "post"
          /\ \A u \in Threads : u # t => pc'[u] = pc[u]
          /\ pc'[t] \in {"notify", "inline"}
      BY <1>0, <2>2 DEF Posts, Typed
    <3> QED BY <1>0, <2>2, <3>1, <3>2, <3>3, PlanIs DEF FramesHold, Typed, Calls
  <2>3. CASE request[t] \in Files /\ Posts(t, request[t], "postFile", "notifyFile", "inlineFile")
    <3>1. request[t] \in Calls /\ ~Placed(request[t]) /\ step[t] = "none"
      BY <1>0, <2>3 DEF Posts, FramesHold, FilesHold, Posting, StepsFit, Calls
    <3>2. OnePlace' /\ \A x \in Calls : Placed(x)' <=> Placed(x) \/ x = request[t]
      BY <2>3, <3>1, PostedPlaces
    <3>3. /\ UNCHANGED <<request, postedRunning, posted, phase, done>> /\ pc[t] = "postFile"
          /\ \A u \in Threads : u # t => pc'[u] = pc[u]
          /\ pc'[t] \in {"notifyFile", "inlineFile"}
      BY <1>0, <2>3 DEF Posts, Typed
    <3> QED BY <1>0, <2>3, <3>1, <3>2, <3>3, PlanIs, SMTT(30) DEF FramesHold, Typed, Calls
  <2> QED BY <2>1, <2>2, <2>3
<1>5. ASSUME NEW t \in Threads, Notify(t) PROVE FramesHold'
  <2>1. OnePlace' /\ \A c \in Calls : Placed(c)' <=> Placed(c)
    BY <1>0, <1>5, UnmovedPlaces DEF Notify, QueueStays, queueVars, execVars
  <2> QED BY <1>0, <1>5, <2>1, PlanIs DEF Notify, Sleepers, Goes, WorkerGoes, queueVars,
    execVars, fileVars, callVars, FramesHold, Typed, Calls
<1>6. ASSUME NEW t \in Threads, TestDone(t) PROVE FramesHold'
  <2>1. OnePlace' /\ \A c \in Calls : Placed(c)' <=> Placed(c)
    BY <1>0, <1>6, UnmovedPlaces DEF TestDone, QueueStays, queueVars, execVars
  <2> QED BY <1>0, <1>6, <2>1, PlanIs DEF TestDone, Goes, queueVars, hostVars, execVars,
    fileVars, callVars, FramesHold, Typed, Calls
<1>7. ASSUME NEW t \in Threads, WakesUp(t) PROVE FramesHold'
  <2>1. OnePlace' /\ \A c \in Calls : Placed(c)' <=> Placed(c)
    BY <1>0, <1>7, UnmovedPlaces DEF WakesUp, QueueStays, queueVars, execVars
  <2> QED BY <1>0, <1>7, <2>1, PlanIs DEF WakesUp, Awake, Goes, queueVars, hostVars,
    execVars, fileVars, callVars, FramesHold, Typed, Calls
<1>8. ASSUME NEW t \in Threads, ReleaseIoEvent(t) PROVE FramesHold'
  <2>1. OnePlace' /\ \A c \in Calls : Placed(c)' <=> Placed(c)
    BY <1>0, <1>8, UnmovedPlaces DEF ReleaseIoEvent, QueueStays, queueVars, execVars
  <2> QED BY <1>0, <1>8, <2>1, PlanIs DEF ReleaseIoEvent, Goes, queueVars, hostVars,
    execVars, fileVars, FramesHold, Typed, Calls
<1>9. ASSUME NEW t \in Threads, Alerted(t) PROVE FramesHold'
  <2>1. OnePlace' /\ \A c \in Calls : Placed(c)' <=> Placed(c)
    BY <1>0, <1>9, UnmovedPlaces DEF Alerted, QueueStays, queueVars, execVars
  <2> QED BY <1>0, <1>9, <2>1, PlanIs DEF Alerted, Goes, queueVars, hostVars, execVars,
    fileVars, callVars, FramesHold, Typed, Calls
<1>10. ASSUME NEW t \in Threads, CancelReturns(t) PROVE FramesHold'
  <2>1. OnePlace' /\ \A c \in Calls : Placed(c)' <=> Placed(c)
    BY <1>0, <1>10, UnmovedPlaces DEF CancelReturns, QueueStays, queueVars, execVars
  <2> QED BY <1>0, <1>10, <2>1, PlanIs DEF CancelReturns, Goes, queueVars, hostVars,
    execVars, fileVars, callVars, FramesHold, Typed, Calls
<1>11. ASSUME NEW t \in Threads, Halt(t) PROVE FramesHold'
  <2>1. OnePlace' /\ \A c \in Calls : Placed(c)' <=> Placed(c)
    BY <1>0, <1>11, UnmovedPlaces DEF Halt, QueueStays, queueVars, execVars
  <2> QED BY <1>0, <1>11, <2>1, PlanIs DEF Halt, ShuttingDown, queueVars, hostVars,
    execVars, fileVars, callVars, FramesHold, Typed, Calls
<1>12. ASSUME NEW w \in Workers, PoolLoop(w) PROVE FramesHold'
  <2>1. OnePlace' /\ \A c \in Calls : Placed(c)' <=> Placed(c)
    BY <1>0, <1>12, UnmovedPlaces DEF PoolLoop, QueueStays, queueVars, execVars
  <2> QED BY <1>0, <1>12, <2>1, PlanIs DEF PoolLoop, WorkerGoes, ShuttingDown, queueVars,
    execVars, fileVars, callVars, FramesHold, Typed, Calls
<1>13. ASSUME NEW w \in Workers, PoolTakes(w) PROVE FramesHold'
  <2>1. w \in Hosts /\ wpc[w] = "look" /\ Starts(w, Head(poolQueue)) /\ QueueLoses(Head(poolQueue))
    BY <1>13 DEF PoolTakes, WorkerGoes, QueueLoses, Hosts
  <2>2. OnePlace' /\ \A x \in Calls : Placed(x)' <=> Placed(x)
    BY <2>1, TakenPlaces
  <2> QED BY <1>0, <1>13, <2>2 DEF PoolTakes, fileVars, callVars, FramesHold, Typed, Calls
<1>14. ASSUME NEW w \in Workers, PoolWaits(w) PROVE FramesHold'
  <2>1. OnePlace' /\ \A c \in Calls : Placed(c)' <=> Placed(c)
    BY <1>0, <1>14, UnmovedPlaces DEF PoolWaits, QueueStays, queueVars, execVars
  <2> QED BY <1>0, <1>14, <2>1, PlanIs DEF PoolWaits, WorkerGoes, queueVars, execVars,
    fileVars, callVars, FramesHold, Typed, Calls
<1>15. ASSUME SerialLoop PROVE FramesHold'
  <2>1. OnePlace' /\ \A c \in Calls : Placed(c)' <=> Placed(c)
    BY <1>0, <1>15, UnmovedPlaces DEF SerialLoop, QueueStays, queueVars, execVars
  <2> QED BY <1>0, <1>15, <2>1, PlanIs DEF SerialLoop, WorkerGoes, ShuttingDown,
    queueVars, execVars, fileVars, callVars, FramesHold, Typed, Calls
<1>16. ASSUME SerialTakes PROVE FramesHold'
  <2>1. Serial \in Hosts /\ wpc[Serial] = "look" /\ Starts(Serial, Head(serialQueue))
        /\ QueueLoses(Head(serialQueue))
    BY <1>16 DEF SerialTakes, WorkerGoes, QueueLoses, Hosts
  <2>2. OnePlace' /\ \A x \in Calls : Placed(x)' <=> Placed(x)
    BY <2>1, TakenPlaces
  <2> QED BY <1>0, <1>16, <2>2 DEF SerialTakes, fileVars, callVars, FramesHold, Typed,
    Calls
<1>17. ASSUME SerialWaits PROVE FramesHold'
  <2>1. OnePlace' /\ \A c \in Calls : Placed(c)' <=> Placed(c)
    BY <1>0, <1>17, UnmovedPlaces DEF SerialWaits, QueueStays, queueVars, execVars
  <2> QED BY <1>0, <1>17, <2>1, PlanIs DEF SerialWaits, WorkerGoes, queueVars,
    execVars, fileVars, callVars, FramesHold, Typed, Calls
<1>18. ASSUME NEW e \in Executors, RunFn(e) PROVE FramesHold'
  <2>1. OnePlace' /\ \A c \in Calls : Placed(c)' <=> Placed(c)
    BY <1>18, RunningPlaces
  <2> QED BY <1>0, <1>18, <2>1, PlanIs DEF RunFn, queueVars, hostVars, fileVars, callVars,
    FramesHold, Typed, Calls
<1>19. ASSUME NEW e \in Executors, StoreDone(e) PROVE FramesHold'
  <2>1. /\ step[e] = "done" /\ step' = [step EXCEPT ![e] = "signal"]
        /\ done' = done \cup {doing[e]}
        /\ UNCHANGED <<plan, serialQueue, poolQueue, ioEvent, poolLock, wpc, doing, carried,
                       posted, postedRunning, runningThread, pc, request, eventOf, idle,
                       halted, phase>>
    BY <1>19, StoreDoneDoes
  <2>2. OnePlace' /\ \A x \in Calls : Placed(x)' <=> Placed(x) /\ ~Live(e, x)
    BY <2>1, StoredPlaces DEF QueueStays
  <2>3. doing[e] \in Threads /\ Live(e, doing[e]) /\ Placed(doing[e])
    BY <1>0, <2>1 DEF StepsFit, Live, Placed
  <2> QED BY <1>0, <2>1, <2>2, <2>3, PlanIs DEF FramesHold, Typed, Calls, Live
<1>20. ASSUME NEW e \in Executors, SignalDone(e) PROVE FramesHold'
  <2>1. /\ step[e] = "signal" /\ Over(e)
        /\ UNCHANGED <<plan, serialQueue, poolQueue, ioEvent, poolLock, posted, postedRunning,
                       runningThread, request, eventOf, idle, done, halted, phase>>
    BY <1>20, SignalDoneDoes
  <2>2. OnePlace' /\ \A x \in Calls : Placed(x)' <=> Placed(x) /\ ~Live(e, x)
    BY <2>1, EndedPlaces DEF QueueStays
  <2>3. \A x : ~Live(e, x)
    BY <2>1 DEF Live
  <2>4. \A t \in Threads : pc'[t] = pc[t] \/ (pc[t] = "inline" /\ pc'[t] = "test")
    BY <1>0, <2>1 DEF Over, StepsFit, Typed
  <2> QED BY <1>0, <2>1, <2>2, <2>3, <2>4 DEF FramesHold, Typed, Calls
<1>21. ASSUME NEW e \in Executors, NextRequest(e) PROVE FramesHold'
  <2>1. OnePlace' /\ \A c \in Calls : Placed(c)' <=> Placed(c)
    BY <1>21, RunningPlaces
  <2> QED BY <1>0, <1>21, <2>1, PlanIs DEF NextRequest, queueVars, hostVars, callVars,
    FramesHold, Typed, Calls
<1>22. ASSUME NEW e \in Executors, NoMoreRequests(e) PROVE FramesHold'
  <2>1. /\ step[e] \in {"loop", "request"} /\ Over(e) /\ posted[doing[e]] = <<>>
        /\ postedRunning' = postedRunning \ {doing[e]}
        /\ UNCHANGED <<plan, serialQueue, poolQueue, ioEvent, poolLock, posted,
                       request, eventOf, idle, done, halted, phase>>
    BY <1>22, NoMoreRequestsDoes
  <2>2. OnePlace' /\ \A x \in Calls : Placed(x)' <=> Placed(x) /\ ~Live(e, x)
    BY <2>1, EndedPlaces DEF QueueStays
  <2>3. doing[e] \in Files /\ Live(e, doing[e]) /\ Placed(doing[e])
    BY <1>0, <2>1 DEF StepsFit, Live, Placed
  <2>4. \A t \in Threads : pc'[t] = pc[t] \/ (pc[t] = "inlineFile" /\ pc'[t] = "out")
    BY <1>0, <2>1 DEF Over, StepsFit, Typed
  <2>5. \A x \in Calls : x # doing[e] => ~Live(e, x)
    BY DEF Live
  <2> QED BY <1>0, <2>1, <2>2, <2>3, <2>4, <2>5, PlanIs DEF FramesHold, Typed, Calls
<1>23. ASSUME ShutdownBegins PROVE FramesHold'
  <2>1. OnePlace' /\ \A c \in Calls : Placed(c)' <=> Placed(c)
    BY <1>0, <1>23, UnmovedPlaces DEF ShutdownBegins, QueueStays, queueVars, execVars
  <2> QED BY <1>0, <1>23, <2>1, PlanIs DEF ShutdownBegins, ShutdownGoes, queueVars,
    hostVars, execVars, fileVars, callVars, FramesHold, Typed, Calls
<1>24. ASSUME NudgeSerial PROVE FramesHold'
  <2>1. OnePlace' /\ \A c \in Calls : Placed(c)' <=> Placed(c)
    BY <1>0, <1>24, UnmovedPlaces DEF NudgeSerial, QueueStays, queueVars, execVars
  <2> QED BY <1>0, <1>24, <2>1, PlanIs DEF NudgeSerial, ShutdownGoes, queueVars, execVars,
    fileVars, callVars, FramesHold, Typed, Calls
<1>25. ASSUME NudgePool PROVE FramesHold'
  <2>1. OnePlace' /\ \A c \in Calls : Placed(c)' <=> Placed(c)
    BY <1>0, <1>25, UnmovedPlaces DEF NudgePool, QueueStays, queueVars, execVars
  <2> QED BY <1>0, <1>25, <2>1, PlanIs DEF NudgePool, Sleepers, UnderLock, ShutdownGoes,
    queueVars, execVars, fileVars, callVars, FramesHold, Typed, Calls
<1>26. ASSUME JoinDispatch PROVE FramesHold'
  <2>1. OnePlace' /\ \A c \in Calls : Placed(c)' <=> Placed(c)
    BY <1>0, <1>26, UnmovedPlaces DEF JoinDispatch, QueueStays, queueVars, execVars
  <2> QED BY <1>0, <1>26, <2>1, PlanIs DEF JoinDispatch, ShutdownGoes, queueVars,
    hostVars, execVars, fileVars, callVars, FramesHold, Typed, Calls
<1>27. ASSUME JoinWorkers PROVE FramesHold'
  <2>1. OnePlace' /\ \A x \in Calls : ~Placed(x)'
    BY <1>27, DroppedPlaces
  <2>2. /\ \A t \in Threads : pc[t] \in {"out", "sleeping", "cancelling"}
        /\ phase' = "stopped"
    BY <1>0, <1>27 DEF PhasesFit, JoinWorkers, ShutdownGoes
  <2> QED BY <1>0, <1>27, <2>1, <2>2 DEF JoinWorkers, fileVars, callVars, FramesHold,
    Typed, Calls
<1> QED
  BY <1>1, <1>2, <1>3, <1>4, <1>5, <1>6, <1>7, <1>8, <1>9, <1>10, <1>11, <1>12, <1>13,
     <1>14, <1>15, <1>16, <1>17, <1>18, <1>19, <1>20, <1>21, <1>22, <1>23, <1>24, <1>25,
     <1>26, <1>27
  DEF Next, ThreadActs, PoolActs, SerialActs, Executes, Shutdown

(* A file knows of its call.                                               *)
LEMMA FilesAreHeld ==
  ASSUME IInv, Next
  PROVE  FilesHold'
<1>0. Typed /\ StepsFit /\ PhasesFit /\ OnePlace /\ FramesHold /\ FilesHold
  BY DEF IInv
<1>1. ASSUME NEW t \in Threads, NEW f \in Files, RunBlockingIo(t, f) PROVE FilesHold'
  <2>1. OnePlace' /\ \A c \in Calls : Placed(c)' <=> Placed(c)
    BY <1>0, <1>1, UnmovedPlaces DEF RunBlockingIo, QueueStays, queueVars, execVars
  <2> QED BY <1>0, <1>1, <2>1, PlanIs DEF RunBlockingIo, Goes, queueVars, hostVars,
    execVars, fileVars, FilesHold, Posting, Typed, Calls
<1>2. ASSUME NEW t \in Threads, NEW f \in Files, PostIo(t, f) PROVE FilesHold'
  <2>1. OnePlace' /\ \A c \in Calls : Placed(c)' <=> Placed(c)
    BY <1>0, <1>2, UnmovedPlaces DEF PostIo, QueueStays, queueVars, execVars
  <2> QED BY <1>0, <1>2, <2>1, PlanIs DEF PostIo, Marks, Goes, queueVars, hostVars,
    execVars, FilesHold, Posting, Typed, Calls
<1>3. ASSUME NEW t \in Threads, NEW f \in Files, CancelPostedIo(t, f) PROVE FilesHold'
  <2>1. OnePlace' /\ \A c \in Calls : Placed(c)' <=> Placed(c)
    BY <1>0, <1>3, UnmovedPlaces DEF CancelPostedIo, QueueStays, queueVars, execVars
  <2>2. \A g \in Files : posted'[g] # <<>> => posted[g] # <<>>
    <3>1. CASE HasQueued(t, f)
      <4>1. posted[f] # <<>> /\ \A g \in Files : g # f => posted'[g] = posted[g]
        BY <1>0, <1>3, <3>1 DEF CancelPostedIo, HasQueued, Typed
      <4> QED BY <4>1
    <3>2. CASE ~HasQueued(t, f)
      BY <1>3, <3>2 DEF CancelPostedIo
    <3> QED BY <3>1, <3>2
  <2>3. /\ \A u \in Threads, g \in Files : Posting(u, g)' <=> Posting(u, g)
        /\ UNCHANGED <<postedRunning, phase>>
    BY <1>0, <1>3 DEF CancelPostedIo, Goes, Typed, Posting
  <2> QED BY <1>0, <2>1, <2>2, <2>3 DEF FilesHold, Calls
<1>4. ASSUME NEW t \in Threads, PostHostCall(t) PROVE FilesHold'
  <2>1. \/ Posts(t, t, "post", "notify", "inline")
        \/ /\ request[t] \in Files
           /\ Posts(t, request[t], "postFile", "notifyFile", "inlineFile")
    BY <1>4, PostHostCallDoes
  <2>2. CASE Posts(t, t, "post", "notify", "inline")
    <3>1. t \in Calls /\ ~Placed(t) /\ step[t] = "none"
      BY <1>0, <2>2 DEF Posts, FramesHold, FilesHold, Posting, StepsFit, Calls
    <3>2. OnePlace' /\ \A x \in Calls : Placed(x)' <=> Placed(x) \/ x = t
      BY <2>2, <3>1, PostedPlaces
    <3>3. /\ UNCHANGED <<request, postedRunning, posted, phase, done>> /\ pc[t] = "post"
          /\ \A u \in Threads : u # t => pc'[u] = pc[u]
          /\ pc'[t] \in {"notify", "inline"}
      BY <1>0, <2>2 DEF Posts, Typed
    <3> QED BY <1>0, <2>2, <3>1, <3>2, <3>3, PlanIs, SMTT(30) DEF FilesHold, Posting, Typed, Calls
  <2>3. CASE request[t] \in Files /\ Posts(t, request[t], "postFile", "notifyFile", "inlineFile")
    <3>1. request[t] \in Calls /\ ~Placed(request[t]) /\ step[t] = "none"
      BY <1>0, <2>3 DEF Posts, FramesHold, FilesHold, Posting, StepsFit, Calls
    <3>2. OnePlace' /\ \A x \in Calls : Placed(x)' <=> Placed(x) \/ x = request[t]
      BY <2>3, <3>1, PostedPlaces
    <3>3. /\ UNCHANGED <<request, postedRunning, posted, phase, done>> /\ pc[t] = "postFile"
          /\ \A u \in Threads : u # t => pc'[u] = pc[u]
          /\ pc'[t] \in {"notifyFile", "inlineFile"}
      BY <1>0, <2>3 DEF Posts, Typed
    <3>4. \A u \in Threads, g \in Files : Posting(u, g)' <=> Posting(u, g) /\ u # t
      BY <3>3 DEF Posting
    <3>5. Posting(t, request[t])
      BY <3>3 DEF Posting
    <3>6. \A g \in Files : Posting(t, g) => g = request[t]
      BY DEF Posting
    <3> QED BY <1>0, <2>3, <3>1, <3>2, <3>3, <3>4, <3>5, <3>6 DEF FilesHold, Calls
  <2> QED BY <2>1, <2>2, <2>3
<1>5. ASSUME NEW t \in Threads, Notify(t) PROVE FilesHold'
  <2>1. OnePlace' /\ \A c \in Calls : Placed(c)' <=> Placed(c)
    BY <1>0, <1>5, UnmovedPlaces DEF Notify, QueueStays, queueVars, execVars
  <2> QED BY <1>0, <1>5, <2>1, PlanIs DEF Notify, Sleepers, Goes, WorkerGoes, queueVars,
    execVars, fileVars, callVars, FilesHold, Posting, Typed, Calls
<1>6. ASSUME NEW t \in Threads, TestDone(t) PROVE FilesHold'
  <2>1. OnePlace' /\ \A c \in Calls : Placed(c)' <=> Placed(c)
    BY <1>0, <1>6, UnmovedPlaces DEF TestDone, QueueStays, queueVars, execVars
  <2> QED BY <1>0, <1>6, <2>1, PlanIs DEF TestDone, Goes, queueVars, hostVars, execVars,
    fileVars, callVars, FilesHold, Posting, Typed, Calls
<1>7. ASSUME NEW t \in Threads, WakesUp(t) PROVE FilesHold'
  <2>1. OnePlace' /\ \A c \in Calls : Placed(c)' <=> Placed(c)
    BY <1>0, <1>7, UnmovedPlaces DEF WakesUp, QueueStays, queueVars, execVars
  <2> QED BY <1>0, <1>7, <2>1, PlanIs DEF WakesUp, Awake, Goes, queueVars, hostVars,
    execVars, fileVars, callVars, FilesHold, Posting, Typed, Calls
<1>8. ASSUME NEW t \in Threads, ReleaseIoEvent(t) PROVE FilesHold'
  <2>1. OnePlace' /\ \A c \in Calls : Placed(c)' <=> Placed(c)
    BY <1>0, <1>8, UnmovedPlaces DEF ReleaseIoEvent, QueueStays, queueVars, execVars
  <2> QED BY <1>0, <1>8, <2>1, PlanIs DEF ReleaseIoEvent, Goes, queueVars, hostVars,
    execVars, fileVars, FilesHold, Posting, Typed, Calls
<1>9. ASSUME NEW t \in Threads, Alerted(t) PROVE FilesHold'
  <2>1. OnePlace' /\ \A c \in Calls : Placed(c)' <=> Placed(c)
    BY <1>0, <1>9, UnmovedPlaces DEF Alerted, QueueStays, queueVars, execVars
  <2> QED BY <1>0, <1>9, <2>1, PlanIs DEF Alerted, Goes, queueVars, hostVars, execVars,
    fileVars, callVars, FilesHold, Posting, Typed, Calls
<1>10. ASSUME NEW t \in Threads, CancelReturns(t) PROVE FilesHold'
  <2>1. OnePlace' /\ \A c \in Calls : Placed(c)' <=> Placed(c)
    BY <1>0, <1>10, UnmovedPlaces DEF CancelReturns, QueueStays, queueVars, execVars
  <2> QED BY <1>0, <1>10, <2>1, PlanIs DEF CancelReturns, Goes, queueVars, hostVars,
    execVars, fileVars, callVars, FilesHold, Posting, Typed, Calls
<1>11. ASSUME NEW t \in Threads, Halt(t) PROVE FilesHold'
  <2>1. OnePlace' /\ \A c \in Calls : Placed(c)' <=> Placed(c)
    BY <1>0, <1>11, UnmovedPlaces DEF Halt, QueueStays, queueVars, execVars
  <2> QED BY <1>0, <1>11, <2>1, PlanIs DEF Halt, ShuttingDown, queueVars, hostVars,
    execVars, fileVars, callVars, FilesHold, Posting, Typed, Calls
<1>12. ASSUME NEW w \in Workers, PoolLoop(w) PROVE FilesHold'
  <2>1. OnePlace' /\ \A c \in Calls : Placed(c)' <=> Placed(c)
    BY <1>0, <1>12, UnmovedPlaces DEF PoolLoop, QueueStays, queueVars, execVars
  <2> QED BY <1>0, <1>12, <2>1, PlanIs DEF PoolLoop, WorkerGoes, ShuttingDown, queueVars,
    execVars, fileVars, callVars, FilesHold, Posting, Typed, Calls
<1>13. ASSUME NEW w \in Workers, PoolTakes(w) PROVE FilesHold'
  <2>1. w \in Hosts /\ wpc[w] = "look" /\ Starts(w, Head(poolQueue)) /\ QueueLoses(Head(poolQueue))
    BY <1>13 DEF PoolTakes, WorkerGoes, QueueLoses, Hosts
  <2>2. OnePlace' /\ \A x \in Calls : Placed(x)' <=> Placed(x)
    BY <2>1, TakenPlaces
  <2> QED BY <1>0, <1>13, <2>2 DEF PoolTakes, fileVars, callVars, FilesHold, Posting,
    Typed, Calls
<1>14. ASSUME NEW w \in Workers, PoolWaits(w) PROVE FilesHold'
  <2>1. OnePlace' /\ \A c \in Calls : Placed(c)' <=> Placed(c)
    BY <1>0, <1>14, UnmovedPlaces DEF PoolWaits, QueueStays, queueVars, execVars
  <2> QED BY <1>0, <1>14, <2>1, PlanIs DEF PoolWaits, WorkerGoes, queueVars, execVars,
    fileVars, callVars, FilesHold, Posting, Typed, Calls
<1>15. ASSUME SerialLoop PROVE FilesHold'
  <2>1. OnePlace' /\ \A c \in Calls : Placed(c)' <=> Placed(c)
    BY <1>0, <1>15, UnmovedPlaces DEF SerialLoop, QueueStays, queueVars, execVars
  <2> QED BY <1>0, <1>15, <2>1, PlanIs DEF SerialLoop, WorkerGoes, ShuttingDown,
    queueVars, execVars, fileVars, callVars, FilesHold, Posting, Typed, Calls
<1>16. ASSUME SerialTakes PROVE FilesHold'
  <2>1. Serial \in Hosts /\ wpc[Serial] = "look" /\ Starts(Serial, Head(serialQueue))
        /\ QueueLoses(Head(serialQueue))
    BY <1>16 DEF SerialTakes, WorkerGoes, QueueLoses, Hosts
  <2>2. OnePlace' /\ \A x \in Calls : Placed(x)' <=> Placed(x)
    BY <2>1, TakenPlaces
  <2> QED BY <1>0, <1>16, <2>2 DEF SerialTakes, fileVars, callVars, FilesHold, Posting,
    Typed, Calls
<1>17. ASSUME SerialWaits PROVE FilesHold'
  <2>1. OnePlace' /\ \A c \in Calls : Placed(c)' <=> Placed(c)
    BY <1>0, <1>17, UnmovedPlaces DEF SerialWaits, QueueStays, queueVars, execVars
  <2> QED BY <1>0, <1>17, <2>1, PlanIs DEF SerialWaits, WorkerGoes, queueVars,
    execVars, fileVars, callVars, FilesHold, Posting, Typed, Calls
<1>18. ASSUME NEW e \in Executors, RunFn(e) PROVE FilesHold'
  <2>1. OnePlace' /\ \A c \in Calls : Placed(c)' <=> Placed(c)
    BY <1>18, RunningPlaces
  <2> QED BY <1>0, <1>18, <2>1, PlanIs DEF RunFn, queueVars, hostVars, fileVars, callVars,
    FilesHold, Posting, Typed, Calls
<1>19. ASSUME NEW e \in Executors, StoreDone(e) PROVE FilesHold'
  <2>1. /\ step[e] = "done" /\ step' = [step EXCEPT ![e] = "signal"]
        /\ done' = done \cup {doing[e]}
        /\ UNCHANGED <<plan, serialQueue, poolQueue, ioEvent, poolLock, wpc, doing, carried,
                       posted, postedRunning, runningThread, pc, request, eventOf, idle,
                       halted, phase>>
    BY <1>19, StoreDoneDoes
  <2>2. OnePlace' /\ \A x \in Calls : Placed(x)' <=> Placed(x) /\ ~Live(e, x)
    BY <2>1, StoredPlaces DEF QueueStays
  <2>3. doing[e] \in Threads /\ Live(e, doing[e]) /\ Placed(doing[e])
    BY <1>0, <2>1 DEF StepsFit, Live, Placed
  <2> QED BY <1>0, <2>1, <2>2, <2>3, PlanIs DEF FilesHold, Posting, Typed, Calls, Live
<1>20. ASSUME NEW e \in Executors, SignalDone(e) PROVE FilesHold'
  <2>1. /\ step[e] = "signal" /\ Over(e)
        /\ UNCHANGED <<plan, serialQueue, poolQueue, ioEvent, poolLock, posted, postedRunning,
                       runningThread, request, eventOf, idle, done, halted, phase>>
    BY <1>20, SignalDoneDoes
  <2>2. OnePlace' /\ \A x \in Calls : Placed(x)' <=> Placed(x) /\ ~Live(e, x)
    BY <2>1, EndedPlaces DEF QueueStays
  <2>3. \A x : ~Live(e, x)
    BY <2>1 DEF Live
  <2>4. \A t \in Threads : pc'[t] = pc[t] \/ (pc[t] = "inline" /\ pc'[t] = "test")
    BY <1>0, <2>1 DEF Over, StepsFit, Typed
  <2> QED BY <1>0, <2>1, <2>2, <2>3, <2>4 DEF FilesHold, Posting, Typed, Calls
<1>21. ASSUME NEW e \in Executors, NextRequest(e) PROVE FilesHold'
  <2>1. OnePlace' /\ \A c \in Calls : Placed(c)' <=> Placed(c)
    BY <1>21, RunningPlaces
  <2>2. /\ DOMAIN posted' = Files /\ \A f \in Files : posted'[f] # <<>> => posted[f] # <<>>
        /\ UNCHANGED <<postedRunning, phase, pc, request>>
    BY <1>0, <1>21 DEF NextRequest, Typed, callVars
  <2> QED BY <1>0, <2>1, <2>2 DEF FilesHold, Posting, Calls
<1>22. ASSUME NEW e \in Executors, NoMoreRequests(e) PROVE FilesHold'
  <2>1. /\ step[e] \in {"loop", "request"} /\ Over(e) /\ posted[doing[e]] = <<>>
        /\ postedRunning' = postedRunning \ {doing[e]}
        /\ UNCHANGED <<plan, serialQueue, poolQueue, ioEvent, poolLock, posted,
                       request, eventOf, idle, done, halted, phase>>
    BY <1>22, NoMoreRequestsDoes
  <2>2. OnePlace' /\ \A x \in Calls : Placed(x)' <=> Placed(x) /\ ~Live(e, x)
    BY <2>1, EndedPlaces DEF QueueStays
  <2>3. doing[e] \in Files /\ Live(e, doing[e]) /\ Placed(doing[e])
    BY <1>0, <2>1 DEF StepsFit, Live, Placed
  <2>4. \A t \in Threads : pc'[t] = pc[t] \/ (pc[t] = "inlineFile" /\ pc'[t] = "out")
    BY <1>0, <2>1 DEF Over, StepsFit, Typed
  <2>5. \A x \in Calls : x # doing[e] => ~Live(e, x)
    BY DEF Live
  <2> QED BY <1>0, <2>1, <2>2, <2>3, <2>4, <2>5, PlanIs, SMTT(30) DEF FilesHold, Posting, Typed,
    Calls
<1>23. ASSUME ShutdownBegins PROVE FilesHold'
  <2>1. OnePlace' /\ \A c \in Calls : Placed(c)' <=> Placed(c)
    BY <1>0, <1>23, UnmovedPlaces DEF ShutdownBegins, QueueStays, queueVars, execVars
  <2> QED BY <1>0, <1>23, <2>1, PlanIs DEF ShutdownBegins, ShutdownGoes, queueVars,
    hostVars, execVars, fileVars, callVars, FilesHold, Posting, Typed, Calls
<1>24. ASSUME NudgeSerial PROVE FilesHold'
  <2>1. OnePlace' /\ \A c \in Calls : Placed(c)' <=> Placed(c)
    BY <1>0, <1>24, UnmovedPlaces DEF NudgeSerial, QueueStays, queueVars, execVars
  <2> QED BY <1>0, <1>24, <2>1, PlanIs DEF NudgeSerial, ShutdownGoes, queueVars, execVars,
    fileVars, callVars, FilesHold, Posting, Typed, Calls
<1>25. ASSUME NudgePool PROVE FilesHold'
  <2>1. OnePlace' /\ \A c \in Calls : Placed(c)' <=> Placed(c)
    BY <1>0, <1>25, UnmovedPlaces DEF NudgePool, QueueStays, queueVars, execVars
  <2> QED BY <1>0, <1>25, <2>1, PlanIs DEF NudgePool, Sleepers, UnderLock, ShutdownGoes,
    queueVars, execVars, fileVars, callVars, FilesHold, Posting, Typed, Calls
<1>26. ASSUME JoinDispatch PROVE FilesHold'
  <2>1. OnePlace' /\ \A c \in Calls : Placed(c)' <=> Placed(c)
    BY <1>0, <1>26, UnmovedPlaces DEF JoinDispatch, QueueStays, queueVars, execVars
  <2> QED BY <1>0, <1>26, <2>1, PlanIs DEF JoinDispatch, ShutdownGoes, queueVars,
    hostVars, execVars, fileVars, callVars, FilesHold, Posting, Typed, Calls
<1>27. ASSUME JoinWorkers PROVE FilesHold'
  <2>1. OnePlace' /\ \A x \in Calls : ~Placed(x)'
    BY <1>27, DroppedPlaces
  <2>2. /\ \A t \in Threads : pc[t] \in {"out", "sleeping", "cancelling"}
        /\ phase' = "stopped"
    BY <1>0, <1>27 DEF PhasesFit, JoinWorkers, ShutdownGoes
  <2> QED BY <1>0, <1>27, <2>1, <2>2 DEF JoinWorkers, fileVars, callVars, FilesHold,
    Posting, Typed, Calls
<1> QED
  BY <1>1, <1>2, <1>3, <1>4, <1>5, <1>6, <1>7, <1>8, <1>9, <1>10, <1>11, <1>12, <1>13,
     <1>14, <1>15, <1>16, <1>17, <1>18, <1>19, <1>20, <1>21, <1>22, <1>23, <1>24, <1>25,
     <1>26, <1>27
  DEF Next, ThreadActs, PoolActs, SerialActs, Executes, Shutdown

(* The pool grows in time.                                                 *)
LEMMA PoolIsHeld ==
  ASSUME IInv, Next
  PROVE  PoolHolds'
<1>0. Typed /\ StepsFit /\ PhasesFit /\ PoolHolds
  BY DEF IInv
<1>1. ASSUME NEW t \in Threads, NEW f \in Files, RunBlockingIo(t, f) PROVE PoolHolds'
  <2>1. Started' = Started /\ Busy' = Busy
    BY <1>0, <1>1, PlanIs DEF RunBlockingIo, Goes, hostVars, Typed, Hosts, Started, Busy
  <2>2. UNCHANGED <<plan, poolQueue>> /\ (ShuttingDown => ShuttingDown')
    BY <1>1 DEF RunBlockingIo, Goes, queueVars, ShuttingDown
  <2> QED BY <1>0, <2>1, <2>2, PoolRests
<1>2. ASSUME NEW t \in Threads, NEW f \in Files, PostIo(t, f) PROVE PoolHolds'
  <2>1. Started' = Started /\ Busy' = Busy
    BY <1>0, <1>2, PlanIs DEF PostIo, Marks, Goes, hostVars, Typed, Hosts, Started, Busy
  <2>2. UNCHANGED <<plan, poolQueue>> /\ (ShuttingDown => ShuttingDown')
    BY <1>2 DEF PostIo, Marks, Goes, queueVars, ShuttingDown
  <2> QED BY <1>0, <2>1, <2>2, PoolRests
<1>3. ASSUME NEW t \in Threads, NEW f \in Files, CancelPostedIo(t, f) PROVE PoolHolds'
  <2>1. Started' = Started /\ Busy' = Busy
    BY <1>0, <1>3, PlanIs DEF CancelPostedIo, Goes, hostVars, Typed, Hosts, Started, Busy
  <2>2. UNCHANGED <<plan, poolQueue>> /\ (ShuttingDown => ShuttingDown')
    BY <1>3 DEF CancelPostedIo, Goes, queueVars, ShuttingDown
  <2> QED BY <1>0, <2>1, <2>2, PoolRests
<1>4. ASSUME NEW t \in Threads, PostHostCall(t) PROVE PoolHolds'
  <2>1. plan' = plan /\ (ShuttingDown <=> ShuttingDown')
    BY <1>4 DEF PostHostCall, Enqueue, ShuttingDown
  <2>2. CASE ShuttingDown
    <3>1. Started' \cap Workers = Started
      BY <1>0, <1>4, <2>2, PlanIs DEF PostHostCall, Enqueue, EnsureIoWorker, Started,
         Typed, Hosts
    <3> QED BY <1>0, <2>1, <2>2, <3>1 DEF PoolHolds, NoCallHeldUp, Started
  <2>3. CASE ~ShuttingDown
    <3>1. \/ StartPoolWorker(poolQueue') /\ \E c \in Calls : poolQueue' = Append(poolQueue, c)
          \/ EnsureIoWorker /\ UNCHANGED poolQueue
      <4>1. CASE Enqueue(t, t, "post", "notify", "inline")
        BY <2>3, <4>1 DEF Enqueue, Calls
      <4>2. CASE Enqueue(t, request[t], "postFile", "notifyFile", "inlineFile")
        <5>1. request[t] \in Calls
          BY <1>0, <4>2 DEF Enqueue, Goes, StepsFit, Calls
        <5> QED BY <2>3, <4>2, <5>1 DEF Enqueue
      <4> QED BY <1>4, <4>1, <4>2 DEF PostHostCall
    <3> QED BY <2>1, <2>3, <3>1, PoolGrows
  <2> QED BY <2>2, <2>3
<1>5. ASSUME NEW t \in Threads, Notify(t) PROVE PoolHolds'
  <2>1. Started' = Started /\ Busy' = Busy
    BY <1>0, <1>5, PlanIs DEF Notify, Sleepers, Goes, WorkerGoes, Typed, Hosts, Started,
       Busy
  <2>2. UNCHANGED <<plan, poolQueue>> /\ (ShuttingDown => ShuttingDown')
    BY <1>5 DEF Notify, Sleepers, Goes, WorkerGoes, queueVars, ShuttingDown
  <2> QED BY <1>0, <2>1, <2>2, PoolRests
<1>6. ASSUME NEW t \in Threads, TestDone(t) PROVE PoolHolds'
  <2>1. Started' = Started /\ Busy' = Busy
    BY <1>0, <1>6, PlanIs DEF TestDone, Goes, hostVars, Typed, Hosts, Started, Busy
  <2>2. UNCHANGED <<plan, poolQueue>> /\ (ShuttingDown => ShuttingDown')
    BY <1>6 DEF TestDone, Goes, queueVars, ShuttingDown
  <2> QED BY <1>0, <2>1, <2>2, PoolRests
<1>7. ASSUME NEW t \in Threads, WakesUp(t) PROVE PoolHolds'
  <2>1. Started' = Started /\ Busy' = Busy
    BY <1>0, <1>7, PlanIs DEF WakesUp, Awake, Goes, hostVars, Typed, Hosts, Started, Busy
  <2>2. UNCHANGED <<plan, poolQueue>> /\ (ShuttingDown => ShuttingDown')
    BY <1>7 DEF WakesUp, Awake, Goes, queueVars, ShuttingDown
  <2> QED BY <1>0, <2>1, <2>2, PoolRests
<1>8. ASSUME NEW t \in Threads, ReleaseIoEvent(t) PROVE PoolHolds'
  <2>1. Started' = Started /\ Busy' = Busy
    BY <1>0, <1>8, PlanIs DEF ReleaseIoEvent, Goes, hostVars, Typed, Hosts, Started, Busy
  <2>2. UNCHANGED <<plan, poolQueue>> /\ (ShuttingDown => ShuttingDown')
    BY <1>8 DEF ReleaseIoEvent, Goes, queueVars, ShuttingDown
  <2> QED BY <1>0, <2>1, <2>2, PoolRests
<1>9. ASSUME NEW t \in Threads, Alerted(t) PROVE PoolHolds'
  <2>1. Started' = Started /\ Busy' = Busy
    BY <1>0, <1>9, PlanIs DEF Alerted, Goes, hostVars, Typed, Hosts, Started, Busy
  <2>2. UNCHANGED <<plan, poolQueue>> /\ (ShuttingDown => ShuttingDown')
    BY <1>9 DEF Alerted, Goes, queueVars, ShuttingDown
  <2> QED BY <1>0, <2>1, <2>2, PoolRests
<1>10. ASSUME NEW t \in Threads, CancelReturns(t) PROVE PoolHolds'
  <2>1. Started' = Started /\ Busy' = Busy
    BY <1>0, <1>10, PlanIs DEF CancelReturns, Goes, hostVars, Typed, Hosts, Started, Busy
  <2>2. UNCHANGED <<plan, poolQueue>> /\ (ShuttingDown => ShuttingDown')
    BY <1>10 DEF CancelReturns, Goes, queueVars, ShuttingDown
  <2> QED BY <1>0, <2>1, <2>2, PoolRests
<1>11. ASSUME NEW t \in Threads, Halt(t) PROVE PoolHolds'
  <2>1. Started' = Started /\ Busy' = Busy
    BY <1>0, <1>11, PlanIs DEF Halt, ShuttingDown, hostVars, Typed, Hosts, Started, Busy
  <2>2. UNCHANGED <<plan, poolQueue>> /\ (ShuttingDown => ShuttingDown')
    BY <1>11 DEF Halt, ShuttingDown, queueVars, ShuttingDown
  <2> QED BY <1>0, <2>1, <2>2, PoolRests
<1>12. ASSUME NEW w \in Workers, PoolLoop(w) PROVE PoolHolds'
  <2>1. Started' = Started /\ Busy' = Busy
    BY <1>0, <1>12, PlanIs DEF PoolLoop, WorkerGoes, ShuttingDown, Typed, Hosts, Started,
       Busy
  <2>2. UNCHANGED <<plan, poolQueue>> /\ (ShuttingDown => ShuttingDown')
    BY <1>12 DEF PoolLoop, WorkerGoes, ShuttingDown, queueVars, ShuttingDown
  <2> QED BY <1>0, <2>1, <2>2, PoolRests
<1>13. ASSUME NEW w \in Workers, PoolTakes(w) PROVE PoolHolds'
  <2>1. wpc[w] = "look" /\ wpc' = [wpc EXCEPT ![w] = "run"] /\ poolQueue' = Tail(poolQueue)
        /\ poolQueue # <<>> /\ UNCHANGED <<plan, phase>>
    BY <1>13 DEF PoolTakes, WorkerGoes
  <2>2. Started' = Started /\ Busy' = Busy \cup {w} /\ w \notin Busy
    BY <1>0, <2>1 DEF Typed, Started, Busy, Hosts
  <2>3. Cardinality(Busy') = Cardinality(Busy) + 1
    BY <2>2, PoolIsFinite, FS_AddElement
  <2>4. Len(poolQueue') = Len(poolQueue) - 1 /\ Len(poolQueue) \in Nat
    BY <1>0, <2>1 DEF Typed
  <2> QED BY <1>0, <2>1, <2>2, <2>3, <2>4, PoolIsFinite DEF PoolHolds, NoCallHeldUp,
    ShuttingDown
<1>14. ASSUME NEW w \in Workers, PoolWaits(w) PROVE PoolHolds'
  <2>1. Started' = Started /\ Busy' = Busy
    BY <1>0, <1>14, PlanIs DEF PoolWaits, WorkerGoes, Typed, Hosts, Started, Busy
  <2>2. UNCHANGED <<plan, poolQueue>> /\ (ShuttingDown => ShuttingDown')
    BY <1>14 DEF PoolWaits, WorkerGoes, queueVars, ShuttingDown
  <2> QED BY <1>0, <2>1, <2>2, PoolRests
<1>15. ASSUME SerialLoop PROVE PoolHolds'
  <2>1. Started' = Started /\ Busy' = Busy
    BY <1>0, <1>15, PlanIs DEF SerialLoop, WorkerGoes, ShuttingDown, Typed, Hosts,
       Started, Busy
  <2>2. UNCHANGED <<plan, poolQueue>> /\ (ShuttingDown => ShuttingDown')
    BY <1>15 DEF SerialLoop, WorkerGoes, ShuttingDown, queueVars, ShuttingDown
  <2> QED BY <1>0, <2>1, <2>2, PoolRests
<1>16. ASSUME SerialTakes PROVE PoolHolds'
  <2>1. Started' = Started /\ Busy' = Busy
    BY <1>0, <1>16, PlanIs DEF SerialTakes, Starts, WorkerGoes, Typed, Hosts, Started,
       Busy
  <2>2. UNCHANGED <<plan, poolQueue>> /\ (ShuttingDown => ShuttingDown')
    BY <1>16 DEF SerialTakes, Starts, WorkerGoes, ShuttingDown
  <2> QED BY <1>0, <2>1, <2>2, PoolRests
<1>17. ASSUME SerialWaits PROVE PoolHolds'
  <2>1. Started' = Started /\ Busy' = Busy
    BY <1>0, <1>17, PlanIs DEF SerialWaits, WorkerGoes, Typed, Hosts, Started, Busy
  <2>2. UNCHANGED <<plan, poolQueue>> /\ (ShuttingDown => ShuttingDown')
    BY <1>17 DEF SerialWaits, WorkerGoes, queueVars, ShuttingDown
  <2> QED BY <1>0, <2>1, <2>2, PoolRests
<1>18. ASSUME NEW e \in Executors, RunFn(e) PROVE PoolHolds'
  <2>1. Started' = Started /\ Busy' = Busy
    BY <1>0, <1>18, PlanIs DEF RunFn, DoneFirst, StepsFit, hostVars, Typed, Hosts,
       Started, Busy
  <2>2. UNCHANGED <<plan, poolQueue>> /\ (ShuttingDown => ShuttingDown')
    BY <1>18 DEF RunFn, DoneFirst, queueVars, ShuttingDown
  <2> QED BY <1>0, <2>1, <2>2, PoolRests
<1>19. ASSUME NEW e \in Executors, StoreDone(e) PROVE PoolHolds'
  <2>1. Started' = Started /\ Busy' = Busy
    BY <1>0, <1>19, PlanIs DEF StoreDone, Then, DoneFirst, Ends, Goes, WorkerGoes,
       StepsFit, Typed, Hosts, Started, Busy
  <2>2. UNCHANGED <<plan, poolQueue>> /\ (ShuttingDown => ShuttingDown')
    BY <1>19 DEF StoreDone, Then, DoneFirst, Ends, Goes, WorkerGoes, queueVars,
       ShuttingDown
  <2> QED BY <1>0, <2>1, <2>2, PoolRests
<1>20. ASSUME NEW e \in Executors, SignalDone(e) PROVE PoolHolds'
  <2>1. /\ step[e] = "signal" /\ Over(e)
        /\ UNCHANGED <<plan, serialQueue, poolQueue, ioEvent, poolLock, posted, postedRunning,
                       runningThread, request, eventOf, idle, done, halted, phase>>
    BY <1>20, SignalDoneDoes
  <2>2. /\ \/ UNCHANGED wpc
           \/ e \in Hosts /\ wpc[e] = "run" /\ wpc' = [wpc EXCEPT ![e] = "top"]
        /\ UNCHANGED <<plan, poolQueue, phase>>
    BY <2>1 DEF Over
  <2>3. CASE e \in Workers /\ wpc[e] = "run" /\ wpc' = [wpc EXCEPT ![e] = "top"]
    <3>1. Started' = Started /\ Busy' = Busy \ {e} /\ e \in Busy
      BY <1>0, <2>3 DEF Typed, Started, Busy, Hosts
    <3>2. Cardinality(Busy') = Cardinality(Busy) - 1
      BY <3>1, PoolIsFinite, FS_RemoveElement
    <3>3. Len(poolQueue) \in Nat
      BY <1>0 DEF Typed
    <3> QED BY <1>0, <2>2, <3>1, <3>2, <3>3, PoolIsFinite DEF PoolHolds, NoCallHeldUp,
      ShuttingDown
  <2>4. CASE UNCHANGED wpc \/ e = Serial
    <3>1. Started' = Started /\ Busy' = Busy
      BY <1>0, <2>2, <2>4, PlanIs DEF Typed, Started, Busy, Hosts
    <3> QED BY <1>0, <2>2, <3>1, PoolRests DEF ShuttingDown
  <2> QED BY <2>2, <2>3, <2>4 DEF Hosts
<1>21. ASSUME NEW e \in Executors, NextRequest(e) PROVE PoolHolds'
  <2>1. Started' = Started /\ Busy' = Busy
    BY <1>0, <1>21, PlanIs DEF NextRequest, StepsFit, hostVars, Typed, Hosts, Started,
       Busy
  <2>2. UNCHANGED <<plan, poolQueue>> /\ (ShuttingDown => ShuttingDown')
    BY <1>21 DEF NextRequest, queueVars, ShuttingDown
  <2> QED BY <1>0, <2>1, <2>2, PoolRests
<1>22. ASSUME NEW e \in Executors, NoMoreRequests(e) PROVE PoolHolds'
  <2>1. /\ step[e] \in {"loop", "request"} /\ Over(e) /\ posted[doing[e]] = <<>>
        /\ postedRunning' = postedRunning \ {doing[e]}
        /\ UNCHANGED <<plan, serialQueue, poolQueue, ioEvent, poolLock, posted,
                       request, eventOf, idle, done, halted, phase>>
    BY <1>22, NoMoreRequestsDoes
  <2>2. /\ \/ UNCHANGED wpc
           \/ e \in Hosts /\ wpc[e] = "run" /\ wpc' = [wpc EXCEPT ![e] = "top"]
        /\ UNCHANGED <<plan, poolQueue, phase>>
    BY <2>1 DEF Over
  <2>3. CASE e \in Workers /\ wpc[e] = "run" /\ wpc' = [wpc EXCEPT ![e] = "top"]
    <3>1. Started' = Started /\ Busy' = Busy \ {e} /\ e \in Busy
      BY <1>0, <2>3 DEF Typed, Started, Busy, Hosts
    <3>2. Cardinality(Busy') = Cardinality(Busy) - 1
      BY <3>1, PoolIsFinite, FS_RemoveElement
    <3>3. Len(poolQueue) \in Nat
      BY <1>0 DEF Typed
    <3> QED BY <1>0, <2>2, <3>1, <3>2, <3>3, PoolIsFinite DEF PoolHolds, NoCallHeldUp,
      ShuttingDown
  <2>4. CASE UNCHANGED wpc \/ e = Serial
    <3>1. Started' = Started /\ Busy' = Busy
      BY <1>0, <2>2, <2>4, PlanIs DEF Typed, Started, Busy, Hosts
    <3> QED BY <1>0, <2>2, <3>1, PoolRests DEF ShuttingDown
  <2> QED BY <2>2, <2>3, <2>4 DEF Hosts
<1>23. ASSUME ShutdownBegins PROVE PoolHolds'
  <2>1. Started' = Started /\ Busy' = Busy
    BY <1>0, <1>23, PlanIs DEF ShutdownBegins, ShutdownGoes, hostVars, Typed, Hosts,
       Started, Busy
  <2>2. UNCHANGED <<plan, poolQueue>> /\ (ShuttingDown => ShuttingDown')
    BY <1>23 DEF ShutdownBegins, ShutdownGoes, queueVars, ShuttingDown
  <2> QED BY <1>0, <2>1, <2>2, PoolRests
<1>24. ASSUME NudgeSerial PROVE PoolHolds'
  <2>1. Started' = Started /\ Busy' = Busy
    BY <1>0, <1>24, PlanIs DEF NudgeSerial, ShutdownGoes, Typed, Hosts, Started, Busy
  <2>2. UNCHANGED <<plan, poolQueue>> /\ (ShuttingDown => ShuttingDown')
    BY <1>24 DEF NudgeSerial, ShutdownGoes, queueVars, ShuttingDown
  <2> QED BY <1>0, <2>1, <2>2, PoolRests
<1>25. ASSUME NudgePool PROVE PoolHolds'
  <2>1. Started' = Started /\ Busy' = Busy
    BY <1>0, <1>25, PlanIs DEF NudgePool, Sleepers, UnderLock, ShutdownGoes, Typed, Hosts,
       Started, Busy
  <2>2. UNCHANGED <<plan, poolQueue>> /\ (ShuttingDown => ShuttingDown')
    BY <1>25 DEF NudgePool, Sleepers, UnderLock, ShutdownGoes, queueVars, ShuttingDown
  <2> QED BY <1>0, <2>1, <2>2, PoolRests
<1>26. ASSUME JoinDispatch PROVE PoolHolds'
  <2>1. Started' = Started /\ Busy' = Busy
    BY <1>0, <1>26, PlanIs DEF JoinDispatch, ShutdownGoes, hostVars, Typed, Hosts,
       Started, Busy
  <2>2. UNCHANGED <<plan, poolQueue>> /\ (ShuttingDown => ShuttingDown')
    BY <1>26 DEF JoinDispatch, ShutdownGoes, queueVars, ShuttingDown
  <2> QED BY <1>0, <2>1, <2>2, PoolRests
<1>27. ASSUME JoinWorkers PROVE PoolHolds'
  <2>1. Started' = Started /\ ShuttingDown' /\ plan' = plan
    BY <1>27 DEF JoinWorkers, ShutdownGoes, ShuttingDown, Started, hostVars
  <2> QED BY <1>0, <2>1 DEF PoolHolds, NoCallHeldUp
<1> QED
  BY <1>1, <1>2, <1>3, <1>4, <1>5, <1>6, <1>7, <1>8, <1>9, <1>10, <1>11, <1>12, <1>13,
     <1>14, <1>15, <1>16, <1>17, <1>18, <1>19, <1>20, <1>21, <1>22, <1>23, <1>24, <1>25,
     <1>26, <1>27
  DEF Next, ThreadActs, PoolActs, SerialActs, Executes, Shutdown

-----------------------------------------------------------------------------
(* The invariant is inductive.                                             *)
LEMMA StartsWell ==
  ASSUME Init
  PROVE  IInv
<1>1. Typed /\ PhasesFit /\ StepsFit
  <2>1. Typed
    <3>1. serialQueue \in Seq(Calls) /\ poolQueue \in Seq(Calls)
      BY DEF Init
    <3> QED BY <3>1 DEF Init, Typed, HostPcs, Steps, ThreadPcs, Phases
  <2>2. PhasesFit
    BY DEF Init, PhasesFit
  <2>3. StepsFit
    BY DEF Init, StepsFit, WaitPcs, Executors
  <2> QED BY <2>1, <2>2, <2>3
<1>2. /\ \A x : ~In(x, serialQueue) /\ ~In(x, poolQueue)
      /\ Distinct(serialQueue) /\ Distinct(poolQueue)
  BY DEF Init, In, Distinct
<1>3. \A e \in Executors, c \in Calls : ~Live(e, c)
  BY IoAssumption DEF Init, Live, Calls
<1>4. \A c \in Calls : ~Placed(c)
  BY <1>2, <1>3 DEF Placed, Queued
<1>5. OnePlace /\ FramesHold /\ FilesHold
  BY <1>2, <1>3, <1>4 DEF OnePlace, FramesHold, FilesHold, Init, Posting, Calls
<1>6. PoolHolds
  <2>1. Started = {} /\ Busy = {} /\ poolQueue = <<>>
    BY DEF Init, Started, Busy, Hosts
  <2>2. Len(poolQueue) <= Cardinality(Started) - Cardinality(Busy)
    BY <2>1, FS_EmptySet
  <2> QED BY <2>1, <2>2 DEF PoolHolds, NoCallHeldUp
<1> QED BY <1>1, <1>5, <1>6 DEF IInv

(* Every step keeps the invariant.                                          *)
LEMMA StepKeeps ==
  ASSUME IInv, [Next]_vars
  PROVE  IInv'
<1>1. CASE Next
  BY <1>1, TypesAreKept, StepsAreFit, ShutdownWaits, PlacesAreOne, FramesAreHeld,
     FilesAreHeld, PoolIsHeld DEF IInv
<1>2. CASE UNCHANGED vars
  <2> USE <1>2 DEF vars, queueVars, hostVars, execVars, fileVars, callVars
  <2>1. Typed' /\ PhasesFit' /\ StepsFit'
    BY DEF IInv, Typed, PhasesFit, StepsFit, WorkersJoined
  <2>2. OnePlace' /\ \A c \in Calls : Placed(c)' <=> Placed(c)
    BY UnmovedPlaces DEF IInv, QueueStays
  <2>3. FramesHold' /\ FilesHold'
    BY <2>2 DEF IInv, FramesHold, FilesHold, Posting, Calls
  <2>4. PoolHolds'
    BY PoolRests DEF IInv, Started, Busy, ShuttingDown
  <2> QED BY <2>1, <2>2, <2>3, <2>4 DEF IInv
<1> QED BY <1>1, <1>2

(* The invariant holds in every reachable state.                            *)
LEMMA Inductive == Spec => []IInv
<1>1. Init => IInv
  BY StartsWell
<1>2. IInv /\ [Next]_vars => IInv'
  BY StepKeeps
<1> QED BY <1>1, <1>2, PTL DEF Spec

(* A call writes into the stack of the thread that posted it, which is     *)
(* still in its wait, and of which Shutdown frees nothing before every     *)
(* executor has left its call.                                             *)
THEOREM StackOutlivesCall == Spec => []FrameOutlivesCall
<1>1. ASSUME IInv PROVE FrameOutlivesCall
  <2>0. Typed /\ StepsFit /\ PhasesFit /\ FramesHold
    BY <1>1 DEF IInv
  <2>1. ASSUME NEW t \in Threads,
               \/ Occurs(t, serialQueue) \cup Occurs(t, poolQueue) # {}
               \/ \E e \in Executors : doing[e] = t /\ step[e] \in {"fn", "done"}
        PROVE  pc[t] \in {"notify", "inline", "test", "sleeping"}
    <3>1. Placed(t)
      BY <2>1 DEF Placed, Queued, In, Occurs, Live
    <3> QED BY <2>0, <3>1 DEF FramesHold
  <2>2. ASSUME phase = "stopped", NEW e \in Executors PROVE step[e] = "none"
    <3>1. CASE e \in Hosts
      BY <2>0, <2>2, <3>1 DEF PhasesFit, WorkersJoined, StepsFit
    <3>2. CASE e \in Threads
      BY <2>0, <2>2, <3>2 DEF PhasesFit, StepsFit
    <3> QED BY <3>1, <3>2 DEF Executors
  <2> QED BY <2>1, <2>2 DEF FrameOutlivesCall
<1> QED BY <1>1, Inductive, PTL

(* The pool has a worker for every call that is queued, unless it is full. *)
THEOREM PoolKeepsUp == Spec => []NoCallHeldUp
<1>1. IInv => NoCallHeldUp
  BY DEF IInv, PoolHolds
<1> QED BY <1>1, Inductive, PTL

(* How often a call that is in one place occurs.                           *)
LEMMA OccursOnce ==
  ASSUME NEW q \in Seq(Calls), NEW c, Distinct(q)
  PROVE  Cardinality(Occurs(c, q)) = IF In(c, q) THEN 1 ELSE 0
<1>1. CASE In(c, q)
  <2>1. PICK i \in DOMAIN q : q[i] = c
    BY <1>1 DEF In
  <2>2. Occurs(c, q) = {i}
    BY <2>1 DEF Occurs, Distinct
  <2> QED BY <1>1, <2>2, FS_Singleton
<1>2. CASE ~In(c, q)
  <2>1. Occurs(c, q) = {}
    BY <1>2 DEF Occurs, In
  <2> QED BY <1>2, <2>1, FS_EmptySet
<1> QED BY <1>1, <1>2

(* A set with at most one element.                                         *)
LEMMA AtMostOne ==
  ASSUME NEW S, \A x, y \in S : x = y
  PROVE  Cardinality(S) = IF S = {} THEN 0 ELSE 1
<1>1. CASE S = {}
  BY <1>1, FS_EmptySet
<1>2. CASE S # {}
  <2>1. PICK x \in S : TRUE
    BY <1>2
  <2>2. S = {x}
    BY <2>1
  <2> QED BY <1>2, <2>2, FS_Singleton
<1> QED BY <1>1, <1>2

(* The requests of a file have one call that runs them, exactly while      *)
(* posted_running_ says so.                                                *)
THEOREM RunnerIsOne == Spec => []OneRunnerPerFile
<1>1. ASSUME IInv PROVE OneRunnerPerFile
  <2>0. Typed /\ OnePlace /\ FilesHold /\ StepsFit
    BY <1>1 DEF IInv
  <2>1. SUFFICES ASSUME phase # "stopped", NEW f \in Files
                 PROVE  Places(f) = IF f \in postedRunning THEN 1 ELSE 0
    BY <2>0 DEF OneRunnerPerFile, FilesHold
  <2> DEFINE D == {e \in Executors : doing[e] = f}
             P == {t \in Threads : pc[t] = "postFile" /\ request[t] = f}
             a == IF In(f, serialQueue) THEN 1 ELSE 0
             b == IF In(f, poolQueue) THEN 1 ELSE 0
  <2>2. f \in Calls /\ f \notin Threads
    BY <1>1, PlanIs DEF Calls
  <2>3. Cardinality(Occurs(f, serialQueue)) = a /\ Cardinality(Occurs(f, poolQueue)) = b
    BY <2>0, OccursOnce DEF Typed, OnePlace
  <2>4. \A e \in Executors : e \in D <=> Live(e, f)
    BY <2>0, <2>2 DEF Live, StepsFit
  <2>5. Cardinality(D) = IF D = {} THEN 0 ELSE 1
    <3>1. \A d, e \in D : d = e
      BY <2>0, <2>2, <2>4 DEF OnePlace
    <3> HIDE DEF D
    <3> QED BY <3>1, AtMostOne
  <2>6. \A t \in Threads : t \in P <=> Posting(t, f)
    BY DEF Posting
  <2>7. Cardinality(P) = IF P = {} THEN 0 ELSE 1
    <3>1. \A t, u \in P : t = u
      BY <2>0, <2>6 DEF FilesHold
    <3> HIDE DEF P
    <3> QED BY <3>1, AtMostOne
  <2>8. Places(f) = a + b + Cardinality(D) + Cardinality(P)
    BY <2>3 DEF Places
  <2>9. D \subseteq Executors /\ P \subseteq Threads
    OBVIOUS
  <2>10. Placed(f) <=> In(f, serialQueue) \/ In(f, poolQueue) \/ D # {}
    BY <2>4, <2>9 DEF Placed, Queued
  <2>11. /\ ~(In(f, serialQueue) /\ In(f, poolQueue))
         /\ D # {} => ~In(f, serialQueue) /\ ~In(f, poolQueue)
    BY <2>0, <2>2, <2>4, <2>9 DEF OnePlace, Queued
  <2>12. /\ P # {} <=> \E t \in Threads : Posting(t, f)
         /\ Placed(f) => f \in postedRunning /\ P = {}
         /\ P # {} => f \in postedRunning
         /\ f \in postedRunning => Placed(f) \/ P # {}
    BY <2>0, <2>1, <2>6, <2>9 DEF FilesHold
  <2> HIDE DEF D, P
  <2> QED BY <2>5, <2>7, <2>8, <2>10, <2>11, <2>12
<1> QED BY <1>1, Inductive, PTL


=============================================================================
