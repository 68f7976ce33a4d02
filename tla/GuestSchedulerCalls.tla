------------------------ MODULE GuestSchedulerCalls ------------------------
(***************************************************************************)
(* The guest scheduler: what other threads ask of it.                      *)
(*                                                                         *)
(* A call is a sequence of unlocked steps and lock sections; call[k].pc is *)
(* the next of them and wake[k] is what is left of its final wake-ups.     *)
(***************************************************************************)
EXTENDS GuestSchedulerState

Begin(k, pc, t, c) == call' = [call EXCEPT ![k] = [pc |-> pc, t |-> t, cpu |-> c]]

At(k, pc) == call[k].pc = pc

Return(k) == call' = [call EXCEPT ![k] = Idle] /\ UNCHANGED wake

(* End of a lock section that must wake the CPUs in W.                     *)
WakeAndReturn(k, W) ==
  /\ wake' = [wake EXCEPT ![k] = W]
  /\ call' = [call EXCEPT ![k] = IF W = {} THEN Idle ELSE [@ EXCEPT !.pc = "wake"]]

(* XThread::Create, up to its final MarkReady of a thread that is not      *)
(* X_CREATE_SUSPENDED.                                                     *)
Create(k, t, c, p, createSuspended) ==
  /\ At(k, "idle") /\ ~Exists(t) /\ phase = "up"
  /\ createSuspended => "createSuspended" \in plan.calls
  /\ fiber' = [fiber EXCEPT ![t] = "new"]
  /\ currentCpu' = [currentCpu EXCEPT ![t] = c]
  /\ priority' = [priority EXCEPT ![t] = p]
  /\ suspendCount' = [suspendCount EXCEPT ![t] = IF createSuspended THEN 1 ELSE 0]
  /\ IF createSuspended THEN UNCHANGED call ELSE Begin(k, "markReady", t, None)
  /\ UNCHANGED <<plan, listVars, waitVars, lifeVars, cpuVars, loopVars, bumped,
                 wake, phase>>

(* XThread::Resume: the atomic decrement.  Only a 1 -> 0 transition goes   *)
(* on to ResumeThread.                                                     *)
ResumesFrom(previous) == previous = 1

Resume(k, t) ==
  /\ "resume" \in plan.calls /\ At(k, "idle") /\ Exists(t)
  /\ suspendCount[t] > 0
  /\ suspendCount' = [suspendCount EXCEPT ![t] = @ - 1]
  /\ IF ResumesFrom(suspendCount[t]) THEN Begin(k, "unlink", t, None) ELSE UNCHANGED call
  /\ UNCHANGED <<plan, listVars, waitVars, lifeVars, cpuVars, loopVars,
                 priority, currentCpu, bumped, fiber, wake, phase>>

(* ResumeThread: the lock section.                                         *)
ResumeThread(k) ==
  LET t == call[k].t IN
  /\ At(k, "unlink") /\ LockFree
  /\ IF t \in suspended
     THEN /\ list' = [list EXCEPT ![Suspended(linkCpu[t])] = Unlink(@, t)]
          /\ suspended' = suspended \ {t}
     ELSE UNCHANGED <<list, suspended>>
  /\ Begin(k, "markReady", t, None)
  /\ UNCHANGED <<plan, summary, queued, blocked, linkCpu, queuedPrio, waitVars,
                 stateVars, lifeVars, cpuVars, loopVars, bumped, fiber, wake,
                 phase>>

(* MarkReady: reads thread_state, then current_cpu, without the lock.      *)
MarkReady(k) ==
  LET t == call[k].t IN
  /\ At(k, "markReady")
  /\ IF t \in terminated THEN Return(k)
                         ELSE Begin(k, "enqueue", t, currentCpu[t]) /\ UNCHANGED wake
  /\ UNCHANGED <<plan, threadVars, cpuVars, loopVars, bumped, fiber, phase>>

(* EnqueueReady off the dispatch threads.                                  *)
EnqueueReady(k) ==
  LET t == call[k].t  c == call[k].cpu IN
  /\ At(k, "enqueue") /\ LockFree
  /\ \/ /\ LeftAlone(t, None)
        /\ Return(k)
        /\ UNCHANGED <<list, summary, queued, linkCpu, queuedPrio, bumped>>
     \/ /\ ~LeftAlone(t, None)
        /\ LinkAtTurn(c, t, list, summary)
        /\ WakeAndReturn(k, {c})
  /\ UNCHANGED <<plan, blocked, suspended, waitVars, stateVars, lifeVars,
                 cpuVars, loopVars, fiber, phase>>

Wake(k, c) ==
  /\ At(k, "wake") /\ c \in wake[k]
  /\ SetReadyEvent(c)
  /\ WakeAndReturn(k, wake[k] \ {c})
  /\ UNCHANGED <<plan, threadVars, ownVars, pickVars, parked, loopVars, bumped,
                 fiber, phase>>

(* XThread::Suspend of another thread: the dispatcher acts on it later.    *)
Suspend(k, t) ==
  /\ "suspend" \in plan.calls /\ At(k, "idle") /\ Exists(t)
  /\ suspendCount[t] < MaxSuspend
  /\ suspendCount' = [suspendCount EXCEPT ![t] = @ + 1]
  /\ UNCHANGED <<plan, listVars, waitVars, lifeVars, cpuVars, loopVars,
                 priority, currentCpu, bumped, fiber, wake, call, phase>>

(* XThread::Terminate of a fiber-backed thread by another thread: marks    *)
(* the guest object and abandons its wait before it calls TerminateThread. *)
Terminate(k, t) ==
  /\ "terminate" \in plan.calls /\ At(k, "idle") /\ Exists(t)
  /\ terminated' = terminated \cup {t}
  /\ LeaveWait(t)
  /\ Begin(k, "terminate", t, None)
  /\ UNCHANGED <<plan, listVars, gated, hasBlocked, repollNow, maxBlockedPrio,
                 toPoll, stateVars, reclaimed, hasRun, terminatePending,
                 cpuVars, loopVars, bumped, fiber, wake, phase>>

(* Mutants: frees a thread a dispatch thread will pick; never frees any.   *)
NeverRan(t)          == t \notin hasRun
NeverReclaimed(t)    == FALSE
NeverDispatchable(t) == t \notin queued \cup hasRun

(* TerminateThread while the dispatch threads exist.  Its four cases: a    *)
(* running thread is only flagged, a parked one is queued at the head of   *)
(* its old CPU to exit on its own stack, one that never ran and is in no   *)
(* list is the caller's to reclaim, any other is left to the dispatcher.   *)
TerminateRunning(k, t) ==
  /\ t \in running
  /\ Return(k)
  /\ UNCHANGED <<listVars, bumped>>

TerminateParked(k, t) ==
  LET from == IF t \in blocked THEN Blocked(linkCpu[t]) ELSE Suspended(linkCpu[t])
  IN
  /\ t \notin running /\ t \in blocked \cup suspended
  /\ LinkReadyLocked(linkCpu[t], t, TRUE, [list EXCEPT ![from] = Unlink(@, t)],
                     summary, bumped)
  /\ blocked' = blocked \ {t}
  /\ suspended' = suspended \ {t}
  /\ WakeAndReturn(k, {linkCpu[t]})

TerminateUnlisted(k, t) ==
  /\ t \notin running \cup blocked \cup suspended
  /\ IF NeverDispatchable(t)
     THEN Begin(k, "reclaim", t, None) /\ UNCHANGED wake
     ELSE Return(k)
  /\ UNCHANGED <<listVars, bumped>>

(* TerminateThread once Shutdown has stopped the dispatch threads: detach  *)
(* the thread from whatever list holds it and let the caller reclaim it.   *)
TerminateStopped(k, t) ==
  /\ Detach(t)
  /\ IF t \in running THEN Return(k)
                      ELSE Begin(k, "reclaim", t, None) /\ UNCHANGED wake
  /\ UNCHANGED <<linkCpu, queuedPrio, bumped>>

TerminateThread(k) ==
  LET t == call[k].t IN
  /\ At(k, "terminate") /\ LockFree
  /\ terminatePending' = terminatePending \cup {t}
  /\ \/ phase = "stopped" /\ TerminateStopped(k, t)
     \/ /\ phase # "stopped"
        /\ TerminateRunning(k, t) \/ TerminateParked(k, t) \/ TerminateUnlisted(k, t)
  /\ gated' = gated \ {t}
  /\ UNCHANGED <<plan, waitSet, epochMoved, hasBlocked, repollNow,
                 maxBlockedPrio, toPoll, stateVars, terminated, reclaimed,
                 hasRun, cpuVars, loopVars, fiber, phase>>

(* ReclaimExited: drops the self reference at most once.                   *)
ReclaimTerminated(k) ==
  /\ At(k, "reclaim")
  /\ reclaimed' = reclaimed \cup {call[k].t}
  /\ Return(k)
  /\ UNCHANGED <<plan, listVars, waitVars, stateVars, terminated, hasRun,
                 terminatePending, cpuVars, loopVars, bumped, fiber, phase>>

(* XThread::SetActiveCpu: publishes the CPU, then MigrateForAffinity.      *)
SetActiveCpu(k, t, c) ==
  /\ "setcpu" \in plan.calls /\ At(k, "idle") /\ Exists(t)
  /\ currentCpu[t] # c
  /\ currentCpu' = [currentCpu EXCEPT ![t] = c]
  /\ Begin(k, "migrate", t, None)
  /\ UNCHANGED <<plan, listVars, waitVars, lifeVars, cpuVars, loopVars,
                 priority, suspendCount, bumped, fiber, wake, phase>>

(* Mutant: forgets the pointer of the old CPU.                             *)
YielderKept(c, t)    == yieldToOther
YielderDropped(c, t) == [yieldToOther EXCEPT ![c] = IF @ = t THEN None ELSE @]

MigrateForAffinity(k) ==
  LET t == call[k].t  from == linkCpu[t]  target == currentCpu[t] IN
  /\ At(k, "migrate") /\ LockFree
  /\ \/ /\ t \notin queued \/ t \in running \/ target = from
        /\ Return(k)
        /\ UNCHANGED <<list, summary, queued, linkCpu, queuedPrio, bumped,
                       yieldToOther>>
     \/ /\ t \in queued /\ t \notin running /\ target # from
        /\ LinkAtTurn(target, t, WithoutReady(t),
                      ClearedSummary(from, queuedPrio[t], WithoutReady(t)))
        /\ yieldToOther' = YielderDropped(from, t)
        /\ WakeAndReturn(k, {target})
  /\ UNCHANGED <<plan, blocked, suspended, waitVars, stateVars, lifeVars,
                 ownVars, background, parkVars, loopVars, fiber, phase>>

(* XThread::PublishPriority, whoever calls it (SetPriority, a boost, the   *)
(* decay at a quantum end): publishes the level, then RequeueForPriority.  *)
PublishPriority(k, t, p) ==
  /\ "setpriority" \in plan.calls /\ At(k, "idle") /\ Exists(t)
  /\ priority[t] # p
  /\ priority' = [priority EXCEPT ![t] = p]
  /\ Begin(k, "requeue", t, None)
  /\ UNCHANGED <<plan, listVars, waitVars, lifeVars, cpuVars, loopVars,
                 currentCpu, suspendCount, bumped, fiber, wake, phase>>

RequeueForPriority(k) ==
  LET t == call[k].t  c == linkCpu[t] IN
  /\ At(k, "requeue") /\ LockFree
  /\ IF t \in queued
     THEN LinkReadyLocked(c, t, FALSE, WithoutReady(t),
                          ClearedSummary(c, queuedPrio[t], WithoutReady(t)), bumped)
     ELSE UNCHANGED <<list, summary, queued, linkCpu, queuedPrio, bumped>>
  /\ Return(k)
  /\ UNCHANGED <<plan, blocked, suspended, waitVars, stateVars, lifeVars,
                 cpuVars, loopVars, fiber, phase>>

(* WakeCooperativeWaiters of object o: moves the epochs, then calls        *)
(* WakeForSignal, whose pre-filter reads has_blocked without the lock.     *)
Watchers(o) == {t \in Threads : o \in waitSet[t]}

Signal(k, o) ==
  /\ "signal" \in plan.calls /\ At(k, "idle")
  /\ epochMoved' = epochMoved \cup Watchers(o)
  /\ Begin(k, "signalCheck", o, None)
  /\ UNCHANGED <<plan, listVars, waitSet, gated, hasBlocked, repollNow,
                 maxBlockedPrio, toPoll, stateVars, lifeVars, cpuVars,
                 loopVars, bumped, fiber, wake, phase>>

BeginWakeAll(k) ==
  /\ "wakeall" \in plan.calls /\ At(k, "idle")
  /\ Begin(k, "wakeAllCheck", None, None)
  /\ UNCHANGED <<plan, threadVars, cpuVars, loopVars, bumped, fiber, wake,
                 phase>>

AnyBlocked(k, check, walk) ==
  /\ At(k, check)
  /\ IF hasBlocked = {} THEN Return(k)
                        ELSE Begin(k, walk, call[k].t, None) /\ UNCHANGED wake
  /\ UNCHANGED <<plan, threadVars, cpuVars, loopVars, bumped, fiber, phase>>

SignalCheck(k)  == AnyBlocked(k, "signalCheck", "signalWalk")
WakeAllCheck(k) == AnyBlocked(k, "wakeAllCheck", "wakeAllWalk")

(* WakeForSignal: re-poll the CPUs hosting a watcher, bumping a runner     *)
(* that a watcher outranks.                                                *)
WakeForSignal(k) ==
  LET hosted(c) == RangeOf(list[Blocked(c)]) \cap Watchers(call[k].t)
      hosts == {c \in Cpus : hosted(c) # {}}
  IN
  /\ At(k, "signalWalk") /\ LockFree
  /\ repollNow' = repollNow \cup hosts
  /\ bumped' = bumped \cup UNION {UNION {Outranked(c, priority[t]) : t \in hosted(c)}
                                    : c \in hosts}
  /\ WakeAndReturn(k, hosts)
  /\ UNCHANGED <<plan, listVars, waitSet, epochMoved, gated, hasBlocked,
                 maxBlockedPrio, toPoll, stateVars, lifeVars, cpuVars,
                 loopVars, fiber, phase>>

(* WakeAll: the same for every CPU with a waiter, by the cached priority.  *)
WakeAll(k) ==
  LET hosts == {c \in Cpus : list[Blocked(c)] # <<>>} IN
  /\ At(k, "wakeAllWalk") /\ LockFree
  /\ repollNow' = repollNow \cup hosts
  /\ bumped' = bumped \cup UNION {Outranked(c, maxBlockedPrio[c]) : c \in hosts}
  /\ WakeAndReturn(k, hasBlocked)
  /\ UNCHANGED <<plan, listVars, waitSet, epochMoved, gated, hasBlocked,
                 maxBlockedPrio, toPoll, stateVars, lifeVars, cpuVars,
                 loopVars, fiber, phase>>

(* EnterBackgroundMode: opens the window of the CPUs whose spacing allows  *)
(* it and bumps a runner the window locks out.                             *)
EnterBackgroundMode(k, C) ==
  /\ "background" \in plan.calls /\ At(k, "idle") /\ LockFree
  /\ background' = background \cup C
  /\ bumped' = bumped \cup
       {currentThread[c] : c \in {d \in C :
          /\ currentThread[d] # None
          /\ summary[d] \cap BackgroundLevels # {}
          /\ priority[currentThread[d]] \notin BackgroundLevels}}
  /\ UNCHANGED <<plan, threadVars, ownVars, yieldToOther, parkVars, loopVars,
                 fiber, wake, call, phase>>

-----------------------------------------------------------------------------
(* Shutdown.  Repeats its nudges until every dispatch thread has left its  *)
(* loop, then drains every list and reclaims what was on it.               *)

ShutdownBegin ==
  /\ "shutdown" \in plan.calls /\ phase = "up"
  /\ phase' = "stopping"
  /\ UNCHANGED <<plan, threadVars, cpuVars, loopVars, bumped, fiber, wake,
                 call>>

ShutdownNudge(c) ==
  /\ phase = "stopping" /\ loop[c] # "gone"
  /\ readyEvent' = readyEvent \cup {c}
  /\ UNCHANGED <<plan, threadVars, ownVars, pickVars, parked, loopVars, bumped,
                 fiber, wake, call, phase>>

Listed == queued \cup blocked \cup suspended

(* Mutant: forgets the waiters.                                            *)
LeftoversNotBlocked == (queued \cup suspended \cup RangeOf(exitedThread)) \ {None}
Leftovers == (Listed \cup RangeOf(exitedThread)) \ {None}

ShutdownDrain ==
  /\ phase = "stopping" /\ \A c \in Cpus : loop[c] = "gone"
  /\ phase' = "stopped"
  /\ list' = [l \in ListIds |-> <<>>]
  /\ summary' = [c \in Cpus |-> {}]
  /\ queued' = {} /\ blocked' = {} /\ suspended' = {} /\ gated' = {}
  /\ hasBlocked' = {}
  /\ waitSet' = [t \in Threads |-> IF t \in Listed THEN {} ELSE waitSet[t]]
  /\ epochMoved' = epochMoved \ Listed
  /\ reclaimed' = reclaimed \cup Leftovers
  /\ exitedThread' = [c \in Cpus |-> None]
  /\ currentThread' = [c \in Cpus |-> None]
  /\ yieldToOther' = [c \in Cpus |-> None]
  /\ UNCHANGED <<plan, linkCpu, queuedPrio, repollNow, maxBlockedPrio, toPoll,
                 stateVars, terminated, hasRun, terminatePending, running,
                 background, parkVars, loopVars, bumped, fiber, wake, call>>

=============================================================================
