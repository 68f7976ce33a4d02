----------------------- MODULE GuestSchedulerFibers ------------------------
(***************************************************************************)
(* The guest scheduler: what a guest thread does on its fiber.             *)
(*                                                                         *)
(* The fiber of next[c] has the dispatch thread of CPU c while loop[c] is  *)
(* "fiber"; YieldToScheduler gives it back to the idle fiber.              *)
(***************************************************************************)
EXTENDS GuestSchedulerState

OnCpu(c, pcs) == loop[c] = "fiber" /\ fiber[next[c]] \in pcs

YieldToScheduler(c) == loop' = [loop EXCEPT ![c] = "back"] /\ UNCHANGED <<next, home>>

StaysOnCpu == UNCHANGED loopVars

FiberAt(t, pc) == fiber' = [fiber EXCEPT ![t] = pc]

(* ExitIfTerminated when terminate_pending is set: abandons the wait,      *)
(* restores the state, and notifies and yields to the dispatcher.          *)
ExitIfTerminated(c) ==
  LET t == next[c] IN
  /\ t \in terminatePending
  /\ LeaveWait(t)
  /\ terminated' = terminated \cup {t}
  /\ exitedThread' = [exitedThread EXCEPT ![c] = t]
  /\ FiberAt(t, "diverted")
  /\ YieldToScheduler(c)

(* What a fiber does first when it is switched to.  Where it parked checks *)
(* for termination it may divert; an exited fiber falls out of its final   *)
(* yield into Thread::Exit, which ends the dispatch thread.                *)
ResumedAt(pc) ==
  CASE pc = "exitYielded" -> "exiting"
    [] pc = "crashed"     -> "crashed"
    [] OTHER              -> "run"

FiberResume(c) ==
  LET t == next[c] IN
  /\ OnCpu(c, {"new", "yielded", "parked", "fenced", "exitYielded", "diverted",
               "crashed", "exited"})
  /\ \/ /\ fiber[t] \in {"new", "yielded", "parked", "exitYielded"}
        /\ ExitIfTerminated(c)
     \/ /\ fiber[t] \in {"new", "yielded", "parked", "exitYielded"}
             => t \notin terminatePending
        /\ FiberAt(t, ResumedAt(fiber[t]))
        /\ LeaveWait(t)
        /\ loop' = [loop EXCEPT ![c] = CASE fiber[t] = "crashed" -> "back"
                                         [] fiber[t] = "exited"  -> "gone"
                                         [] OTHER                -> "fiber"]
        /\ UNCHANGED <<terminated, exitedThread, next, home>>
  /\ UNCHANGED <<plan, listVars, gated, hasBlocked, repollNow, maxBlockedPrio,
                 toPoll, stateVars, reclaimed, hasRun, terminatePending,
                 running, currentThread, pickVars, parkVars, bumped, wake,
                 call, phase>>

(* YieldCurrentThread: a preemption at a safepoint (not to_lower, and      *)
(* possible at any time) or a voluntary yield.                             *)
YieldCurrentThread(c, toLower, pc) ==
  LET t == next[c] IN
  \/ /\ ExitIfTerminated(c)
     /\ UNCHANGED <<listVars, bumped, yieldToOther>>
  \/ /\ t \notin terminatePending /\ LockFree
     /\ IF LeftAlone(t, c)
        THEN UNCHANGED <<listVars, bumped, yieldToOther>>
        ELSE /\ LinkAtTurn(c, t, list, summary)
             /\ yieldToOther' = [yieldToOther EXCEPT ![c] = IF toLower THEN t ELSE @]
             /\ UNCHANGED <<blocked, suspended>>
     /\ FiberAt(t, pc)
     /\ YieldToScheduler(c)
     /\ UNCHANGED <<waitSet, epochMoved, terminated, exitedThread>>

YieldLeavesAlone ==
  UNCHANGED <<plan, gated, hasBlocked, repollNow, maxBlockedPrio, toPoll,
              priority, currentCpu, reclaimed, hasRun, terminatePending,
              running, currentThread, background, parkVars, wake, call, phase>>

PreemptCurrentFiber(c) ==
  /\ OnCpu(c, {"run"})
  /\ YieldCurrentThread(c, FALSE, "yielded")
  /\ YieldLeavesAlone /\ UNCHANGED suspendCount

Yield(c) ==
  /\ "yield" \in plan.guestOps /\ OnCpu(c, {"run"})
  /\ YieldCurrentThread(c, TRUE, "yielded")
  /\ YieldLeavesAlone /\ UNCHANGED suspendCount

(* XThread::Suspend on itself.                                             *)
SelfSuspend(c) ==
  /\ "suspendself" \in plan.guestOps /\ OnCpu(c, {"run"})
  /\ suspendCount[next[c]] < MaxSuspend
  /\ suspendCount' = [suspendCount EXCEPT ![next[c]] = @ + 1]
  /\ YieldCurrentThread(c, FALSE, "yielded")
  /\ YieldLeavesAlone

(* XThread::Resume on itself, of a suspend that has not taken effect yet:  *)
(* MarkReady runs on the dispatch thread that owns the fiber.              *)
SelfResume(c) ==
  LET t == next[c] IN
  /\ "resumeself" \in plan.guestOps /\ OnCpu(c, {"run"}) /\ LockFree
  /\ suspendCount[t] > 0
  /\ suspendCount' = [suspendCount EXCEPT ![t] = @ - 1]
  /\ IF suspendCount[t] > 1 \/ t \in terminated \/ LeftAlone(t, c)
     THEN UNCHANGED <<listVars, bumped, readyEvent>>
     ELSE /\ LinkAtTurn(currentCpu[t], t, list, summary)
          /\ SetReadyEvent(currentCpu[t])
          /\ UNCHANGED <<blocked, suspended>>
  /\ StaysOnCpu
  /\ UNCHANGED <<plan, waitVars, priority, currentCpu, lifeVars, ownVars,
                 pickVars, parked, fiber, wake, call, phase>>

(* The wait loop of XObject: samples the epochs of the objects it waits    *)
(* on, polls them, and blocks if none satisfies it.                        *)
SampleEpoch(c, S) ==
  LET t == next[c] IN
  /\ "wait" \in plan.guestOps /\ OnCpu(c, {"run"})
  /\ waitSet' = [waitSet EXCEPT ![t] = S]
  /\ epochMoved' = epochMoved \ {t}
  /\ FiberAt(t, "polling")
  /\ StaysOnCpu
  /\ UNCHANGED <<plan, listVars, gated, hasBlocked, repollNow, maxBlockedPrio,
                 toPoll, stateVars, lifeVars, cpuVars, bumped, wake, call,
                 phase>>

PollSatisfied(c) ==
  LET t == next[c] IN
  /\ OnCpu(c, {"polling"})
  /\ LeaveWait(t)
  /\ FiberAt(t, "run")
  /\ StaysOnCpu
  /\ UNCHANGED <<plan, listVars, gated, hasBlocked, repollNow, maxBlockedPrio,
                 toPoll, stateVars, lifeVars, cpuVars, bumped, wake, call,
                 phase>>

(* Mutant: trusts the walk of the signaler to have met this waiter.        *)
PokeNever(c, t, isGated)   == repollNow
PokeIfMoved(c, t, isGated) ==
  IF isGated /\ t \in epochMoved THEN repollNow \cup {c} ELSE repollNow

(* BlockCurrentThread after its first ExitIfTerminated, which may be one   *)
(* step with it: a terminate does the same to a running thread just before *)
(* it links itself and just after.  A gated thread whose epoch moved since *)
(* the sample asks its own CPU to re-poll.                                 *)
ParkBlocked(c, isGated, pc) ==
  LET t == next[c] IN
  /\ LockFree
  /\ repollNow' = PokeIfMoved(c, t, isGated)
  /\ list' = [list EXCEPT ![Blocked(c)] = Append(@, t)]
  /\ blocked' = blocked \cup {t}
  /\ bumped' = bumped \ {t}
  /\ linkCpu' = [linkCpu EXCEPT ![t] = c]
  /\ gated' = IF isGated THEN gated \cup {t} ELSE gated \ {t}
  /\ maxBlockedPrio' = [maxBlockedPrio EXCEPT ![c] = IF priority[t] > @ THEN priority[t]
                                                                      ELSE @]
  /\ hasBlocked' = hasBlocked \cup {c}
  /\ terminated' = terminated \ {t}     \* thread_state = KTHREAD_STATE_WAITING
  /\ FiberAt(t, pc)
  /\ YieldToScheduler(c)
  /\ UNCHANGED <<waitSet, epochMoved, exitedThread>>

BlockLeavesAlone ==
  UNCHANGED <<plan, summary, queued, suspended, queuedPrio, toPoll, stateVars,
              reclaimed, hasRun, terminatePending, running, currentThread,
              pickVars, parkVars, wake, call, phase>>

BlockCurrentThread(c, isGated) ==
  /\ \/ /\ ExitIfTerminated(c)
        /\ UNCHANGED <<list, blocked, linkCpu, gated, hasBlocked, repollNow,
                       maxBlockedPrio, bumped>>
     \/ /\ next[c] \notin terminatePending
        /\ ParkBlocked(c, isGated, "parked")
  /\ BlockLeavesAlone

(* A wait whose registration Terminate has abandoned is no longer gated.   *)
BlockOnObjects(c) ==
  /\ OnCpu(c, {"polling"})
  /\ BlockCurrentThread(c, waitSet[next[c]] # {})

(* XThread::Delay: gated on nothing but its deadline.                      *)
Delay(c) ==
  /\ "delay" \in plan.guestOps /\ OnCpu(c, {"run"})
  /\ BlockCurrentThread(c, TRUE)

(* A wait on an object of another type, polled on every pass.              *)
BlockUngated(c) ==
  /\ "poll" \in plan.guestOps /\ OnCpu(c, {"run"})
  /\ BlockCurrentThread(c, FALSE)

(* WaitOnFence: blocks without checking for termination.                   *)
WaitOnFence(c) ==
  /\ "fence" \in plan.guestOps /\ OnCpu(c, {"run"})
  /\ ParkBlocked(c, FALSE, "fenced")
  /\ BlockLeavesAlone

(* XThread::Exit, up to and from the last point where it may yield (guest  *)
(* code of a rundown APC, a contended spin lock).                          *)
ExitBegin(c) ==
  LET t == next[c] IN
  /\ "exit" \in plan.guestOps /\ OnCpu(c, {"run"})
  /\ terminated' = terminated \cup {t}
  /\ FiberAt(t, "exiting")
  /\ StaysOnCpu
  /\ UNCHANGED <<plan, listVars, waitVars, stateVars, reclaimed, hasRun,
                 terminatePending, cpuVars, bumped, wake, call, phase>>

ExitYield(c) ==
  /\ "exitYield" \in plan.guestOps /\ OnCpu(c, {"exiting"})
  /\ YieldCurrentThread(c, FALSE, "exitYielded")
  /\ YieldLeavesAlone /\ UNCHANGED suspendCount

ExitEnd(c) ==
  LET t == next[c] IN
  /\ OnCpu(c, {"exiting"})
  /\ exitedThread' = [exitedThread EXCEPT ![c] = t]
  /\ FiberAt(t, "exited")
  /\ YieldToScheduler(c)
  /\ UNCHANGED <<plan, threadVars, running, currentThread, pickVars, parkVars,
                 bumped, wake, call, phase>>

(* HaltCrashedFiberThunk: ForgetThread on the fiber itself, which yields   *)
(* for ever and is never reclaimed.                                        *)
Crash(c) ==
  LET t == next[c] IN
  /\ "crash" \in plan.guestOps /\ OnCpu(c, {"run"}) /\ LockFree
  /\ terminated' = terminated \cup {t}
  /\ LeaveWait(t)
  /\ Detach(t)
  /\ yieldToOther' = [d \in Cpus |-> IF yieldToOther[d] = t THEN None ELSE yieldToOther[d]]
  /\ exitedThread' = [d \in Cpus |-> IF exitedThread[d] = t THEN None ELSE exitedThread[d]]
  /\ FiberAt(t, "crashed")
  /\ YieldToScheduler(c)
  /\ UNCHANGED <<plan, linkCpu, queuedPrio, gated, hasBlocked, repollNow,
                 maxBlockedPrio, toPoll, stateVars, reclaimed, hasRun,
                 terminatePending, running, currentThread, background,
                 parkVars, bumped, wake, call, phase>>

=============================================================================
