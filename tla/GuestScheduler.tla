-------------------------- MODULE GuestScheduler ---------------------------
(***************************************************************************)
(* The guest scheduler: its dispatch threads, and the whole next-state     *)
(* relation.                                                               *)
(***************************************************************************)
EXTENDS GuestSchedulerCalls, GuestSchedulerFibers

Goes(c, pc) == loop' = [loop EXCEPT ![c] = pc] /\ UNCHANGED <<next, home>>

(* The top of the loop: shutting down, a re-poll asked for, a re-poll due  *)
(* by the clock (which the code checks whoever is blocked, to no effect    *)
(* when nobody is), or straight to the ready lists.                        *)
Top(c) ==
  /\ loop[c] = "top"
  /\ \/ /\ phase # "up" /\ Goes(c, "gone")
        /\ UNCHANGED repollNow
     \/ /\ phase = "up" /\ c \in repollNow
        /\ repollNow' = repollNow \ {c}
        /\ Goes(c, "repoll")
     \/ /\ phase = "up" /\ c \notin repollNow /\ Goes(c, "dequeue")
        /\ UNCHANGED repollNow
  /\ UNCHANGED <<plan, listVars, waitSet, epochMoved, gated, hasBlocked,
                 maxBlockedPrio, toPoll, stateVars, lifeVars, cpuVars, bumped,
                 fiber, wake, call, phase>>

RepollDue(c) ==
  /\ loop[c] = "top" /\ phase = "up" /\ c \notin repollNow
  /\ list[Blocked(c)] # <<>>
  /\ Goes(c, "repoll")
  /\ UNCHANGED <<plan, threadVars, cpuVars, bumped, fiber, wake, call, phase>>

(* RereadyBlocked: takes the lock, visits the waiters from the head, and   *)
(* publishes what it kept.                                                 *)
RereadyBegin(c) ==
  /\ loop[c] = "repoll" /\ LockFree
  /\ toPoll' = RangeOf(list[Blocked(c)])
  /\ Goes(c, "reready")
  /\ UNCHANGED <<plan, listVars, waitSet, epochMoved, gated, hasBlocked,
                 repollNow, maxBlockedPrio, stateVars, lifeVars, cpuVars,
                 bumped, fiber, wake, call, phase>>

(* The waiter being visited: the first one not yet decided on.             *)
Visits(c, t) ==
  \E i \in DOMAIN list[Blocked(c)] :
    /\ list[Blocked(c)][i] = t /\ t \in toPoll
    /\ \A j \in 1 .. i - 1 : list[Blocked(c)][j] \notin toPoll

(* A gated waiter whose epoch has not moved stays, unless its deadline,    *)
(* an APC or the backstop has come (KeepBlocked and Reready both enabled). *)
MayHaveResolved(t) == t \notin gated \/ t \in epochMoved

KeepBlocked(c, t) ==
  /\ loop[c] = "reready" /\ Visits(c, t)
  /\ ~MayHaveResolved(t)
  /\ toPoll' = toPoll \ {t}
  /\ UNCHANGED <<plan, listVars, waitSet, epochMoved, gated, hasBlocked,
                 repollNow, maxBlockedPrio, stateVars, lifeVars, cpuVars,
                 loopVars, bumped, fiber, wake, call, phase>>

Reready(c, t) ==
  LET target == currentCpu[t] IN
  /\ loop[c] = "reready" /\ Visits(c, t)
  /\ LinkAtTurn(target, t, [list EXCEPT ![Blocked(c)] = Unlink(@, t)], summary)
  /\ blocked' = blocked \ {t}
  /\ gated' = gated \ {t}
  /\ toPoll' = toPoll \ {t}
  /\ wake' = [wake EXCEPT ![c] = @ \cup ({target} \ {c})]
  /\ UNCHANGED <<plan, suspended, waitSet, epochMoved, hasBlocked, repollNow,
                 maxBlockedPrio, stateVars, lifeVars, cpuVars, loopVars, fiber,
                 call, phase>>

HighestPriority(T) ==
  CHOOSE p \in {-1} \cup {priority[t] : t \in T} : \A t \in T : priority[t] <= p

RereadyEnd(c) ==
  LET kept == RangeOf(list[Blocked(c)]) IN
  /\ loop[c] = "reready" /\ toPoll = {}
  /\ maxBlockedPrio' = [maxBlockedPrio EXCEPT ![c] = HighestPriority(kept)]
  /\ hasBlocked' = IF kept = {} THEN hasBlocked \ {c} ELSE hasBlocked
  /\ Goes(c, "rereadyWake")
  /\ UNCHANGED <<plan, listVars, waitSet, epochMoved, gated, repollNow, toPoll,
                 stateVars, lifeVars, cpuVars, bumped, fiber, wake, call,
                 phase>>

(* The wake-ups after a lock section of the dispatch thread.               *)
LoopWake(c, d) ==
  /\ loop[c] \in {"rereadyWake", "migrateWake"} /\ d \in wake[c]
  /\ SetReadyEvent(d)
  /\ wake' = [wake EXCEPT ![c] = @ \ {d}]
  /\ UNCHANGED <<plan, threadVars, ownVars, pickVars, parked, loopVars, bumped,
                 fiber, call, phase>>

LoopWoken(c) ==
  /\ loop[c] \in {"rereadyWake", "migrateWake"} /\ wake[c] = {}
  /\ Goes(c, IF loop[c] = "rereadyWake" THEN "dequeue" ELSE "top")
  /\ UNCHANGED <<plan, threadVars, cpuVars, bumped, fiber, wake, call, phase>>

Highest(S) == CHOOSE p \in S : \A q \in S : q <= p

(* HighestReadyExcept: the first ready thread, by level, that is not t.    *)
ReadyExcept(c, t) ==
  {p \in summary[c] : RangeOf(list[Ready(c, p)]) \ {t} # {}}

HighestReadyExcept(c, t) ==
  LET q == list[Ready(c, Highest(ReadyExcept(c, t)))]
  IN  IF q[1] # t THEN q[1] ELSE q[2]

(* Mutant: strict priority whatever was yielded.                           *)
PickedStrictly(c, levels) == list[Ready(c, Highest(levels))][1]

(* DequeueReady: the head of the highest level, of the background band     *)
(* while a window is open and the band has a thread, unless that head      *)
(* yielded to others and there is one.                                     *)
PickedAmong(c, levels) ==
  LET head == list[Ready(c, Highest(levels))][1] IN
  IF head = yieldToOther[c] /\ ReadyExcept(c, head) # {}
  THEN HighestReadyExcept(c, head)
  ELSE head

Band(c, open) ==
  IF open /\ summary[c] \cap BackgroundLevels # {}
  THEN summary[c] \cap BackgroundLevels
  ELSE summary[c]

DequeueReady(c) ==
  /\ loop[c] = "dequeue" /\ LockFree
  /\ summary[c] # {}
  /\ \E open \in BOOLEAN :   \* whether the background window is still open
       LET t == PickedAmong(c, Band(c, open)) IN
       /\ open => c \in background
       /\ background' = IF open THEN background ELSE background \ {c}
       /\ list' = WithoutReady(t)
       /\ summary' = ClearedSummary(c, queuedPrio[t], WithoutReady(t))
       /\ queued' = queued \ {t}
       /\ running' = running \cup {t}
       /\ next' = [next EXCEPT ![c] = t]
  /\ yieldToOther' = [yieldToOther EXCEPT ![c] = None]
  /\ loop' = [loop EXCEPT ![c] = "picked"]
  /\ UNCHANGED <<plan, blocked, suspended, linkCpu, queuedPrio, waitVars,
                 stateVars, lifeVars, currentThread, exitedThread, parkVars,
                 home, bumped, fiber, wake, call, phase>>

DequeueNothing(c) ==
  /\ loop[c] = "dequeue" /\ LockFree
  /\ summary[c] = {}
  /\ Goes(c, "idle")
  /\ UNCHANGED <<plan, threadVars, cpuVars, bumped, fiber, wake, call, phase>>

(* A thread whose CPU changed while it was queued or running here moves to *)
(* its new home, unless it is to be terminated.                            *)
Picked(c) ==
  /\ loop[c] = "picked"
  /\ IF currentCpu[next[c]] # c /\ next[c] \notin terminatePending
     THEN /\ home' = [home EXCEPT ![c] = currentCpu[next[c]]]
          /\ loop' = [loop EXCEPT ![c] = "migrate"]
     ELSE /\ loop' = [loop EXCEPT ![c] = "settled"]
          /\ UNCHANGED home
  /\ UNCHANGED <<plan, threadVars, cpuVars, next, bumped, fiber, wake, call,
                 phase>>

MigrateHome(c) ==
  /\ loop[c] = "migrate" /\ LockFree
  /\ LinkAtTurn(home[c], next[c], list, summary)
  /\ running' = running \ {next[c]}
  /\ wake' = [wake EXCEPT ![c] = {home[c]}]
  /\ loop' = [loop EXCEPT ![c] = "migrateWake"]
  /\ next' = [next EXCEPT ![c] = None]
  /\ home' = [home EXCEPT ![c] = None]
  /\ UNCHANGED <<plan, blocked, suspended, waitVars, stateVars, lifeVars,
                 currentThread, exitedThread, pickVars, parkVars, fiber, call,
                 phase>>

(* ParkSuspended, whose check under the lock decides.  Mutant: parks on    *)
(* the check made before it.                                               *)
MustParkAlways(t) == t \notin terminatePending
MustPark(t) == suspendCount[t] > 0 /\ t \notin terminatePending

ParkSuspended(c) ==
  LET t == next[c] IN
  /\ loop[c] = "settled" /\ LockFree
  /\ MustPark(t)
  /\ suspended' = suspended \cup {t}
  /\ linkCpu' = [linkCpu EXCEPT ![t] = c]
  /\ list' = [list EXCEPT ![Suspended(c)] = Append(@, t)]
  /\ running' = running \ {t}
  /\ next' = [next EXCEPT ![c] = None]
  /\ loop' = [loop EXCEPT ![c] = "top"]
  /\ UNCHANGED <<plan, summary, queued, blocked, queuedPrio, waitVars,
                 stateVars, lifeVars, currentThread, exitedThread, pickVars,
                 parkVars, home, bumped, fiber, wake, call, phase>>

(* SwitchTo, up to the switch.                                             *)
SwitchTo(c) ==
  LET t == next[c] IN
  /\ loop[c] = "settled" /\ LockFree
  /\ ~MustPark(t)
  /\ exitedThread' = [exitedThread EXCEPT ![c] = None]
  /\ hasRun' = hasRun \cup {t}
  /\ currentThread' = [currentThread EXCEPT ![c] = t]
  /\ terminated' = terminated \ {t}     \* thread_state = KTHREAD_STATE_RUNNING
  /\ Goes(c, "fiber")
  /\ UNCHANGED <<plan, listVars, waitVars, stateVars, reclaimed,
                 terminatePending, running, pickVars, parkVars, bumped, fiber,
                 wake, call, phase>>

(* SwitchTo, back on the idle fiber; RunLoop then reclaims an exited one.  *)
AfterSwitch(c) == IF exitedThread[c] = None THEN "top" ELSE "reap"

SwitchedBack(c) ==
  /\ loop[c] = "back" /\ LockFree
  /\ running' = running \ {next[c]}
  /\ currentThread' = [currentThread EXCEPT ![c] = None]
  /\ next' = [next EXCEPT ![c] = None]
  /\ loop' = [loop EXCEPT ![c] = AfterSwitch(c)]
  /\ UNCHANGED <<plan, threadVars, exitedThread, pickVars, parkVars, home,
                 bumped, fiber, wake, call, phase>>

(* The test of exited_thread and its read are one: a crash of the thread   *)
(* on another CPU may have cleared it since.                               *)
ReclaimExited(c) ==
  /\ loop[c] = "reap"
  /\ reclaimed' = reclaimed \cup ({exitedThread[c]} \ {None})
  /\ exitedThread' = [exitedThread EXCEPT ![c] = None]
  /\ Goes(c, "top")
  /\ UNCHANGED <<plan, listVars, waitVars, stateVars, terminated, hasRun,
                 terminatePending, running, currentThread, pickVars, parkVars,
                 bumped, fiber, wake, call, phase>>

(* Going idle: parked is published before the queues are checked again.    *)
IdleParks(c) ==
  /\ loop[c] = "idle"
  /\ parked' = parked \cup {c}
  /\ Goes(c, "recheck")
  /\ UNCHANGED <<plan, threadVars, ownVars, pickVars, readyEvent, bumped,
                 fiber, wake, call, phase>>

(* Mutant: goes to sleep on a re-poll asked for since the top of the loop. *)
HasReady(c) == summary[c] # {}
HasWork(c)  == summary[c] # {} \/ c \in repollNow

IdleRechecks(c) ==
  /\ loop[c] = "recheck" /\ LockFree
  /\ IF HasWork(c) THEN parked' = parked \ {c} /\ Goes(c, "top")
                   ELSE UNCHANGED parked /\ Goes(c, "sleep")
  /\ UNCHANGED <<plan, threadVars, ownVars, pickVars, readyEvent, bumped,
                 fiber, wake, call, phase>>

WakesUp(c) ==
  /\ parked' = parked \ {c}
  /\ Goes(c, "top")
  /\ UNCHANGED <<plan, threadVars, ownVars, pickVars, bumped, fiber, wake,
                 call, phase>>

SleepWoken(c) ==
  /\ loop[c] = "sleep" /\ c \in readyEvent
  /\ readyEvent' = readyEvent \ {c}
  /\ WakesUp(c)

(* The sleep is timed while a waiter is blocked here, and until the first  *)
(* dispatch of all.                                                        *)
SleepTimeout(c) ==
  /\ loop[c] = "sleep"
  /\ list[Blocked(c)] # <<>> \/ hasRun = {}
  /\ UNCHANGED readyEvent
  /\ WakesUp(c)

-----------------------------------------------------------------------------
CallStarts(k) ==
  \/ \E s \in Starts, b \in BOOLEAN : Create(k, s[1], s[2], s[3], b)
  \/ \E t \in Threads : Resume(k, t) \/ Suspend(k, t) \/ Terminate(k, t)
  \/ \E t \in Threads, c \in Cpus : SetActiveCpu(k, t, c)
  \/ \E t \in Threads, p \in Levels : PublishPriority(k, t, p)
  \/ \E o \in Objects : Signal(k, o)
  \/ BeginWakeAll(k)
  \/ \E C \in SUBSET BackgroundCpus : EnterBackgroundMode(k, C)

CallContinues(k) ==
  \/ ResumeThread(k) \/ MarkReady(k) \/ EnqueueReady(k)
  \/ TerminateThread(k) \/ ReclaimTerminated(k)
  \/ MigrateForAffinity(k) \/ RequeueForPriority(k)
  \/ SignalCheck(k) \/ WakeForSignal(k) \/ WakeAllCheck(k) \/ WakeAll(k)
  \/ \E c \in Cpus : Wake(k, c)

GuestActs(c) ==
  \/ Yield(c) \/ SelfSuspend(c) \/ SelfResume(c)
  \/ \E S \in SUBSET Objects \ {{}} : SampleEpoch(c, S)
  \/ Delay(c) \/ BlockUngated(c) \/ WaitOnFence(c)
  \/ ExitBegin(c) \/ ExitYield(c) \/ Crash(c)

FiberContinues(c) ==
  FiberResume(c) \/ PollSatisfied(c) \/ BlockOnObjects(c) \/ ExitEnd(c)

Walks(c) == \E t \in Threads : KeepBlocked(c, t) \/ Reready(c, t)

Dispatches(c) ==
  \/ Top(c) \/ RereadyBegin(c) \/ Walks(c) \/ RereadyEnd(c)
  \/ LoopWoken(c) \/ \E d \in Cpus : LoopWake(c, d)
  \/ DequeueReady(c) \/ DequeueNothing(c)
  \/ Picked(c) \/ MigrateHome(c) \/ ParkSuspended(c) \/ SwitchTo(c)
  \/ SwitchedBack(c) \/ ReclaimExited(c)
  \/ IdleParks(c) \/ IdleRechecks(c) \/ SleepWoken(c)

ShutdownActs == ShutdownBegin \/ ShutdownDrain \/ \E c \in Cpus : ShutdownNudge(c)

Next ==
  \/ \E k \in Callers : CallStarts(k) \/ CallContinues(k)
  \/ \E c \in Cpus : \/ GuestActs(c) \/ PreemptCurrentFiber(c) \/ FiberContinues(c)
                     \/ Dispatches(c) \/ RepollDue(c) \/ SleepTimeout(c)
  \/ ShutdownActs

Spec == Init /\ [][Next]_vars

(* What the hosts guarantee.  Dispatch threads, the fibers they run and    *)
(* calls under way make progress, lock_ being granted to a call that keeps *)
(* asking.  A running fiber is preempted in the end: the watchdog raises   *)
(* its flag when the slice is over and it stays raised until a safepoint.  *)
(* Neither timed re-polls nor what guests and callers choose are fair.     *)
Fairness ==
  /\ \A k \in Callers : SF_vars(CallContinues(k))
  /\ \A c \in Cpus : /\ WF_vars(Dispatches(c))
                     /\ WF_vars(FiberContinues(c))
                     /\ WF_vars(PreemptCurrentFiber(c))
                     /\ WF_vars(ShutdownNudge(c))
  /\ WF_vars(ShutdownDrain)

FairSpec == Spec /\ Fairness

(* Guest code that keeps yielding voluntarily, the yield-spinner.          *)
SpinnerSpec == FairSpec /\ \A c \in Cpus : SF_vars(Yield(c))

=============================================================================
