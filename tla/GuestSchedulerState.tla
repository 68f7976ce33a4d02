------------------------ MODULE GuestSchedulerState ------------------------
(***************************************************************************)
(* The cooperative scheduler of guest threads,                             *)
(* src/src/xenia/kernel/guest_scheduler.cc, with the parts of xthread.cc   *)
(* that drive it (Create, Exit, Terminate, Suspend, Resume, SetActiveCpu,  *)
(* PublishPriority).                                                       *)
(*                                                                         *)
(* Every guest CPU has a dispatch host thread (loop); every guest thread   *)
(* is a fiber, pinned by its current_cpu to one of them.  Calls on a       *)
(* thread come from Callers: host threads, or guest threads of another     *)
(* fiber, which differ from host threads only in occupying their CPU.      *)
(* A section of code under lock_ is one step, except the walk of           *)
(* RereadyBlocked, which is one step per waiter and excludes every other   *)
(* section while it lasts.  Unlocked reads and writes are steps of their   *)
(* own wherever another actor can observe the difference.                  *)
(*                                                                         *)
(* Time is abstract: a timer of the code (slice, deadline, poll cadence,   *)
(* backstop, background window) may be due at any moment.                  *)
(***************************************************************************)
EXTENDS Integers, Sequences, FiniteSets

CONSTANTS
  Cpus,              \* guest CPUs, each with its dispatch thread (kMaxCpus)
  Threads,           \* guest threads
  Callers,           \* threads that call into the scheduler from outside
  Objects,           \* dispatcher objects of the gated types
  Starts,            \* which threads are created on which CPU and level
  MaxLevel,          \* highest ready level, 31 in the code
  BackgroundLevels,  \* levels of kBackgroundReadyMask
  BackgroundCpus,    \* KernelState::GetBackgroundProcessors
  MaxSuspend,        \* bound on suspend_count, a byte in the code
  Plans,             \* bounds, of which a behaviour picks one:
                     \*   calls     the calls the environment makes
                     \*   guestOps  the operations guest code performs
  None               \* null pointer; also "no CPU", -1 in the code

Levels == 0 .. MaxLevel

AllCalls == {"createSuspended", "resume", "suspend", "terminate", "setcpu", "setpriority",
             "signal", "wakeall", "background", "shutdown"}

AllGuestOps == {"yield", "wait", "delay", "poll", "fence", "suspendself",
                "resumeself", "exit", "exitYield", "crash"}

ASSUME ConstantsAssumption ==
  /\ MaxLevel \in Nat
  /\ MaxSuspend \in Nat \ {0}
  /\ Starts \subseteq Threads \X Cpus \X Levels
  /\ BackgroundLevels \subseteq Levels
  /\ BackgroundCpus \subseteq Cpus
  /\ Plans \subseteq [calls : SUBSET AllCalls, guestOps : SUBSET AllGuestOps]
  /\ None \notin Threads \cup Cpus
  /\ Callers \cap Cpus = {}

(* The intrusive lists, all linked through the one field ready_next.       *)
Ready(c, p)  == <<"ready", c, p>>
Blocked(c)   == <<"blocked", c>>
Suspended(c) == <<"suspended", c>>

ListIds == {Ready(c, p) : c \in Cpus, p \in Levels}
             \cup {Blocked(c) : c \in Cpus} \cup {Suspended(c) : c \in Cpus}

VARIABLES
  plan,             \* which of Plans
  (* Lists and the SchedulerLinks fields that say where a thread is. *)
  list,             \* contents of every list, head first
  summary,          \* ready_summary of every CPU, as a set of levels
  queued, blocked, suspended,  \* threads whose flag is set
  linkCpu,          \* links.cpu
  queuedPrio,       \* links.queued_prio
  (* What the dispatcher owns and how a thread leaves its CPU. *)
  running,          \* threads whose running flag is set
  bumped,           \* threads with preempted or repoll_preempt set
  hasRun,           \* has_run
  terminatePending, \* terminate_pending
  currentThread, yieldToOther, exitedThread,  \* the Cpu fields of those names
  background,       \* CPUs with an open background window
  (* Waits. *)
  waitSet,          \* objects a thread is registered as waiting on
  epochMoved,       \* threads one of whose objects was signaled since they
                    \* sampled its epoch
  gated,            \* blocked threads with wait_gated
  hasBlocked, repollNow,  \* CPUs with these flags set
  maxBlockedPrio,   \* max_blocked_prio
  toPoll,           \* waiters RereadyBlocked, holding the lock, has yet to visit
  (* Guest thread objects. *)
  fiber,            \* where the fiber of each thread stands
  priority,         \* XThread::priority_, clamped
  currentCpu,       \* X_KTHREAD::current_cpu
  suspendCount,     \* X_KTHREAD::suspend_count
  terminated,       \* threads with thread_state KTHREAD_STATE_TERMINATED
  reclaimed,        \* threads ReclaimExited dropped the self reference of
  (* Dispatch threads. *)
  loop,             \* where RunLoop stands
  next, home,       \* its locals
  parked, readyEvent, \* CPUs with parked set; with ready_event signaled
  wake,             \* CPUs an actor is still to wake after its lock section
  (* Callers and shutdown. *)
  call,             \* the call each caller is executing
  phase             \* "up", "stopping" (shutting_down_) or "stopped"

listVars   == <<list, summary, queued, blocked, suspended, linkCpu, queuedPrio>>
waitVars   == <<waitSet, epochMoved, gated, hasBlocked, repollNow, maxBlockedPrio, toPoll>>
stateVars  == <<priority, currentCpu, suspendCount>>
lifeVars   == <<terminated, reclaimed, hasRun, terminatePending>>
ownVars    == <<running, currentThread, exitedThread>>
pickVars   == <<yieldToOther, background>>
parkVars   == <<parked, readyEvent>>
loopVars   == <<loop, next, home>>

threadVars == <<listVars, waitVars, stateVars, lifeVars>>
cpuVars    == <<ownVars, pickVars, parkVars>>

vars == <<plan, listVars, waitVars, stateVars, lifeVars, ownVars, pickVars, parkVars,
          loopVars, bumped, fiber, wake, call, phase>>

Idle == [pc |-> "idle", t |-> None, cpu |-> None]

CallPcs  == {"idle", "unlink", "markReady", "enqueue", "terminate", "reclaim",
             "migrate", "requeue", "signalCheck", "signalWalk", "wakeAllCheck",
             "wakeAllWalk", "wake"}
FiberPcs == {"none", "new", "run", "polling", "yielded", "parked", "fenced",
             "exiting", "exitYielded", "exited", "diverted", "crashed"}
LoopPcs  == {"top", "repoll", "reready", "rereadyWake", "dequeue", "picked",
             "settled", "migrate", "migrateWake", "fiber", "back", "reap", "idle",
             "recheck", "sleep", "gone"}

Init ==
  /\ plan \in Plans
  /\ list = [l \in ListIds |-> <<>>]
  /\ summary = [c \in Cpus |-> {}]
  /\ queued = {} /\ blocked = {} /\ suspended = {}
  /\ linkCpu = [t \in Threads |-> None]
  /\ queuedPrio = [t \in Threads |-> 0]
  /\ running = {} /\ bumped = {} /\ hasRun = {} /\ terminatePending = {}
  /\ currentThread = [c \in Cpus |-> None]
  /\ yieldToOther = [c \in Cpus |-> None]
  /\ exitedThread = [c \in Cpus |-> None]
  /\ background = {}
  /\ waitSet = [t \in Threads |-> {}]
  /\ gated = {} /\ epochMoved = {} /\ hasBlocked = {} /\ repollNow = {}
  /\ maxBlockedPrio = [c \in Cpus |-> -1]
  /\ toPoll = {}
  /\ fiber = [t \in Threads |-> "none"]
  /\ priority = [t \in Threads |-> 0]
  /\ currentCpu = [t \in Threads |-> None]
  /\ suspendCount = [t \in Threads |-> 0]
  /\ terminated = {} /\ reclaimed = {}
  /\ loop = [c \in Cpus |-> "top"]
  /\ next = [c \in Cpus |-> None]
  /\ home = [c \in Cpus |-> None]
  /\ parked = {} /\ readyEvent = {}
  /\ wake = [a \in Cpus \cup Callers |-> {}]
  /\ call = [k \in Callers |-> Idle]
  /\ phase = "up"

-----------------------------------------------------------------------------
(* Lists                                                                   *)

(* lock_ is free: only the walk of RereadyBlocked spans steps.             *)
LockFree == \A c \in Cpus : loop[c] # "reready"

RangeOf(s) == {s[i] : i \in DOMAIN s}

(* UnlinkLocked: a walk from the head that drops t if it meets it.         *)
Unlink(s, t) ==
  IF t \in RangeOf(s)
  THEN LET i == CHOOSE j \in DOMAIN s : s[j] = t
       IN  SubSeq(s, 1, i - 1) \o SubSeq(s, i + 1, Len(s))
  ELSE s

(* The lists and the summary once t has left its ready list.  Every such   *)
(* site of the code clears the summary bit of a level it has emptied.      *)
WithoutReady(t) ==
  [list EXCEPT ![Ready(linkCpu[t], queuedPrio[t])] = Unlink(@, t)]

(* Mutant: clears the bit of a level that still has threads.               *)
ClearedSummaryAlways(c, p, lists) == [summary EXCEPT ![c] = @ \ {p}]

ClearedSummary(c, p, lists) ==
  [summary EXCEPT ![c] = IF lists[Ready(c, p)] = <<>> THEN @ \ {p} ELSE @]

(* The runner of CPU c, if a thread of priority p outranks it.             *)
Outranked(c, p) ==
  {r \in {currentThread[c]} : r # None /\ p > priority[r]}

(* LinkReadyLocked on CPU c, starting from the given lists, summary and    *)
(* bumped set.  Sets the links fields its callers set just before it.      *)
LinkReadyLocked(c, t, atHead, lists, levels, bumps) ==
  /\ list' = [lists EXCEPT ![Ready(c, priority[t])] =
                IF atHead THEN <<t>> \o @ ELSE Append(@, t)]
  /\ summary' = [levels EXCEPT ![c] = @ \cup {priority[t]}]
  /\ queuedPrio' = [queuedPrio EXCEPT ![t] = priority[t]]
  /\ linkCpu' = [linkCpu EXCEPT ![t] = c]
  /\ queued' = queued \cup {t}
  /\ bumped' = bumps \cup (Outranked(c, priority[t]) \ {t})

(* The link with TakeHeadRequeue: a bumped thread goes to the head.        *)
LinkAtTurn(c, t, lists, levels) ==
  LinkReadyLocked(c, t, t \in bumped, lists, levels, bumped \ {t})

(* Mutants: queues a thread parked in another list; queues a thread whose  *)
(* context another dispatch thread has not saved yet.                      *)
LeftAloneIfQueued(t, here) == t \in queued \/ (t \in running /\ linkCpu[t] # here)
LeftAloneIfListed(t, here) == t \in blocked \cup suspended \cup queued

(* What makes EnqueueReady leave a thread alone, called on CPU here (None  *)
(* off the dispatch threads).                                              *)
LeftAlone(t, here) ==
  \/ t \in blocked \cup suspended \cup queued
  \/ t \in running /\ linkCpu[t] # here

Exists(t) == fiber[t] # "none"

(* AbandonCooperativeWait, and the end of a wait: no object has t as a     *)
(* waiter and the epochs it sampled no longer matter.                      *)
LeaveWait(t) ==
  /\ waitSet' = [waitSet EXCEPT ![t] = {}]
  /\ epochMoved' = epochMoved \ {t}

(* A waker sets ready_event of a CPU only if it sees it parked.            *)
SetReadyEvent(c) ==
  readyEvent' = IF c \in parked THEN readyEvent \cup {c} ELSE readyEvent

(* What ForgetThread and the late half of TerminateThread share: t leaves  *)
(* whatever list holds it.                                                 *)
Detach(t) ==
  /\ LET c == linkCpu[t]
         from == IF t \in queued THEN Ready(c, queuedPrio[t])
                 ELSE IF t \in blocked THEN Blocked(c) ELSE Suspended(c)
     IN  IF t \in queued \cup blocked \cup suspended
         THEN /\ list' = [list EXCEPT ![from] = Unlink(@, t)]
              /\ summary' = IF t \in queued
                            THEN ClearedSummary(c, queuedPrio[t], WithoutReady(t))
                            ELSE summary
         ELSE UNCHANGED <<list, summary>>
  /\ queued' = queued \ {t}
  /\ blocked' = blocked \ {t}
  /\ suspended' = suspended \ {t}

=============================================================================
