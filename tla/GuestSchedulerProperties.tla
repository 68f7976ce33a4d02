---------------------- MODULE GuestSchedulerProperties ----------------------
(***************************************************************************)
(* What the guest scheduler promises.                                      *)
(***************************************************************************)
EXTENDS GuestScheduler

(* Every variable of the scheduler keeps to the values the code gives it.  *)
TypeOK ==
  /\ list \in [ListIds -> Seq(Threads)]
  /\ summary \in [Cpus -> SUBSET Levels]
  /\ queued \subseteq Threads /\ blocked \subseteq Threads /\ suspended \subseteq Threads
  /\ linkCpu \in [Threads -> Cpus \cup {None}]
  /\ queuedPrio \in [Threads -> Levels]
  /\ running \subseteq Threads /\ bumped \subseteq Threads /\ hasRun \subseteq Threads
  /\ terminatePending \subseteq Threads
  /\ currentThread \in [Cpus -> Threads \cup {None}]
  /\ yieldToOther \in [Cpus -> Threads \cup {None}]
  /\ exitedThread \in [Cpus -> Threads \cup {None}]
  /\ background \subseteq Cpus
  /\ waitSet \in [Threads -> SUBSET Objects]
  /\ epochMoved \subseteq Threads /\ gated \subseteq Threads
  /\ hasBlocked \subseteq Cpus /\ repollNow \subseteq Cpus
  /\ maxBlockedPrio \in [Cpus -> Levels \cup {-1}]
  /\ toPoll \subseteq Threads
  /\ fiber \in [Threads -> FiberPcs]
  /\ priority \in [Threads -> Levels]
  /\ currentCpu \in [Threads -> Cpus \cup {None}]
  /\ suspendCount \in [Threads -> 0 .. MaxSuspend]
  /\ terminated \subseteq Threads /\ reclaimed \subseteq Threads
  /\ loop \in [Cpus -> LoopPcs]
  /\ next \in [Cpus -> Threads \cup {None}]
  /\ home \in [Cpus -> Cpus \cup {None}]
  /\ parked \subseteq Cpus /\ readyEvent \subseteq Cpus
  /\ wake \in [Cpus \cup Callers -> SUBSET Cpus]
  /\ call \in [Callers -> [pc  : CallPcs,
                           t   : Threads \cup Objects \cup {None},
                           cpu : Cpus \cup {None}]]
  /\ phase \in {"up", "stopping", "stopped"}

-----------------------------------------------------------------------------
(* Lists and ownership                                                     *)

(* The list a listed thread is in, by its flags and links.                 *)
HomeList(t) ==
  IF t \in queued THEN Ready(linkCpu[t], queuedPrio[t])
  ELSE IF t \in blocked THEN Blocked(linkCpu[t])
  ELSE Suspended(linkCpu[t])

OwningPcs == {"picked", "settled", "migrate", "fiber", "back", "gone"}

(* A dispatch thread that a revived fiber has ended owns that fiber for    *)
(* ever; one that has left its loop at the top has no next.                *)
Owns(c, t) == loop[c] \in OwningPcs /\ next[c] = t

(* A thread is in at most one of the ready, blocked and suspended lists,   *)
(* at most once, in the one its flags and links name (the lists share the  *)
(* one link field ready_next, so a second membership corrupts the first).  *)
InOnePlace ==
  /\ queued \cap blocked = {} /\ queued \cap suspended = {}
  /\ blocked \cap suspended = {}
  /\ \A t \in Threads, l \in ListIds :
       t \in RangeOf(list[l]) <=> t \in Listed /\ l = HomeList(t)
  /\ \A l \in ListIds : \A i, j \in DOMAIN list[l] :
       list[l][i] = list[l][j] => i = j

(* The summary word of a CPU has exactly the bits of its nonempty levels:  *)
(* a missing bit strands a thread, a stray one dispatches a null head.     *)
SummaryExact ==
  \A c \in Cpus : summary[c] = {p \in Levels : list[Ready(c, p)] # <<>>}

(* The fiber stack of a thread is used by one dispatch thread at a time:   *)
(* running is set exactly while one owns the thread, no two own the same,  *)
(* and no list offers it to any other CPU until its context is saved.      *)
OneOwner ==
  /\ \A t \in Threads : t \in running <=> \E c \in Cpus : Owns(c, t)
  /\ \A c, d \in Cpus, t \in Threads : Owns(c, t) /\ Owns(d, t) => c = d
  /\ \A c \in Cpus, t \in Threads :
       Owns(c, t) => \/ t \notin Listed
                     \/ loop[c] = "back" /\ linkCpu[t] = c

(* yield_to_other names a thread still queued on that CPU, never one that  *)
(* has been dispatched, migrated or freed since.                           *)
YielderIsQueued ==
  \A c \in Cpus, t \in Threads :
    yieldToOther[c] = t => t \in queued /\ linkCpu[t] = c

-----------------------------------------------------------------------------
(* Wake-ups                                                                *)

WakeInFlight(c) == \E a \in Cpus \cup Callers : c \in wake[a]

(* A dispatch thread does not sleep on work: with a thread in its ready    *)
(* lists or a re-poll asked of it, its event is set or about to be.        *)
NoLostWork ==
  \A c \in Cpus :
    loop[c] = "sleep" /\ (summary[c] # {} \/ c \in repollNow) =>
      c \in readyEvent \/ WakeInFlight(c)

(* A signal is not lost on a gated waiter: while its epoch has moved and   *)
(* it is still parked, its CPU is asked to re-poll or re-polling, or the   *)
(* signaler has not yet walked the blocked lists.                          *)
SignalInFlight(t) ==
  \E k \in Callers : /\ call[k].pc \in {"signalCheck", "signalWalk"}
                     /\ call[k].t \in waitSet[t]

NoLostSignal ==
  \A t \in blocked \cap gated :
    t \in epochMoved =>
      \/ linkCpu[t] \in repollNow
      \/ loop[linkCpu[t]] = "repoll"
      \/ loop[linkCpu[t]] = "reready" /\ t \in toPoll
      \/ SignalInFlight(t)

-----------------------------------------------------------------------------
(* Ends                                                                    *)

(* A reclaimed thread, whose stack is freed, is in no list and owned by no *)
(* dispatch thread.                                                        *)
ReclaimedIsGone == reclaimed \cap (Listed \cup running) = {}

CallOn(t) == \E k \in Callers : call[k].t = t

(* A thread parked on its suspend count stays parked only while the count  *)
(* is nonzero or the Resume that zeroed it is on its way to unpark it.     *)
SuspendedHasCount ==
  \A t \in suspended :
    \/ suspendCount[t] > 0
    \/ \E k \in Callers : call[k].pc = "unlink" /\ call[k].t = t

(* No thread falls out of the scheduler: one that is in no list and owned  *)
(* by nobody is on its way there, was never started, or is finished, and   *)
(* none stays suspended that nobody is left to resume.                     *)
NotStranded ==
  /\ SuspendedHasCount
  /\ \A t \in Threads :
       \/ ~Exists(t) \/ t \in Listed \cup running \cup reclaimed
       \/ fiber[t] \in {"diverted", "exited", "crashed"}
       \/ CallOn(t)
       \/ fiber[t] = "new" /\ suspendCount[t] > 0 /\ t \notin hasRun \cup terminatePending

(* Shutdown leaks nothing that was terminated before it: RelaunchTitle     *)
(* terminates every guest thread, then shuts the scheduler down.           *)
ShutdownReclaims ==
  phase = "stopped" =>
    \A t \in terminatePending :
      t \in reclaimed \/ fiber[t] = "crashed" \/ CallOn(t)

-----------------------------------------------------------------------------
(* Progress                                                                *)

(* A parked waiter whose object was signaled is re-readied, with no help   *)
(* from any timer.                                                         *)
SignaledIsReadied ==
  \A t \in Threads : t \in blocked \cap gated \cap epochMoved ~> t \notin blocked

(* Among threads of one level, and with a yield-spinner above it, a queued *)
(* thread is dispatched in the end.                                        *)
QueuedIsDispatched ==
  \A t \in Threads : t \in queued ~> t \in running \/ phase # "up"

(* A terminated thread exits and is reclaimed, wherever the terminate      *)
(* found it, unless it parked just after the terminate looked at it and no *)
(* re-poll ever comes to it, which is what the backstop is for.            *)
TerminatedIsReclaimed ==
  \A t \in Threads :
    \/ <>[](t \in blocked)
    \/ t \in terminatePending ~> t \in reclaimed \/ fiber[t] = "crashed"

-----------------------------------------------------------------------------
(* What a comment of the code says and the code does not keep              *)

(* guest_scheduler.h, MarkReady: a thread already running is left alone,   *)
(* so while a fiber runs no other CPU is offered it.                       *)
RunningIsLeftAlone ==
  \A c \in Cpus, t \in queued :
    loop[c] = "fiber" /\ next[c] = t => linkCpu[t] = c

(* guest_scheduler.cc, MarkReady: a terminated thread is not re-enqueued,  *)
(* or a stray Resume could revive a zombie.                                *)
ZombieNotRevived ==
  \A t \in queued : fiber[t] \notin {"exited", "diverted"}

=============================================================================
