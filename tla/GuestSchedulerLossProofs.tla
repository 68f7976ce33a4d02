---------------------- MODULE GuestSchedulerLossProofs ----------------------
(***************************************************************************)
(* Proofs that the guest scheduler loses no thread: none on the way        *)
(* between the lists, none that was terminated when the scheduler shuts    *)
(* down, and none is freed while anything reaches it.  For any number of   *)
(* CPUs, threads, callers, objects and levels, on top of IInv and WakeInv, *)
(* with KeptInv for the threads, EndInv for the shutdown and FreedInv for  *)
(* the frees.                                                              *)
(***************************************************************************)
EXTENDS GuestSchedulerProofs

USE ConstantsAssumption

-----------------------------------------------------------------------------
(* Threads                                                                 *)
-----------------------------------------------------------------------------
(* What NotStranded needs: Resume runs neither against Terminate nor       *)
(* against an Exit that yields.  In between Resume's unlink and its        *)
(* MarkReady a thread is in no list, and MarkReady leaves a terminated     *)
(* thread alone: with the two together a thread may be stranded.           *)
ResumesApart ==
  \A p \in Plans : "resume" \in p.calls =>
    "terminate" \notin p.calls /\ "exitYield" \notin p.guestOps

(* A fiber that will not run again.                                        *)
Dead(t) == fiber[t] \in {"diverted", "exited", "crashed"}

(* In a list, owned by a dispatch thread, freed or dead.                   *)
Settled(t) == t \in Listed \cup running \cup reclaimed \/ Dead(t)

(* In the hands of a call that is at one of pcs.                           *)
Pending(t, pcs) == \E k \in Callers : call[k].pc \in pcs /\ call[k].t = t

(* Created suspended and not resumed yet.                                  *)
Unstarted(t) ==
  fiber[t] = "new" /\ suspendCount[t] > 0 /\ t \notin hasRun \cup terminatePending

(* A thread that gave up its CPU is linked, until its dispatch thread is   *)
(* back.                                                                   *)
LeavesListed ==
  \A c \in Cpus : loop[c] = "back" => next[c] \in queued \cup blocked \/ Dead(next[c])

(* Only a thread that was created has run or is terminated.                *)
RanExists == \A t \in hasRun \cup terminatePending : Exists(t)

(* Where a call readies a thread, and where it ends one.                   *)
Readying == {"unlink", "markReady", "enqueue"}
Reaping  == {"terminate", "reclaim"}

(* Every thread is settled, not started, or in the hands of a call.        *)
Placed ==
  \A t \in Threads :
    Exists(t) => Settled(t) \/ Unstarted(t) \/ Pending(t, Readying \cup Reaping)

(* One that is terminated is settled or in the hands of a call that frees  *)
(* it.                                                                     *)
Ends == \A t \in terminated \cup terminatePending : Settled(t) \/ Pending(t, Reaping)

(* With resumes nobody is terminated by another, and Exit does not yield:  *)
(* a thread that is terminated is on its last stretch.                     *)
ResumeRegime ==
  /\ terminatePending = {}
  /\ \A k \in Callers : call[k].pc \notin Reaping
  /\ \A t \in terminated : fiber[t] \in {"exiting", "exited", "crashed"}
  /\ \A c \in Cpus : loop[c] = "fiber" /\ next[c] \in terminated => fiber[next[c]] = "exiting"
  /\ \A t \in Threads : fiber[t] = "exiting" => \E c \in Cpus : loop[c] = "fiber" /\ next[c] = t
  /\ \A t \in Threads : fiber[t] \notin {"exitYielded", "diverted"}

(* Without resumes nobody is between Resume's unlink and its MarkReady: a  *)
(* thread that has run leaves the lists only to run or to end.             *)
EndRegime ==
  /\ \A k \in Callers : call[k].pc # "unlink"
  /\ \A t \in hasRun : Settled(t) \/ Pending(t, {"reclaim"})

(* The invariant of the threads.                                           *)
KeptInv ==
  /\ LeavesListed /\ RanExists /\ Placed /\ Ends
  /\ "resume" \in plan.calls => ResumeRegime
  /\ "resume" \notin plan.calls => EndRegime

(* What a dispatch thread owns: its thread, which is linked to it and no   *)
(* one else's.                                                             *)
LEMMA Owning ==
  ASSUME IInv
  PROVE  /\ \A c \in Cpus : loop[c] \in {"picked", "settled", "migrate", "fiber", "back"} =>
              next[c] \in Threads /\ next[c] \in running /\ linkCpu[next[c]] = c
                /\ Exists(next[c])
         /\ \A c, d \in Cpus : (loop[c] \in {"picked", "settled", "migrate", "fiber", "back"}
              /\ loop[d] \in {"picked", "settled", "migrate", "fiber", "back"}
                   /\ next[c] = next[d]) => c = d
         /\ \A c \in Cpus : loop[c] \in {"picked", "settled", "migrate", "fiber"}
              => next[c] \notin Listed
<1>1. \A c \in Cpus : loop[c] \in {"picked", "settled", "migrate", "fiber", "back"} =>
              next[c] \in Threads /\ Owns(c, next[c])
  BY DEF IInv, OwnInv, TypeInv, LoopType, OwningPcs, Owns
<1> QED BY <1>1 DEF IInv, OwnInv, RefInv


(* A fiber that gives its CPU back leaves itself in a list or ended.       *)
GivesUp(c) ==
  /\ loop[c] = "fiber" /\ loop' = [loop EXCEPT ![c] = "back"] /\ next' = next
  /\ \E pc \in FiberPcs \ {"none"} :
       /\ fiber' = [fiber EXCEPT ![next[c]] = pc]
       /\ next[c] \in queued' \cup blocked' \/ pc \in {"diverted", "exited", "crashed"}
       /\ pc = "diverted" => next[c] \in terminatePending
       /\ pc = "exitYielded" => "exitYield" \in plan.guestOps
       /\ pc # "exiting"
       /\ pc \in {"exited", "crashed", "exitYielded", "diverted"}
            \/ (terminated' \subseteq terminated /\ (fiber[next[c]] # "exiting"))
  /\ queued \subseteq queued' /\ blocked \subseteq blocked' /\ suspended' = suspended
  /\ terminated' \subseteq terminated \cup {next[c]}
  /\ \A t \in Threads : t # next[c] => suspendCount'[t] = suspendCount[t]
  /\ UNCHANGED <<running, reclaimed, hasRun, terminatePending, call>>

(* A yield gives the CPU up.                                               *)
LEMMA YieldGivesUp ==
  ASSUME IInv, NEW c \in Cpus, NEW b \in BOOLEAN, NEW pc \in {"yielded", "exitYielded"},
           OnCpu(c, {"run", "exiting"}),
         YieldCurrentThread(c, b, pc), YieldLeavesAlone,
         \A t \in Threads : t # next[c] => suspendCount'[t] = suspendCount[t],
         pc = "exitYielded" => "exitYield" \in plan.guestOps,
         pc = "yielded" => OnCpu(c, {"run"})
  PROVE  GivesUp(c)
<1> DEFINE t == next[c]
<1>1. loop[c] = "fiber" /\ t \in Threads /\ t \notin Listed /\ t \in running /\ linkCpu[t] = c
  BY Owning DEF OnCpu
<1>2. UNCHANGED <<running, reclaimed, hasRun, terminatePending, call>>
  BY DEF YieldLeavesAlone
<1>3. CASE ExitIfTerminated(c) /\ UNCHANGED <<listVars, bumped, yieldToOther>>
  BY <1>1, <1>2, <1>3 DEF ExitIfTerminated, FiberAt, YieldToScheduler, listVars, GivesUp,
     FiberPcs
<1>4. CASE /\ t \notin terminatePending /\ ~LeftAlone(t, c)
           /\ LinkAtTurn(c, t, list, summary)
           /\ UNCHANGED <<blocked, suspended>>
           /\ FiberAt(t, pc)
           /\ YieldToScheduler(c)
           /\ UNCHANGED <<waitSet, epochMoved, terminated, exitedThread>>
  <2>1. queued' = queued \cup {t}
    BY <1>4 DEF LinkAtTurn, LinkReadyLocked
  <2>2. loop' = [loop EXCEPT ![c] = "back"] /\ next' = next /\ fiber' = [fiber EXCEPT ![t] = pc]
    BY <1>4 DEF YieldToScheduler, FiberAt
  <2>3. pc = "yielded" => fiber[t] = "run"
    BY DEF OnCpu
  <2> QED BY <1>1, <1>2, <1>4, <2>1, <2>2, <2>3 DEF GivesUp, FiberPcs
<1>5. ~LeftAlone(t, c)
  BY <1>1 DEF LeftAlone, Listed
<1> QED BY <1>3, <1>4, <1>5 DEF YieldCurrentThread

(* So does everything else a fiber does to give up its CPU.                *)
LEMMA FibersGiveUp ==
  ASSUME IInv, NEW c \in Cpus,
         \/ Yield(c) \/ PreemptCurrentFiber(c) \/ SelfSuspend(c) \/ ExitYield(c)
         \/ Delay(c) \/ BlockUngated(c) \/ WaitOnFence(c) \/ BlockOnObjects(c) \/ ExitEnd(c)
              \/ Crash(c)
  PROVE  GivesUp(c)
<1>1. CASE Yield(c) \/ PreemptCurrentFiber(c) \/ SelfSuspend(c)
  <2>1. OnCpu(c, {"run"}) /\ OnCpu(c, {"run", "exiting"}) /\ YieldLeavesAlone
          /\ \E b \in BOOLEAN : YieldCurrentThread(c, b, "yielded")
    BY <1>1 DEF Yield, PreemptCurrentFiber, SelfSuspend, OnCpu
  <2>2. \A t \in Threads : t # next[c] => suspendCount'[t] = suspendCount[t]
    BY <1>1 DEF Yield, PreemptCurrentFiber, SelfSuspend, IInv, TypeInv, StateType
  <2> QED BY <2>1, <2>2, YieldGivesUp
<1>2. CASE ExitYield(c)
  BY <1>2, YieldGivesUp DEF ExitYield, OnCpu
<1>3. CASE Delay(c) \/ BlockUngated(c) \/ WaitOnFence(c) \/ BlockOnObjects(c)
  <2>1. /\ OnCpu(c, {"run", "polling"}) /\ BlockLeavesAlone
        /\ \/ ExitIfTerminated(c) /\ UNCHANGED blocked
           \/ \E g, pc \in {TRUE, FALSE, "parked", "fenced"} : pc \in {"parked", "fenced"}
                /\ ParkBlocked(c, g, pc)
    BY <1>3 DEF Delay, BlockUngated, WaitOnFence, BlockOnObjects, BlockCurrentThread,
       OnCpu
  <2>2. loop[c] = "fiber" /\ next[c] \in Threads /\ fiber[next[c]] # "exiting"
          /\ UNCHANGED <<queued, suspended, suspendCount, running, reclaimed, hasRun,
               terminatePending, call>>
    BY <2>1, Owning DEF OnCpu, BlockLeavesAlone, stateVars
  <2>3. CASE ExitIfTerminated(c) /\ UNCHANGED blocked
    BY <2>2, <2>3 DEF ExitIfTerminated, FiberAt, YieldToScheduler, GivesUp, FiberPcs
  <2>4. ASSUME NEW g, NEW pc \in {"parked", "fenced"}, ParkBlocked(c, g, pc)
        PROVE  GivesUp(c)
    BY <2>2, <2>4 DEF ParkBlocked, FiberAt, YieldToScheduler, GivesUp, FiberPcs
  <2> QED BY <2>1, <2>3, <2>4
<1>4. CASE ExitEnd(c)
  BY <1>4 DEF ExitEnd, OnCpu, FiberAt, YieldToScheduler, GivesUp, FiberPcs, threadVars,
     listVars, stateVars, lifeVars
<1>5. CASE Crash(c)
  <2>1. loop[c] = "fiber" /\ next[c] \notin Listed
    BY <1>5, Owning DEF Crash, OnCpu
  <2>2. queued' = queued /\ blocked' = blocked /\ suspended' = suspended
    BY <1>5, <2>1 DEF Crash, Detach, Listed
  <2> QED BY <1>5, <2>1, <2>2 DEF Crash, FiberAt, YieldToScheduler, GivesUp, FiberPcs,
    stateVars
<1> QED BY <1>1, <1>2, <1>3, <1>4, <1>5

(* What DequeueReady takes was queued on its CPU.                          *)
LEMMA DequeueDoes ==
  ASSUME IInv, NEW c \in Cpus, DequeueReady(c)
  PROVE  \E t \in queued : /\ linkCpu[t] = c /\ queued' = queued \ {t}
                              /\ running' = running \cup {t}
                           /\ next' = [next EXCEPT ![c] = t] /\ loop[c] = "dequeue"
                                /\ loop' = [loop EXCEPT ![c] = "picked"]
                           /\ UNCHANGED <<blocked, suspended, lifeVars, stateVars, call, fiber>>
<1>1. PICK open \in BOOLEAN :
        LET t == PickedAmong(c, Band(c, open)) IN
        /\ queued' = queued \ {t}
        /\ running' = running \cup {t}
        /\ next' = [next EXCEPT ![c] = t]
  BY DEF DequeueReady
<1>2. Band(c, open) \subseteq summary[c] /\ Band(c, open) # {}
  BY DEF Band, DequeueReady
<1>3. PickedAmong(c, Band(c, open)) \in queued /\ linkCpu[PickedAmong(c, Band(c, open))] = c
  BY <1>2, PicksQueued
<1>4. loop[c] = "dequeue" /\ loop' = [loop EXCEPT ![c] = "picked"]
        /\ UNCHANGED <<blocked, suspended, lifeVars, stateVars, call, fiber>>
  BY DEF DequeueReady
<1> QED BY <1>1, <1>3, <1>4

(* A fiber gives up its CPU only after it was linked, or at its end.       *)
LEMMA LeavesListedKept ==
  ASSUME NoSelfResume, plan \in Plans, IInv, IInv', KeptInv, Next
  PROVE  LeavesListed'
<1>0. /\ LeavesListed /\ LoopType /\ FiberType /\ LifeType /\ OwnType
      /\ \A t \in blocked, c \in Cpus : t \in RangeOf(list[Blocked(c)]) => linkCpu[t] = c
  BY BlockedAreListed DEF KeptInv, IInv, TypeInv, ListInv
<1>a. \A c \in Cpus : loop[c] \in {"picked", "settled", "migrate", "fiber", "back"}
          => next[c] \in Threads /\ next[c] \in running /\ linkCpu[next[c]] = c
  BY Owning
<1>b. \A c, d \in Cpus : /\ loop[c] \in {"picked", "settled", "migrate", "fiber", "back"}
                               /\ loop[d] \in {"picked", "settled", "migrate", "fiber", "back"}
                               /\ next[c] = next[d]
                                 => c = d
  BY Owning
<1>1. ASSUME NEW k \in Callers, NEW t \in Threads, NEW c \in Cpus, NEW p \in Levels,
               NEW b \in BOOLEAN, Create(k, t, c, p, b)
      PROVE  LeavesListed'
  <2>1. UNCHANGED <<loop, next, queued, blocked>> /\ fiber' = [fiber EXCEPT ![t] = "new"]
          /\ fiber[t] = "none"
    BY <1>1 DEF Create, Exists, listVars, loopVars
  <2>2. \A c_ \in Cpus : loop[c_] = "back" => fiber[next[c_]] # "none"
    BY Owning DEF Exists
  <2> QED BY <1>0, <1>a, <2>1, <2>2 DEF LeavesListed, Dead, FiberType
<1>2. ASSUME NEW k \in Callers, NEW t \in Threads, Resume(k, t)
      PROVE  LeavesListed'
  BY <1>0, <1>a, <1>b, <1>2 DEF Resume, At, ResumesFrom, Exists, cpuVars, listVars,
     lifeVars, loopVars, ownVars, LeavesListed, Dead, LoopType, FiberType, LifeType,
     OwnType
<1>3. ASSUME NEW k \in Callers, NEW t \in Threads, Suspend(k, t)
      PROVE  LeavesListed'
  BY <1>0, <1>a, <1>b, <1>3 DEF Suspend, cpuVars, listVars, lifeVars, loopVars,
     ownVars, LeavesListed, Dead, LoopType, FiberType, LifeType, OwnType
<1>4. ASSUME NEW k \in Callers, NEW t \in Threads, Terminate(k, t)
      PROVE  LeavesListed'
  BY <1>0, <1>a, <1>b, <1>4 DEF Terminate, At, cpuVars, listVars, loopVars, ownVars,
     LeavesListed, Dead, LoopType, FiberType, LifeType, OwnType
<1>5. ASSUME NEW k \in Callers, NEW t \in Threads, NEW c \in Cpus, SetActiveCpu(k, t, c)
      PROVE  LeavesListed'
  BY <1>0, <1>a, <1>b, <1>5 DEF SetActiveCpu, At, cpuVars, listVars, lifeVars,
     loopVars, ownVars, LeavesListed, Dead, LoopType, FiberType, LifeType, OwnType
<1>6. ASSUME NEW k \in Callers, NEW t \in Threads, NEW p \in Levels, PublishPriority(k, t, p)
      PROVE  LeavesListed'
  BY <1>0, <1>a, <1>b, <1>6 DEF PublishPriority, At, cpuVars, listVars, lifeVars,
     loopVars, ownVars, LeavesListed, Dead, LoopType, FiberType, LifeType, OwnType
<1>7. ASSUME NEW k \in Callers, NEW o \in Objects, Signal(k, o)
      PROVE  LeavesListed'
  BY <1>0, <1>a, <1>b, <1>7 DEF Signal, At, cpuVars, listVars, lifeVars, loopVars,
     ownVars, LeavesListed, Dead, LoopType, FiberType, LifeType, OwnType
<1>8. ASSUME NEW k \in Callers, BeginWakeAll(k)
      PROVE  LeavesListed'
  BY <1>0, <1>a, <1>b, <1>8 DEF BeginWakeAll, At, threadVars, cpuVars, loopVars,
     listVars, lifeVars, ownVars, LeavesListed, Dead, LoopType, FiberType, LifeType,
     OwnType
<1>9. ASSUME NEW k \in Callers, NEW C \in SUBSET BackgroundCpus, EnterBackgroundMode(k, C)
      PROVE  LeavesListed'
  BY <1>0, <1>a, <1>b, <1>9 DEF EnterBackgroundMode, threadVars, ownVars, loopVars,
     listVars, lifeVars, LeavesListed, Dead, LoopType, FiberType, LifeType, OwnType
<1>10. ASSUME NEW k \in Callers, ResumeThread(k)
      PROVE  LeavesListed'
  BY <1>0, <1>a, <1>b, <1>10 DEF ResumeThread, At, LockFree, cpuVars, lifeVars,
     loopVars, ownVars, LeavesListed, Dead, LoopType, FiberType, LifeType, OwnType
<1>11. ASSUME NEW k \in Callers, MarkReady(k)
      PROVE  LeavesListed'
  BY <1>0, <1>a, <1>b, <1>11 DEF MarkReady, At, threadVars, cpuVars, loopVars,
     listVars, lifeVars, ownVars, LeavesListed, Dead, LoopType, FiberType, LifeType,
     OwnType
<1>12. ASSUME NEW k \in Callers, EnqueueReady(k)
      PROVE  LeavesListed'
  BY <1>0, <1>a, <1>b, <1>12 DEF EnqueueReady, At, LockFree, LeftAlone, LinkAtTurn,
     LinkReadyLocked, cpuVars, lifeVars, loopVars, ownVars, LeavesListed, Dead, LoopType,
     FiberType, LifeType, OwnType
<1>13. ASSUME NEW k \in Callers, TerminateThread(k)
      PROVE  LeavesListed'
  <2> DEFINE t == call[k].t
  <2>1. UNCHANGED <<loop, next, fiber>>
    BY <1>13 DEF TerminateThread, loopVars
  <2>2. CASE t \notin running
    <3>1. \A u \in running : u \in queued \cup blocked => u \in queued' \cup blocked'
      BY <1>13, <2>2 DEF TerminateThread, TerminateStopped, TerminateRunning,
         TerminateParked, TerminateUnlisted, Detach, LinkReadyLocked, listVars
    <3> QED BY <1>0, <1>a, <2>1, <3>1 DEF LeavesListed, Dead
  <2>3. CASE t \in running /\ phase # "stopped"
    <3>1. queued' = queued /\ blocked' = blocked
      BY <1>13, <2>3 DEF TerminateThread, TerminateRunning, TerminateParked,
         TerminateUnlisted, listVars
    <3> QED BY <1>0, <1>a, <2>1, <3>1 DEF LeavesListed, Dead
  <2>4. CASE phase = "stopped"
    BY <2>1, <2>4 DEF IInv, YieldInv, LeavesListed
  <2> QED BY <2>2, <2>3, <2>4
<1>14. ASSUME NEW k \in Callers, ReclaimTerminated(k)
      PROVE  LeavesListed'
  BY <1>0, <1>a, <1>b, <1>14 DEF ReclaimTerminated, At, cpuVars, listVars, loopVars,
     ownVars, LeavesListed, Dead, LoopType, FiberType, LifeType, OwnType
<1>15. ASSUME NEW k \in Callers, MigrateForAffinity(k)
      PROVE  LeavesListed'
  BY <1>0, <1>a, <1>b, <1>15 DEF MigrateForAffinity, At, LockFree, LinkAtTurn,
     LinkReadyLocked, lifeVars, ownVars, loopVars, LeavesListed, Dead, LoopType,
     FiberType, LifeType, OwnType
<1>16. ASSUME NEW k \in Callers, RequeueForPriority(k)
      PROVE  LeavesListed'
  BY <1>0, <1>a, <1>b, <1>16 DEF RequeueForPriority, At, LockFree, LinkReadyLocked,
     cpuVars, lifeVars, loopVars, ownVars, LeavesListed, Dead, LoopType, FiberType,
     LifeType, OwnType
<1>17. ASSUME NEW k \in Callers, SignalCheck(k)
      PROVE  LeavesListed'
  BY <1>0, <1>a, <1>b, <1>17 DEF SignalCheck, AnyBlocked, At, threadVars, cpuVars,
     loopVars, listVars, lifeVars, ownVars, LeavesListed, Dead, LoopType, FiberType,
     LifeType, OwnType
<1>18. ASSUME NEW k \in Callers, WakeForSignal(k)
      PROVE  LeavesListed'
  BY <1>0, <1>a, <1>b, <1>18 DEF WakeForSignal, At, LockFree, cpuVars, listVars,
     lifeVars, loopVars, ownVars, LeavesListed, Dead, LoopType, FiberType, LifeType,
     OwnType
<1>19. ASSUME NEW k \in Callers, WakeAllCheck(k)
      PROVE  LeavesListed'
  BY <1>0, <1>a, <1>b, <1>19 DEF WakeAllCheck, AnyBlocked, At, threadVars, cpuVars,
     loopVars, listVars, lifeVars, ownVars, LeavesListed, Dead, LoopType, FiberType,
     LifeType, OwnType
<1>20. ASSUME NEW k \in Callers, WakeAll(k)
      PROVE  LeavesListed'
  BY <1>0, <1>a, <1>b, <1>20 DEF WakeAll, At, LockFree, cpuVars, listVars, lifeVars,
     loopVars, ownVars, LeavesListed, Dead, LoopType, FiberType, LifeType, OwnType
<1>21. ASSUME NEW k \in Callers, NEW c \in Cpus, Wake(k, c)
      PROVE  LeavesListed'
  BY <1>0, <1>a, <1>b, <1>21 DEF Wake, At, threadVars, ownVars, loopVars, listVars,
     lifeVars, LeavesListed, Dead, LoopType, FiberType, LifeType, OwnType
<1>22. ASSUME NEW c \in Cpus, Yield(c)
      PROVE  LeavesListed'
  <2>1. GivesUp(c)
    BY <1>22, FibersGiveUp
  <2> QED BY <1>0, <1>a, <1>b, <2>1 DEF GivesUp, LeavesListed, Dead, LoopType,
    FiberType
<1>23. ASSUME NEW c \in Cpus, SelfSuspend(c)
      PROVE  LeavesListed'
  <2>1. GivesUp(c)
    BY <1>23, FibersGiveUp
  <2> QED BY <1>0, <1>a, <1>b, <2>1 DEF GivesUp, LeavesListed, Dead, LoopType,
    FiberType
<1>24. ASSUME NEW c \in Cpus, NEW S \in SUBSET Objects, SampleEpoch(c, S)
      PROVE  LeavesListed'
  BY <1>0, <1>a, <1>b, <1>24 DEF SampleEpoch, OnCpu, FiberAt, StaysOnCpu, cpuVars,
     listVars, lifeVars, loopVars, ownVars, LeavesListed, Dead, LoopType, FiberType,
     LifeType, OwnType
<1>25. ASSUME NEW c \in Cpus, Delay(c)
      PROVE  LeavesListed'
  <2>1. GivesUp(c)
    BY <1>25, FibersGiveUp
  <2> QED BY <1>0, <1>a, <1>b, <2>1 DEF GivesUp, LeavesListed, Dead, LoopType,
    FiberType
<1>26. ASSUME NEW c \in Cpus, BlockUngated(c)
      PROVE  LeavesListed'
  <2>1. GivesUp(c)
    BY <1>26, FibersGiveUp
  <2> QED BY <1>0, <1>a, <1>b, <2>1 DEF GivesUp, LeavesListed, Dead, LoopType,
    FiberType
<1>27. ASSUME NEW c \in Cpus, WaitOnFence(c)
      PROVE  LeavesListed'
  <2>1. GivesUp(c)
    BY <1>27, FibersGiveUp
  <2> QED BY <1>0, <1>a, <1>b, <2>1 DEF GivesUp, LeavesListed, Dead, LoopType,
    FiberType
<1>28. ASSUME NEW c \in Cpus, ExitBegin(c)
      PROVE  LeavesListed'
  BY <1>0, <1>a, <1>b, <1>28 DEF ExitBegin, OnCpu, FiberAt, StaysOnCpu, cpuVars,
     listVars, loopVars, ownVars, LeavesListed, Dead, LoopType, FiberType, LifeType,
     OwnType
<1>29. ASSUME NEW c \in Cpus, ExitYield(c)
      PROVE  LeavesListed'
  <2>1. GivesUp(c)
    BY <1>29, FibersGiveUp
  <2> QED BY <1>0, <1>a, <1>b, <2>1 DEF GivesUp, LeavesListed, Dead, LoopType,
    FiberType
<1>30. ASSUME NEW c \in Cpus, Crash(c)
      PROVE  LeavesListed'
  <2>1. GivesUp(c)
    BY <1>30, FibersGiveUp
  <2> QED BY <1>0, <1>a, <1>b, <2>1 DEF GivesUp, LeavesListed, Dead, LoopType,
    FiberType
<1>31. ASSUME NEW c \in Cpus, PreemptCurrentFiber(c)
      PROVE  LeavesListed'
  <2>1. GivesUp(c)
    BY <1>31, FibersGiveUp
  <2> QED BY <1>0, <1>a, <1>b, <2>1 DEF GivesUp, LeavesListed, Dead, LoopType,
    FiberType
<1>32. ASSUME NEW c \in Cpus, FiberResume(c)
      PROVE  LeavesListed'
  <2>1. CASE ExitIfTerminated(c) /\ UNCHANGED <<queued, blocked>>
    BY <1>0, <1>a, <1>b, <1>32, <2>1 DEF FiberResume, OnCpu, ExitIfTerminated,
       FiberAt, YieldToScheduler, LeavesListed, Dead, LoopType, FiberType
  <2>2. CASE /\ FiberAt(next[c], ResumedAt(fiber[next[c]]))
                  /\ UNCHANGED <<next, queued, blocked>>
             /\ loop' = [loop EXCEPT ![c] = CASE fiber[next[c]] = "crashed" -> "back"
                                         [] fiber[next[c]] = "exited"  -> "gone"
                                         [] OTHER                -> "fiber"]
    <3>1. /\ loop[c] = "fiber" /\ \A d \in Cpus : d # c => loop'[d] = loop[d]
          /\ fiber' = [fiber EXCEPT ![next[c]] = ResumedAt(fiber[next[c]])]
          /\ loop'[c] = "back" => fiber[next[c]] = "crashed"
      BY <1>0, <1>32, <2>2 DEF FiberResume, OnCpu, FiberAt, LoopType
    <3>2. fiber[next[c]] = "crashed" => ResumedAt(fiber[next[c]]) = "crashed"
      BY DEF ResumedAt
    <3> QED BY <1>0, <1>a, <1>b, <2>2, <3>1, <3>2 DEF LeavesListed, Dead, FiberType
  <2> QED BY <1>32, <2>1, <2>2 DEF FiberResume, listVars
<1>33. ASSUME NEW c \in Cpus, PollSatisfied(c)
      PROVE  LeavesListed'
  BY <1>0, <1>a, <1>b, <1>33 DEF PollSatisfied, OnCpu, FiberAt, StaysOnCpu, cpuVars,
     listVars, lifeVars, loopVars, ownVars, LeavesListed, Dead, LoopType, FiberType,
     LifeType, OwnType
<1>34. ASSUME NEW c \in Cpus, BlockOnObjects(c)
      PROVE  LeavesListed'
  <2>1. GivesUp(c)
    BY <1>34, FibersGiveUp
  <2> QED BY <1>0, <1>a, <1>b, <2>1 DEF GivesUp, LeavesListed, Dead, LoopType,
    FiberType
<1>35. ASSUME NEW c \in Cpus, ExitEnd(c)
      PROVE  LeavesListed'
  <2>1. GivesUp(c)
    BY <1>35, FibersGiveUp
  <2> QED BY <1>0, <1>a, <1>b, <2>1 DEF GivesUp, LeavesListed, Dead, LoopType,
    FiberType
<1>36. ASSUME NEW c \in Cpus, Top(c)
      PROVE  LeavesListed'
  BY <1>0, <1>a, <1>b, <1>36 DEF Top, Goes, cpuVars, listVars, lifeVars, ownVars,
     LeavesListed, Dead, LoopType, FiberType, LifeType, OwnType
<1>37. ASSUME NEW c \in Cpus, RepollDue(c)
      PROVE  LeavesListed'
  BY <1>0, <1>a, <1>b, <1>37 DEF RepollDue, Goes, threadVars, cpuVars, listVars,
     lifeVars, ownVars, LeavesListed, Dead, LoopType, FiberType, LifeType, OwnType
<1>38. ASSUME NEW c \in Cpus, SleepTimeout(c)
      PROVE  LeavesListed'
  BY <1>0, <1>a, <1>b, <1>38 DEF SleepTimeout, WakesUp, Goes, threadVars, ownVars,
     listVars, lifeVars, LeavesListed, Dead, LoopType, FiberType, LifeType, OwnType
<1>39. ASSUME NEW c \in Cpus, RereadyBegin(c)
      PROVE  LeavesListed'
  BY <1>0, <1>a, <1>b, <1>39 DEF RereadyBegin, Goes, LockFree, cpuVars, listVars,
     lifeVars, ownVars, LeavesListed, Dead, LoopType, FiberType, LifeType, OwnType
<1>40. ASSUME NEW c \in Cpus, NEW t \in Threads, KeepBlocked(c, t)
      PROVE  LeavesListed'
  BY <1>0, <1>a, <1>b, <1>40 DEF KeepBlocked, MayHaveResolved, Visits, cpuVars,
     listVars, lifeVars, loopVars, ownVars, LeavesListed, Dead, LoopType, FiberType,
     LifeType, OwnType
<1>41. ASSUME NEW c \in Cpus, NEW t \in Threads, Reready(c, t)
      PROVE  LeavesListed'
  BY <1>0, <1>a, <1>b, <1>41 DEF Reready, LinkAtTurn, LinkReadyLocked, Visits,
     cpuVars, lifeVars, loopVars, ownVars, LeavesListed, Dead, LoopType, FiberType,
     LifeType, OwnType
<1>42. ASSUME NEW c \in Cpus, RereadyEnd(c)
      PROVE  LeavesListed'
  BY <1>0, <1>a, <1>b, <1>42 DEF RereadyEnd, Goes, cpuVars, listVars, lifeVars,
     ownVars, LeavesListed, Dead, LoopType, FiberType, LifeType, OwnType
<1>43. ASSUME NEW c \in Cpus, LoopWoken(c)
      PROVE  LeavesListed'
  BY <1>0, <1>a, <1>b, <1>43 DEF LoopWoken, Goes, threadVars, cpuVars, listVars,
     lifeVars, ownVars, LeavesListed, Dead, LoopType, FiberType, LifeType, OwnType
<1>44. ASSUME NEW c \in Cpus, NEW d \in Cpus, LoopWake(c, d)
      PROVE  LeavesListed'
  BY <1>0, <1>a, <1>b, <1>44 DEF LoopWake, threadVars, ownVars, loopVars, listVars,
     lifeVars, LeavesListed, Dead, LoopType, FiberType, LifeType, OwnType
<1>45. ASSUME NEW c \in Cpus, DequeueReady(c)
      PROVE  LeavesListed'
  <2>1. PICK t \in queued : /\ linkCpu[t] = c /\ queued' = queued \ {t}
                               /\ next' = [next EXCEPT ![c] = t]
                           /\ loop[c] = "dequeue" /\ loop' = [loop EXCEPT ![c] = "picked"]
                                /\ UNCHANGED <<blocked, fiber>>
    BY <1>45, DequeueDoes
  <2> QED BY <1>0, <1>a, <2>1 DEF LeavesListed, Dead, LoopType
<1>46. ASSUME NEW c \in Cpus, DequeueNothing(c)
      PROVE  LeavesListed'
  BY <1>0, <1>a, <1>b, <1>46 DEF DequeueNothing, Goes, LockFree, threadVars, cpuVars,
     listVars, lifeVars, ownVars, LeavesListed, Dead, LoopType, FiberType, LifeType,
     OwnType
<1>47. ASSUME NEW c \in Cpus, Picked(c)
      PROVE  LeavesListed'
  BY <1>0, <1>a, <1>b, <1>47 DEF Picked, threadVars, cpuVars, listVars, lifeVars,
     ownVars, LeavesListed, Dead, LoopType, FiberType, LifeType, OwnType
<1>48. ASSUME NEW c \in Cpus, MigrateHome(c)
      PROVE  LeavesListed'
  BY <1>0, <1>a, <1>b, <1>48 DEF MigrateHome, LinkAtTurn, LinkReadyLocked, LockFree,
     lifeVars, LeavesListed, Dead, LoopType, FiberType, LifeType, OwnType
<1>49. ASSUME NEW c \in Cpus, ParkSuspended(c)
      PROVE  LeavesListed'
  BY <1>0, <1>a, <1>b, <1>49 DEF ParkSuspended, LockFree, MustPark, lifeVars,
     LeavesListed, Dead, LoopType, FiberType, LifeType, OwnType
<1>50. ASSUME NEW c \in Cpus, SwitchTo(c)
      PROVE  LeavesListed'
  BY <1>0, <1>a, <1>b, <1>50 DEF SwitchTo, Goes, listVars, LeavesListed, Dead,
     LoopType, FiberType, LifeType, OwnType
<1>51. ASSUME NEW c \in Cpus, SwitchedBack(c)
      PROVE  LeavesListed'
  BY <1>0, <1>a, <1>b, <1>51 DEF SwitchedBack, AfterSwitch, threadVars, listVars,
     lifeVars, LeavesListed, Dead, LoopType, FiberType, LifeType, OwnType
<1>52. ASSUME NEW c \in Cpus, ReclaimExited(c)
      PROVE  LeavesListed'
  BY <1>0, <1>a, <1>b, <1>52 DEF ReclaimExited, Goes, listVars, LeavesListed, Dead,
     LoopType, FiberType, LifeType, OwnType
<1>53. ASSUME NEW c \in Cpus, IdleParks(c)
      PROVE  LeavesListed'
  BY <1>0, <1>a, <1>b, <1>53 DEF IdleParks, Goes, threadVars, ownVars, listVars,
     lifeVars, LeavesListed, Dead, LoopType, FiberType, LifeType, OwnType
<1>54. ASSUME NEW c \in Cpus, IdleRechecks(c)
      PROVE  LeavesListed'
  BY <1>0, <1>a, <1>b, <1>54 DEF IdleRechecks, Goes, HasWork, LockFree, threadVars,
     ownVars, listVars, lifeVars, LeavesListed, Dead, LoopType, FiberType, LifeType,
     OwnType
<1>55. ASSUME NEW c \in Cpus, SleepWoken(c)
      PROVE  LeavesListed'
  BY <1>0, <1>a, <1>b, <1>55 DEF SleepWoken, WakesUp, Goes, threadVars, ownVars,
     listVars, lifeVars, LeavesListed, Dead, LoopType, FiberType, LifeType, OwnType
<1>56. ASSUME ShutdownBegin
      PROVE  LeavesListed'
  BY <1>0, <1>a, <1>b, <1>56 DEF ShutdownBegin, threadVars, cpuVars, loopVars,
     listVars, lifeVars, ownVars, LeavesListed, Dead, LoopType, FiberType, LifeType,
     OwnType
<1>57. ASSUME NEW c \in Cpus, ShutdownNudge(c)
      PROVE  LeavesListed'
  BY <1>0, <1>a, <1>b, <1>57 DEF ShutdownNudge, threadVars, ownVars, loopVars,
     listVars, lifeVars, LeavesListed, Dead, LoopType, FiberType, LifeType, OwnType
<1>58. ASSUME ShutdownDrain
      PROVE  LeavesListed'
  BY <1>0, <1>a, <1>b, <1>58 DEF ShutdownDrain, Listed, Leftovers, loopVars,
     LeavesListed, Dead, Listed, LoopType, FiberType, LifeType, OwnType
<1>59. ASSUME NEW c \in Cpus, SelfResume(c) PROVE FALSE
  BY <1>59 DEF SelfResume, NoSelfResume
<1>60. \A s \in Starts : s[1] \in Threads /\ s[2] \in Cpus /\ s[3] \in Levels
  BY ConstantsAssumption
<1>61. CASE \E k \in Callers : CallStarts(k) \/ CallContinues(k)
  BY <1>61, <1>60, <1>1, <1>2, <1>3, <1>4, <1>5, <1>6, <1>7, <1>8, <1>9, <1>10, <1>11,
     <1>12, <1>13, <1>14, <1>15, <1>16, <1>17, <1>18, <1>19, <1>20, <1>21
     DEF CallStarts, CallContinues
<1>62. CASE \E c \in Cpus : GuestActs(c) \/ PreemptCurrentFiber(c) \/ FiberContinues(c)
  BY <1>62, <1>59, <1>22, <1>23, <1>24, <1>25, <1>26, <1>27, <1>28, <1>29, <1>30, <1>31,
     <1>32, <1>33, <1>34, <1>35
     DEF GuestActs, FiberContinues
<1>63. CASE \E c \in Cpus : Dispatches(c) \/ RepollDue(c) \/ SleepTimeout(c)
  BY <1>63, <1>36, <1>37, <1>38, <1>39, <1>40, <1>41, <1>42, <1>43, <1>44, <1>45, <1>46,
     <1>47, <1>48, <1>49, <1>50, <1>51, <1>52, <1>53, <1>54, <1>55
     DEF Dispatches, Walks
<1>64. CASE ShutdownActs
  BY <1>64, <1>56, <1>57, <1>58 DEF ShutdownActs
<1> QED BY <1>61, <1>62, <1>63, <1>64 DEF Next

(* Threads are dispatched from the lists and ended by calls on a handle;   *)
(* both exist.                                                             *)
LEMMA RanExistsKept ==
  ASSUME NoSelfResume, plan \in Plans, IInv, IInv', KeptInv, Next
  PROVE  RanExists'
<1>0. /\ RanExists /\ LoopType /\ FiberType /\ LifeType
           /\ \A c \in Cpus : loop[c] \in {"picked", "settled", "migrate", "fiber", "back"}
                => next[c] \in Threads /\ Exists(next[c])
      /\ \A k \in Callers : call[k].pc \in ThreadCallPcs => call[k].t \in Threads
           /\ Exists(call[k].t)
  BY Owning DEF KeptInv, IInv, TypeInv, RefInv
<1>1. ASSUME NEW k \in Callers, NEW t \in Threads, NEW c \in Cpus, NEW p \in Levels,
               NEW b \in BOOLEAN, Create(k, t, c, p, b)
      PROVE  RanExists'
  BY <1>0, <1>1 DEF Create, Begin, lifeVars, loopVars, RanExists, Exists, LoopType,
     FiberType, LifeType, ThreadCallPcs
<1>2. ASSUME NEW k \in Callers, NEW t \in Threads, Resume(k, t)
      PROVE  RanExists'
  BY <1>0, <1>2 DEF Resume, Begin, At, ResumesFrom, Exists, lifeVars, loopVars, RanExists,
     Exists, LoopType, FiberType, LifeType, ThreadCallPcs
<1>3. ASSUME NEW k \in Callers, NEW t \in Threads, Suspend(k, t)
      PROVE  RanExists'
  BY <1>0, <1>3 DEF Suspend, lifeVars, loopVars, RanExists, Exists, LoopType, FiberType,
     LifeType, ThreadCallPcs
<1>4. ASSUME NEW k \in Callers, NEW t \in Threads, Terminate(k, t)
      PROVE  RanExists'
  BY <1>0, <1>4 DEF Terminate, Begin, At, loopVars, RanExists, Exists, LoopType,
     FiberType, LifeType, ThreadCallPcs
<1>5. ASSUME NEW k \in Callers, NEW t \in Threads, NEW c \in Cpus, SetActiveCpu(k, t, c)
      PROVE  RanExists'
  BY <1>0, <1>5 DEF SetActiveCpu, Begin, At, lifeVars, loopVars, RanExists, Exists,
     LoopType, FiberType, LifeType, ThreadCallPcs
<1>6. ASSUME NEW k \in Callers, NEW t \in Threads, NEW p \in Levels, PublishPriority(k, t, p)
      PROVE  RanExists'
  BY <1>0, <1>6 DEF PublishPriority, Begin, At, lifeVars, loopVars, RanExists, Exists,
     LoopType, FiberType, LifeType, ThreadCallPcs
<1>7. ASSUME NEW k \in Callers, NEW o \in Objects, Signal(k, o)
      PROVE  RanExists'
  BY <1>0, <1>7 DEF Signal, Begin, At, lifeVars, loopVars, RanExists, Exists, LoopType,
     FiberType, LifeType, ThreadCallPcs
<1>8. ASSUME NEW k \in Callers, BeginWakeAll(k)
      PROVE  RanExists'
  BY <1>0, <1>8 DEF BeginWakeAll, Begin, At, threadVars, loopVars, lifeVars, RanExists,
     Exists, LoopType, FiberType, LifeType, ThreadCallPcs
<1>9. ASSUME NEW k \in Callers, NEW C \in SUBSET BackgroundCpus, EnterBackgroundMode(k, C)
      PROVE  RanExists'
  BY <1>0, <1>9 DEF EnterBackgroundMode, threadVars, loopVars, lifeVars, RanExists,
     Exists, LoopType, FiberType, LifeType, ThreadCallPcs
<1>10. ASSUME NEW k \in Callers, ResumeThread(k)
      PROVE  RanExists'
  BY <1>0, <1>10 DEF ResumeThread, Begin, At, LockFree, lifeVars, loopVars, RanExists,
     Exists, LoopType, FiberType, LifeType, ThreadCallPcs
<1>11. ASSUME NEW k \in Callers, MarkReady(k)
      PROVE  RanExists'
  BY <1>0, <1>11 DEF MarkReady, Begin, At, Return, threadVars, loopVars, lifeVars,
     RanExists, Exists, LoopType, FiberType, LifeType, ThreadCallPcs
<1>12. ASSUME NEW k \in Callers, EnqueueReady(k)
      PROVE  RanExists'
  BY <1>0, <1>12 DEF EnqueueReady, At, Return, LockFree, LeftAlone, WakeAndReturn,
     lifeVars, loopVars, RanExists, Exists, LoopType, FiberType, LifeType, ThreadCallPcs
<1>13. ASSUME NEW k \in Callers, TerminateThread(k)
      PROVE  RanExists'
  BY <1>0, <1>13 DEF TerminateThread, At, LockFree, TerminateStopped, TerminateRunning,
     TerminateParked, TerminateUnlisted, Begin, Return, WakeAndReturn, loopVars,
     RanExists, Exists, LoopType, FiberType, LifeType, ThreadCallPcs
<1>14. ASSUME NEW k \in Callers, ReclaimTerminated(k)
      PROVE  RanExists'
  BY <1>0, <1>14 DEF ReclaimTerminated, At, Return, loopVars, RanExists, Exists, LoopType,
     FiberType, LifeType, ThreadCallPcs
<1>15. ASSUME NEW k \in Callers, MigrateForAffinity(k)
      PROVE  RanExists'
  BY <1>0, <1>15 DEF MigrateForAffinity, At, Return, LockFree, WakeAndReturn, lifeVars,
     loopVars, RanExists, Exists, LoopType, FiberType, LifeType, ThreadCallPcs
<1>16. ASSUME NEW k \in Callers, RequeueForPriority(k)
      PROVE  RanExists'
  BY <1>0, <1>16 DEF RequeueForPriority, At, Return, LockFree, lifeVars, loopVars,
     RanExists, Exists, LoopType, FiberType, LifeType, ThreadCallPcs
<1>17. ASSUME NEW k \in Callers, SignalCheck(k)
      PROVE  RanExists'
  BY <1>0, <1>17 DEF SignalCheck, AnyBlocked, At, Begin, Return, threadVars, loopVars,
     lifeVars, RanExists, Exists, LoopType, FiberType, LifeType, ThreadCallPcs
<1>18. ASSUME NEW k \in Callers, WakeForSignal(k)
      PROVE  RanExists'
  BY <1>0, <1>18 DEF WakeForSignal, At, LockFree, WakeAndReturn, lifeVars, loopVars,
     RanExists, Exists, LoopType, FiberType, LifeType, ThreadCallPcs
<1>19. ASSUME NEW k \in Callers, WakeAllCheck(k)
      PROVE  RanExists'
  BY <1>0, <1>19 DEF WakeAllCheck, AnyBlocked, At, Begin, Return, threadVars, loopVars,
     lifeVars, RanExists, Exists, LoopType, FiberType, LifeType, ThreadCallPcs
<1>20. ASSUME NEW k \in Callers, WakeAll(k)
      PROVE  RanExists'
  BY <1>0, <1>20 DEF WakeAll, At, LockFree, WakeAndReturn, lifeVars, loopVars, RanExists,
     Exists, LoopType, FiberType, LifeType, ThreadCallPcs
<1>21. ASSUME NEW k \in Callers, NEW c \in Cpus, Wake(k, c)
      PROVE  RanExists'
  BY <1>0, <1>21 DEF Wake, At, WakeAndReturn, threadVars, loopVars, lifeVars, RanExists,
     Exists, LoopType, FiberType, LifeType, ThreadCallPcs
<1>22. ASSUME NEW c \in Cpus, Yield(c)
      PROVE  RanExists'
  BY <1>0, <1>22 DEF Yield, YieldCurrentThread, YieldLeavesAlone, ExitIfTerminated,
     YieldToScheduler, FiberAt, OnCpu, LeftAlone, RanExists, Exists, LoopType, FiberType,
     LifeType, ThreadCallPcs
<1>23. ASSUME NEW c \in Cpus, SelfSuspend(c)
      PROVE  RanExists'
  BY <1>0, <1>23 DEF SelfSuspend, YieldCurrentThread, YieldLeavesAlone, ExitIfTerminated,
     YieldToScheduler, FiberAt, OnCpu, LeftAlone, RanExists, Exists, LoopType, FiberType,
     LifeType, ThreadCallPcs
<1>24. ASSUME NEW c \in Cpus, NEW S \in SUBSET Objects, SampleEpoch(c, S)
      PROVE  RanExists'
  BY <1>0, <1>24 DEF SampleEpoch, OnCpu, FiberAt, StaysOnCpu, lifeVars, loopVars,
     RanExists, Exists, LoopType, FiberType, LifeType, ThreadCallPcs
<1>25. ASSUME NEW c \in Cpus, Delay(c)
      PROVE  RanExists'
  BY <1>0, <1>25 DEF Delay, BlockCurrentThread, ParkBlocked, ExitIfTerminated,
     BlockLeavesAlone, OnCpu, FiberAt, YieldToScheduler, PokeIfMoved, LockFree, RanExists,
     Exists, LoopType, FiberType, LifeType, ThreadCallPcs
<1>26. ASSUME NEW c \in Cpus, BlockUngated(c)
      PROVE  RanExists'
  BY <1>0, <1>26 DEF BlockUngated, BlockCurrentThread, ParkBlocked, ExitIfTerminated,
     BlockLeavesAlone, OnCpu, FiberAt, YieldToScheduler, PokeIfMoved, LockFree, RanExists,
     Exists, LoopType, FiberType, LifeType, ThreadCallPcs
<1>27. ASSUME NEW c \in Cpus, WaitOnFence(c)
      PROVE  RanExists'
  BY <1>0, <1>27 DEF WaitOnFence, ParkBlocked, BlockLeavesAlone, OnCpu, FiberAt,
     YieldToScheduler, PokeIfMoved, LockFree, RanExists, Exists, LoopType, FiberType,
     LifeType, ThreadCallPcs
<1>28. ASSUME NEW c \in Cpus, ExitBegin(c)
      PROVE  RanExists'
  BY <1>0, <1>28 DEF ExitBegin, OnCpu, FiberAt, StaysOnCpu, loopVars, RanExists, Exists,
     LoopType, FiberType, LifeType, ThreadCallPcs
<1>29. ASSUME NEW c \in Cpus, ExitYield(c)
      PROVE  RanExists'
  BY <1>0, <1>29 DEF ExitYield, YieldCurrentThread, YieldLeavesAlone, ExitIfTerminated,
     YieldToScheduler, FiberAt, OnCpu, LeftAlone, RanExists, Exists, LoopType, FiberType,
     LifeType, ThreadCallPcs
<1>30. ASSUME NEW c \in Cpus, Crash(c)
      PROVE  RanExists'
  BY <1>0, <1>30 DEF Crash, OnCpu, FiberAt, YieldToScheduler, LockFree, RanExists, Exists,
     LoopType, FiberType, LifeType, ThreadCallPcs
<1>31. ASSUME NEW c \in Cpus, PreemptCurrentFiber(c)
      PROVE  RanExists'
  BY <1>0, <1>31 DEF PreemptCurrentFiber, YieldCurrentThread, YieldLeavesAlone,
     ExitIfTerminated, YieldToScheduler, FiberAt, OnCpu, LeftAlone, RanExists, Exists,
     LoopType, FiberType, LifeType, ThreadCallPcs
<1>32. ASSUME NEW c \in Cpus, FiberResume(c)
      PROVE  RanExists'
  BY <1>0, <1>32 DEF FiberResume, OnCpu, ExitIfTerminated, FiberAt, YieldToScheduler,
     RanExists, Exists, LoopType, FiberType, LifeType, ThreadCallPcs, ResumedAt
<1>33. ASSUME NEW c \in Cpus, PollSatisfied(c)
      PROVE  RanExists'
  BY <1>0, <1>33 DEF PollSatisfied, OnCpu, FiberAt, StaysOnCpu, lifeVars, loopVars,
     RanExists, Exists, LoopType, FiberType, LifeType, ThreadCallPcs
<1>34. ASSUME NEW c \in Cpus, BlockOnObjects(c)
      PROVE  RanExists'
  BY <1>0, <1>34 DEF BlockOnObjects, BlockCurrentThread, ParkBlocked, ExitIfTerminated,
     BlockLeavesAlone, OnCpu, FiberAt, YieldToScheduler, PokeIfMoved, LockFree, RanExists,
     Exists, LoopType, FiberType, LifeType, ThreadCallPcs
<1>35. ASSUME NEW c \in Cpus, ExitEnd(c)
      PROVE  RanExists'
  BY <1>0, <1>35 DEF ExitEnd, OnCpu, FiberAt, YieldToScheduler, threadVars, lifeVars,
     RanExists, Exists, LoopType, FiberType, LifeType, ThreadCallPcs
<1>36. ASSUME NEW c \in Cpus, Top(c)
      PROVE  RanExists'
  BY <1>0, <1>36 DEF Top, Goes, lifeVars, RanExists, Exists, LoopType, FiberType,
     LifeType, ThreadCallPcs
<1>37. ASSUME NEW c \in Cpus, RepollDue(c)
      PROVE  RanExists'
  BY <1>0, <1>37 DEF RepollDue, Goes, threadVars, lifeVars, RanExists, Exists, LoopType,
     FiberType, LifeType, ThreadCallPcs
<1>38. ASSUME NEW c \in Cpus, SleepTimeout(c)
      PROVE  RanExists'
  BY <1>0, <1>38 DEF SleepTimeout, WakesUp, Goes, threadVars, lifeVars, RanExists, Exists,
     LoopType, FiberType, LifeType, ThreadCallPcs
<1>39. ASSUME NEW c \in Cpus, RereadyBegin(c)
      PROVE  RanExists'
  BY <1>0, <1>39 DEF RereadyBegin, Goes, LockFree, lifeVars, RanExists, Exists, LoopType,
     FiberType, LifeType, ThreadCallPcs
<1>40. ASSUME NEW c \in Cpus, NEW t \in Threads, KeepBlocked(c, t)
      PROVE  RanExists'
  BY <1>0, <1>40 DEF KeepBlocked, MayHaveResolved, Visits, lifeVars, loopVars, RanExists,
     Exists, LoopType, FiberType, LifeType, ThreadCallPcs
<1>41. ASSUME NEW c \in Cpus, NEW t \in Threads, Reready(c, t)
      PROVE  RanExists'
  BY <1>0, <1>41 DEF Reready, Visits, lifeVars, loopVars, RanExists, Exists, LoopType,
     FiberType, LifeType, ThreadCallPcs
<1>42. ASSUME NEW c \in Cpus, RereadyEnd(c)
      PROVE  RanExists'
  BY <1>0, <1>42 DEF RereadyEnd, Goes, lifeVars, RanExists, Exists, LoopType, FiberType,
     LifeType, ThreadCallPcs
<1>43. ASSUME NEW c \in Cpus, LoopWoken(c)
      PROVE  RanExists'
  BY <1>0, <1>43 DEF LoopWoken, Goes, threadVars, lifeVars, RanExists, Exists, LoopType,
     FiberType, LifeType, ThreadCallPcs
<1>44. ASSUME NEW c \in Cpus, NEW d \in Cpus, LoopWake(c, d)
      PROVE  RanExists'
  BY <1>0, <1>44 DEF LoopWake, threadVars, loopVars, lifeVars, RanExists, Exists,
     LoopType, FiberType, LifeType, ThreadCallPcs
<1>45. ASSUME NEW c \in Cpus, DequeueReady(c)
      PROVE  RanExists'
  BY <1>0, <1>45 DEF DequeueReady, LockFree, lifeVars, RanExists, Exists, LoopType,
     FiberType, LifeType, ThreadCallPcs
<1>46. ASSUME NEW c \in Cpus, DequeueNothing(c)
      PROVE  RanExists'
  BY <1>0, <1>46 DEF DequeueNothing, Goes, LockFree, threadVars, lifeVars, RanExists,
     Exists, LoopType, FiberType, LifeType, ThreadCallPcs
<1>47. ASSUME NEW c \in Cpus, Picked(c)
      PROVE  RanExists'
  BY <1>0, <1>47 DEF Picked, threadVars, lifeVars, RanExists, Exists, LoopType, FiberType,
     LifeType, ThreadCallPcs
<1>48. ASSUME NEW c \in Cpus, MigrateHome(c)
      PROVE  RanExists'
  BY <1>0, <1>48 DEF MigrateHome, LockFree, lifeVars, RanExists, Exists, LoopType,
     FiberType, LifeType, ThreadCallPcs
<1>49. ASSUME NEW c \in Cpus, ParkSuspended(c)
      PROVE  RanExists'
  BY <1>0, <1>49 DEF ParkSuspended, LockFree, MustPark, lifeVars, RanExists, Exists,
     LoopType, FiberType, LifeType, ThreadCallPcs
<1>50. ASSUME NEW c \in Cpus, SwitchTo(c)
      PROVE  RanExists'
  BY <1>0, <1>50 DEF SwitchTo, Goes, RanExists, Exists, LoopType, FiberType, LifeType,
     ThreadCallPcs
<1>51. ASSUME NEW c \in Cpus, SwitchedBack(c)
      PROVE  RanExists'
  BY <1>0, <1>51 DEF SwitchedBack, AfterSwitch, threadVars, lifeVars, RanExists, Exists,
     LoopType, FiberType, LifeType, ThreadCallPcs
<1>52. ASSUME NEW c \in Cpus, ReclaimExited(c)
      PROVE  RanExists'
  BY <1>0, <1>52 DEF ReclaimExited, Goes, RanExists, Exists, LoopType, FiberType,
     LifeType, ThreadCallPcs
<1>53. ASSUME NEW c \in Cpus, IdleParks(c)
      PROVE  RanExists'
  BY <1>0, <1>53 DEF IdleParks, Goes, threadVars, lifeVars, RanExists, Exists, LoopType,
     FiberType, LifeType, ThreadCallPcs
<1>54. ASSUME NEW c \in Cpus, IdleRechecks(c)
      PROVE  RanExists'
  BY <1>0, <1>54 DEF IdleRechecks, Goes, HasWork, LockFree, threadVars, lifeVars,
     RanExists, Exists, LoopType, FiberType, LifeType, ThreadCallPcs
<1>55. ASSUME NEW c \in Cpus, SleepWoken(c)
      PROVE  RanExists'
  BY <1>0, <1>55 DEF SleepWoken, WakesUp, Goes, threadVars, lifeVars, RanExists, Exists,
     LoopType, FiberType, LifeType, ThreadCallPcs
<1>56. ASSUME ShutdownBegin
      PROVE  RanExists'
  BY <1>0, <1>56 DEF ShutdownBegin, threadVars, loopVars, lifeVars, RanExists, Exists,
     LoopType, FiberType, LifeType, ThreadCallPcs
<1>57. ASSUME NEW c \in Cpus, ShutdownNudge(c)
      PROVE  RanExists'
  BY <1>0, <1>57 DEF ShutdownNudge, threadVars, loopVars, lifeVars, RanExists, Exists,
     LoopType, FiberType, LifeType, ThreadCallPcs
<1>58. ASSUME ShutdownDrain
      PROVE  RanExists'
  BY <1>0, <1>58 DEF ShutdownDrain, Listed, Leftovers, loopVars, RanExists, Exists,
     LoopType, FiberType, LifeType, ThreadCallPcs
<1>59. ASSUME NEW c \in Cpus, SelfResume(c) PROVE FALSE
  BY <1>59 DEF SelfResume, NoSelfResume
<1>60. \A s \in Starts : s[1] \in Threads /\ s[2] \in Cpus /\ s[3] \in Levels
  BY ConstantsAssumption
<1>61. CASE \E k \in Callers : CallStarts(k) \/ CallContinues(k)
  BY <1>61, <1>60, <1>1, <1>2, <1>3, <1>4, <1>5, <1>6, <1>7, <1>8, <1>9, <1>10, <1>11,
     <1>12, <1>13, <1>14, <1>15, <1>16, <1>17, <1>18, <1>19, <1>20, <1>21
     DEF CallStarts, CallContinues
<1>62. CASE \E c \in Cpus : GuestActs(c) \/ PreemptCurrentFiber(c) \/ FiberContinues(c)
  BY <1>62, <1>59, <1>22, <1>23, <1>24, <1>25, <1>26, <1>27, <1>28, <1>29, <1>30, <1>31,
     <1>32, <1>33, <1>34, <1>35
     DEF GuestActs, FiberContinues
<1>63. CASE \E c \in Cpus : Dispatches(c) \/ RepollDue(c) \/ SleepTimeout(c)
  BY <1>63, <1>36, <1>37, <1>38, <1>39, <1>40, <1>41, <1>42, <1>43, <1>44, <1>45, <1>46,
     <1>47, <1>48, <1>49, <1>50, <1>51, <1>52, <1>53, <1>54, <1>55
     DEF Dispatches, Walks
<1>64. CASE ShutdownActs
  BY <1>64, <1>56, <1>57, <1>58 DEF ShutdownActs
<1> QED BY <1>61, <1>62, <1>63, <1>64 DEF Next

(* What is settled stays so, but for a parked thread a Resume unlinks, and *)
(* one a Terminate takes from the lists of a stopped scheduler.            *)
Stays(t) ==
  Settled(t) => \/ Settled(t)' \/ Pending(t, {"reclaim"})'
                \/ \E k \in Callers : call[k].pc = "unlink" /\ call[k].t = t
                     /\ call'[k].pc = "markReady" /\ call'[k].t = t

(* A thread given up by a dispatch thread is settled.                      *)
LEMMA GivenUpStays ==
  ASSUME IInv, NEW c \in Cpus, GivesUp(c), NEW t \in Threads, Settled(t)
  PROVE  Settled(t)'
<1>1. loop[c] = "fiber" /\ next[c] \in running
  BY Owning DEF GivesUp
<1>2. CASE t = next[c]
  BY <1>1, <1>2 DEF GivesUp, Settled
<1>3. CASE t # next[c]
  <2>1. fiber'[t] = fiber[t]
    BY <1>3 DEF GivesUp, IInv, TypeInv, FiberType
  <2> QED BY <2>1 DEF GivesUp, Settled, Dead, Listed
<1> QED BY <1>2, <1>3

(* What is settled stays so, unless Resume takes it out of the suspended   *)
(* list or a terminate out of any list.                                    *)
LEMMA SettledIsKept ==
  ASSUME NoSelfResume, plan \in Plans, IInv, IInv', KeptInv, Next
  PROVE  \A u \in Threads : Stays(u)
<1> SUFFICES ASSUME NEW u \in Threads, Settled(u) PROVE Stays(u)
  BY DEF Stays
<1>0. /\ Settled(u) /\ LeavesListed /\ LoopType /\ FiberType /\ LifeType /\ OwnType /\ CallType
      /\ queued \subseteq Threads /\ blocked \subseteq Threads /\ suspended \subseteq Threads
  BY DEF KeptInv, IInv, TypeInv, ListInv
<1>a. \A c \in Cpus : loop[c] \in {"picked", "settled", "migrate", "fiber", "back"}
          => next[c] \in Threads /\ next[c] \in running /\ linkCpu[next[c]] = c
  BY Owning
<1>b. \A c, d \in Cpus : (loop[c] \in {"picked", "settled", "migrate", "fiber", "back"}
          /\ loop[d] \in {"picked", "settled", "migrate", "fiber", "back"} /\ next[c] = next[d])
               => c = d
  BY Owning
<1>1. ASSUME NEW k \in Callers, NEW t \in Threads, NEW c \in Cpus, NEW p \in Levels,
               NEW b \in BOOLEAN, Create(k, t, c, p, b)
      PROVE  Stays(u)
  <2>1. UNCHANGED <<queued, blocked, suspended, running, reclaimed>>
          /\ fiber' = [fiber EXCEPT ![t] = "new"] /\ fiber[t] = "none"
    BY <1>1 DEF Create, Exists, listVars, cpuVars, ownVars, lifeVars
  <2> QED BY <1>0, <2>1 DEF Stays, Settled, Listed, Dead, FiberType
<1>2. ASSUME NEW k \in Callers, NEW t \in Threads, Resume(k, t)
      PROVE  Stays(u)
  BY <1>0, <1>a, <1>b, <1>2 DEF Resume, Begin, At, ResumesFrom, Exists, cpuVars,
     listVars, lifeVars, loopVars, ownVars, LeavesListed, Stays, Settled, Pending, Dead,
     Listed, LoopType, FiberType, LifeType, OwnType, CallType
<1>3. ASSUME NEW k \in Callers, NEW t \in Threads, Suspend(k, t)
      PROVE  Stays(u)
  BY <1>0, <1>a, <1>b, <1>3 DEF Suspend, cpuVars, listVars, lifeVars, loopVars,
     ownVars, LeavesListed, Stays, Settled, Pending, Dead, Listed, LoopType, FiberType,
     LifeType, OwnType, CallType
<1>4. ASSUME NEW k \in Callers, NEW t \in Threads, Terminate(k, t)
      PROVE  Stays(u)
  BY <1>0, <1>a, <1>b, <1>4 DEF Terminate, Begin, At, cpuVars, listVars, loopVars,
     ownVars, LeavesListed, Stays, Settled, Pending, Dead, Listed, LoopType, FiberType,
     LifeType, OwnType, CallType
<1>5. ASSUME NEW k \in Callers, NEW t \in Threads, NEW c \in Cpus, SetActiveCpu(k, t, c)
      PROVE  Stays(u)
  BY <1>0, <1>a, <1>b, <1>5 DEF SetActiveCpu, Begin, At, cpuVars, listVars, lifeVars,
     loopVars, ownVars, LeavesListed, Stays, Settled, Pending, Dead, Listed, LoopType,
     FiberType, LifeType, OwnType, CallType
<1>6. ASSUME NEW k \in Callers, NEW t \in Threads, NEW p \in Levels, PublishPriority(k, t, p)
      PROVE  Stays(u)
  BY <1>0, <1>a, <1>b, <1>6 DEF PublishPriority, Begin, At, cpuVars, listVars,
     lifeVars, loopVars, ownVars, LeavesListed, Stays, Settled, Pending, Dead, Listed,
     LoopType, FiberType, LifeType, OwnType, CallType
<1>7. ASSUME NEW k \in Callers, NEW o \in Objects, Signal(k, o)
      PROVE  Stays(u)
  BY <1>0, <1>a, <1>b, <1>7 DEF Signal, Begin, At, cpuVars, listVars, lifeVars,
     loopVars, ownVars, LeavesListed, Stays, Settled, Pending, Dead, Listed, LoopType,
     FiberType, LifeType, OwnType, CallType
<1>8. ASSUME NEW k \in Callers, BeginWakeAll(k)
      PROVE  Stays(u)
  BY <1>0, <1>a, <1>b, <1>8 DEF BeginWakeAll, Begin, At, threadVars, cpuVars,
     loopVars, listVars, lifeVars, ownVars, LeavesListed, Stays, Settled, Pending, Dead,
     Listed, LoopType, FiberType, LifeType, OwnType, CallType
<1>9. ASSUME NEW k \in Callers, NEW C \in SUBSET BackgroundCpus, EnterBackgroundMode(k, C)
      PROVE  Stays(u)
  BY <1>0, <1>a, <1>b, <1>9 DEF EnterBackgroundMode, threadVars, ownVars, loopVars,
     listVars, lifeVars, LeavesListed, Stays, Settled, Pending, Dead, Listed, LoopType,
     FiberType, LifeType, OwnType, CallType
<1>10. ASSUME NEW k \in Callers, ResumeThread(k)
      PROVE  Stays(u)
  BY <1>0, <1>a, <1>b, <1>10 DEF ResumeThread, Begin, At, LockFree, cpuVars, lifeVars,
     loopVars, ownVars, LeavesListed, Stays, Settled, Pending, Dead, Listed, LoopType,
     FiberType, LifeType, OwnType, CallType
<1>11. ASSUME NEW k \in Callers, MarkReady(k)
      PROVE  Stays(u)
  BY <1>0, <1>a, <1>b, <1>11 DEF MarkReady, Begin, At, Return, threadVars, cpuVars,
     loopVars, listVars, lifeVars, ownVars, LeavesListed, Stays, Settled, Pending, Dead,
     Listed, LoopType, FiberType, LifeType, OwnType, CallType
<1>12. ASSUME NEW k \in Callers, EnqueueReady(k)
      PROVE  Stays(u)
  BY <1>0, <1>a, <1>b, <1>12 DEF EnqueueReady, At, Return, LockFree, LeftAlone,
     LinkAtTurn, LinkReadyLocked, WakeAndReturn, cpuVars, lifeVars, loopVars, ownVars,
     LeavesListed, Stays, Settled, Pending, Dead, Listed, LoopType, FiberType, LifeType,
     OwnType, CallType
<1>13. ASSUME NEW k \in Callers, TerminateThread(k)
      PROVE  Stays(u)
  <2> DEFINE t == call[k].t
  <2>1. UNCHANGED <<running, fiber, reclaimed>>
    BY <1>13 DEF TerminateThread, cpuVars, ownVars
  <2>2. CASE TerminateStopped(k, t)
    <3>1. queued' = queued \ {t} /\ blocked' = blocked \ {t} /\ suspended' = suspended \ {t}
      BY <2>2 DEF TerminateStopped, Detach
    <3>2. CASE u # t \/ t \in running
      BY <1>0, <2>1, <3>1, <3>2 DEF Stays, Settled, Listed, Dead
    <3>3. CASE u = t /\ t \notin running
      <4>1. call' = [call EXCEPT ![k] = [pc |-> "reclaim", t |-> t, cpu |-> None]]
        BY <2>2, <3>3 DEF TerminateStopped, Begin
      <4> QED BY <1>0, <3>3, <4>1 DEF Stays, Pending, CallType
    <3> QED BY <3>2, <3>3
  <2>3. CASE TerminateRunning(k, t) \/ TerminateUnlisted(k, t)
    BY <1>0, <2>1, <2>3 DEF TerminateRunning, TerminateUnlisted, listVars, Stays, Settled,
       Listed, Dead
  <2>4. CASE TerminateParked(k, t)
    <3>1. queued' = queued \cup {t} /\ blocked' = blocked \ {t} /\ suspended' = suspended \ {t}
      BY <2>4 DEF TerminateParked, LinkReadyLocked
    <3> QED BY <1>0, <2>1, <3>1 DEF Stays, Settled, Listed, Dead
  <2> QED BY <1>13, <2>2, <2>3, <2>4 DEF TerminateThread
<1>14. ASSUME NEW k \in Callers, ReclaimTerminated(k)
      PROVE  Stays(u)
  BY <1>0, <1>a, <1>b, <1>14 DEF ReclaimTerminated, At, Return, cpuVars, listVars,
     loopVars, ownVars, LeavesListed, Stays, Settled, Pending, Dead, Listed, LoopType,
     FiberType, LifeType, OwnType, CallType
<1>15. ASSUME NEW k \in Callers, MigrateForAffinity(k)
      PROVE  Stays(u)
  BY <1>0, <1>a, <1>b, <1>15 DEF MigrateForAffinity, At, Return, LockFree, LinkAtTurn,
     LinkReadyLocked, WakeAndReturn, lifeVars, ownVars, loopVars, LeavesListed, Stays,
     Settled, Pending, Dead, Listed, LoopType, FiberType, LifeType, OwnType, CallType
<1>16. ASSUME NEW k \in Callers, RequeueForPriority(k)
      PROVE  Stays(u)
  BY <1>0, <1>a, <1>b, <1>16 DEF RequeueForPriority, At, Return, LockFree,
     LinkReadyLocked, cpuVars, lifeVars, loopVars, ownVars, LeavesListed, Stays, Settled,
     Pending, Dead, Listed, LoopType, FiberType, LifeType, OwnType, CallType
<1>17. ASSUME NEW k \in Callers, SignalCheck(k)
      PROVE  Stays(u)
  BY <1>0, <1>a, <1>b, <1>17 DEF SignalCheck, AnyBlocked, At, Begin, Return,
     threadVars, cpuVars, loopVars, listVars, lifeVars, ownVars, LeavesListed, Stays,
     Settled, Pending, Dead, Listed, LoopType, FiberType, LifeType, OwnType, CallType
<1>18. ASSUME NEW k \in Callers, WakeForSignal(k)
      PROVE  Stays(u)
  BY <1>0, <1>a, <1>b, <1>18 DEF WakeForSignal, At, LockFree, WakeAndReturn, cpuVars,
     listVars, lifeVars, loopVars, ownVars, LeavesListed, Stays, Settled, Pending, Dead,
     Listed, LoopType, FiberType, LifeType, OwnType, CallType
<1>19. ASSUME NEW k \in Callers, WakeAllCheck(k)
      PROVE  Stays(u)
  BY <1>0, <1>a, <1>b, <1>19 DEF WakeAllCheck, AnyBlocked, At, Begin, Return,
     threadVars, cpuVars, loopVars, listVars, lifeVars, ownVars, LeavesListed, Stays,
     Settled, Pending, Dead, Listed, LoopType, FiberType, LifeType, OwnType, CallType
<1>20. ASSUME NEW k \in Callers, WakeAll(k)
      PROVE  Stays(u)
  BY <1>0, <1>a, <1>b, <1>20 DEF WakeAll, At, LockFree, WakeAndReturn, cpuVars,
     listVars, lifeVars, loopVars, ownVars, LeavesListed, Stays, Settled, Pending, Dead,
     Listed, LoopType, FiberType, LifeType, OwnType, CallType
<1>21. ASSUME NEW k \in Callers, NEW c \in Cpus, Wake(k, c)
      PROVE  Stays(u)
  BY <1>0, <1>a, <1>b, <1>21 DEF Wake, At, WakeAndReturn, threadVars, ownVars,
     loopVars, listVars, lifeVars, LeavesListed, Stays, Settled, Pending, Dead, Listed,
     LoopType, FiberType, LifeType, OwnType, CallType
<1>22. ASSUME NEW c \in Cpus, Yield(c)
      PROVE  Stays(u)
  <2>1. Settled(u)'
    BY <1>0, <1>22, FibersGiveUp, GivenUpStays
  <2> QED BY <2>1 DEF Stays
<1>23. ASSUME NEW c \in Cpus, SelfSuspend(c)
      PROVE  Stays(u)
  <2>1. Settled(u)'
    BY <1>0, <1>23, FibersGiveUp, GivenUpStays
  <2> QED BY <2>1 DEF Stays
<1>24. ASSUME NEW c \in Cpus, NEW S \in SUBSET Objects, SampleEpoch(c, S)
      PROVE  Stays(u)
  BY <1>0, <1>a, <1>b, <1>24 DEF SampleEpoch, OnCpu, FiberAt, StaysOnCpu, cpuVars,
     listVars, lifeVars, loopVars, ownVars, LeavesListed, Stays, Settled, Pending, Dead,
     Listed, LoopType, FiberType, LifeType, OwnType, CallType
<1>25. ASSUME NEW c \in Cpus, Delay(c)
      PROVE  Stays(u)
  <2>1. Settled(u)'
    BY <1>0, <1>25, FibersGiveUp, GivenUpStays
  <2> QED BY <2>1 DEF Stays
<1>26. ASSUME NEW c \in Cpus, BlockUngated(c)
      PROVE  Stays(u)
  <2>1. Settled(u)'
    BY <1>0, <1>26, FibersGiveUp, GivenUpStays
  <2> QED BY <2>1 DEF Stays
<1>27. ASSUME NEW c \in Cpus, WaitOnFence(c)
      PROVE  Stays(u)
  <2>1. Settled(u)'
    BY <1>0, <1>27, FibersGiveUp, GivenUpStays
  <2> QED BY <2>1 DEF Stays
<1>28. ASSUME NEW c \in Cpus, ExitBegin(c)
      PROVE  Stays(u)
  BY <1>0, <1>a, <1>b, <1>28 DEF ExitBegin, OnCpu, FiberAt, StaysOnCpu, cpuVars,
     listVars, loopVars, ownVars, LeavesListed, Stays, Settled, Pending, Dead, Listed,
     LoopType, FiberType, LifeType, OwnType, CallType
<1>29. ASSUME NEW c \in Cpus, ExitYield(c)
      PROVE  Stays(u)
  <2>1. Settled(u)'
    BY <1>0, <1>29, FibersGiveUp, GivenUpStays
  <2> QED BY <2>1 DEF Stays
<1>30. ASSUME NEW c \in Cpus, Crash(c)
      PROVE  Stays(u)
  <2>1. Settled(u)'
    BY <1>0, <1>30, FibersGiveUp, GivenUpStays
  <2> QED BY <2>1 DEF Stays
<1>31. ASSUME NEW c \in Cpus, PreemptCurrentFiber(c)
      PROVE  Stays(u)
  <2>1. Settled(u)'
    BY <1>0, <1>31, FibersGiveUp, GivenUpStays
  <2> QED BY <2>1 DEF Stays
<1>32. ASSUME NEW c \in Cpus, FiberResume(c)
      PROVE  Stays(u)
  BY <1>0, <1>a, <1>b, <1>32 DEF FiberResume, OnCpu, ExitIfTerminated, FiberAt,
     YieldToScheduler, listVars, LeavesListed, Stays, Settled, Pending, Dead, Listed,
     LoopType, FiberType, LifeType, OwnType, CallType
<1>33. ASSUME NEW c \in Cpus, PollSatisfied(c)
      PROVE  Stays(u)
  BY <1>0, <1>a, <1>b, <1>33 DEF PollSatisfied, OnCpu, FiberAt, StaysOnCpu, cpuVars,
     listVars, lifeVars, loopVars, ownVars, LeavesListed, Stays, Settled, Pending, Dead,
     Listed, LoopType, FiberType, LifeType, OwnType, CallType
<1>34. ASSUME NEW c \in Cpus, BlockOnObjects(c)
      PROVE  Stays(u)
  <2>1. Settled(u)'
    BY <1>0, <1>34, FibersGiveUp, GivenUpStays
  <2> QED BY <2>1 DEF Stays
<1>35. ASSUME NEW c \in Cpus, ExitEnd(c)
      PROVE  Stays(u)
  <2>1. Settled(u)'
    BY <1>0, <1>35, FibersGiveUp, GivenUpStays
  <2> QED BY <2>1 DEF Stays
<1>36. ASSUME NEW c \in Cpus, Top(c)
      PROVE  Stays(u)
  BY <1>0, <1>a, <1>b, <1>36 DEF Top, Goes, cpuVars, listVars, lifeVars, ownVars,
     LeavesListed, Stays, Settled, Pending, Dead, Listed, LoopType, FiberType, LifeType,
     OwnType, CallType
<1>37. ASSUME NEW c \in Cpus, RepollDue(c)
      PROVE  Stays(u)
  BY <1>0, <1>a, <1>b, <1>37 DEF RepollDue, Goes, threadVars, cpuVars, listVars,
     lifeVars, ownVars, LeavesListed, Stays, Settled, Pending, Dead, Listed, LoopType,
     FiberType, LifeType, OwnType, CallType
<1>38. ASSUME NEW c \in Cpus, SleepTimeout(c)
      PROVE  Stays(u)
  BY <1>0, <1>a, <1>b, <1>38 DEF SleepTimeout, WakesUp, Goes, threadVars, ownVars,
     listVars, lifeVars, LeavesListed, Stays, Settled, Pending, Dead, Listed, LoopType,
     FiberType, LifeType, OwnType, CallType
<1>39. ASSUME NEW c \in Cpus, RereadyBegin(c)
      PROVE  Stays(u)
  BY <1>0, <1>a, <1>b, <1>39 DEF RereadyBegin, Goes, LockFree, cpuVars, listVars,
     lifeVars, ownVars, LeavesListed, Stays, Settled, Pending, Dead, Listed, LoopType,
     FiberType, LifeType, OwnType, CallType
<1>40. ASSUME NEW c \in Cpus, NEW t \in Threads, KeepBlocked(c, t)
      PROVE  Stays(u)
  BY <1>0, <1>a, <1>b, <1>40 DEF KeepBlocked, MayHaveResolved, Visits, cpuVars,
     listVars, lifeVars, loopVars, ownVars, LeavesListed, Stays, Settled, Pending, Dead,
     Listed, LoopType, FiberType, LifeType, OwnType, CallType
<1>41. ASSUME NEW c \in Cpus, NEW t \in Threads, Reready(c, t)
      PROVE  Stays(u)
  BY <1>0, <1>a, <1>b, <1>41 DEF Reready, LinkAtTurn, LinkReadyLocked, Visits,
     cpuVars, lifeVars, loopVars, ownVars, LeavesListed, Stays, Settled, Pending, Dead,
     Listed, LoopType, FiberType, LifeType, OwnType, CallType
<1>42. ASSUME NEW c \in Cpus, RereadyEnd(c)
      PROVE  Stays(u)
  BY <1>0, <1>a, <1>b, <1>42 DEF RereadyEnd, Goes, cpuVars, listVars, lifeVars,
     ownVars, LeavesListed, Stays, Settled, Pending, Dead, Listed, LoopType, FiberType,
     LifeType, OwnType, CallType
<1>43. ASSUME NEW c \in Cpus, LoopWoken(c)
      PROVE  Stays(u)
  BY <1>0, <1>a, <1>b, <1>43 DEF LoopWoken, Goes, threadVars, cpuVars, listVars,
     lifeVars, ownVars, LeavesListed, Stays, Settled, Pending, Dead, Listed, LoopType,
     FiberType, LifeType, OwnType, CallType
<1>44. ASSUME NEW c \in Cpus, NEW d \in Cpus, LoopWake(c, d)
      PROVE  Stays(u)
  BY <1>0, <1>a, <1>b, <1>44 DEF LoopWake, threadVars, ownVars, loopVars, listVars,
     lifeVars, LeavesListed, Stays, Settled, Pending, Dead, Listed, LoopType, FiberType,
     LifeType, OwnType, CallType
<1>45. ASSUME NEW c \in Cpus, DequeueReady(c)
      PROVE  Stays(u)
  BY <1>0, <1>a, <1>b, <1>45 DEF DequeueReady, LockFree, lifeVars, LeavesListed,
     Stays, Settled, Pending, Dead, Listed, LoopType, FiberType, LifeType, OwnType,
     CallType
<1>46. ASSUME NEW c \in Cpus, DequeueNothing(c)
      PROVE  Stays(u)
  BY <1>0, <1>a, <1>b, <1>46 DEF DequeueNothing, Goes, LockFree, threadVars, cpuVars,
     listVars, lifeVars, ownVars, LeavesListed, Stays, Settled, Pending, Dead, Listed,
     LoopType, FiberType, LifeType, OwnType, CallType
<1>47. ASSUME NEW c \in Cpus, Picked(c)
      PROVE  Stays(u)
  BY <1>0, <1>a, <1>b, <1>47 DEF Picked, threadVars, cpuVars, listVars, lifeVars,
     ownVars, LeavesListed, Stays, Settled, Pending, Dead, Listed, LoopType, FiberType,
     LifeType, OwnType, CallType
<1>48. ASSUME NEW c \in Cpus, MigrateHome(c)
      PROVE  Stays(u)
  BY <1>0, <1>a, <1>b, <1>48 DEF MigrateHome, LinkAtTurn, LinkReadyLocked, LockFree,
     lifeVars, LeavesListed, Stays, Settled, Pending, Dead, Listed, LoopType, FiberType,
     LifeType, OwnType, CallType
<1>49. ASSUME NEW c \in Cpus, ParkSuspended(c)
      PROVE  Stays(u)
  BY <1>0, <1>a, <1>b, <1>49 DEF ParkSuspended, LockFree, MustPark, lifeVars,
     LeavesListed, Stays, Settled, Pending, Dead, Listed, LoopType, FiberType, LifeType,
     OwnType, CallType
<1>50. ASSUME NEW c \in Cpus, SwitchTo(c)
      PROVE  Stays(u)
  BY <1>0, <1>a, <1>b, <1>50 DEF SwitchTo, Goes, listVars, LeavesListed, Stays,
     Settled, Pending, Dead, Listed, LoopType, FiberType, LifeType, OwnType, CallType
<1>51. ASSUME NEW c \in Cpus, SwitchedBack(c)
      PROVE  Stays(u)
  BY <1>0, <1>a, <1>b, <1>51 DEF SwitchedBack, AfterSwitch, threadVars, listVars,
     lifeVars, LeavesListed, Stays, Settled, Pending, Dead, Listed, LoopType, FiberType,
     LifeType, OwnType, CallType
<1>52. ASSUME NEW c \in Cpus, ReclaimExited(c)
      PROVE  Stays(u)
  BY <1>0, <1>a, <1>b, <1>52 DEF ReclaimExited, Goes, listVars, LeavesListed, Stays,
     Settled, Pending, Dead, Listed, LoopType, FiberType, LifeType, OwnType, CallType
<1>53. ASSUME NEW c \in Cpus, IdleParks(c)
      PROVE  Stays(u)
  BY <1>0, <1>a, <1>b, <1>53 DEF IdleParks, Goes, threadVars, ownVars, listVars,
     lifeVars, LeavesListed, Stays, Settled, Pending, Dead, Listed, LoopType, FiberType,
     LifeType, OwnType, CallType
<1>54. ASSUME NEW c \in Cpus, IdleRechecks(c)
      PROVE  Stays(u)
  BY <1>0, <1>a, <1>b, <1>54 DEF IdleRechecks, Goes, HasWork, LockFree, threadVars,
     ownVars, listVars, lifeVars, LeavesListed, Stays, Settled, Pending, Dead, Listed,
     LoopType, FiberType, LifeType, OwnType, CallType
<1>55. ASSUME NEW c \in Cpus, SleepWoken(c)
      PROVE  Stays(u)
  BY <1>0, <1>a, <1>b, <1>55 DEF SleepWoken, WakesUp, Goes, threadVars, ownVars,
     listVars, lifeVars, LeavesListed, Stays, Settled, Pending, Dead, Listed, LoopType,
     FiberType, LifeType, OwnType, CallType
<1>56. ASSUME ShutdownBegin
      PROVE  Stays(u)
  BY <1>0, <1>a, <1>b, <1>56 DEF ShutdownBegin, threadVars, cpuVars, loopVars,
     listVars, lifeVars, ownVars, LeavesListed, Stays, Settled, Pending, Dead, Listed,
     LoopType, FiberType, LifeType, OwnType, CallType
<1>57. ASSUME NEW c \in Cpus, ShutdownNudge(c)
      PROVE  Stays(u)
  BY <1>0, <1>a, <1>b, <1>57 DEF ShutdownNudge, threadVars, ownVars, loopVars,
     listVars, lifeVars, LeavesListed, Stays, Settled, Pending, Dead, Listed, LoopType,
     FiberType, LifeType, OwnType, CallType
<1>58. ASSUME ShutdownDrain
      PROVE  Stays(u)
  <2>1. UNCHANGED <<running, fiber>> /\ reclaimed' = reclaimed \cup Leftovers
    BY <1>58 DEF ShutdownDrain
  <2>2. Listed \subseteq Leftovers
    BY <1>0, ConstantsAssumption DEF Leftovers, Listed
  <2> QED BY <1>0, <2>1, <2>2 DEF Stays, Settled, Dead
<1>59. ASSUME NEW c \in Cpus, SelfResume(c) PROVE FALSE
  BY <1>59 DEF SelfResume, NoSelfResume
<1>60. \A s \in Starts : s[1] \in Threads /\ s[2] \in Cpus /\ s[3] \in Levels
  BY ConstantsAssumption
<1>61. CASE \E k \in Callers : CallStarts(k) \/ CallContinues(k)
  BY <1>61, <1>60, <1>1, <1>2, <1>3, <1>4, <1>5, <1>6, <1>7, <1>8, <1>9, <1>10, <1>11,
     <1>12, <1>13, <1>14, <1>15, <1>16, <1>17, <1>18, <1>19, <1>20, <1>21
     DEF CallStarts, CallContinues
<1>62. CASE \E c \in Cpus : GuestActs(c) \/ PreemptCurrentFiber(c) \/ FiberContinues(c)
  BY <1>62, <1>59, <1>22, <1>23, <1>24, <1>25, <1>26, <1>27, <1>28, <1>29, <1>30, <1>31,
     <1>32, <1>33, <1>34, <1>35
     DEF GuestActs, FiberContinues
<1>63. CASE \E c \in Cpus : Dispatches(c) \/ RepollDue(c) \/ SleepTimeout(c)
  BY <1>63, <1>36, <1>37, <1>38, <1>39, <1>40, <1>41, <1>42, <1>43, <1>44, <1>45, <1>46,
     <1>47, <1>48, <1>49, <1>50, <1>51, <1>52, <1>53, <1>54, <1>55
     DEF Dispatches, Walks
<1>64. CASE ShutdownActs
  BY <1>64, <1>56, <1>57, <1>58 DEF ShutdownActs
<1> QED BY <1>61, <1>62, <1>63, <1>64 DEF Next

(* No step leaves the regime of resumes.                                   *)
LEMMA ResumeRegimeKept ==
  ASSUME NoSelfResume, ResumesApart, plan \in Plans, IInv, IInv', KeptInv, Next
  PROVE  ("resume" \in plan.calls => ResumeRegime)'
<1>0. /\ LoopType /\ FiberType /\ LifeType /\ CallType
      /\ "resume" \in plan.calls => ResumeRegime
  BY DEF KeptInv, IInv, TypeInv
<1>a. \A c \in Cpus : loop[c] \in {"picked", "settled", "migrate", "fiber", "back"}
          => next[c] \in Threads /\ next[c] \in running
  BY Owning
<1>b. \A c, d \in Cpus : (loop[c] \in {"picked", "settled", "migrate", "fiber", "back"}
          /\ loop[d] \in {"picked", "settled", "migrate", "fiber", "back"} /\ next[c] = next[d])
               => c = d
  BY Owning
<1>c. plan' = plan /\ ("resume" \in plan.calls => "terminate" \notin plan.calls
          /\ "exitYield" \notin plan.guestOps)
  BY PlanKept DEF ResumesApart
<1> SUFFICES ASSUME "resume" \in plan.calls PROVE ResumeRegime'
  BY <1>c
<1>1. ASSUME NEW k \in Callers, NEW t \in Threads, NEW c \in Cpus, NEW p \in Levels,
               NEW b \in BOOLEAN, Create(k, t, c, p, b)
      PROVE  ResumeRegime'
  <2>1. UNCHANGED <<terminatePending, terminated, loop, next>>
          /\ fiber' = [fiber EXCEPT ![t] = "new"] /\ fiber[t] = "none"
    BY <1>1 DEF Create, Exists, lifeVars, loopVars
  <2>2. \A j \in Callers : call'[j].pc \in Reaping => call[j].pc \in Reaping
    BY <1>0, <1>1 DEF Create, Begin, CallType, Reaping
  <2>3. t \notin terminated
    BY <1>0, <2>1 DEF ResumeRegime
  <2>4. \A d \in Cpus : loop[d] = "fiber" => fiber[next[d]] # "none"
    BY Owning DEF Exists
  <2> QED BY <1>0, <1>a, <2>1, <2>2, <2>3, <2>4 DEF ResumeRegime, FiberType
<1>2. ASSUME NEW k \in Callers, NEW t \in Threads, Resume(k, t)
      PROVE  ResumeRegime'
  BY <1>0, <1>a, <1>b, <1>c, <1>2 DEF Resume, Begin, At, ResumesFrom, Exists,
     cpuVars, lifeVars, loopVars, ownVars, ResumeRegime, Reaping, LoopType, FiberType,
     LifeType, CallType
<1>3. ASSUME NEW k \in Callers, NEW t \in Threads, Suspend(k, t)
      PROVE  ResumeRegime'
  BY <1>0, <1>a, <1>b, <1>c, <1>3 DEF Suspend, cpuVars, lifeVars, loopVars, ownVars,
     ResumeRegime, Reaping, LoopType, FiberType, LifeType, CallType
<1>4. ASSUME NEW k \in Callers, NEW t \in Threads, Terminate(k, t)
      PROVE  ResumeRegime'
  BY <1>0, <1>a, <1>b, <1>c, <1>4 DEF Terminate, Begin, At, cpuVars, loopVars,
     ownVars, ResumeRegime, Reaping, LoopType, FiberType, LifeType, CallType
<1>5. ASSUME NEW k \in Callers, NEW t \in Threads, NEW c \in Cpus, SetActiveCpu(k, t, c)
      PROVE  ResumeRegime'
  BY <1>0, <1>a, <1>b, <1>c, <1>5 DEF SetActiveCpu, Begin, At, cpuVars, lifeVars,
     loopVars, ownVars, ResumeRegime, Reaping, LoopType, FiberType, LifeType, CallType
<1>6. ASSUME NEW k \in Callers, NEW t \in Threads, NEW p \in Levels, PublishPriority(k, t, p)
      PROVE  ResumeRegime'
  BY <1>0, <1>a, <1>b, <1>c, <1>6 DEF PublishPriority, Begin, At, cpuVars, lifeVars,
     loopVars, ownVars, ResumeRegime, Reaping, LoopType, FiberType, LifeType, CallType
<1>7. ASSUME NEW k \in Callers, NEW o \in Objects, Signal(k, o)
      PROVE  ResumeRegime'
  BY <1>0, <1>a, <1>b, <1>c, <1>7 DEF Signal, Begin, At, cpuVars, lifeVars,
     loopVars, ownVars, ResumeRegime, Reaping, LoopType, FiberType, LifeType, CallType
<1>8. ASSUME NEW k \in Callers, BeginWakeAll(k)
      PROVE  ResumeRegime'
  BY <1>0, <1>a, <1>b, <1>c, <1>8 DEF BeginWakeAll, Begin, At, threadVars, cpuVars,
     loopVars, lifeVars, ownVars, ResumeRegime, Reaping, LoopType, FiberType, LifeType,
     CallType
<1>9. ASSUME NEW k \in Callers, NEW C \in SUBSET BackgroundCpus, EnterBackgroundMode(k, C)
      PROVE  ResumeRegime'
  BY <1>0, <1>a, <1>b, <1>c, <1>9 DEF EnterBackgroundMode, threadVars, ownVars,
     loopVars, lifeVars, ResumeRegime, Reaping, LoopType, FiberType, LifeType, CallType
<1>10. ASSUME NEW k \in Callers, ResumeThread(k)
      PROVE  ResumeRegime'
  BY <1>0, <1>a, <1>b, <1>c, <1>10 DEF ResumeThread, Begin, At, LockFree, cpuVars,
     lifeVars, loopVars, ownVars, ResumeRegime, Reaping, LoopType, FiberType, LifeType,
     CallType
<1>11. ASSUME NEW k \in Callers, MarkReady(k)
      PROVE  ResumeRegime'
  BY <1>0, <1>a, <1>b, <1>c, <1>11 DEF MarkReady, Begin, At, Return, threadVars,
     cpuVars, loopVars, lifeVars, ownVars, ResumeRegime, Reaping, LoopType, FiberType,
     LifeType, CallType, Idle
<1>12. ASSUME NEW k \in Callers, EnqueueReady(k)
      PROVE  ResumeRegime'
  <2>1. UNCHANGED <<terminatePending, terminated, fiber, loop, next>> /\ call[k].pc = "enqueue"
    BY <1>12 DEF EnqueueReady, At, lifeVars, loopVars
  <2>2. \A j \in Callers : call'[j].pc \in Reaping => call[j].pc \in Reaping
    BY <1>0, <1>12 DEF EnqueueReady, Return, WakeAndReturn, CallType, Reaping, Idle
  <2> QED BY <1>0, <2>1, <2>2 DEF ResumeRegime
<1>13. ASSUME NEW k \in Callers, TerminateThread(k)
      PROVE  ResumeRegime'
  BY <1>0, <1>a, <1>b, <1>c, <1>13 DEF TerminateThread, At, LockFree,
     TerminateStopped, TerminateRunning, TerminateParked, TerminateUnlisted, Begin,
     Return, WakeAndReturn, cpuVars, loopVars, ownVars, ResumeRegime, Reaping, LoopType,
     FiberType, LifeType, CallType, Idle
<1>14. ASSUME NEW k \in Callers, ReclaimTerminated(k)
      PROVE  ResumeRegime'
  BY <1>0, <1>a, <1>b, <1>c, <1>14 DEF ReclaimTerminated, At, Return, cpuVars,
     loopVars, ownVars, ResumeRegime, Reaping, LoopType, FiberType, LifeType, CallType,
     Idle
<1>15. ASSUME NEW k \in Callers, MigrateForAffinity(k)
      PROVE  ResumeRegime'
  <2>1. UNCHANGED <<terminatePending, terminated, fiber, loop, next>> /\ call[k].pc = "migrate"
    BY <1>15 DEF MigrateForAffinity, At, lifeVars, loopVars
  <2>2. \A j \in Callers : call'[j].pc \in Reaping => call[j].pc \in Reaping
    BY <1>0, <1>15 DEF MigrateForAffinity, Return, WakeAndReturn, CallType, Reaping, Idle
  <2> QED BY <1>0, <2>1, <2>2 DEF ResumeRegime
<1>16. ASSUME NEW k \in Callers, RequeueForPriority(k)
      PROVE  ResumeRegime'
  BY <1>0, <1>a, <1>b, <1>c, <1>16 DEF RequeueForPriority, At, Return, LockFree,
     cpuVars, lifeVars, loopVars, ownVars, ResumeRegime, Reaping, LoopType, FiberType,
     LifeType, CallType, Idle
<1>17. ASSUME NEW k \in Callers, SignalCheck(k)
      PROVE  ResumeRegime'
  BY <1>0, <1>a, <1>b, <1>c, <1>17 DEF SignalCheck, AnyBlocked, At, Begin, Return,
     threadVars, cpuVars, loopVars, lifeVars, ownVars, ResumeRegime, Reaping, LoopType,
     FiberType, LifeType, CallType, Idle
<1>18. ASSUME NEW k \in Callers, WakeForSignal(k)
      PROVE  ResumeRegime'
  BY <1>0, <1>a, <1>b, <1>c, <1>18 DEF WakeForSignal, At, LockFree, WakeAndReturn,
     cpuVars, lifeVars, loopVars, ownVars, ResumeRegime, Reaping, LoopType, FiberType,
     LifeType, CallType, Idle
<1>19. ASSUME NEW k \in Callers, WakeAllCheck(k)
      PROVE  ResumeRegime'
  BY <1>0, <1>a, <1>b, <1>c, <1>19 DEF WakeAllCheck, AnyBlocked, At, Begin, Return,
     threadVars, cpuVars, loopVars, lifeVars, ownVars, ResumeRegime, Reaping, LoopType,
     FiberType, LifeType, CallType, Idle
<1>20. ASSUME NEW k \in Callers, WakeAll(k)
      PROVE  ResumeRegime'
  BY <1>0, <1>a, <1>b, <1>c, <1>20 DEF WakeAll, At, LockFree, WakeAndReturn,
     cpuVars, lifeVars, loopVars, ownVars, ResumeRegime, Reaping, LoopType, FiberType,
     LifeType, CallType, Idle
<1>21. ASSUME NEW k \in Callers, NEW c \in Cpus, Wake(k, c)
      PROVE  ResumeRegime'
  BY <1>0, <1>a, <1>b, <1>c, <1>21 DEF Wake, At, WakeAndReturn, threadVars, ownVars,
     loopVars, lifeVars, ResumeRegime, Reaping, LoopType, FiberType, LifeType, CallType,
     Idle
<1>22. ASSUME NEW c \in Cpus, Yield(c)
      PROVE  ResumeRegime'
  BY <1>0, <1>a, <1>b, <1>c, <1>22 DEF Yield, YieldCurrentThread, YieldLeavesAlone,
     ExitIfTerminated, YieldToScheduler, FiberAt, OnCpu, LeftAlone, ResumeRegime, Reaping,
     LoopType, FiberType, LifeType, CallType
<1>23. ASSUME NEW c \in Cpus, SelfSuspend(c)
      PROVE  ResumeRegime'
  BY <1>0, <1>a, <1>b, <1>c, <1>23 DEF SelfSuspend, YieldCurrentThread,
     YieldLeavesAlone, ExitIfTerminated, YieldToScheduler, FiberAt, OnCpu, LeftAlone,
     ResumeRegime, Reaping, LoopType, FiberType, LifeType, CallType
<1>24. ASSUME NEW c \in Cpus, NEW S \in SUBSET Objects, SampleEpoch(c, S)
      PROVE  ResumeRegime'
  BY <1>0, <1>a, <1>b, <1>c, <1>24 DEF SampleEpoch, OnCpu, FiberAt, StaysOnCpu,
     cpuVars, lifeVars, loopVars, ownVars, ResumeRegime, Reaping, LoopType, FiberType,
     LifeType, CallType
<1>25. ASSUME NEW c \in Cpus, Delay(c)
      PROVE  ResumeRegime'
  BY <1>0, <1>a, <1>b, <1>c, <1>25 DEF Delay, BlockCurrentThread, ParkBlocked,
     ExitIfTerminated, BlockLeavesAlone, OnCpu, FiberAt, YieldToScheduler, PokeIfMoved,
     LockFree, ResumeRegime, Reaping, LoopType, FiberType, LifeType, CallType
<1>26. ASSUME NEW c \in Cpus, BlockUngated(c)
      PROVE  ResumeRegime'
  BY <1>0, <1>a, <1>b, <1>c, <1>26 DEF BlockUngated, BlockCurrentThread,
     ParkBlocked, ExitIfTerminated, BlockLeavesAlone, OnCpu, FiberAt, YieldToScheduler,
     PokeIfMoved, LockFree, ResumeRegime, Reaping, LoopType, FiberType, LifeType, CallType
<1>27. ASSUME NEW c \in Cpus, WaitOnFence(c)
      PROVE  ResumeRegime'
  BY <1>0, <1>a, <1>b, <1>c, <1>27 DEF WaitOnFence, ParkBlocked, BlockLeavesAlone,
     OnCpu, FiberAt, YieldToScheduler, PokeIfMoved, LockFree, ResumeRegime, Reaping,
     LoopType, FiberType, LifeType, CallType
<1>28. ASSUME NEW c \in Cpus, ExitBegin(c)
      PROVE  ResumeRegime'
  BY <1>0, <1>a, <1>b, <1>c, <1>28 DEF ExitBegin, OnCpu, FiberAt, StaysOnCpu,
     cpuVars, loopVars, ownVars, ResumeRegime, Reaping, LoopType, FiberType, LifeType,
     CallType
<1>29. ASSUME NEW c \in Cpus, ExitYield(c)
      PROVE  ResumeRegime'
  BY <1>0, <1>a, <1>b, <1>c, <1>29 DEF ExitYield, YieldCurrentThread,
     YieldLeavesAlone, ExitIfTerminated, YieldToScheduler, FiberAt, OnCpu, LeftAlone,
     ResumeRegime, Reaping, LoopType, FiberType, LifeType, CallType
<1>30. ASSUME NEW c \in Cpus, Crash(c)
      PROVE  ResumeRegime'
  BY <1>0, <1>a, <1>b, <1>c, <1>30 DEF Crash, OnCpu, FiberAt, YieldToScheduler,
     LockFree, ResumeRegime, Reaping, LoopType, FiberType, LifeType, CallType
<1>31. ASSUME NEW c \in Cpus, PreemptCurrentFiber(c)
      PROVE  ResumeRegime'
  BY <1>0, <1>a, <1>b, <1>c, <1>31 DEF PreemptCurrentFiber, YieldCurrentThread,
     YieldLeavesAlone, ExitIfTerminated, YieldToScheduler, FiberAt, OnCpu, LeftAlone,
     ResumeRegime, Reaping, LoopType, FiberType, LifeType, CallType
<1>32. ASSUME NEW c \in Cpus, FiberResume(c)
      PROVE  ResumeRegime'
  BY <1>0, <1>a, <1>b, <1>c, <1>32 DEF FiberResume, OnCpu, ExitIfTerminated,
     FiberAt, YieldToScheduler, ResumeRegime, ResumedAt, Reaping, LoopType, FiberType,
     LifeType, CallType
<1>33. ASSUME NEW c \in Cpus, PollSatisfied(c)
      PROVE  ResumeRegime'
  BY <1>0, <1>a, <1>b, <1>c, <1>33 DEF PollSatisfied, OnCpu, FiberAt, StaysOnCpu,
     cpuVars, lifeVars, loopVars, ownVars, ResumeRegime, Reaping, LoopType, FiberType,
     LifeType, CallType
<1>34. ASSUME NEW c \in Cpus, BlockOnObjects(c)
      PROVE  ResumeRegime'
  BY <1>0, <1>a, <1>b, <1>c, <1>34 DEF BlockOnObjects, BlockCurrentThread,
     ParkBlocked, ExitIfTerminated, BlockLeavesAlone, OnCpu, FiberAt, YieldToScheduler,
     PokeIfMoved, LockFree, ResumeRegime, Reaping, LoopType, FiberType, LifeType, CallType
<1>35. ASSUME NEW c \in Cpus, ExitEnd(c)
      PROVE  ResumeRegime'
  BY <1>0, <1>a, <1>b, <1>c, <1>35 DEF ExitEnd, OnCpu, FiberAt, YieldToScheduler,
     threadVars, lifeVars, ResumeRegime, Reaping, LoopType, FiberType, LifeType, CallType
<1>36. ASSUME NEW c \in Cpus, Top(c)
      PROVE  ResumeRegime'
  BY <1>0, <1>a, <1>b, <1>c, <1>36 DEF Top, Goes, cpuVars, lifeVars, ownVars,
     ResumeRegime, Reaping, LoopType, FiberType, LifeType, CallType
<1>37. ASSUME NEW c \in Cpus, RepollDue(c)
      PROVE  ResumeRegime'
  BY <1>0, <1>a, <1>b, <1>c, <1>37 DEF RepollDue, Goes, threadVars, cpuVars,
     lifeVars, ownVars, ResumeRegime, Reaping, LoopType, FiberType, LifeType, CallType
<1>38. ASSUME NEW c \in Cpus, SleepTimeout(c)
      PROVE  ResumeRegime'
  BY <1>0, <1>a, <1>b, <1>c, <1>38 DEF SleepTimeout, WakesUp, Goes, threadVars,
     ownVars, lifeVars, ResumeRegime, Reaping, LoopType, FiberType, LifeType, CallType
<1>39. ASSUME NEW c \in Cpus, RereadyBegin(c)
      PROVE  ResumeRegime'
  BY <1>0, <1>a, <1>b, <1>c, <1>39 DEF RereadyBegin, Goes, LockFree, cpuVars,
     lifeVars, ownVars, ResumeRegime, Reaping, LoopType, FiberType, LifeType, CallType
<1>40. ASSUME NEW c \in Cpus, NEW t \in Threads, KeepBlocked(c, t)
      PROVE  ResumeRegime'
  BY <1>0, <1>a, <1>b, <1>c, <1>40 DEF KeepBlocked, MayHaveResolved, Visits,
     cpuVars, lifeVars, loopVars, ownVars, ResumeRegime, Reaping, LoopType, FiberType,
     LifeType, CallType
<1>41. ASSUME NEW c \in Cpus, NEW t \in Threads, Reready(c, t)
      PROVE  ResumeRegime'
  BY <1>0, <1>a, <1>b, <1>c, <1>41 DEF Reready, Visits, cpuVars, lifeVars, loopVars,
     ownVars, ResumeRegime, Reaping, LoopType, FiberType, LifeType, CallType
<1>42. ASSUME NEW c \in Cpus, RereadyEnd(c)
      PROVE  ResumeRegime'
  BY <1>0, <1>a, <1>b, <1>c, <1>42 DEF RereadyEnd, Goes, cpuVars, lifeVars, ownVars,
     ResumeRegime, Reaping, LoopType, FiberType, LifeType, CallType
<1>43. ASSUME NEW c \in Cpus, LoopWoken(c)
      PROVE  ResumeRegime'
  BY <1>0, <1>a, <1>b, <1>c, <1>43 DEF LoopWoken, Goes, threadVars, cpuVars,
     lifeVars, ownVars, ResumeRegime, Reaping, LoopType, FiberType, LifeType, CallType
<1>44. ASSUME NEW c \in Cpus, NEW d \in Cpus, LoopWake(c, d)
      PROVE  ResumeRegime'
  BY <1>0, <1>a, <1>b, <1>c, <1>44 DEF LoopWake, threadVars, ownVars, loopVars,
     lifeVars, ResumeRegime, Reaping, LoopType, FiberType, LifeType, CallType
<1>45. ASSUME NEW c \in Cpus, DequeueReady(c)
      PROVE  ResumeRegime'
  BY <1>0, <1>a, <1>b, <1>c, <1>45 DEF DequeueReady, LockFree, lifeVars,
     ResumeRegime, Reaping, LoopType, FiberType, LifeType, CallType
<1>46. ASSUME NEW c \in Cpus, DequeueNothing(c)
      PROVE  ResumeRegime'
  BY <1>0, <1>a, <1>b, <1>c, <1>46 DEF DequeueNothing, Goes, LockFree, threadVars,
     cpuVars, lifeVars, ownVars, ResumeRegime, Reaping, LoopType, FiberType, LifeType,
     CallType
<1>47. ASSUME NEW c \in Cpus, Picked(c)
      PROVE  ResumeRegime'
  BY <1>0, <1>a, <1>b, <1>c, <1>47 DEF Picked, threadVars, cpuVars, lifeVars,
     ownVars, ResumeRegime, Reaping, LoopType, FiberType, LifeType, CallType
<1>48. ASSUME NEW c \in Cpus, MigrateHome(c)
      PROVE  ResumeRegime'
  BY <1>0, <1>a, <1>b, <1>c, <1>48 DEF MigrateHome, LockFree, lifeVars,
     ResumeRegime, Reaping, LoopType, FiberType, LifeType, CallType
<1>49. ASSUME NEW c \in Cpus, ParkSuspended(c)
      PROVE  ResumeRegime'
  BY <1>0, <1>a, <1>b, <1>c, <1>49 DEF ParkSuspended, LockFree, MustPark, lifeVars,
     ResumeRegime, Reaping, LoopType, FiberType, LifeType, CallType
<1>50. ASSUME NEW c \in Cpus, SwitchTo(c)
      PROVE  ResumeRegime'
  BY <1>0, <1>a, <1>b, <1>c, <1>50 DEF SwitchTo, Goes, ResumeRegime, Reaping,
     LoopType, FiberType, LifeType, CallType
<1>51. ASSUME NEW c \in Cpus, SwitchedBack(c)
      PROVE  ResumeRegime'
  BY <1>0, <1>a, <1>b, <1>c, <1>51 DEF SwitchedBack, AfterSwitch, threadVars,
     lifeVars, ResumeRegime, Reaping, LoopType, FiberType, LifeType, CallType
<1>52. ASSUME NEW c \in Cpus, ReclaimExited(c)
      PROVE  ResumeRegime'
  BY <1>0, <1>a, <1>b, <1>c, <1>52 DEF ReclaimExited, Goes, ResumeRegime, Reaping,
     LoopType, FiberType, LifeType, CallType
<1>53. ASSUME NEW c \in Cpus, IdleParks(c)
      PROVE  ResumeRegime'
  BY <1>0, <1>a, <1>b, <1>c, <1>53 DEF IdleParks, Goes, threadVars, ownVars,
     lifeVars, ResumeRegime, Reaping, LoopType, FiberType, LifeType, CallType
<1>54. ASSUME NEW c \in Cpus, IdleRechecks(c)
      PROVE  ResumeRegime'
  BY <1>0, <1>a, <1>b, <1>c, <1>54 DEF IdleRechecks, Goes, HasWork, LockFree,
     threadVars, ownVars, lifeVars, ResumeRegime, Reaping, LoopType, FiberType, LifeType,
     CallType
<1>55. ASSUME NEW c \in Cpus, SleepWoken(c)
      PROVE  ResumeRegime'
  BY <1>0, <1>a, <1>b, <1>c, <1>55 DEF SleepWoken, WakesUp, Goes, threadVars,
     ownVars, lifeVars, ResumeRegime, Reaping, LoopType, FiberType, LifeType, CallType
<1>56. ASSUME ShutdownBegin
      PROVE  ResumeRegime'
  BY <1>0, <1>a, <1>b, <1>c, <1>56 DEF ShutdownBegin, threadVars, cpuVars, loopVars,
     lifeVars, ownVars, ResumeRegime, Reaping, LoopType, FiberType, LifeType, CallType
<1>57. ASSUME NEW c \in Cpus, ShutdownNudge(c)
      PROVE  ResumeRegime'
  BY <1>0, <1>a, <1>b, <1>c, <1>57 DEF ShutdownNudge, threadVars, ownVars, loopVars,
     lifeVars, ResumeRegime, Reaping, LoopType, FiberType, LifeType, CallType
<1>58. ASSUME ShutdownDrain
      PROVE  ResumeRegime'
  BY <1>0, <1>a, <1>b, <1>c, <1>58 DEF ShutdownDrain, Listed, Leftovers, loopVars,
     ResumeRegime, Reaping, LoopType, FiberType, LifeType, CallType
<1>59. ASSUME NEW c \in Cpus, SelfResume(c) PROVE FALSE
  BY <1>59 DEF SelfResume, NoSelfResume
<1>60. \A s \in Starts : s[1] \in Threads /\ s[2] \in Cpus /\ s[3] \in Levels
  BY ConstantsAssumption
<1>61. CASE \E k \in Callers : CallStarts(k) \/ CallContinues(k)
  BY <1>61, <1>60, <1>1, <1>2, <1>3, <1>4, <1>5, <1>6, <1>7, <1>8, <1>9, <1>10, <1>11,
     <1>12, <1>13, <1>14, <1>15, <1>16, <1>17, <1>18, <1>19, <1>20, <1>21
     DEF CallStarts, CallContinues
<1>62. CASE \E c \in Cpus : GuestActs(c) \/ PreemptCurrentFiber(c) \/ FiberContinues(c)
  BY <1>62, <1>59, <1>22, <1>23, <1>24, <1>25, <1>26, <1>27, <1>28, <1>29, <1>30, <1>31,
     <1>32, <1>33, <1>34, <1>35
     DEF GuestActs, FiberContinues
<1>63. CASE \E c \in Cpus : Dispatches(c) \/ RepollDue(c) \/ SleepTimeout(c)
  BY <1>63, <1>36, <1>37, <1>38, <1>39, <1>40, <1>41, <1>42, <1>43, <1>44, <1>45, <1>46,
     <1>47, <1>48, <1>49, <1>50, <1>51, <1>52, <1>53, <1>54, <1>55
     DEF Dispatches, Walks
<1>64. CASE ShutdownActs
  BY <1>64, <1>56, <1>57, <1>58 DEF ShutdownActs
<1> QED BY <1>61, <1>62, <1>63, <1>64 DEF Next

(* What is over stays settled or about to be reaped, while no such call    *)
(* ends that settles nothing.                                              *)
LEMMA EndsRest ==
  ASSUME KeptInv, LifeType, \A u \in Threads : Stays(u),
         terminated' \cup terminatePending' \subseteq terminated \cup terminatePending \cup running',
         \A k \in Callers : call[k].pc \in Reaping => call'[k] = call[k],
         \A k \in Callers : call[k].pc # "unlink" \/ call'[k] = call[k]
  PROVE  Ends'
<1> SUFFICES ASSUME NEW u \in terminated' \cup terminatePending'
             PROVE  Settled(u)' \/ Pending(u, Reaping)'
  BY DEF Ends
<1>1. CASE u \in running'
  BY <1>1 DEF Settled
<1>2. CASE u \in terminated \cup terminatePending
  <2>1. u \in Threads /\ Stays(u)
    BY <1>2 DEF LifeType
  <2>2. CASE Settled(u)
    BY <2>1, <2>2 DEF Stays, Pending, Reaping
  <2>3. CASE Pending(u, Reaping)
    BY <2>3 DEF Pending
  <2> QED BY <1>2, <2>2, <2>3 DEF KeptInv, Ends
<1> QED BY <1>1, <1>2


(* A Terminate that is over has settled its thread or is to reclaim it.    *)
LEMMA TerminateSettles ==
  ASSUME IInv, KeptInv, \A u \in Threads : Stays(u), NEW k \in Callers, TerminateThread(k),
           NEW t, t = call[k].t
  PROVE  /\ Settled(t)' \/ Pending(t, {"reclaim"})'
         /\ call[k].pc = "terminate" /\ t \in Threads
         /\ terminatePending' = terminatePending \cup {t} /\ hasRun' = hasRun
              /\ terminated' = terminated
         /\ \A j \in Callers : j # k => call'[j] = call[j]
         /\ "resume" \notin plan.calls /\ EndRegime
<1>0. /\ call[k].pc = "terminate" /\ t \in Threads /\ CallType
      /\ terminatePending' = terminatePending \cup {t}
           /\ UNCHANGED <<hasRun, terminated, running, fiber, reclaimed>>
  BY DEF TerminateThread, At, IInv, RefInv, ThreadCallPcs, TypeInv, cpuVars, ownVars
<1>1. \A j \in Callers : j # k => call'[j] = call[j]
  BY TerminateDoes
<1>2. "resume" \notin plan.calls /\ EndRegime
  BY <1>0 DEF KeptInv, ResumeRegime, Reaping
<1>3. CASE Begin(k, "reclaim", t, None)
  BY <1>0, <1>1, <1>2, <1>3 DEF Begin, Pending, CallType
<1>4. CASE t \in running \/ t \in queued'
  BY <1>0, <1>1, <1>2, <1>4 DEF Settled, Listed
<1>5. CASE t \in hasRun
  <2>1. CASE Settled(t)
    <3>1. ~\E j \in Callers : call[j].pc = "unlink" /\ call[j].t = t
            /\ call'[j].pc = "markReady" /\ call'[j].t = t
      BY <1>2 DEF EndRegime
    <3>2. Stays(t)
      BY <1>0
    <3> QED BY <1>0, <1>1, <1>2, <2>1, <3>1, <3>2 DEF Stays
  <2>2. CASE Pending(t, {"reclaim"})
    BY <1>0, <1>1, <1>2, <2>2 DEF Pending
  <2> QED BY <1>2, <1>5, <2>1, <2>2 DEF EndRegime
<1>6. Begin(k, "reclaim", t, None) \/ t \in running \/ t \in queued' \/ t \in hasRun
  BY DEF TerminateThread, TerminateStopped, TerminateRunning, TerminateParked,
     TerminateUnlisted, LinkReadyLocked, NeverDispatchable, listVars
<1> QED BY <1>3, <1>4, <1>5, <1>6

(* What a Resume takes from the suspended list is not over.                *)
LEMMA UnlinkedIsAlive ==
  ASSUME IInv, KeptInv, NEW k \in Callers, ResumeThread(k),
           NEW u \in terminated \cup terminatePending
  PROVE  Settled(u)'
<1>1. ResumeRegime
  BY DEF ResumeThread, At, KeptInv, EndRegime
<1>2. u \in Threads /\ u \in terminated /\ fiber[u] \in {"exiting", "exited", "crashed"}
      /\ UNCHANGED <<fiber, running>>
  BY <1>1 DEF ResumeRegime, IInv, TypeInv, LifeType, ResumeThread, cpuVars, ownVars
<1>3. CASE fiber[u] = "exiting"
  <2>1. u \in running
    BY <1>1, <1>2, <1>3, Owning DEF ResumeRegime
  <2> QED BY <1>2, <2>1 DEF Settled
<1>4. CASE fiber[u] # "exiting"
  BY <1>2, <1>4 DEF Settled, Dead
<1> QED BY <1>3, <1>4

(* Every step keeps what is terminated settled or in the hands of its      *)
(* terminate.                                                              *)
LEMMA EndsKept ==
  ASSUME NoSelfResume, ResumesApart, plan \in Plans, IInv, IInv', KeptInv, Next
  PROVE  Ends'
<1>0. /\ CallType /\ LifeType /\ Ends /\ (\A u \in Threads : Stays(u))
           /\ ("resume" \in plan.calls => ResumeRegime)
                /\ ("resume" \notin plan.calls => EndRegime)
  BY SettledIsKept DEF KeptInv, IInv, TypeInv
<1>a. \A c \in Cpus : loop[c] \in {"picked", "settled", "migrate", "fiber", "back"}
          => next[c] \in Threads /\ next[c] \in running
  BY Owning
<1>b. \A k \in Callers : call[k].pc \in {"terminate", "reclaim"} => call[k].t \in Threads
  BY DEF IInv, RefInv, ThreadCallPcs
<1>1. ASSUME NEW k \in Callers, NEW t \in Threads, NEW c \in Cpus, NEW p \in Levels,
               NEW b \in BOOLEAN, Create(k, t, c, p, b)
      PROVE  Ends'
  BY <1>0, <1>1, EndsRest DEF Create, Begin, cpuVars, listVars, lifeVars, loopVars,
     ownVars, At, Reaping, CallType
<1>2. ASSUME NEW k \in Callers, NEW t \in Threads, Resume(k, t)
      PROVE  Ends'
  BY <1>0, <1>a, <1>b, <1>2, EndsRest DEF Resume, Begin, At, ResumesFrom, Exists,
     cpuVars, listVars, lifeVars, loopVars, ownVars, Reaping, CallType
<1>3. ASSUME NEW k \in Callers, NEW t \in Threads, Suspend(k, t)
      PROVE  Ends'
  BY <1>0, <1>a, <1>b, <1>3, EndsRest DEF Suspend, cpuVars, listVars, lifeVars,
     loopVars, ownVars, Reaping, CallType
<1>4. ASSUME NEW k \in Callers, NEW t \in Threads, Terminate(k, t)
      PROVE  Ends'
  <2>1. call[k].pc = "idle" /\ (\A j \in Callers : j # k => call'[j] = call[j])
          /\ call'[k].pc = "terminate" /\ call'[k].t = t
    BY <1>0, <1>4 DEF Terminate, At, Begin, CallType
  <2>2. ASSUME NEW u \in terminated \cup terminatePending
        PROVE  Settled(u)' \/ Pending(u, Reaping)'
    <3>1. u \in Threads /\ Stays(u) /\ (Settled(u) \/ Pending(u, Reaping))
      BY <1>0, <2>2 DEF Ends, LifeType
    <3>2. CASE Settled(u)
      BY <2>1, <3>1, <3>2 DEF Stays, Pending, Reaping
    <3>3. CASE Pending(u, Reaping)
      BY <2>1, <3>1, <3>3 DEF Pending, Reaping
    <3> QED BY <3>1, <3>2, <3>3
  <2>3. terminated' = terminated \cup {t} /\ terminatePending' = terminatePending
    BY <1>4 DEF Terminate
  <2>4. Pending(t, Reaping)'
    BY <2>1 DEF Pending, Reaping
  <2> QED BY <2>2, <2>3, <2>4 DEF Ends
<1>5. ASSUME NEW k \in Callers, NEW t \in Threads, NEW c \in Cpus, SetActiveCpu(k, t, c)
      PROVE  Ends'
  BY <1>0, <1>a, <1>b, <1>5, EndsRest DEF SetActiveCpu, Begin, At, cpuVars, listVars,
     lifeVars, loopVars, ownVars, Reaping, CallType
<1>6. ASSUME NEW k \in Callers, NEW t \in Threads, NEW p \in Levels, PublishPriority(k, t, p)
      PROVE  Ends'
  BY <1>0, <1>a, <1>b, <1>6, EndsRest DEF PublishPriority, Begin, At, cpuVars,
     listVars, lifeVars, loopVars, ownVars, Reaping, CallType
<1>7. ASSUME NEW k \in Callers, NEW o \in Objects, Signal(k, o)
      PROVE  Ends'
  BY <1>0, <1>a, <1>b, <1>7, EndsRest DEF Signal, Begin, At, cpuVars, listVars,
     stateVars, lifeVars, loopVars, ownVars, Reaping, CallType
<1>8. ASSUME NEW k \in Callers, BeginWakeAll(k)
      PROVE  Ends'
  BY <1>0, <1>a, <1>b, <1>8, EndsRest DEF BeginWakeAll, Begin, At, threadVars,
     cpuVars, loopVars, listVars, stateVars, lifeVars, ownVars, Reaping, CallType
<1>9. ASSUME NEW k \in Callers, NEW C \in SUBSET BackgroundCpus, EnterBackgroundMode(k, C)
      PROVE  Ends'
  BY <1>0, <1>a, <1>b, <1>9, EndsRest DEF EnterBackgroundMode, threadVars, ownVars,
     loopVars, listVars, stateVars, lifeVars, Reaping, CallType
<1>10. ASSUME NEW k \in Callers, ResumeThread(k)
      PROVE  Ends'
  <2>1. terminated' = terminated /\ terminatePending' = terminatePending
    BY <1>10 DEF ResumeThread, lifeVars
  <2> QED BY <1>10, <2>1, UnlinkedIsAlive DEF Ends
<1>11. ASSUME NEW k \in Callers, MarkReady(k)
      PROVE  Ends'
  BY <1>0, <1>a, <1>b, <1>11, EndsRest DEF MarkReady, Begin, At, Return, threadVars,
     cpuVars, loopVars, listVars, stateVars, lifeVars, ownVars, Reaping, CallType
<1>12. ASSUME NEW k \in Callers, EnqueueReady(k)
      PROVE  Ends'
  BY <1>0, <1>a, <1>b, <1>12, EndsRest DEF EnqueueReady, At, Return, LockFree,
     LeftAlone, LinkAtTurn, LinkReadyLocked, WakeAndReturn, cpuVars, stateVars, lifeVars,
     loopVars, ownVars, Reaping, CallType
<1>13. ASSUME NEW k \in Callers, TerminateThread(k)
      PROVE  Ends'
  <2>0. PICK t : t = call[k].t
    OBVIOUS
  <2>1. /\ Settled(t)' \/ Pending(t, {"reclaim"})'
        /\ call[k].pc = "terminate" /\ t \in Threads
        /\ terminatePending' = terminatePending \cup {t} /\ terminated' = terminated
        /\ \A j \in Callers : j # k => call'[j] = call[j]
    BY <1>0, <1>13, <2>0, TerminateSettles
  <2>2. ASSUME NEW u \in terminated \cup terminatePending, u # t
        PROVE  Settled(u)' \/ Pending(u, Reaping)'
    <3>1. u \in Threads /\ Stays(u) /\ (Settled(u) \/ Pending(u, Reaping))
      BY <1>0, <2>2 DEF Ends, LifeType
    <3>2. CASE Settled(u)
      BY <2>1, <3>1, <3>2 DEF Stays, Pending, Reaping
    <3>3. CASE Pending(u, Reaping)
      BY <2>0, <2>1, <2>2, <3>1, <3>3 DEF Pending, Reaping
    <3> QED BY <3>1, <3>2, <3>3
  <2>3. Settled(t)' \/ Pending(t, Reaping)'
    BY <2>1 DEF Pending, Reaping
  <2> QED BY <2>1, <2>2, <2>3 DEF Ends
<1>14. ASSUME NEW k \in Callers, ReclaimTerminated(k)
      PROVE  Ends'
  <2>0. PICK t : t = call[k].t
    OBVIOUS
  <2>1. call[k].pc = "reclaim" /\ (\A j \in Callers : j # k => call'[j] = call[j])
          /\ reclaimed' = reclaimed \cup {t}
    BY <1>0, <1>14, <2>0 DEF ReclaimTerminated, At, Return, CallType
  <2>2. ASSUME NEW u \in terminated \cup terminatePending, u # t
        PROVE  Settled(u)' \/ Pending(u, Reaping)'
    <3>1. u \in Threads /\ Stays(u) /\ (Settled(u) \/ Pending(u, Reaping))
      BY <1>0, <2>2 DEF Ends, LifeType
    <3>2. CASE Settled(u)
      BY <2>1, <3>1, <3>2 DEF Stays, Pending, Reaping
    <3>3. CASE Pending(u, Reaping)
      BY <2>0, <2>1, <2>2, <3>1, <3>3 DEF Pending, Reaping
    <3> QED BY <3>1, <3>2, <3>3
  <2>3. terminated' = terminated /\ terminatePending' = terminatePending
    BY <1>14 DEF ReclaimTerminated
  <2>4. Settled(t)'
    BY <2>1 DEF Settled
  <2> QED BY <2>2, <2>3, <2>4 DEF Ends
<1>15. ASSUME NEW k \in Callers, MigrateForAffinity(k)
      PROVE  Ends'
  BY <1>0, <1>a, <1>b, <1>15, EndsRest DEF MigrateForAffinity, At, Return, LockFree,
     LinkAtTurn, LinkReadyLocked, WakeAndReturn, stateVars, lifeVars, ownVars, loopVars,
     Reaping, CallType
<1>16. ASSUME NEW k \in Callers, RequeueForPriority(k)
      PROVE  Ends'
  BY <1>0, <1>a, <1>b, <1>16, EndsRest DEF RequeueForPriority, At, Return, LockFree,
     LinkReadyLocked, cpuVars, stateVars, lifeVars, loopVars, ownVars, Reaping, CallType
<1>17. ASSUME NEW k \in Callers, SignalCheck(k)
      PROVE  Ends'
  BY <1>0, <1>a, <1>b, <1>17, EndsRest DEF SignalCheck, AnyBlocked, At, Begin, Return,
     threadVars, cpuVars, loopVars, listVars, stateVars, lifeVars, ownVars, Reaping,
     CallType
<1>18. ASSUME NEW k \in Callers, WakeForSignal(k)
      PROVE  Ends'
  BY <1>0, <1>a, <1>b, <1>18, EndsRest DEF WakeForSignal, At, LockFree, WakeAndReturn,
     cpuVars, listVars, stateVars, lifeVars, loopVars, ownVars, Reaping, CallType
<1>19. ASSUME NEW k \in Callers, WakeAllCheck(k)
      PROVE  Ends'
  BY <1>0, <1>a, <1>b, <1>19, EndsRest DEF WakeAllCheck, AnyBlocked, At, Begin,
     Return, threadVars, cpuVars, loopVars, listVars, stateVars, lifeVars, ownVars,
     Reaping, CallType
<1>20. ASSUME NEW k \in Callers, WakeAll(k)
      PROVE  Ends'
  BY <1>0, <1>a, <1>b, <1>20, EndsRest DEF WakeAll, At, LockFree, WakeAndReturn,
     cpuVars, listVars, stateVars, lifeVars, loopVars, ownVars, Reaping, CallType
<1>21. ASSUME NEW k \in Callers, NEW c \in Cpus, Wake(k, c)
      PROVE  Ends'
  BY <1>0, <1>a, <1>b, <1>21, EndsRest DEF Wake, At, WakeAndReturn, threadVars,
     ownVars, loopVars, listVars, stateVars, lifeVars, Reaping, CallType
<1>22. ASSUME NEW c \in Cpus, Yield(c)
      PROVE  Ends'
  BY <1>0, <1>a, <1>b, <1>22, EndsRest DEF Yield, YieldCurrentThread,
     YieldLeavesAlone, ExitIfTerminated, YieldToScheduler, FiberAt, LinkAtTurn,
     LinkReadyLocked, OnCpu, LeftAlone, listVars, Reaping, CallType
<1>23. ASSUME NEW c \in Cpus, SelfSuspend(c)
      PROVE  Ends'
  BY <1>0, <1>a, <1>b, <1>23, EndsRest DEF SelfSuspend, YieldCurrentThread,
     YieldLeavesAlone, ExitIfTerminated, YieldToScheduler, FiberAt, LinkAtTurn,
     LinkReadyLocked, OnCpu, LeftAlone, listVars, Reaping, CallType
<1>24. ASSUME NEW c \in Cpus, NEW S \in SUBSET Objects, SampleEpoch(c, S)
      PROVE  Ends'
  BY <1>0, <1>a, <1>b, <1>24, EndsRest DEF SampleEpoch, OnCpu, FiberAt, StaysOnCpu,
     cpuVars, listVars, stateVars, lifeVars, loopVars, ownVars, Reaping, CallType
<1>25. ASSUME NEW c \in Cpus, Delay(c)
      PROVE  Ends'
  BY <1>0, <1>a, <1>b, <1>25, EndsRest DEF Delay, BlockCurrentThread, ParkBlocked,
     ExitIfTerminated, BlockLeavesAlone, OnCpu, FiberAt, YieldToScheduler, PokeIfMoved,
     LockFree, stateVars, Reaping, CallType
<1>26. ASSUME NEW c \in Cpus, BlockUngated(c)
      PROVE  Ends'
  BY <1>0, <1>a, <1>b, <1>26, EndsRest DEF BlockUngated, BlockCurrentThread,
     ParkBlocked, ExitIfTerminated, BlockLeavesAlone, OnCpu, FiberAt, YieldToScheduler,
     PokeIfMoved, LockFree, stateVars, Reaping, CallType
<1>27. ASSUME NEW c \in Cpus, WaitOnFence(c)
      PROVE  Ends'
  BY <1>0, <1>a, <1>b, <1>27, EndsRest DEF WaitOnFence, ParkBlocked, BlockLeavesAlone,
     OnCpu, FiberAt, YieldToScheduler, PokeIfMoved, LockFree, stateVars, Reaping, CallType
<1>28. ASSUME NEW c \in Cpus, ExitBegin(c)
      PROVE  Ends'
  BY <1>0, <1>a, <1>b, <1>28, EndsRest DEF ExitBegin, OnCpu, FiberAt, StaysOnCpu,
     cpuVars, listVars, stateVars, loopVars, ownVars, Reaping, CallType
<1>29. ASSUME NEW c \in Cpus, ExitYield(c)
      PROVE  Ends'
  BY <1>0, <1>a, <1>b, <1>29, EndsRest DEF ExitYield, YieldCurrentThread,
     YieldLeavesAlone, ExitIfTerminated, YieldToScheduler, FiberAt, LinkAtTurn,
     LinkReadyLocked, OnCpu, LeftAlone, listVars, Reaping, CallType
<1>30. ASSUME NEW c \in Cpus, Crash(c)
      PROVE  Ends'
  BY <1>0, <1>a, <1>b, <1>30, EndsRest DEF Crash, OnCpu, FiberAt, YieldToScheduler,
     Detach, LockFree, stateVars, Reaping, CallType
<1>31. ASSUME NEW c \in Cpus, PreemptCurrentFiber(c)
      PROVE  Ends'
  BY <1>0, <1>a, <1>b, <1>31, EndsRest DEF PreemptCurrentFiber, YieldCurrentThread,
     YieldLeavesAlone, ExitIfTerminated, YieldToScheduler, FiberAt, LinkAtTurn,
     LinkReadyLocked, OnCpu, LeftAlone, listVars, Reaping, CallType
<1>32. ASSUME NEW c \in Cpus, FiberResume(c)
      PROVE  Ends'
  BY <1>0, <1>a, <1>b, <1>32, EndsRest DEF FiberResume, OnCpu, ExitIfTerminated,
     FiberAt, YieldToScheduler, listVars, stateVars, Reaping, CallType
<1>33. ASSUME NEW c \in Cpus, PollSatisfied(c)
      PROVE  Ends'
  BY <1>0, <1>a, <1>b, <1>33, EndsRest DEF PollSatisfied, OnCpu, FiberAt, StaysOnCpu,
     cpuVars, listVars, stateVars, lifeVars, loopVars, ownVars, Reaping, CallType
<1>34. ASSUME NEW c \in Cpus, BlockOnObjects(c)
      PROVE  Ends'
  BY <1>0, <1>a, <1>b, <1>34, EndsRest DEF BlockOnObjects, BlockCurrentThread,
     ParkBlocked, ExitIfTerminated, BlockLeavesAlone, OnCpu, FiberAt, YieldToScheduler,
     PokeIfMoved, LockFree, stateVars, Reaping, CallType
<1>35. ASSUME NEW c \in Cpus, ExitEnd(c)
      PROVE  Ends'
  BY <1>0, <1>a, <1>b, <1>35, EndsRest DEF ExitEnd, OnCpu, FiberAt, YieldToScheduler,
     threadVars, listVars, stateVars, lifeVars, Reaping, CallType
<1>36. ASSUME NEW c \in Cpus, Top(c)
      PROVE  Ends'
  BY <1>0, <1>a, <1>b, <1>36, EndsRest DEF Top, Goes, cpuVars, listVars, stateVars,
     lifeVars, ownVars, Reaping, CallType
<1>37. ASSUME NEW c \in Cpus, RepollDue(c)
      PROVE  Ends'
  BY <1>0, <1>a, <1>b, <1>37, EndsRest DEF RepollDue, Goes, threadVars, cpuVars,
     listVars, stateVars, lifeVars, ownVars, Reaping, CallType
<1>38. ASSUME NEW c \in Cpus, SleepTimeout(c)
      PROVE  Ends'
  BY <1>0, <1>a, <1>b, <1>38, EndsRest DEF SleepTimeout, WakesUp, Goes, threadVars,
     ownVars, listVars, stateVars, lifeVars, Reaping, CallType
<1>39. ASSUME NEW c \in Cpus, RereadyBegin(c)
      PROVE  Ends'
  BY <1>0, <1>a, <1>b, <1>39, EndsRest DEF RereadyBegin, Goes, LockFree, cpuVars,
     listVars, stateVars, lifeVars, ownVars, Reaping, CallType
<1>40. ASSUME NEW c \in Cpus, NEW t \in Threads, KeepBlocked(c, t)
      PROVE  Ends'
  BY <1>0, <1>a, <1>b, <1>40, EndsRest DEF KeepBlocked, MayHaveResolved, Visits,
     cpuVars, listVars, stateVars, lifeVars, loopVars, ownVars, Reaping, CallType
<1>41. ASSUME NEW c \in Cpus, NEW t \in Threads, Reready(c, t)
      PROVE  Ends'
  BY <1>0, <1>a, <1>b, <1>41, EndsRest DEF Reready, LinkAtTurn, LinkReadyLocked,
     Visits, cpuVars, stateVars, lifeVars, loopVars, ownVars, Reaping, CallType
<1>42. ASSUME NEW c \in Cpus, RereadyEnd(c)
      PROVE  Ends'
  BY <1>0, <1>a, <1>b, <1>42, EndsRest DEF RereadyEnd, Goes, cpuVars, listVars,
     stateVars, lifeVars, ownVars, Reaping, CallType
<1>43. ASSUME NEW c \in Cpus, LoopWoken(c)
      PROVE  Ends'
  BY <1>0, <1>a, <1>b, <1>43, EndsRest DEF LoopWoken, Goes, threadVars, cpuVars,
     listVars, stateVars, lifeVars, ownVars, Reaping, CallType
<1>44. ASSUME NEW c \in Cpus, NEW d \in Cpus, LoopWake(c, d)
      PROVE  Ends'
  BY <1>0, <1>a, <1>b, <1>44, EndsRest DEF LoopWake, threadVars, ownVars, loopVars,
     listVars, stateVars, lifeVars, Reaping, CallType
<1>45. ASSUME NEW c \in Cpus, DequeueReady(c)
      PROVE  Ends'
  BY <1>0, <1>a, <1>b, <1>45, EndsRest DEF DequeueReady, LockFree, stateVars,
     lifeVars, Reaping, CallType
<1>46. ASSUME NEW c \in Cpus, DequeueNothing(c)
      PROVE  Ends'
  BY <1>0, <1>a, <1>b, <1>46, EndsRest DEF DequeueNothing, Goes, LockFree, threadVars,
     cpuVars, listVars, stateVars, lifeVars, ownVars, Reaping, CallType
<1>47. ASSUME NEW c \in Cpus, Picked(c)
      PROVE  Ends'
  BY <1>0, <1>a, <1>b, <1>47, EndsRest DEF Picked, threadVars, cpuVars, listVars,
     stateVars, lifeVars, ownVars, Reaping, CallType
<1>48. ASSUME NEW c \in Cpus, MigrateHome(c)
      PROVE  Ends'
  BY <1>0, <1>a, <1>b, <1>48, EndsRest DEF MigrateHome, LinkAtTurn, LinkReadyLocked,
     LockFree, stateVars, lifeVars, Reaping, CallType
<1>49. ASSUME NEW c \in Cpus, ParkSuspended(c)
      PROVE  Ends'
  BY <1>0, <1>a, <1>b, <1>49, EndsRest DEF ParkSuspended, LockFree, MustPark,
     stateVars, lifeVars, Reaping, CallType
<1>50. ASSUME NEW c \in Cpus, SwitchTo(c)
      PROVE  Ends'
  BY <1>0, <1>a, <1>b, <1>50, EndsRest DEF SwitchTo, Goes, listVars, stateVars,
     Reaping, CallType
<1>51. ASSUME NEW c \in Cpus, SwitchedBack(c)
      PROVE  Ends'
  BY <1>0, <1>a, <1>b, <1>51, EndsRest DEF SwitchedBack, AfterSwitch, threadVars,
     listVars, stateVars, lifeVars, Reaping, CallType
<1>52. ASSUME NEW c \in Cpus, ReclaimExited(c)
      PROVE  Ends'
  BY <1>0, <1>a, <1>b, <1>52, EndsRest DEF ReclaimExited, Goes, listVars, stateVars,
     Reaping, CallType
<1>53. ASSUME NEW c \in Cpus, IdleParks(c)
      PROVE  Ends'
  BY <1>0, <1>a, <1>b, <1>53, EndsRest DEF IdleParks, Goes, threadVars, ownVars,
     listVars, stateVars, lifeVars, Reaping, CallType
<1>54. ASSUME NEW c \in Cpus, IdleRechecks(c)
      PROVE  Ends'
  BY <1>0, <1>a, <1>b, <1>54, EndsRest DEF IdleRechecks, Goes, HasWork, LockFree,
     threadVars, ownVars, listVars, stateVars, lifeVars, Reaping, CallType
<1>55. ASSUME NEW c \in Cpus, SleepWoken(c)
      PROVE  Ends'
  BY <1>0, <1>a, <1>b, <1>55, EndsRest DEF SleepWoken, WakesUp, Goes, threadVars,
     ownVars, listVars, stateVars, lifeVars, Reaping, CallType
<1>56. ASSUME ShutdownBegin
      PROVE  Ends'
  BY <1>0, <1>a, <1>b, <1>56, EndsRest DEF ShutdownBegin, threadVars, cpuVars,
     loopVars, listVars, stateVars, lifeVars, ownVars, Reaping, CallType
<1>57. ASSUME NEW c \in Cpus, ShutdownNudge(c)
      PROVE  Ends'
  BY <1>0, <1>a, <1>b, <1>57, EndsRest DEF ShutdownNudge, threadVars, ownVars,
     loopVars, listVars, stateVars, lifeVars, Reaping, CallType
<1>58. ASSUME ShutdownDrain
      PROVE  Ends'
  BY <1>0, <1>a, <1>b, <1>58, EndsRest DEF ShutdownDrain, Listed, Leftovers,
     stateVars, loopVars, Reaping, CallType
<1>59. ASSUME NEW c \in Cpus, SelfResume(c) PROVE FALSE
  BY <1>59 DEF SelfResume, NoSelfResume
<1>60. \A s \in Starts : s[1] \in Threads /\ s[2] \in Cpus /\ s[3] \in Levels
  BY ConstantsAssumption
<1>61. CASE \E k \in Callers : CallStarts(k) \/ CallContinues(k)
  BY <1>61, <1>60, <1>1, <1>2, <1>3, <1>4, <1>5, <1>6, <1>7, <1>8, <1>9, <1>10, <1>11,
     <1>12, <1>13, <1>14, <1>15, <1>16, <1>17, <1>18, <1>19, <1>20, <1>21
     DEF CallStarts, CallContinues
<1>62. CASE \E c \in Cpus : GuestActs(c) \/ PreemptCurrentFiber(c) \/ FiberContinues(c)
  BY <1>62, <1>59, <1>22, <1>23, <1>24, <1>25, <1>26, <1>27, <1>28, <1>29, <1>30, <1>31,
     <1>32, <1>33, <1>34, <1>35
     DEF GuestActs, FiberContinues
<1>63. CASE \E c \in Cpus : Dispatches(c) \/ RepollDue(c) \/ SleepTimeout(c)
  BY <1>63, <1>36, <1>37, <1>38, <1>39, <1>40, <1>41, <1>42, <1>43, <1>44, <1>45, <1>46,
     <1>47, <1>48, <1>49, <1>50, <1>51, <1>52, <1>53, <1>54, <1>55
     DEF Dispatches, Walks
<1>64. CASE ShutdownActs
  BY <1>64, <1>56, <1>57, <1>58 DEF ShutdownActs
<1> QED BY <1>61, <1>62, <1>63, <1>64 DEF Next

(* What has run stays settled or about to be reclaimed.                    *)
LEMMA EndRegimeRests ==
  ASSUME KeptInv, LifeType, EndRegime, \A u \in Threads : Stays(u),
         hasRun' \subseteq hasRun \cup running',
         \A k \in Callers : call[k].pc = "reclaim" => call'[k] = call[k],
         \A k \in Callers : call'[k].pc # "unlink"
  PROVE  EndRegime'
<1>1. ASSUME NEW u \in hasRun'
      PROVE  Settled(u)' \/ Pending(u, {"reclaim"})'
  <2>1. CASE u \in running'
    BY <2>1 DEF Settled
  <2>2. CASE u \in hasRun
    <3>1. u \in Threads /\ Stays(u)
      BY <2>2 DEF LifeType
    <3>2. CASE Settled(u)
      BY <3>1, <3>2 DEF Stays, EndRegime
    <3>3. CASE Pending(u, {"reclaim"})
      BY <3>3 DEF Pending
    <3> QED BY <2>2, <3>2, <3>3 DEF EndRegime
  <2> QED BY <1>1, <2>1, <2>2
<1> QED BY <1>1 DEF EndRegime

(* No step leaves the regime of ends.                                      *)
LEMMA EndRegimeKept ==
  ASSUME NoSelfResume, ResumesApart, plan \in Plans, IInv, IInv', KeptInv, Next
  PROVE  ("resume" \notin plan.calls => EndRegime)'
<1>c. plan' = plan
  BY PlanKept
<1> SUFFICES ASSUME "resume" \notin plan.calls PROVE EndRegime'
  BY <1>c
<1>0. /\ CallType /\ LifeType /\ EndRegime /\ (\A u \in Threads : Stays(u))
           /\ (\A k \in Callers : call[k].pc # "unlink")
  BY SettledIsKept DEF KeptInv, IInv, TypeInv, EndRegime
<1>a. \A c \in Cpus : loop[c] \in {"picked", "settled", "migrate", "fiber", "back"}
          => next[c] \in Threads /\ next[c] \in running
  BY Owning
<1>1. ASSUME NEW k \in Callers, NEW t \in Threads, NEW c \in Cpus, NEW p \in Levels,
               NEW b \in BOOLEAN, Create(k, t, c, p, b)
      PROVE  EndRegime'
  BY <1>0, <1>1, EndRegimeRests DEF Create, Begin, cpuVars, listVars, lifeVars, loopVars,
     ownVars, At, CallType
<1>2. ASSUME NEW k \in Callers, NEW t \in Threads, Resume(k, t)
      PROVE  EndRegime'
  BY <1>0, <1>a, <1>2, EndRegimeRests DEF Resume, Begin, At, ResumesFrom, Exists,
     cpuVars, listVars, lifeVars, loopVars, ownVars, CallType
<1>3. ASSUME NEW k \in Callers, NEW t \in Threads, Suspend(k, t)
      PROVE  EndRegime'
  BY <1>0, <1>a, <1>3, EndRegimeRests DEF Suspend, cpuVars, listVars, lifeVars,
     loopVars, ownVars, CallType
<1>4. ASSUME NEW k \in Callers, NEW t \in Threads, Terminate(k, t)
      PROVE  EndRegime'
  BY <1>0, <1>a, <1>4, EndRegimeRests DEF Terminate, Begin, At, cpuVars, listVars,
     stateVars, loopVars, ownVars, CallType
<1>5. ASSUME NEW k \in Callers, NEW t \in Threads, NEW c \in Cpus, SetActiveCpu(k, t, c)
      PROVE  EndRegime'
  BY <1>0, <1>a, <1>5, EndRegimeRests DEF SetActiveCpu, Begin, At, cpuVars, listVars,
     lifeVars, loopVars, ownVars, CallType
<1>6. ASSUME NEW k \in Callers, NEW t \in Threads, NEW p \in Levels, PublishPriority(k, t, p)
      PROVE  EndRegime'
  BY <1>0, <1>a, <1>6, EndRegimeRests DEF PublishPriority, Begin, At, cpuVars, listVars,
     lifeVars, loopVars, ownVars, CallType
<1>7. ASSUME NEW k \in Callers, NEW o \in Objects, Signal(k, o)
      PROVE  EndRegime'
  BY <1>0, <1>a, <1>7, EndRegimeRests DEF Signal, Begin, At, cpuVars, listVars,
     stateVars, lifeVars, loopVars, ownVars, CallType
<1>8. ASSUME NEW k \in Callers, BeginWakeAll(k)
      PROVE  EndRegime'
  BY <1>0, <1>a, <1>8, EndRegimeRests DEF BeginWakeAll, Begin, At, threadVars, cpuVars,
     loopVars, listVars, stateVars, lifeVars, ownVars, CallType
<1>9. ASSUME NEW k \in Callers, NEW C \in SUBSET BackgroundCpus, EnterBackgroundMode(k, C)
      PROVE  EndRegime'
  BY <1>0, <1>a, <1>9, EndRegimeRests DEF EnterBackgroundMode, threadVars, ownVars,
     loopVars, listVars, stateVars, lifeVars, CallType
<1>10. ASSUME NEW k \in Callers, ResumeThread(k)
      PROVE  EndRegime'
  BY <1>0, <1>a, <1>10, EndRegimeRests DEF ResumeThread, Begin, At, LockFree, cpuVars,
     stateVars, lifeVars, loopVars, ownVars, CallType
<1>11. ASSUME NEW k \in Callers, MarkReady(k)
      PROVE  EndRegime'
  BY <1>0, <1>a, <1>11, EndRegimeRests DEF MarkReady, Begin, At, Return, threadVars,
     cpuVars, loopVars, listVars, stateVars, lifeVars, ownVars, CallType, Idle
<1>12. ASSUME NEW k \in Callers, EnqueueReady(k)
      PROVE  EndRegime'
  <2>1. call[k].pc = "enqueue" /\ hasRun' = hasRun
    BY <1>12 DEF EnqueueReady, At, lifeVars
  <2>2. \A j \in Callers : call'[j] = call[j] \/ (j = k /\ call'[j].pc \in {"idle", "wake"})
    BY <1>0, <1>12 DEF EnqueueReady, Return, WakeAndReturn, CallType, Idle
  <2> QED BY <1>0, <2>1, <2>2, EndRegimeRests
<1>13. ASSUME NEW k \in Callers, TerminateThread(k)
      PROVE  EndRegime'
  <2>0. PICK t : t = call[k].t
    OBVIOUS
  <2>1. call[k].pc = "terminate" /\ hasRun' = hasRun
          /\ (\A j \in Callers : j # k => call'[j] = call[j])
    BY <1>0, <1>13, <2>0, TerminateSettles
  <2>2. call'[k].pc # "unlink"
    <3>1. Return(k) \/ (\E W : WakeAndReturn(k, W)) \/ Begin(k, "reclaim", t, None)
      BY <1>13, <2>0 DEF TerminateThread, TerminateStopped, TerminateRunning,
         TerminateParked, TerminateUnlisted
    <3> QED BY <1>0, <2>1, <3>1 DEF Return, WakeAndReturn, Begin, CallType, Idle
  <2> QED BY <1>0, <2>1, <2>2, EndRegimeRests
<1>14. ASSUME NEW k \in Callers, ReclaimTerminated(k)
      PROVE  EndRegime'
  <2>0. PICK t : t = call[k].t
    OBVIOUS
  <2>1. call[k].pc = "reclaim" /\ (\A j \in Callers : j # k => call'[j] = call[j])
          /\ reclaimed' = reclaimed \cup {t}
        /\ hasRun' = hasRun /\ call'[k].pc = "idle"
    BY <1>0, <1>14, <2>0 DEF ReclaimTerminated, At, Return, CallType, Idle
  <2>2. ASSUME NEW u \in hasRun, u # t
        PROVE  Settled(u)' \/ Pending(u, {"reclaim"})'
    <3>1. u \in Threads /\ Stays(u) /\ (Settled(u) \/ Pending(u, {"reclaim"}))
      BY <1>0, <2>2 DEF EndRegime, LifeType
    <3>2. CASE Settled(u)
      BY <1>0, <3>1, <3>2 DEF Stays
    <3>3. CASE Pending(u, {"reclaim"})
      BY <2>0, <2>1, <2>2, <3>1, <3>3 DEF Pending
    <3> QED BY <3>1, <3>2, <3>3
  <2>3. Settled(t)'
    BY <2>1 DEF Settled
  <2> QED BY <1>0, <2>1, <2>2, <2>3 DEF EndRegime
<1>15. ASSUME NEW k \in Callers, MigrateForAffinity(k)
      PROVE  EndRegime'
  <2>1. call[k].pc = "migrate" /\ hasRun' = hasRun
    BY <1>15 DEF MigrateForAffinity, At, lifeVars
  <2>2. \A j \in Callers : call'[j] = call[j] \/ (j = k /\ call'[j].pc \in {"idle", "wake"})
    <3>1. Return(k) \/ \E W : WakeAndReturn(k, W)
      BY <1>15 DEF MigrateForAffinity
    <3> QED BY <1>0, <2>1, <3>1 DEF Return, WakeAndReturn, CallType, Idle
  <2> QED BY <1>0, <2>1, <2>2, EndRegimeRests
<1>16. ASSUME NEW k \in Callers, RequeueForPriority(k)
      PROVE  EndRegime'
  BY <1>0, <1>a, <1>16, EndRegimeRests DEF RequeueForPriority, At, Return, LockFree,
     LinkReadyLocked, cpuVars, stateVars, lifeVars, loopVars, ownVars, CallType, Idle
<1>17. ASSUME NEW k \in Callers, SignalCheck(k)
      PROVE  EndRegime'
  BY <1>0, <1>a, <1>17, EndRegimeRests DEF SignalCheck, AnyBlocked, At, Begin, Return,
     threadVars, cpuVars, loopVars, listVars, stateVars, lifeVars, ownVars, CallType, Idle
<1>18. ASSUME NEW k \in Callers, WakeForSignal(k)
      PROVE  EndRegime'
  BY <1>0, <1>a, <1>18, EndRegimeRests DEF WakeForSignal, At, LockFree, WakeAndReturn,
     cpuVars, listVars, stateVars, lifeVars, loopVars, ownVars, CallType, Idle
<1>19. ASSUME NEW k \in Callers, WakeAllCheck(k)
      PROVE  EndRegime'
  BY <1>0, <1>a, <1>19, EndRegimeRests DEF WakeAllCheck, AnyBlocked, At, Begin, Return,
     threadVars, cpuVars, loopVars, listVars, stateVars, lifeVars, ownVars, CallType, Idle
<1>20. ASSUME NEW k \in Callers, WakeAll(k)
      PROVE  EndRegime'
  BY <1>0, <1>a, <1>20, EndRegimeRests DEF WakeAll, At, LockFree, WakeAndReturn,
     cpuVars, listVars, stateVars, lifeVars, loopVars, ownVars, CallType, Idle
<1>21. ASSUME NEW k \in Callers, NEW c \in Cpus, Wake(k, c)
      PROVE  EndRegime'
  BY <1>0, <1>a, <1>21, EndRegimeRests DEF Wake, At, WakeAndReturn, threadVars, ownVars,
     loopVars, listVars, stateVars, lifeVars, CallType, Idle
<1>22. ASSUME NEW c \in Cpus, Yield(c)
      PROVE  EndRegime'
  BY <1>0, <1>a, <1>22, EndRegimeRests DEF Yield, YieldCurrentThread, YieldLeavesAlone,
     ExitIfTerminated, YieldToScheduler, FiberAt, LinkAtTurn, LinkReadyLocked, OnCpu,
     LeftAlone, listVars, CallType
<1>23. ASSUME NEW c \in Cpus, SelfSuspend(c)
      PROVE  EndRegime'
  BY <1>0, <1>a, <1>23, EndRegimeRests DEF SelfSuspend, YieldCurrentThread,
     YieldLeavesAlone, ExitIfTerminated, YieldToScheduler, FiberAt, LinkAtTurn,
     LinkReadyLocked, OnCpu, LeftAlone, listVars, CallType
<1>24. ASSUME NEW c \in Cpus, NEW S \in SUBSET Objects, SampleEpoch(c, S)
      PROVE  EndRegime'
  BY <1>0, <1>a, <1>24, EndRegimeRests DEF SampleEpoch, OnCpu, FiberAt, StaysOnCpu,
     cpuVars, listVars, stateVars, lifeVars, loopVars, ownVars, CallType
<1>25. ASSUME NEW c \in Cpus, Delay(c)
      PROVE  EndRegime'
  BY <1>0, <1>a, <1>25, EndRegimeRests DEF Delay, BlockCurrentThread, ParkBlocked,
     ExitIfTerminated, BlockLeavesAlone, OnCpu, FiberAt, YieldToScheduler, PokeIfMoved,
     LockFree, stateVars, CallType
<1>26. ASSUME NEW c \in Cpus, BlockUngated(c)
      PROVE  EndRegime'
  BY <1>0, <1>a, <1>26, EndRegimeRests DEF BlockUngated, BlockCurrentThread,
     ParkBlocked, ExitIfTerminated, BlockLeavesAlone, OnCpu, FiberAt, YieldToScheduler,
     PokeIfMoved, LockFree, stateVars, CallType
<1>27. ASSUME NEW c \in Cpus, WaitOnFence(c)
      PROVE  EndRegime'
  BY <1>0, <1>a, <1>27, EndRegimeRests DEF WaitOnFence, ParkBlocked, BlockLeavesAlone,
     OnCpu, FiberAt, YieldToScheduler, PokeIfMoved, LockFree, stateVars, CallType
<1>28. ASSUME NEW c \in Cpus, ExitBegin(c)
      PROVE  EndRegime'
  BY <1>0, <1>a, <1>28, EndRegimeRests DEF ExitBegin, OnCpu, FiberAt, StaysOnCpu,
     cpuVars, listVars, stateVars, loopVars, ownVars, CallType
<1>29. ASSUME NEW c \in Cpus, ExitYield(c)
      PROVE  EndRegime'
  BY <1>0, <1>a, <1>29, EndRegimeRests DEF ExitYield, YieldCurrentThread,
     YieldLeavesAlone, ExitIfTerminated, YieldToScheduler, FiberAt, LinkAtTurn,
     LinkReadyLocked, OnCpu, LeftAlone, listVars, CallType
<1>30. ASSUME NEW c \in Cpus, Crash(c)
      PROVE  EndRegime'
  BY <1>0, <1>a, <1>30, EndRegimeRests DEF Crash, OnCpu, FiberAt, YieldToScheduler,
     Detach, LockFree, stateVars, CallType
<1>31. ASSUME NEW c \in Cpus, PreemptCurrentFiber(c)
      PROVE  EndRegime'
  BY <1>0, <1>a, <1>31, EndRegimeRests DEF PreemptCurrentFiber, YieldCurrentThread,
     YieldLeavesAlone, ExitIfTerminated, YieldToScheduler, FiberAt, LinkAtTurn,
     LinkReadyLocked, OnCpu, LeftAlone, listVars, CallType
<1>32. ASSUME NEW c \in Cpus, FiberResume(c)
      PROVE  EndRegime'
  BY <1>0, <1>a, <1>32, EndRegimeRests DEF FiberResume, OnCpu, ExitIfTerminated,
     FiberAt, YieldToScheduler, listVars, stateVars, CallType
<1>33. ASSUME NEW c \in Cpus, PollSatisfied(c)
      PROVE  EndRegime'
  BY <1>0, <1>a, <1>33, EndRegimeRests DEF PollSatisfied, OnCpu, FiberAt, StaysOnCpu,
     cpuVars, listVars, stateVars, lifeVars, loopVars, ownVars, CallType
<1>34. ASSUME NEW c \in Cpus, BlockOnObjects(c)
      PROVE  EndRegime'
  BY <1>0, <1>a, <1>34, EndRegimeRests DEF BlockOnObjects, BlockCurrentThread,
     ParkBlocked, ExitIfTerminated, BlockLeavesAlone, OnCpu, FiberAt, YieldToScheduler,
     PokeIfMoved, LockFree, stateVars, CallType
<1>35. ASSUME NEW c \in Cpus, ExitEnd(c)
      PROVE  EndRegime'
  BY <1>0, <1>a, <1>35, EndRegimeRests DEF ExitEnd, OnCpu, FiberAt, YieldToScheduler,
     threadVars, listVars, stateVars, lifeVars, CallType
<1>36. ASSUME NEW c \in Cpus, Top(c)
      PROVE  EndRegime'
  BY <1>0, <1>a, <1>36, EndRegimeRests DEF Top, Goes, cpuVars, listVars, stateVars,
     lifeVars, ownVars, CallType
<1>37. ASSUME NEW c \in Cpus, RepollDue(c)
      PROVE  EndRegime'
  BY <1>0, <1>a, <1>37, EndRegimeRests DEF RepollDue, Goes, threadVars, cpuVars,
     listVars, stateVars, lifeVars, ownVars, CallType
<1>38. ASSUME NEW c \in Cpus, SleepTimeout(c)
      PROVE  EndRegime'
  BY <1>0, <1>a, <1>38, EndRegimeRests DEF SleepTimeout, WakesUp, Goes, threadVars,
     ownVars, listVars, stateVars, lifeVars, CallType
<1>39. ASSUME NEW c \in Cpus, RereadyBegin(c)
      PROVE  EndRegime'
  BY <1>0, <1>a, <1>39, EndRegimeRests DEF RereadyBegin, Goes, LockFree, cpuVars,
     listVars, stateVars, lifeVars, ownVars, CallType
<1>40. ASSUME NEW c \in Cpus, NEW t \in Threads, KeepBlocked(c, t)
      PROVE  EndRegime'
  BY <1>0, <1>a, <1>40, EndRegimeRests DEF KeepBlocked, MayHaveResolved, Visits,
     cpuVars, listVars, stateVars, lifeVars, loopVars, ownVars, CallType
<1>41. ASSUME NEW c \in Cpus, NEW t \in Threads, Reready(c, t)
      PROVE  EndRegime'
  BY <1>0, <1>a, <1>41, EndRegimeRests DEF Reready, LinkAtTurn, LinkReadyLocked, Visits,
     cpuVars, stateVars, lifeVars, loopVars, ownVars, CallType
<1>42. ASSUME NEW c \in Cpus, RereadyEnd(c)
      PROVE  EndRegime'
  BY <1>0, <1>a, <1>42, EndRegimeRests DEF RereadyEnd, Goes, cpuVars, listVars,
     stateVars, lifeVars, ownVars, CallType
<1>43. ASSUME NEW c \in Cpus, LoopWoken(c)
      PROVE  EndRegime'
  BY <1>0, <1>a, <1>43, EndRegimeRests DEF LoopWoken, Goes, threadVars, cpuVars,
     listVars, stateVars, lifeVars, ownVars, CallType
<1>44. ASSUME NEW c \in Cpus, NEW d \in Cpus, LoopWake(c, d)
      PROVE  EndRegime'
  BY <1>0, <1>a, <1>44, EndRegimeRests DEF LoopWake, threadVars, ownVars, loopVars,
     listVars, stateVars, lifeVars, CallType
<1>45. ASSUME NEW c \in Cpus, DequeueReady(c)
      PROVE  EndRegime'
  BY <1>0, <1>a, <1>45, EndRegimeRests DEF DequeueReady, LockFree, stateVars, lifeVars,
     CallType
<1>46. ASSUME NEW c \in Cpus, DequeueNothing(c)
      PROVE  EndRegime'
  BY <1>0, <1>a, <1>46, EndRegimeRests DEF DequeueNothing, Goes, LockFree, threadVars,
     cpuVars, listVars, stateVars, lifeVars, ownVars, CallType
<1>47. ASSUME NEW c \in Cpus, Picked(c)
      PROVE  EndRegime'
  BY <1>0, <1>a, <1>47, EndRegimeRests DEF Picked, threadVars, cpuVars, listVars,
     stateVars, lifeVars, ownVars, CallType
<1>48. ASSUME NEW c \in Cpus, MigrateHome(c)
      PROVE  EndRegime'
  BY <1>0, <1>a, <1>48, EndRegimeRests DEF MigrateHome, LinkAtTurn, LinkReadyLocked,
     LockFree, stateVars, lifeVars, CallType
<1>49. ASSUME NEW c \in Cpus, ParkSuspended(c)
      PROVE  EndRegime'
  BY <1>0, <1>a, <1>49, EndRegimeRests DEF ParkSuspended, LockFree, MustPark, stateVars,
     lifeVars, CallType
<1>50. ASSUME NEW c \in Cpus, SwitchTo(c)
      PROVE  EndRegime'
  BY <1>0, <1>a, <1>50, EndRegimeRests DEF SwitchTo, Goes, listVars, stateVars, CallType
<1>51. ASSUME NEW c \in Cpus, SwitchedBack(c)
      PROVE  EndRegime'
  BY <1>0, <1>a, <1>51, EndRegimeRests DEF SwitchedBack, AfterSwitch, threadVars,
     listVars, stateVars, lifeVars, CallType
<1>52. ASSUME NEW c \in Cpus, ReclaimExited(c)
      PROVE  EndRegime'
  BY <1>0, <1>a, <1>52, EndRegimeRests DEF ReclaimExited, Goes, listVars, stateVars,
     CallType
<1>53. ASSUME NEW c \in Cpus, IdleParks(c)
      PROVE  EndRegime'
  BY <1>0, <1>a, <1>53, EndRegimeRests DEF IdleParks, Goes, threadVars, ownVars,
     listVars, stateVars, lifeVars, CallType
<1>54. ASSUME NEW c \in Cpus, IdleRechecks(c)
      PROVE  EndRegime'
  BY <1>0, <1>a, <1>54, EndRegimeRests DEF IdleRechecks, Goes, HasWork, LockFree,
     threadVars, ownVars, listVars, stateVars, lifeVars, CallType
<1>55. ASSUME NEW c \in Cpus, SleepWoken(c)
      PROVE  EndRegime'
  BY <1>0, <1>a, <1>55, EndRegimeRests DEF SleepWoken, WakesUp, Goes, threadVars,
     ownVars, listVars, stateVars, lifeVars, CallType
<1>56. ASSUME ShutdownBegin
      PROVE  EndRegime'
  BY <1>0, <1>a, <1>56, EndRegimeRests DEF ShutdownBegin, threadVars, cpuVars, loopVars,
     listVars, stateVars, lifeVars, ownVars, CallType
<1>57. ASSUME NEW c \in Cpus, ShutdownNudge(c)
      PROVE  EndRegime'
  BY <1>0, <1>a, <1>57, EndRegimeRests DEF ShutdownNudge, threadVars, ownVars, loopVars,
     listVars, stateVars, lifeVars, CallType
<1>58. ASSUME ShutdownDrain
      PROVE  EndRegime'
  BY <1>0, <1>a, <1>58, EndRegimeRests DEF ShutdownDrain, Listed, Leftovers, stateVars,
     loopVars, CallType
<1>59. ASSUME NEW c \in Cpus, SelfResume(c) PROVE FALSE
  BY <1>59 DEF SelfResume, NoSelfResume
<1>60. \A s \in Starts : s[1] \in Threads /\ s[2] \in Cpus /\ s[3] \in Levels
  BY ConstantsAssumption
<1>61. CASE \E k \in Callers : CallStarts(k) \/ CallContinues(k)
  BY <1>61, <1>60, <1>1, <1>2, <1>3, <1>4, <1>5, <1>6, <1>7, <1>8, <1>9, <1>10, <1>11,
     <1>12, <1>13, <1>14, <1>15, <1>16, <1>17, <1>18, <1>19, <1>20, <1>21
     DEF CallStarts, CallContinues
<1>62. CASE \E c \in Cpus : GuestActs(c) \/ PreemptCurrentFiber(c) \/ FiberContinues(c)
  BY <1>62, <1>59, <1>22, <1>23, <1>24, <1>25, <1>26, <1>27, <1>28, <1>29, <1>30, <1>31,
     <1>32, <1>33, <1>34, <1>35
     DEF GuestActs, FiberContinues
<1>63. CASE \E c \in Cpus : Dispatches(c) \/ RepollDue(c) \/ SleepTimeout(c)
  BY <1>63, <1>36, <1>37, <1>38, <1>39, <1>40, <1>41, <1>42, <1>43, <1>44, <1>45, <1>46,
     <1>47, <1>48, <1>49, <1>50, <1>51, <1>52, <1>53, <1>54, <1>55
     DEF Dispatches, Walks
<1>64. CASE ShutdownActs
  BY <1>64, <1>56, <1>57, <1>58 DEF ShutdownActs
<1> QED BY <1>61, <1>62, <1>63, <1>64 DEF Next

(* No thread falls out while no call on one ends that leaves it nowhere.   *)
LEMMA PlacedRests ==
  ASSUME KeptInv, \A u \in Threads : Stays(u),
         \A u \in Threads : Exists(u)' => Exists(u),
         \A u \in Threads : Unstarted(u) => Unstarted(u)' \/ u \in running'
           \/ Pending(u, Readying \cup Reaping)',
         \A k \in Callers : call[k].pc \in Readying \cup Reaping => call'[k] = call[k]
  PROVE  Placed'
<1> SUFFICES ASSUME NEW u \in Threads, Exists(u)'
             PROVE  Settled(u)' \/ Unstarted(u)' \/ Pending(u, Readying \cup Reaping)'
  BY DEF Placed
<1>1. Stays(u) /\ (Settled(u) \/ Unstarted(u) \/ Pending(u, Readying \cup Reaping))
  BY DEF KeptInv, Placed
<1>2. CASE Settled(u)
  BY <1>1, <1>2 DEF Stays, Pending, Readying, Reaping
<1>3. CASE Unstarted(u)
  BY <1>3 DEF Settled
<1>4. CASE Pending(u, Readying \cup Reaping)
  BY <1>4 DEF Pending
<1> QED BY <1>1, <1>2, <1>3, <1>4

(* The same, while the call of k on t goes on or ends.                     *)
LEMMA PlacedMoves ==
  ASSUME KeptInv, \A u \in Threads : Stays(u), NEW k \in Callers, NEW t,
         call[k].pc \in Readying \cup Reaping => call[k].t = t,
         \A u \in Threads : Exists(u)' /\ u # t => Exists(u),
         \A u \in Threads : Unstarted(u) /\ u # t => Unstarted(u)',
         \A j \in Callers : j # k => call'[j] = call[j],
         t \in Threads /\ Exists(t)' => Settled(t)' \/ Unstarted(t)'
           \/ Pending(t, Readying \cup Reaping)'
  PROVE  Placed'
<1> SUFFICES ASSUME NEW u \in Threads, Exists(u)', u # t
             PROVE  Settled(u)' \/ Unstarted(u)' \/ Pending(u, Readying \cup Reaping)'
  BY DEF Placed
<1>1. Stays(u) /\ (Settled(u) \/ Unstarted(u) \/ Pending(u, Readying \cup Reaping))
  BY DEF KeptInv, Placed
<1>2. CASE Settled(u)
  BY <1>1, <1>2 DEF Stays, Pending, Readying, Reaping
<1>4. CASE Pending(u, Readying \cup Reaping)
  BY <1>4 DEF Pending
<1> QED BY <1>1, <1>2, <1>4

(* Every step leaves every thread settled, not started, or in the hands of *)
(* a call.                                                                 *)
LEMMA PlacedIsKept ==
  ASSUME NoSelfResume, ResumesApart, plan \in Plans, IInv, IInv', KeptInv, Next
  PROVE  Placed'
<1>0. /\ CallType /\ LifeType /\ StateType /\ FiberType /\ LoopType /\ Ends /\ RanExists
           /\ (\A u \in Threads : Stays(u))
  BY SettledIsKept DEF KeptInv, IInv, TypeInv
<1>a. \A c \in Cpus : loop[c] \in {"picked", "settled", "migrate", "fiber", "back"}
          => next[c] \in Threads /\ next[c] \in running /\ Exists(next[c])
  BY Owning
<1>b. \A k \in Callers : call[k].pc \in {"unlink", "markReady", "enqueue", "terminate",
          "reclaim"} => call[k].t \in Threads
  BY DEF IInv, RefInv, ThreadCallPcs
<1>1. ASSUME NEW k \in Callers, NEW t \in Threads, NEW c \in Cpus, NEW p \in Levels,
               NEW b \in BOOLEAN, Create(k, t, c, p, b)
      PROVE  Placed'
  <2>1. /\ call[k].pc = "idle" /\ fiber[t] = "none" /\ fiber' = [fiber EXCEPT ![t] = "new"]
        /\ suspendCount' = [suspendCount EXCEPT ![t] = IF b THEN 1 ELSE 0]
        /\ UNCHANGED <<hasRun, terminatePending>>
    BY <1>1 DEF Create, At, Exists, lifeVars
  <2>2. (\A j \in Callers : j # k => call'[j] = call[j])
          /\ (b \/ (call'[k].pc = "markReady" /\ call'[k].t = t))
    BY <1>0, <1>1 DEF Create, Begin, CallType
  <2>3. Unstarted(t)' \/ Pending(t, Readying)'
    <3>1. t \notin hasRun \cup terminatePending
      BY <1>0, <2>1 DEF RanExists, Exists
    <3>2. fiber'[t] = "new" /\ (b => suspendCount'[t] = 1)
      BY <1>0, <2>1 DEF FiberType, StateType
    <3> QED BY <2>1, <2>2, <3>1, <3>2 DEF Unstarted, Pending, Readying
  <2>4. \A u \in Threads : u # t => (Exists(u)' <=> Exists(u))
          /\ (Unstarted(u)' <=> Unstarted(u))
    BY <1>0, <2>1 DEF Exists, Unstarted, FiberType, StateType
  <2> QED BY <1>0, <2>1, <2>2, <2>3, <2>4, PlacedMoves DEF Readying, Reaping, Pending
<1>2. ASSUME NEW k \in Callers, NEW t \in Threads, Resume(k, t)
      PROVE  Placed'
  BY <1>0, <1>a, <1>b, <1>2, PlacedRests DEF Resume, Begin, At, ResumesFrom, Exists,
     cpuVars, listVars, lifeVars, loopVars, ownVars, At, Exists, Unstarted, Pending,
     Readying, Reaping, CallType, LifeType, StateType, FiberType, LoopType
<1>3. ASSUME NEW k \in Callers, NEW t \in Threads, Suspend(k, t)
      PROVE  Placed'
  BY <1>0, <1>a, <1>b, <1>3, PlacedRests DEF Suspend, cpuVars, listVars, lifeVars,
     loopVars, ownVars, At, Exists, Unstarted, Pending, Readying, Reaping, CallType,
     LifeType, StateType, FiberType, LoopType
<1>4. ASSUME NEW k \in Callers, NEW t \in Threads, Terminate(k, t)
      PROVE  Placed'
  BY <1>0, <1>a, <1>b, <1>4, PlacedRests DEF Terminate, Begin, At, cpuVars, listVars,
     stateVars, loopVars, ownVars, At, Exists, Unstarted, Pending, Readying, Reaping,
     CallType, LifeType, StateType, FiberType, LoopType
<1>5. ASSUME NEW k \in Callers, NEW t \in Threads, NEW c \in Cpus, SetActiveCpu(k, t, c)
      PROVE  Placed'
  BY <1>0, <1>a, <1>b, <1>5, PlacedRests DEF SetActiveCpu, Begin, At, cpuVars,
     listVars, lifeVars, loopVars, ownVars, At, Exists, Unstarted, Pending, Readying,
     Reaping, CallType, LifeType, StateType, FiberType, LoopType
<1>6. ASSUME NEW k \in Callers, NEW t \in Threads, NEW p \in Levels, PublishPriority(k, t, p)
      PROVE  Placed'
  BY <1>0, <1>a, <1>b, <1>6, PlacedRests DEF PublishPriority, Begin, At, cpuVars,
     listVars, lifeVars, loopVars, ownVars, At, Exists, Unstarted, Pending, Readying,
     Reaping, CallType, LifeType, StateType, FiberType, LoopType
<1>7. ASSUME NEW k \in Callers, NEW o \in Objects, Signal(k, o)
      PROVE  Placed'
  BY <1>0, <1>a, <1>b, <1>7, PlacedRests DEF Signal, Begin, At, cpuVars, listVars,
     stateVars, lifeVars, loopVars, ownVars, At, Exists, Unstarted, Pending, Readying,
     Reaping, CallType, LifeType, StateType, FiberType, LoopType
<1>8. ASSUME NEW k \in Callers, BeginWakeAll(k)
      PROVE  Placed'
  BY <1>0, <1>a, <1>b, <1>8, PlacedRests DEF BeginWakeAll, Begin, At, threadVars,
     cpuVars, loopVars, listVars, stateVars, lifeVars, ownVars, At, Exists, Unstarted,
     Pending, Readying, Reaping, CallType, LifeType, StateType, FiberType, LoopType
<1>9. ASSUME NEW k \in Callers, NEW C \in SUBSET BackgroundCpus, EnterBackgroundMode(k, C)
      PROVE  Placed'
  BY <1>0, <1>a, <1>b, <1>9, PlacedRests DEF EnterBackgroundMode, threadVars, ownVars,
     loopVars, listVars, stateVars, lifeVars, At, Exists, Unstarted, Pending, Readying,
     Reaping, CallType, LifeType, StateType, FiberType, LoopType
<1>10. ASSUME NEW k \in Callers, ResumeThread(k)
      PROVE  Placed'
  <2>0. PICK t : t = call[k].t
    OBVIOUS
  <2>1. \A j \in Callers : j # k => call'[j] = call[j]
    BY <1>0, <1>10, <2>0 DEF ResumeThread, Begin, CallType
  <2>2. \A u \in Threads : u # t => (Exists(u)' <=> Exists(u))
          /\ (Unstarted(u) => Unstarted(u)')
    BY <1>0, <1>10, <2>0 DEF ResumeThread, Exists, Unstarted, stateVars, lifeVars
  <2>3. Pending(t, Readying)'
    BY <1>0, <1>10, <2>0 DEF ResumeThread, Begin, Pending, Readying, CallType
  <2> QED BY <1>0, <2>0, <2>1, <2>2, <2>3, PlacedMoves DEF Readying, Reaping, Pending
<1>11. ASSUME NEW k \in Callers, MarkReady(k)
      PROVE  Placed'
  <2>0. PICK t : t = call[k].t
    OBVIOUS
  <2>1. \A j \in Callers : j # k => call'[j] = call[j]
    BY <1>0, <1>11, <2>0 DEF MarkReady, Begin, Return, CallType
  <2>2. \A u \in Threads : u # t => (Exists(u)' <=> Exists(u))
          /\ (Unstarted(u) => Unstarted(u)')
    BY <1>0, <1>11, <2>0 DEF MarkReady, Exists, Unstarted, stateVars, lifeVars, threadVars
  <2>3. Settled(t)' \/ Pending(t, Readying \cup Reaping)'
    <3>1. CASE t \notin terminated
      BY <1>0, <1>11, <2>0, <3>1 DEF MarkReady, Begin, Pending, Readying, CallType
    <3>2. CASE t \in terminated
      <4>1. t \in Threads /\ Stays(t) /\ (Settled(t) \/ Pending(t, Reaping))
              /\ call[k].pc = "markReady"
        BY <1>0, <1>11, <3>2 DEF Ends, LifeType, MarkReady, At
      <4>2. CASE Settled(t)
        BY <2>0, <2>1, <4>1, <4>2 DEF Stays, Pending, Readying, Reaping
      <4>3. CASE Pending(t, Reaping)
        BY <2>1, <4>1, <4>3 DEF Pending, Reaping
      <4> QED BY <4>1, <4>2, <4>3
    <3> QED BY <3>1, <3>2
  <2> QED BY <1>0, <2>0, <2>1, <2>2, <2>3, PlacedMoves DEF Readying, Reaping, Pending
<1>12. ASSUME NEW k \in Callers, EnqueueReady(k)
      PROVE  Placed'
  <2>0. PICK t : t = call[k].t
    OBVIOUS
  <2>1. \A j \in Callers : j # k => call'[j] = call[j]
    BY <1>0, <1>12, <2>0 DEF EnqueueReady, Return, WakeAndReturn, CallType
  <2>2. \A u \in Threads : u # t => (Exists(u)' <=> Exists(u))
          /\ (Unstarted(u) => Unstarted(u)')
    BY <1>0, <1>12, <2>0 DEF EnqueueReady, Exists, Unstarted, stateVars, lifeVars
  <2>3. Settled(t)'
    BY <1>12, <2>0 DEF EnqueueReady, LeftAlone, LinkAtTurn, LinkReadyLocked, Settled,
       Listed, cpuVars, ownVars
  <2> QED BY <1>0, <2>0, <2>1, <2>2, <2>3, PlacedMoves DEF Readying, Reaping, Pending
<1>13. ASSUME NEW k \in Callers, TerminateThread(k)
      PROVE  Placed'
  <2>0. PICK t : t = call[k].t
    OBVIOUS
  <2>1. \A j \in Callers : j # k => call'[j] = call[j]
    BY <1>0, <1>13, <2>0, TerminateDoes DEF TerminateThread, CallType
  <2>2. \A u \in Threads : u # t => (Exists(u)' <=> Exists(u))
          /\ (Unstarted(u) => Unstarted(u)')
    BY <1>0, <1>13, <2>0 DEF TerminateThread, Exists, Unstarted, stateVars
  <2>3. Settled(t)' \/ Pending(t, {"reclaim"})'
    BY <1>0, <1>13, <2>0, TerminateSettles
  <2> QED BY <1>0, <2>0, <2>1, <2>2, <2>3, PlacedMoves DEF Readying, Reaping, Pending
<1>14. ASSUME NEW k \in Callers, ReclaimTerminated(k)
      PROVE  Placed'
  <2>0. PICK t : t = call[k].t
    OBVIOUS
  <2>1. \A j \in Callers : j # k => call'[j] = call[j]
    BY <1>0, <1>14, <2>0 DEF ReclaimTerminated, Return, CallType
  <2>2. \A u \in Threads : u # t => (Exists(u)' <=> Exists(u))
          /\ (Unstarted(u) => Unstarted(u)')
    BY <1>0, <1>14, <2>0 DEF ReclaimTerminated, Exists, Unstarted, stateVars
  <2>3. Settled(t)'
    BY <1>14, <2>0 DEF ReclaimTerminated, Settled
  <2> QED BY <1>0, <2>0, <2>1, <2>2, <2>3, PlacedMoves DEF Readying, Reaping, Pending
<1>15. ASSUME NEW k \in Callers, MigrateForAffinity(k)
      PROVE  Placed'
  BY <1>0, <1>a, <1>b, <1>15, PlacedRests DEF MigrateForAffinity, At, Return,
     LockFree, LinkAtTurn, LinkReadyLocked, WakeAndReturn, stateVars, lifeVars, ownVars,
     loopVars, At, Exists, Unstarted, Pending, Readying, Reaping, CallType, LifeType,
     StateType, FiberType, LoopType
<1>16. ASSUME NEW k \in Callers, RequeueForPriority(k)
      PROVE  Placed'
  BY <1>0, <1>a, <1>b, <1>16, PlacedRests DEF RequeueForPriority, At, Return,
     LockFree, LinkReadyLocked, cpuVars, stateVars, lifeVars, loopVars, ownVars, At,
     Exists, Unstarted, Pending, Readying, Reaping, CallType, LifeType, StateType,
     FiberType, LoopType
<1>17. ASSUME NEW k \in Callers, SignalCheck(k)
      PROVE  Placed'
  BY <1>0, <1>a, <1>b, <1>17, PlacedRests DEF SignalCheck, AnyBlocked, At, Begin,
     Return, threadVars, cpuVars, loopVars, listVars, stateVars, lifeVars, ownVars, At,
     Exists, Unstarted, Pending, Readying, Reaping, CallType, LifeType, StateType,
     FiberType, LoopType
<1>18. ASSUME NEW k \in Callers, WakeForSignal(k)
      PROVE  Placed'
  BY <1>0, <1>a, <1>b, <1>18, PlacedRests DEF WakeForSignal, At, LockFree,
     WakeAndReturn, cpuVars, listVars, stateVars, lifeVars, loopVars, ownVars, At, Exists,
     Unstarted, Pending, Readying, Reaping, CallType, LifeType, StateType, FiberType,
     LoopType
<1>19. ASSUME NEW k \in Callers, WakeAllCheck(k)
      PROVE  Placed'
  BY <1>0, <1>a, <1>b, <1>19, PlacedRests DEF WakeAllCheck, AnyBlocked, At, Begin,
     Return, threadVars, cpuVars, loopVars, listVars, stateVars, lifeVars, ownVars, At,
     Exists, Unstarted, Pending, Readying, Reaping, CallType, LifeType, StateType,
     FiberType, LoopType
<1>20. ASSUME NEW k \in Callers, WakeAll(k)
      PROVE  Placed'
  BY <1>0, <1>a, <1>b, <1>20, PlacedRests DEF WakeAll, At, LockFree, WakeAndReturn,
     cpuVars, listVars, stateVars, lifeVars, loopVars, ownVars, At, Exists, Unstarted,
     Pending, Readying, Reaping, CallType, LifeType, StateType, FiberType, LoopType
<1>21. ASSUME NEW k \in Callers, NEW c \in Cpus, Wake(k, c)
      PROVE  Placed'
  BY <1>0, <1>a, <1>b, <1>21, PlacedRests DEF Wake, At, WakeAndReturn, threadVars,
     ownVars, loopVars, listVars, stateVars, lifeVars, At, Exists, Unstarted, Pending,
     Readying, Reaping, CallType, LifeType, StateType, FiberType, LoopType
<1>22. ASSUME NEW c \in Cpus, Yield(c)
      PROVE  Placed'
  BY <1>0, <1>a, <1>b, <1>22, PlacedRests DEF Yield, YieldCurrentThread,
     YieldLeavesAlone, ExitIfTerminated, YieldToScheduler, FiberAt, LinkAtTurn,
     LinkReadyLocked, OnCpu, LeftAlone, listVars, Exists, Unstarted, Pending, Readying,
     Reaping, CallType, LifeType, StateType, FiberType, LoopType
<1>23. ASSUME NEW c \in Cpus, SelfSuspend(c)
      PROVE  Placed'
  BY <1>0, <1>a, <1>b, <1>23, PlacedRests DEF SelfSuspend, YieldCurrentThread,
     YieldLeavesAlone, ExitIfTerminated, YieldToScheduler, FiberAt, LinkAtTurn,
     LinkReadyLocked, OnCpu, LeftAlone, listVars, Exists, Unstarted, Pending, Readying,
     Reaping, CallType, LifeType, StateType, FiberType, LoopType
<1>24. ASSUME NEW c \in Cpus, NEW S \in SUBSET Objects, SampleEpoch(c, S)
      PROVE  Placed'
  BY <1>0, <1>a, <1>b, <1>24, PlacedRests DEF SampleEpoch, OnCpu, FiberAt, StaysOnCpu,
     cpuVars, listVars, stateVars, lifeVars, loopVars, ownVars, Exists, Unstarted,
     Pending, Readying, Reaping, CallType, LifeType, StateType, FiberType, LoopType
<1>25. ASSUME NEW c \in Cpus, Delay(c)
      PROVE  Placed'
  BY <1>0, <1>a, <1>b, <1>25, PlacedRests DEF Delay, BlockCurrentThread, ParkBlocked,
     ExitIfTerminated, BlockLeavesAlone, OnCpu, FiberAt, YieldToScheduler, PokeIfMoved,
     LockFree, stateVars, Exists, Unstarted, Pending, Readying, Reaping, CallType,
     LifeType, StateType, FiberType, LoopType
<1>26. ASSUME NEW c \in Cpus, BlockUngated(c)
      PROVE  Placed'
  BY <1>0, <1>a, <1>b, <1>26, PlacedRests DEF BlockUngated, BlockCurrentThread,
     ParkBlocked, ExitIfTerminated, BlockLeavesAlone, OnCpu, FiberAt, YieldToScheduler,
     PokeIfMoved, LockFree, stateVars, Exists, Unstarted, Pending, Readying, Reaping,
     CallType, LifeType, StateType, FiberType, LoopType
<1>27. ASSUME NEW c \in Cpus, WaitOnFence(c)
      PROVE  Placed'
  BY <1>0, <1>a, <1>b, <1>27, PlacedRests DEF WaitOnFence, ParkBlocked,
     BlockLeavesAlone, OnCpu, FiberAt, YieldToScheduler, PokeIfMoved, LockFree, stateVars,
     Exists, Unstarted, Pending, Readying, Reaping, CallType, LifeType, StateType,
     FiberType, LoopType
<1>28. ASSUME NEW c \in Cpus, ExitBegin(c)
      PROVE  Placed'
  BY <1>0, <1>a, <1>b, <1>28, PlacedRests DEF ExitBegin, OnCpu, FiberAt, StaysOnCpu,
     cpuVars, listVars, stateVars, loopVars, ownVars, Exists, Unstarted, Pending,
     Readying, Reaping, CallType, LifeType, StateType, FiberType, LoopType
<1>29. ASSUME NEW c \in Cpus, ExitYield(c)
      PROVE  Placed'
  BY <1>0, <1>a, <1>b, <1>29, PlacedRests DEF ExitYield, YieldCurrentThread,
     YieldLeavesAlone, ExitIfTerminated, YieldToScheduler, FiberAt, LinkAtTurn,
     LinkReadyLocked, OnCpu, LeftAlone, listVars, Exists, Unstarted, Pending, Readying,
     Reaping, CallType, LifeType, StateType, FiberType, LoopType
<1>30. ASSUME NEW c \in Cpus, Crash(c)
      PROVE  Placed'
  BY <1>0, <1>a, <1>b, <1>30, PlacedRests DEF Crash, OnCpu, FiberAt, YieldToScheduler,
     Detach, LockFree, stateVars, Exists, Unstarted, Pending, Readying, Reaping, CallType,
     LifeType, StateType, FiberType, LoopType
<1>31. ASSUME NEW c \in Cpus, PreemptCurrentFiber(c)
      PROVE  Placed'
  BY <1>0, <1>a, <1>b, <1>31, PlacedRests DEF PreemptCurrentFiber, YieldCurrentThread,
     YieldLeavesAlone, ExitIfTerminated, YieldToScheduler, FiberAt, LinkAtTurn,
     LinkReadyLocked, OnCpu, LeftAlone, listVars, Exists, Unstarted, Pending, Readying,
     Reaping, CallType, LifeType, StateType, FiberType, LoopType
<1>32. ASSUME NEW c \in Cpus, FiberResume(c)
      PROVE  Placed'
  BY <1>0, <1>a, <1>b, <1>32, PlacedRests DEF FiberResume, OnCpu, ExitIfTerminated,
     FiberAt, YieldToScheduler, listVars, stateVars, Exists, Unstarted, Pending, Readying,
     Reaping, CallType, LifeType, StateType, FiberType, LoopType
<1>33. ASSUME NEW c \in Cpus, PollSatisfied(c)
      PROVE  Placed'
  BY <1>0, <1>a, <1>b, <1>33, PlacedRests DEF PollSatisfied, OnCpu, FiberAt,
     StaysOnCpu, cpuVars, listVars, stateVars, lifeVars, loopVars, ownVars, Exists,
     Unstarted, Pending, Readying, Reaping, CallType, LifeType, StateType, FiberType,
     LoopType
<1>34. ASSUME NEW c \in Cpus, BlockOnObjects(c)
      PROVE  Placed'
  BY <1>0, <1>a, <1>b, <1>34, PlacedRests DEF BlockOnObjects, BlockCurrentThread,
     ParkBlocked, ExitIfTerminated, BlockLeavesAlone, OnCpu, FiberAt, YieldToScheduler,
     PokeIfMoved, LockFree, stateVars, Exists, Unstarted, Pending, Readying, Reaping,
     CallType, LifeType, StateType, FiberType, LoopType
<1>35. ASSUME NEW c \in Cpus, ExitEnd(c)
      PROVE  Placed'
  BY <1>0, <1>a, <1>b, <1>35, PlacedRests DEF ExitEnd, OnCpu, FiberAt,
     YieldToScheduler, threadVars, listVars, stateVars, lifeVars, Exists, Unstarted,
     Pending, Readying, Reaping, CallType, LifeType, StateType, FiberType, LoopType
<1>36. ASSUME NEW c \in Cpus, Top(c)
      PROVE  Placed'
  BY <1>0, <1>a, <1>b, <1>36, PlacedRests DEF Top, Goes, cpuVars, listVars, stateVars,
     lifeVars, ownVars, Exists, Unstarted, Pending, Readying, Reaping, CallType, LifeType,
     StateType, FiberType, LoopType
<1>37. ASSUME NEW c \in Cpus, RepollDue(c)
      PROVE  Placed'
  BY <1>0, <1>a, <1>b, <1>37, PlacedRests DEF RepollDue, Goes, threadVars, cpuVars,
     listVars, stateVars, lifeVars, ownVars, Exists, Unstarted, Pending, Readying,
     Reaping, CallType, LifeType, StateType, FiberType, LoopType
<1>38. ASSUME NEW c \in Cpus, SleepTimeout(c)
      PROVE  Placed'
  BY <1>0, <1>a, <1>b, <1>38, PlacedRests DEF SleepTimeout, WakesUp, Goes, threadVars,
     ownVars, listVars, stateVars, lifeVars, Exists, Unstarted, Pending, Readying,
     Reaping, CallType, LifeType, StateType, FiberType, LoopType
<1>39. ASSUME NEW c \in Cpus, RereadyBegin(c)
      PROVE  Placed'
  BY <1>0, <1>a, <1>b, <1>39, PlacedRests DEF RereadyBegin, Goes, LockFree, cpuVars,
     listVars, stateVars, lifeVars, ownVars, Exists, Unstarted, Pending, Readying,
     Reaping, CallType, LifeType, StateType, FiberType, LoopType
<1>40. ASSUME NEW c \in Cpus, NEW t \in Threads, KeepBlocked(c, t)
      PROVE  Placed'
  BY <1>0, <1>a, <1>b, <1>40, PlacedRests DEF KeepBlocked, MayHaveResolved, Visits,
     cpuVars, listVars, stateVars, lifeVars, loopVars, ownVars, Exists, Unstarted,
     Pending, Readying, Reaping, CallType, LifeType, StateType, FiberType, LoopType
<1>41. ASSUME NEW c \in Cpus, NEW t \in Threads, Reready(c, t)
      PROVE  Placed'
  BY <1>0, <1>a, <1>b, <1>41, PlacedRests DEF Reready, LinkAtTurn, LinkReadyLocked,
     Visits, cpuVars, stateVars, lifeVars, loopVars, ownVars, Exists, Unstarted, Pending,
     Readying, Reaping, CallType, LifeType, StateType, FiberType, LoopType
<1>42. ASSUME NEW c \in Cpus, RereadyEnd(c)
      PROVE  Placed'
  BY <1>0, <1>a, <1>b, <1>42, PlacedRests DEF RereadyEnd, Goes, cpuVars, listVars,
     stateVars, lifeVars, ownVars, Exists, Unstarted, Pending, Readying, Reaping,
     CallType, LifeType, StateType, FiberType, LoopType
<1>43. ASSUME NEW c \in Cpus, LoopWoken(c)
      PROVE  Placed'
  BY <1>0, <1>a, <1>b, <1>43, PlacedRests DEF LoopWoken, Goes, threadVars, cpuVars,
     listVars, stateVars, lifeVars, ownVars, Exists, Unstarted, Pending, Readying,
     Reaping, CallType, LifeType, StateType, FiberType, LoopType
<1>44. ASSUME NEW c \in Cpus, NEW d \in Cpus, LoopWake(c, d)
      PROVE  Placed'
  BY <1>0, <1>a, <1>b, <1>44, PlacedRests DEF LoopWake, threadVars, ownVars, loopVars,
     listVars, stateVars, lifeVars, Exists, Unstarted, Pending, Readying, Reaping,
     CallType, LifeType, StateType, FiberType, LoopType
<1>45. ASSUME NEW c \in Cpus, DequeueReady(c)
      PROVE  Placed'
  BY <1>0, <1>a, <1>b, <1>45, PlacedRests DEF DequeueReady, LockFree, stateVars,
     lifeVars, Exists, Unstarted, Pending, Readying, Reaping, CallType, LifeType,
     StateType, FiberType, LoopType
<1>46. ASSUME NEW c \in Cpus, DequeueNothing(c)
      PROVE  Placed'
  BY <1>0, <1>a, <1>b, <1>46, PlacedRests DEF DequeueNothing, Goes, LockFree,
     threadVars, cpuVars, listVars, stateVars, lifeVars, ownVars, Exists, Unstarted,
     Pending, Readying, Reaping, CallType, LifeType, StateType, FiberType, LoopType
<1>47. ASSUME NEW c \in Cpus, Picked(c)
      PROVE  Placed'
  BY <1>0, <1>a, <1>b, <1>47, PlacedRests DEF Picked, threadVars, cpuVars, listVars,
     stateVars, lifeVars, ownVars, Exists, Unstarted, Pending, Readying, Reaping,
     CallType, LifeType, StateType, FiberType, LoopType
<1>48. ASSUME NEW c \in Cpus, MigrateHome(c)
      PROVE  Placed'
  BY <1>0, <1>a, <1>b, <1>48, PlacedRests DEF MigrateHome, LinkAtTurn,
     LinkReadyLocked, LockFree, stateVars, lifeVars, Exists, Unstarted, Pending, Readying,
     Reaping, CallType, LifeType, StateType, FiberType, LoopType
<1>49. ASSUME NEW c \in Cpus, ParkSuspended(c)
      PROVE  Placed'
  BY <1>0, <1>a, <1>b, <1>49, PlacedRests DEF ParkSuspended, LockFree, MustPark,
     stateVars, lifeVars, Exists, Unstarted, Pending, Readying, Reaping, CallType,
     LifeType, StateType, FiberType, LoopType
<1>50. ASSUME NEW c \in Cpus, SwitchTo(c)
      PROVE  Placed'
  BY <1>0, <1>a, <1>b, <1>50, PlacedRests DEF SwitchTo, Goes, listVars, stateVars,
     Exists, Unstarted, Pending, Readying, Reaping, CallType, LifeType, StateType,
     FiberType, LoopType
<1>51. ASSUME NEW c \in Cpus, SwitchedBack(c)
      PROVE  Placed'
  BY <1>0, <1>a, <1>b, <1>51, PlacedRests DEF SwitchedBack, AfterSwitch, threadVars,
     listVars, stateVars, lifeVars, Exists, Unstarted, Pending, Readying, Reaping,
     CallType, LifeType, StateType, FiberType, LoopType
<1>52. ASSUME NEW c \in Cpus, ReclaimExited(c)
      PROVE  Placed'
  BY <1>0, <1>a, <1>b, <1>52, PlacedRests DEF ReclaimExited, Goes, listVars,
     stateVars, Exists, Unstarted, Pending, Readying, Reaping, CallType, LifeType,
     StateType, FiberType, LoopType
<1>53. ASSUME NEW c \in Cpus, IdleParks(c)
      PROVE  Placed'
  BY <1>0, <1>a, <1>b, <1>53, PlacedRests DEF IdleParks, Goes, threadVars, ownVars,
     listVars, stateVars, lifeVars, Exists, Unstarted, Pending, Readying, Reaping,
     CallType, LifeType, StateType, FiberType, LoopType
<1>54. ASSUME NEW c \in Cpus, IdleRechecks(c)
      PROVE  Placed'
  BY <1>0, <1>a, <1>b, <1>54, PlacedRests DEF IdleRechecks, Goes, HasWork, LockFree,
     threadVars, ownVars, listVars, stateVars, lifeVars, Exists, Unstarted, Pending,
     Readying, Reaping, CallType, LifeType, StateType, FiberType, LoopType
<1>55. ASSUME NEW c \in Cpus, SleepWoken(c)
      PROVE  Placed'
  BY <1>0, <1>a, <1>b, <1>55, PlacedRests DEF SleepWoken, WakesUp, Goes, threadVars,
     ownVars, listVars, stateVars, lifeVars, Exists, Unstarted, Pending, Readying,
     Reaping, CallType, LifeType, StateType, FiberType, LoopType
<1>56. ASSUME ShutdownBegin
      PROVE  Placed'
  BY <1>0, <1>a, <1>b, <1>56, PlacedRests DEF ShutdownBegin, threadVars, cpuVars,
     loopVars, listVars, stateVars, lifeVars, ownVars, Exists, Unstarted, Pending,
     Readying, Reaping, CallType, LifeType, StateType, FiberType, LoopType
<1>57. ASSUME NEW c \in Cpus, ShutdownNudge(c)
      PROVE  Placed'
  BY <1>0, <1>a, <1>b, <1>57, PlacedRests DEF ShutdownNudge, threadVars, ownVars,
     loopVars, listVars, stateVars, lifeVars, Exists, Unstarted, Pending, Readying,
     Reaping, CallType, LifeType, StateType, FiberType, LoopType
<1>58. ASSUME ShutdownDrain
      PROVE  Placed'
  BY <1>0, <1>a, <1>b, <1>58, PlacedRests DEF ShutdownDrain, Listed, Leftovers,
     stateVars, loopVars, Exists, Unstarted, Pending, Readying, Reaping, CallType,
     LifeType, StateType, FiberType, LoopType
<1>59. ASSUME NEW c \in Cpus, SelfResume(c) PROVE FALSE
  BY <1>59 DEF SelfResume, NoSelfResume
<1>60. \A s \in Starts : s[1] \in Threads /\ s[2] \in Cpus /\ s[3] \in Levels
  BY ConstantsAssumption
<1>61. CASE \E k \in Callers : CallStarts(k) \/ CallContinues(k)
  BY <1>61, <1>60, <1>1, <1>2, <1>3, <1>4, <1>5, <1>6, <1>7, <1>8, <1>9, <1>10, <1>11,
     <1>12, <1>13, <1>14, <1>15, <1>16, <1>17, <1>18, <1>19, <1>20, <1>21
     DEF CallStarts, CallContinues
<1>62. CASE \E c \in Cpus : GuestActs(c) \/ PreemptCurrentFiber(c) \/ FiberContinues(c)
  BY <1>62, <1>59, <1>22, <1>23, <1>24, <1>25, <1>26, <1>27, <1>28, <1>29, <1>30, <1>31,
     <1>32, <1>33, <1>34, <1>35
     DEF GuestActs, FiberContinues
<1>63. CASE \E c \in Cpus : Dispatches(c) \/ RepollDue(c) \/ SleepTimeout(c)
  BY <1>63, <1>36, <1>37, <1>38, <1>39, <1>40, <1>41, <1>42, <1>43, <1>44, <1>45, <1>46,
     <1>47, <1>48, <1>49, <1>50, <1>51, <1>52, <1>53, <1>54, <1>55
     DEF Dispatches, Walks
<1>64. CASE ShutdownActs
  BY <1>64, <1>56, <1>57, <1>58 DEF ShutdownActs
<1> QED BY <1>61, <1>62, <1>63, <1>64 DEF Next

(* No thread exists initially.                                             *)
LEMMA KeptInvStarts ==
  ASSUME Init
  PROVE  KeptInv
BY DEF Init, KeptInv, LeavesListed, RanExists, Placed, Ends, ResumeRegime, EndRegime,
   Exists, Reaping, Idle

(* The invariant of the threads is about the variables of the model.       *)
LEMMA KeptInvStutters ==
  ASSUME KeptInv, UNCHANGED vars
  PROVE  KeptInv'
<1> USE DEF vars, listVars, stateVars, lifeVars, ownVars, loopVars
<1>1. \A u : /\ Settled(u)' = Settled(u) /\ Unstarted(u)' = Unstarted(u)
                /\ Exists(u)' = Exists(u)
             /\ \A pcs : Pending(u, pcs)' = Pending(u, pcs)
  BY DEF Settled, Listed, Dead, Unstarted, Pending, Exists
<1>2. LeavesListed' /\ RanExists' /\ Placed' /\ Ends'
  BY <1>1 DEF KeptInv, LeavesListed, RanExists, Placed, Ends, Dead
<1>3. plan' = plan /\ (ResumeRegime => ResumeRegime') /\ (EndRegime => EndRegime')
  BY <1>1 DEF ResumeRegime, EndRegime
<1> QED BY <1>2, <1>3 DEF KeptInv

(* The invariant of the threads holds in every reachable state.            *)
LEMMA KeptInvHolds ==
  ASSUME NoSelfResume, ResumesApart
  PROVE  Spec => [](PlannedInv /\ KeptInv)
<1>1. Init => PlannedInv /\ KeptInv
  BY InitHolds, KeptInvStarts DEF Init, PlannedInv
<1>2. PlannedInv /\ KeptInv /\ [Next]_vars => PlannedInv' /\ KeptInv'
  <2> SUFFICES ASSUME PlannedInv, KeptInv, [Next]_vars
               PROVE  PlannedInv' /\ KeptInv'
    OBVIOUS
  <2>1. PlannedInv' /\ plan \in Plans /\ IInv /\ IInv'
    BY StepKeeps DEF PlannedInv
  <2>2. CASE Next
    <3>1. LeavesListed' /\ RanExists' /\ Placed' /\ Ends'
      BY <2>1, <2>2, LeavesListedKept, RanExistsKept, PlacedIsKept, EndsKept
    <3>2. ("resume" \in plan.calls => ResumeRegime)'
            /\ ("resume" \notin plan.calls => EndRegime)'
      BY <2>1, <2>2, ResumeRegimeKept, EndRegimeKept
    <3> QED BY <2>1, <3>1, <3>2 DEF KeptInv
  <2> QED BY <2>1, <2>2, KeptInvStutters
<1> QED BY <1>1, <1>2, PTL DEF Spec

(* No thread falls out of the lists: one that exists is in a list, owned,  *)
(* over, waiting for its first resume, or in the hands of a call, however  *)
(* the lock sections of the calls about it interleave.                     *)
THEOREM NoneStranded ==
  ASSUME NoSelfResume, ResumesApart
  PROVE  Spec => []NotStranded
<1>1. KeptInv => \A t \in Threads :
       \/ ~Exists(t) \/ t \in Listed \cup running \cup reclaimed
       \/ fiber[t] \in {"diverted", "exited", "crashed"}
       \/ CallOn(t)
       \/ fiber[t] = "new" /\ suspendCount[t] > 0 /\ t \notin hasRun \cup terminatePending
  BY DEF KeptInv, Placed, Settled, Dead, Pending, CallOn, Unstarted
<1>2. KeptInv /\ SuspendedHasCount => NotStranded
  BY <1>1 DEF NotStranded
<1> QED BY <1>2, KeptInvHolds, CountParks, PTL

-----------------------------------------------------------------------------
(* Shutdown                                                                *)
-----------------------------------------------------------------------------
(* A thread that has given its fiber up for good.                          *)
Over(t) == fiber[t] \in {"exited", "diverted"}

(* One that is over is reclaimed, or its last dispatch thread is to.       *)
EndsHeld ==
  /\ \A t \in Threads : Over(t) => t \in reclaimed \/ \E c \in Cpus : exitedThread[c] = t
  /\ \A c \in Cpus : exitedThread[c] # None => loop[c] \in {"back", "reap"}

(* It is in no list, and no dispatch thread is about to switch to it.      *)
OverIsOut ==
  /\ \A t \in Listed : ~Over(t)
  /\ \A c \in Cpus : loop[c] \in {"picked", "settled", "migrate", "fiber"} => ~Over(next[c])

(* A thread being readied by its Create is new and nowhere yet.            *)
Newcomers ==
  /\ \A k \in Callers : call[k].pc \in {"markReady", "enqueue"} =>
       fiber[call[k].t] = "new" /\ call[k].t \notin Listed \cup running \cup hasRun
  /\ \A j, k \in Callers :
       call[k].pc \in {"markReady", "enqueue"} /\ call[j].pc \in {"markReady", "enqueue"}
         /\ call[j].t = call[k].t => j = k

(* A dispatch thread has left its loop at the top of it.                   *)
GoneAtTop == \A c \in Cpus : loop[c] = "gone" => next[c] = None

(* What is terminated is reclaimed once the scheduler has stopped.         *)
StoppedEnds ==
  phase = "stopped" =>
    \A t \in terminatePending : t \in reclaimed \/ fiber[t] = "crashed" \/ Pending(t, Reaping)

(* What keeps a thread that is over from being linked again.               *)
OutInv == OverIsOut /\ Newcomers /\ GoneAtTop

(* A waiter that is visited is in the blocked list.                        *)
LEMMA VisitedIsBlocked ==
  ASSUME IInv, NEW c \in Cpus, NEW t \in Threads, Visits(c, t)
  PROVE  t \in blocked
<1>1. t \in RangeOf(list[Blocked(c)])
  BY DEF Visits, RangeOf
<1> QED BY <1>1, BlockedAreListed

(* Newcomers stay so while no Create begins, what is listed, owned or has  *)
(* run was before, and only owned fibers move.                             *)
LEMMA NewcomersRest ==
  ASSUME Newcomers, RefInv,
         \A k \in Callers : call'[k].pc \in {"markReady", "enqueue"} =>
           call[k].pc \in {"markReady", "enqueue"} /\ call'[k].t = call[k].t,
         (Listed \cup running \cup hasRun)' \subseteq Listed \cup running \cup hasRun,
         \A t \in Threads \ running : fiber'[t] = fiber[t]
  PROVE  Newcomers'
<1>1. \A k \in Callers : call[k].pc \in {"markReady", "enqueue"} => call[k].t \in Threads
  BY DEF RefInv, ThreadCallPcs
<1>2. ASSUME NEW k \in Callers, call'[k].pc \in {"markReady", "enqueue"}
      PROVE  fiber'[call'[k].t] = "new" /\ call'[k].t \notin (Listed \cup running \cup hasRun)'
  BY <1>1, <1>2 DEF Newcomers
<1>3. ASSUME NEW j \in Callers, NEW k \in Callers, call'[j].pc \in {"markReady", "enqueue"},
             call'[k].pc \in {"markReady", "enqueue"}, call'[j].t = call'[k].t
      PROVE  j = k
  BY <1>3 DEF Newcomers
<1> QED BY <1>2, <1>3 DEF Newcomers

(* A fiber that ends leaves its thread to its dispatch thread, which       *)
(* reclaims it when it is back.                                            *)
LEMMA EndsAreHeld ==
  ASSUME NoSelfResume, plan \in Plans, IInv, IInv', EndsHeld, Next
  PROVE  EndsHeld'
<1>0. /\ EndsHeld /\ LoopType /\ FiberType /\ LifeType /\ OwnType /\ None \notin Threads
  BY ConstantsAssumption DEF IInv, TypeInv
<1>a. \A c \in Cpus : loop[c] \in {"picked", "settled", "migrate", "fiber", "back"}
          => next[c] \in Threads /\ next[c] \in running
  BY Owning
<1>1. ASSUME NEW k \in Callers, NEW t \in Threads, NEW c \in Cpus, NEW p \in Levels,
               NEW b \in BOOLEAN, Create(k, t, c, p, b)
      PROVE  EndsHeld'
  BY <1>0, <1>a, <1>1 DEF Create, cpuVars, lifeVars, loopVars, ownVars, EndsHeld, Over,
     LoopType, FiberType, LifeType, OwnType
<1>2. ASSUME NEW k \in Callers, NEW t \in Threads, Resume(k, t)
      PROVE  EndsHeld'
  BY <1>0, <1>a, <1>2 DEF Resume, At, ResumesFrom, Exists, cpuVars, lifeVars, loopVars,
     ownVars, EndsHeld, Over, LoopType, FiberType, LifeType, OwnType
<1>3. ASSUME NEW k \in Callers, NEW t \in Threads, Suspend(k, t)
      PROVE  EndsHeld'
  BY <1>0, <1>a, <1>3 DEF Suspend, cpuVars, lifeVars, loopVars, ownVars, EndsHeld, Over,
     LoopType, FiberType, LifeType, OwnType
<1>4. ASSUME NEW k \in Callers, NEW t \in Threads, Terminate(k, t)
      PROVE  EndsHeld'
  BY <1>0, <1>a, <1>4 DEF Terminate, At, cpuVars, loopVars, ownVars, EndsHeld, Over,
     LoopType, FiberType, LifeType, OwnType
<1>5. ASSUME NEW k \in Callers, NEW t \in Threads, NEW c \in Cpus, SetActiveCpu(k, t, c)
      PROVE  EndsHeld'
  BY <1>0, <1>a, <1>5 DEF SetActiveCpu, At, cpuVars, lifeVars, loopVars, ownVars,
     EndsHeld, Over, LoopType, FiberType, LifeType, OwnType
<1>6. ASSUME NEW k \in Callers, NEW t \in Threads, NEW p \in Levels, PublishPriority(k, t, p)
      PROVE  EndsHeld'
  BY <1>0, <1>a, <1>6 DEF PublishPriority, At, cpuVars, lifeVars, loopVars, ownVars,
     EndsHeld, Over, LoopType, FiberType, LifeType, OwnType
<1>7. ASSUME NEW k \in Callers, NEW o \in Objects, Signal(k, o)
      PROVE  EndsHeld'
  BY <1>0, <1>a, <1>7 DEF Signal, At, cpuVars, lifeVars, loopVars, ownVars, EndsHeld,
     Over, LoopType, FiberType, LifeType, OwnType
<1>8. ASSUME NEW k \in Callers, BeginWakeAll(k)
      PROVE  EndsHeld'
  BY <1>0, <1>a, <1>8 DEF BeginWakeAll, At, threadVars, cpuVars, loopVars, lifeVars,
     ownVars, EndsHeld, Over, LoopType, FiberType, LifeType, OwnType
<1>9. ASSUME NEW k \in Callers, NEW C \in SUBSET BackgroundCpus, EnterBackgroundMode(k, C)
      PROVE  EndsHeld'
  BY <1>0, <1>a, <1>9 DEF EnterBackgroundMode, threadVars, ownVars, loopVars, lifeVars,
     EndsHeld, Over, LoopType, FiberType, LifeType, OwnType
<1>10. ASSUME NEW k \in Callers, ResumeThread(k)
      PROVE  EndsHeld'
  BY <1>0, <1>a, <1>10 DEF ResumeThread, At, LockFree, cpuVars, lifeVars, loopVars,
     ownVars, EndsHeld, Over, LoopType, FiberType, LifeType, OwnType
<1>11. ASSUME NEW k \in Callers, MarkReady(k)
      PROVE  EndsHeld'
  BY <1>0, <1>a, <1>11 DEF MarkReady, At, threadVars, cpuVars, loopVars, lifeVars,
     ownVars, EndsHeld, Over, LoopType, FiberType, LifeType, OwnType
<1>12. ASSUME NEW k \in Callers, EnqueueReady(k)
      PROVE  EndsHeld'
  BY <1>0, <1>a, <1>12 DEF EnqueueReady, At, LockFree, LeftAlone, LinkAtTurn,
     LinkReadyLocked, cpuVars, lifeVars, loopVars, ownVars, EndsHeld, Over, LoopType,
     FiberType, LifeType, OwnType
<1>13. ASSUME NEW k \in Callers, TerminateThread(k)
      PROVE  EndsHeld'
  BY <1>0, <1>a, <1>13 DEF TerminateThread, At, LockFree, TerminateStopped,
     TerminateRunning, TerminateParked, TerminateUnlisted, LinkReadyLocked, cpuVars,
     loopVars, ownVars, EndsHeld, Over, LoopType, FiberType, LifeType, OwnType
<1>14. ASSUME NEW k \in Callers, ReclaimTerminated(k)
      PROVE  EndsHeld'
  BY <1>0, <1>a, <1>14 DEF ReclaimTerminated, At, cpuVars, loopVars, ownVars, EndsHeld,
     Over, LoopType, FiberType, LifeType, OwnType
<1>15. ASSUME NEW k \in Callers, MigrateForAffinity(k)
      PROVE  EndsHeld'
  BY <1>0, <1>a, <1>15 DEF MigrateForAffinity, At, LockFree, LinkAtTurn,
     LinkReadyLocked, lifeVars, ownVars, loopVars, EndsHeld, Over, LoopType, FiberType,
     LifeType, OwnType
<1>16. ASSUME NEW k \in Callers, RequeueForPriority(k)
      PROVE  EndsHeld'
  BY <1>0, <1>a, <1>16 DEF RequeueForPriority, At, LockFree, LinkReadyLocked, cpuVars,
     lifeVars, loopVars, ownVars, EndsHeld, Over, LoopType, FiberType, LifeType, OwnType
<1>17. ASSUME NEW k \in Callers, SignalCheck(k)
      PROVE  EndsHeld'
  BY <1>0, <1>a, <1>17 DEF SignalCheck, AnyBlocked, At, threadVars, cpuVars, loopVars,
     lifeVars, ownVars, EndsHeld, Over, LoopType, FiberType, LifeType, OwnType
<1>18. ASSUME NEW k \in Callers, WakeForSignal(k)
      PROVE  EndsHeld'
  BY <1>0, <1>a, <1>18 DEF WakeForSignal, At, LockFree, cpuVars, lifeVars, loopVars,
     ownVars, EndsHeld, Over, LoopType, FiberType, LifeType, OwnType
<1>19. ASSUME NEW k \in Callers, WakeAllCheck(k)
      PROVE  EndsHeld'
  BY <1>0, <1>a, <1>19 DEF WakeAllCheck, AnyBlocked, At, threadVars, cpuVars, loopVars,
     lifeVars, ownVars, EndsHeld, Over, LoopType, FiberType, LifeType, OwnType
<1>20. ASSUME NEW k \in Callers, WakeAll(k)
      PROVE  EndsHeld'
  BY <1>0, <1>a, <1>20 DEF WakeAll, At, LockFree, cpuVars, lifeVars, loopVars, ownVars,
     EndsHeld, Over, LoopType, FiberType, LifeType, OwnType
<1>21. ASSUME NEW k \in Callers, NEW c \in Cpus, Wake(k, c)
      PROVE  EndsHeld'
  BY <1>0, <1>a, <1>21 DEF Wake, At, threadVars, ownVars, loopVars, lifeVars, EndsHeld,
     Over, LoopType, FiberType, LifeType, OwnType
<1>22. ASSUME NEW c \in Cpus, Yield(c)
      PROVE  EndsHeld'
  BY <1>0, <1>a, <1>22 DEF Yield, YieldCurrentThread, YieldLeavesAlone,
     ExitIfTerminated, YieldToScheduler, FiberAt, LinkAtTurn, LinkReadyLocked, OnCpu,
     LeftAlone, EndsHeld, Over, LoopType, FiberType, LifeType, OwnType
<1>23. ASSUME NEW c \in Cpus, SelfSuspend(c)
      PROVE  EndsHeld'
  BY <1>0, <1>a, <1>23 DEF SelfSuspend, YieldCurrentThread, YieldLeavesAlone,
     ExitIfTerminated, YieldToScheduler, FiberAt, LinkAtTurn, LinkReadyLocked, OnCpu,
     LeftAlone, EndsHeld, Over, LoopType, FiberType, LifeType, OwnType
<1>24. ASSUME NEW c \in Cpus, NEW S \in SUBSET Objects, SampleEpoch(c, S)
      PROVE  EndsHeld'
  BY <1>0, <1>a, <1>24 DEF SampleEpoch, OnCpu, FiberAt, StaysOnCpu, cpuVars, lifeVars,
     loopVars, ownVars, EndsHeld, Over, LoopType, FiberType, LifeType, OwnType
<1>25. ASSUME NEW c \in Cpus, Delay(c)
      PROVE  EndsHeld'
  BY <1>0, <1>a, <1>25 DEF Delay, BlockCurrentThread, ParkBlocked, ExitIfTerminated,
     BlockLeavesAlone, OnCpu, FiberAt, YieldToScheduler, PokeIfMoved, LockFree, EndsHeld,
     Over, LoopType, FiberType, LifeType, OwnType
<1>26. ASSUME NEW c \in Cpus, BlockUngated(c)
      PROVE  EndsHeld'
  BY <1>0, <1>a, <1>26 DEF BlockUngated, BlockCurrentThread, ParkBlocked,
     ExitIfTerminated, BlockLeavesAlone, OnCpu, FiberAt, YieldToScheduler, PokeIfMoved,
     LockFree, EndsHeld, Over, LoopType, FiberType, LifeType, OwnType
<1>27. ASSUME NEW c \in Cpus, WaitOnFence(c)
      PROVE  EndsHeld'
  BY <1>0, <1>a, <1>27 DEF WaitOnFence, ParkBlocked, BlockLeavesAlone, OnCpu, FiberAt,
     YieldToScheduler, PokeIfMoved, LockFree, EndsHeld, Over, LoopType, FiberType,
     LifeType, OwnType
<1>28. ASSUME NEW c \in Cpus, ExitBegin(c)
      PROVE  EndsHeld'
  BY <1>0, <1>a, <1>28 DEF ExitBegin, OnCpu, FiberAt, StaysOnCpu, cpuVars, loopVars,
     ownVars, EndsHeld, Over, LoopType, FiberType, LifeType, OwnType
<1>29. ASSUME NEW c \in Cpus, ExitYield(c)
      PROVE  EndsHeld'
  BY <1>0, <1>a, <1>29 DEF ExitYield, YieldCurrentThread, YieldLeavesAlone,
     ExitIfTerminated, YieldToScheduler, FiberAt, LinkAtTurn, LinkReadyLocked, OnCpu,
     LeftAlone, EndsHeld, Over, LoopType, FiberType, LifeType, OwnType
<1>30. ASSUME NEW c \in Cpus, Crash(c)
      PROVE  EndsHeld'
  BY <1>0, <1>a, <1>30 DEF Crash, OnCpu, FiberAt, YieldToScheduler, LockFree, EndsHeld,
     Over, LoopType, FiberType, LifeType, OwnType
<1>31. ASSUME NEW c \in Cpus, PreemptCurrentFiber(c)
      PROVE  EndsHeld'
  BY <1>0, <1>a, <1>31 DEF PreemptCurrentFiber, YieldCurrentThread, YieldLeavesAlone,
     ExitIfTerminated, YieldToScheduler, FiberAt, LinkAtTurn, LinkReadyLocked, OnCpu,
     LeftAlone, EndsHeld, Over, LoopType, FiberType, LifeType, OwnType
<1>32. ASSUME NEW c \in Cpus, FiberResume(c)
      PROVE  EndsHeld'
  <2> DEFINE t == next[c]
  <2>0. loop[c] = "fiber" /\ t \in Threads /\ exitedThread[c] = None /\ reclaimed' = reclaimed
    BY <1>0, <1>a, <1>32 DEF FiberResume, OnCpu, EndsHeld
  <2>1. CASE ExitIfTerminated(c)
    <3>1. /\ exitedThread' = [exitedThread EXCEPT ![c] = t]
               /\ fiber' = [fiber EXCEPT ![t] = "diverted"]
          /\ loop' = [loop EXCEPT ![c] = "back"]
      BY <2>1 DEF ExitIfTerminated, FiberAt, YieldToScheduler
    <3> HIDE DEF t
    <3> QED BY <1>0, <2>0, <3>1 DEF EndsHeld, Over, LoopType, FiberType, OwnType
  <2>2. CASE UNCHANGED exitedThread /\ fiber' = [fiber EXCEPT ![t] = ResumedAt(fiber[t])]
    <3>1. ResumedAt(fiber[t]) \notin {"exited", "diverted"}
      BY DEF ResumedAt
    <3>2. \A u \in Threads : Over(u)' => Over(u)
      BY <1>0, <2>0, <2>2, <3>1 DEF Over, FiberType
    <3>3. \A d \in Cpus : d # c => loop'[d] = loop[d]
      BY <1>0, <1>32 DEF FiberResume, ExitIfTerminated, YieldToScheduler, LoopType
    <3> QED BY <1>0, <2>0, <2>2, <3>2, <3>3 DEF EndsHeld
  <2> QED BY <1>32, <2>1, <2>2 DEF FiberResume, FiberAt
<1>33. ASSUME NEW c \in Cpus, PollSatisfied(c)
      PROVE  EndsHeld'
  BY <1>0, <1>a, <1>33 DEF PollSatisfied, OnCpu, FiberAt, StaysOnCpu, cpuVars, lifeVars,
     loopVars, ownVars, EndsHeld, Over, LoopType, FiberType, LifeType, OwnType
<1>34. ASSUME NEW c \in Cpus, BlockOnObjects(c)
      PROVE  EndsHeld'
  BY <1>0, <1>a, <1>34 DEF BlockOnObjects, BlockCurrentThread, ParkBlocked,
     ExitIfTerminated, BlockLeavesAlone, OnCpu, FiberAt, YieldToScheduler, PokeIfMoved,
     LockFree, EndsHeld, Over, LoopType, FiberType, LifeType, OwnType
<1>35. ASSUME NEW c \in Cpus, ExitEnd(c)
      PROVE  EndsHeld'
  BY <1>0, <1>a, <1>35 DEF ExitEnd, OnCpu, FiberAt, YieldToScheduler, threadVars,
     lifeVars, EndsHeld, Over, LoopType, FiberType, LifeType, OwnType
<1>36. ASSUME NEW c \in Cpus, Top(c)
      PROVE  EndsHeld'
  BY <1>0, <1>a, <1>36 DEF Top, Goes, cpuVars, lifeVars, ownVars, EndsHeld, Over,
     LoopType, FiberType, LifeType, OwnType
<1>37. ASSUME NEW c \in Cpus, RepollDue(c)
      PROVE  EndsHeld'
  BY <1>0, <1>a, <1>37 DEF RepollDue, Goes, threadVars, cpuVars, lifeVars, ownVars,
     EndsHeld, Over, LoopType, FiberType, LifeType, OwnType
<1>38. ASSUME NEW c \in Cpus, SleepTimeout(c)
      PROVE  EndsHeld'
  BY <1>0, <1>a, <1>38 DEF SleepTimeout, WakesUp, Goes, threadVars, ownVars, lifeVars,
     EndsHeld, Over, LoopType, FiberType, LifeType, OwnType
<1>39. ASSUME NEW c \in Cpus, RereadyBegin(c)
      PROVE  EndsHeld'
  BY <1>0, <1>a, <1>39 DEF RereadyBegin, Goes, LockFree, cpuVars, lifeVars, ownVars,
     EndsHeld, Over, LoopType, FiberType, LifeType, OwnType
<1>40. ASSUME NEW c \in Cpus, NEW t \in Threads, KeepBlocked(c, t)
      PROVE  EndsHeld'
  BY <1>0, <1>a, <1>40 DEF KeepBlocked, MayHaveResolved, Visits, cpuVars, lifeVars,
     loopVars, ownVars, EndsHeld, Over, LoopType, FiberType, LifeType, OwnType
<1>41. ASSUME NEW c \in Cpus, NEW t \in Threads, Reready(c, t)
      PROVE  EndsHeld'
  BY <1>0, <1>a, <1>41 DEF Reready, LinkAtTurn, LinkReadyLocked, Visits, cpuVars,
     lifeVars, loopVars, ownVars, EndsHeld, Over, LoopType, FiberType, LifeType, OwnType
<1>42. ASSUME NEW c \in Cpus, RereadyEnd(c)
      PROVE  EndsHeld'
  BY <1>0, <1>a, <1>42 DEF RereadyEnd, Goes, cpuVars, lifeVars, ownVars, EndsHeld, Over,
     LoopType, FiberType, LifeType, OwnType
<1>43. ASSUME NEW c \in Cpus, LoopWoken(c)
      PROVE  EndsHeld'
  BY <1>0, <1>a, <1>43 DEF LoopWoken, Goes, threadVars, cpuVars, lifeVars, ownVars,
     EndsHeld, Over, LoopType, FiberType, LifeType, OwnType
<1>44. ASSUME NEW c \in Cpus, NEW d \in Cpus, LoopWake(c, d)
      PROVE  EndsHeld'
  BY <1>0, <1>a, <1>44 DEF LoopWake, threadVars, ownVars, loopVars, lifeVars, EndsHeld,
     Over, LoopType, FiberType, LifeType, OwnType
<1>45. ASSUME NEW c \in Cpus, DequeueReady(c)
      PROVE  EndsHeld'
  BY <1>0, <1>a, <1>45 DEF DequeueReady, LockFree, lifeVars, EndsHeld, Over, LoopType,
     FiberType, LifeType, OwnType
<1>46. ASSUME NEW c \in Cpus, DequeueNothing(c)
      PROVE  EndsHeld'
  BY <1>0, <1>a, <1>46 DEF DequeueNothing, Goes, LockFree, threadVars, cpuVars,
     lifeVars, ownVars, EndsHeld, Over, LoopType, FiberType, LifeType, OwnType
<1>47. ASSUME NEW c \in Cpus, Picked(c)
      PROVE  EndsHeld'
  BY <1>0, <1>a, <1>47 DEF Picked, threadVars, cpuVars, lifeVars, ownVars, EndsHeld,
     Over, LoopType, FiberType, LifeType, OwnType
<1>48. ASSUME NEW c \in Cpus, MigrateHome(c)
      PROVE  EndsHeld'
  BY <1>0, <1>a, <1>48 DEF MigrateHome, LinkAtTurn, LinkReadyLocked, LockFree, lifeVars,
     EndsHeld, Over, LoopType, FiberType, LifeType, OwnType
<1>49. ASSUME NEW c \in Cpus, ParkSuspended(c)
      PROVE  EndsHeld'
  BY <1>0, <1>a, <1>49 DEF ParkSuspended, LockFree, MustPark, lifeVars, EndsHeld, Over,
     LoopType, FiberType, LifeType, OwnType
<1>50. ASSUME NEW c \in Cpus, SwitchTo(c)
      PROVE  EndsHeld'
  BY <1>0, <1>a, <1>50 DEF SwitchTo, Goes, EndsHeld, Over, LoopType, FiberType,
     LifeType, OwnType
<1>51. ASSUME NEW c \in Cpus, SwitchedBack(c)
      PROVE  EndsHeld'
  BY <1>0, <1>a, <1>51 DEF SwitchedBack, AfterSwitch, threadVars, lifeVars, EndsHeld,
     Over, LoopType, FiberType, LifeType, OwnType
<1>52. ASSUME NEW c \in Cpus, ReclaimExited(c)
      PROVE  EndsHeld'
  BY <1>0, <1>a, <1>52 DEF ReclaimExited, Goes, EndsHeld, Over, LoopType, FiberType,
     LifeType, OwnType
<1>53. ASSUME NEW c \in Cpus, IdleParks(c)
      PROVE  EndsHeld'
  BY <1>0, <1>a, <1>53 DEF IdleParks, Goes, threadVars, ownVars, lifeVars, EndsHeld,
     Over, LoopType, FiberType, LifeType, OwnType
<1>54. ASSUME NEW c \in Cpus, IdleRechecks(c)
      PROVE  EndsHeld'
  BY <1>0, <1>a, <1>54 DEF IdleRechecks, Goes, HasWork, LockFree, threadVars, ownVars,
     lifeVars, EndsHeld, Over, LoopType, FiberType, LifeType, OwnType
<1>55. ASSUME NEW c \in Cpus, SleepWoken(c)
      PROVE  EndsHeld'
  BY <1>0, <1>a, <1>55 DEF SleepWoken, WakesUp, Goes, threadVars, ownVars, lifeVars,
     EndsHeld, Over, LoopType, FiberType, LifeType, OwnType
<1>56. ASSUME ShutdownBegin
      PROVE  EndsHeld'
  BY <1>0, <1>a, <1>56 DEF ShutdownBegin, threadVars, cpuVars, loopVars, lifeVars,
     ownVars, EndsHeld, Over, LoopType, FiberType, LifeType, OwnType
<1>57. ASSUME NEW c \in Cpus, ShutdownNudge(c)
      PROVE  EndsHeld'
  BY <1>0, <1>a, <1>57 DEF ShutdownNudge, threadVars, ownVars, loopVars, lifeVars,
     EndsHeld, Over, LoopType, FiberType, LifeType, OwnType
<1>58. ASSUME ShutdownDrain
      PROVE  EndsHeld'
  BY <1>0, <1>a, <1>58 DEF ShutdownDrain, Listed, Leftovers, loopVars, EndsHeld, Over,
     LoopType, FiberType, LifeType, OwnType
<1>59. ASSUME NEW c \in Cpus, SelfResume(c) PROVE FALSE
  BY <1>59 DEF SelfResume, NoSelfResume
<1>60. \A s \in Starts : s[1] \in Threads /\ s[2] \in Cpus /\ s[3] \in Levels
  BY ConstantsAssumption
<1>61. CASE \E k \in Callers : CallStarts(k) \/ CallContinues(k)
  BY <1>61, <1>60, <1>1, <1>2, <1>3, <1>4, <1>5, <1>6, <1>7, <1>8, <1>9, <1>10, <1>11,
     <1>12, <1>13, <1>14, <1>15, <1>16, <1>17, <1>18, <1>19, <1>20, <1>21
     DEF CallStarts, CallContinues
<1>62. CASE \E c \in Cpus : GuestActs(c) \/ PreemptCurrentFiber(c) \/ FiberContinues(c)
  BY <1>62, <1>59, <1>22, <1>23, <1>24, <1>25, <1>26, <1>27, <1>28, <1>29, <1>30, <1>31,
     <1>32, <1>33, <1>34, <1>35
     DEF GuestActs, FiberContinues
<1>63. CASE \E c \in Cpus : Dispatches(c) \/ RepollDue(c) \/ SleepTimeout(c)
  BY <1>63, <1>36, <1>37, <1>38, <1>39, <1>40, <1>41, <1>42, <1>43, <1>44, <1>45, <1>46,
     <1>47, <1>48, <1>49, <1>50, <1>51, <1>52, <1>53, <1>54, <1>55
     DEF Dispatches, Walks
<1>64. CASE ShutdownActs
  BY <1>64, <1>56, <1>57, <1>58 DEF ShutdownActs
<1> QED BY <1>61, <1>62, <1>63, <1>64 DEF Next
(* A thread that is over is out of the lists, and nothing links it.        *)
LEMMA OverStaysOut ==
  ASSUME NoSelfResume, plan \in Plans, "resume" \notin plan.calls, IInv, IInv', KeptInv,
           OutInv, Next
  PROVE  OverIsOut'
<1>0. /\ OverIsOut /\ Newcomers /\ LoopType /\ FiberType /\ LifeType /\ OwnType /\ CallType
      /\ queued \cup blocked \cup suspended \cup running \subseteq Threads
      /\ \A k \in Callers : call[k].pc \in {"markReady", "enqueue"} => call[k].t \in Threads
  BY DEF OutInv, IInv, TypeInv, ListInv, OwnType, RefInv, ThreadCallPcs
<1>a. \A c \in Cpus : loop[c] \in {"picked", "settled", "migrate", "fiber", "back"}
          => next[c] \in Threads /\ next[c] \in running
  BY Owning
<1>b. \A c, d \in Cpus : (loop[c] \in {"picked", "settled", "migrate", "fiber", "back"}
          /\ loop[d] \in {"picked", "settled", "migrate", "fiber", "back"} /\ next[c] = next[d])
               => c = d
  BY Owning
<1>c. \A c \in Cpus : loop[c] \in {"picked", "settled", "migrate", "fiber"}
          => next[c] \notin Listed
  BY Owning
<1>1. ASSUME NEW k \in Callers, NEW t \in Threads, NEW c \in Cpus, NEW p \in Levels,
               NEW b \in BOOLEAN, Create(k, t, c, p, b)
      PROVE  OverIsOut'
  BY <1>0, <1>a, <1>b, <1>c, <1>1 DEF Create, Begin, cpuVars, listVars, lifeVars,
     loopVars, ownVars, OverIsOut, Over, Listed, LoopType, FiberType, LifeType, OwnType
<1>2. ASSUME NEW k \in Callers, NEW t \in Threads, Resume(k, t)
      PROVE  OverIsOut'
  BY <1>0, <1>a, <1>b, <1>c, <1>2 DEF Resume, Begin, At, ResumesFrom, Exists,
     cpuVars, listVars, lifeVars, loopVars, ownVars, OverIsOut, Over, Listed, LoopType,
     FiberType, LifeType, OwnType
<1>3. ASSUME NEW k \in Callers, NEW t \in Threads, Suspend(k, t)
      PROVE  OverIsOut'
  BY <1>0, <1>a, <1>b, <1>c, <1>3 DEF Suspend, cpuVars, listVars, lifeVars,
     loopVars, ownVars, OverIsOut, Over, Listed, LoopType, FiberType, LifeType, OwnType
<1>4. ASSUME NEW k \in Callers, NEW t \in Threads, Terminate(k, t)
      PROVE  OverIsOut'
  BY <1>0, <1>a, <1>b, <1>c, <1>4 DEF Terminate, Begin, At, cpuVars, listVars,
     loopVars, ownVars, OverIsOut, Over, Listed, LoopType, FiberType, LifeType, OwnType
<1>5. ASSUME NEW k \in Callers, NEW t \in Threads, NEW c \in Cpus, SetActiveCpu(k, t, c)
      PROVE  OverIsOut'
  BY <1>0, <1>a, <1>b, <1>c, <1>5 DEF SetActiveCpu, Begin, At, cpuVars, listVars,
     lifeVars, loopVars, ownVars, OverIsOut, Over, Listed, LoopType, FiberType, LifeType,
     OwnType
<1>6. ASSUME NEW k \in Callers, NEW t \in Threads, NEW p \in Levels, PublishPriority(k, t, p)
      PROVE  OverIsOut'
  BY <1>0, <1>a, <1>b, <1>c, <1>6 DEF PublishPriority, Begin, At, cpuVars, listVars,
     lifeVars, loopVars, ownVars, OverIsOut, Over, Listed, LoopType, FiberType, LifeType,
     OwnType
<1>7. ASSUME NEW k \in Callers, NEW o \in Objects, Signal(k, o)
      PROVE  OverIsOut'
  BY <1>0, <1>a, <1>b, <1>c, <1>7 DEF Signal, Begin, At, cpuVars, listVars,
     lifeVars, loopVars, ownVars, OverIsOut, Over, Listed, LoopType, FiberType, LifeType,
     OwnType
<1>8. ASSUME NEW k \in Callers, BeginWakeAll(k)
      PROVE  OverIsOut'
  BY <1>0, <1>a, <1>b, <1>c, <1>8 DEF BeginWakeAll, Begin, At, threadVars, cpuVars,
     loopVars, listVars, lifeVars, ownVars, OverIsOut, Over, Listed, LoopType, FiberType,
     LifeType, OwnType
<1>9. ASSUME NEW k \in Callers, NEW C \in SUBSET BackgroundCpus, EnterBackgroundMode(k, C)
      PROVE  OverIsOut'
  BY <1>0, <1>a, <1>b, <1>c, <1>9 DEF EnterBackgroundMode, threadVars, ownVars,
     loopVars, listVars, lifeVars, OverIsOut, Over, Listed, LoopType, FiberType, LifeType,
     OwnType
<1>10. ASSUME NEW k \in Callers, ResumeThread(k)
      PROVE  OverIsOut'
  BY <1>0, <1>a, <1>b, <1>c, <1>10 DEF ResumeThread, Begin, At, LockFree, cpuVars,
     lifeVars, loopVars, ownVars, OverIsOut, Over, Listed, LoopType, FiberType, LifeType,
     OwnType
<1>11. ASSUME NEW k \in Callers, MarkReady(k)
      PROVE  OverIsOut'
  BY <1>0, <1>a, <1>b, <1>c, <1>11 DEF MarkReady, Begin, At, Return, threadVars,
     cpuVars, loopVars, listVars, lifeVars, ownVars, OverIsOut, Over, Listed, LoopType,
     FiberType, LifeType, OwnType
<1>12. ASSUME NEW k \in Callers, EnqueueReady(k)
      PROVE  OverIsOut'
  <2> DEFINE t == call[k].t
  <2>0. t \in Threads /\ fiber[t] = "new" /\ UNCHANGED <<fiber, loop, next>>
    BY <1>0, <1>12 DEF EnqueueReady, At, Newcomers, loopVars
  <2>1. Listed' \subseteq Listed \cup {t}
    BY <1>12 DEF EnqueueReady, LinkAtTurn, LinkReadyLocked, Listed
  <2> HIDE DEF t
  <2> QED BY <1>0, <2>0, <2>1 DEF OverIsOut, Over
<1>13. ASSUME NEW k \in Callers, TerminateThread(k)
      PROVE  OverIsOut'
  BY <1>0, <1>a, <1>b, <1>c, <1>13 DEF TerminateThread, At, LockFree,
     TerminateStopped, TerminateRunning, TerminateParked, TerminateUnlisted, Detach,
     Begin, Return, WakeAndReturn, LinkReadyLocked, cpuVars, listVars, loopVars, ownVars,
     OverIsOut, Over, Listed, LoopType, FiberType, LifeType, OwnType
<1>14. ASSUME NEW k \in Callers, ReclaimTerminated(k)
      PROVE  OverIsOut'
  BY <1>0, <1>a, <1>b, <1>c, <1>14 DEF ReclaimTerminated, At, Return, cpuVars,
     listVars, loopVars, ownVars, OverIsOut, Over, Listed, LoopType, FiberType, LifeType,
     OwnType
<1>15. ASSUME NEW k \in Callers, MigrateForAffinity(k)
      PROVE  OverIsOut'
  BY <1>0, <1>a, <1>b, <1>c, <1>15 DEF MigrateForAffinity, At, Return, LockFree,
     LinkAtTurn, LinkReadyLocked, WakeAndReturn, lifeVars, ownVars, loopVars, OverIsOut,
     Over, Listed, LoopType, FiberType, LifeType, OwnType
<1>16. ASSUME NEW k \in Callers, RequeueForPriority(k)
      PROVE  OverIsOut'
  BY <1>0, <1>a, <1>b, <1>c, <1>16 DEF RequeueForPriority, At, Return, LockFree,
     LinkReadyLocked, cpuVars, lifeVars, loopVars, ownVars, OverIsOut, Over, Listed,
     LoopType, FiberType, LifeType, OwnType
<1>17. ASSUME NEW k \in Callers, SignalCheck(k)
      PROVE  OverIsOut'
  BY <1>0, <1>a, <1>b, <1>c, <1>17 DEF SignalCheck, AnyBlocked, At, Begin, Return,
     threadVars, cpuVars, loopVars, listVars, lifeVars, ownVars, OverIsOut, Over, Listed,
     LoopType, FiberType, LifeType, OwnType
<1>18. ASSUME NEW k \in Callers, WakeForSignal(k)
      PROVE  OverIsOut'
  BY <1>0, <1>a, <1>b, <1>c, <1>18 DEF WakeForSignal, At, LockFree, WakeAndReturn,
     cpuVars, listVars, lifeVars, loopVars, ownVars, OverIsOut, Over, Listed, LoopType,
     FiberType, LifeType, OwnType
<1>19. ASSUME NEW k \in Callers, WakeAllCheck(k)
      PROVE  OverIsOut'
  BY <1>0, <1>a, <1>b, <1>c, <1>19 DEF WakeAllCheck, AnyBlocked, At, Begin, Return,
     threadVars, cpuVars, loopVars, listVars, lifeVars, ownVars, OverIsOut, Over, Listed,
     LoopType, FiberType, LifeType, OwnType
<1>20. ASSUME NEW k \in Callers, WakeAll(k)
      PROVE  OverIsOut'
  BY <1>0, <1>a, <1>b, <1>c, <1>20 DEF WakeAll, At, LockFree, WakeAndReturn,
     cpuVars, listVars, lifeVars, loopVars, ownVars, OverIsOut, Over, Listed, LoopType,
     FiberType, LifeType, OwnType
<1>21. ASSUME NEW k \in Callers, NEW c \in Cpus, Wake(k, c)
      PROVE  OverIsOut'
  BY <1>0, <1>a, <1>b, <1>c, <1>21 DEF Wake, At, WakeAndReturn, threadVars, ownVars,
     loopVars, listVars, lifeVars, OverIsOut, Over, Listed, LoopType, FiberType, LifeType,
     OwnType
<1>22. ASSUME NEW c \in Cpus, Yield(c)
      PROVE  OverIsOut'
  BY <1>0, <1>a, <1>b, <1>c, <1>22 DEF Yield, YieldCurrentThread, YieldLeavesAlone,
     ExitIfTerminated, YieldToScheduler, FiberAt, LinkAtTurn, LinkReadyLocked, OnCpu,
     LeftAlone, listVars, OverIsOut, Over, Listed, LoopType, FiberType, LifeType, OwnType
<1>23. ASSUME NEW c \in Cpus, SelfSuspend(c)
      PROVE  OverIsOut'
  BY <1>0, <1>a, <1>b, <1>c, <1>23 DEF SelfSuspend, YieldCurrentThread,
     YieldLeavesAlone, ExitIfTerminated, YieldToScheduler, FiberAt, LinkAtTurn,
     LinkReadyLocked, OnCpu, LeftAlone, listVars, OverIsOut, Over, Listed, LoopType,
     FiberType, LifeType, OwnType
<1>24. ASSUME NEW c \in Cpus, NEW S \in SUBSET Objects, SampleEpoch(c, S)
      PROVE  OverIsOut'
  BY <1>0, <1>a, <1>b, <1>c, <1>24 DEF SampleEpoch, OnCpu, FiberAt, StaysOnCpu,
     cpuVars, listVars, lifeVars, loopVars, ownVars, OverIsOut, Over, Listed, LoopType,
     FiberType, LifeType, OwnType
<1>25. ASSUME NEW c \in Cpus, Delay(c)
      PROVE  OverIsOut'
  BY <1>0, <1>a, <1>b, <1>c, <1>25 DEF Delay, BlockCurrentThread, ParkBlocked,
     ExitIfTerminated, BlockLeavesAlone, OnCpu, FiberAt, YieldToScheduler, PokeIfMoved,
     LockFree, OverIsOut, Over, Listed, LoopType, FiberType, LifeType, OwnType
<1>26. ASSUME NEW c \in Cpus, BlockUngated(c)
      PROVE  OverIsOut'
  BY <1>0, <1>a, <1>b, <1>c, <1>26 DEF BlockUngated, BlockCurrentThread,
     ParkBlocked, ExitIfTerminated, BlockLeavesAlone, OnCpu, FiberAt, YieldToScheduler,
     PokeIfMoved, LockFree, OverIsOut, Over, Listed, LoopType, FiberType, LifeType,
     OwnType
<1>27. ASSUME NEW c \in Cpus, WaitOnFence(c)
      PROVE  OverIsOut'
  BY <1>0, <1>a, <1>b, <1>c, <1>27 DEF WaitOnFence, ParkBlocked, BlockLeavesAlone,
     OnCpu, FiberAt, YieldToScheduler, PokeIfMoved, LockFree, OverIsOut, Over, Listed,
     LoopType, FiberType, LifeType, OwnType
<1>28. ASSUME NEW c \in Cpus, ExitBegin(c)
      PROVE  OverIsOut'
  BY <1>0, <1>a, <1>b, <1>c, <1>28 DEF ExitBegin, OnCpu, FiberAt, StaysOnCpu,
     cpuVars, listVars, loopVars, ownVars, OverIsOut, Over, Listed, LoopType, FiberType,
     LifeType, OwnType
<1>29. ASSUME NEW c \in Cpus, ExitYield(c)
      PROVE  OverIsOut'
  BY <1>0, <1>a, <1>b, <1>c, <1>29 DEF ExitYield, YieldCurrentThread,
     YieldLeavesAlone, ExitIfTerminated, YieldToScheduler, FiberAt, LinkAtTurn,
     LinkReadyLocked, OnCpu, LeftAlone, listVars, OverIsOut, Over, Listed, LoopType,
     FiberType, LifeType, OwnType
<1>30. ASSUME NEW c \in Cpus, Crash(c)
      PROVE  OverIsOut'
  BY <1>0, <1>a, <1>b, <1>c, <1>30 DEF Crash, OnCpu, FiberAt, YieldToScheduler,
     Detach, LockFree, OverIsOut, Over, Listed, LoopType, FiberType, LifeType, OwnType
<1>31. ASSUME NEW c \in Cpus, PreemptCurrentFiber(c)
      PROVE  OverIsOut'
  BY <1>0, <1>a, <1>b, <1>c, <1>31 DEF PreemptCurrentFiber, YieldCurrentThread,
     YieldLeavesAlone, ExitIfTerminated, YieldToScheduler, FiberAt, LinkAtTurn,
     LinkReadyLocked, OnCpu, LeftAlone, listVars, OverIsOut, Over, Listed, LoopType,
     FiberType, LifeType, OwnType
<1>32. ASSUME NEW c \in Cpus, FiberResume(c)
      PROVE  OverIsOut'
  <2> DEFINE t == next[c]
  <2>0. /\ loop[c] = "fiber" /\ t \in Threads /\ ~Over(t) /\ Listed' = Listed /\ t \notin Listed
             /\ next' = next
    BY <1>0, <1>a, <1>c, <1>32 DEF FiberResume, OnCpu, OverIsOut, listVars, Listed,
       ExitIfTerminated, YieldToScheduler
  <2>1. \A d \in Cpus : d # c /\ loop[d] \in {"picked", "settled", "migrate", "fiber"}
          => next[d] # t
    BY <1>b, <2>0
  <2>2. \A d \in Cpus : d # c => loop'[d] = loop[d]
    BY <1>0, <1>32 DEF FiberResume, ExitIfTerminated, YieldToScheduler, LoopType
  <2>3. \A u \in Threads : u # t => fiber'[u] = fiber[u]
    BY <1>0, <1>32 DEF FiberResume, ExitIfTerminated, FiberAt, FiberType
  <2>4. loop'[c] = "back" \/ fiber'[t] \notin {"exited", "diverted"}
    <3>1. CASE ExitIfTerminated(c)
      BY <1>0, <3>1 DEF ExitIfTerminated, YieldToScheduler, LoopType
    <3>2. CASE fiber' = [fiber EXCEPT ![t] = ResumedAt(fiber[t])]
      BY <1>0, <2>0, <3>2 DEF ResumedAt, FiberType
    <3> QED BY <1>32, <3>1, <3>2 DEF FiberResume, FiberAt
  <2> HIDE DEF t
  <2>5. \A u \in Listed : u \in Threads
    BY <1>0 DEF Listed
  <2>6. \A u \in Listed' : ~Over(u)'
    BY <1>0, <2>0, <2>3, <2>5 DEF OverIsOut, Over
  <2>7. ASSUME NEW d \in Cpus, loop'[d] \in {"picked", "settled", "migrate", "fiber"}
        PROVE  fiber'[next'[d]] \notin {"exited", "diverted"}
    <3>1. CASE d = c
      BY <2>0, <2>4, <2>7, <3>1 DEF t
    <3>2. CASE d # c
      BY <1>0, <1>a, <2>0, <2>1, <2>2, <2>3, <2>7, <3>2 DEF OverIsOut, Over
    <3> QED BY <3>1, <3>2
  <2> QED BY <2>6, <2>7 DEF OverIsOut, Over
<1>33. ASSUME NEW c \in Cpus, PollSatisfied(c)
      PROVE  OverIsOut'
  BY <1>0, <1>a, <1>b, <1>c, <1>33 DEF PollSatisfied, OnCpu, FiberAt, StaysOnCpu,
     cpuVars, listVars, lifeVars, loopVars, ownVars, OverIsOut, Over, Listed, LoopType,
     FiberType, LifeType, OwnType
<1>34. ASSUME NEW c \in Cpus, BlockOnObjects(c)
      PROVE  OverIsOut'
  BY <1>0, <1>a, <1>b, <1>c, <1>34 DEF BlockOnObjects, BlockCurrentThread,
     ParkBlocked, ExitIfTerminated, BlockLeavesAlone, OnCpu, FiberAt, YieldToScheduler,
     PokeIfMoved, LockFree, OverIsOut, Over, Listed, LoopType, FiberType, LifeType,
     OwnType
<1>35. ASSUME NEW c \in Cpus, ExitEnd(c)
      PROVE  OverIsOut'
  BY <1>0, <1>a, <1>b, <1>c, <1>35 DEF ExitEnd, OnCpu, FiberAt, YieldToScheduler,
     threadVars, listVars, lifeVars, OverIsOut, Over, Listed, LoopType, FiberType,
     LifeType, OwnType
<1>36. ASSUME NEW c \in Cpus, Top(c)
      PROVE  OverIsOut'
  BY <1>0, <1>a, <1>b, <1>c, <1>36 DEF Top, Goes, cpuVars, listVars, lifeVars,
     ownVars, OverIsOut, Over, Listed, LoopType, FiberType, LifeType, OwnType
<1>37. ASSUME NEW c \in Cpus, RepollDue(c)
      PROVE  OverIsOut'
  BY <1>0, <1>a, <1>b, <1>c, <1>37 DEF RepollDue, Goes, threadVars, cpuVars,
     listVars, lifeVars, ownVars, OverIsOut, Over, Listed, LoopType, FiberType, LifeType,
     OwnType
<1>38. ASSUME NEW c \in Cpus, SleepTimeout(c)
      PROVE  OverIsOut'
  BY <1>0, <1>a, <1>b, <1>c, <1>38 DEF SleepTimeout, WakesUp, Goes, threadVars,
     ownVars, listVars, lifeVars, OverIsOut, Over, Listed, LoopType, FiberType, LifeType,
     OwnType
<1>39. ASSUME NEW c \in Cpus, RereadyBegin(c)
      PROVE  OverIsOut'
  BY <1>0, <1>a, <1>b, <1>c, <1>39 DEF RereadyBegin, Goes, LockFree, cpuVars,
     listVars, lifeVars, ownVars, OverIsOut, Over, Listed, LoopType, FiberType, LifeType,
     OwnType
<1>40. ASSUME NEW c \in Cpus, NEW t \in Threads, KeepBlocked(c, t)
      PROVE  OverIsOut'
  BY <1>0, <1>a, <1>b, <1>c, <1>40 DEF KeepBlocked, MayHaveResolved, Visits,
     cpuVars, listVars, lifeVars, loopVars, ownVars, OverIsOut, Over, Listed, LoopType,
     FiberType, LifeType, OwnType
<1>41. ASSUME NEW c \in Cpus, NEW t \in Threads, Reready(c, t)
      PROVE  OverIsOut'
  <2>1. t \in blocked /\ Listed' \subseteq Listed \cup {t} /\ UNCHANGED <<fiber, loop, next>>
    BY <1>41, VisitedIsBlocked DEF Reready, LinkAtTurn, LinkReadyLocked, Listed, loopVars
  <2> QED BY <1>0, <2>1 DEF OverIsOut, Over, Listed
<1>42. ASSUME NEW c \in Cpus, RereadyEnd(c)
      PROVE  OverIsOut'
  BY <1>0, <1>a, <1>b, <1>c, <1>42 DEF RereadyEnd, Goes, cpuVars, listVars,
     lifeVars, ownVars, OverIsOut, Over, Listed, LoopType, FiberType, LifeType, OwnType
<1>43. ASSUME NEW c \in Cpus, LoopWoken(c)
      PROVE  OverIsOut'
  BY <1>0, <1>a, <1>b, <1>c, <1>43 DEF LoopWoken, Goes, threadVars, cpuVars,
     listVars, lifeVars, ownVars, OverIsOut, Over, Listed, LoopType, FiberType, LifeType,
     OwnType
<1>44. ASSUME NEW c \in Cpus, NEW d \in Cpus, LoopWake(c, d)
      PROVE  OverIsOut'
  BY <1>0, <1>a, <1>b, <1>c, <1>44 DEF LoopWake, threadVars, ownVars, loopVars,
     listVars, lifeVars, OverIsOut, Over, Listed, LoopType, FiberType, LifeType, OwnType
<1>45. ASSUME NEW c \in Cpus, DequeueReady(c)
      PROVE  OverIsOut'
  <2>1. PICK t \in queued : /\ queued' = queued \ {t} /\ next' = [next EXCEPT ![c] = t]
                            /\ loop[c] = "dequeue" /\ loop' = [loop EXCEPT ![c] = "picked"]
                            /\ UNCHANGED <<blocked, suspended, fiber>>
    BY <1>45, DequeueDoes
  <2> QED BY <1>0, <2>1 DEF OverIsOut, Over, Listed, LoopType
<1>46. ASSUME NEW c \in Cpus, DequeueNothing(c)
      PROVE  OverIsOut'
  BY <1>0, <1>a, <1>b, <1>c, <1>46 DEF DequeueNothing, Goes, LockFree, threadVars,
     cpuVars, listVars, lifeVars, ownVars, OverIsOut, Over, Listed, LoopType, FiberType,
     LifeType, OwnType
<1>47. ASSUME NEW c \in Cpus, Picked(c)
      PROVE  OverIsOut'
  BY <1>0, <1>a, <1>b, <1>c, <1>47 DEF Picked, threadVars, cpuVars, listVars,
     lifeVars, ownVars, OverIsOut, Over, Listed, LoopType, FiberType, LifeType, OwnType
<1>48. ASSUME NEW c \in Cpus, MigrateHome(c)
      PROVE  OverIsOut'
  BY <1>0, <1>a, <1>b, <1>c, <1>48 DEF MigrateHome, LinkAtTurn, LinkReadyLocked,
     LockFree, lifeVars, OverIsOut, Over, Listed, LoopType, FiberType, LifeType, OwnType
<1>49. ASSUME NEW c \in Cpus, ParkSuspended(c)
      PROVE  OverIsOut'
  BY <1>0, <1>a, <1>b, <1>c, <1>49 DEF ParkSuspended, LockFree, MustPark, lifeVars,
     OverIsOut, Over, Listed, LoopType, FiberType, LifeType, OwnType
<1>50. ASSUME NEW c \in Cpus, SwitchTo(c)
      PROVE  OverIsOut'
  BY <1>0, <1>a, <1>b, <1>c, <1>50 DEF SwitchTo, Goes, listVars, OverIsOut, Over,
     Listed, LoopType, FiberType, LifeType, OwnType
<1>51. ASSUME NEW c \in Cpus, SwitchedBack(c)
      PROVE  OverIsOut'
  BY <1>0, <1>a, <1>b, <1>c, <1>51 DEF SwitchedBack, AfterSwitch, threadVars,
     listVars, lifeVars, OverIsOut, Over, Listed, LoopType, FiberType, LifeType, OwnType
<1>52. ASSUME NEW c \in Cpus, ReclaimExited(c)
      PROVE  OverIsOut'
  BY <1>0, <1>a, <1>b, <1>c, <1>52 DEF ReclaimExited, Goes, listVars, OverIsOut,
     Over, Listed, LoopType, FiberType, LifeType, OwnType
<1>53. ASSUME NEW c \in Cpus, IdleParks(c)
      PROVE  OverIsOut'
  BY <1>0, <1>a, <1>b, <1>c, <1>53 DEF IdleParks, Goes, threadVars, ownVars,
     listVars, lifeVars, OverIsOut, Over, Listed, LoopType, FiberType, LifeType, OwnType
<1>54. ASSUME NEW c \in Cpus, IdleRechecks(c)
      PROVE  OverIsOut'
  BY <1>0, <1>a, <1>b, <1>c, <1>54 DEF IdleRechecks, Goes, HasWork, LockFree,
     threadVars, ownVars, listVars, lifeVars, OverIsOut, Over, Listed, LoopType,
     FiberType, LifeType, OwnType
<1>55. ASSUME NEW c \in Cpus, SleepWoken(c)
      PROVE  OverIsOut'
  BY <1>0, <1>a, <1>b, <1>c, <1>55 DEF SleepWoken, WakesUp, Goes, threadVars,
     ownVars, listVars, lifeVars, OverIsOut, Over, Listed, LoopType, FiberType, LifeType,
     OwnType
<1>56. ASSUME ShutdownBegin
      PROVE  OverIsOut'
  BY <1>0, <1>a, <1>b, <1>c, <1>56 DEF ShutdownBegin, threadVars, cpuVars, loopVars,
     listVars, lifeVars, ownVars, OverIsOut, Over, Listed, LoopType, FiberType, LifeType,
     OwnType
<1>57. ASSUME NEW c \in Cpus, ShutdownNudge(c)
      PROVE  OverIsOut'
  BY <1>0, <1>a, <1>b, <1>c, <1>57 DEF ShutdownNudge, threadVars, ownVars, loopVars,
     listVars, lifeVars, OverIsOut, Over, Listed, LoopType, FiberType, LifeType, OwnType
<1>58. ASSUME ShutdownDrain
      PROVE  OverIsOut'
  BY <1>0, <1>a, <1>b, <1>c, <1>58 DEF ShutdownDrain, Listed, Leftovers, loopVars,
     OverIsOut, Over, Listed, LoopType, FiberType, LifeType, OwnType
<1>59. ASSUME NEW c \in Cpus, SelfResume(c) PROVE FALSE
  BY <1>59 DEF SelfResume, NoSelfResume
<1>60. \A s \in Starts : s[1] \in Threads /\ s[2] \in Cpus /\ s[3] \in Levels
  BY ConstantsAssumption
<1>61. CASE \E k \in Callers : CallStarts(k) \/ CallContinues(k)
  BY <1>61, <1>60, <1>1, <1>2, <1>3, <1>4, <1>5, <1>6, <1>7, <1>8, <1>9, <1>10, <1>11,
     <1>12, <1>13, <1>14, <1>15, <1>16, <1>17, <1>18, <1>19, <1>20, <1>21
     DEF CallStarts, CallContinues
<1>62. CASE \E c \in Cpus : GuestActs(c) \/ PreemptCurrentFiber(c) \/ FiberContinues(c)
  BY <1>62, <1>59, <1>22, <1>23, <1>24, <1>25, <1>26, <1>27, <1>28, <1>29, <1>30, <1>31,
     <1>32, <1>33, <1>34, <1>35
     DEF GuestActs, FiberContinues
<1>63. CASE \E c \in Cpus : Dispatches(c) \/ RepollDue(c) \/ SleepTimeout(c)
  BY <1>63, <1>36, <1>37, <1>38, <1>39, <1>40, <1>41, <1>42, <1>43, <1>44, <1>45, <1>46,
     <1>47, <1>48, <1>49, <1>50, <1>51, <1>52, <1>53, <1>54, <1>55
     DEF Dispatches, Walks
<1>64. CASE ShutdownActs
  BY <1>64, <1>56, <1>57, <1>58 DEF ShutdownActs
<1> QED BY <1>61, <1>62, <1>63, <1>64 DEF Next
(* A thread that its Create readies is in no list until that Create queues *)
(* it.                                                                     *)
LEMMA NewcomersAreNew ==
  ASSUME NoSelfResume, plan \in Plans, "resume" \notin plan.calls, IInv, IInv', KeptInv,
           OutInv, Next
  PROVE  Newcomers'
<1>0. /\ Newcomers /\ RefInv /\ LoopType /\ FiberType /\ LifeType /\ OwnType /\ CallType
      /\ queued \cup blocked \cup suspended \cup running \subseteq Threads
      /\ \A k \in Callers : call[k].pc # "unlink"
  BY DEF OutInv, IInv, TypeInv, ListInv, OwnType, KeptInv, EndRegime
<1>a. \A c \in Cpus : loop[c] \in {"picked", "settled", "migrate", "fiber", "back"}
          => next[c] \in Threads /\ next[c] \in running
  BY Owning
<1>1. ASSUME NEW k \in Callers, NEW t \in Threads, NEW c \in Cpus, NEW p \in Levels,
               NEW b \in BOOLEAN, Create(k, t, c, p, b)
      PROVE  Newcomers'
  <2>1. /\ call[k].pc = "idle" /\ fiber[t] = "none" /\ fiber' = [fiber EXCEPT ![t] = "new"]
        /\ UNCHANGED <<queued, blocked, suspended, running, hasRun>>
    BY <1>1 DEF Create, At, Exists, listVars, cpuVars, ownVars, lifeVars
  <2>2. /\ \A j \in Callers : j # k => call'[j] = call[j]
        /\ call'[k].pc \in {"markReady", "enqueue"} => call'[k].t = t
    BY <1>0, <1>1 DEF Create, At, Begin, CallType
  <2>3. t \notin Listed \cup running \cup hasRun
    BY <2>1 DEF IInv, RefInv, Exists, KeptInv, RanExists
  <2>4. \A j \in Callers : call[j].pc \in {"markReady", "enqueue"}
          => call[j].t \in Threads \ {t}
    BY <2>1 DEF IInv, RefInv, Exists, ThreadCallPcs
  <2> QED BY <1>0, <2>1, <2>2, <2>3, <2>4 DEF Newcomers, Listed, FiberType
<1>2. ASSUME NEW k \in Callers, NEW t \in Threads, Resume(k, t)
      PROVE  Newcomers'
  BY <1>0, <1>a, <1>2, NewcomersRest DEF Resume, Begin, At, ResumesFrom, Exists,
     cpuVars, listVars, lifeVars, loopVars, ownVars, Listed, LoopType, FiberType,
     LifeType, OwnType, CallType
<1>3. ASSUME NEW k \in Callers, NEW t \in Threads, Suspend(k, t)
      PROVE  Newcomers'
  BY <1>0, <1>a, <1>3, NewcomersRest DEF Suspend, cpuVars, listVars, lifeVars, loopVars,
     ownVars, Listed, LoopType, FiberType, LifeType, OwnType, CallType
<1>4. ASSUME NEW k \in Callers, NEW t \in Threads, Terminate(k, t)
      PROVE  Newcomers'
  BY <1>0, <1>a, <1>4, NewcomersRest DEF Terminate, Begin, At, cpuVars, listVars,
     stateVars, loopVars, ownVars, Listed, LoopType, FiberType, LifeType, OwnType,
     CallType
<1>5. ASSUME NEW k \in Callers, NEW t \in Threads, NEW c \in Cpus, SetActiveCpu(k, t, c)
      PROVE  Newcomers'
  BY <1>0, <1>a, <1>5, NewcomersRest DEF SetActiveCpu, Begin, At, cpuVars, listVars,
     lifeVars, loopVars, ownVars, Listed, LoopType, FiberType, LifeType, OwnType, CallType
<1>6. ASSUME NEW k \in Callers, NEW t \in Threads, NEW p \in Levels, PublishPriority(k, t, p)
      PROVE  Newcomers'
  BY <1>0, <1>a, <1>6, NewcomersRest DEF PublishPriority, Begin, At, cpuVars, listVars,
     lifeVars, loopVars, ownVars, Listed, LoopType, FiberType, LifeType, OwnType, CallType
<1>7. ASSUME NEW k \in Callers, NEW o \in Objects, Signal(k, o)
      PROVE  Newcomers'
  BY <1>0, <1>a, <1>7, NewcomersRest DEF Signal, Begin, At, cpuVars, listVars,
     stateVars, lifeVars, loopVars, ownVars, Listed, LoopType, FiberType, LifeType,
     OwnType, CallType
<1>8. ASSUME NEW k \in Callers, BeginWakeAll(k)
      PROVE  Newcomers'
  BY <1>0, <1>a, <1>8, NewcomersRest DEF BeginWakeAll, Begin, At, threadVars, cpuVars,
     loopVars, listVars, stateVars, lifeVars, ownVars, Listed, LoopType, FiberType,
     LifeType, OwnType, CallType
<1>9. ASSUME NEW k \in Callers, NEW C \in SUBSET BackgroundCpus, EnterBackgroundMode(k, C)
      PROVE  Newcomers'
  BY <1>0, <1>a, <1>9, NewcomersRest DEF EnterBackgroundMode, threadVars, ownVars,
     loopVars, listVars, stateVars, lifeVars, Listed, LoopType, FiberType, LifeType,
     OwnType, CallType
<1>10. ASSUME NEW k \in Callers, ResumeThread(k)
      PROVE  Newcomers'
  BY <1>0, <1>a, <1>10, NewcomersRest DEF ResumeThread, Begin, At, LockFree, cpuVars,
     stateVars, lifeVars, loopVars, ownVars, Listed, LoopType, FiberType, LifeType,
     OwnType, CallType
<1>11. ASSUME NEW k \in Callers, MarkReady(k)
      PROVE  Newcomers'
  BY <1>0, <1>a, <1>11, NewcomersRest DEF MarkReady, Begin, At, Return, threadVars,
     cpuVars, loopVars, listVars, stateVars, lifeVars, ownVars, Listed, LoopType,
     FiberType, LifeType, OwnType, CallType, Idle
<1>12. ASSUME NEW k \in Callers, EnqueueReady(k)
      PROVE  Newcomers'
  <2> DEFINE t == call[k].t
  <2>0. t \in Threads /\ call[k].pc = "enqueue" /\ UNCHANGED <<fiber, running, hasRun>>
    BY <1>0, <1>12 DEF EnqueueReady, At, RefInv, ThreadCallPcs, lifeVars, cpuVars, ownVars
  <2>1. Listed' \subseteq Listed \cup {t}
    BY <1>12 DEF EnqueueReady, LinkAtTurn, LinkReadyLocked, Listed
  <2>2. call'[k].pc \notin {"markReady", "enqueue"} /\ \A j \in Callers : j # k
          => call'[j] = call[j]
    <3>1. Return(k) \/ \E W : WakeAndReturn(k, W)
      BY <1>12 DEF EnqueueReady
    <3> QED BY <1>0, <3>1 DEF Return, WakeAndReturn, CallType, Idle
  <2>3. \A j \in Callers : j # k /\ call[j].pc \in {"markReady", "enqueue"} => call[j].t # t
    BY <2>0 DEF OutInv, Newcomers
  <2> HIDE DEF t
  <2> QED BY <1>0, <2>0, <2>1, <2>2, <2>3 DEF Newcomers
<1>13. ASSUME NEW k \in Callers, TerminateThread(k)
      PROVE  Newcomers'
  <2>0. PICK t : t = call[k].t
    OBVIOUS
  <2>1. /\ \A j \in Callers : j # k => call'[j] = call[j]
        /\ UNCHANGED <<fiber, running, hasRun>>
    BY <1>13, <2>0, TerminateDoes DEF cpuVars, ownVars, TerminateThread
  <2>2. Listed' \subseteq Listed
    BY <1>13, <2>0 DEF TerminateThread, TerminateStopped, TerminateRunning,
       TerminateParked, TerminateUnlisted, Detach, LinkReadyLocked, listVars, Listed
  <2>3. call'[k].pc \notin {"markReady", "enqueue"}
    <3>1. Return(k) \/ (\E W : WakeAndReturn(k, W)) \/ Begin(k, "reclaim", t, None)
      BY <1>13, <2>0 DEF TerminateThread, TerminateStopped, TerminateRunning,
         TerminateParked, TerminateUnlisted
    <3> QED BY <1>0, <1>13, <3>1 DEF TerminateThread, At, Return, WakeAndReturn, Begin,
      CallType, Idle
  <2> QED BY <1>0, <2>1, <2>2, <2>3, NewcomersRest
<1>14. ASSUME NEW k \in Callers, ReclaimTerminated(k)
      PROVE  Newcomers'
  BY <1>0, <1>a, <1>14, NewcomersRest DEF ReclaimTerminated, At, Return, cpuVars,
     listVars, stateVars, loopVars, ownVars, Listed, LoopType, FiberType, LifeType,
     OwnType, CallType, Idle
<1>15. ASSUME NEW k \in Callers, MigrateForAffinity(k)
      PROVE  Newcomers'
  <2>1. UNCHANGED <<fiber, running, hasRun>> /\ Listed' \subseteq Listed
    BY <1>15 DEF MigrateForAffinity, LinkAtTurn, LinkReadyLocked, Listed, ownVars,
       lifeVars
  <2>2. call'[k].pc \notin {"markReady", "enqueue"} /\ \A j \in Callers : j # k
          => call'[j] = call[j]
    <3>1. Return(k) \/ \E W : WakeAndReturn(k, W)
      BY <1>15 DEF MigrateForAffinity
    <3> QED BY <1>0, <1>15, <3>1 DEF MigrateForAffinity, At, Return, WakeAndReturn,
      CallType, Idle
  <2> QED BY <1>0, <2>1, <2>2, NewcomersRest
<1>16. ASSUME NEW k \in Callers, RequeueForPriority(k)
      PROVE  Newcomers'
  BY <1>0, <1>a, <1>16, NewcomersRest DEF RequeueForPriority, At, Return, LockFree,
     LinkReadyLocked, cpuVars, stateVars, lifeVars, loopVars, ownVars, Listed, LoopType,
     FiberType, LifeType, OwnType, CallType, Idle
<1>17. ASSUME NEW k \in Callers, SignalCheck(k)
      PROVE  Newcomers'
  BY <1>0, <1>a, <1>17, NewcomersRest DEF SignalCheck, AnyBlocked, At, Begin, Return,
     threadVars, cpuVars, loopVars, listVars, stateVars, lifeVars, ownVars, Listed,
     LoopType, FiberType, LifeType, OwnType, CallType, Idle
<1>18. ASSUME NEW k \in Callers, WakeForSignal(k)
      PROVE  Newcomers'
  BY <1>0, <1>a, <1>18, NewcomersRest DEF WakeForSignal, At, LockFree, WakeAndReturn,
     cpuVars, listVars, stateVars, lifeVars, loopVars, ownVars, Listed, LoopType,
     FiberType, LifeType, OwnType, CallType, Idle
<1>19. ASSUME NEW k \in Callers, WakeAllCheck(k)
      PROVE  Newcomers'
  BY <1>0, <1>a, <1>19, NewcomersRest DEF WakeAllCheck, AnyBlocked, At, Begin, Return,
     threadVars, cpuVars, loopVars, listVars, stateVars, lifeVars, ownVars, Listed,
     LoopType, FiberType, LifeType, OwnType, CallType, Idle
<1>20. ASSUME NEW k \in Callers, WakeAll(k)
      PROVE  Newcomers'
  BY <1>0, <1>a, <1>20, NewcomersRest DEF WakeAll, At, LockFree, WakeAndReturn, cpuVars,
     listVars, stateVars, lifeVars, loopVars, ownVars, Listed, LoopType, FiberType,
     LifeType, OwnType, CallType, Idle
<1>21. ASSUME NEW k \in Callers, NEW c \in Cpus, Wake(k, c)
      PROVE  Newcomers'
  BY <1>0, <1>a, <1>21, NewcomersRest DEF Wake, At, WakeAndReturn, threadVars, ownVars,
     loopVars, listVars, stateVars, lifeVars, Listed, LoopType, FiberType, LifeType,
     OwnType, CallType, Idle
<1>22. ASSUME NEW c \in Cpus, Yield(c)
      PROVE  Newcomers'
  <2>1. /\ loop[c] = "fiber" /\ UNCHANGED <<call, running, hasRun, suspended>>
        /\ queued' \subseteq queued \cup {next[c]} /\ blocked' \subseteq blocked \cup {next[c]}
        /\ \A t \in Threads : t # next[c] => fiber'[t] = fiber[t]
    BY <1>0, <1>22 DEF Yield, YieldCurrentThread, YieldLeavesAlone, ExitIfTerminated,
       YieldToScheduler, FiberAt, LinkAtTurn, LinkReadyLocked, OnCpu, LeftAlone, listVars,
       FiberType
  <2>2. (Listed \cup running \cup hasRun)' \subseteq Listed \cup running \cup hasRun
    BY <1>a, <2>1 DEF Listed
  <2> QED BY <1>0, <1>a, <2>1, <2>2, NewcomersRest
<1>23. ASSUME NEW c \in Cpus, SelfSuspend(c)
      PROVE  Newcomers'
  <2>1. /\ loop[c] = "fiber" /\ UNCHANGED <<call, running, hasRun, suspended>>
        /\ queued' \subseteq queued \cup {next[c]} /\ blocked' \subseteq blocked \cup {next[c]}
        /\ \A t \in Threads : t # next[c] => fiber'[t] = fiber[t]
    BY <1>0, <1>23 DEF SelfSuspend, YieldCurrentThread, YieldLeavesAlone,
       ExitIfTerminated, YieldToScheduler, FiberAt, LinkAtTurn, LinkReadyLocked, OnCpu,
       LeftAlone, listVars, FiberType
  <2>2. (Listed \cup running \cup hasRun)' \subseteq Listed \cup running \cup hasRun
    BY <1>a, <2>1 DEF Listed
  <2> QED BY <1>0, <1>a, <2>1, <2>2, NewcomersRest
<1>24. ASSUME NEW c \in Cpus, NEW S \in SUBSET Objects, SampleEpoch(c, S)
      PROVE  Newcomers'
  <2>1. /\ loop[c] = "fiber" /\ UNCHANGED <<call, running, hasRun, suspended>>
        /\ queued' \subseteq queued \cup {next[c]} /\ blocked' \subseteq blocked \cup {next[c]}
        /\ \A t \in Threads : t # next[c] => fiber'[t] = fiber[t]
    BY <1>0, <1>24 DEF SampleEpoch, OnCpu, FiberAt, StaysOnCpu, cpuVars, listVars,
       stateVars, lifeVars, loopVars, ownVars, FiberType
  <2>2. (Listed \cup running \cup hasRun)' \subseteq Listed \cup running \cup hasRun
    BY <1>a, <2>1 DEF Listed
  <2> QED BY <1>0, <1>a, <2>1, <2>2, NewcomersRest
<1>25. ASSUME NEW c \in Cpus, Delay(c)
      PROVE  Newcomers'
  <2>1. /\ loop[c] = "fiber" /\ UNCHANGED <<call, running, hasRun, suspended>>
        /\ queued' \subseteq queued \cup {next[c]} /\ blocked' \subseteq blocked \cup {next[c]}
        /\ \A t \in Threads : t # next[c] => fiber'[t] = fiber[t]
    BY <1>0, <1>25 DEF Delay, BlockCurrentThread, ParkBlocked, ExitIfTerminated,
       BlockLeavesAlone, OnCpu, FiberAt, YieldToScheduler, PokeIfMoved, LockFree,
       stateVars, FiberType
  <2>2. (Listed \cup running \cup hasRun)' \subseteq Listed \cup running \cup hasRun
    BY <1>a, <2>1 DEF Listed
  <2> QED BY <1>0, <1>a, <2>1, <2>2, NewcomersRest
<1>26. ASSUME NEW c \in Cpus, BlockUngated(c)
      PROVE  Newcomers'
  <2>1. /\ loop[c] = "fiber" /\ UNCHANGED <<call, running, hasRun, suspended>>
        /\ queued' \subseteq queued \cup {next[c]} /\ blocked' \subseteq blocked \cup {next[c]}
        /\ \A t \in Threads : t # next[c] => fiber'[t] = fiber[t]
    BY <1>0, <1>26 DEF BlockUngated, BlockCurrentThread, ParkBlocked, ExitIfTerminated,
       BlockLeavesAlone, OnCpu, FiberAt, YieldToScheduler, PokeIfMoved, LockFree,
       stateVars, FiberType
  <2>2. (Listed \cup running \cup hasRun)' \subseteq Listed \cup running \cup hasRun
    BY <1>a, <2>1 DEF Listed
  <2> QED BY <1>0, <1>a, <2>1, <2>2, NewcomersRest
<1>27. ASSUME NEW c \in Cpus, WaitOnFence(c)
      PROVE  Newcomers'
  <2>1. /\ loop[c] = "fiber" /\ UNCHANGED <<call, running, hasRun, suspended>>
        /\ queued' \subseteq queued \cup {next[c]} /\ blocked' \subseteq blocked \cup {next[c]}
        /\ \A t \in Threads : t # next[c] => fiber'[t] = fiber[t]
    BY <1>0, <1>27 DEF WaitOnFence, ParkBlocked, BlockLeavesAlone, OnCpu, FiberAt,
       YieldToScheduler, PokeIfMoved, LockFree, stateVars, FiberType
  <2>2. (Listed \cup running \cup hasRun)' \subseteq Listed \cup running \cup hasRun
    BY <1>a, <2>1 DEF Listed
  <2> QED BY <1>0, <1>a, <2>1, <2>2, NewcomersRest
<1>28. ASSUME NEW c \in Cpus, ExitBegin(c)
      PROVE  Newcomers'
  <2>1. /\ loop[c] = "fiber" /\ UNCHANGED <<call, running, hasRun, suspended>>
        /\ queued' \subseteq queued \cup {next[c]} /\ blocked' \subseteq blocked \cup {next[c]}
        /\ \A t \in Threads : t # next[c] => fiber'[t] = fiber[t]
    BY <1>0, <1>28 DEF ExitBegin, OnCpu, FiberAt, StaysOnCpu, cpuVars, listVars,
       stateVars, loopVars, ownVars, FiberType
  <2>2. (Listed \cup running \cup hasRun)' \subseteq Listed \cup running \cup hasRun
    BY <1>a, <2>1 DEF Listed
  <2> QED BY <1>0, <1>a, <2>1, <2>2, NewcomersRest
<1>29. ASSUME NEW c \in Cpus, ExitYield(c)
      PROVE  Newcomers'
  <2>1. /\ loop[c] = "fiber" /\ UNCHANGED <<call, running, hasRun, suspended>>
        /\ queued' \subseteq queued \cup {next[c]} /\ blocked' \subseteq blocked \cup {next[c]}
        /\ \A t \in Threads : t # next[c] => fiber'[t] = fiber[t]
    BY <1>0, <1>29 DEF ExitYield, YieldCurrentThread, YieldLeavesAlone, ExitIfTerminated,
       YieldToScheduler, FiberAt, LinkAtTurn, LinkReadyLocked, OnCpu, LeftAlone, listVars,
       FiberType
  <2>2. (Listed \cup running \cup hasRun)' \subseteq Listed \cup running \cup hasRun
    BY <1>a, <2>1 DEF Listed
  <2> QED BY <1>0, <1>a, <2>1, <2>2, NewcomersRest
<1>30. ASSUME NEW c \in Cpus, Crash(c)
      PROVE  Newcomers'
  BY <1>0, <1>a, <1>30, NewcomersRest DEF Crash, OnCpu, FiberAt, YieldToScheduler,
     Detach, LockFree, stateVars, Listed, LoopType, FiberType, LifeType, OwnType, CallType
<1>31. ASSUME NEW c \in Cpus, PreemptCurrentFiber(c)
      PROVE  Newcomers'
  <2>1. /\ loop[c] = "fiber" /\ UNCHANGED <<call, running, hasRun, suspended>>
        /\ queued' \subseteq queued \cup {next[c]} /\ blocked' \subseteq blocked \cup {next[c]}
        /\ \A t \in Threads : t # next[c] => fiber'[t] = fiber[t]
    BY <1>0, <1>31 DEF PreemptCurrentFiber, YieldCurrentThread, YieldLeavesAlone,
       ExitIfTerminated, YieldToScheduler, FiberAt, LinkAtTurn, LinkReadyLocked, OnCpu,
       LeftAlone, listVars, FiberType
  <2>2. (Listed \cup running \cup hasRun)' \subseteq Listed \cup running \cup hasRun
    BY <1>a, <2>1 DEF Listed
  <2> QED BY <1>0, <1>a, <2>1, <2>2, NewcomersRest
<1>32. ASSUME NEW c \in Cpus, FiberResume(c)
      PROVE  Newcomers'
  <2>1. /\ loop[c] = "fiber" /\ UNCHANGED <<call, running, hasRun, suspended>>
        /\ queued' \subseteq queued \cup {next[c]} /\ blocked' \subseteq blocked \cup {next[c]}
        /\ \A t \in Threads : t # next[c] => fiber'[t] = fiber[t]
    BY <1>0, <1>32 DEF FiberResume, OnCpu, ExitIfTerminated, FiberAt, YieldToScheduler,
       listVars, stateVars, FiberType
  <2>2. (Listed \cup running \cup hasRun)' \subseteq Listed \cup running \cup hasRun
    BY <1>a, <2>1 DEF Listed
  <2> QED BY <1>0, <1>a, <2>1, <2>2, NewcomersRest
<1>33. ASSUME NEW c \in Cpus, PollSatisfied(c)
      PROVE  Newcomers'
  <2>1. /\ loop[c] = "fiber" /\ UNCHANGED <<call, running, hasRun, suspended>>
        /\ queued' \subseteq queued \cup {next[c]} /\ blocked' \subseteq blocked \cup {next[c]}
        /\ \A t \in Threads : t # next[c] => fiber'[t] = fiber[t]
    BY <1>0, <1>33 DEF PollSatisfied, OnCpu, FiberAt, StaysOnCpu, cpuVars, listVars,
       stateVars, lifeVars, loopVars, ownVars, FiberType
  <2>2. (Listed \cup running \cup hasRun)' \subseteq Listed \cup running \cup hasRun
    BY <1>a, <2>1 DEF Listed
  <2> QED BY <1>0, <1>a, <2>1, <2>2, NewcomersRest
<1>34. ASSUME NEW c \in Cpus, BlockOnObjects(c)
      PROVE  Newcomers'
  <2>1. /\ loop[c] = "fiber" /\ UNCHANGED <<call, running, hasRun, suspended>>
        /\ queued' \subseteq queued \cup {next[c]} /\ blocked' \subseteq blocked \cup {next[c]}
        /\ \A t \in Threads : t # next[c] => fiber'[t] = fiber[t]
    BY <1>0, <1>34 DEF BlockOnObjects, BlockCurrentThread, ParkBlocked, ExitIfTerminated,
       BlockLeavesAlone, OnCpu, FiberAt, YieldToScheduler, PokeIfMoved, LockFree,
       stateVars, FiberType
  <2>2. (Listed \cup running \cup hasRun)' \subseteq Listed \cup running \cup hasRun
    BY <1>a, <2>1 DEF Listed
  <2> QED BY <1>0, <1>a, <2>1, <2>2, NewcomersRest
<1>35. ASSUME NEW c \in Cpus, ExitEnd(c)
      PROVE  Newcomers'
  <2>1. /\ loop[c] = "fiber" /\ UNCHANGED <<call, running, hasRun, suspended>>
        /\ queued' \subseteq queued \cup {next[c]} /\ blocked' \subseteq blocked \cup {next[c]}
        /\ \A t \in Threads : t # next[c] => fiber'[t] = fiber[t]
    BY <1>0, <1>35 DEF ExitEnd, OnCpu, FiberAt, YieldToScheduler, threadVars, listVars,
       stateVars, lifeVars, FiberType
  <2>2. (Listed \cup running \cup hasRun)' \subseteq Listed \cup running \cup hasRun
    BY <1>a, <2>1 DEF Listed
  <2> QED BY <1>0, <1>a, <2>1, <2>2, NewcomersRest
<1>36. ASSUME NEW c \in Cpus, Top(c)
      PROVE  Newcomers'
  BY <1>0, <1>a, <1>36, NewcomersRest DEF Top, Goes, cpuVars, listVars, stateVars,
     lifeVars, ownVars, Listed, LoopType, FiberType, LifeType, OwnType, CallType
<1>37. ASSUME NEW c \in Cpus, RepollDue(c)
      PROVE  Newcomers'
  BY <1>0, <1>a, <1>37, NewcomersRest DEF RepollDue, Goes, threadVars, cpuVars,
     listVars, stateVars, lifeVars, ownVars, Listed, LoopType, FiberType, LifeType,
     OwnType, CallType
<1>38. ASSUME NEW c \in Cpus, SleepTimeout(c)
      PROVE  Newcomers'
  BY <1>0, <1>a, <1>38, NewcomersRest DEF SleepTimeout, WakesUp, Goes, threadVars,
     ownVars, listVars, stateVars, lifeVars, Listed, LoopType, FiberType, LifeType,
     OwnType, CallType
<1>39. ASSUME NEW c \in Cpus, RereadyBegin(c)
      PROVE  Newcomers'
  BY <1>0, <1>a, <1>39, NewcomersRest DEF RereadyBegin, Goes, LockFree, cpuVars,
     listVars, stateVars, lifeVars, ownVars, Listed, LoopType, FiberType, LifeType,
     OwnType, CallType
<1>40. ASSUME NEW c \in Cpus, NEW t \in Threads, KeepBlocked(c, t)
      PROVE  Newcomers'
  BY <1>0, <1>a, <1>40, NewcomersRest DEF KeepBlocked, MayHaveResolved, Visits, cpuVars,
     listVars, stateVars, lifeVars, loopVars, ownVars, Listed, LoopType, FiberType,
     LifeType, OwnType, CallType
<1>41. ASSUME NEW c \in Cpus, NEW t \in Threads, Reready(c, t)
      PROVE  Newcomers'
  <2>1. t \in blocked /\ Listed' \subseteq Listed \cup {t}
          /\ UNCHANGED <<fiber, call, running, hasRun>>
    BY <1>41, VisitedIsBlocked DEF Reready, LinkAtTurn, LinkReadyLocked, Listed, lifeVars,
       cpuVars, ownVars
  <2>2. (Listed \cup running \cup hasRun)' \subseteq Listed \cup running \cup hasRun
    BY <2>1 DEF Listed
  <2> QED BY <1>0, <2>1, <2>2, NewcomersRest
<1>42. ASSUME NEW c \in Cpus, RereadyEnd(c)
      PROVE  Newcomers'
  BY <1>0, <1>a, <1>42, NewcomersRest DEF RereadyEnd, Goes, cpuVars, listVars,
     stateVars, lifeVars, ownVars, Listed, LoopType, FiberType, LifeType, OwnType,
     CallType
<1>43. ASSUME NEW c \in Cpus, LoopWoken(c)
      PROVE  Newcomers'
  BY <1>0, <1>a, <1>43, NewcomersRest DEF LoopWoken, Goes, threadVars, cpuVars,
     listVars, stateVars, lifeVars, ownVars, Listed, LoopType, FiberType, LifeType,
     OwnType, CallType
<1>44. ASSUME NEW c \in Cpus, NEW d \in Cpus, LoopWake(c, d)
      PROVE  Newcomers'
  BY <1>0, <1>a, <1>44, NewcomersRest DEF LoopWake, threadVars, ownVars, loopVars,
     listVars, stateVars, lifeVars, Listed, LoopType, FiberType, LifeType, OwnType,
     CallType
<1>45. ASSUME NEW c \in Cpus, DequeueReady(c)
      PROVE  Newcomers'
  <2>1. PICK t \in queued : /\ queued' = queued \ {t} /\ running' = running \cup {t}
                            /\ UNCHANGED <<blocked, suspended, fiber, call, hasRun>>
    BY <1>45, DequeueDoes DEF lifeVars
  <2>2. (Listed \cup running \cup hasRun)' \subseteq Listed \cup running \cup hasRun
    BY <2>1 DEF Listed
  <2> QED BY <1>0, <2>1, <2>2, NewcomersRest
<1>46. ASSUME NEW c \in Cpus, DequeueNothing(c)
      PROVE  Newcomers'
  BY <1>0, <1>a, <1>46, NewcomersRest DEF DequeueNothing, Goes, LockFree, threadVars,
     cpuVars, listVars, stateVars, lifeVars, ownVars, Listed, LoopType, FiberType,
     LifeType, OwnType, CallType
<1>47. ASSUME NEW c \in Cpus, Picked(c)
      PROVE  Newcomers'
  BY <1>0, <1>a, <1>47, NewcomersRest DEF Picked, threadVars, cpuVars, listVars,
     stateVars, lifeVars, ownVars, Listed, LoopType, FiberType, LifeType, OwnType,
     CallType
<1>48. ASSUME NEW c \in Cpus, MigrateHome(c)
      PROVE  Newcomers'
  BY <1>0, <1>a, <1>48, NewcomersRest DEF MigrateHome, LinkAtTurn, LinkReadyLocked,
     LockFree, stateVars, lifeVars, Listed, LoopType, FiberType, LifeType, OwnType,
     CallType
<1>49. ASSUME NEW c \in Cpus, ParkSuspended(c)
      PROVE  Newcomers'
  BY <1>0, <1>a, <1>49, NewcomersRest DEF ParkSuspended, LockFree, MustPark, stateVars,
     lifeVars, Listed, LoopType, FiberType, LifeType, OwnType, CallType
<1>50. ASSUME NEW c \in Cpus, SwitchTo(c)
      PROVE  Newcomers'
  BY <1>0, <1>a, <1>50, NewcomersRest DEF SwitchTo, Goes, listVars, stateVars, Listed,
     LoopType, FiberType, LifeType, OwnType, CallType
<1>51. ASSUME NEW c \in Cpus, SwitchedBack(c)
      PROVE  Newcomers'
  BY <1>0, <1>a, <1>51, NewcomersRest DEF SwitchedBack, AfterSwitch, threadVars,
     listVars, stateVars, lifeVars, Listed, LoopType, FiberType, LifeType, OwnType,
     CallType
<1>52. ASSUME NEW c \in Cpus, ReclaimExited(c)
      PROVE  Newcomers'
  BY <1>0, <1>a, <1>52, NewcomersRest DEF ReclaimExited, Goes, listVars, stateVars,
     Listed, LoopType, FiberType, LifeType, OwnType, CallType
<1>53. ASSUME NEW c \in Cpus, IdleParks(c)
      PROVE  Newcomers'
  BY <1>0, <1>a, <1>53, NewcomersRest DEF IdleParks, Goes, threadVars, ownVars,
     listVars, stateVars, lifeVars, Listed, LoopType, FiberType, LifeType, OwnType,
     CallType
<1>54. ASSUME NEW c \in Cpus, IdleRechecks(c)
      PROVE  Newcomers'
  BY <1>0, <1>a, <1>54, NewcomersRest DEF IdleRechecks, Goes, HasWork, LockFree,
     threadVars, ownVars, listVars, stateVars, lifeVars, Listed, LoopType, FiberType,
     LifeType, OwnType, CallType
<1>55. ASSUME NEW c \in Cpus, SleepWoken(c)
      PROVE  Newcomers'
  BY <1>0, <1>a, <1>55, NewcomersRest DEF SleepWoken, WakesUp, Goes, threadVars,
     ownVars, listVars, stateVars, lifeVars, Listed, LoopType, FiberType, LifeType,
     OwnType, CallType
<1>56. ASSUME ShutdownBegin
      PROVE  Newcomers'
  BY <1>0, <1>a, <1>56, NewcomersRest DEF ShutdownBegin, threadVars, cpuVars, loopVars,
     listVars, stateVars, lifeVars, ownVars, Listed, LoopType, FiberType, LifeType,
     OwnType, CallType
<1>57. ASSUME NEW c \in Cpus, ShutdownNudge(c)
      PROVE  Newcomers'
  BY <1>0, <1>a, <1>57, NewcomersRest DEF ShutdownNudge, threadVars, ownVars, loopVars,
     listVars, stateVars, lifeVars, Listed, LoopType, FiberType, LifeType, OwnType,
     CallType
<1>58. ASSUME ShutdownDrain
      PROVE  Newcomers'
  BY <1>0, <1>a, <1>58, NewcomersRest DEF ShutdownDrain, Listed, Leftovers, stateVars,
     loopVars, Listed, LoopType, FiberType, LifeType, OwnType, CallType
<1>59. ASSUME NEW c \in Cpus, SelfResume(c) PROVE FALSE
  BY <1>59 DEF SelfResume, NoSelfResume
<1>60. \A s \in Starts : s[1] \in Threads /\ s[2] \in Cpus /\ s[3] \in Levels
  BY ConstantsAssumption
<1>61. CASE \E k \in Callers : CallStarts(k) \/ CallContinues(k)
  BY <1>61, <1>60, <1>1, <1>2, <1>3, <1>4, <1>5, <1>6, <1>7, <1>8, <1>9, <1>10, <1>11,
     <1>12, <1>13, <1>14, <1>15, <1>16, <1>17, <1>18, <1>19, <1>20, <1>21
     DEF CallStarts, CallContinues
<1>62. CASE \E c \in Cpus : GuestActs(c) \/ PreemptCurrentFiber(c) \/ FiberContinues(c)
  BY <1>62, <1>59, <1>22, <1>23, <1>24, <1>25, <1>26, <1>27, <1>28, <1>29, <1>30, <1>31,
     <1>32, <1>33, <1>34, <1>35
     DEF GuestActs, FiberContinues
<1>63. CASE \E c \in Cpus : Dispatches(c) \/ RepollDue(c) \/ SleepTimeout(c)
  BY <1>63, <1>36, <1>37, <1>38, <1>39, <1>40, <1>41, <1>42, <1>43, <1>44, <1>45, <1>46,
     <1>47, <1>48, <1>49, <1>50, <1>51, <1>52, <1>53, <1>54, <1>55
     DEF Dispatches, Walks
<1>64. CASE ShutdownActs
  BY <1>64, <1>56, <1>57, <1>58 DEF ShutdownActs
<1> QED BY <1>61, <1>62, <1>63, <1>64 DEF Next

(* What is over for the stopped scheduler stays so while no call on its    *)
(* end is.                                                                 *)
LEMMA StoppedEndsRest ==
  ASSUME StoppedEnds, phase' = "stopped" => phase = "stopped", LifeType,
         terminatePending' \subseteq terminatePending, reclaimed \subseteq reclaimed',
         phase = "stopped" => \A t \in Threads : fiber[t] = "crashed" => fiber'[t] = "crashed",
         \A k \in Callers : call[k].pc \in Reaping => call'[k] = call[k]
  PROVE  StoppedEnds'
<1> SUFFICES ASSUME phase' = "stopped", NEW t \in terminatePending'
             PROVE  t \in reclaimed' \/ fiber'[t] = "crashed" \/ Pending(t, Reaping)'
  BY DEF StoppedEnds
<1>1. phase = "stopped" /\ t \in terminatePending /\ t \in Threads
  BY DEF LifeType
<1>2. t \in reclaimed \/ fiber[t] = "crashed" \/ Pending(t, Reaping)
  BY <1>1 DEF StoppedEnds
<1>3. Pending(t, Reaping) => Pending(t, Reaping)'
  BY DEF Pending
<1> QED BY <1>1, <1>2, <1>3

(* A dispatch thread leaves its loop with no thread in hand.               *)
LEMMA GoneStaysAtTop ==
  ASSUME NoSelfResume, plan \in Plans, "resume" \notin plan.calls, IInv, IInv', KeptInv,
           OutInv, Next
  PROVE  GoneAtTop'
<1>0. /\ GoneAtTop /\ OverIsOut /\ LoopType
      /\ \A c \in Cpus : loop[c] # "gone" => (next[c] # None <=> loop[c] \in OwningPcs)
  BY DEF OutInv, IInv, TypeInv, OwnInv
<1>1. ASSUME NEW k \in Callers, NEW t \in Threads, NEW c \in Cpus, NEW p \in Levels,
               NEW b \in BOOLEAN, Create(k, t, c, p, b)
      PROVE  GoneAtTop'
  BY <1>0, <1>1 DEF Create, listVars, loopVars, GoneAtTop, OwningPcs, LoopType
<1>2. ASSUME NEW k \in Callers, NEW t \in Threads, Resume(k, t)
      PROVE  GoneAtTop'
  BY <1>0, <1>2 DEF Resume, At, ResumesFrom, Exists, listVars, loopVars, GoneAtTop,
     OwningPcs, LoopType
<1>3. ASSUME NEW k \in Callers, NEW t \in Threads, Suspend(k, t)
      PROVE  GoneAtTop'
  BY <1>0, <1>3 DEF Suspend, listVars, loopVars, GoneAtTop, OwningPcs, LoopType
<1>4. ASSUME NEW k \in Callers, NEW t \in Threads, Terminate(k, t)
      PROVE  GoneAtTop'
  BY <1>0, <1>4 DEF Terminate, At, listVars, loopVars, GoneAtTop, OwningPcs, LoopType
<1>5. ASSUME NEW k \in Callers, NEW t \in Threads, NEW c \in Cpus, SetActiveCpu(k, t, c)
      PROVE  GoneAtTop'
  BY <1>0, <1>5 DEF SetActiveCpu, At, listVars, loopVars, GoneAtTop, OwningPcs, LoopType
<1>6. ASSUME NEW k \in Callers, NEW t \in Threads, NEW p \in Levels, PublishPriority(k, t, p)
      PROVE  GoneAtTop'
  BY <1>0, <1>6 DEF PublishPriority, At, listVars, loopVars, GoneAtTop, OwningPcs,
     LoopType
<1>7. ASSUME NEW k \in Callers, NEW o \in Objects, Signal(k, o)
      PROVE  GoneAtTop'
  BY <1>0, <1>7 DEF Signal, At, listVars, loopVars, GoneAtTop, OwningPcs, LoopType
<1>8. ASSUME NEW k \in Callers, BeginWakeAll(k)
      PROVE  GoneAtTop'
  BY <1>0, <1>8 DEF BeginWakeAll, At, threadVars, loopVars, listVars, GoneAtTop,
     OwningPcs, LoopType
<1>9. ASSUME NEW k \in Callers, NEW C \in SUBSET BackgroundCpus, EnterBackgroundMode(k, C)
      PROVE  GoneAtTop'
  BY <1>0, <1>9 DEF EnterBackgroundMode, threadVars, loopVars, listVars, GoneAtTop,
     OwningPcs, LoopType
<1>10. ASSUME NEW k \in Callers, ResumeThread(k)
      PROVE  GoneAtTop'
  BY <1>0, <1>10 DEF ResumeThread, At, LockFree, loopVars, GoneAtTop, OwningPcs, LoopType
<1>11. ASSUME NEW k \in Callers, MarkReady(k)
      PROVE  GoneAtTop'
  BY <1>0, <1>11 DEF MarkReady, At, threadVars, loopVars, listVars, GoneAtTop, OwningPcs,
     LoopType
<1>12. ASSUME NEW k \in Callers, EnqueueReady(k)
      PROVE  GoneAtTop'
  BY <1>0, <1>12 DEF EnqueueReady, At, LockFree, LeftAlone, LinkAtTurn, LinkReadyLocked,
     loopVars, GoneAtTop, OwningPcs, LoopType
<1>13. ASSUME NEW k \in Callers, TerminateThread(k)
      PROVE  GoneAtTop'
  BY <1>0, <1>13 DEF TerminateThread, At, LockFree, TerminateStopped, TerminateRunning,
     TerminateParked, TerminateUnlisted, Detach, LinkReadyLocked, listVars, loopVars,
     GoneAtTop, OwningPcs, LoopType
<1>14. ASSUME NEW k \in Callers, ReclaimTerminated(k)
      PROVE  GoneAtTop'
  BY <1>0, <1>14 DEF ReclaimTerminated, At, listVars, loopVars, GoneAtTop, OwningPcs,
     LoopType
<1>15. ASSUME NEW k \in Callers, MigrateForAffinity(k)
      PROVE  GoneAtTop'
  BY <1>0, <1>15 DEF MigrateForAffinity, At, LockFree, LinkAtTurn, LinkReadyLocked,
     loopVars, GoneAtTop, OwningPcs, LoopType
<1>16. ASSUME NEW k \in Callers, RequeueForPriority(k)
      PROVE  GoneAtTop'
  BY <1>0, <1>16 DEF RequeueForPriority, At, LockFree, LinkReadyLocked, loopVars,
     GoneAtTop, OwningPcs, LoopType
<1>17. ASSUME NEW k \in Callers, SignalCheck(k)
      PROVE  GoneAtTop'
  BY <1>0, <1>17 DEF SignalCheck, AnyBlocked, At, threadVars, loopVars, listVars,
     GoneAtTop, OwningPcs, LoopType
<1>18. ASSUME NEW k \in Callers, WakeForSignal(k)
      PROVE  GoneAtTop'
  BY <1>0, <1>18 DEF WakeForSignal, At, LockFree, listVars, loopVars, GoneAtTop,
     OwningPcs, LoopType
<1>19. ASSUME NEW k \in Callers, WakeAllCheck(k)
      PROVE  GoneAtTop'
  BY <1>0, <1>19 DEF WakeAllCheck, AnyBlocked, At, threadVars, loopVars, listVars,
     GoneAtTop, OwningPcs, LoopType
<1>20. ASSUME NEW k \in Callers, WakeAll(k)
      PROVE  GoneAtTop'
  BY <1>0, <1>20 DEF WakeAll, At, LockFree, listVars, loopVars, GoneAtTop, OwningPcs,
     LoopType
<1>21. ASSUME NEW k \in Callers, NEW c \in Cpus, Wake(k, c)
      PROVE  GoneAtTop'
  BY <1>0, <1>21 DEF Wake, At, threadVars, loopVars, listVars, GoneAtTop, OwningPcs,
     LoopType
<1>22. ASSUME NEW c \in Cpus, Yield(c)
      PROVE  GoneAtTop'
  BY <1>0, <1>22 DEF Yield, YieldCurrentThread, ExitIfTerminated, YieldToScheduler,
     FiberAt, LinkAtTurn, LinkReadyLocked, OnCpu, LeftAlone, listVars, GoneAtTop,
     OwningPcs, LoopType
<1>23. ASSUME NEW c \in Cpus, SelfSuspend(c)
      PROVE  GoneAtTop'
  BY <1>0, <1>23 DEF SelfSuspend, YieldCurrentThread, ExitIfTerminated, YieldToScheduler,
     FiberAt, LinkAtTurn, LinkReadyLocked, OnCpu, LeftAlone, listVars, GoneAtTop,
     OwningPcs, LoopType
<1>24. ASSUME NEW c \in Cpus, NEW S \in SUBSET Objects, SampleEpoch(c, S)
      PROVE  GoneAtTop'
  BY <1>0, <1>24 DEF SampleEpoch, OnCpu, FiberAt, StaysOnCpu, listVars, loopVars,
     GoneAtTop, OwningPcs, LoopType
<1>25. ASSUME NEW c \in Cpus, Delay(c)
      PROVE  GoneAtTop'
  BY <1>0, <1>25 DEF Delay, BlockCurrentThread, ParkBlocked, ExitIfTerminated,
     BlockLeavesAlone, OnCpu, FiberAt, YieldToScheduler, PokeIfMoved, LockFree, GoneAtTop,
     OwningPcs, LoopType
<1>26. ASSUME NEW c \in Cpus, BlockUngated(c)
      PROVE  GoneAtTop'
  BY <1>0, <1>26 DEF BlockUngated, BlockCurrentThread, ParkBlocked, ExitIfTerminated,
     BlockLeavesAlone, OnCpu, FiberAt, YieldToScheduler, PokeIfMoved, LockFree, GoneAtTop,
     OwningPcs, LoopType
<1>27. ASSUME NEW c \in Cpus, WaitOnFence(c)
      PROVE  GoneAtTop'
  BY <1>0, <1>27 DEF WaitOnFence, ParkBlocked, BlockLeavesAlone, OnCpu, FiberAt,
     YieldToScheduler, PokeIfMoved, LockFree, GoneAtTop, OwningPcs, LoopType
<1>28. ASSUME NEW c \in Cpus, ExitBegin(c)
      PROVE  GoneAtTop'
  BY <1>0, <1>28 DEF ExitBegin, OnCpu, FiberAt, StaysOnCpu, listVars, loopVars, GoneAtTop,
     OwningPcs, LoopType
<1>29. ASSUME NEW c \in Cpus, ExitYield(c)
      PROVE  GoneAtTop'
  BY <1>0, <1>29 DEF ExitYield, YieldCurrentThread, ExitIfTerminated, YieldToScheduler,
     FiberAt, LinkAtTurn, LinkReadyLocked, OnCpu, LeftAlone, listVars, GoneAtTop,
     OwningPcs, LoopType
<1>30. ASSUME NEW c \in Cpus, Crash(c)
      PROVE  GoneAtTop'
  BY <1>0, <1>30 DEF Crash, OnCpu, FiberAt, YieldToScheduler, Detach, LockFree, GoneAtTop,
     OwningPcs, LoopType
<1>31. ASSUME NEW c \in Cpus, PreemptCurrentFiber(c)
      PROVE  GoneAtTop'
  BY <1>0, <1>31 DEF PreemptCurrentFiber, YieldCurrentThread, ExitIfTerminated,
     YieldToScheduler, FiberAt, LinkAtTurn, LinkReadyLocked, OnCpu, LeftAlone, listVars,
     GoneAtTop, OwningPcs, LoopType
<1>32. ASSUME NEW c \in Cpus, FiberResume(c)
      PROVE  GoneAtTop'
  <2>1. loop[c] = "fiber" /\ fiber[next[c]] # "exited" /\ next' = next
    BY <1>0, <1>32 DEF FiberResume, OnCpu, OverIsOut, Over, ExitIfTerminated,
       YieldToScheduler
  <2>2. loop'[c] # "gone" /\ \A d \in Cpus : d # c => loop'[d] = loop[d]
    BY <1>0, <1>32, <2>1 DEF FiberResume, ExitIfTerminated, YieldToScheduler, LoopType
  <2> QED BY <1>0, <2>1, <2>2 DEF GoneAtTop
<1>33. ASSUME NEW c \in Cpus, PollSatisfied(c)
      PROVE  GoneAtTop'
  BY <1>0, <1>33 DEF PollSatisfied, OnCpu, FiberAt, StaysOnCpu, listVars, loopVars,
     GoneAtTop, OwningPcs, LoopType
<1>34. ASSUME NEW c \in Cpus, BlockOnObjects(c)
      PROVE  GoneAtTop'
  BY <1>0, <1>34 DEF BlockOnObjects, BlockCurrentThread, ParkBlocked, ExitIfTerminated,
     BlockLeavesAlone, OnCpu, FiberAt, YieldToScheduler, PokeIfMoved, LockFree, GoneAtTop,
     OwningPcs, LoopType
<1>35. ASSUME NEW c \in Cpus, ExitEnd(c)
      PROVE  GoneAtTop'
  BY <1>0, <1>35 DEF ExitEnd, OnCpu, FiberAt, YieldToScheduler, threadVars, listVars,
     GoneAtTop, OwningPcs, LoopType
<1>36. ASSUME NEW c \in Cpus, Top(c)
      PROVE  GoneAtTop'
  BY <1>0, <1>36 DEF Top, Goes, listVars, GoneAtTop, OwningPcs, LoopType
<1>37. ASSUME NEW c \in Cpus, RepollDue(c)
      PROVE  GoneAtTop'
  BY <1>0, <1>37 DEF RepollDue, Goes, threadVars, listVars, GoneAtTop, OwningPcs, LoopType
<1>38. ASSUME NEW c \in Cpus, SleepTimeout(c)
      PROVE  GoneAtTop'
  BY <1>0, <1>38 DEF SleepTimeout, WakesUp, Goes, threadVars, listVars, GoneAtTop,
     OwningPcs, LoopType
<1>39. ASSUME NEW c \in Cpus, RereadyBegin(c)
      PROVE  GoneAtTop'
  BY <1>0, <1>39 DEF RereadyBegin, Goes, LockFree, listVars, GoneAtTop, OwningPcs,
     LoopType
<1>40. ASSUME NEW c \in Cpus, NEW t \in Threads, KeepBlocked(c, t)
      PROVE  GoneAtTop'
  BY <1>0, <1>40 DEF KeepBlocked, MayHaveResolved, Visits, listVars, loopVars, GoneAtTop,
     OwningPcs, LoopType
<1>41. ASSUME NEW c \in Cpus, NEW t \in Threads, Reready(c, t)
      PROVE  GoneAtTop'
  BY <1>0, <1>41 DEF Reready, LinkAtTurn, LinkReadyLocked, Visits, loopVars, GoneAtTop,
     OwningPcs, LoopType
<1>42. ASSUME NEW c \in Cpus, RereadyEnd(c)
      PROVE  GoneAtTop'
  BY <1>0, <1>42 DEF RereadyEnd, Goes, listVars, GoneAtTop, OwningPcs, LoopType
<1>43. ASSUME NEW c \in Cpus, LoopWoken(c)
      PROVE  GoneAtTop'
  BY <1>0, <1>43 DEF LoopWoken, Goes, threadVars, listVars, GoneAtTop, OwningPcs, LoopType
<1>44. ASSUME NEW c \in Cpus, NEW d \in Cpus, LoopWake(c, d)
      PROVE  GoneAtTop'
  BY <1>0, <1>44 DEF LoopWake, threadVars, loopVars, listVars, GoneAtTop, OwningPcs,
     LoopType
<1>45. ASSUME NEW c \in Cpus, DequeueReady(c)
      PROVE  GoneAtTop'
  BY <1>0, <1>45 DEF DequeueReady, LockFree, GoneAtTop, OwningPcs, LoopType
<1>46. ASSUME NEW c \in Cpus, DequeueNothing(c)
      PROVE  GoneAtTop'
  BY <1>0, <1>46 DEF DequeueNothing, Goes, LockFree, threadVars, listVars, GoneAtTop,
     OwningPcs, LoopType
<1>47. ASSUME NEW c \in Cpus, Picked(c)
      PROVE  GoneAtTop'
  BY <1>0, <1>47 DEF Picked, threadVars, listVars, GoneAtTop, OwningPcs, LoopType
<1>48. ASSUME NEW c \in Cpus, MigrateHome(c)
      PROVE  GoneAtTop'
  BY <1>0, <1>48 DEF MigrateHome, LinkAtTurn, LinkReadyLocked, LockFree, GoneAtTop,
     OwningPcs, LoopType
<1>49. ASSUME NEW c \in Cpus, ParkSuspended(c)
      PROVE  GoneAtTop'
  BY <1>0, <1>49 DEF ParkSuspended, LockFree, MustPark, GoneAtTop, OwningPcs, LoopType
<1>50. ASSUME NEW c \in Cpus, SwitchTo(c)
      PROVE  GoneAtTop'
  BY <1>0, <1>50 DEF SwitchTo, Goes, listVars, GoneAtTop, OwningPcs, LoopType
<1>51. ASSUME NEW c \in Cpus, SwitchedBack(c)
      PROVE  GoneAtTop'
  BY <1>0, <1>51 DEF SwitchedBack, AfterSwitch, threadVars, listVars, GoneAtTop,
     OwningPcs, LoopType
<1>52. ASSUME NEW c \in Cpus, ReclaimExited(c)
      PROVE  GoneAtTop'
  BY <1>0, <1>52 DEF ReclaimExited, Goes, listVars, GoneAtTop, OwningPcs, LoopType
<1>53. ASSUME NEW c \in Cpus, IdleParks(c)
      PROVE  GoneAtTop'
  BY <1>0, <1>53 DEF IdleParks, Goes, threadVars, listVars, GoneAtTop, OwningPcs, LoopType
<1>54. ASSUME NEW c \in Cpus, IdleRechecks(c)
      PROVE  GoneAtTop'
  BY <1>0, <1>54 DEF IdleRechecks, Goes, HasWork, LockFree, threadVars, listVars,
     GoneAtTop, OwningPcs, LoopType
<1>55. ASSUME NEW c \in Cpus, SleepWoken(c)
      PROVE  GoneAtTop'
  BY <1>0, <1>55 DEF SleepWoken, WakesUp, Goes, threadVars, listVars, GoneAtTop,
     OwningPcs, LoopType
<1>56. ASSUME ShutdownBegin
      PROVE  GoneAtTop'
  BY <1>0, <1>56 DEF ShutdownBegin, threadVars, loopVars, listVars, GoneAtTop, OwningPcs,
     LoopType
<1>57. ASSUME NEW c \in Cpus, ShutdownNudge(c)
      PROVE  GoneAtTop'
  BY <1>0, <1>57 DEF ShutdownNudge, threadVars, loopVars, listVars, GoneAtTop, OwningPcs,
     LoopType
<1>58. ASSUME ShutdownDrain
      PROVE  GoneAtTop'
  BY <1>0, <1>58 DEF ShutdownDrain, Listed, Leftovers, loopVars, GoneAtTop, OwningPcs,
     LoopType
<1>59. ASSUME NEW c \in Cpus, SelfResume(c) PROVE FALSE
  BY <1>59 DEF SelfResume, NoSelfResume
<1>60. \A s \in Starts : s[1] \in Threads /\ s[2] \in Cpus /\ s[3] \in Levels
  BY ConstantsAssumption
<1>61. CASE \E k \in Callers : CallStarts(k) \/ CallContinues(k)
  BY <1>61, <1>60, <1>1, <1>2, <1>3, <1>4, <1>5, <1>6, <1>7, <1>8, <1>9, <1>10, <1>11,
     <1>12, <1>13, <1>14, <1>15, <1>16, <1>17, <1>18, <1>19, <1>20, <1>21
     DEF CallStarts, CallContinues
<1>62. CASE \E c \in Cpus : GuestActs(c) \/ PreemptCurrentFiber(c) \/ FiberContinues(c)
  BY <1>62, <1>59, <1>22, <1>23, <1>24, <1>25, <1>26, <1>27, <1>28, <1>29, <1>30, <1>31,
     <1>32, <1>33, <1>34, <1>35
     DEF GuestActs, FiberContinues
<1>63. CASE \E c \in Cpus : Dispatches(c) \/ RepollDue(c) \/ SleepTimeout(c)
  BY <1>63, <1>36, <1>37, <1>38, <1>39, <1>40, <1>41, <1>42, <1>43, <1>44, <1>45, <1>46,
     <1>47, <1>48, <1>49, <1>50, <1>51, <1>52, <1>53, <1>54, <1>55
     DEF Dispatches, Walks
<1>64. CASE ShutdownActs
  BY <1>64, <1>56, <1>57, <1>58 DEF ShutdownActs
<1> QED BY <1>61, <1>62, <1>63, <1>64 DEF Next
(* The drain of Shutdown takes what is left in the lists; what is          *)
(* terminated later is freed by its terminate.                             *)
LEMMA StoppedEndsKept ==
  ASSUME NoSelfResume, ResumesApart, plan \in Plans, "resume" \notin plan.calls, IInv, IInv',
           KeptInv, EndsHeld, OutInv, StoppedEnds, Next
  PROVE  StoppedEnds'
<1>0. /\ StoppedEnds /\ LoopType /\ FiberType /\ LifeType /\ CallType
      /\ phase = "stopped" => \A c \in Cpus : loop[c] = "gone"
      /\ \A k \in Callers : call[k].pc \in {"terminate", "reclaim"} => call[k].t \in Threads
  BY DEF IInv, TypeInv, YieldInv, RefInv, ThreadCallPcs
<1>1. ASSUME NEW k \in Callers, NEW t \in Threads, NEW c \in Cpus, NEW p \in Levels,
               NEW b \in BOOLEAN, Create(k, t, c, p, b)
      PROVE  StoppedEnds'
  BY <1>0, <1>1 DEF Create, StoppedEnds
<1>2. ASSUME NEW k \in Callers, NEW t \in Threads, Resume(k, t)
      PROVE  StoppedEnds'
  BY <1>0, <1>2, StoppedEndsRest DEF Resume, Begin, At, ResumesFrom, Exists, lifeVars,
     loopVars, Reaping, LoopType, FiberType, LifeType, CallType
<1>3. ASSUME NEW k \in Callers, NEW t \in Threads, Suspend(k, t)
      PROVE  StoppedEnds'
  BY <1>0, <1>3, StoppedEndsRest DEF Suspend, lifeVars, loopVars, Reaping, LoopType,
     FiberType, LifeType, CallType
<1>4. ASSUME NEW k \in Callers, NEW t \in Threads, Terminate(k, t)
      PROVE  StoppedEnds'
  BY <1>0, <1>4, StoppedEndsRest DEF Terminate, Begin, At, loopVars, Reaping, LoopType,
     FiberType, LifeType, CallType
<1>5. ASSUME NEW k \in Callers, NEW t \in Threads, NEW c \in Cpus, SetActiveCpu(k, t, c)
      PROVE  StoppedEnds'
  BY <1>0, <1>5, StoppedEndsRest DEF SetActiveCpu, Begin, At, lifeVars, loopVars, Reaping,
     LoopType, FiberType, LifeType, CallType
<1>6. ASSUME NEW k \in Callers, NEW t \in Threads, NEW p \in Levels, PublishPriority(k, t, p)
      PROVE  StoppedEnds'
  BY <1>0, <1>6, StoppedEndsRest DEF PublishPriority, Begin, At, lifeVars, loopVars,
     Reaping, LoopType, FiberType, LifeType, CallType
<1>7. ASSUME NEW k \in Callers, NEW o \in Objects, Signal(k, o)
      PROVE  StoppedEnds'
  BY <1>0, <1>7, StoppedEndsRest DEF Signal, Begin, At, lifeVars, loopVars, Reaping,
     LoopType, FiberType, LifeType, CallType
<1>8. ASSUME NEW k \in Callers, BeginWakeAll(k)
      PROVE  StoppedEnds'
  BY <1>0, <1>8, StoppedEndsRest DEF BeginWakeAll, Begin, At, threadVars, loopVars,
     lifeVars, Reaping, LoopType, FiberType, LifeType, CallType
<1>9. ASSUME NEW k \in Callers, NEW C \in SUBSET BackgroundCpus, EnterBackgroundMode(k, C)
      PROVE  StoppedEnds'
  BY <1>0, <1>9, StoppedEndsRest DEF EnterBackgroundMode, threadVars, loopVars, lifeVars,
     Reaping, LoopType, FiberType, LifeType, CallType
<1>10. ASSUME NEW k \in Callers, ResumeThread(k)
      PROVE  StoppedEnds'
  BY <1>0, <1>10, StoppedEndsRest DEF ResumeThread, Begin, At, LockFree, lifeVars,
     loopVars, Reaping, LoopType, FiberType, LifeType, CallType
<1>11. ASSUME NEW k \in Callers, MarkReady(k)
      PROVE  StoppedEnds'
  BY <1>0, <1>11, StoppedEndsRest DEF MarkReady, Begin, At, Return, threadVars, loopVars,
     lifeVars, Reaping, LoopType, FiberType, LifeType, CallType, Idle
<1>12. ASSUME NEW k \in Callers, EnqueueReady(k)
      PROVE  StoppedEnds'
  BY <1>0, <1>12, StoppedEndsRest DEF EnqueueReady, At, Return, LockFree, LeftAlone,
     WakeAndReturn, lifeVars, loopVars, Reaping, LoopType, FiberType, LifeType, CallType,
     Idle
<1>13. ASSUME NEW k \in Callers, TerminateThread(k)
      PROVE  StoppedEnds'
  <2>0. PICK t : t = call[k].t
    OBVIOUS
  <2>1. /\ \A j \in Callers : j # k => call'[j] = call[j]
        /\ call[k].pc = "terminate" /\ t \in Threads
             /\ terminatePending' = terminatePending \cup {t}
        /\ UNCHANGED <<fiber, running, reclaimed, phase>>
    BY <1>0, <1>13, <2>0, TerminateDoes DEF cpuVars, ownVars, TerminateThread, At
  <2> SUFFICES ASSUME phase = "stopped", NEW u \in terminatePending \cup {t}
               PROVE  u \in reclaimed \/ fiber[u] = "crashed" \/ Pending(u, Reaping)'
    BY <2>1 DEF StoppedEnds
  <2>2. t \notin running
    BY <1>0, <2>1, ConstantsAssumption DEF IInv, OwnInv, Owns, OutInv, GoneAtTop
  <2>3. call'[k].pc = "reclaim" /\ call'[k].t = t
    BY <1>0, <1>13, <2>0, <2>2 DEF TerminateThread, TerminateStopped, Begin, CallType
  <2>4. CASE u = t
    BY <2>3, <2>4 DEF Pending, Reaping
  <2>5. CASE u # t
    <3>1. u \in reclaimed \/ fiber[u] = "crashed" \/ Pending(u, Reaping)
      BY <2>5 DEF StoppedEnds
    <3>2. Pending(u, Reaping) => Pending(u, Reaping)'
      BY <2>0, <2>1, <2>5 DEF Pending
    <3> QED BY <3>1, <3>2
  <2> QED BY <2>4, <2>5
<1>14. ASSUME NEW k \in Callers, ReclaimTerminated(k)
      PROVE  StoppedEnds'
  <2>0. PICK t : t = call[k].t
    OBVIOUS
  <2>1. /\ \A j \in Callers : j # k => call'[j] = call[j]
        /\ call[k].pc = "reclaim" /\ reclaimed' = reclaimed \cup {t}
        /\ UNCHANGED <<fiber, terminatePending, phase>>
    BY <1>0, <1>14, <2>0 DEF ReclaimTerminated, At, Return, CallType
  <2>2. \A u \in Threads : Pending(u, Reaping) => Pending(u, Reaping)' \/ u = t
    BY <2>0, <2>1 DEF Pending
  <2> QED BY <1>0, <2>1, <2>2 DEF StoppedEnds, LifeType
<1>15. ASSUME NEW k \in Callers, MigrateForAffinity(k)
      PROVE  StoppedEnds'
  BY <1>0, <1>15, StoppedEndsRest DEF MigrateForAffinity, At, Return, LockFree,
     WakeAndReturn, lifeVars, loopVars, Reaping, LoopType, FiberType, LifeType, CallType,
     Idle
<1>16. ASSUME NEW k \in Callers, RequeueForPriority(k)
      PROVE  StoppedEnds'
  BY <1>0, <1>16, StoppedEndsRest DEF RequeueForPriority, At, Return, LockFree, lifeVars,
     loopVars, Reaping, LoopType, FiberType, LifeType, CallType, Idle
<1>17. ASSUME NEW k \in Callers, SignalCheck(k)
      PROVE  StoppedEnds'
  BY <1>0, <1>17, StoppedEndsRest DEF SignalCheck, AnyBlocked, At, Begin, Return,
     threadVars, loopVars, lifeVars, Reaping, LoopType, FiberType, LifeType, CallType,
     Idle
<1>18. ASSUME NEW k \in Callers, WakeForSignal(k)
      PROVE  StoppedEnds'
  BY <1>0, <1>18, StoppedEndsRest DEF WakeForSignal, At, LockFree, WakeAndReturn,
     lifeVars, loopVars, Reaping, LoopType, FiberType, LifeType, CallType, Idle
<1>19. ASSUME NEW k \in Callers, WakeAllCheck(k)
      PROVE  StoppedEnds'
  BY <1>0, <1>19, StoppedEndsRest DEF WakeAllCheck, AnyBlocked, At, Begin, Return,
     threadVars, loopVars, lifeVars, Reaping, LoopType, FiberType, LifeType, CallType,
     Idle
<1>20. ASSUME NEW k \in Callers, WakeAll(k)
      PROVE  StoppedEnds'
  BY <1>0, <1>20, StoppedEndsRest DEF WakeAll, At, LockFree, WakeAndReturn, lifeVars,
     loopVars, Reaping, LoopType, FiberType, LifeType, CallType, Idle
<1>21. ASSUME NEW k \in Callers, NEW c \in Cpus, Wake(k, c)
      PROVE  StoppedEnds'
  BY <1>0, <1>21, StoppedEndsRest DEF Wake, At, WakeAndReturn, threadVars, loopVars,
     lifeVars, Reaping, LoopType, FiberType, LifeType, CallType, Idle
<1>22. ASSUME NEW c \in Cpus, Yield(c)
      PROVE  StoppedEnds'
  BY <1>0, <1>22, StoppedEndsRest DEF Yield, YieldCurrentThread, YieldLeavesAlone,
     ExitIfTerminated, YieldToScheduler, FiberAt, OnCpu, LeftAlone, Reaping, LoopType,
     FiberType, LifeType, CallType
<1>23. ASSUME NEW c \in Cpus, SelfSuspend(c)
      PROVE  StoppedEnds'
  BY <1>0, <1>23, StoppedEndsRest DEF SelfSuspend, YieldCurrentThread, YieldLeavesAlone,
     ExitIfTerminated, YieldToScheduler, FiberAt, OnCpu, LeftAlone, Reaping, LoopType,
     FiberType, LifeType, CallType
<1>24. ASSUME NEW c \in Cpus, NEW S \in SUBSET Objects, SampleEpoch(c, S)
      PROVE  StoppedEnds'
  BY <1>0, <1>24, StoppedEndsRest DEF SampleEpoch, OnCpu, FiberAt, StaysOnCpu, lifeVars,
     loopVars, Reaping, LoopType, FiberType, LifeType, CallType
<1>25. ASSUME NEW c \in Cpus, Delay(c)
      PROVE  StoppedEnds'
  BY <1>0, <1>25, StoppedEndsRest DEF Delay, BlockCurrentThread, ParkBlocked,
     ExitIfTerminated, BlockLeavesAlone, OnCpu, FiberAt, YieldToScheduler, PokeIfMoved,
     LockFree, Reaping, LoopType, FiberType, LifeType, CallType
<1>26. ASSUME NEW c \in Cpus, BlockUngated(c)
      PROVE  StoppedEnds'
  BY <1>0, <1>26, StoppedEndsRest DEF BlockUngated, BlockCurrentThread, ParkBlocked,
     ExitIfTerminated, BlockLeavesAlone, OnCpu, FiberAt, YieldToScheduler, PokeIfMoved,
     LockFree, Reaping, LoopType, FiberType, LifeType, CallType
<1>27. ASSUME NEW c \in Cpus, WaitOnFence(c)
      PROVE  StoppedEnds'
  BY <1>0, <1>27, StoppedEndsRest DEF WaitOnFence, ParkBlocked, BlockLeavesAlone, OnCpu,
     FiberAt, YieldToScheduler, PokeIfMoved, LockFree, Reaping, LoopType, FiberType,
     LifeType, CallType
<1>28. ASSUME NEW c \in Cpus, ExitBegin(c)
      PROVE  StoppedEnds'
  BY <1>0, <1>28, StoppedEndsRest DEF ExitBegin, OnCpu, FiberAt, StaysOnCpu, loopVars,
     Reaping, LoopType, FiberType, LifeType, CallType
<1>29. ASSUME NEW c \in Cpus, ExitYield(c)
      PROVE  StoppedEnds'
  BY <1>0, <1>29, StoppedEndsRest DEF ExitYield, YieldCurrentThread, YieldLeavesAlone,
     ExitIfTerminated, YieldToScheduler, FiberAt, OnCpu, LeftAlone, Reaping, LoopType,
     FiberType, LifeType, CallType
<1>30. ASSUME NEW c \in Cpus, Crash(c)
      PROVE  StoppedEnds'
  BY <1>0, <1>30, StoppedEndsRest DEF Crash, OnCpu, FiberAt, YieldToScheduler, LockFree,
     Reaping, LoopType, FiberType, LifeType, CallType
<1>31. ASSUME NEW c \in Cpus, PreemptCurrentFiber(c)
      PROVE  StoppedEnds'
  BY <1>0, <1>31, StoppedEndsRest DEF PreemptCurrentFiber, YieldCurrentThread,
     YieldLeavesAlone, ExitIfTerminated, YieldToScheduler, FiberAt, OnCpu, LeftAlone,
     Reaping, LoopType, FiberType, LifeType, CallType
<1>32. ASSUME NEW c \in Cpus, FiberResume(c)
      PROVE  StoppedEnds'
  BY <1>0, <1>32, StoppedEndsRest DEF FiberResume, OnCpu, ExitIfTerminated, FiberAt,
     YieldToScheduler, Reaping, LoopType, FiberType, LifeType, CallType
<1>33. ASSUME NEW c \in Cpus, PollSatisfied(c)
      PROVE  StoppedEnds'
  BY <1>0, <1>33, StoppedEndsRest DEF PollSatisfied, OnCpu, FiberAt, StaysOnCpu, lifeVars,
     loopVars, Reaping, LoopType, FiberType, LifeType, CallType
<1>34. ASSUME NEW c \in Cpus, BlockOnObjects(c)
      PROVE  StoppedEnds'
  BY <1>0, <1>34, StoppedEndsRest DEF BlockOnObjects, BlockCurrentThread, ParkBlocked,
     ExitIfTerminated, BlockLeavesAlone, OnCpu, FiberAt, YieldToScheduler, PokeIfMoved,
     LockFree, Reaping, LoopType, FiberType, LifeType, CallType
<1>35. ASSUME NEW c \in Cpus, ExitEnd(c)
      PROVE  StoppedEnds'
  BY <1>0, <1>35, StoppedEndsRest DEF ExitEnd, OnCpu, FiberAt, YieldToScheduler,
     threadVars, lifeVars, Reaping, LoopType, FiberType, LifeType, CallType
<1>36. ASSUME NEW c \in Cpus, Top(c)
      PROVE  StoppedEnds'
  BY <1>0, <1>36, StoppedEndsRest DEF Top, Goes, lifeVars, Reaping, LoopType, FiberType,
     LifeType, CallType
<1>37. ASSUME NEW c \in Cpus, RepollDue(c)
      PROVE  StoppedEnds'
  BY <1>0, <1>37, StoppedEndsRest DEF RepollDue, Goes, threadVars, lifeVars, Reaping,
     LoopType, FiberType, LifeType, CallType
<1>38. ASSUME NEW c \in Cpus, SleepTimeout(c)
      PROVE  StoppedEnds'
  BY <1>0, <1>38, StoppedEndsRest DEF SleepTimeout, WakesUp, Goes, threadVars, lifeVars,
     Reaping, LoopType, FiberType, LifeType, CallType
<1>39. ASSUME NEW c \in Cpus, RereadyBegin(c)
      PROVE  StoppedEnds'
  BY <1>0, <1>39, StoppedEndsRest DEF RereadyBegin, Goes, LockFree, lifeVars, Reaping,
     LoopType, FiberType, LifeType, CallType
<1>40. ASSUME NEW c \in Cpus, NEW t \in Threads, KeepBlocked(c, t)
      PROVE  StoppedEnds'
  BY <1>0, <1>40, StoppedEndsRest DEF KeepBlocked, MayHaveResolved, Visits, lifeVars,
     loopVars, Reaping, LoopType, FiberType, LifeType, CallType
<1>41. ASSUME NEW c \in Cpus, NEW t \in Threads, Reready(c, t)
      PROVE  StoppedEnds'
  BY <1>0, <1>41, StoppedEndsRest DEF Reready, Visits, lifeVars, loopVars, Reaping,
     LoopType, FiberType, LifeType, CallType
<1>42. ASSUME NEW c \in Cpus, RereadyEnd(c)
      PROVE  StoppedEnds'
  BY <1>0, <1>42, StoppedEndsRest DEF RereadyEnd, Goes, lifeVars, Reaping, LoopType,
     FiberType, LifeType, CallType
<1>43. ASSUME NEW c \in Cpus, LoopWoken(c)
      PROVE  StoppedEnds'
  BY <1>0, <1>43, StoppedEndsRest DEF LoopWoken, Goes, threadVars, lifeVars, Reaping,
     LoopType, FiberType, LifeType, CallType
<1>44. ASSUME NEW c \in Cpus, NEW d \in Cpus, LoopWake(c, d)
      PROVE  StoppedEnds'
  BY <1>0, <1>44, StoppedEndsRest DEF LoopWake, threadVars, loopVars, lifeVars, Reaping,
     LoopType, FiberType, LifeType, CallType
<1>45. ASSUME NEW c \in Cpus, DequeueReady(c)
      PROVE  StoppedEnds'
  BY <1>0, <1>45, StoppedEndsRest DEF DequeueReady, LockFree, lifeVars, Reaping, LoopType,
     FiberType, LifeType, CallType
<1>46. ASSUME NEW c \in Cpus, DequeueNothing(c)
      PROVE  StoppedEnds'
  BY <1>0, <1>46, StoppedEndsRest DEF DequeueNothing, Goes, LockFree, threadVars,
     lifeVars, Reaping, LoopType, FiberType, LifeType, CallType
<1>47. ASSUME NEW c \in Cpus, Picked(c)
      PROVE  StoppedEnds'
  BY <1>0, <1>47, StoppedEndsRest DEF Picked, threadVars, lifeVars, Reaping, LoopType,
     FiberType, LifeType, CallType
<1>48. ASSUME NEW c \in Cpus, MigrateHome(c)
      PROVE  StoppedEnds'
  BY <1>0, <1>48, StoppedEndsRest DEF MigrateHome, LockFree, lifeVars, Reaping, LoopType,
     FiberType, LifeType, CallType
<1>49. ASSUME NEW c \in Cpus, ParkSuspended(c)
      PROVE  StoppedEnds'
  BY <1>0, <1>49, StoppedEndsRest DEF ParkSuspended, LockFree, MustPark, lifeVars,
     Reaping, LoopType, FiberType, LifeType, CallType
<1>50. ASSUME NEW c \in Cpus, SwitchTo(c)
      PROVE  StoppedEnds'
  BY <1>0, <1>50, StoppedEndsRest DEF SwitchTo, Goes, Reaping, LoopType, FiberType,
     LifeType, CallType
<1>51. ASSUME NEW c \in Cpus, SwitchedBack(c)
      PROVE  StoppedEnds'
  BY <1>0, <1>51, StoppedEndsRest DEF SwitchedBack, AfterSwitch, threadVars, lifeVars,
     Reaping, LoopType, FiberType, LifeType, CallType
<1>52. ASSUME NEW c \in Cpus, ReclaimExited(c)
      PROVE  StoppedEnds'
  BY <1>0, <1>52, StoppedEndsRest DEF ReclaimExited, Goes, Reaping, LoopType, FiberType,
     LifeType, CallType
<1>53. ASSUME NEW c \in Cpus, IdleParks(c)
      PROVE  StoppedEnds'
  BY <1>0, <1>53, StoppedEndsRest DEF IdleParks, Goes, threadVars, lifeVars, Reaping,
     LoopType, FiberType, LifeType, CallType
<1>54. ASSUME NEW c \in Cpus, IdleRechecks(c)
      PROVE  StoppedEnds'
  BY <1>0, <1>54, StoppedEndsRest DEF IdleRechecks, Goes, HasWork, LockFree, threadVars,
     lifeVars, Reaping, LoopType, FiberType, LifeType, CallType
<1>55. ASSUME NEW c \in Cpus, SleepWoken(c)
      PROVE  StoppedEnds'
  BY <1>0, <1>55, StoppedEndsRest DEF SleepWoken, WakesUp, Goes, threadVars, lifeVars,
     Reaping, LoopType, FiberType, LifeType, CallType
<1>56. ASSUME ShutdownBegin
      PROVE  StoppedEnds'
  BY <1>0, <1>56, StoppedEndsRest DEF ShutdownBegin, threadVars, loopVars, lifeVars,
     Reaping, LoopType, FiberType, LifeType, CallType
<1>57. ASSUME NEW c \in Cpus, ShutdownNudge(c)
      PROVE  StoppedEnds'
  BY <1>0, <1>57, StoppedEndsRest DEF ShutdownNudge, threadVars, loopVars, lifeVars,
     Reaping, LoopType, FiberType, LifeType, CallType
<1>58. ASSUME ShutdownDrain
      PROVE  StoppedEnds'
  <2>1. /\ \A c \in Cpus : loop[c] = "gone"
        /\ reclaimed' = reclaimed \cup Leftovers /\ UNCHANGED <<fiber, call, terminatePending>>
    BY <1>58 DEF ShutdownDrain
  <2>2. running = {}
    BY <2>1, ConstantsAssumption DEF IInv, OwnInv, TypeInv, OwnType, Owns, OutInv,
       GoneAtTop
  <2>3. \A t \in Threads : t \in Listed \/ (\E c \in Cpus : exitedThread[c] = t)
          => t \in Leftovers
    BY ConstantsAssumption DEF Leftovers, RangeOf, IInv, TypeInv, OwnType
  <2> SUFFICES ASSUME NEW t \in terminatePending
               PROVE  t \in reclaimed' \/ fiber[t] = "crashed" \/ Pending(t, Reaping)'
    BY <2>1 DEF StoppedEnds
  <2>4. t \in Threads /\ (Settled(t) \/ Pending(t, Reaping))
    BY <1>0 DEF LifeType, KeptInv, Ends
  <2>5. Pending(t, Reaping) => Pending(t, Reaping)'
    BY <2>1 DEF Pending
  <2>6. Over(t) => t \in reclaimed \/ \E c \in Cpus : exitedThread[c] = t
    BY <2>4 DEF EndsHeld
  <2> QED BY <2>1, <2>2, <2>3, <2>4, <2>5, <2>6 DEF Settled, Dead, Over
<1>59. ASSUME NEW c \in Cpus, SelfResume(c) PROVE FALSE
  BY <1>59 DEF SelfResume, NoSelfResume
<1>60. \A s \in Starts : s[1] \in Threads /\ s[2] \in Cpus /\ s[3] \in Levels
  BY ConstantsAssumption
<1>61. CASE \E k \in Callers : CallStarts(k) \/ CallContinues(k)
  BY <1>61, <1>60, <1>1, <1>2, <1>3, <1>4, <1>5, <1>6, <1>7, <1>8, <1>9, <1>10, <1>11,
     <1>12, <1>13, <1>14, <1>15, <1>16, <1>17, <1>18, <1>19, <1>20, <1>21
     DEF CallStarts, CallContinues
<1>62. CASE \E c \in Cpus : GuestActs(c) \/ PreemptCurrentFiber(c) \/ FiberContinues(c)
  BY <1>62, <1>59, <1>22, <1>23, <1>24, <1>25, <1>26, <1>27, <1>28, <1>29, <1>30, <1>31,
     <1>32, <1>33, <1>34, <1>35
     DEF GuestActs, FiberContinues
<1>63. CASE \E c \in Cpus : Dispatches(c) \/ RepollDue(c) \/ SleepTimeout(c)
  BY <1>63, <1>36, <1>37, <1>38, <1>39, <1>40, <1>41, <1>42, <1>43, <1>44, <1>45, <1>46,
     <1>47, <1>48, <1>49, <1>50, <1>51, <1>52, <1>53, <1>54, <1>55
     DEF Dispatches, Walks
<1>64. CASE ShutdownActs
  BY <1>64, <1>56, <1>57, <1>58 DEF ShutdownActs
<1> QED BY <1>61, <1>62, <1>63, <1>64 DEF Next

(* The invariant of the shutdown.                                          *)
EndInv == EndsHeld /\ ("resume" \notin plan.calls => OutInv /\ StoppedEnds)

(* Nothing is terminated initially.                                        *)
LEMMA EndInvStarts ==
  ASSUME Init
  PROVE  EndInv
BY DEF Init, EndInv, EndsHeld, Over, OutInv, OverIsOut, Newcomers, GoneAtTop, StoppedEnds,
   Listed, Idle

(* The invariant of the shutdown is about the variables of the model.      *)
LEMMA EndInvStutters ==
  ASSUME EndInv, UNCHANGED vars
  PROVE  EndInv'
<1> USE DEF vars, listVars, lifeVars, ownVars, loopVars
<1>1. \A u : /\ Over(u)' = Over(u) /\ \A pcs : Pending(u, pcs)' = Pending(u, pcs)
  BY DEF Over, Pending
<1>2. EndsHeld => EndsHeld'
  BY <1>1 DEF EndsHeld
<1>3. plan' = plan /\ (OutInv => OutInv') /\ (StoppedEnds => StoppedEnds')
  BY <1>1 DEF OutInv, OverIsOut, Newcomers, GoneAtTop, StoppedEnds, Listed
<1> QED BY <1>2, <1>3 DEF EndInv

(* The invariant of the shutdown holds in every reachable state.           *)
LEMMA EndInvHolds ==
  ASSUME NoSelfResume, ResumesApart
  PROVE  Spec => [](PlannedInv /\ KeptInv /\ EndInv)
<1>1. Init => EndInv
  BY EndInvStarts
<1>2. PlannedInv /\ PlannedInv' /\ KeptInv /\ EndInv /\ [Next]_vars => EndInv'
  <2> SUFFICES ASSUME PlannedInv, PlannedInv', KeptInv, EndInv, [Next]_vars
               PROVE  EndInv'
    OBVIOUS
  <2>1. plan \in Plans /\ IInv /\ IInv'
    BY DEF PlannedInv
  <2>2. CASE Next
    <3>1. EndsHeld'
      BY <2>1, <2>2, EndsAreHeld DEF EndInv
    <3>2. plan' = plan
      BY <2>1, <2>2, PlanKept
    <3>3. CASE "resume" \notin plan.calls
      <4>1. OutInv'
        BY <2>1, <2>2, <3>3, OverStaysOut, NewcomersAreNew, GoneStaysAtTop DEF EndInv,
           OutInv
      <4>2. StoppedEnds'
        BY <2>1, <2>2, <3>3, StoppedEndsKept DEF EndInv
      <4> QED BY <3>1, <4>1, <4>2 DEF EndInv
    <3> QED BY <3>1, <3>2, <3>3 DEF EndInv
  <2> QED BY <2>2, EndInvStutters
<1> QED BY <1>1, <1>2, KeptInvHolds, PTL DEF Spec

(* Once Shutdown has drained the lists, no terminated thread is left that  *)
(* nobody frees: the drain, the dispatch thread it ended on or its own     *)
(* TerminateThread does, whatever the order of the calls.                  *)
THEOREM ShutdownIsClean ==
  ASSUME NoSelfResume, ResumesApart
  PROVE  Spec => []ShutdownReclaims
<1>1. KeptInv /\ EndInv => ShutdownReclaims
  <2>1. CASE "resume" \in plan.calls
    BY <2>1 DEF KeptInv, ResumeRegime, ShutdownReclaims
  <2>2. CASE "resume" \notin plan.calls
    BY <2>2 DEF EndInv, StoppedEnds, ShutdownReclaims, Pending, CallOn
  <2> QED BY <2>1, <2>2
<1> QED BY <1>1, EndInvHolds, PTL


-----------------------------------------------------------------------------
(* A guest thread is freed only when the scheduler cannot reach it any     *)
(* more: nothing links or switches to a thread whose self reference        *)
(* ReclaimExited has dropped.                                              *)
-----------------------------------------------------------------------------

(* The plans the code keeps this for.  A resume reads thread_state without *)
(* the lock and may queue a thread that has exited since, and may queue    *)
(* one that Shutdown drained; a terminate may free a thread that a Create  *)
(* on another host thread is still about to queue.                         *)
FreesApart ==
  \A p \in Plans :
    /\ "resume" \in p.calls => /\ p.calls \cap {"terminate", "shutdown"} = {}
                              /\ "exit" \notin p.guestOps
    /\ "terminate" \in p.calls => \A j, k \in Callers : j = k

-----------------------------------------------------------------------------
(* With resumes: nothing ends                                              *)
-----------------------------------------------------------------------------
NothingEnds ==
  /\ reclaimed = {} /\ phase = "up"
  /\ \A c \in Cpus : exitedThread[c] = None
  /\ \A t \in Threads : fiber[t] \notin {"exiting", "exitYielded"}


(* No step frees a thread or begins to.                                    *)
LEMMA NothingEndsKept ==
  ASSUME NoSelfResume, FreesApart, plan \in Plans, "resume" \in plan.calls, IInv, KeptInv,
         NothingEnds, Next
  PROVE  NothingEnds'
<1>0. /\ NothingEnds /\ FiberType /\ LoopType /\ OwnType /\ terminatePending = {}
      /\ "shutdown" \notin plan.calls /\ "exit" \notin plan.guestOps
      /\ \A k \in Callers : call[k].pc \notin {"terminate", "reclaim"}
      /\ \A c \in Cpus : loop[c] = "fiber" => next[c] \in Threads
  BY Owning DEF IInv, TypeInv, KeptInv, ResumeRegime, FreesApart, Reaping
<1>1. ASSUME NEW k \in Callers, NEW t \in Threads, NEW c \in Cpus, NEW p \in Levels,
               NEW b \in BOOLEAN, Create(k, t, c, p, b)
      PROVE  NothingEnds'
  BY <1>0, <1>1 DEF Create, Begin, cpuVars, listVars, lifeVars, loopVars, ownVars,
     LoopType, FiberType, OwnType, NothingEnds
<1>2. ASSUME NEW k \in Callers, NEW t \in Threads, Resume(k, t)
      PROVE  NothingEnds'
  BY <1>0, <1>2 DEF Resume, Begin, At, ResumesFrom, Exists, cpuVars, listVars, lifeVars,
     loopVars, ownVars, LoopType, FiberType, OwnType, NothingEnds
<1>3. ASSUME NEW k \in Callers, NEW t \in Threads, Suspend(k, t)
      PROVE  NothingEnds'
  BY <1>0, <1>3 DEF Suspend, cpuVars, listVars, lifeVars, loopVars, ownVars, LoopType,
     FiberType, OwnType, NothingEnds
<1>4. ASSUME NEW k \in Callers, NEW t \in Threads, Terminate(k, t)
      PROVE  NothingEnds'
  BY <1>0, <1>4 DEF Terminate, Begin, At, cpuVars, listVars, loopVars, ownVars, LoopType,
     FiberType, OwnType, NothingEnds
<1>5. ASSUME NEW k \in Callers, NEW t \in Threads, NEW c \in Cpus, SetActiveCpu(k, t, c)
      PROVE  NothingEnds'
  BY <1>0, <1>5 DEF SetActiveCpu, Begin, At, cpuVars, listVars, lifeVars, loopVars,
     ownVars, LoopType, FiberType, OwnType, NothingEnds
<1>6. ASSUME NEW k \in Callers, NEW t \in Threads, NEW p \in Levels, PublishPriority(k, t, p)
      PROVE  NothingEnds'
  BY <1>0, <1>6 DEF PublishPriority, Begin, At, cpuVars, listVars, lifeVars, loopVars,
     ownVars, LoopType, FiberType, OwnType, NothingEnds
<1>7. ASSUME NEW k \in Callers, NEW o \in Objects, Signal(k, o)
      PROVE  NothingEnds'
  BY <1>0, <1>7 DEF Signal, Begin, At, cpuVars, listVars, lifeVars, loopVars, ownVars,
     LoopType, FiberType, OwnType, NothingEnds
<1>8. ASSUME NEW k \in Callers, BeginWakeAll(k)
      PROVE  NothingEnds'
  BY <1>0, <1>8 DEF BeginWakeAll, Begin, At, threadVars, cpuVars, loopVars, listVars,
     lifeVars, ownVars, LoopType, FiberType, OwnType, NothingEnds
<1>9. ASSUME NEW k \in Callers, NEW C \in SUBSET BackgroundCpus, EnterBackgroundMode(k, C)
      PROVE  NothingEnds'
  BY <1>0, <1>9 DEF EnterBackgroundMode, threadVars, ownVars, loopVars, listVars,
     lifeVars, LoopType, FiberType, OwnType, NothingEnds
<1>10. ASSUME NEW k \in Callers, ResumeThread(k)
      PROVE  NothingEnds'
  BY <1>0, <1>10 DEF ResumeThread, Begin, At, cpuVars, lifeVars, loopVars, ownVars,
     LoopType, FiberType, OwnType, NothingEnds
<1>11. ASSUME NEW k \in Callers, MarkReady(k)
      PROVE  NothingEnds'
  BY <1>0, <1>11 DEF MarkReady, Begin, At, Return, threadVars, cpuVars, loopVars,
     listVars, lifeVars, ownVars, LoopType, FiberType, OwnType, NothingEnds
<1>12. ASSUME NEW k \in Callers, EnqueueReady(k)
      PROVE  NothingEnds'
  BY <1>0, <1>12 DEF EnqueueReady, At, Return, lifeVars, cpuVars, ownVars, NothingEnds
<1>13. ASSUME NEW k \in Callers, TerminateThread(k)
      PROVE  NothingEnds'
  BY <1>0, <1>13 DEF TerminateThread, At, Begin, Return, cpuVars, listVars, loopVars,
     ownVars, LoopType, FiberType, OwnType, NothingEnds
<1>14. ASSUME NEW k \in Callers, ReclaimTerminated(k)
      PROVE  NothingEnds'
  BY <1>0, <1>14 DEF ReclaimTerminated, At, Return, cpuVars, listVars, loopVars, ownVars,
     LoopType, FiberType, OwnType, NothingEnds
<1>15. ASSUME NEW k \in Callers, MigrateForAffinity(k)
      PROVE  NothingEnds'
  BY <1>0, <1>15 DEF MigrateForAffinity, At, Return, lifeVars, ownVars, loopVars,
     LoopType, FiberType, OwnType, NothingEnds
<1>16. ASSUME NEW k \in Callers, RequeueForPriority(k)
      PROVE  NothingEnds'
  BY <1>0, <1>16 DEF RequeueForPriority, At, Return, cpuVars, lifeVars, loopVars, ownVars,
     LoopType, FiberType, OwnType, NothingEnds
<1>17. ASSUME NEW k \in Callers, SignalCheck(k)
      PROVE  NothingEnds'
  BY <1>0, <1>17 DEF SignalCheck, AnyBlocked, At, Begin, Return, threadVars, cpuVars,
     loopVars, listVars, lifeVars, ownVars, LoopType, FiberType, OwnType, NothingEnds
<1>18. ASSUME NEW k \in Callers, WakeForSignal(k)
      PROVE  NothingEnds'
  BY <1>0, <1>18 DEF WakeForSignal, At, cpuVars, listVars, lifeVars, loopVars, ownVars,
     LoopType, FiberType, OwnType, NothingEnds
<1>19. ASSUME NEW k \in Callers, WakeAllCheck(k)
      PROVE  NothingEnds'
  BY <1>0, <1>19 DEF WakeAllCheck, AnyBlocked, At, Begin, Return, threadVars, cpuVars,
     loopVars, listVars, lifeVars, ownVars, LoopType, FiberType, OwnType, NothingEnds
<1>20. ASSUME NEW k \in Callers, WakeAll(k)
      PROVE  NothingEnds'
  BY <1>0, <1>20 DEF WakeAll, At, cpuVars, listVars, lifeVars, loopVars, ownVars,
     LoopType, FiberType, OwnType, NothingEnds
<1>21. ASSUME NEW k \in Callers, NEW c \in Cpus, Wake(k, c)
      PROVE  NothingEnds'
  BY <1>0, <1>21 DEF Wake, At, threadVars, ownVars, loopVars, listVars, lifeVars,
     LoopType, FiberType, OwnType, NothingEnds
<1>22. ASSUME NEW c \in Cpus, Yield(c)
      PROVE  NothingEnds'
  BY <1>0, <1>22 DEF Yield, YieldCurrentThread, YieldLeavesAlone, ExitIfTerminated,
     YieldToScheduler, FiberAt, OnCpu, listVars, LoopType, FiberType, OwnType, NothingEnds
<1>23. ASSUME NEW c \in Cpus, SelfSuspend(c)
      PROVE  NothingEnds'
  BY <1>0, <1>23 DEF SelfSuspend, YieldCurrentThread, YieldLeavesAlone, ExitIfTerminated,
     YieldToScheduler, FiberAt, OnCpu, listVars, LoopType, FiberType, OwnType, NothingEnds
<1>24. ASSUME NEW c \in Cpus, NEW S \in SUBSET Objects, SampleEpoch(c, S)
      PROVE  NothingEnds'
  BY <1>0, <1>24 DEF SampleEpoch, OnCpu, FiberAt, StaysOnCpu, cpuVars, listVars, lifeVars,
     loopVars, ownVars, LoopType, FiberType, OwnType, NothingEnds
<1>25. ASSUME NEW c \in Cpus, Delay(c)
      PROVE  NothingEnds'
  BY <1>0, <1>25 DEF Delay, BlockCurrentThread, ParkBlocked, ExitIfTerminated,
     BlockLeavesAlone, OnCpu, FiberAt, YieldToScheduler, PokeIfMoved, LoopType, FiberType,
     OwnType, NothingEnds
<1>26. ASSUME NEW c \in Cpus, BlockUngated(c)
      PROVE  NothingEnds'
  BY <1>0, <1>26 DEF BlockUngated, BlockCurrentThread, ParkBlocked, ExitIfTerminated,
     BlockLeavesAlone, OnCpu, FiberAt, YieldToScheduler, PokeIfMoved, LoopType, FiberType,
     OwnType, NothingEnds
<1>27. ASSUME NEW c \in Cpus, WaitOnFence(c)
      PROVE  NothingEnds'
  BY <1>0, <1>27 DEF WaitOnFence, ParkBlocked, BlockLeavesAlone, OnCpu, FiberAt,
     YieldToScheduler, PokeIfMoved, LoopType, FiberType, OwnType, NothingEnds
<1>28. ASSUME NEW c \in Cpus, ExitBegin(c)
      PROVE  NothingEnds'
  BY <1>0, <1>28 DEF ExitBegin, OnCpu, FiberAt, StaysOnCpu, cpuVars, listVars, loopVars,
     ownVars, LoopType, FiberType, OwnType, NothingEnds
<1>29. ASSUME NEW c \in Cpus, ExitYield(c)
      PROVE  NothingEnds'
  BY <1>0, <1>29 DEF ExitYield, YieldCurrentThread, YieldLeavesAlone, ExitIfTerminated,
     YieldToScheduler, FiberAt, OnCpu, listVars, LoopType, FiberType, OwnType, NothingEnds
<1>30. ASSUME NEW c \in Cpus, Crash(c)
      PROVE  NothingEnds'
  BY <1>0, <1>30 DEF Crash, OnCpu, FiberAt, YieldToScheduler, LoopType, FiberType,
     OwnType, NothingEnds
<1>31. ASSUME NEW c \in Cpus, PreemptCurrentFiber(c)
      PROVE  NothingEnds'
  BY <1>0, <1>31 DEF PreemptCurrentFiber, YieldCurrentThread, YieldLeavesAlone,
     ExitIfTerminated, YieldToScheduler, FiberAt, OnCpu, listVars, LoopType, FiberType,
     OwnType, NothingEnds
<1>32. ASSUME NEW c \in Cpus, FiberResume(c)
      PROVE  NothingEnds'
  <2>1. loop[c] = "fiber" /\ fiber[next[c]] # "exitYielded" /\ ~ExitIfTerminated(c)
    BY <1>0, <1>32 DEF FiberResume, OnCpu, ExitIfTerminated, NothingEnds
  <2>2. /\ fiber' = [fiber EXCEPT ![next[c]] = ResumedAt(fiber[next[c]])]
        /\ UNCHANGED <<reclaimed, phase, exitedThread>>
    BY <1>32, <2>1 DEF FiberResume, FiberAt
  <2>3. ResumedAt(fiber[next[c]]) \notin {"exiting", "exitYielded"}
    BY <1>0, <2>1 DEF ResumedAt
  <2> QED BY <1>0, <2>2, <2>3 DEF NothingEnds, FiberType
<1>33. ASSUME NEW c \in Cpus, PollSatisfied(c)
      PROVE  NothingEnds'
  BY <1>0, <1>33 DEF PollSatisfied, OnCpu, FiberAt, StaysOnCpu, cpuVars, listVars,
     lifeVars, loopVars, ownVars, LoopType, FiberType, OwnType, NothingEnds
<1>34. ASSUME NEW c \in Cpus, BlockOnObjects(c)
      PROVE  NothingEnds'
  BY <1>0, <1>34 DEF BlockOnObjects, BlockCurrentThread, ParkBlocked, ExitIfTerminated,
     BlockLeavesAlone, OnCpu, FiberAt, YieldToScheduler, PokeIfMoved, LoopType, FiberType,
     OwnType, NothingEnds
<1>35. ASSUME NEW c \in Cpus, ExitEnd(c)
      PROVE  NothingEnds'
  BY <1>0, <1>35 DEF ExitEnd, OnCpu, FiberAt, YieldToScheduler, threadVars, listVars,
     lifeVars, LoopType, FiberType, OwnType, NothingEnds
<1>36. ASSUME NEW c \in Cpus, Top(c)
      PROVE  NothingEnds'
  BY <1>0, <1>36 DEF Top, Goes, cpuVars, listVars, lifeVars, ownVars, LoopType, FiberType,
     OwnType, NothingEnds
<1>37. ASSUME NEW c \in Cpus, RepollDue(c)
      PROVE  NothingEnds'
  BY <1>0, <1>37 DEF RepollDue, Goes, threadVars, cpuVars, listVars, lifeVars, ownVars,
     LoopType, FiberType, OwnType, NothingEnds
<1>38. ASSUME NEW c \in Cpus, SleepTimeout(c)
      PROVE  NothingEnds'
  BY <1>0, <1>38 DEF SleepTimeout, WakesUp, Goes, threadVars, ownVars, listVars, lifeVars,
     LoopType, FiberType, OwnType, NothingEnds
<1>39. ASSUME NEW c \in Cpus, RereadyBegin(c)
      PROVE  NothingEnds'
  BY <1>0, <1>39 DEF RereadyBegin, Goes, cpuVars, listVars, lifeVars, ownVars, LoopType,
     FiberType, OwnType, NothingEnds
<1>40. ASSUME NEW c \in Cpus, NEW t \in Threads, KeepBlocked(c, t)
      PROVE  NothingEnds'
  BY <1>0, <1>40 DEF KeepBlocked, MayHaveResolved, Visits, cpuVars, listVars, lifeVars,
     loopVars, ownVars, LoopType, FiberType, OwnType, NothingEnds
<1>41. ASSUME NEW c \in Cpus, NEW t \in Threads, Reready(c, t)
      PROVE  NothingEnds'
  BY <1>0, <1>41 DEF Reready, lifeVars, cpuVars, ownVars, NothingEnds
<1>42. ASSUME NEW c \in Cpus, RereadyEnd(c)
      PROVE  NothingEnds'
  BY <1>0, <1>42 DEF RereadyEnd, Goes, cpuVars, listVars, lifeVars, ownVars, LoopType,
     FiberType, OwnType, NothingEnds
<1>43. ASSUME NEW c \in Cpus, LoopWoken(c)
      PROVE  NothingEnds'
  BY <1>0, <1>43 DEF LoopWoken, Goes, threadVars, cpuVars, listVars, lifeVars, ownVars,
     LoopType, FiberType, OwnType, NothingEnds
<1>44. ASSUME NEW c \in Cpus, NEW d \in Cpus, LoopWake(c, d)
      PROVE  NothingEnds'
  BY <1>0, <1>44 DEF LoopWake, threadVars, ownVars, loopVars, listVars, lifeVars,
     LoopType, FiberType, OwnType, NothingEnds
<1>45. ASSUME NEW c \in Cpus, DequeueReady(c)
      PROVE  NothingEnds'
  BY <1>0, <1>45 DEF DequeueReady, lifeVars, cpuVars, ownVars, NothingEnds
<1>46. ASSUME NEW c \in Cpus, DequeueNothing(c)
      PROVE  NothingEnds'
  BY <1>0, <1>46 DEF DequeueNothing, Goes, threadVars, cpuVars, listVars, lifeVars,
     ownVars, LoopType, FiberType, OwnType, NothingEnds
<1>47. ASSUME NEW c \in Cpus, Picked(c)
      PROVE  NothingEnds'
  BY <1>0, <1>47 DEF Picked, threadVars, cpuVars, listVars, lifeVars, ownVars, LoopType,
     FiberType, OwnType, NothingEnds
<1>48. ASSUME NEW c \in Cpus, MigrateHome(c)
      PROVE  NothingEnds'
  BY <1>0, <1>48 DEF MigrateHome, lifeVars, LoopType, FiberType, OwnType, NothingEnds
<1>49. ASSUME NEW c \in Cpus, ParkSuspended(c)
      PROVE  NothingEnds'
  BY <1>0, <1>49 DEF ParkSuspended, MustPark, lifeVars, LoopType, FiberType, OwnType,
     NothingEnds
<1>50. ASSUME NEW c \in Cpus, SwitchTo(c)
      PROVE  NothingEnds'
  BY <1>0, <1>50 DEF SwitchTo, Goes, listVars, LoopType, FiberType, OwnType, NothingEnds
<1>51. ASSUME NEW c \in Cpus, SwitchedBack(c)
      PROVE  NothingEnds'
  BY <1>0, <1>51 DEF SwitchedBack, AfterSwitch, threadVars, listVars, lifeVars, LoopType,
     FiberType, OwnType, NothingEnds
<1>52. ASSUME NEW c \in Cpus, ReclaimExited(c)
      PROVE  NothingEnds'
  BY <1>0, <1>52 DEF ReclaimExited, Goes, listVars, LoopType, FiberType, OwnType,
     NothingEnds
<1>53. ASSUME NEW c \in Cpus, IdleParks(c)
      PROVE  NothingEnds'
  BY <1>0, <1>53 DEF IdleParks, Goes, threadVars, ownVars, listVars, lifeVars, LoopType,
     FiberType, OwnType, NothingEnds
<1>54. ASSUME NEW c \in Cpus, IdleRechecks(c)
      PROVE  NothingEnds'
  BY <1>0, <1>54 DEF IdleRechecks, Goes, HasWork, threadVars, ownVars, listVars, lifeVars,
     LoopType, FiberType, OwnType, NothingEnds
<1>55. ASSUME NEW c \in Cpus, SleepWoken(c)
      PROVE  NothingEnds'
  BY <1>0, <1>55 DEF SleepWoken, WakesUp, Goes, threadVars, ownVars, listVars, lifeVars,
     LoopType, FiberType, OwnType, NothingEnds
<1>56. ASSUME ShutdownBegin
      PROVE  NothingEnds'
  BY <1>0, <1>56 DEF ShutdownBegin, threadVars, cpuVars, loopVars, listVars, lifeVars,
     ownVars, LoopType, FiberType, OwnType, NothingEnds
<1>57. ASSUME NEW c \in Cpus, ShutdownNudge(c)
      PROVE  NothingEnds'
  BY <1>0, <1>57 DEF ShutdownNudge, threadVars, ownVars, loopVars, listVars, lifeVars,
     LoopType, FiberType, OwnType, NothingEnds
<1>58. ASSUME ShutdownDrain
      PROVE  NothingEnds'
  BY <1>0, <1>58 DEF ShutdownDrain, Leftovers, loopVars, LoopType, FiberType, OwnType,
     NothingEnds
<1>59. ASSUME NEW c \in Cpus, SelfResume(c) PROVE FALSE
  BY <1>59 DEF SelfResume, NoSelfResume
<1>60. \A s \in Starts : s[1] \in Threads /\ s[2] \in Cpus /\ s[3] \in Levels
  BY ConstantsAssumption
<1>61. CASE \E k \in Callers : CallStarts(k) \/ CallContinues(k)
  BY <1>61, <1>60, <1>1, <1>2, <1>3, <1>4, <1>5, <1>6, <1>7, <1>8, <1>9, <1>10, <1>11,
     <1>12, <1>13, <1>14, <1>15, <1>16, <1>17, <1>18, <1>19, <1>20, <1>21
     DEF CallStarts, CallContinues
<1>62. CASE \E c \in Cpus : GuestActs(c) \/ PreemptCurrentFiber(c) \/ FiberContinues(c)
  BY <1>62, <1>59, <1>22, <1>23, <1>24, <1>25, <1>26, <1>27, <1>28, <1>29, <1>30, <1>31,
     <1>32, <1>33, <1>34, <1>35
     DEF GuestActs, FiberContinues
<1>63. CASE \E c \in Cpus : Dispatches(c) \/ RepollDue(c) \/ SleepTimeout(c)
  BY <1>63, <1>36, <1>37, <1>38, <1>39, <1>40, <1>41, <1>42, <1>43, <1>44, <1>45, <1>46,
     <1>47, <1>48, <1>49, <1>50, <1>51, <1>52, <1>53, <1>54, <1>55
     DEF Dispatches, Walks
<1>64. CASE ShutdownActs
  BY <1>64, <1>56, <1>57, <1>58 DEF ShutdownActs
<1> QED BY <1>61, <1>62, <1>63, <1>64 DEF Next

-----------------------------------------------------------------------------
(* Without resumes                                                         *)
-----------------------------------------------------------------------------
(* What a dispatch thread is to reclaim is over, and only that dispatch    *)
(* thread, on its way back from it, still owns it.                         *)
ExitedIsLast ==
  \A c \in Cpus :
    exitedThread[c] # None =>
      /\ Over(exitedThread[c])
      /\ exitedThread[c] \in running => loop[c] = "back" /\ next[c] = exitedThread[c]

(* What a terminate is to reclaim is in no list and owned by nobody.       *)
ReapingIsGone ==
  \A k \in Callers : call[k].pc = "reclaim" => call[k].t \notin Listed \cup running

(* What a Create is to queue was not reclaimed.                            *)
NewcomersLive ==
  \A k \in Callers : call[k].pc \in {"markReady", "enqueue"} => call[k].t \notin reclaimed

(* Every thread that was reclaimed had been created.                         *)
ReclaimedExist == \A t \in reclaimed : Exists(t)

(* Only a terminate ends another thread.                                   *)
ReapingTerminates ==
  \A k \in Callers : call[k].pc \in Reaping => "terminate" \in plan.calls

FreeInv ==
  /\ ReclaimedIsGone /\ ExitedIsLast /\ ReapingIsGone
  /\ NewcomersLive /\ ReclaimedExist /\ ReapingTerminates

(* A step that reclaims nothing and links or owns nothing new.             *)
ThreadsRest ==
  /\ reclaimed' = reclaimed
  /\ \A t \in Threads : t \in Listed' \cup running' => t \in Listed \cup running
  /\ \A t \in Threads : Over(t) => Over(t)' /\ (t \in running' => t \in running)
  /\ \A t \in Threads : Exists(t) => Exists(t)'
  /\ \A c \in Cpus : loop[c] = "back" =>
        (loop'[c] = "back" /\ next'[c] = next[c]) \/ next[c] \notin running'
  /\ \A c \in Cpus : \/ exitedThread'[c] \in {exitedThread[c], None}
                     \/ /\ Over(exitedThread[c])' /\ loop'[c] = "back"
                        /\ next'[c] = exitedThread'[c]

(* A step that brings no call to where it readies or reclaims a thread.    *)
CallsRest ==
  /\ \A k \in Callers : call'[k].pc \in {"markReady", "enqueue"} =>
        call[k].pc \in {"markReady", "enqueue"} /\ call'[k].t = call[k].t
  /\ \A k \in Callers : call'[k].pc = "reclaim" => call'[k] = call[k]
  /\ \A k \in Callers : call'[k].pc \in Reaping =>
        call[k].pc \in Reaping \/ "terminate" \in plan.calls

(* What such a step leaves.                                                *)
LEMMA FreeThreadsKept ==
  ASSUME IInv, IInv', FreeInv, ThreadsRest
  PROVE  (ReclaimedIsGone /\ ExitedIsLast /\ ReclaimedExist)'
<1>0. /\ reclaimed \subseteq Threads
      /\ queued' \cup blocked' \cup suspended' \cup running' \subseteq Threads
      /\ \A c \in Cpus : exitedThread[c] \in Threads \cup {None}
  BY DEF IInv, TypeInv, LifeType, OwnType, ListInv
<1>1. ReclaimedIsGone'
  BY <1>0 DEF FreeInv, ThreadsRest, ReclaimedIsGone, Listed
<1>2. ReclaimedExist'
  BY <1>0 DEF FreeInv, ThreadsRest, ReclaimedExist
<1>3. ASSUME NEW c \in Cpus, exitedThread'[c] # None
      PROVE  /\ Over(exitedThread[c])'
             /\ exitedThread'[c] \in running' =>
                  loop'[c] = "back" /\ next'[c] = exitedThread'[c]
  <2>1. CASE exitedThread'[c] = exitedThread[c]
    BY <1>0, <1>3, <2>1 DEF FreeInv, ExitedIsLast, ThreadsRest
  <2>2. CASE exitedThread'[c] # exitedThread[c]
    BY <1>3, <2>2 DEF ThreadsRest
  <2> QED BY <2>1, <2>2
<1>4. ExitedIsLast'
  BY <1>3 DEF ExitedIsLast, Over
<1> QED BY <1>1, <1>2, <1>4

(* And what such a step of the calls leaves.                                 *)
LEMMA FreeCallsKept ==
  ASSUME IInv, FreeInv, ThreadsRest, CallsRest, plan' = plan
  PROVE  (ReapingIsGone /\ NewcomersLive /\ ReapingTerminates)'
<1>0. \A k \in Callers :
        call[k].pc \in {"reclaim", "markReady", "enqueue"} => call[k].t \in Threads
  BY DEF IInv, RefInv, ThreadCallPcs
<1>1. ReapingIsGone'
  BY <1>0 DEF FreeInv, ThreadsRest, CallsRest, ReapingIsGone
<1>2. NewcomersLive'
  BY DEF FreeInv, ThreadsRest, CallsRest, NewcomersLive
<1>3. ReapingTerminates'
  BY DEF FreeInv, CallsRest, ReapingTerminates
<1> QED BY <1>1, <1>2, <1>3

(* No step without a resume frees a thread that can still be reached.      *)
LEMMA FreeInvKept ==
  ASSUME NoSelfResume, FreesApart, plan \in Plans, "resume" \notin plan.calls,
         IInv, IInv', KeptInv, OutInv, FreeInv, Next
  PROVE  FreeInv'
<1>0. /\ OverIsOut /\ Newcomers /\ LoopType /\ FiberType /\ LifeType /\ OwnType /\ CallType
      /\ queued \cup blocked \cup suspended \cup running \subseteq Threads
      /\ plan' = plan
      /\ \A k \in Callers :
           call[k].pc \in ThreadCallPcs => call[k].t \in Threads /\ Exists(call[k].t)
      /\ \A k \in Callers : call[k].pc # "unlink"
  BY PlanKept DEF OutInv, IInv, TypeInv, ListInv, OwnType, RefInv, KeptInv, EndRegime
<1>a. \A c \in Cpus : loop[c] \in {"picked", "settled", "migrate", "fiber", "back"}
          => next[c] \in Threads /\ next[c] \in running /\ Exists(next[c])
  BY Owning
<1>b. ThreadsRest /\ CallsRest => FreeInv'
  BY <1>0, FreeThreadsKept, FreeCallsKept DEF FreeInv
<1>c. \A j, k \in Callers : call[k].pc \in Reaping => j = k
  BY DEF FreeInv, ReapingTerminates, FreesApart
<1>1. ASSUME NEW k \in Callers, NEW t \in Threads, NEW c \in Cpus, NEW p \in Levels,
               NEW b \in BOOLEAN, Create(k, t, c, p, b)
      PROVE  FreeInv'
  <2>1. ThreadsRest
    BY <1>0, <1>a, <1>1 DEF Create, cpuVars, listVars, lifeVars, ownVars, loopVars,
       Listed, Over, Exists, FiberType,
       ThreadsRest
  <2>2. /\ ReclaimedIsGone' /\ ExitedIsLast' /\ ReclaimedExist'
    BY <1>0, <2>1, FreeThreadsKept
  <2>3. /\ \A j \in Callers : j # k => call'[j] = call[j]
        /\ call'[k].pc \notin Reaping
        /\ (call'[k].pc \in {"markReady", "enqueue"} => call'[k].t = t \/ call'[k] = call[k])
        /\ t \notin reclaimed
    BY <1>0, <1>1 DEF Create, Begin, At, CallType, FreeInv, ReclaimedExist, Exists,
       Reaping
  <2>4. ReapingIsGone'
    BY <1>0, <2>1, <2>3 DEF ReapingIsGone, Reaping, FreeInv, ThreadsRest, ThreadCallPcs
  <2>5. NewcomersLive'
    BY <2>1, <2>3 DEF FreeInv, NewcomersLive, ThreadsRest
  <2>6. ReapingTerminates'
    BY <1>0, <2>3 DEF FreeInv, ReapingTerminates
  <2> QED BY <2>2, <2>4, <2>5, <2>6 DEF FreeInv
<1>2. ASSUME NEW k \in Callers, NEW t \in Threads, Resume(k, t)
      PROVE  FreeInv'
  BY <1>0, <1>a, <1>b, <1>2 DEF Resume, Begin, At, ResumesFrom, Exists, cpuVars, listVars,
     lifeVars, loopVars, ownVars, OverIsOut, Over, Listed, LoopType, FiberType, LifeType,
     OwnType, CallType, ThreadsRest, CallsRest, Reaping, Idle
<1>3. ASSUME NEW k \in Callers, NEW t \in Threads, Suspend(k, t)
      PROVE  FreeInv'
  BY <1>0, <1>a, <1>b, <1>3 DEF Suspend, cpuVars, listVars, lifeVars, loopVars, ownVars,
     OverIsOut, Over, Listed, LoopType, FiberType, LifeType, OwnType, CallType,
     ThreadsRest, CallsRest, Reaping, Exists, Idle
<1>4. ASSUME NEW k \in Callers, NEW t \in Threads, Terminate(k, t)
      PROVE  FreeInv'
  BY <1>0, <1>a, <1>b, <1>4 DEF Terminate, Begin, At, cpuVars, listVars, loopVars,
     ownVars, OverIsOut, Over, Listed, LoopType, FiberType, LifeType, OwnType, CallType,
     ThreadsRest, CallsRest, Reaping, Exists, Idle
<1>5. ASSUME NEW k \in Callers, NEW t \in Threads, NEW c \in Cpus, SetActiveCpu(k, t, c)
      PROVE  FreeInv'
  BY <1>0, <1>a, <1>b, <1>5 DEF SetActiveCpu, Begin, At, cpuVars, listVars, lifeVars,
     loopVars, ownVars, OverIsOut, Over, Listed, LoopType, FiberType, LifeType, OwnType,
     CallType, ThreadsRest, CallsRest, Reaping, Exists, Idle
<1>6. ASSUME NEW k \in Callers, NEW t \in Threads, NEW p \in Levels, PublishPriority(k, t, p)
      PROVE  FreeInv'
  BY <1>0, <1>a, <1>b, <1>6 DEF PublishPriority, Begin, At, cpuVars, listVars, lifeVars,
     loopVars, ownVars, OverIsOut, Over, Listed, LoopType, FiberType, LifeType, OwnType,
     CallType, ThreadsRest, CallsRest, Reaping, Exists, Idle
<1>7. ASSUME NEW k \in Callers, NEW o \in Objects, Signal(k, o)
      PROVE  FreeInv'
  BY <1>0, <1>a, <1>b, <1>7 DEF Signal, Begin, At, cpuVars, listVars, lifeVars, loopVars,
     ownVars, OverIsOut, Over, Listed, LoopType, FiberType, LifeType, OwnType, CallType,
     ThreadsRest, CallsRest, Reaping, Exists, Idle
<1>8. ASSUME NEW k \in Callers, BeginWakeAll(k)
      PROVE  FreeInv'
  BY <1>0, <1>a, <1>b, <1>8 DEF BeginWakeAll, Begin, At, threadVars, cpuVars, loopVars,
     listVars, lifeVars, ownVars, OverIsOut, Over, Listed, LoopType, FiberType, LifeType,
     OwnType, CallType, ThreadsRest, CallsRest, Reaping, Exists, Idle
<1>9. ASSUME NEW k \in Callers, NEW C \in SUBSET BackgroundCpus, EnterBackgroundMode(k, C)
      PROVE  FreeInv'
  BY <1>0, <1>a, <1>b, <1>9 DEF EnterBackgroundMode, threadVars, ownVars, loopVars,
     listVars, lifeVars, OverIsOut, Over, Listed, LoopType, FiberType, LifeType, OwnType,
     CallType, ThreadsRest, CallsRest, Reaping, Exists, Idle
<1>10. ASSUME NEW k \in Callers, ResumeThread(k)
      PROVE  FreeInv'
  BY <1>0, <1>10 DEF ResumeThread, At
<1>11. ASSUME NEW k \in Callers, MarkReady(k)
      PROVE  FreeInv'
  BY <1>0, <1>a, <1>b, <1>11, SMTT(30) DEF MarkReady, Begin, At, Return, threadVars, cpuVars,
     loopVars, listVars, lifeVars, ownVars, OverIsOut, Over, Listed, LoopType, FiberType,
     LifeType, OwnType, CallType, ThreadsRest, CallsRest, Reaping, Exists, Idle
<1>12. ASSUME NEW k \in Callers, EnqueueReady(k)
      PROVE  FreeInv'
  <2> DEFINE t == call[k].t
  <2>0. /\ t \in Threads /\ t \notin reclaimed /\ ~Over(t)
        /\ UNCHANGED <<fiber, loop, next, running, reclaimed, exitedThread>>
        /\ call[k].pc \notin Reaping
    BY <1>0, <1>12 DEF EnqueueReady, At, Newcomers, loopVars, cpuVars, ownVars,
       lifeVars, FreeInv, NewcomersLive,
       Over, ThreadCallPcs, Reaping
  <2>1. Listed' \subseteq Listed \cup {t}
    BY <1>12 DEF EnqueueReady, LinkAtTurn, LinkReadyLocked, Listed
  <2>2. CallsRest
    BY <1>0, <1>12 DEF EnqueueReady, At, Return, WakeAndReturn, Idle, CallsRest,
       CallType, Reaping
  <2> HIDE DEF t
  <2>3. /\ ReclaimedIsGone' /\ ExitedIsLast' /\ ReclaimedExist'
    BY <2>0, <2>1 DEF FreeInv, ReclaimedIsGone, ExitedIsLast, ReclaimedExist, Over, Exists
  <2>4. ReapingIsGone'
    BY <1>12, <1>c, <2>0, <2>2 DEF ReapingIsGone, CallsRest, Reaping
  <2>5. NewcomersLive' /\ ReapingTerminates'
    BY <1>0, <2>0, <2>2 DEF FreeInv, CallsRest, NewcomersLive, ReapingTerminates
  <2> QED BY <2>3, <2>4, <2>5 DEF FreeInv
<1>13. ASSUME NEW k \in Callers, TerminateThread(k)
      PROVE  FreeInv'
  <2> DEFINE t == call[k].t
  <2>a. /\ UNCHANGED <<fiber, loop, next, running, reclaimed, exitedThread>>
        /\ At(k, "terminate") /\ t \in Threads /\ "terminate" \in plan.calls
        /\ \/ TerminateRunning(k, t) \/ TerminateParked(k, t)
           \/ TerminateUnlisted(k, t) \/ TerminateStopped(k, t)
    BY <1>0, <1>13 DEF TerminateThread, At, cpuVars, ownVars, loopVars, FreeInv,
       ReapingTerminates, Reaping, ThreadCallPcs
  <2>b. /\ Listed' \subseteq Listed
        /\ \A j \in Callers : j # k => call'[j] = call[j]
        /\ call'[k].pc \notin {"markReady", "enqueue"}
        /\ call'[k].pc = "reclaim" => call'[k].t = t /\ t \notin Listed' \cup running
    <3>1. CASE TerminateRunning(k, t)
      BY <1>0, <3>1 DEF TerminateRunning, Return, Idle, CallType, listVars, Listed
    <3>2. CASE TerminateParked(k, t)
      BY <1>0, <3>2 DEF TerminateParked, LinkReadyLocked, WakeAndReturn, Idle,
         CallType, Listed
    <3>3. CASE TerminateUnlisted(k, t)
      BY <1>0, <3>3 DEF TerminateUnlisted, NeverDispatchable, Begin, Return, Idle,
         CallType,
         listVars, Listed
    <3>4. CASE TerminateStopped(k, t)
      BY <1>0, <3>4 DEF TerminateStopped, Detach, Begin, Return, Idle, CallType, Listed
    <3> QED BY <2>a, <3>1, <3>2, <3>3, <3>4
  <2> HIDE DEF t
  <2>1. ThreadsRest
    BY <1>0, <2>a, <2>b DEF ThreadsRest, Over, Exists
  <2>2. /\ ReclaimedIsGone' /\ ExitedIsLast' /\ ReclaimedExist'
    BY <1>0, <2>1, FreeThreadsKept
  <2>3. ReapingIsGone'
    BY <1>0, <2>a, <2>b DEF FreeInv, ReapingIsGone
  <2>4. NewcomersLive' /\ ReapingTerminates'
    BY <1>0, <2>a, <2>b DEF FreeInv, NewcomersLive, ReapingTerminates
  <2> QED BY <2>2, <2>3, <2>4 DEF FreeInv
<1>14. ASSUME NEW k \in Callers, ReclaimTerminated(k)
      PROVE  FreeInv'
  <2> DEFINE t == call[k].t
  <2>0. /\ t \in Threads /\ Exists(t) /\ t \notin Listed \cup running
        /\ UNCHANGED <<fiber, loop, next, running, exitedThread, queued, blocked, suspended>>
        /\ reclaimed' = reclaimed \cup {t} /\ call[k].pc \in Reaping
    BY <1>0, <1>14 DEF ReclaimTerminated, At, listVars, cpuVars, ownVars, loopVars,
       FreeInv, ReapingIsGone, ThreadCallPcs, Reaping
  <2>1. CallsRest /\ call'[k].pc = "idle"
    BY <1>0, <1>14 DEF ReclaimTerminated, At, Return, Idle, CallsRest, CallType, Reaping
  <2> HIDE DEF t
  <2>2. /\ ReclaimedIsGone' /\ ExitedIsLast' /\ ReclaimedExist'
    BY <2>0 DEF FreeInv, ReclaimedIsGone, ExitedIsLast, ReclaimedExist, Over, Exists,
       Listed
  <2>3. ReapingIsGone' /\ ReapingTerminates'
    BY <1>0, <2>0, <2>1 DEF FreeInv, ReapingIsGone, ReapingTerminates, CallsRest, Listed
  <2>4. NewcomersLive'
    BY <1>14, <1>c, <2>0, <2>1 DEF NewcomersLive
  <2> QED BY <2>2, <2>3, <2>4 DEF FreeInv
<1>15. ASSUME NEW k \in Callers, MigrateForAffinity(k)
      PROVE  FreeInv'
  <2>1. /\ UNCHANGED <<fiber, loop, next, running, reclaimed, exitedThread>>
        /\ Listed' \subseteq Listed
    BY <1>15 DEF MigrateForAffinity, LinkAtTurn, LinkReadyLocked, lifeVars, ownVars,
       loopVars, Listed
  <2>2. ThreadsRest
    BY <1>0, <2>1 DEF ThreadsRest, Over, Exists
  <2>3. CallsRest
    BY <1>0, <1>15, SMTT(30) DEF MigrateForAffinity, At, Return, WakeAndReturn, Idle, CallsRest,
       CallType, Reaping
  <2> QED BY <1>b, <2>2, <2>3
<1>16. ASSUME NEW k \in Callers, RequeueForPriority(k)
      PROVE  FreeInv'
  BY <1>0, <1>a, <1>b, <1>16 DEF RequeueForPriority, At, Return, LockFree,
     LinkReadyLocked, cpuVars, lifeVars, loopVars, ownVars, OverIsOut, Over, Listed,
     LoopType, FiberType, LifeType, OwnType, CallType, ThreadsRest, CallsRest, Reaping,
     Exists, Idle
<1>17. ASSUME NEW k \in Callers, SignalCheck(k)
      PROVE  FreeInv'
  BY <1>0, <1>a, <1>b, <1>17, SMTT(30) DEF SignalCheck, AnyBlocked, At, Begin, Return, threadVars,
     cpuVars, loopVars, listVars, lifeVars, ownVars, OverIsOut, Over, Listed, LoopType,
     FiberType, LifeType, OwnType, CallType, ThreadsRest, CallsRest, Reaping, Exists, Idle
<1>18. ASSUME NEW k \in Callers, WakeForSignal(k)
      PROVE  FreeInv'
  BY <1>0, <1>a, <1>b, <1>18 DEF WakeForSignal, At, LockFree, WakeAndReturn, cpuVars,
     listVars, lifeVars, loopVars, ownVars, OverIsOut, Over, Listed, LoopType, FiberType,
     LifeType, OwnType, CallType, ThreadsRest, CallsRest, Reaping, Exists, Idle
<1>19. ASSUME NEW k \in Callers, WakeAllCheck(k)
      PROVE  FreeInv'
  BY <1>0, <1>a, <1>b, <1>19, SMTT(30) DEF WakeAllCheck, AnyBlocked, At, Begin, Return, threadVars,
     cpuVars, loopVars, listVars, lifeVars, ownVars, OverIsOut, Over, Listed, LoopType,
     FiberType, LifeType, OwnType, CallType, ThreadsRest, CallsRest, Reaping, Exists, Idle
<1>20. ASSUME NEW k \in Callers, WakeAll(k)
      PROVE  FreeInv'
  BY <1>0, <1>a, <1>b, <1>20 DEF WakeAll, At, LockFree, WakeAndReturn, cpuVars, listVars,
     lifeVars, loopVars, ownVars, OverIsOut, Over, Listed, LoopType, FiberType, LifeType,
     OwnType, CallType, ThreadsRest, CallsRest, Reaping, Exists, Idle
<1>21. ASSUME NEW k \in Callers, NEW c \in Cpus, Wake(k, c)
      PROVE  FreeInv'
  BY <1>0, <1>a, <1>b, <1>21 DEF Wake, At, WakeAndReturn, threadVars, ownVars, loopVars,
     listVars, lifeVars, OverIsOut, Over, Listed, LoopType, FiberType, LifeType, OwnType,
     CallType, ThreadsRest, CallsRest, Reaping, Exists, Idle
<1>22. ASSUME NEW c \in Cpus, Yield(c)
      PROVE  FreeInv'
  BY <1>0, <1>a, <1>b, <1>22 DEF Yield, YieldCurrentThread, YieldLeavesAlone,
     ExitIfTerminated, YieldToScheduler, FiberAt, LinkAtTurn, LinkReadyLocked, OnCpu,
     LeftAlone, listVars, OverIsOut, Over, Listed, LoopType, FiberType, LifeType, OwnType,
     CallType, ThreadsRest, CallsRest, Reaping, Exists, Idle
<1>23. ASSUME NEW c \in Cpus, SelfSuspend(c)
      PROVE  FreeInv'
  BY <1>0, <1>a, <1>b, <1>23 DEF SelfSuspend, YieldCurrentThread, YieldLeavesAlone,
     ExitIfTerminated, YieldToScheduler, FiberAt, LinkAtTurn, LinkReadyLocked, OnCpu,
     LeftAlone, listVars, OverIsOut, Over, Listed, LoopType, FiberType, LifeType, OwnType,
     CallType, ThreadsRest, CallsRest, Reaping, Exists, Idle
<1>24. ASSUME NEW c \in Cpus, NEW S \in SUBSET Objects, SampleEpoch(c, S)
      PROVE  FreeInv'
  BY <1>0, <1>a, <1>b, <1>24 DEF SampleEpoch, OnCpu, FiberAt, StaysOnCpu, cpuVars,
     listVars, lifeVars, loopVars, ownVars, OverIsOut, Over, Listed, LoopType, FiberType,
     LifeType, OwnType, CallType, ThreadsRest, CallsRest, Reaping, Exists, Idle
<1>25. ASSUME NEW c \in Cpus, Delay(c)
      PROVE  FreeInv'
  BY <1>0, <1>a, <1>b, <1>25 DEF Delay, BlockCurrentThread, ParkBlocked, ExitIfTerminated,
     BlockLeavesAlone, OnCpu, FiberAt, YieldToScheduler, PokeIfMoved, LockFree, OverIsOut,
     Over, Listed, LoopType, FiberType, LifeType, OwnType, CallType, ThreadsRest,
     CallsRest, Reaping, Exists, Idle
<1>26. ASSUME NEW c \in Cpus, BlockUngated(c)
      PROVE  FreeInv'
  BY <1>0, <1>a, <1>b, <1>26 DEF BlockUngated, BlockCurrentThread, ParkBlocked,
     ExitIfTerminated, BlockLeavesAlone, OnCpu, FiberAt, YieldToScheduler, PokeIfMoved,
     LockFree, OverIsOut, Over, Listed, LoopType, FiberType, LifeType, OwnType, CallType,
     ThreadsRest, CallsRest, Reaping, Exists, Idle
<1>27. ASSUME NEW c \in Cpus, WaitOnFence(c)
      PROVE  FreeInv'
  BY <1>0, <1>a, <1>b, <1>27 DEF WaitOnFence, ParkBlocked, BlockLeavesAlone, OnCpu,
     FiberAt, YieldToScheduler, PokeIfMoved, LockFree, OverIsOut, Over, Listed, LoopType,
     FiberType, LifeType, OwnType, CallType, ThreadsRest, CallsRest, Reaping, Exists, Idle
<1>28. ASSUME NEW c \in Cpus, ExitBegin(c)
      PROVE  FreeInv'
  BY <1>0, <1>a, <1>b, <1>28 DEF ExitBegin, OnCpu, FiberAt, StaysOnCpu, cpuVars, listVars,
     loopVars, ownVars, OverIsOut, Over, Listed, LoopType, FiberType, LifeType, OwnType,
     CallType, ThreadsRest, CallsRest, Reaping, Exists, Idle
<1>29. ASSUME NEW c \in Cpus, ExitYield(c)
      PROVE  FreeInv'
  BY <1>0, <1>a, <1>b, <1>29 DEF ExitYield, YieldCurrentThread, YieldLeavesAlone,
     ExitIfTerminated, YieldToScheduler, FiberAt, LinkAtTurn, LinkReadyLocked, OnCpu,
     LeftAlone, listVars, OverIsOut, Over, Listed, LoopType, FiberType, LifeType, OwnType,
     CallType, ThreadsRest, CallsRest, Reaping, Exists, Idle
<1>30. ASSUME NEW c \in Cpus, Crash(c)
      PROVE  FreeInv'
  BY <1>0, <1>a, <1>b, <1>30 DEF Crash, OnCpu, FiberAt, YieldToScheduler, Detach,
     LockFree, OverIsOut, Over, Listed, LoopType, FiberType, LifeType, OwnType, CallType,
     ThreadsRest, CallsRest, Reaping, Exists, Idle
<1>31. ASSUME NEW c \in Cpus, PreemptCurrentFiber(c)
      PROVE  FreeInv'
  BY <1>0, <1>a, <1>b, <1>31 DEF PreemptCurrentFiber, YieldCurrentThread,
     YieldLeavesAlone, ExitIfTerminated, YieldToScheduler, FiberAt, LinkAtTurn,
     LinkReadyLocked, OnCpu, LeftAlone, listVars, OverIsOut, Over, Listed, LoopType,
     FiberType, LifeType, OwnType, CallType, ThreadsRest, CallsRest, Reaping, Exists, Idle
<1>32. ASSUME NEW c \in Cpus, FiberResume(c)
      PROVE  FreeInv'
  <2> DEFINE t == next[c]
  <2>0. /\ loop[c] = "fiber" /\ t \in Threads /\ ~Over(t) /\ Exists(t) /\ next' = next
        /\ UNCHANGED <<reclaimed, running, queued, blocked, suspended, call>>
    BY <1>0, <1>a, <1>32 DEF FiberResume, OnCpu, OverIsOut, listVars, ExitIfTerminated,
       YieldToScheduler
  <2>1. \A d \in Cpus : d # c => loop'[d] = loop[d] /\ exitedThread'[d] = exitedThread[d]
    BY <1>0, <1>32 DEF FiberResume, ExitIfTerminated, YieldToScheduler, LoopType, OwnType
  <2>2. \A u \in Threads : u # t => fiber'[u] = fiber[u]
    BY <1>0, <1>32 DEF FiberResume, ExitIfTerminated, FiberAt, FiberType
  <2>3. /\ fiber'[t] # "none"
        /\ exitedThread'[c] = exitedThread[c]
             \/ (exitedThread'[c] = t /\ loop'[c] = "back" /\ fiber'[t] = "diverted")
    <3>1. CASE ExitIfTerminated(c)
      BY <1>0, <2>0, <3>1 DEF ExitIfTerminated, YieldToScheduler, FiberAt, LoopType,
         FiberType, OwnType
    <3>2. CASE /\ fiber' = [fiber EXCEPT ![t] = ResumedAt(fiber[t])]
               /\ exitedThread' = exitedThread
      BY <1>0, <2>0, <3>2 DEF ResumedAt, FiberType
    <3> QED BY <1>32, <3>1, <3>2 DEF FiberResume, FiberAt
  <2> HIDE DEF t
  <2>4. ThreadsRest
    BY <1>0, <2>0, <2>1, <2>2, <2>3 DEF t, ThreadsRest, Over, Exists, Listed
  <2>5. CallsRest
    BY <2>0 DEF CallsRest
  <2> QED BY <1>b, <2>4, <2>5
<1>33. ASSUME NEW c \in Cpus, PollSatisfied(c)
      PROVE  FreeInv'
  BY <1>0, <1>a, <1>b, <1>33 DEF PollSatisfied, OnCpu, FiberAt, StaysOnCpu, cpuVars,
     listVars, lifeVars, loopVars, ownVars, OverIsOut, Over, Listed, LoopType, FiberType,
     LifeType, OwnType, CallType, ThreadsRest, CallsRest, Reaping, Exists, Idle
<1>34. ASSUME NEW c \in Cpus, BlockOnObjects(c)
      PROVE  FreeInv'
  BY <1>0, <1>a, <1>b, <1>34 DEF BlockOnObjects, BlockCurrentThread, ParkBlocked,
     ExitIfTerminated, BlockLeavesAlone, OnCpu, FiberAt, YieldToScheduler, PokeIfMoved,
     LockFree, OverIsOut, Over, Listed, LoopType, FiberType, LifeType, OwnType, CallType,
     ThreadsRest, CallsRest, Reaping, Exists, Idle
<1>35. ASSUME NEW c \in Cpus, ExitEnd(c)
      PROVE  FreeInv'
  BY <1>0, <1>a, <1>b, <1>35 DEF ExitEnd, OnCpu, FiberAt, YieldToScheduler, threadVars,
     listVars, lifeVars, OverIsOut, Over, Listed, LoopType, FiberType, LifeType, OwnType,
     CallType, ThreadsRest, CallsRest, Reaping, Exists, Idle
<1>36. ASSUME NEW c \in Cpus, Top(c)
      PROVE  FreeInv'
  BY <1>0, <1>a, <1>b, <1>36 DEF Top, Goes, cpuVars, listVars, lifeVars, ownVars,
     OverIsOut, Over, Listed, LoopType, FiberType, LifeType, OwnType, CallType,
     ThreadsRest, CallsRest, Reaping, Exists, Idle
<1>37. ASSUME NEW c \in Cpus, RepollDue(c)
      PROVE  FreeInv'
  BY <1>0, <1>a, <1>b, <1>37 DEF RepollDue, Goes, threadVars, cpuVars, listVars, lifeVars,
     ownVars, OverIsOut, Over, Listed, LoopType, FiberType, LifeType, OwnType, CallType,
     ThreadsRest, CallsRest, Reaping, Exists, Idle
<1>38. ASSUME NEW c \in Cpus, SleepTimeout(c)
      PROVE  FreeInv'
  BY <1>0, <1>a, <1>b, <1>38 DEF SleepTimeout, WakesUp, Goes, threadVars, ownVars,
     listVars, lifeVars, OverIsOut, Over, Listed, LoopType, FiberType, LifeType, OwnType,
     CallType, ThreadsRest, CallsRest, Reaping, Exists, Idle
<1>39. ASSUME NEW c \in Cpus, RereadyBegin(c)
      PROVE  FreeInv'
  BY <1>0, <1>a, <1>b, <1>39 DEF RereadyBegin, Goes, LockFree, cpuVars, listVars,
     lifeVars, ownVars, OverIsOut, Over, Listed, LoopType, FiberType, LifeType, OwnType,
     CallType, ThreadsRest, CallsRest, Reaping, Exists, Idle
<1>40. ASSUME NEW c \in Cpus, NEW t \in Threads, KeepBlocked(c, t)
      PROVE  FreeInv'
  BY <1>0, <1>a, <1>b, <1>40 DEF KeepBlocked, MayHaveResolved, Visits, cpuVars, listVars,
     lifeVars, loopVars, ownVars, OverIsOut, Over, Listed, LoopType, FiberType, LifeType,
     OwnType, CallType, ThreadsRest, CallsRest, Reaping, Exists, Idle
<1>41. ASSUME NEW c \in Cpus, NEW t \in Threads, Reready(c, t)
      PROVE  FreeInv'
  <2>1. /\ t \in blocked /\ Listed' \subseteq Listed \cup {t}
        /\ UNCHANGED <<fiber, loop, next, running, reclaimed, exitedThread, call>>
    BY <1>41, VisitedIsBlocked DEF Reready, LinkAtTurn, LinkReadyLocked, Listed,
       loopVars, lifeVars, cpuVars, ownVars
  <2> QED BY <1>b, <2>1 DEF ThreadsRest, CallsRest, Listed, Over, Exists
<1>42. ASSUME NEW c \in Cpus, RereadyEnd(c)
      PROVE  FreeInv'
  BY <1>0, <1>a, <1>b, <1>42 DEF RereadyEnd, Goes, cpuVars, listVars, lifeVars, ownVars,
     OverIsOut, Over, Listed, LoopType, FiberType, LifeType, OwnType, CallType,
     ThreadsRest, CallsRest, Reaping, Exists, Idle
<1>43. ASSUME NEW c \in Cpus, LoopWoken(c)
      PROVE  FreeInv'
  BY <1>0, <1>a, <1>b, <1>43 DEF LoopWoken, Goes, threadVars, cpuVars, listVars, lifeVars,
     ownVars, OverIsOut, Over, Listed, LoopType, FiberType, LifeType, OwnType, CallType,
     ThreadsRest, CallsRest, Reaping, Exists, Idle
<1>44. ASSUME NEW c \in Cpus, NEW d \in Cpus, LoopWake(c, d)
      PROVE  FreeInv'
  BY <1>0, <1>a, <1>b, <1>44 DEF LoopWake, threadVars, ownVars, loopVars, listVars,
     lifeVars, OverIsOut, Over, Listed, LoopType, FiberType, LifeType, OwnType, CallType,
     ThreadsRest, CallsRest, Reaping, Exists, Idle
<1>45. ASSUME NEW c \in Cpus, DequeueReady(c)
      PROVE  FreeInv'
  <2>1. PICK t \in queued : /\ queued' = queued \ {t} /\ next' = [next EXCEPT ![c] = t]
                            /\ loop[c] = "dequeue" /\ loop' = [loop EXCEPT ![c] = "picked"]
                            /\ running' = running \cup {t}
                            /\ UNCHANGED <<blocked, suspended, fiber>>
    BY <1>45, DequeueDoes
  <2>2. UNCHANGED <<reclaimed, exitedThread, call>>
    BY <1>45 DEF DequeueReady, lifeVars
  <2>3. ThreadsRest
    BY <1>0, <2>1, <2>2 DEF ThreadsRest, OverIsOut, Over, Exists, Listed, LoopType
  <2> QED BY <1>b, <2>2, <2>3 DEF CallsRest
<1>46. ASSUME NEW c \in Cpus, DequeueNothing(c)
      PROVE  FreeInv'
  BY <1>0, <1>a, <1>b, <1>46 DEF DequeueNothing, Goes, LockFree, threadVars, cpuVars,
     listVars, lifeVars, ownVars, OverIsOut, Over, Listed, LoopType, FiberType, LifeType,
     OwnType, CallType, ThreadsRest, CallsRest, Reaping, Exists, Idle
<1>47. ASSUME NEW c \in Cpus, Picked(c)
      PROVE  FreeInv'
  BY <1>0, <1>a, <1>b, <1>47 DEF Picked, threadVars, cpuVars, listVars, lifeVars, ownVars,
     OverIsOut, Over, Listed, LoopType, FiberType, LifeType, OwnType, CallType,
     ThreadsRest, CallsRest, Reaping, Exists, Idle
<1>48. ASSUME NEW c \in Cpus, MigrateHome(c)
      PROVE  FreeInv'
  BY <1>0, <1>a, <1>b, <1>48 DEF MigrateHome, LinkAtTurn, LinkReadyLocked, LockFree,
     lifeVars, OverIsOut, Over, Listed, LoopType, FiberType, LifeType, OwnType, CallType,
     ThreadsRest, CallsRest, Reaping, Exists, Idle
<1>49. ASSUME NEW c \in Cpus, ParkSuspended(c)
      PROVE  FreeInv'
  BY <1>0, <1>a, <1>b, <1>49 DEF ParkSuspended, LockFree, MustPark, lifeVars, OverIsOut,
     Over, Listed, LoopType, FiberType, LifeType, OwnType, CallType, ThreadsRest,
     CallsRest, Reaping, Exists, Idle
<1>50. ASSUME NEW c \in Cpus, SwitchTo(c)
      PROVE  FreeInv'
  BY <1>0, <1>a, <1>b, <1>50 DEF SwitchTo, Goes, listVars, OverIsOut, Over, Listed,
     LoopType, FiberType, LifeType, OwnType, CallType, ThreadsRest, CallsRest, Reaping,
     Exists, Idle
<1>51. ASSUME NEW c \in Cpus, SwitchedBack(c)
      PROVE  FreeInv'
  BY <1>0, <1>a, <1>b, <1>51 DEF SwitchedBack, AfterSwitch, threadVars, listVars,
     lifeVars, OverIsOut, Over, Listed, LoopType, FiberType, LifeType, OwnType, CallType,
     ThreadsRest, CallsRest, Reaping, Exists, Idle
<1>52. ASSUME NEW c \in Cpus, ReclaimExited(c)
      PROVE  FreeInv'
  <2> DEFINE t == exitedThread[c]
  <2>0. /\ UNCHANGED <<fiber, running, queued, blocked, suspended, call, next>>
        /\ loop[c] = "reap" /\ loop' = [loop EXCEPT ![c] = "top"]
        /\ reclaimed' = reclaimed \cup ({t} \ {None})
        /\ exitedThread' = [exitedThread EXCEPT ![c] = None]
    BY <1>52 DEF ReclaimExited, Goes, listVars
  <2>1. t # None => t \in Threads /\ Over(t) /\ t \notin Listed \cup running
    BY <1>0, <2>0 DEF FreeInv, ExitedIsLast, OverIsOut, OwnType
  <2> HIDE DEF t
  <2>2. ReclaimedIsGone' /\ ReclaimedExist'
    BY <1>0, <2>0, <2>1 DEF FreeInv, ReclaimedIsGone, ReclaimedExist, Exists, Over, Listed
  <2>3. ExitedIsLast'
    BY <1>0, <2>0 DEF FreeInv, ExitedIsLast, Over, LoopType, OwnType
  <2>4. ReapingIsGone' /\ ReapingTerminates'
    BY <1>0, <2>0 DEF FreeInv, ReapingIsGone, ReapingTerminates, Listed
  <2>5. NewcomersLive'
    BY <1>0, <2>0, <2>1 DEF FreeInv, NewcomersLive, Newcomers, Over
  <2> QED BY <2>2, <2>3, <2>4, <2>5 DEF FreeInv
<1>53. ASSUME NEW c \in Cpus, IdleParks(c)
      PROVE  FreeInv'
  BY <1>0, <1>a, <1>b, <1>53 DEF IdleParks, Goes, threadVars, ownVars, listVars, lifeVars,
     OverIsOut, Over, Listed, LoopType, FiberType, LifeType, OwnType, CallType,
     ThreadsRest, CallsRest, Reaping, Exists, Idle
<1>54. ASSUME NEW c \in Cpus, IdleRechecks(c)
      PROVE  FreeInv'
  BY <1>0, <1>a, <1>b, <1>54 DEF IdleRechecks, Goes, HasWork, LockFree, threadVars,
     ownVars, listVars, lifeVars, OverIsOut, Over, Listed, LoopType, FiberType, LifeType,
     OwnType, CallType, ThreadsRest, CallsRest, Reaping, Exists, Idle
<1>55. ASSUME NEW c \in Cpus, SleepWoken(c)
      PROVE  FreeInv'
  BY <1>0, <1>a, <1>b, <1>55 DEF SleepWoken, WakesUp, Goes, threadVars, ownVars, listVars,
     lifeVars, OverIsOut, Over, Listed, LoopType, FiberType, LifeType, OwnType, CallType,
     ThreadsRest, CallsRest, Reaping, Exists, Idle
<1>56. ASSUME ShutdownBegin
      PROVE  FreeInv'
  BY <1>0, <1>a, <1>b, <1>56 DEF ShutdownBegin, threadVars, cpuVars, loopVars, listVars,
     lifeVars, ownVars, OverIsOut, Over, Listed, LoopType, FiberType, LifeType, OwnType,
     CallType, ThreadsRest, CallsRest, Reaping, Exists, Idle
<1>57. ASSUME NEW c \in Cpus, ShutdownNudge(c)
      PROVE  FreeInv'
  BY <1>0, <1>a, <1>b, <1>57 DEF ShutdownNudge, threadVars, ownVars, loopVars, listVars,
     lifeVars, OverIsOut, Over, Listed, LoopType, FiberType, LifeType, OwnType, CallType,
     ThreadsRest, CallsRest, Reaping, Exists, Idle
<1>58. ASSUME ShutdownDrain
      PROVE  FreeInv'
  <2>0. /\ UNCHANGED <<fiber, running, call>> /\ reclaimed' = reclaimed \cup Leftovers
        /\ queued' = {} /\ blocked' = {} /\ suspended' = {}
        /\ \A c \in Cpus : exitedThread'[c] = None /\ loop[c] = "gone"
    BY <1>58 DEF ShutdownDrain
  <2>1. running = {}
    BY <2>0 DEF IInv, OwnInv, TypeInv, OwnType, Owns, OutInv, GoneAtTop
  <2>2. \A t \in Leftovers : t \in Listed \/ Over(t)
    BY DEF Leftovers, RangeOf, FreeInv, ExitedIsLast, OwnType, IInv, TypeInv
  <2>3. \A t \in Leftovers : t \in Threads /\ Exists(t)
    BY <1>0, <2>2 DEF Over, Exists, IInv, RefInv, Leftovers, RangeOf, OwnType, Listed
  <2>4. ReclaimedIsGone' /\ ExitedIsLast' /\ ReapingIsGone'
    BY <2>0, <2>1 DEF ReclaimedIsGone, ExitedIsLast, ReapingIsGone, Listed
  <2>5. ReclaimedExist' /\ ReapingTerminates'
    BY <1>0, <2>0, <2>3 DEF FreeInv, ReclaimedExist, ReapingTerminates, Exists
  <2>6. NewcomersLive'
    BY <1>0, <2>0, <2>2 DEF FreeInv, NewcomersLive, Newcomers, Over
  <2> QED BY <2>4, <2>5, <2>6 DEF FreeInv
<1>59. ASSUME NEW c \in Cpus, SelfResume(c) PROVE FALSE
  BY <1>59 DEF SelfResume, NoSelfResume
<1>60. \A s \in Starts : s[1] \in Threads /\ s[2] \in Cpus /\ s[3] \in Levels
  BY ConstantsAssumption
<1>61. CASE \E k \in Callers : CallStarts(k) \/ CallContinues(k)
  BY <1>61, <1>60, <1>1, <1>2, <1>3, <1>4, <1>5, <1>6, <1>7, <1>8, <1>9, <1>10, <1>11,
     <1>12, <1>13, <1>14, <1>15, <1>16, <1>17, <1>18, <1>19, <1>20, <1>21
     DEF CallStarts, CallContinues
<1>62. CASE \E c \in Cpus : GuestActs(c) \/ PreemptCurrentFiber(c) \/ FiberContinues(c)
  BY <1>62, <1>59, <1>22, <1>23, <1>24, <1>25, <1>26, <1>27, <1>28, <1>29, <1>30, <1>31,
     <1>32, <1>33, <1>34, <1>35
     DEF GuestActs, FiberContinues
<1>63. CASE \E c \in Cpus : Dispatches(c) \/ RepollDue(c) \/ SleepTimeout(c)
  BY <1>63, <1>36, <1>37, <1>38, <1>39, <1>40, <1>41, <1>42, <1>43, <1>44, <1>45, <1>46,
     <1>47, <1>48, <1>49, <1>50, <1>51, <1>52, <1>53, <1>54, <1>55
     DEF Dispatches, Walks
<1>64. CASE ShutdownActs
  BY <1>64, <1>56, <1>57, <1>58 DEF ShutdownActs
<1> QED BY <1>61, <1>62, <1>63, <1>64 DEF Next

-----------------------------------------------------------------------------
(* The invariant of both kinds of plans.                                   *)
FreedInv ==
  /\ "resume" \in plan.calls => NothingEnds
  /\ "resume" \notin plan.calls => FreeInv

(* Nothing has ended initially.                                            *)
LEMMA FreedInvStarts ==
  ASSUME Init
  PROVE  FreedInv
BY DEF Init, FreedInv, NothingEnds, FreeInv, ReclaimedIsGone, ExitedIsLast, ReapingIsGone,
   NewcomersLive, ReclaimedExist, ReapingTerminates, Listed, Idle, Reaping

(* The invariant is about the variables of the model.                      *)
LEMMA FreedInvStutters ==
  ASSUME FreedInv, UNCHANGED vars
  PROVE  FreedInv'
<1> USE DEF vars, listVars, lifeVars, ownVars, loopVars
<1>1. \A u : Over(u)' = Over(u) /\ Exists(u)' = Exists(u)
  BY DEF Over, Exists
<1>2. plan' = plan /\ (NothingEnds => NothingEnds')
  BY DEF NothingEnds
<1>3. FreeInv => FreeInv'
  BY <1>1 DEF FreeInv, ReclaimedIsGone, ExitedIsLast, ReapingIsGone,
     NewcomersLive, ReclaimedExist, ReapingTerminates, Listed
<1> QED BY <1>2, <1>3 DEF FreedInv

(* It holds along every behaviour.                                           *)
LEMMA FreedInvHolds ==
  ASSUME NoSelfResume, ResumesApart, FreesApart
  PROVE  Spec => []FreedInv
<1>1. Init => FreedInv
  BY FreedInvStarts
<1>2. /\ PlannedInv /\ PlannedInv' /\ KeptInv /\ EndInv /\ FreedInv /\ [Next]_vars
      => FreedInv'
  <2> SUFFICES ASSUME PlannedInv, PlannedInv', KeptInv, EndInv, FreedInv, [Next]_vars
               PROVE  FreedInv'
    OBVIOUS
  <2>1. plan \in Plans /\ IInv /\ IInv'
    BY DEF PlannedInv
  <2>2. CASE Next
    <3>1. plan' = plan
      BY <2>1, <2>2, PlanKept
    <3>2. CASE "resume" \in plan.calls
      BY <2>1, <2>2, <3>1, <3>2, NothingEndsKept DEF FreedInv
    <3>3. CASE "resume" \notin plan.calls
      BY <2>1, <2>2, <3>1, <3>3, FreeInvKept DEF FreedInv, EndInv
    <3> QED BY <3>2, <3>3
  <2> QED BY <2>2, FreedInvStutters
<1> QED BY <1>1, <1>2, EndInvHolds, PTL DEF Spec

(* A thread is freed only when no list has it and no dispatch thread owns  *)
(* it: by the dispatch thread it ended on, once that has left its stack,   *)
(* by the terminate of a thread that never ran, or by Shutdown.            *)
THEOREM FreedIsGone ==
  ASSUME NoSelfResume, ResumesApart, FreesApart
  PROVE  Spec => []ReclaimedIsGone
<1>1. FreedInv => ReclaimedIsGone
  BY DEF FreedInv, NothingEnds, FreeInv, ReclaimedIsGone
<1> QED BY <1>1, FreedInvHolds, PTL

=============================================================================
