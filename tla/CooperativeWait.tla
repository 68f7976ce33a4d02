-------------------------- MODULE CooperativeWait --------------------------
(***************************************************************************)
(* Waits of guest threads on one semaphore or event:                       *)
(* src/src/xenia/kernel/xobject.cc, xsemaphore.cc and xevent.cc.           *)
(*                                                                         *)
(* A guest thread never blocks in the host primitive.  It polls it, and    *)
(* between two polls it parks in the guest scheduler, which re-readies it  *)
(* when the object's signal epoch has moved since the thread sampled it    *)
(* (that none of these is missed is NoLostSignal of GuestScheduler), and   *)
(* now and then by a timer.  Threads are on different CPUs: every access   *)
(* to state they share is a step.                                          *)
(***************************************************************************)
EXTENDS Integers, Sequences, FiniteSets

CONSTANTS
  Kinds,      \* types the object may have: "semaphore", "autoEvent", "manualEvent"
  Limit,      \* maximum count of a semaphore
  Initial,    \* counts it may be created with
  Threads,    \* guest threads
  Multi,      \* those of them that may wait on it with WaitMultiple
  Impatient,  \* those whose waits a deadline or an APC may end
  Victims,    \* those that may be terminated
  Signalers,  \* threads that signal the object, write it or terminate a waiter
  Ops         \* what they do to the object

AllOps == {"release", "set", "reset", "pulse", "write"}

ASSUME WaitAssumption ==
  /\ Kinds \subseteq {"semaphore", "autoEvent", "manualEvent"}
  /\ Limit \in Nat \ {0}
  /\ Initial \subseteq 0 .. Limit
  /\ IsFiniteSet(Threads)
  /\ Multi \subseteq Threads /\ Impatient \subseteq Threads
  /\ Victims \subseteq Threads
  /\ Ops \subseteq AllOps

VARIABLES
  kind,        \* type of the object
  host,        \* count of the host semaphore, or 1 when the host event is set
  header,      \* header.signal_state of the guest object
  kept,        \* host_count_ of a semaphore, host_signaled_ of an event
  fifo,        \* waiters_
  multi,       \* threads whose wait is a WaitMultiple
  moved,       \* threads for which cooperative_signal_epoch_ has changed since
               \* they sampled it
  pulsed,      \* threads for which pulse_epoch_ has, since they entered
  pc,          \* where each thread is in its wait
  terminated,  \* threads a terminate has been asked for
  spc          \* where each signaler is in its call

counts == <<host, header, kept>>
vars   == <<kind, counts, fifo, multi, moved, pulsed, pc, terminated, spc>>

Pcs  == {"out", "joining", "top", "polling", "trying", "acquired", "missed",
         "parked", "leaving", "waking", "dying", "dead"}
SPcs == {"idle", "wake", "pulse", "pulseSet", "pulseReset"}

Most == IF kind = "semaphore" THEN Limit ELSE 1

Init ==
  /\ kind \in Kinds
  /\ host \in Initial \cap (0 .. Most)
  /\ header = host /\ kept = host
  /\ fifo = <<>> /\ multi = {}
  /\ moved = {} /\ pulsed = {} /\ terminated = {}
  /\ pc = [t \in Threads |-> "out"]
  /\ spc = [s \in Signalers |-> "idle"]

Goes(t, from, to)  == pc[t] = from /\ pc' = [pc EXCEPT ![t] = to]
Calls(s, from, to) == spc[s] = from /\ spc' = [spc EXCEPT ![s] = to]

-----------------------------------------------------------------------------
(* CooperativeWaiterFifo                                                   *)

Queued(t) == \E i \in DOMAIN fifo : fifo[i] = t

(* Remove.                                                                 *)
Without(t) ==
  IF Queued(t)
  THEN LET i == CHOOSE j \in DOMAIN fifo : fifo[j] = t
       IN  SubSeq(fifo, 1, i - 1) \o SubSeq(fifo, i + 1, Len(fifo))
  ELSE fifo

(* CooperativeMayAcquire.  Mutant: nobody waits for its turn.              *)
MayAlways(t)  == TRUE
MayAcquire(t) == kind = "manualEvent" \/ fifo = <<>> \/ fifo[1] = t

(* CooperativeWaitEnd of a semaphore wakes those still queued behind the   *)
(* one that leaves, which may be the front only now.  Mutant: as an event. *)
WakesNobody(rest)  == FALSE
WakesTheRest(rest) == kind = "semaphore" /\ rest # <<>>

(* WakeCooperativeWaiters: the epoch moves for whoever sampled it.         *)
MoveEpoch == moved' = Threads

-----------------------------------------------------------------------------
(* A wait: Wait, SignalAndWait once it has signaled, WaitMultiple          *)

(* The pulse epoch is sampled before the thread queues itself.             *)
Enter(t) ==
  /\ Goes(t, "out", "joining")
  /\ multi' \in {multi} \cup {multi \cup {u} : u \in Multi \cap {t}}
  /\ pulsed' = pulsed \ {t}
  /\ UNCHANGED <<kind, counts, fifo, moved, terminated, spc>>

(* EnterCooperativeWait; a thread in WaitMultiple queues nowhere.          *)
Join(t) ==
  /\ Goes(t, "joining", "top")
  /\ fifo' = IF t \in multi \/ Queued(t) THEN fifo ELSE Append(fifo, t)
  /\ UNCHANGED <<kind, counts, multi, moved, pulsed, terminated, spc>>

(* An APC ends the wait before it polls.                                   *)
Interrupted(t) ==
  /\ t \in Impatient /\ Goes(t, "top", "leaving")
  /\ UNCHANGED <<kind, counts, fifo, multi, moved, pulsed, terminated, spc>>

(* The loop of CooperativeWait samples the epoch before it polls.          *)
SampleEpoch(t) ==
  /\ Goes(t, "top", "polling")
  /\ moved' = moved \ {t}
  /\ UNCHANGED <<kind, counts, fifo, multi, pulsed, terminated, spc>>

(* A pulse since the wait began satisfies it, whatever the host says.      *)
PollPulsed(t) ==
  /\ t \in pulsed /\ Goes(t, "polling", "leaving")
  /\ UNCHANGED <<kind, counts, fifo, multi, moved, pulsed, terminated, spc>>

PollTurn(t) ==
  /\ t \notin multi \cup pulsed
  /\ Goes(t, "polling", IF MayAcquire(t) THEN "trying" ELSE "missed")
  /\ UNCHANGED <<kind, counts, fifo, multi, moved, pulsed, terminated, spc>>

(* The poll of WaitMultiple waits for no turn.                             *)
PollAny(t) ==
  /\ t \in multi \ pulsed
  /\ Goes(t, "polling", "trying")
  /\ UNCHANGED <<kind, counts, fifo, multi, moved, pulsed, terminated, spc>>

(* The zero-timeout wait on the host primitive.                            *)
HostAcquire(t) ==
  /\ host > 0 /\ Goes(t, "trying", "acquired")
  /\ host' = CASE kind = "semaphore"   -> host - 1
               [] kind = "autoEvent"   -> 0
               [] kind = "manualEvent" -> host
  /\ UNCHANGED <<kind, header, kept, fifo, multi, moved, pulsed, terminated, spc>>

HostTimeout(t) ==
  /\ host = 0 /\ Goes(t, "trying", "missed")
  /\ UNCHANGED <<kind, counts, fifo, multi, moved, pulsed, terminated, spc>>

(* WaitCallback: the guest's view follows, under the lock of the object.   *)
(* Mutant: forgets host_count_.                                            *)
HeaderOnly(n)    == kept
CountTaken(n)    == n

WaitCallback(t) ==
  /\ Goes(t, "acquired", "leaving")
  /\ LET n == CASE kind = "semaphore"   -> kept - 1
                [] kind = "autoEvent"   -> 0
                [] kind = "manualEvent" -> kept
     IN  /\ kept' = CountTaken(n)
         /\ header' = IF kind = "manualEvent" THEN header ELSE n
  /\ UNCHANGED <<kind, host, fifo, multi, moved, pulsed, terminated, spc>>

(* The deadline has passed, or a kernel APC ends the wait.                 *)
GiveUp(t) ==
  /\ t \in Impatient /\ Goes(t, "missed", "leaving")
  /\ UNCHANGED <<kind, counts, fifo, multi, moved, pulsed, terminated, spc>>

(* BlockCurrentThread.                                                     *)
Block(t) ==
  /\ Goes(t, "missed", "parked")
  /\ UNCHANGED <<kind, counts, fifo, multi, moved, pulsed, terminated, spc>>

(* ExitIfTerminated, before it parks or when TerminateThread has readied   *)
(* it: the thread abandons its wait, unless Terminate has done it already, *)
(* and never runs again.                                                   *)
Exits(t) ==
  /\ t \in terminated
  /\ LET end == IF Queued(t) /\ WakesTheRest(Without(t)) THEN "dying" ELSE "dead"
     IN  Goes(t, "missed", end) \/ Goes(t, "parked", end)
  /\ fifo' = Without(t)
  /\ UNCHANGED <<kind, counts, multi, moved, pulsed, terminated, spc>>

(* RereadyBlocked: the epoch has moved, or a timer has come.               *)
Repoll(t) ==
  /\ t \in moved
  /\ Goes(t, "parked", "top")
  /\ UNCHANGED <<kind, counts, fifo, multi, moved, pulsed, terminated, spc>>

TimedRepoll(t) ==
  /\ t \notin moved
  /\ Goes(t, "parked", "top")
  /\ UNCHANGED <<kind, counts, fifo, multi, moved, pulsed, terminated, spc>>

(* LeaveCooperativeWait.                                                   *)
Leave(t) ==
  /\ Goes(t, "leaving", IF t \notin multi /\ WakesTheRest(Without(t)) THEN "waking"
                                                                   ELSE "out")
  /\ fifo' = Without(t)
  /\ multi' = multi \ {t}
  /\ UNCHANGED <<kind, counts, moved, pulsed, terminated, spc>>

WakeRest(t) ==
  /\ Goes(t, "waking", "out") \/ Goes(t, "dying", "dead")
  /\ MoveEpoch
  /\ UNCHANGED <<kind, counts, fifo, multi, pulsed, terminated, spc>>

-----------------------------------------------------------------------------
(* Signals                                                                 *)

(* The last step of every call that made the object more signaled.         *)
WakeWaiters(s) ==
  /\ Calls(s, "wake", "idle")
  /\ MoveEpoch
  /\ UNCHANGED <<kind, counts, fifo, multi, pulsed, pc, terminated>>

(* XSemaphore::ReleaseSemaphore, of one: the host primitive has the limit. *)
ReleaseSemaphore(s) ==
  /\ "release" \in Ops /\ kind = "semaphore" /\ host < Limit
  /\ Calls(s, "idle", "wake")
  /\ host' = host + 1
  /\ kept' = kept + 1
  /\ header' = kept'
  /\ UNCHANGED <<kind, fifo, multi, moved, pulsed, pc, terminated>>

(* XEvent::Set, also as the form a pulse takes.                            *)
Set(s) ==
  /\ kind # "semaphore"
  /\ \/ "set" \in Ops /\ Calls(s, "idle", "wake")
     \/ Calls(s, "pulseSet", "wake")
  /\ host' = 1 /\ header' = 1 /\ kept' = 1
  /\ UNCHANGED <<kind, fifo, multi, moved, pulsed, pc, terminated>>

Reset(s) ==
  /\ "reset" \in Ops /\ kind # "semaphore" /\ spc[s] = "idle"
  /\ host' = 0 /\ header' = 0 /\ kept' = 0
  /\ UNCHANGED <<kind, fifo, multi, moved, pulsed, pc, terminated, spc>>

(* XEvent::Pulse: a set if it is an auto-reset event somebody waits on; a  *)
(* move of the pulse epoch if it is a manual-reset one; then the host      *)
(* pulse, which finds nobody blocked and leaves the event reset.           *)
PulseAuto(s) ==
  /\ "pulse" \in Ops /\ kind = "autoEvent"
  /\ Calls(s, "idle", IF fifo = <<>> THEN "pulseReset" ELSE "pulseSet")
  /\ UNCHANGED <<kind, counts, fifo, multi, moved, pulsed, pc, terminated>>

PulseManual(s) ==
  /\ "pulse" \in Ops /\ kind = "manualEvent"
  /\ Calls(s, "idle", "pulseReset")
  /\ pulsed' = Threads
  /\ UNCHANGED <<kind, counts, fifo, multi, moved, pc, terminated>>

(* Mutant: a pulse that does not wake.                                     *)
PulseEndSilent == "idle"
PulseEnd       == "wake"

PulseReset(s) ==
  /\ Calls(s, "pulseReset", PulseEnd)
  /\ host' = 0 /\ header' = 0 /\ kept' = 0
  /\ UNCHANGED <<kind, fifo, multi, moved, pulsed, pc, terminated>>

(* The guest re-initializes the object in place.                           *)
GuestWrite(n) ==
  /\ "write" \in Ops
  /\ header' = n
  /\ UNCHANGED <<kind, host, kept, fifo, multi, moved, pulsed, pc, terminated, spc>>

(* SyncFromGuest, in the lookup of every call that names the object.  A    *)
(* semaphore takes back only permits nobody has claimed.                   *)
AtMost(n, m) == IF n < m THEN n ELSE m
Drained      == AtMost(kept - header, host)

SyncFromGuest(s) ==
  /\ "write" \in Ops /\ header # kept
  /\ \/ /\ header > kept
        /\ kind = "semaphore" => host + header - kept <= Limit
        /\ host' = IF kind = "semaphore" THEN host + header - kept ELSE header
        /\ kept' = header /\ UNCHANGED header
        /\ Calls(s, "idle", "wake")
     \/ /\ header < kept
        /\ IF kind = "semaphore"
           THEN /\ host' = host - Drained
                /\ kept' = kept - Drained
                /\ header' = kept'
           ELSE host' = header /\ kept' = header /\ UNCHANGED header
        /\ spc[s] = "idle" /\ UNCHANGED spc
  /\ UNCHANGED <<kind, fifo, multi, moved, pulsed, pc, terminated>>

(* XThread::Terminate: AbandonCooperativeWait on behalf of the thread.     *)
Terminate(s, t) ==
  /\ t \in Victims \ terminated
  /\ terminated' = terminated \cup {t}
  /\ fifo' = Without(t)
  /\ Calls(s, "idle", IF Queued(t) /\ WakesTheRest(Without(t)) THEN "wake" ELSE "idle")
  /\ UNCHANGED <<kind, counts, multi, moved, pulsed, pc>>

-----------------------------------------------------------------------------
Waits(t) ==
  \/ Join(t) \/ SampleEpoch(t) \/ PollPulsed(t) \/ PollTurn(t) \/ PollAny(t)
  \/ HostAcquire(t) \/ HostTimeout(t) \/ WaitCallback(t)
  \/ Block(t) \/ Exits(t) \/ Repoll(t) \/ Leave(t) \/ WakeRest(t)

Signals(s) ==
  \/ ReleaseSemaphore(s) \/ Set(s) \/ Reset(s) \/ PulseAuto(s) \/ PulseManual(s)
  \/ SyncFromGuest(s) \/ \E t \in Threads : Terminate(s, t)

Next ==
  \/ \E t \in Threads : Enter(t) \/ Interrupted(t) \/ Waits(t) \/ GiveUp(t) \/ TimedRepoll(t)
  \/ \E s \in Signalers : Signals(s) \/ PulseReset(s) \/ WakeWaiters(s)
  \/ \E n \in 0 .. Most : GuestWrite(n)

Spec == Init /\ [][Next]_vars

(* Waiters and calls under way make progress (guest code is preemptible    *)
(* and dispatch threads are host threads); no timer comes to their help.   *)
FairSpec ==
  /\ Spec
  /\ \A t \in Threads : WF_vars(Waits(t))
  /\ \A s \in Signalers : WF_vars(Set(s) /\ spc[s] # "idle")
                          /\ WF_vars(PulseReset(s)) /\ WF_vars(WakeWaiters(s))

-----------------------------------------------------------------------------
(* Properties                                                              *)

Counts == 0 .. Limit + Cardinality(Threads)

(* Every variable keeps to its values; the guest's view of a semaphore may *)
(* pass its limit by the permits whose acquire is not over yet.            *)
TypeOK ==
  /\ kind \in Kinds /\ host \in 0 .. Most /\ header \in Counts /\ kept \in Counts
  /\ fifo \in Seq(Threads) /\ multi \subseteq Multi
  /\ moved \subseteq Threads /\ pulsed \subseteq Threads
  /\ pc \in [Threads -> Pcs]
  /\ terminated \subseteq Threads
  /\ spc \in [Signalers -> SPcs]

Claimed == {t \in Threads : pc[t] = "acquired"}

(* No permit is lost or made: the count the kernel keeps for the guest is  *)
(* what is left in the host semaphore and what waiters have claimed and    *)
(* not yet written back, whatever the guest stores in its header.          *)
Conserved == kind = "semaphore" => kept = host + Cardinality(Claimed)

(* A thread takes a permit or an auto-reset set only at the front of the   *)
(* queue, unless it waits for several objects or was terminated meanwhile. *)
NoStealing ==
  \A t \in Threads \ (multi \cup terminated) :
    kind # "manualEvent" /\ pc[t] \in {"trying", "acquired"} =>
      fifo # <<>> /\ fifo[1] = t

WakePending ==
  \/ \E s \in Signalers : spc[s] = "wake"
  \/ \E t \in Threads : pc[t] \in {"waking", "dying"}

(* A gated waiter is not left asleep on what it could take: if it is its   *)
(* turn and the object is signaled, its epoch has moved or is about to.    *)
(* (An auto-reset event does not keep this: the README says how.)          *)
NothingMissed ==
  kind # "autoEvent" =>
    \A t \in Threads \ terminated :
      pc[t] = "parked" /\ host > 0 /\ (t \in multi \/ MayAcquire(t)) =>
        t \in moved \/ WakePending

(* A pulse of a manual-reset event is not lost on a waiter it found parked *)
(* although the event is reset before that waiter polls again.             *)
NoPulseMissed ==
  \A t \in Threads \ terminated :
    pc[t] = "parked" /\ t \in pulsed =>
      t \in moved \/ \E s \in Signalers : spc[s] \in {"pulseReset", "wake"}

(* With no timer the front of the queue gets a permit that stays there.    *)
FrontIsServed ==
  \A t \in Threads :
    kind = "semaphore" /\ host > 0 /\ fifo # <<>> /\ fifo[1] = t
      ~> host = 0 \/ fifo = <<>> \/ fifo[1] # t

=============================================================================
