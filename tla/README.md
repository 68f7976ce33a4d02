# Formal models of the kernel and the network of xenia-edge

xenia-edge runs Xbox 360 programs: it translates their PowerPC code, and it
re-implements the console's kernel, GPU, audio and network around it.  This
directory holds TLA+ models of the parts of it where concurrency decides whether
a title runs at all: the cooperative scheduler that carries guest threads as
fibers on a handful of host threads, the objects those threads wait on, the
timers, the host threads that make blocking calls for them, and the protocols by
which two consoles find each other and talk.  The models are checked with TLC on
small instances; most of their safety invariants are proved with TLAPS for any
number of CPUs, threads, objects, files, timers and settings.

Paths below are relative to `src/src/xenia/`.

## 1. The system

### Guest scheduler: `kernel/guest_scheduler.{cc,h}`, `kernel/xthread.cc`

*State.*  Per guest CPU a dispatch host thread and, under one `lock_`: a ready
list per priority level with a summary word of the nonempty ones, a list of
blocked and one of suspended threads, the current, the yielding and the just
exited thread.  All lists are linked through the one field `ready_next` of
`SchedulerLinks`; flags in the same structure say which list a thread is in, or
that a dispatch thread owns its stack (`running`).  Outside the lock: `parked`,
`ready_event`, `repoll_now`, `has_blocked`, `max_blocked_prio`, a thread's
`suspend_count`, `thread_state`, `current_cpu` and `priority`.

*Operations.*  `MarkReady`, `ResumeThread`, `TerminateThread`,
`MigrateForAffinity`, `RequeueForPriority`, `WakeForSignal`, `WakeAll`,
`EnterBackgroundMode`, `Shutdown` are called by any thread; `YieldCurrentThread`,
`BlockCurrentThread`, `WaitOnFence`, `ExitIfTerminated`, `NotifyThreadExit` and
`ForgetThread` by a fiber about itself; `RunLoop`, `RereadyBlocked`,
`DequeueReady`, `ParkSuspended`, `SwitchTo`, `ReclaimExited` are the dispatch
thread's.

*Hard.*  A call is several lock sections with unlocked reads between them; a
running thread can only be flagged; a thread's context is saved after it has
been relinked; wake-ups are a flag, an event and a race with a thread about to
sleep; a terminate may find a thread anywhere.

*Correct* when a thread is in one list at most, its stack used by one host
thread at most, no wake-up is lost, nothing is starved, nothing falls out of the
lists, and a thread is freed exactly when nobody can reach it any more.

### Cooperative waits: `kernel/xobject.cc`, `xsemaphore.cc`, `xevent.cc`

*State.*  A host primitive, the guest's header, the copy the kernel keeps of it
(`host_count_`, `host_signaled_`), a queue of waiters, a signal epoch and a
pulse epoch.  *Operations.*  `Wait`, `SignalAndWait`, `WaitMultiple`, release,
set, reset, pulse, `SyncFromGuest` after the guest has rewritten the header, the
end of a wait by success, timeout, APC or terminate.  *Hard.*  Sample, poll and
park are three steps against a signal's two; three copies of one count; the turn
of the queue against the epoch.  *Correct* when no waiter sleeps through a
signal meant for it, permits are neither lost nor made, and turns are kept.

### Mutants: `kernel/xmutant.cc`

*State.*  A binary host semaphore as the token, owner, recursion count, guest
header, the owning thread's list and an abandoned flag, *none under a lock*
except during lookups.  *Operations.*  Acquire (recursive), release, lookup with
`SyncFromGuest`, `AbandonAllOwnedByThread` at the exit or terminate of a thread.
*Correct* when there is one token, whoever acquired the mutant owns it as deeply
as it thinks, an abandonment reaches the next holder and the token is never lost.

### Timers: `kernel/xtimer.cc`, `base/threading_timer_queue.cc`, `threading_posix.cc`

*State.*  A ring of published items, the wait queue of one host thread and the
state of each item; per timer a lock, a host signal, the guest's header
(`inserted`, `signal_state`) and an APC that may be queued.  *Operations.*
`NtSetTimerEx`, `NtCancelTimer`, `KeSetTimerEx`, `KeCancelTimer`, `QueueTimer`,
`Disarm`, the loop of the queue's thread and its callback.  *Hard.*  `Disarm`
from another thread, or from the callback itself, while the callback runs; a
KTIMER's header is read and written without the timer's lock.  *Correct* when no
expiry outlives the setting it is of and every armed timer that is due expires.

### I/O workers: `kernel/guest_scheduler.cc`, `kernel_state.cc`, `xfile.cc`

*State.*  A queue with one worker, a queue with a pool that grows, recycled
completion events, per file a queue of requests and whether a call runs them.
*Operations.*  `PostHostCall`, `RunBlockingIo`, `PostIo`, `RunPostedIo`,
`CancelPostedIo`, the loops of the workers, `Shutdown`.  *Hard.*  The call writes
into the stack of the fiber that waits for it; the event may be signaled after
its user has left; flags are set under one lock and read under another.
*Correct* when no call outlives the stack it writes to, no completion is missed,
requests of a file run one at a time, and shutdown joins everybody.

### Network: `net/xnet_association.cc`, `xnet_secure.cc`, `xnet_tcp.cc`, `system_link.cc`

*State.*  Per console and peer an association (`None`, `Pending`,
`Established`) with its SPI, challenge and keys, a replay window and a queue of
packets; on top of it small TCP connections (`Connection`) with send and receive
buffers, sequence numbers, timers; and the streams that route segments to them.
*Operations.*  `Connect`, `Send`, `Receive`, `Tick`, `Close` of associations; the
socket calls, `Tick` and `OnSegment` of a connection.  *Hard.*  Both consoles
connect at once; messages are lost, repeated and reordered; a console restarts;
sequence numbers wrap, on the wire to 16 bits; windows close.  *Correct* when a
packet arrives at most once, what was queued is sent or reported, keys never
change under an established association, and a stream delivers what was written.

### How they interact

A guest thread calls a kernel export; a wait registers with its objects, polls
them, and parks through `BlockCurrentThread`; a signal moves the epochs of the
object's watchers and calls `WakeForSignal`, whose CPUs walk their blocked
lists.  A blocking host call is posted to a worker and the fiber waits on an
event like any other.  A timer's callback sets an event of the same kind, from
the queue's thread.  Mutants are waits whose callback changes an owner.
Terminate marks the thread, takes it out of its waits, sweeps its mutants and
then calls `TerminateThread`.  Sockets call the System Link under its mutex.

### The rest of the repository

| Component | Why it is not here |
|---|---|
| Completion ports, notification listeners | planned, as clients of the waits |
| Object and handle tables | planned: handle counts against lookups |
| Kernel threading exports (APC, DPC, IRQL, spin locks) | planned |
| Critical sections (`xboxkrnl_rtl.cc`) | planned |
| Kernel state, other exports, XAM | decoding of arguments, files, dialogs |
| Sessions and sockets | wrap the network layer |
| Guest memory | sequential heaps; a candidate for a page-state model |
| Processor, entry table | planned: one compilation per function |
| MMIO handler, frontend, HIR, compiler, backends | translation of instructions, verified by the generated PPC tests |
| Command processor, shared memory, caches | planned: validity of pages |
| Pipeline creation queues (`gpu/pipeline_creation_queue.h`) | planned |
| Shader translation | pure translation, too large for a model checker |
| Audio | planned: client semaphores against the worker |
| Input, virtual file system, debugger stub, application, patches | drivers, parsers, settings, start-up |
| Host threading primitives (`base/threading*.cc`, `mutex.cc`) | taken as given: a lock excludes, an event or semaphore does what its header says |


## 2. The modules

| Module | What it is |
|---|---|
| `GuestSchedulerState` | the scheduler's variables, its lists and the operations on them (`EnqueueReady`, `RemoveFromReadyList`, the summary word, `WakeCpu`) |
| `GuestSchedulerCalls` | what other threads call: `MarkReady`, resume, suspend, terminate, moves, priorities, the two halves of a signal, background windows, `Shutdown` |
| `GuestSchedulerFibers` | what a fiber does about itself: yield, park, wait, delay, fence, exit, crash |
| `GuestScheduler` | the dispatch loop (`RunLoop`, `RereadyBlocked`, `DequeueReady`, `SwitchTo`, `ReclaimExited`, preemption), `Next`, the fairness |
| `GuestSchedulerProperties` | its properties |
| `GuestSchedulerProofs`, `GuestSchedulerLossProofs` | its proofs: lists, summary, types, owners, yielder, wake-ups; strandings, shutdown, frees |
| `CooperativeWait`, `CooperativeWaitProofs` | waits on one semaphore or event |
| `MutantOwnership`, `MutantOwnershipProofs` | one mutant |
| `Timers`, `TimersProofs` | timer objects, KTIMERs, recurring timers and the queue's thread |
| `IoWorkers`, `IoWorkersProofs` | blocking calls, files and the workers |
| `Associations`, `AssociationsProofs` | two consoles that find each other |
| `TcpConnection` | one end of a connection, as operators on a record |
| `TcpStreams`, `TcpStreamsProofs` | two ends, the streams above them and the network |
| `ReliableStream` | the abstract contract of a stream, which `TcpStreams` implements |
| `MC*` | the instances for TLC: plans and symmetry |

**State and actions.**  A section under a lock is one action; an unlocked read
or write that another thread can observe between is an action of its own.  Where
a call is several such steps its position is a program counter: `call[k].pc` for
a caller of the scheduler, `loop[c]` for a dispatch thread, `fiber[t]` for a
guest thread, `pc`, `spc`, `wpc`, `step` elsewhere.  A Boolean field of every
thread is the set of the threads that have it (`running`, `suspended`,
`terminatePending`), an intrusive list is a sequence, the summary word a set of
levels, a signal epoch the set of threads for which it has moved since they
sampled it.  `RereadyBlocked` walks a list under the lock: one step per waiter,
during which no other section of that lock starts (`LockFree`).

**Plans.**  What callers and guests may do is the variable `plan`, chosen in
`Init` from the constant `Plans` and never changed.  One run thus covers several
scenarios, each small; the proofs hold for any set of plans.

**Abstractions** that a reader should know of:

- There is no clock except in `Timers`, where it is bounded by `MaxClock`.  A
  timeout (`SleepTimeout`, `RepollDue`, `TimedRepoll`, `GiveUp`, a TCP timer) may
  occur at any time, and unless section 3 says so it need not.
- A priority may become any level at any time (`PublishPriority`).
- What `Exit` does before its last yield is one step.  `ExitIfTerminated` and
  the park that precedes it may be one step.
- In `CooperativeWait` a re-poll stands for the scheduler, whose own model shows
  that one comes (`NoLostSignal`); mutant waiters have no queue, as in the code.
- A host call does something finite and then ends.
- Cryptography is a generation number per key: a message opens with the key that
  sealed it and with no other.
- TCP has no estimate of the round trip and no PSH or MSS option; sequence
  numbers are counted modulo a small `Modulus`, and so is the wrap of the replay
  window (`LowModulus`).

## 3. The runs

| Run | Instance | Properties |
|---|---|---|
| `one_cpu` | 1 CPU, 2 threads, 2 callers, 2 levels; plans `Suspending`, `Signaling` | `SummaryExact`, `InOnePlace`, `NotStranded` (with `SuspendedHasCount`), `NoLostSignal`, `NoLostWork` |
| `two_cpus` | 2 CPUs, 2 threads, 1 caller; plans `Moving`, `Ending` | `OneOwner`, `YielderIsQueued`, `ReclaimedIsGone`, `NotStranded`, `ShutdownReclaims` |
| `wakes_and_ends` | 1 CPU, a spinner a level above a waiter | `SignaledIsReadied`, `TerminatedIsReclaimed`, `QueuedIsDispatched` (liveness) |
| `zombie_revived`, `self_resume` | 1 or 2 CPUs | violated: section 5 |
| `waits` | 2 waiters, 2 signalers, a limit of 1, all three kinds of object | `Conserved`, `NoStealing`, `NothingMissed`, `NoPulseMissed`, `FrontIsServed` (liveness) |
| `mutant` | 3 threads, depth 2; by pointer with a guest that initializes the header anew, or by handle with two that exit and one that is terminated | `OneToken`, `HoldersOwn`, `AbandonmentReported`, `NeverLost` |
| `io` | 2 threads, 1 file, 2 pool workers, 2 events | `OneRunnerPerFile`, `FrameOutlivesCall`, `NoCallHeldUp`, `CallsComplete`, `ShutdownEnds` (the last two liveness) |
| `timers` | 2 timers, 2 threads, 2 settings, a clock of 2, a ring of 1 | `ExpiryIsCurrent`, `TimersFire` (liveness) |
| `tcp_streams` | 3 bytes, modulus 16, buffers of 2, a network that loses, repeats and reorders | `OneWriter`, `ReleasedIsReceived`, `WindowKept`, `StreamKept` (refinement) |
| `tcp_ends` | a peer that stops reading or goes away | `SendSettles`, `CloseEnds` (liveness) |
| `associations` | 2 consoles, a retry, a restart | `AtMostOnce`, `OwedIsPending`, `OwnerKnows`, `NeverRekeyed`, `Meets` (liveness) |

Every property has a mutant of a definition of the model, a change a plausible
bug in that code would make, under which TLC finds the property violated.

**Deadlock** is not checked (`CHECK_DEADLOCK FALSE`): a guest whose threads all
sleep, and a test whose calls are all made, really stop.  That nothing stops
which has something to do is what `NoLostWork`, `NoLostSignal` and the liveness
properties say.

**Why the bounds are enough.**  The hazards of section 1 take two calls in
progress, or a call against a dispatch thread; two threads in a list make the
difference between its head, middle and end; the races of a mutant take a third
thread; a move takes two CPUs; a pick and a preemption take two levels.
`MaxSuspend` bounds the suspend count of the model (the byte of the code wraps
at 256 nested suspends, which is not reached).  The sequence space of
`tcp_streams` is small enough for a second connection to meet the segments of a
first one.  The theorems of section 4 drop these bounds where they exist.

**Fairness.**  A host thread that can take a step takes one, which is what the
host's scheduler gives: `WF` of a dispatch thread, of the code of a fiber between
two guest decisions, of `PreemptCurrentFiber` (a signal of a host timer), of the
shutdown's loops, of workers, of the timer queue's thread, of the tick of a
stream.  `SF` stands where a thread competes for a lock that others take again
and again: `CallContinues(k)` of the scheduler, `Halt` of a fiber that a
shutdown stops, and `Yield(c)` in `SpinnerSpec`, which describes a guest that
yields again and again.  `CooperativeWait` has `WF` of a waiter's steps and of
the second half of a signal; `Associations` of connects, arrivals, retries and
the owner's thread; `Timers` assumes that a callback is faster than its interval.
What a guest chooses to do, a timeout, a timed re-poll and an arrival from the
network of `TcpStreams` are never fair: `wakes_and_ends` shows that wake-ups do
not depend on the re-poll the code has as a backstop.

## 4. The proofs

Each theorem holds for every value of the constants: any number of CPUs,
threads, callers, levels, objects, files, workers, timers, settings and plans.

| Theorem | Property | Under |
|---|---|---|
| `TypeCorrect`, `LinkedOnce`, `SummaryCorrect`, `OneStack`, `YielderNotStale` | the type invariant, `InOnePlace`, `SummaryExact`, `OneOwner`, `YielderIsQueued` | `NoSelfResume` |
| `WorkIsSeen`, `SignalIsSeen`, `CountParks` | `NoLostWork`, `NoLostSignal`, `SuspendedHasCount` | `NoSelfResume` |
| `NoneStranded`, `ShutdownIsClean` | `NotStranded`, `ShutdownReclaims` | `NoSelfResume`, `ResumesApart` |
| `FreedIsGone` | `ReclaimedIsGone` | `NoSelfResume`, `ResumesApart`, `FreesApart` |
| `PermitsConserved`, `TurnsRespected`, `NobodyLeftAsleep`, `PulsesReachWaiters` | `Conserved`, `NoStealing`, `NothingMissed`, `NoPulseMissed` | |
| `TokenNeverLost`, `TokenIsOne`, `AcquiredIsOwned`, `AbandonmentIsReported`, `MutantTypeCorrect` | `NeverLost`, `OneToken`, `HoldersOwn`, `AbandonmentReported`, the type invariant | |
| `NoStaleExpiry`, `TimersTypeCorrect` | `ExpiryIsCurrent`, the type invariant | |
| `StackOutlivesCall`, `PoolKeepsUp`, `RunnerIsOne` | `FrameOutlivesCall`, `NoCallHeldUp`, `OneRunnerPerFile` | |
| `OwnerInformed`, `KeysStay` | `OwnerKnows`, `NeverRekeyed` (an action property) | |
| `DeliveredOnce` | `AtMostOnce` | |
| `QueuedUntilSent` | `OwedIsPending` | `RoomToAnswer` |
| `StreamIsKept` | `StreamKept` (`TcpStreams` implements `ReliableStream`) | `OpenOnce`, `EndsAssumption` |
| `ReleasedWasReceived`, `ReceivedFits`, `EndsKept` | `ReleasedIsReceived`, the half `ReceiveFits` of `WindowKept`, the invariant `Kept` | `OpenOnce`, `EndsAssumption` |

**Assumptions.**  Those on the constants are named in the modules that declare
them (`ConstantsAssumption`, `WaitAssumption`, ...) and TLC evaluates them in
every run.  The others are about the plans, the numbers and the room in a queue:

- `NoSelfResume`: no guest calls `Resume` on the thread it runs in.  Without it
  the code does not keep `OneOwner` (section 5, `self_resume`).
- `ResumesApart`: where there are resumes, nobody is terminated and nobody yields
  in its exit.  Without it `NotStranded` fails in the code in one of three ways.
  (1) `Resume` unlinks a thread, a terminate marks it, `MarkReady` returns
  because it is marked, and `TerminateThread` has found it nowhere.  (2) The
  second half of the creation of a thread queues one that was terminated and
  freed between.  (3) A suspend count taken during the yield of `Exit` parks the
  exiting thread; the resume unlinks it and `MarkReady` returns.
- `FreesApart`: where there are resumes nothing ends (no exit, no terminate, no
  shutdown), and where there are terminates there is one caller.  Without it
  `ReclaimedIsGone` fails in the code: a Resume that read `thread_state` before
  the exit queues the exited thread (section 5, `zombie_revived`), a Resume after
  the drain of `Shutdown` queues a drained one, and a terminate frees a thread
  that another caller is still creating (section 6, two frees).

- `OpenOnce`: each end opens one connection, which is what the properties of TCP
  are stated for.  (A second connection on the same ports meets the segments of
  the first, which the run `tcp_streams` has and `OneWriter` is about.)
- The bound of `EndsAssumption` on what a guest writes on a connection: less than
  half the sequence space, 2 GiB in the code.  The initial numbers are arbitrary,
  so the sequence numbers wrap; but the network of the model keeps a segment for
  as long as it likes, and one that is older than half the space is taken for a
  new one, in the code as in any TCP without time stamps.
- `RoomToAnswer`: the outbound queue is never full when a console is called.
  Without it `OwedIsPending` fails in the code: the side that yields in a
  simultaneous connect moves what it has queued to the association it answers
  with, and drops that one, with the queue and without a word to the owner, when
  the answer finds no room (`xnet_association.cc:485-495`; section 6).

The run `associations` keeps to `RoomToAnswer`, and `two_cpus` to the other three
with both of its plans.  In
`one_cpu` the plan `Signaling` does; `Suspending` has a guest that resumes
itself, harmless on one CPU, and is only model-checked.

**The arguments.**  A property of the runs is seldom inductive; this is what each
rests on.

*Scheduler lists and stacks* (`IInv`).  `ListInv` ties the sequences to the flags
and to the link of each thread: a thread is in the list its flags and
`linkCpu` name, once, and the summary has the nonempty levels.  `OwnInv` says
which thread a dispatch loop owns at each of its positions; `RefInv` what calls,
wake-ups and walks still refer to; `YieldInv` that the yielder is queued where
it yielded.  The heart is that a step which unlinks a thread finds it by its
flags, so `RemoveFromReadyList` removes what is there; the lemmas on that come
first in `GuestSchedulerProofs`.

*Wake-ups* (`WakeInv`).  `ParkedAsleep` relates `parked` to the position of the
loop; `WakesHeld` says that whoever makes work for a parked CPU holds a wake-up
for it until the event is set; `BlockedCovered` that `has_blocked` is true of
each CPU with blocked threads, so that a signaler's unlocked read of it cannot
pass one over.  A thread can only fall asleep by rechecking after it has
published `parked`, which is the Dekker-like exchange of the code.

*Threads that leave the lists* (`KeptInv`, `EndInv`).  Every thread that exists is
placed: listed, owned, dead, or in the hands of a call at a position from which
it will be listed or freed (`Placed`).  With resumes (`ResumeRegime`) nothing is
terminated and an exiting fiber is the one that runs; without them (`EndRegime`)
a thread that has run leaves the lists only to run or to end.  `EndsHeld` follows
a terminated thread until it is reclaimed, `OutInv` says that what is over is out
of the lists, and `StoppedEnds` is the state the drain of `Shutdown` leaves.

*Frees* (`FreedInv`).  With resumes the claim is that nothing ends at all
(`NothingEnds`), and the theorem is about the plans without: there
`ExitedIsLast` says that the thread a dispatch loop will reclaim is over and owned
by that loop at most, until it is back on its own stack; `ReapingIsGone` that a
terminate which goes on to reclaim has found its thread in no list and on no CPU;
`NewcomersLive` that what a creation is about to queue was not freed.  That an
ended thread is out of the lists (`OutInv`) is what makes the reclaim of an exit
safe, and that no dispatch loop owns one once all are gone the drain of
`Shutdown`.

*Waits.*  Beside the properties, the queue has each waiter once and those whose
position says so, and a waiter between its sample and its park has an epoch that
any signal since has moved (`NothingMissedYet`, `NoPulseMissedYet`: the
properties extended to the waiters that are not parked yet).

*Mutants.*  While nobody is terminated by another thread (`Quiet`; the token is
not exact afterwards, see section 6), one carrier has the token: it is free, or
owned, or with one thread between the host wait and its bookkeeping (`OneCarrier`,
`WhenFree`, `Owns`).  The hard part is the lookup, which compares the header with
a sample taken under a lock that releases do not take: `Samples` shows that a
thread which is past its lookup can give the mutant up only while another lookup
holds the lock, so that an owner that left and came back between sample and
compare (ABA) is still compared with what the sample means.

*Timers.*  The queue's thread is in one callback, of one item, at one position
(`InOneCallback`), items of a timer are in the order of its settings, and `Disarm`
returns only when the callback of what it disarmed is over, or is its own
(`PastDisarm`).  `Currents` then says that signal, header and APC are of the
latest setting, separately for `Nt` timers (a lock) and for KTIMERs (a header
without one: `KeExpiries`, `KeInsertions`, `KeCalls`).

*I/O workers.*  A call is in one place at most, in a queue or with an executor,
and that place is related to the position of the thread that posted it, or to
the flag of its file (`OnePlace`, `FramesHold`, `FilesHold`); `PoolHolds` counts
workers against the queue.

*Associations.*  The state of a console is sound and what its owner has been told,
with the events still to be taken, tells the status (`Knows`); every call maps a
sound console to a sound one without giving an established association other
keys (`Advances`).  For what `Send` took, every step of a call `Carries` it: what
was queued is still queued or is among the frames the call sends, unless the
call reports the association lost (`OwedInv`).

That nothing is delivered twice (`OnceInv`) needs both ends and the network.  A
packet of a guest is in one place: in the queue of its console or in one message
under way (`Single`, `OneEach`), however often that message is repeated.  A console
that takes the message notes its number in the window of the association, and from
then on the number is spent: the window never forgets it, or the association is
another one, whose keys the message does not fit (`Spent`, `Windowed`), so that it
does not decode again (`Refused`).  `Counted` joins the two: a call tells the owner
of a packet at most once, and of none the console has taken before.

*TCP.*  A sequence number is known by its offset in the stream of the end it belongs
to; where no stream is longer than half the space, the comparisons of the code
(the sign of a difference) are those of the offsets (`BeforeIs`), and the rest of
the proof is about natural numbers.  The invariant `Kept` says of each end
(`Sound`), against a context of what the two guests wrote and read and what the
peer sent and has: the send buffer is the end of what was written, `una`, `nxt`
and `max` are in order and `una` is no further than the peer has come; what waits
to be read continues what was read; every segment that waits for its turn, and
every segment under way, carries bytes as they were written and acknowledges no
more than was taken (`Genuine`, `Comes`).  The contract alone says nothing of
segments, and a segment that is lost, repeated or late is harmless only because of
what it carries, so the invariant has to be about all of them.  Each operation of
`Connection` is shown to keep its end sound in a fixed context (`Onward`, `Moves`),
from `Emit` up to `Input` and `Tick`; the calls of the guest change the context
(`Passes`); and what one end does is for the other a context that grows
(`GrowsPasses`), so that a step of one keeps both (`EndSteps`).  The refinement
follows step by step: a read returns the next bytes that were written, and the end
is told only when all were read.

**What TLC alone checks.**  Liveness under fairness, which is out of the prover's
reach.  `OneWriter` of TCP: what keeps two connections on the same ports apart is
that the numbers they draw are far from each other, which is a likelihood of the
code's random draw and a choice of the instance, not an assumption to prove from.
The other half of `WindowKept`, which holds while the other end sends nothing of
its own and needs an invariant of its own on the windows under way.  `TypeOK` of
`IoWorkers` as it stands (its invariant `Typed` is the part that was needed).

## 5. Findings

- `zombie_revived`: `MarkReady` reads `thread_state` without the lock.  A Resume
  that read it before the exit queues the exited thread; the comment says
  "Don't re-enqueue a terminated thread, or a stray Resume could revive a zombie."
  (`kernel/guest_scheduler.cc`).
- `self_resume`: `EnqueueReady` leaves a running thread alone only when another
  CPU asks for it.  A thread that was suspended and moved while it runs, and then
  resumes itself, is queued on the other CPU while it runs on this one; the
  header says "A thread already running, queued, blocked or suspended is left
  alone." (`kernel/guest_scheduler.h`).

## 6. Other disagreements met on the way

Behaviour of the code that is narrower than a reader may expect; the models
contain it, except where "reading" is said, and the properties are stated around
it.

*Scheduler.*  A thread that resumes itself; the three races of `ResumesApart`.
*Two frees*: a thread that one caller creates suspended and then makes ready while
another terminates it is queued after it was freed; so `ReclaimedIsGone` holds
with one caller and not with two.  A thread drained by `Shutdown` and resumed
afterwards is queued again.  A suspend of an exiting thread (`xthread.cc:576`).
A queued thread above the running one that is not flagged, because
`current_thread` is set in `SwitchTo` after the pick.  `max_blocked_prio` is not
raised with the priority of a blocked thread (`guest_scheduler.h:243`).  A thread
that parks as it is terminated stays parked until a re-poll, which is why
`TerminatedIsReclaimed` leaves it out.

*Waits.*  An auto-reset event may be taken out of turn, so `NothingMissed` is not
about it.  `WaitCallback` clears the header after the host event was consumed, and
a set between the two is invisible in the header (`xevent.cc:130`).  A pulse may be
seen as a set.

*Mutants.*  `AbandonAllOwnedByThread` exchanges `owning_thread_` blindly and may end
the ownership of the next holder; a terminated thread may acquire after its
sweep and keep the mutant.  Therefore three of the four properties stop where a
thread is terminated by another, and lookups by pointer are checked without ends.

*Timers.*  Two threads on one KTIMER: a cancel that read `inserted` before another
thread's set, and clears it after, leaves a timer armed that a later cancel does
not cancel (`xboxkrnl_threading.cc:2177-2213`); and an expiry between the first
`Cancel` of a set and its `SetTimer` overwrites the header, although the comment
says "Cancelled first, so an expiry of the previous setting can't overwrite the
new one".  One thread sets a KTIMER in the run.

*I/O.*  `Shutdown` drops posted requests and leaves `posted_running_` set, so
`OneRunnerPerFile` ends with it.

*Associations.*  A crossed connect whose `ExchangePacket` fails because `outbound_`
is full loses the queued packets (`net/xnet_association.cc:485-495`; TLC shows it
with `Rooms` containing 0), while `testing/xnet_association_test.cc:835` expects
them to be kept.

*TCP.*  A segment sent again carries its old sequence number with the newest
acknowledgement and window.  `Acknowledge` takes the acknowledgement and leaves the
window, which is for later sequence numbers only (`net/xnet_tcp.cc:409-415`), so
the edge of what may be sent moves past the one the peer announced.  The peer trims
what exceeds its buffer and the data is sent again; this half of `WindowKept` is
therefore stated for a peer that sends nothing.

*Reading, no model.*  The handle in a dispatch header is not updated when the first
handle of an object is closed and a duplicate lives (`xobject.cc:1107`);
`GetObjectByName` retains `handles_[0]` and not the handle the name has
(`util/object_table.cc:457`); `ObOpenObjectByName` races with `NtClose`.

## 7. Not modelled in the modelled components

Scheduler: statistics, the watchdog's clock, `spin_quanta`, priority arithmetic,
save and restore, threads without a fiber, TLS, APC lists.  Waits: `WaitAll`,
waits by host threads, creation.  Mutants: an initial owner.  I/O: what a request
does.  Timers: the shutdown of the queue, `CancelAll`, destruction, DPCs,
`HighResolutionTimer`, other hosts than POSIX.  Associations: broadcasts, limits
on peers and events, `Unregister`.  System link: the address map, datagrams, QoS,
loopback, backlogs, host sockets.

## 8. Plan

1. Proofs: the edge of the window of TCP (`WindowKept`), and `OneWriter` for initial
   numbers that are far enough apart.
2. An abstract scheduler (threads with a place, no lists), implemented by this one.
3. Components: object table, critical sections, completion ports, the pipeline
   creation queue, the entry table, audio, page validity; priority arithmetic as
   a pure function.
