----------------------- MODULE CooperativeWaitProofs -----------------------
(***************************************************************************)
(* What waits on one semaphore or event keep, for every number of threads  *)
(* and callers and every limit.                                            *)
(***************************************************************************)
EXTENDS CooperativeWait, SequenceTheorems, FiniteSetTheorems, TLAPS

-----------------------------------------------------------------------------
(* The inductive invariant                                                 *)

(* No thread is twice in the queue.                                        *)
NoDuplicates == \A i, j \in DOMAIN fifo : fifo[i] = fifo[j] => i = j

(* The places between EnterCooperativeWait and LeaveCooperativeWait.       *)
InLine == {"top", "polling", "trying", "acquired", "missed", "parked", "leaving"}

(* The queue holds the threads that wait for this object alone; only a     *)
(* terminate may have taken one of them out before its time.               *)
QueueKnows ==
  /\ \A t \in Threads : Queued(t) => t \notin multi /\ pc[t] \in InLine
  /\ \A t \in Threads \ (multi \cup terminated) : pc[t] \in InLine => Queued(t)

(* The guest's view of an event is 0 or 1, and only events are pulsed.     *)
EventIsBinary ==
  /\ kind # "semaphore" => header \in 0 .. 1 /\ kept \in 0 .. 1
  /\ \A s \in Signalers : spc[s] \in {"pulseSet", "pulseReset"} => kind # "semaphore"

(* NothingMissed, from the poll on.                                        *)
NothingMissedYet ==
  kind # "autoEvent" =>
    \A t \in Threads \ terminated :
      pc[t] \in {"missed", "parked"} /\ host > 0 /\ (t \in multi \/ MayAcquire(t)) =>
        t \in moved \/ WakePending

(* NoPulseMissed, from the poll on.                                        *)
NoPulseMissedYet ==
  \A t \in Threads \ terminated :
    pc[t] \in {"trying", "missed", "parked"} /\ t \in pulsed =>
      t \in moved \/ \E s \in Signalers : spc[s] \in {"pulseReset", "wake"}

IInv ==
  /\ TypeOK
  /\ NoDuplicates /\ QueueKnows
  /\ EventIsBinary /\ Conserved
  /\ NoStealing
  /\ NothingMissedYet
  /\ NoPulseMissedYet

-----------------------------------------------------------------------------
(* The queue                                                               *)

(* Remove takes the thread out and leaves the others in their order.       *)
LEMMA WithoutDrops ==
  ASSUME fifo \in Seq(Threads), NoDuplicates, NEW t \in Threads
  PROVE  /\ Without(t) \in Seq(Threads)
         /\ \A i, j \in DOMAIN Without(t) : Without(t)[i] = Without(t)[j] => i = j
         /\ \A u \in Threads :
              (\E i \in DOMAIN Without(t) : Without(t)[i] = u) <=> Queued(u) /\ u # t
         /\ fifo # <<>> /\ fifo[1] # t => Without(t) # <<>> /\ Without(t)[1] = fifo[1]
<1>1. CASE ~Queued(t)
  <2>1. Without(t) = fifo
    BY <1>1 DEF Without
  <2> QED
    BY <1>1, <2>1 DEF NoDuplicates, Queued
<1>2. CASE Queued(t)
  <2> DEFINE i == CHOOSE j \in DOMAIN fifo : fifo[j] = t
             l == SubSeq(fifo, 1, i - 1)
             r == SubSeq(fifo, i + 1, Len(fifo))
             u == l \o r
  <2>1. i \in 1 .. Len(fifo) /\ fifo[i] = t /\ Len(fifo) \in Nat
    BY <1>2 DEF Queued
  <2>2. Without(t) = u
    BY <1>2 DEF Without
  <2> HIDE DEF i
  <2>3. \A j \in 1 .. Len(fifo) : fifo[j] \in Threads
    OBVIOUS
  <2>4. l \in Seq(Threads) /\ Len(l) = i - 1 /\ \A j \in 1 .. i - 1 : l[j] = fifo[j]
    BY <2>1, <2>3, SubSeqProperties
  <2>5. /\ r \in Seq(Threads) /\ Len(r) = Len(fifo) - i
        /\ \A j \in 1 .. Len(fifo) - i : r[j] = fifo[j + i]
    BY <2>1, <2>3, SubSeqProperties
  <2> HIDE DEF l, r
  <2>6. /\ u \in Seq(Threads) /\ Len(u) = Len(l) + Len(r)
        /\ \A j \in 1 .. Len(l) + Len(r) : u[j] = IF j <= Len(l) THEN l[j] ELSE r[j - Len(l)]
    BY <2>4, <2>5, ConcatProperties
  <2> HIDE DEF u
  <2>7. /\ Len(u) = Len(fifo) - 1 /\ DOMAIN u = 1 .. Len(fifo) - 1
        /\ \A j \in 1 .. Len(fifo) - 1 : u[j] = IF j <= i - 1 THEN l[j] ELSE r[j - (i - 1)]
    <3>1. Len(l) + Len(r) = Len(fifo) - 1
      BY <2>1, <2>4, <2>5
    <3> QED
      BY <2>4, <2>6, <3>1
  <2>8. ASSUME NEW j \in 1 .. Len(fifo) - 1
        PROVE  u[j] = IF j < i THEN fifo[j] ELSE fifo[j + 1]
    <3>1. CASE j < i
      BY <2>1, <2>4, <2>7, <3>1
    <3>2. CASE ~(j < i)
      <4>1. j - (i - 1) \in 1 .. Len(fifo) - i /\ j - (i - 1) + i = j + 1
        BY <2>1, <3>2
      <4>2. u[j] = r[j - (i - 1)]
        BY <2>1, <2>7, <3>2
      <4>3. r[j - (i - 1)] = fifo[j - (i - 1) + i]
        BY <2>5, <4>1
      <4> QED
        BY <3>2, <4>1, <4>2, <4>3
    <3> QED
      BY <3>1, <3>2
  <2>9. ASSUME NEW j \in DOMAIN u, NEW k \in DOMAIN u, u[j] = u[k] PROVE j = k
    <3>1. \A m, n \in 1 .. Len(fifo) : fifo[m] = fifo[n] => m = n
      BY DEF NoDuplicates
    <3> QED
      BY <2>1, <2>7, <2>8, <2>9, <3>1
  <2>10. ASSUME NEW v \in Threads PROVE (\E j \in DOMAIN u : u[j] = v) <=> Queued(v) /\ v # t
    <3>1. ASSUME NEW j \in DOMAIN u, u[j] = v PROVE Queued(v) /\ v # t
      <4>1. PICK k \in 1 .. Len(fifo) : fifo[k] = v /\ k # i
        BY <2>1, <2>7, <2>8, <3>1
      <4>2. fifo[k] # fifo[i]
        BY <2>1, <4>1 DEF NoDuplicates
      <4> QED
        BY <2>1, <4>1, <4>2 DEF Queued
    <3>2. ASSUME NEW j \in 1 .. Len(fifo), fifo[j] = v, v # t
          PROVE  \E k \in DOMAIN u : u[k] = v
      <4>1. CASE j < i
        BY <2>1, <2>7, <2>8, <3>2, <4>1
      <4>2. CASE j > i
        <5>1. j - 1 \in DOMAIN u /\ u[j - 1] = v
          BY <2>1, <2>7, <2>8, <3>2, <4>2
        <5> QED
          BY <5>1
      <4> QED
        BY <2>1, <3>2, <4>1, <4>2
    <3> QED
      BY <3>1, <3>2 DEF Queued
  <2>11. ASSUME fifo # <<>>, fifo[1] # t PROVE u # <<>> /\ u[1] = fifo[1]
    BY <2>1, <2>6, <2>7, <2>8, <2>11
  <2> QED
    BY <2>2, <2>6, <2>9, <2>10, <2>11
<1> QED
  BY <1>1, <1>2

(* A step that removes a thread from the queue.                            *)
LEMMA QueueLoses ==
  ASSUME fifo \in Seq(Threads), NoDuplicates, NEW t \in Threads, fifo' = Without(t)
  PROVE  /\ fifo' \in Seq(Threads) /\ NoDuplicates'
         /\ \A u \in Threads : Queued(u)' <=> Queued(u) /\ u # t
         /\ fifo # <<>> /\ fifo[1] # t => fifo' # <<>> /\ fifo'[1] = fifo[1]
<1>1. /\ fifo' \in Seq(Threads)
      /\ \A i, j \in DOMAIN fifo' : fifo'[i] = fifo'[j] => i = j
      /\ \A u \in Threads : (\E i \in DOMAIN fifo' : fifo'[i] = u) <=> Queued(u) /\ u # t
      /\ fifo # <<>> /\ fifo[1] # t => fifo' # <<>> /\ fifo'[1] = fifo[1]
  <2> DEFINE w == Without(t)
  <2>1. /\ w \in Seq(Threads)
        /\ \A i, j \in DOMAIN w : w[i] = w[j] => i = j
        /\ \A u \in Threads : (\E i \in DOMAIN w : w[i] = u) <=> Queued(u) /\ u # t
        /\ fifo # <<>> /\ fifo[1] # t => w # <<>> /\ w[1] = fifo[1]
    BY WithoutDrops
  <2>2. fifo' = w
    OBVIOUS
  <2> HIDE DEF w
  <2> QED
    BY <2>1, <2>2
<1>2. NoDuplicates' <=> \A i, j \in DOMAIN fifo' : fifo'[i] = fifo'[j] => i = j
  BY DEF NoDuplicates
<1>3. \A u \in Threads : Queued(u)' <=> \E i \in DOMAIN fifo' : fifo'[i] = u
  BY DEF Queued
<1> HIDE DEF NoDuplicates, Queued
<1> QED
  BY <1>1, <1>2, <1>3

(* A step that queues a thread that is not in the queue.                   *)
LEMMA QueueGains ==
  ASSUME fifo \in Seq(Threads), NoDuplicates, NEW t \in Threads, ~Queued(t),
         fifo' = Append(fifo, t)
  PROVE  /\ fifo' \in Seq(Threads) /\ NoDuplicates'
         /\ \A u \in Threads : Queued(u)' <=> Queued(u) \/ u = t
         /\ fifo # <<>> => fifo' # <<>> /\ fifo'[1] = fifo[1]
<1>1. /\ fifo' \in Seq(Threads) /\ Len(fifo') = Len(fifo) + 1 /\ fifo'[Len(fifo) + 1] = t
      /\ \A i \in 1 .. Len(fifo) : fifo'[i] = fifo[i]
      /\ DOMAIN fifo = 1 .. Len(fifo) /\ DOMAIN fifo' = 1 .. Len(fifo) + 1 /\ Len(fifo) \in Nat
  OBVIOUS
<1>2. NoDuplicates'
  BY <1>1 DEF NoDuplicates, Queued
<1>3. ASSUME NEW u \in Threads PROVE Queued(u)' <=> Queued(u) \/ u = t
  <2>1. Queued(u)' => Queued(u) \/ u = t
    BY <1>1 DEF Queued
  <2>2. Queued(u) \/ u = t => Queued(u)'
    <3>1. Len(fifo) + 1 \in DOMAIN fifo' /\ \A i \in DOMAIN fifo : i \in DOMAIN fifo'
      BY <1>1
    <3> QED
      BY <1>1, <3>1 DEF Queued
  <2> QED
    BY <2>1, <2>2
<1>4. fifo # <<>> => fifo' # <<>> /\ fifo'[1] = fifo[1]
  BY <1>1
<1> QED
  BY <1>1, <1>2, <1>3, <1>4

(* A step that leaves the queue alone.                                     *)
LEMMA QueueStays ==
  ASSUME NoDuplicates, UNCHANGED fifo
  PROVE  NoDuplicates' /\ \A u \in Threads : Queued(u)' <=> Queued(u)
BY DEF NoDuplicates, Queued

-----------------------------------------------------------------------------
(* Steps                                                                   *)

(* The steps that neither queue a thread nor take one out.                 *)
Quiet ==
  \/ \E t \in Threads :
       \/ Enter(t) \/ Interrupted(t) \/ SampleEpoch(t) \/ PollPulsed(t) \/ PollTurn(t)
       \/ PollAny(t) \/ HostAcquire(t) \/ HostTimeout(t) \/ WaitCallback(t) \/ GiveUp(t)
       \/ Block(t) \/ Repoll(t) \/ TimedRepoll(t) \/ WakeRest(t)
  \/ \E s \in Signalers :
       \/ ReleaseSemaphore(s) \/ Set(s) \/ Reset(s) \/ PulseAuto(s) \/ PulseManual(s)
       \/ SyncFromGuest(s) \/ PulseReset(s) \/ WakeWaiters(s)
  \/ \E n \in 0 .. Most : GuestWrite(n)
  \/ UNCHANGED vars

LEMMA Steps ==
  ASSUME [Next]_vars
  PROVE  \/ Quiet
         \/ \E t \in Threads : Join(t) \/ Exits(t) \/ Leave(t)
         \/ \E s \in Signalers, t \in Threads : Terminate(s, t)
BY DEF Next, Waits, Signals, Quiet

LEMMA QuietKeepsQueue ==
  ASSUME Quiet
  PROVE  UNCHANGED fifo
BY DEF Quiet, Enter, Interrupted, SampleEpoch, PollPulsed, PollTurn, PollAny, HostAcquire,
   HostTimeout, WaitCallback, GiveUp, Block, Repoll, TimedRepoll, WakeRest, ReleaseSemaphore,
   Set, Reset, PulseAuto, PulseManual, SyncFromGuest, PulseReset, WakeWaiters, GuestWrite, vars

(* The queue knows who waits.                                              *)
QueueInv == TypeOK /\ NoDuplicates /\ QueueKnows

LEMMA QueueKept ==
  ASSUME QueueInv, [Next]_vars
  PROVE  fifo' \in Seq(Threads) /\ NoDuplicates' /\ QueueKnows'
<1> USE DEF QueueInv, InLine
<1>1. CASE Quiet
  <2>1. NoDuplicates' /\ fifo' \in Seq(Threads) /\ \A u \in Threads : Queued(u)' <=> Queued(u)
    BY <1>1, QuietKeepsQueue, QueueStays DEF TypeOK
  <2>2. \A u \in Threads :
          /\ pc'[u] \in InLine <=> pc[u] \in InLine
          /\ pc[u] \in InLine => (u \in multi' <=> u \in multi)
    BY <1>1 DEF TypeOK, Quiet, Enter, Interrupted, SampleEpoch, PollPulsed, PollTurn, PollAny,
       HostAcquire, HostTimeout, WaitCallback, GiveUp, Block, Repoll, TimedRepoll, WakeRest,
       ReleaseSemaphore, Set, Reset, PulseAuto, PulseManual, SyncFromGuest, PulseReset,
       WakeWaiters, GuestWrite, vars, Goes
  <2>3. UNCHANGED terminated
    BY <1>1 DEF Quiet, Enter, Interrupted, SampleEpoch, PollPulsed, PollTurn, PollAny,
       HostAcquire, HostTimeout, WaitCallback, GiveUp, Block, Repoll, TimedRepoll, WakeRest,
       ReleaseSemaphore, Set, Reset, PulseAuto, PulseManual, SyncFromGuest, PulseReset,
       WakeWaiters, GuestWrite, vars
  <2> HIDE DEF InLine
  <2> QED
    BY <2>1, <2>2, <2>3 DEF QueueKnows
<1>2. ASSUME NEW t \in Threads, Join(t) PROVE fifo' \in Seq(Threads) /\ NoDuplicates' /\ QueueKnows'
  <2>1. ~Queued(t)
    BY <1>2 DEF Join, Goes, QueueKnows
  <2>2. /\ fifo' \in Seq(Threads) /\ NoDuplicates'
        /\ \A u \in Threads : Queued(u)' <=> Queued(u) \/ (u = t /\ t \notin multi)
    <3>1. CASE t \in multi
      BY <1>2, <3>1, QueueStays DEF Join, TypeOK
    <3>2. CASE t \notin multi
      BY <1>2, <2>1, <3>2, QueueGains DEF Join, TypeOK
    <3> QED
      BY <3>1, <3>2
  <2>3. pc'[t] = "top" /\ \A u \in Threads \ {t} : pc'[u] = pc[u]
    BY <1>2 DEF Join, Goes, TypeOK
  <2>4. UNCHANGED <<multi, terminated>>
    BY <1>2 DEF Join
  <2> QED
    BY <2>2, <2>3, <2>4 DEF QueueKnows
<1>3. ASSUME NEW t \in Threads, Exits(t) \/ Leave(t)
      PROVE  fifo' \in Seq(Threads) /\ NoDuplicates' /\ QueueKnows'
  <2>1. /\ fifo' \in Seq(Threads) /\ NoDuplicates'
        /\ \A u \in Threads : Queued(u)' <=> Queued(u) /\ u # t
    BY <1>3, QueueLoses DEF Exits, Leave, TypeOK
  <2>2. pc'[t] \notin InLine /\ \A u \in Threads \ {t} : pc'[u] = pc[u]
    BY <1>3 DEF Exits, Leave, Goes, TypeOK
  <2>3. UNCHANGED terminated /\ \A u \in Threads \ {t} : u \in multi' <=> u \in multi
    BY <1>3 DEF Exits, Leave
  <2> QED
    BY <2>1, <2>2, <2>3 DEF QueueKnows
<1>4. ASSUME NEW s \in Signalers, NEW t \in Threads, Terminate(s, t)
      PROVE  fifo' \in Seq(Threads) /\ NoDuplicates' /\ QueueKnows'
  <2>1. /\ fifo' \in Seq(Threads) /\ NoDuplicates'
        /\ \A u \in Threads : Queued(u)' <=> Queued(u) /\ u # t
    BY <1>4, QueueLoses DEF Terminate, TypeOK
  <2>2. UNCHANGED <<pc, multi>> /\ terminated' = terminated \cup {t}
    BY <1>4 DEF Terminate
  <2> QED
    BY <2>1, <2>2 DEF QueueKnows
<1> QED
  BY <1>1, <1>2, <1>3, <1>4, Steps

-----------------------------------------------------------------------------
(* Permits                                                                 *)

LEMMA ClaimedIsFinite ==
  ASSUME WaitAssumption
  PROVE  /\ IsFiniteSet(Claimed) /\ Cardinality(Claimed) \in Nat
         /\ Cardinality(Claimed) <= Cardinality(Threads) /\ Cardinality(Threads) \in Nat
BY FS_Subset, FS_CardinalityType DEF Claimed, WaitAssumption

(* The counts of the object.                                               *)
EventCounts == kind # "semaphore" => header \in 0 .. 1 /\ kept \in 0 .. 1

CountsInv ==
  /\ host \in 0 .. Most /\ kept \in Counts /\ header \in Counts
  /\ EventCounts /\ Conserved

(* The steps that change neither a count nor who claims a permit.          *)
LEMMA CountsStay ==
  ASSUME CountsInv, UNCHANGED <<kind, counts>>, Claimed' = Claimed
  PROVE  CountsInv'
<1>1. Most' = Most /\ Counts' = Counts
  BY DEF Most, Counts
<1> QED
  BY <1>1 DEF CountsInv, EventCounts, Conserved, counts

LEMMA CountsKept ==
  ASSUME WaitAssumption, TypeOK, EventIsBinary, CountsInv, [Next]_vars
  PROVE  CountsInv'
<1> USE DEF TypeOK
<1>1. /\ Limit \in Nat /\ Limit > 0 /\ kind \in {"semaphore", "autoEvent", "manualEvent"}
      /\ Cardinality(Claimed) \in Nat /\ Cardinality(Threads) \in Nat
      /\ Cardinality(Claimed) <= Cardinality(Threads) /\ IsFiniteSet(Claimed)
  BY ClaimedIsFinite DEF WaitAssumption
<1>2. /\ kind = "semaphore" => Most = Limit
      /\ kind # "semaphore" => Most = 1
      /\ Counts = 0 .. Limit + Cardinality(Threads)
      /\ kind' = kind => Most' = Most /\ Counts' = Counts
  BY DEF Most, Counts
<1>3. ASSUME NEW t \in Threads, HostAcquire(t) PROVE CountsInv'
  <2>1. /\ Claimed' = Claimed \cup {t} /\ t \notin Claimed
        /\ UNCHANGED <<kind, header, kept>>
    BY <1>3 DEF HostAcquire, Goes, Claimed
  <2>2. Cardinality(Claimed') = Cardinality(Claimed) + 1
    BY <1>1, <2>1, FS_AddElement
  <2>3. /\ kind = "semaphore" => host' = host - 1
        /\ kind # "semaphore" => host' \in {0, host}
        /\ host > 0
    BY <1>1, <1>3 DEF HostAcquire
  <2>4. Conserved'
    BY <1>1, <1>2, <2>1, <2>2, <2>3 DEF CountsInv, Conserved
  <2> QED
    BY <1>1, <1>2, <2>1, <2>3, <2>4 DEF CountsInv, EventCounts
<1>4. ASSUME NEW t \in Threads, WaitCallback(t) PROVE CountsInv'
  <2>1. Claimed' = Claimed \ {t} /\ t \in Claimed /\ UNCHANGED <<kind, host>>
    BY <1>4 DEF WaitCallback, Goes, Claimed
  <2>2. Cardinality(Claimed') = Cardinality(Claimed) - 1
    BY <1>1, <2>1, FS_RemoveElement
  <2>3. Cardinality(Claimed') \in Nat
    <3>1. IsFiniteSet(Claimed')
      BY <1>1, <2>1, FS_RemoveElement
    <3> QED
      BY <3>1, FS_CardinalityType
  <2>4. /\ kind = "semaphore" => kept' = kept - 1 /\ header' = kept - 1
        /\ kind = "autoEvent" => kept' = 0 /\ header' = 0
        /\ kind = "manualEvent" => kept' = kept /\ header' = header
    BY <1>1, <1>4 DEF WaitCallback, CountTaken
  <2>5. Conserved'
    BY <1>1, <1>2, <2>1, <2>2, <2>4 DEF CountsInv, Conserved
  <2>6. kept' \in Counts /\ header' \in Counts
    BY <1>1, <1>2, <2>2, <2>3, <2>4 DEF CountsInv, Conserved
  <2> QED
    BY <1>1, <1>2, <2>1, <2>4, <2>5, <2>6 DEF CountsInv, EventCounts
<1>5. ASSUME NEW s \in Signalers,
             \/ ReleaseSemaphore(s) \/ Set(s) \/ Reset(s) \/ PulseReset(s)
             \/ SyncFromGuest(s)
      PROVE  CountsInv'
  <2>1. UNCHANGED kind /\ Claimed' = Claimed
    BY <1>5 DEF ReleaseSemaphore, Set, Reset, PulseReset, SyncFromGuest, Claimed
  <2>2. CASE ReleaseSemaphore(s)
    BY <1>1, <1>2, <2>1, <2>2 DEF ReleaseSemaphore, CountsInv, EventCounts, Conserved
  <2>3. CASE Set(s) \/ Reset(s) \/ PulseReset(s)
    <3>1. /\ host' \in 0 .. 1 /\ kept' = host' /\ header' = host'
          /\ kind # "semaphore"
      BY <2>3 DEF Set, Reset, PulseReset, Calls, EventIsBinary
    <3> QED
      BY <1>1, <1>2, <2>1, <2>3, <3>1
      DEF CountsInv, EventCounts, Conserved
  <2>4. CASE SyncFromGuest(s)
    <3>1. CASE header > kept
      BY <1>1, <1>2, <2>1, <2>4, <3>1
      DEF SyncFromGuest, CountsInv, EventCounts, Conserved
    <3>2. CASE header < kept
      <4>1. kept - header \in Nat /\ host \in Nat /\ header \in Nat
        BY <1>1, <1>2, <3>2 DEF CountsInv
      <4>2. Drained \in Nat /\ Drained <= kept - header /\ Drained <= host
        BY <4>1 DEF Drained, AtMost
      <4> HIDE DEF Drained
      <4> QED
        BY <1>1, <1>2, <2>1, <2>4, <3>2, <4>1, <4>2
        DEF SyncFromGuest, CountsInv, EventCounts, Conserved
    <3> QED
      BY <1>1, <1>2, <2>4, <3>1, <3>2 DEF SyncFromGuest, CountsInv
  <2> QED
    BY <1>5, <2>2, <2>3, <2>4
<1>6. ASSUME NEW n \in 0 .. Most, GuestWrite(n) PROVE CountsInv'
  <2>1. Claimed' = Claimed
    BY <1>6 DEF GuestWrite, Claimed
  <2> QED
    BY <1>1, <1>2, <1>6, <2>1 DEF GuestWrite, CountsInv, EventCounts, Conserved
<1>7. ASSUME NEW t \in Threads,
             \/ Enter(t) \/ Interrupted(t) \/ Join(t) \/ SampleEpoch(t) \/ PollPulsed(t)
             \/ PollTurn(t) \/ PollAny(t) \/ HostTimeout(t) \/ Block(t) \/ GiveUp(t)
             \/ Exits(t) \/ Repoll(t) \/ TimedRepoll(t) \/ Leave(t) \/ WakeRest(t)
      PROVE  CountsInv'
  <2>1. Claimed' = Claimed
    BY <1>7 DEF Enter, Interrupted, Join, SampleEpoch, PollPulsed, PollTurn, PollAny,
       HostTimeout, Block, GiveUp, Exits, Repoll, TimedRepoll, Leave, WakeRest, Goes, Claimed
  <2>2. UNCHANGED <<kind, counts>>
    BY <1>7 DEF Enter, Interrupted, Join, SampleEpoch, PollPulsed, PollTurn, PollAny,
       HostTimeout, Block, GiveUp, Exits, Repoll, TimedRepoll, Leave, WakeRest
  <2> QED
    BY <2>1, <2>2, CountsStay
<1>8. ASSUME NEW s \in Signalers,
             \/ WakeWaiters(s) \/ PulseAuto(s) \/ PulseManual(s)
             \/ \E t \in Threads : Terminate(s, t)
      PROVE  CountsInv'
  <2>1. UNCHANGED <<kind, counts>> /\ Claimed' = Claimed
    BY <1>8 DEF WakeWaiters, PulseAuto, PulseManual, Terminate, Claimed
  <2> QED
    BY <2>1, CountsStay
<1>9. CASE UNCHANGED vars
  <2>1. UNCHANGED <<kind, counts>> /\ Claimed' = Claimed
    BY <1>9 DEF vars, Claimed
  <2> QED
    BY <2>1, CountsStay
<1> QED
  BY <1>3, <1>4, <1>5, <1>6, <1>7, <1>8, <1>9 DEF Next, Waits, Signals

(* Only events are pulsed.                                                 *)
LEMMA PulsesAreOfEvents ==
  ASSUME TypeOK, EventIsBinary, [Next]_vars
  PROVE  /\ kind' = kind
         /\ \A s \in Signalers : spc'[s] \in {"pulseSet", "pulseReset"} => kind # "semaphore"
<1>1. kind' = kind
  BY DEF Next, Waits, Signals, Enter, Interrupted, Join, SampleEpoch, PollPulsed, PollTurn,
     PollAny, HostAcquire, HostTimeout, WaitCallback, Block, GiveUp, Exits, Repoll,
     TimedRepoll, Leave, WakeRest, ReleaseSemaphore, Set, Reset, PulseAuto, PulseManual,
     SyncFromGuest, Terminate, PulseReset, WakeWaiters, GuestWrite, vars
<1>2. UNCHANGED spc \/ \E s \in Signalers : Signals(s) \/ PulseReset(s) \/ WakeWaiters(s)
  BY DEF Next, Waits, Enter, Interrupted, Join, SampleEpoch, PollPulsed, PollTurn,
     PollAny, HostAcquire, HostTimeout, WaitCallback, Block, GiveUp, Exits, Repoll,
     TimedRepoll, Leave, WakeRest, GuestWrite, vars
<1>3. ASSUME NEW s \in Signalers, Signals(s) \/ PulseReset(s) \/ WakeWaiters(s),
             NEW u \in Signalers, spc'[u] \in {"pulseSet", "pulseReset"}
      PROVE  kind # "semaphore"
  <2>1. CASE spc'[u] = spc[u]
    BY <1>3, <2>1 DEF EventIsBinary
  <2>2. CASE spc'[u] # spc[u]
    BY <1>3, <2>2 DEF TypeOK, Signals, ReleaseSemaphore, Set, Reset, PulseAuto, PulseManual,
       SyncFromGuest, Terminate, PulseReset, PulseEnd, WakeWaiters, Calls
  <2> QED
    BY <2>1, <2>2
<1> QED
  BY <1>1, <1>2, <1>3 DEF EventIsBinary

-----------------------------------------------------------------------------
(* Types                                                                   *)

LEMMA TypesKept ==
  ASSUME WaitAssumption, TypeOK, [Next]_vars,
         fifo' \in Seq(Threads), host' \in 0 .. Most', kept' \in Counts', header' \in Counts'
  PROVE  TypeOK'
<1> SUFFICES /\ kind' \in Kinds /\ multi' \subseteq Multi
             /\ moved' \subseteq Threads /\ pulsed' \subseteq Threads
             /\ pc' \in [Threads -> Pcs] /\ terminated' \subseteq Threads
             /\ spc' \in [Signalers -> SPcs]
  BY DEF TypeOK
<1> USE DEF TypeOK
<1>1. ASSUME NEW t \in Threads,
             \/ Enter(t) \/ Interrupted(t) \/ Join(t) \/ SampleEpoch(t) \/ PollPulsed(t)
             \/ PollTurn(t) \/ PollAny(t) \/ HostAcquire(t) \/ HostTimeout(t)
             \/ WaitCallback(t) \/ Block(t) \/ GiveUp(t) \/ Exits(t) \/ Repoll(t)
             \/ TimedRepoll(t) \/ Leave(t) \/ WakeRest(t)
      PROVE  /\ kind' \in Kinds /\ multi' \subseteq Multi
             /\ moved' \subseteq Threads /\ pulsed' \subseteq Threads
             /\ pc' \in [Threads -> Pcs] /\ UNCHANGED <<terminated, spc>>
  BY <1>1 DEF Enter, Interrupted, Join, SampleEpoch, PollPulsed, PollTurn, PollAny,
     HostAcquire, HostTimeout, WaitCallback, Block, GiveUp, Exits, Repoll, TimedRepoll,
     Leave, WakeRest, Goes, MoveEpoch, Pcs
<1>2. ASSUME NEW s \in Signalers, Signals(s) \/ PulseReset(s) \/ WakeWaiters(s)
      PROVE  /\ UNCHANGED <<kind, multi, pc>>
             /\ moved' \subseteq Threads /\ pulsed' \subseteq Threads
             /\ terminated' \subseteq Threads /\ spc' \in [Signalers -> SPcs]
  BY <1>2 DEF Signals, ReleaseSemaphore, Set, Reset, PulseAuto, PulseManual, SyncFromGuest,
     Terminate, PulseReset, PulseEnd, WakeWaiters, Calls, MoveEpoch, SPcs
<1>3. ASSUME NEW n \in 0 .. Most, GuestWrite(n)
      PROVE  UNCHANGED <<kind, multi, moved, pulsed, pc, terminated, spc>>
  BY <1>3 DEF GuestWrite
<1>4. CASE UNCHANGED vars
  BY <1>4 DEF vars
<1> QED
  BY <1>1, <1>2, <1>3, <1>4 DEF Next, Waits

-----------------------------------------------------------------------------
(* Turns                                                                   *)

AtFront(t) == fifo # <<>> /\ fifo[1] = t

(* A waiter at the front stays there until it leaves or is terminated.     *)
LEMMA FrontKept ==
  ASSUME QueueInv, [Next]_vars,
         NEW t \in Threads \ terminated', pc[t] \in InLine, pc'[t] \in InLine, AtFront(t)
  PROVE  AtFront(t)'
<1> USE DEF QueueInv, TypeOK, AtFront
<1>1. CASE Quiet
  BY <1>1, QuietKeepsQueue
<1>2. ASSUME NEW u \in Threads, Join(u) PROVE AtFront(t)'
  <2>1. ~Queued(u)
    BY <1>2 DEF Join, Goes, QueueKnows, InLine
  <2> QED
    BY <1>2, <2>1, QueueGains DEF Join
<1>3. ASSUME NEW u \in Threads, Exits(u) \/ Leave(u) PROVE AtFront(t)'
  <2>1. u # t
    BY <1>3 DEF Exits, Leave, Goes, InLine
  <2> QED
    BY <1>3, <2>1, QueueLoses DEF Exits, Leave
<1>4. ASSUME NEW s \in Signalers, NEW u \in Threads, Terminate(s, u) PROVE AtFront(t)'
  <2>1. u # t
    BY <1>4 DEF Terminate
  <2> QED
    BY <1>4, <2>1, QueueLoses DEF Terminate
<1> QED
  BY <1>1, <1>2, <1>3, <1>4, Steps

(* How a thread comes to try the host primitive, and stays there.          *)
LEMMA TryingFrom ==
  ASSUME TypeOK, [Next]_vars, NEW t \in Threads, pc'[t] \in {"trying", "acquired"}
  PROVE  /\ UNCHANGED kind /\ terminated \subseteq terminated'
         /\ pc[t] \in InLine /\ (t \in multi <=> t \in multi')
         /\ \/ pc[t] \in {"trying", "acquired"}
            \/ t \in multi
            \/ pc[t] = "polling" /\ MayAcquire(t)
<1> USE DEF TypeOK, InLine
<1>1. ASSUME NEW u \in Threads,
             \/ Enter(u) \/ Interrupted(u) \/ Join(u) \/ SampleEpoch(u) \/ PollPulsed(u)
             \/ PollTurn(u) \/ PollAny(u) \/ HostAcquire(u) \/ HostTimeout(u)
             \/ WaitCallback(u) \/ Block(u) \/ GiveUp(u) \/ Exits(u) \/ Repoll(u)
             \/ TimedRepoll(u) \/ Leave(u) \/ WakeRest(u)
      PROVE  /\ UNCHANGED <<kind, terminated>>
             /\ pc[t] \in InLine /\ (t \in multi <=> t \in multi')
             /\ \/ pc[t] \in {"trying", "acquired"}
                \/ t \in multi
                \/ pc[t] = "polling" /\ MayAcquire(t)
  BY <1>1 DEF Enter, Interrupted, Join, SampleEpoch, PollPulsed, PollTurn, PollAny,
     HostAcquire, HostTimeout, WaitCallback, Block, GiveUp, Exits, Repoll, TimedRepoll,
     Leave, WakeRest, Goes
<1>2. ASSUME NEW s \in Signalers, Signals(s) \/ PulseReset(s) \/ WakeWaiters(s)
      PROVE  UNCHANGED <<kind, multi, pc>> /\ terminated \subseteq terminated'
  BY <1>2 DEF Signals, ReleaseSemaphore, Set, Reset, PulseAuto, PulseManual, SyncFromGuest,
     Terminate, PulseReset, WakeWaiters
<1>3. ASSUME NEW n \in 0 .. Most, GuestWrite(n)
      PROVE  UNCHANGED <<kind, multi, pc, terminated>>
  BY <1>3 DEF GuestWrite
<1>4. CASE UNCHANGED vars
  BY <1>4 DEF vars
<1> QED
  BY <1>1, <1>2, <1>3, <1>4 DEF Next, Waits

LEMMA TurnsKept ==
  ASSUME QueueInv, NoStealing, [Next]_vars
  PROVE  NoStealing'
<1> SUFFICES ASSUME NEW t \in Threads \ (multi' \cup terminated'), kind' # "manualEvent",
                    pc'[t] \in {"trying", "acquired"}
             PROVE  AtFront(t)'
  BY DEF NoStealing, AtFront
<1>1. /\ UNCHANGED kind /\ t \notin terminated /\ t \notin multi /\ pc[t] \in InLine
      /\ \/ pc[t] \in {"trying", "acquired"}
         \/ pc[t] = "polling" /\ MayAcquire(t)
  BY TryingFrom DEF QueueInv
<1>2. AtFront(t)
  <2>1. CASE pc[t] \in {"trying", "acquired"}
    BY <1>1, <2>1 DEF NoStealing, AtFront
  <2>2. CASE pc[t] = "polling" /\ MayAcquire(t)
    <3>1. Queued(t)
      BY <1>1 DEF QueueInv, QueueKnows
    <3>2. fifo # <<>>
      BY <3>1 DEF Queued
    <3> QED
      BY <1>1, <2>2, <3>2 DEF MayAcquire, AtFront
  <2> QED
    BY <1>1, <2>1, <2>2
<1>3. pc'[t] \in InLine
  BY DEF InLine
<1> QED
  BY <1>1, <1>2, <1>3, FrontKept

-----------------------------------------------------------------------------
(* Wakes                                                                   *)

MissedInv == QueueInv /\ EventIsBinary /\ NothingMissedYet

(* A wake that is due comes, and only then is it over.                     *)
LEMMA WakeIsDelivered ==
  ASSUME TypeOK, [Next]_vars
  PROVE  moved' = Threads \/ (WakePending => WakePending')
<1> USE DEF TypeOK, WakePending
<1>1. ASSUME NEW u \in Threads, WakeRest(u) PROVE moved' = Threads
  BY <1>1 DEF WakeRest, MoveEpoch
<1>2. ASSUME NEW s \in Signalers, WakeWaiters(s) PROVE moved' = Threads
  BY <1>2 DEF WakeWaiters, MoveEpoch
<1>3. ASSUME NEW u \in Threads,
             \/ Enter(u) \/ Interrupted(u) \/ Join(u) \/ SampleEpoch(u) \/ PollPulsed(u)
             \/ PollTurn(u) \/ PollAny(u) \/ HostAcquire(u) \/ HostTimeout(u)
             \/ WaitCallback(u) \/ Block(u) \/ GiveUp(u) \/ Exits(u) \/ Repoll(u)
             \/ TimedRepoll(u) \/ Leave(u)
      PROVE  WakePending => WakePending'
  <2>1. /\ UNCHANGED spc /\ pc[u] \notin {"waking", "dying"}
        /\ \A t \in Threads \ {u} : pc'[t] = pc[t]
    BY <1>3 DEF Enter, Interrupted, Join, SampleEpoch, PollPulsed, PollTurn, PollAny,
       HostAcquire, HostTimeout, WaitCallback, Block, GiveUp, Exits, Repoll, TimedRepoll,
       Leave, Goes
  <2> QED
    BY <2>1
<1>4. ASSUME NEW s \in Signalers, Signals(s) \/ PulseReset(s) PROVE WakePending => WakePending'
  <2>1. /\ UNCHANGED pc /\ spc[s] # "wake"
        /\ \A v \in Signalers \ {s} : spc'[v] = spc[v]
    BY <1>4 DEF Signals, ReleaseSemaphore, Set, Reset, PulseAuto, PulseManual, SyncFromGuest,
       Terminate, PulseReset, Calls
  <2> QED
    BY <2>1
<1>5. ASSUME NEW n \in 0 .. Most, GuestWrite(n) PROVE WakePending => WakePending'
  BY <1>5 DEF GuestWrite
<1>6. CASE UNCHANGED vars
  BY <1>6 DEF vars
<1> QED
  BY <1>1, <1>2, <1>3, <1>4, <1>5, <1>6 DEF Next, Waits

(* Who takes a thread out of the queue of a semaphore wakes the rest when  *)
(* one of them has its turn only now.                                      *)
LEMMA RestIsWoken ==
  ASSUME QueueInv, [Next]_vars, NEW u \in Threads, fifo' = Without(u), UNCHANGED kind,
         Queued(u) /\ WakesTheRest(Without(u)) => WakePending',
         NEW t \in Threads \ terminated, t # u, t \notin multi, pc[t] \in InLine,
         kind # "autoEvent", MayAcquire(t)', ~MayAcquire(t)
  PROVE  WakePending'
<1>1. Queued(u)
  BY DEF Without, MayAcquire
<1>2. Queued(t)'
  <2>1. Queued(t)
    BY DEF QueueInv, QueueKnows
  <2> QED
    BY <2>1, QueueLoses DEF QueueInv, TypeOK
<1>3. fifo' # <<>>
  BY <1>2 DEF Queued
<1>4. kind = "semaphore"
  BY WaitAssumption DEF QueueInv, TypeOK, WaitAssumption, MayAcquire
<1> QED
  BY <1>1, <1>3, <1>4 DEF WakesTheRest

LEMMA NothingMissedKept ==
  ASSUME MissedInv, [Next]_vars
  PROVE  NothingMissedYet'
<1> SUFFICES ASSUME kind' # "autoEvent", NEW t \in Threads \ terminated',
                    pc'[t] \in {"missed", "parked"}, host' > 0,
                    t \in multi' \/ MayAcquire(t)'
             PROVE  t \in moved' \/ WakePending'
  BY DEF NothingMissedYet
<1> USE DEF MissedInv, QueueInv, TypeOK
<1>0. /\ moved' = Threads \/ (WakePending => WakePending')
      /\ kind \in {"semaphore", "autoEvent", "manualEvent"}
  BY WakeIsDelivered, WaitAssumption DEF WaitAssumption
<1>1. /\ kind # "autoEvent" /\ t \notin terminated /\ pc[t] \in {"missed", "parked"}
      /\ host > 0 /\ (t \in multi \/ MayAcquire(t))
      => t \in moved \/ WakePending
  BY DEF NothingMissedYet
<1>2. ASSUME NEW u \in Threads, Leave(u) \/ Exits(u) PROVE t \in moved' \/ WakePending'
  <2>1. /\ u # t /\ pc'[t] = pc[t] /\ UNCHANGED <<kind, host, moved, terminated>>
        /\ (t \in multi <=> t \in multi') /\ fifo' = Without(u)
    BY <1>2 DEF Leave, Exits, Goes, counts
  <2>2. Queued(u) /\ WakesTheRest(Without(u)) => WakePending'
    <3>1. CASE Leave(u)
      <4>1. Queued(u) => u \notin multi
        BY DEF QueueKnows
      <4> QED
        BY <3>1, <4>1 DEF Leave, Goes, WakePending
    <3>2. CASE Exits(u)
      BY <3>2 DEF Exits, Goes, WakePending
    <3> QED
      BY <1>2, <3>1, <3>2
  <2>3. CASE t \in multi \/ MayAcquire(t)
    BY <1>0, <1>1, <2>1, <2>3
  <2>4. CASE ~(t \in multi \/ MayAcquire(t))
    <3>1. pc[t] \in InLine
      BY <2>1 DEF InLine
    <3> QED
      BY <2>1, <2>2, <2>4, <3>1, RestIsWoken
  <2> QED
    BY <2>3, <2>4
<1>3. ASSUME NEW s \in Signalers, NEW u \in Threads, Terminate(s, u)
      PROVE  t \in moved' \/ WakePending'
  <2>1. /\ u # t /\ pc'[t] = pc[t] /\ UNCHANGED <<kind, host, moved, multi>>
        /\ t \notin terminated /\ fifo' = Without(u)
    BY <1>3 DEF Terminate, counts
  <2>2. Queued(u) /\ WakesTheRest(Without(u)) => WakePending'
    BY <1>3 DEF Terminate, Calls, WakePending
  <2>3. CASE t \in multi \/ MayAcquire(t)
    BY <1>0, <1>1, <2>1, <2>3
  <2>4. CASE ~(t \in multi \/ MayAcquire(t))
    <3>1. pc[t] \in InLine
      BY <2>1 DEF InLine
    <3> QED
      BY <2>1, <2>2, <2>4, <3>1, RestIsWoken
  <2> QED
    BY <2>3, <2>4
<1>4. ASSUME NEW u \in Threads, Join(u) PROVE t \in moved' \/ WakePending'
  <2>1. /\ u # t /\ pc'[t] = pc[t] /\ UNCHANGED <<kind, host, moved, terminated, multi>>
    BY <1>4 DEF Join, Goes, counts
  <2>2. t \in multi \/ MayAcquire(t)
    <3>1. ASSUME t \notin multi, kind = "semaphore" PROVE MayAcquire(t)
      <4>1. Queued(t) /\ fifo # <<>>
        BY <2>1, <3>1 DEF QueueKnows, InLine, Queued
      <4>2. ~Queued(u)
        BY <1>4 DEF Join, Goes, QueueKnows, InLine
      <4>3. fifo' # <<>> /\ fifo'[1] = fifo[1]
        BY <1>4, <4>1, <4>2, QueueGains DEF Join
      <4> QED
        BY <2>1, <3>1, <4>3 DEF MayAcquire
    <3> QED
      BY <1>0, <2>1, <3>1 DEF MayAcquire
  <2> QED
    BY <1>0, <1>1, <2>1, <2>2
<1>5. ASSUME NEW s \in Signalers, Signals(s) \/ PulseReset(s), UNCHANGED terminated
      PROVE  t \in moved' \/ WakePending'
  <2>1. CASE ReleaseSemaphore(s) \/ Set(s)
    BY <2>1 DEF ReleaseSemaphore, Set, Calls, WakePending
  <2>2. CASE Reset(s) \/ PulseReset(s)
    BY <2>2 DEF Reset, PulseReset
  <2>3. CASE PulseAuto(s) \/ PulseManual(s)
    <3>1. UNCHANGED <<kind, host, fifo, multi, moved, pc>>
      BY <2>3 DEF PulseAuto, PulseManual, counts
    <3> QED
      BY <1>0, <1>1, <1>5, <3>1 DEF MayAcquire
  <2>4. CASE SyncFromGuest(s)
    <3>1. CASE header > kept
      BY <2>4, <3>1 DEF SyncFromGuest, Calls, WakePending, Counts
    <3>2. CASE header < kept
      <4>1. UNCHANGED <<kind, fifo, multi, moved, pc>>
        BY <2>4 DEF SyncFromGuest
      <4>2. host > 0
        <5>1. host' = IF kind = "semaphore" THEN host - Drained ELSE header
          <6>1. header \in Int /\ kept \in Int
            BY ClaimedIsFinite, WaitAssumption DEF Counts, WaitAssumption
          <6> QED
            BY <2>4, <3>2, <6>1 DEF SyncFromGuest
        <5>2. CASE kind = "semaphore"
          <6>1. host \in Nat
            BY WaitAssumption DEF WaitAssumption, Most
          <6>2. Drained \in Nat
            BY <3>2, <6>1, ClaimedIsFinite, WaitAssumption
            DEF Drained, AtMost, Counts, WaitAssumption
          <6> QED
            BY <5>1, <5>2, <6>1, <6>2
        <5>3. CASE kind # "semaphore"
          BY <3>2, <5>1, <5>3 DEF EventIsBinary
        <5> QED
          BY <5>2, <5>3
      <4> QED
        BY <1>0, <1>1, <1>5, <4>1, <4>2 DEF MayAcquire
    <3> QED
      BY <2>4, <3>1, <3>2, ClaimedIsFinite, WaitAssumption
      DEF SyncFromGuest, Counts, WaitAssumption
  <2>5. CASE \E u \in Threads : Terminate(s, u)
    BY <1>3, <2>5
  <2> QED
    BY <1>5, <2>1, <2>2, <2>3, <2>4, <2>5 DEF Signals
<1>6. ASSUME NEW u \in Threads,
             \/ Enter(u) \/ Interrupted(u) \/ SampleEpoch(u) \/ PollPulsed(u) \/ PollTurn(u)
             \/ PollAny(u) \/ HostAcquire(u) \/ HostTimeout(u) \/ WaitCallback(u)
             \/ Block(u) \/ GiveUp(u) \/ Repoll(u) \/ TimedRepoll(u)
      PROVE  t \in moved' \/ WakePending'
  <2>1. /\ UNCHANGED <<kind, fifo, terminated>> /\ (t \in multi <=> t \in multi')
        /\ host > 0 /\ (t \in moved <=> t \in moved')
    BY <1>0, <1>6 DEF Enter, Interrupted, SampleEpoch, PollPulsed, PollTurn, PollAny,
       HostAcquire, HostTimeout, WaitCallback, Block, GiveUp, Repoll, TimedRepoll, Goes, counts
  <2>2. t \in multi \/ MayAcquire(t)
    BY <2>1 DEF MayAcquire
  <2>3. pc[t] \in {"missed", "parked"}
    BY <1>6, <2>1, <2>2 DEF Enter, Interrupted, SampleEpoch, PollPulsed, PollTurn, PollAny,
       HostAcquire, HostTimeout, WaitCallback, Block, GiveUp, Repoll, TimedRepoll, Goes
  <2> QED
    BY <1>0, <1>1, <2>1, <2>2, <2>3
<1>7. ASSUME NEW n \in 0 .. Most, GuestWrite(n) PROVE t \in moved' \/ WakePending'
  BY <1>0, <1>1, <1>7 DEF GuestWrite, MayAcquire
<1>8. CASE UNCHANGED vars
  BY <1>0, <1>1, <1>8 DEF vars, counts, MayAcquire
<1>9. ASSUME NEW s \in Signalers, Signals(s) \/ PulseReset(s)
      PROVE  UNCHANGED terminated \/ \E u \in Threads : Terminate(s, u)
  BY <1>9 DEF Signals, ReleaseSemaphore, Set, Reset, PulseAuto, PulseManual, SyncFromGuest,
     PulseReset
<1>10. ASSUME (\E u \in Threads : WakeRest(u)) \/ \E s \in Signalers : WakeWaiters(s)
       PROVE  t \in moved'
  BY <1>10 DEF WakeRest, WakeWaiters, MoveEpoch
<1> QED
  BY <1>2, <1>3, <1>4, <1>5, <1>6, <1>7, <1>8, <1>9, <1>10 DEF Next, Waits

(* A pulse of a manual-reset event ends by moving the signal epoch.        *)
PulseDue == \E s \in Signalers : spc[s] \in {"pulseReset", "wake"}

LEMMA PulseIsDelivered ==
  ASSUME TypeOK, [Next]_vars
  PROVE  moved' = Threads \/ (PulseDue => PulseDue')
<1> USE DEF TypeOK, PulseDue
<1>1. ASSUME NEW s \in Signalers, WakeWaiters(s) PROVE moved' = Threads
  BY <1>1 DEF WakeWaiters, MoveEpoch
<1>2. ASSUME NEW u \in Threads,
             \/ Enter(u) \/ Interrupted(u) \/ Waits(u) \/ GiveUp(u) \/ TimedRepoll(u)
      PROVE  UNCHANGED spc
  BY <1>2 DEF Waits, Enter, Interrupted, Join, SampleEpoch, PollPulsed, PollTurn, PollAny,
     HostAcquire, HostTimeout, WaitCallback, Block, GiveUp, Exits, Repoll, TimedRepoll,
     Leave, WakeRest
<1>3. ASSUME NEW s \in Signalers, Signals(s) PROVE PulseDue => PulseDue'
  <2>1. spc[s] \notin {"pulseReset", "wake"} /\ \A v \in Signalers \ {s} : spc'[v] = spc[v]
    BY <1>3 DEF Signals, ReleaseSemaphore, Set, Reset, PulseAuto, PulseManual, SyncFromGuest,
       Terminate, Calls
  <2> QED
    BY <2>1
<1>4. ASSUME NEW s \in Signalers, PulseReset(s) PROVE PulseDue'
  BY <1>4 DEF PulseReset, PulseEnd, Calls
<1>5. ASSUME NEW n \in 0 .. Most, GuestWrite(n) PROVE UNCHANGED spc
  BY <1>5 DEF GuestWrite
<1>6. CASE UNCHANGED vars
  BY <1>6 DEF vars
<1> QED
  BY <1>1, <1>2, <1>3, <1>4, <1>5, <1>6 DEF Next

LEMMA NoPulseMissedKept ==
  ASSUME TypeOK, NoPulseMissedYet, [Next]_vars
  PROVE  NoPulseMissedYet'
<1> SUFFICES ASSUME NEW t \in Threads \ terminated', pc'[t] \in {"trying", "missed", "parked"},
                    t \in pulsed'
             PROVE  t \in moved' \/ PulseDue'
  BY DEF NoPulseMissedYet, PulseDue
<1> USE DEF TypeOK
<1>1. /\ t \notin terminated /\ pc[t] \in {"trying", "missed", "parked"} /\ t \in pulsed
      => t \in moved \/ PulseDue
  BY DEF NoPulseMissedYet, PulseDue
<1>2. moved' = Threads \/ (PulseDue => PulseDue')
  BY PulseIsDelivered
<1>3. ASSUME NEW u \in Threads,
             \/ Enter(u) \/ Interrupted(u) \/ Join(u) \/ SampleEpoch(u) \/ PollPulsed(u)
             \/ PollTurn(u) \/ PollAny(u) \/ HostAcquire(u) \/ HostTimeout(u)
             \/ WaitCallback(u) \/ Block(u) \/ GiveUp(u) \/ Exits(u) \/ Repoll(u)
             \/ TimedRepoll(u) \/ Leave(u)
      PROVE  t \in moved' \/ PulseDue'
  <2>1. /\ t \in pulsed /\ t \notin terminated
        /\ pc[t] \in {"trying", "missed", "parked"} /\ (t \in moved => t \in moved')
    BY <1>3 DEF Enter, Interrupted, Join, SampleEpoch, PollPulsed, PollTurn, PollAny,
       HostAcquire, HostTimeout, WaitCallback, Block, GiveUp, Exits, Repoll, TimedRepoll,
       Leave, Goes
  <2> QED
    BY <1>1, <1>2, <2>1
<1>4. ASSUME (\E u \in Threads : WakeRest(u)) \/ \E s \in Signalers : WakeWaiters(s)
      PROVE  t \in moved'
  BY <1>4 DEF WakeRest, WakeWaiters, MoveEpoch
<1>5. ASSUME NEW s \in Signalers, Signals(s) \/ PulseReset(s) PROVE t \in moved' \/ PulseDue'
  <2>1. CASE PulseManual(s)
    BY <2>1 DEF PulseManual, Calls, PulseDue
  <2>2. CASE ~PulseManual(s)
    <3>1. /\ UNCHANGED <<pc, pulsed, moved>> /\ terminated \subseteq terminated'
      BY <1>5, <2>2 DEF Signals, ReleaseSemaphore, Set, Reset, PulseAuto, SyncFromGuest,
         Terminate, PulseReset
    <3> QED
      BY <1>1, <1>2, <3>1
  <2> QED
    BY <2>1, <2>2
<1>6. CASE UNCHANGED vars \/ \E n \in 0 .. Most : GuestWrite(n)
  <2>1. UNCHANGED <<pc, pulsed, moved, terminated>>
    BY <1>6 DEF vars, GuestWrite
  <2> QED
    BY <1>1, <1>2, <2>1
<1> QED
  BY <1>3, <1>4, <1>5, <1>6 DEF Next, Waits

-----------------------------------------------------------------------------
(* The theorems                                                            *)

LEMMA InitHolds ==
  ASSUME WaitAssumption, Init
  PROVE  IInv
<1>1. /\ Limit \in Nat /\ Limit > 0 /\ kind \in {"semaphore", "autoEvent", "manualEvent"}
      /\ host \in 0 .. Most /\ Most \in Nat /\ Most <= Limit
  BY DEF Init, Most, WaitAssumption
<1>2. Claimed = {} /\ Cardinality(Claimed) = 0 /\ Cardinality(Threads) \in Nat
  BY ClaimedIsFinite, FS_EmptySet DEF Init, Claimed
<1>3. host \in Counts
  BY <1>1, <1>2 DEF Counts
<1>4. TypeOK
  BY <1>1, <1>3 DEF Init, TypeOK, Pcs, SPcs
<1>5. NoDuplicates /\ QueueKnows
  BY DEF Init, NoDuplicates, QueueKnows, Queued, InLine
<1>6. EventIsBinary
  BY <1>1 DEF Init, EventIsBinary, Most
<1>7. Conserved
  BY <1>1, <1>2 DEF Init, Conserved
<1>8. NoStealing /\ NothingMissedYet /\ NoPulseMissedYet
  BY DEF Init, NoStealing, NothingMissedYet, NoPulseMissedYet
<1> QED
  BY <1>4, <1>5, <1>6, <1>7, <1>8 DEF IInv

LEMMA NextHolds ==
  ASSUME WaitAssumption, IInv, [Next]_vars
  PROVE  IInv'
<1>1. QueueInv /\ CountsInv
  BY DEF IInv, QueueInv, CountsInv, EventCounts, EventIsBinary, TypeOK
<1>2. fifo' \in Seq(Threads) /\ NoDuplicates' /\ QueueKnows'
  BY <1>1, QueueKept
<1>3. CountsInv'
  BY <1>1, CountsKept DEF IInv
<1>4. TypeOK'
  BY <1>2, <1>3, TypesKept DEF IInv, CountsInv
<1>5. EventIsBinary' /\ Conserved'
  BY <1>3, PulsesAreOfEvents DEF IInv, CountsInv, EventCounts, EventIsBinary
<1>6. NoStealing'
  BY <1>1, TurnsKept DEF IInv
<1>7. NothingMissedYet'
  BY <1>1, NothingMissedKept DEF IInv, MissedInv
<1>8. NoPulseMissedYet'
  BY NoPulseMissedKept DEF IInv
<1> QED
  BY <1>2, <1>4, <1>5, <1>6, <1>7, <1>8 DEF IInv

LEMMA Inductive == Spec => []IInv
<1>1. Init => IInv
  BY WaitAssumption, InitHolds
<1>2. IInv /\ [Next]_vars => IInv'
  BY WaitAssumption, NextHolds
<1> QED
  BY <1>1, <1>2, PTL DEF Spec

(* Every variable of a wait keeps to its values: in particular no count of *)
(* a semaphore or event, the guest's view included, runs below zero or     *)
(* past what its permits explain.                                          *)
THEOREM WaitTypeCorrect == Spec => []TypeOK
<1>1. IInv => TypeOK
  BY DEF IInv
<1> QED
  BY <1>1, Inductive, PTL

(* XSemaphore: no permit is lost or made, whatever the guest writes over   *)
(* its header and however many threads acquire and release.                *)
THEOREM PermitsConserved == Spec => []Conserved
<1>1. IInv => Conserved
  BY DEF IInv
<1> QED
  BY <1>1, Inductive, PTL

(* CooperativeMayAcquire: a permit is taken in the order of the queue.     *)
THEOREM TurnsRespected == Spec => []NoStealing
<1>1. IInv => NoStealing
  BY DEF IInv
<1> QED
  BY <1>1, Inductive, PTL

(* CooperativeWait: nobody whose turn it is sleeps on a signaled semaphore *)
(* or manual-reset event without a wake on its way.                        *)
THEOREM NobodyLeftAsleep == Spec => []NothingMissed
<1>1. IInv => NothingMissed
  BY DEF IInv, NothingMissedYet, NothingMissed
<1> QED
  BY <1>1, Inductive, PTL

(* XEvent::Pulse: a parked waiter learns of a pulse that is already reset. *)
THEOREM PulsesReachWaiters == Spec => []NoPulseMissed
<1>1. IInv => NoPulseMissed
  BY DEF IInv, NoPulseMissedYet, NoPulseMissed
<1> QED
  BY <1>1, Inductive, PTL

=============================================================================
