---------------------------- MODULE TimersProofs ----------------------------
(* A proof that no expiry of a timer outlives its setting, for any number of *)
(* timers, threads and settings.                                             *)
(*                                                                           *)
(* The invariant follows the items of a timer: those of older settings are   *)
(* disarmed and stay so, the latest may be in its callback, and a thread     *)
(* past Disarm, which has the lock of the timer, knows that it is not.  For  *)
(* a KTIMER it follows the header from one call of its one thread to the     *)
(* next.                                                                     *)
EXTENDS Timers, TLAPS

(* Where the queue is in a callback.                                        *)
Callback == {"signal", "header", "apc", "finish"}
Past     == {"remove", "reset", "arm"}

(* The types, apart for the records.                                         *)
ItemRecord  == [state : States, due : Int, interval : Nat]
TimerRecord == [set : 0 .. MaxSettings, lock : Threads \cup {None},
                signal : 0 .. MaxSettings, apc : 0 .. MaxSettings,
                header : 0 .. MaxSettings, inserted : BOOLEAN]
CallRecord  == [timer : Timers \cup {None}, due : Nat, interval : Nat,
                kind : {"none", "set", "first", "cancel"}]

Typed == /\ item \in [Items -> ItemRecord]
         /\ timer \in [Timers -> TimerRecord]
         /\ call \in [Threads -> CallRecord]
         /\ pc \in [Threads -> Pcs]

QueueTyped ==
    /\ plan \in Plans
    /\ now \in 0 .. MaxClock /\ ring \in Seq(Items) /\ Len(ring) <= RingSize
    /\ waiting \subseteq Items /\ again \subseteq Items
    /\ loop \in {"wait", "expire", "claim"} \cup Callback
    /\ expiring \in Items \cup {None}

(* The queue is in the callback of the item that says so, and of no other.   *)
InOneCallback ==
    /\ loop \in {"claim"} \cup Callback => expiring \in Items
    /\ loop \in {"signal", "header", "apc"} => item[expiring].state = "inCallback"
    /\ loop = "finish" =>
         item[expiring].state \in {"inCallback", "inCallbackSelfDisarmed"}
    /\ \A i \in Items : item[i].state \in {"inCallback", "inCallbackSelfDisarmed"} =>
         loop \in Callback /\ i = expiring

(* A timer has set the items up to its latest, and all but it are disarmed.  *)
SetInOrder ==
    \A t \in Timers, n \in Settings :
        /\ n > timer[t].set => item[<<t, n>>].state = "none"
        /\ n < timer[t].set => item[<<t, n>>].state = "disarmed"
        /\ n = timer[t].set => item[<<t, n>>].state # "none"

(* The latest item of a timer is disarmed, if it has one.                   *)
Disarmed(t) == <<t, timer[t].set>> \in Items =>
                 item[<<t, timer[t].set>>].state = "disarmed"

(* What a call is of at each point, and the lock it has.                     *)
InCalls ==
    \A c \in Threads : pc[c] # "out" =>
        /\ call[c].timer \in Timers /\ c \in plan.callers
        /\ pc[c] \in {"cancelFirst", "reset", "arm", "mark"} => call[c].kind = "set"
        /\ pc[c] \in {"test", "unmark"} => call[c].kind = "cancel"
        /\ pc[c] = "lock" => call[c].kind \in {"set", "cancel"}
        /\ pc[c] \in {"disarm", "remove"} => call[c].kind # "none"
        /\ pc[c] \in {"cancelFirst", "test", "mark", "unmark"} \/ call[c].kind = "first"
             => plan.calls = "Ke"
        /\ pc[c] \in {"disarm"} \cup Past => timer[call[c].timer].lock = c

(* A call past Disarm finds the item disarmed; the APC, then the signal,    *)
(* are taken back on its way to Arm.                                        *)
PastDisarm ==
    \A c \in Threads : pc[c] \in Past =>
        /\ Disarmed(call[c].timer)
        /\ pc[c] \in {"reset", "arm"} => timer[call[c].timer].apc = 0
        /\ pc[c] = "arm" => timer[call[c].timer].signal = 0

(* Nothing an older setting did is in sight: the property and its two       *)
(* siblings.                                                                *)
Currents ==
    \A t \in Timers : /\ Current(t, timer[t].signal)
                      /\ Current(t, timer[t].header)
                      /\ Current(t, timer[t].apc)

(* The header of a KTIMER.                                                   *)
Ending(t) == /\ loop = "finish" /\ expiring = <<t, timer[t].set>>
             /\ item[expiring].interval = 0

(* `inserted' says whether the timer is armed; a one-shot in the last step  *)
(* of its callback has cleared it already.                                  *)
Insertion(t) == \/ timer[t].inserted = Armed(t)
                \/ Ending(t) /\ ~timer[t].inserted

(* A call that has not marked its timer, nor disarmed it to set it.         *)
Before(c) == \/ pc[c] \in {"out", "cancelFirst", "test"}
             \/ pc[c] \in {"lock", "disarm"} /\ call[c].kind \in {"first", "cancel"}

(* Only a KTIMER has a header that expiries write.                          *)
NtHeaders ==
    plan.calls # "Ke" => loop # "header" /\ \A t \in Timers : timer[t].header = 0

(* An expiry of a KTIMER queues no APC of the host timer, and has cleared   *)
(* `inserted' of a one-shot by its last step.                               *)
KeExpiries ==
    plan.calls = "Ke" =>
        /\ loop # "apc"
        /\ loop = "finish" => /\ item[expiring].state = "inCallback"
                              /\ item[expiring].interval = 0 => ~timer[Of].inserted

(* `inserted' is exact for a KTIMER no call is about to change.             *)
KeInsertions ==
    plan.calls = "Ke" =>
        \A t \in Timers : (\A c \in Threads : call[c].timer = t => Before(c)) => Insertion(t)

(* What a call knows of its KTIMER: a set has marked it and disarmed it     *)
(* before it arms it, a cancel clears `inserted' of one that is disarmed.   *)
HeaderOf(c) ==
    LET t == call[c].timer
    IN  /\ pc[c] \in {"lock", "disarm"} \cup Past /\ call[c].kind = "set" =>
             timer[t].header = 0 /\ timer[t].inserted /\ Disarmed(t)
        /\ pc[c] = "mark" => Disarmed(t)
        /\ pc[c] = "unmark" => ~Armed(t) \/ Ending(t)

(* Every call of KTIMERs knows it.                                          *)
KeCalls == plan.calls = "Ke" => \A c \in Threads : HeaderOf(c)

(* The inductive invariant.                                                 *)
IInv == /\ Typed /\ QueueTyped /\ InOneCallback /\ SetInOrder /\ InCalls /\ PastDisarm
        /\ Currents /\ NtHeaders /\ KeExpiries /\ KeInsertions /\ KeCalls

-----------------------------------------------------------------------------
(* What a step leaves in a record, field by field.                           *)

(* One item changes, to this state and interval.                            *)
ItemBecomes(i, state, interval) ==
    /\ item' \in [Items -> ItemRecord]
    /\ \A k \in Items : k # i => item'[k] = item[k]
    /\ item'[i].state = state /\ item'[i].interval = interval

(* One timer changes, to these fields.                                      *)
TimerBecomes(t, set, lock, signal, apc, header, inserted) ==
    /\ timer' \in [Timers -> TimerRecord]
    /\ \A u \in Timers : u # t => timer'[u] = timer[u]
    /\ timer'[t].set = set /\ timer'[t].lock = lock
    /\ timer'[t].signal = signal /\ timer'[t].apc = apc
    /\ timer'[t].header = header /\ timer'[t].inserted = inserted

(* One call changes, to this timer and kind.                                *)
CallBecomes(c, t, kind) ==
    /\ call' \in [Threads -> CallRecord]
    /\ \A d \in Threads : d # c => call'[d] = call[d]
    /\ call'[c].timer = t /\ call'[c].kind = kind

(* One thread moves.                                                        *)
PcBecomes(c, to) ==
    /\ pc' \in [Threads -> Pcs]
    /\ \A d \in Threads : pc'[d] = IF d = c THEN to ELSE pc[d]

-----------------------------------------------------------------------------
(* A record is replaced by another.                                         *)
LEMMA TimerPut ==
  ASSUME Typed, NEW t \in Timers, NEW r \in TimerRecord, timer' = [timer EXCEPT ![t] = r]
  PROVE  TimerBecomes(t, r.set, r.lock, r.signal, r.apc, r.header, r.inserted)
BY DEF Typed, TimerBecomes

(* An item is replaced.                                                     *)
LEMMA ItemPut ==
  ASSUME Typed, NEW i \in Items, NEW r \in ItemRecord, item' = [item EXCEPT ![i] = r]
  PROVE  ItemBecomes(i, r.state, r.interval)
BY DEF Typed, ItemBecomes

(* A call is replaced.                                                      *)
LEMMA CallPut ==
  ASSUME Typed, NEW c \in Threads, NEW r \in CallRecord, call' = [call EXCEPT ![c] = r]
  PROVE  CallBecomes(c, r.timer, r.kind)
BY DEF Typed, CallBecomes

(* A thread is moved.                                                       *)
LEMMA PcPut ==
  ASSUME Typed, NEW c \in Threads, NEW to \in Pcs, pc' = [pc EXCEPT ![c] = to]
  PROVE  PcBecomes(c, to)
BY DEF Typed, PcBecomes

(* The type invariant is these two.                                         *)
LEMMA Types == TypeOK <=> Typed /\ QueueTyped
BY DEF TypeOK, Typed, QueueTyped, ItemRecord, TimerRecord, CallRecord, Callback

(* The signal of a timer is written.                                        *)
LEMMA PutSignal ==
  ASSUME Typed, NEW t \in Timers, NEW n \in 0 .. MaxSettings,
         timer' = [timer EXCEPT ![t].signal = n]
  PROVE  TimerBecomes(t, timer[t].set, timer[t].lock, n, timer[t].apc, timer[t].header,
                      timer[t].inserted)
BY DEF Typed, TimerRecord, TimerBecomes

(* The APC of a timer is written.                                           *)
LEMMA PutApc ==
  ASSUME Typed, NEW t \in Timers, NEW n \in 0 .. MaxSettings,
         timer' = [timer EXCEPT ![t].apc = n]
  PROVE  TimerBecomes(t, timer[t].set, timer[t].lock, timer[t].signal, n, timer[t].header,
                      timer[t].inserted)
BY DEF Typed, TimerRecord, TimerBecomes

(* The lock of a timer is written.                                          *)
LEMMA PutLock ==
  ASSUME Typed, NEW t \in Timers, NEW c \in Threads \cup {None},
         timer' = [timer EXCEPT ![t].lock = c]
  PROVE  TimerBecomes(t, timer[t].set, c, timer[t].signal, timer[t].apc, timer[t].header,
                      timer[t].inserted)
BY DEF Typed, TimerRecord, TimerBecomes

(* `inserted' of a timer is written.                                        *)
LEMMA PutInserted ==
  ASSUME Typed, NEW t \in Timers, NEW b \in BOOLEAN,
         timer' = [timer EXCEPT ![t].inserted = b]
  PROVE  TimerBecomes(t, timer[t].set, timer[t].lock, timer[t].signal, timer[t].apc,
                      timer[t].header, b)
BY DEF Typed, TimerRecord, TimerBecomes

(* The APC is written and the lock dropped.                                 *)
LEMMA PutApcUnlock ==
  ASSUME Typed, NEW t \in Timers, 0 \in 0 .. MaxSettings,
         timer' = [timer EXCEPT ![t].apc = 0, ![t].lock = None]
  PROVE  TimerBecomes(t, timer[t].set, None, timer[t].signal, 0, timer[t].header,
                      timer[t].inserted)
<1> DEFINE q == timer[t]
           r == [q EXCEPT !.apc = 0]
           s == [r EXCEPT !.lock = None]
<1>1. q \in TimerRecord
  BY DEF Typed
<1>2. timer' = [timer EXCEPT ![t] = s]
  OBVIOUS
<1> HIDE DEF q
<1>3. /\ r \in TimerRecord
      /\ r.set = q.set /\ r.lock = q.lock /\ r.signal = q.signal
      /\ r.apc = 0 /\ r.header = q.header /\ r.inserted = q.inserted
  BY <1>1 DEF TimerRecord
<1> HIDE DEF r
<1>4. /\ s \in TimerRecord
      /\ s.set = r.set /\ s.lock = None /\ s.signal = r.signal
      /\ s.apc = r.apc /\ s.header = r.header /\ s.inserted = r.inserted
  BY <1>3 DEF TimerRecord
<1> HIDE DEF s
<1>5. TimerBecomes(t, s.set, s.lock, s.signal, s.apc, s.header, s.inserted)
  BY <1>2, <1>4, TimerPut
<1> QED BY <1>3, <1>4, <1>5 DEF q

(* A setting is counted and the lock dropped.                               *)
LEMMA PutSetUnlock ==
  ASSUME Typed, NEW t \in Timers, NEW n \in 0 .. MaxSettings,
         timer' = [timer EXCEPT ![t].set = n, ![t].lock = None]
  PROVE  TimerBecomes(t, n, None, timer[t].signal, timer[t].apc, timer[t].header,
                      timer[t].inserted)
<1> DEFINE q == timer[t]
           r == [q EXCEPT !.set = n]
           s == [r EXCEPT !.lock = None]
<1>1. q \in TimerRecord
  BY DEF Typed
<1>2. timer' = [timer EXCEPT ![t] = s]
  OBVIOUS
<1> HIDE DEF q
<1>3. /\ r \in TimerRecord
      /\ r.set = n /\ r.lock = q.lock /\ r.signal = q.signal
      /\ r.apc = q.apc /\ r.header = q.header /\ r.inserted = q.inserted
  BY <1>1 DEF TimerRecord
<1> HIDE DEF r
<1>4. /\ s \in TimerRecord
      /\ s.set = r.set /\ s.lock = None /\ s.signal = r.signal
      /\ s.apc = r.apc /\ s.header = r.header /\ s.inserted = r.inserted
  BY <1>3 DEF TimerRecord
<1> HIDE DEF s
<1>5. TimerBecomes(t, s.set, s.lock, s.signal, s.apc, s.header, s.inserted)
  BY <1>2, <1>4, TimerPut
<1> QED BY <1>3, <1>4, <1>5 DEF q

(* The header is written.                                                   *)
LEMMA PutHeader ==
  ASSUME Typed, NEW t \in Timers, NEW n \in 0 .. MaxSettings, NEW b \in BOOLEAN,
         timer' = [timer EXCEPT ![t].header = n, ![t].inserted = b]
  PROVE  TimerBecomes(t, timer[t].set, timer[t].lock, timer[t].signal, timer[t].apc, n, b)
<1> DEFINE q == timer[t]
           r == [q EXCEPT !.header = n]
           s == [r EXCEPT !.inserted = b]
<1>1. q \in TimerRecord
  BY DEF Typed
<1>2. timer' = [timer EXCEPT ![t] = s]
  OBVIOUS
<1> HIDE DEF q
<1>3. /\ r \in TimerRecord
      /\ r.set = q.set /\ r.lock = q.lock /\ r.signal = q.signal
      /\ r.apc = q.apc /\ r.header = n /\ r.inserted = q.inserted
  BY <1>1 DEF TimerRecord
<1> HIDE DEF r
<1>4. /\ s \in TimerRecord
      /\ s.set = r.set /\ s.lock = r.lock /\ s.signal = r.signal
      /\ s.apc = r.apc /\ s.header = r.header /\ s.inserted = b
  BY <1>3 DEF TimerRecord
<1> HIDE DEF s
<1>5. TimerBecomes(t, s.set, s.lock, s.signal, s.apc, s.header, s.inserted)
  BY <1>2, <1>4, TimerPut
<1> QED BY <1>3, <1>4, <1>5 DEF q

(* `inserted' and the header are written.                                   *)
LEMMA PutInsertedHeader ==
  ASSUME Typed, NEW t \in Timers, 0 \in 0 .. MaxSettings,
         timer' = [timer EXCEPT ![t].inserted = TRUE, ![t].header = 0]
  PROVE  TimerBecomes(t, timer[t].set, timer[t].lock, timer[t].signal, timer[t].apc, 0,
                      TRUE)
<1> DEFINE q == timer[t]
           r == [q EXCEPT !.inserted = TRUE]
           s == [r EXCEPT !.header = 0]
<1>1. q \in TimerRecord
  BY DEF Typed
<1>2. timer' = [timer EXCEPT ![t] = s]
  OBVIOUS
<1> HIDE DEF q
<1>3. /\ r \in TimerRecord
      /\ r.set = q.set /\ r.lock = q.lock /\ r.signal = q.signal
      /\ r.apc = q.apc /\ r.header = q.header /\ r.inserted = TRUE
  BY <1>1 DEF TimerRecord
<1> HIDE DEF r
<1>4. /\ s \in TimerRecord
      /\ s.set = r.set /\ s.lock = r.lock /\ s.signal = r.signal
      /\ s.apc = r.apc /\ s.header = 0 /\ s.inserted = r.inserted
  BY <1>3 DEF TimerRecord
<1> HIDE DEF s
<1>5. TimerBecomes(t, s.set, s.lock, s.signal, s.apc, s.header, s.inserted)
  BY <1>2, <1>4, TimerPut
<1> QED BY <1>3, <1>4, <1>5 DEF q

(* Fields of an item and of a call.                                          *)
LEMMA PutState ==
  ASSUME Typed, NEW i \in Items, NEW state \in States,
         item' = [item EXCEPT ![i].state = state]
  PROVE  ItemBecomes(i, state, item[i].interval)
BY DEF Typed, ItemRecord, ItemBecomes

(* The state and the due time of an item are written.                       *)
LEMMA PutStateDue ==
  ASSUME Typed, NEW i \in Items, NEW state \in States, NEW due \in Int,
         item' = [item EXCEPT ![i].state = state, ![i].due = due]
  PROVE  ItemBecomes(i, state, item[i].interval)
<1> DEFINE q == item[i]
           r == [q EXCEPT !.state = state]
           s == [r EXCEPT !.due = due]
<1>1. q \in ItemRecord
  BY DEF Typed
<1>2. item' = [item EXCEPT ![i] = s]
  OBVIOUS
<1> HIDE DEF q
<1>3. r \in ItemRecord /\ r.state = state /\ r.interval = q.interval
  BY <1>1 DEF ItemRecord
<1> HIDE DEF r
<1>4. s \in ItemRecord /\ s.state = r.state /\ s.interval = r.interval
  BY <1>3 DEF ItemRecord
<1> HIDE DEF s
<1>5. ItemBecomes(i, s.state, s.interval)
  BY <1>2, <1>4, ItemPut
<1> QED BY <1>3, <1>4, <1>5 DEF q

(* The kind of a call is written.                                           *)
LEMMA PutKind ==
  ASSUME Typed, NEW c \in Threads, NEW kind \in {"none", "set", "first", "cancel"},
         call' = [call EXCEPT ![c].kind = kind]
  PROVE  CallBecomes(c, call[c].timer, kind)
BY DEF Typed, CallRecord, CallBecomes

(* The due time of a call is written.                                       *)
LEMMA PutDue ==
  ASSUME Typed, NEW c \in Threads, NEW due \in Nat, call' = [call EXCEPT ![c].due = due]
  PROVE  CallBecomes(c, call[c].timer, call[c].kind)
BY DEF Typed, CallRecord, CallBecomes

(* A thread goes on.                                                        *)
LEMMA PcGoes ==
  ASSUME Typed, NEW c \in Threads, NEW from, NEW to \in Pcs, Goes(c, from, to)
  PROVE  pc[c] = from /\ PcBecomes(c, to)
BY PcPut DEF Goes

(* A call returns.                                                          *)
LEMMA CallReturns ==
  ASSUME Typed, NEW c \in Threads, NEW from, Returns(c, from)
  PROVE  pc[c] = from /\ PcBecomes(c, "out") /\ CallBecomes(c, None, "none")
<1>1. "out" \in Pcs
  BY DEF Pcs
<1>2. NoCall \in CallRecord /\ NoCall.timer = None /\ NoCall.kind = "none"
  BY DEF NoCall, CallRecord
<1> HIDE DEF NoCall
<1>3. call' = [call EXCEPT ![c] = NoCall] /\ Goes(c, from, "out")
  BY DEF Returns
<1> QED BY <1>1, <1>2, <1>3, CallPut, PcGoes

-----------------------------------------------------------------------------
(* What the steps leave: one definition for each action.                     *)

(* An expiry changes only its own item.                                     *)
InItem ==
    /\ expiring \in Items /\ expiring = <<Of, Setting>>
    /\ Of \in Timers /\ Setting \in Settings

ClaimEffect ==
    /\ InItem
    /\ \/ /\ item[expiring].state = "idle" /\ loop' = "signal" /\ expiring' = expiring
          /\ ItemBecomes(expiring, "inCallback", item[expiring].interval)
       \/ item[expiring].state # "idle" /\ loop' = "expire" /\ item' = item
    /\ loop = "claim" /\ UNCHANGED <<plan, timer, pc, call>>

SetSignalEffect ==
    LET r == timer[Of]
    IN  /\ InItem
        /\ loop = "signal" /\ loop' = IF plan.calls = "Ke" THEN "header" ELSE "apc"
        /\ TimerBecomes(Of, r.set, r.lock, Setting, r.apc, r.header, r.inserted)
        /\ UNCHANGED <<plan, expiring, item, pc, call>>

SetHeaderEffect ==
    LET r == timer[Of]
    IN  /\ InItem
        /\ loop = "header" /\ loop' = "finish"
        /\ TimerBecomes(Of, r.set, r.lock, r.signal, r.apc, Setting,
                        r.inserted /\ item[expiring].interval # 0)
        /\ UNCHANGED <<plan, expiring, item, pc, call>>

InsertApcEffect ==
    LET r == timer[Of]
    IN  /\ InItem
        /\ loop = "apc" /\ loop' = "finish"
        /\ TimerBecomes(Of, r.set, r.lock, r.signal, IF r.apc = 0 THEN Setting ELSE r.apc,
                        r.header, r.inserted)
        /\ UNCHANGED <<plan, expiring, item, pc, call>>

SelfDisarmEffect ==
    /\ InItem
    /\ plan.disarms /\ loop = "finish"
    /\ ItemBecomes(expiring, "inCallbackSelfDisarmed", item[expiring].interval)
    /\ UNCHANGED <<plan, loop, expiring, timer, pc, call>>

FinishEffect ==
    /\ InItem
    /\ \/ Recurs(expiring) /\ ItemBecomes(expiring, "idle", item[expiring].interval)
       \/ ~Recurs(expiring) /\ ItemBecomes(expiring, "disarmed", item[expiring].interval)
    /\ loop = "finish" /\ loop' = "expire"
    /\ UNCHANGED <<plan, timer, pc, call>>

DeliverApcEffect(t) ==
    LET r == timer[t]
    IN  /\ TimerBecomes(t, r.set, r.lock, r.signal, 0, r.header, r.inserted)
        /\ UNCHANGED <<plan, loop, expiring, item, pc, call>>

SetTimerEffect(c, t) ==
    /\ pc[c] = "out" /\ CallBecomes(c, t, "set")
    /\ PcBecomes(c, IF plan.calls = "Ke" THEN "cancelFirst" ELSE "lock")
    /\ UNCHANGED <<plan, loop, expiring, item, timer>>

CancelTimerEffect(c, t) ==
    /\ pc[c] = "out" /\ CallBecomes(c, t, "cancel")
    /\ PcBecomes(c, IF plan.calls = "Ke" THEN "test" ELSE "lock")
    /\ UNCHANGED <<plan, loop, expiring, item, timer>>

TestInsertedEffect(c) ==
    /\ call[c].timer \in Timers
    /\ pc[c] = "test"
    /\ PcBecomes(c, IF timer[call[c].timer].inserted THEN "lock" ELSE "unmark")
    /\ UNCHANGED <<plan, loop, expiring, item, timer, call>>

LockEffect(c) ==
    LET t == call[c].timer
        r == timer[t]
    IN  /\ t \in Timers
        /\ \/ pc[c] = "cancelFirst" /\ CallBecomes(c, t, "first")
           \/ /\ pc[c] = "lock" /\ call[c].kind \in {"set", "cancel"}
              /\ CallBecomes(c, t, call[c].kind)
        /\ PcBecomes(c, "disarm") /\ r.lock = None
        /\ TimerBecomes(t, r.set, c, r.signal, r.apc, r.header, r.inserted)
        /\ UNCHANGED <<plan, loop, expiring, item>>

DisarmEffect(c) ==
    /\ call[c].timer \in Timers
    /\ pc[c] = "disarm" /\ PcBecomes(c, "remove") /\ ~InCallback(Item(c))
    /\ item' \in [Items -> ItemRecord]
    /\ \A i \in Items :
         /\ item'[i].interval = item[i].interval
         /\ i = Item(c) /\ item[i].state = "idle" => item'[i].state = "disarmed"
         /\ i # Item(c) \/ item[i].state # "idle" => item'[i] = item[i]
    /\ UNCHANGED <<plan, loop, expiring, timer, call>>

RemoveEffect(c) ==
    LET t == call[c].timer
        r == timer[t]
    IN  /\ t \in Timers
        /\ \/ /\ call[c].kind = "set" /\ PcBecomes(c, "reset") /\ call' = call
              /\ TimerBecomes(t, r.set, r.lock, r.signal, 0, r.header, r.inserted)
           \/ /\ call[c].kind = "first" /\ PcBecomes(c, "mark")
              /\ CallBecomes(c, t, "set")
              /\ TimerBecomes(t, r.set, None, r.signal, 0, r.header, r.inserted)
           \/ /\ call[c].kind = "cancel"
              /\ \/ plan.calls = "Ke" /\ PcBecomes(c, "unmark") /\ call' = call
                 \/ /\ plan.calls # "Ke" /\ PcBecomes(c, "out")
                    /\ CallBecomes(c, None, "none")
              /\ TimerBecomes(t, r.set, None, r.signal, 0, r.header, r.inserted)
        /\ pc[c] = "remove" /\ UNCHANGED <<plan, loop, expiring, item>>

ResetEffect(c) ==
    LET t == call[c].timer
        r == timer[t]
    IN  /\ t \in Timers
        /\ pc[c] = "reset" /\ PcBecomes(c, "arm")
        /\ TimerBecomes(t, r.set, r.lock, 0, r.apc, r.header, r.inserted)
        /\ UNCHANGED <<plan, loop, expiring, item, call>>

ArmEffect(c) ==
    LET t == call[c].timer
        r == timer[t]
    IN  /\ t \in Timers
        /\ pc[c] = "arm" /\ PcBecomes(c, "out") /\ CallBecomes(c, None, "none")
        /\ <<t, r.set + 1>> \in Items
        /\ ItemBecomes(<<t, r.set + 1>>, "idle", call[c].interval)
        /\ TimerBecomes(t, r.set + 1, None, r.signal, r.apc, r.header, r.inserted)
        /\ Len(ring) < RingSize /\ ring' = Append(ring, <<t, r.set + 1>>)
        /\ UNCHANGED <<plan, loop, expiring, waiting, again, now>>

MarkEffect(c) ==
    LET t == call[c].timer
        r == timer[t]
    IN  /\ t \in Timers
        /\ pc[c] = "mark" /\ PcBecomes(c, "lock")
        /\ TimerBecomes(t, r.set, r.lock, r.signal, r.apc, 0, TRUE)
        /\ UNCHANGED <<plan, loop, expiring, item, call>>

UnmarkEffect(c) ==
    LET t == call[c].timer
        r == timer[t]
    IN  /\ t \in Timers
        /\ pc[c] = "unmark" /\ PcBecomes(c, "out") /\ CallBecomes(c, None, "none")
        /\ TimerBecomes(t, r.set, r.lock, r.signal, r.apc, r.header, FALSE)
        /\ UNCHANGED <<plan, loop, expiring, item>>

-----------------------------------------------------------------------------
(* The steps of the queue leave that.                                        *)

(* The timer and the setting of an expiry.                                   *)
LEMMA ExpiringIs ==
  ASSUME expiring \in Items
  PROVE  InItem /\ Setting \in 0 .. MaxSettings
BY TimersAssumption DEF InItem, Items, Settings, Of, Setting

LEMMA ClaimDoes ==
  ASSUME IInv, Claim
  PROVE  ClaimEffect
<1>0. Typed /\ InItem /\ expiring \in Items
  BY ExpiringIs DEF IInv, InOneCallback, Callback, Claim
<1> USE <1>0 DEF ClaimEffect
<1>1. "inCallback" \in States
  BY DEF States
<1>2. CASE item[expiring].state = "idle"
  <2>1. item' = [item EXCEPT ![expiring].state = "inCallback"]
    BY <1>2 DEF Claim
  <2>2. ItemBecomes(expiring, "inCallback", item[expiring].interval)
    BY <1>1, <2>1, PutState
  <2> QED BY <1>2, <2>2 DEF Claim
<1>3. CASE item[expiring].state # "idle"
  BY <1>3 DEF Claim
<1> QED BY <1>2, <1>3

LEMMA SetSignalDoes ==
  ASSUME IInv, SetSignal
  PROVE  SetSignalEffect
<1>0. Typed /\ InItem /\ expiring \in Items
  BY ExpiringIs DEF IInv, InOneCallback, Callback, SetSignal
<1> USE <1>0 DEF SetSignalEffect, InItem
<1> QED BY ExpiringIs, PutSignal DEF SetSignal

LEMMA SetHeaderDoes ==
  ASSUME IInv, SetHeader
  PROVE  SetHeaderEffect
<1>0. Typed /\ InItem /\ expiring \in Items
  BY ExpiringIs DEF IInv, InOneCallback, Callback, SetHeader
<1> USE <1>0 DEF SetHeaderEffect, InItem
<1> DEFINE b == timer[Of].inserted /\ item[expiring].interval # 0
<1>1. b \in BOOLEAN
  OBVIOUS
<1>2. timer' = [timer EXCEPT ![Of].header = Setting, ![Of].inserted = b]
  BY DEF SetHeader
<1> HIDE DEF b
<1>3. TimerBecomes(Of, timer[Of].set, timer[Of].lock, timer[Of].signal, timer[Of].apc,
                   Setting, b)
  BY <1>1, <1>2, ExpiringIs, PutHeader
<1> QED BY <1>3 DEF b, SetHeader

LEMMA InsertApcDoes ==
  ASSUME IInv, InsertApc
  PROVE  InsertApcEffect
<1>0. Typed /\ InItem /\ expiring \in Items
  BY ExpiringIs DEF IInv, InOneCallback, Callback, InsertApc
<1> USE <1>0 DEF InsertApcEffect, InItem
<1> DEFINE n == IF timer[Of].apc = 0 THEN Setting ELSE timer[Of].apc
<1>1. n \in 0 .. MaxSettings
  BY ExpiringIs DEF Typed, TimerRecord
<1>2. timer' = [timer EXCEPT ![Of].apc = n]
  BY DEF InsertApc
<1> HIDE DEF n
<1>3. TimerBecomes(Of, timer[Of].set, timer[Of].lock, timer[Of].signal, n,
                   timer[Of].header, timer[Of].inserted)
  BY <1>1, <1>2, ExpiringIs, PutApc
<1> QED BY <1>3 DEF n, InsertApc

LEMMA SelfDisarmDoes ==
  ASSUME IInv, SelfDisarm
  PROVE  SelfDisarmEffect
<1>0. Typed /\ InItem /\ expiring \in Items
  BY ExpiringIs DEF IInv, InOneCallback, Callback, SelfDisarm
<1> USE <1>0 DEF SelfDisarmEffect
<1>1. "inCallbackSelfDisarmed" \in States
  BY DEF States
<1>2. item' = [item EXCEPT ![expiring].state = "inCallbackSelfDisarmed"]
  BY DEF SelfDisarm
<1> QED BY <1>1, <1>2, PutState DEF SelfDisarm, queueVars

LEMMA FinishDoes ==
  ASSUME IInv, Finish
  PROVE  FinishEffect
<1>0. Typed /\ InItem /\ expiring \in Items
  BY ExpiringIs DEF IInv, InOneCallback, Callback, Finish
<1> USE <1>0 DEF FinishEffect
<1>1. "idle" \in States /\ "disarmed" \in States
  BY DEF States
<1>2. CASE Recurs(expiring)
  <2> DEFINE due == item[expiring].due + item[expiring].interval
  <2>1. due \in Int
    BY DEF Typed, ItemRecord
  <2>2. item' = [item EXCEPT ![expiring].state = "idle", ![expiring].due = due]
    BY <1>2 DEF Finish
  <2> HIDE DEF due
  <2>3. ItemBecomes(expiring, "idle", item[expiring].interval)
    BY <1>1, <2>1, <2>2, PutStateDue
  <2> QED BY <1>2, <2>3 DEF Finish
<1>3. CASE ~Recurs(expiring)
  <2>1. item' = [item EXCEPT ![expiring].state = "disarmed"]
    BY <1>3 DEF Finish
  <2>2. ItemBecomes(expiring, "disarmed", item[expiring].interval)
    BY <1>1, <2>1, PutState
  <2> QED BY <1>3, <2>2 DEF Finish
<1> QED BY <1>2, <1>3

LEMMA DeliverApcDoes ==
  ASSUME IInv, NEW t \in Timers, DeliverApc(t)
  PROVE  DeliverApcEffect(t)
<1>0. Typed
  BY DEF IInv
<1> USE <1>0 DEF DeliverApcEffect
<1>1. 0 \in 0 .. MaxSettings
  BY TimersAssumption
<1> QED BY <1>1, PutApc DEF DeliverApc, queueVars

-----------------------------------------------------------------------------
(* The steps of the calls leave that.                                        *)

LEMMA SetTimerDoes ==
  ASSUME IInv, NEW t \in Timers, NEW c \in Threads, SetTimer(c, t)
  PROVE  SetTimerEffect(c, t)
<1>0. Typed /\ plan \in Plans
  BY DEF IInv, QueueTyped
<1> USE <1>0 DEF SetTimerEffect
<1>1. PICK interval \in plan.intervals : Calls(c, t, "set", interval)
  BY DEF SetTimer
<1>2. interval \in Nat
  BY TimersAssumption
<1> DEFINE r == [timer |-> t, kind |-> "set", due |-> 0, interval |-> interval]
<1>3. r \in CallRecord /\ r.timer = t /\ r.kind = "set"
  BY <1>2 DEF CallRecord
<1>4. call' = [call EXCEPT ![c] = r]
  BY <1>1 DEF Calls
<1> HIDE DEF r
<1>5. CallBecomes(c, t, "set")
  BY <1>3, <1>4, CallPut
<1>6. (IF plan.calls = "Ke" THEN "cancelFirst" ELSE "lock") \in Pcs
  BY DEF Pcs
<1> QED BY <1>5, <1>6, PcGoes DEF SetTimer, queueVars

LEMMA CancelTimerDoes ==
  ASSUME IInv, NEW t \in Timers, NEW c \in Threads, CancelTimer(c, t)
  PROVE  CancelTimerEffect(c, t)
<1>0. Typed
  BY DEF IInv
<1> USE <1>0 DEF CancelTimerEffect
<1> DEFINE r == [timer |-> t, kind |-> "cancel", due |-> 0, interval |-> 0]
<1>1. r \in CallRecord /\ r.timer = t /\ r.kind = "cancel"
  BY DEF CallRecord
<1>2. call' = [call EXCEPT ![c] = r]
  BY DEF CancelTimer, Calls
<1> HIDE DEF r
<1>3. CallBecomes(c, t, "cancel")
  BY <1>1, <1>2, CallPut
<1>4. (IF plan.calls = "Ke" THEN "test" ELSE "lock") \in Pcs
  BY DEF Pcs
<1> QED BY <1>3, <1>4, PcGoes DEF CancelTimer, queueVars

LEMMA TestInsertedDoes ==
  ASSUME IInv, NEW c \in Threads, TestInserted(c)
  PROVE  TestInsertedEffect(c)
<1>0. Typed /\ call[c].timer \in Timers
  BY TimersAssumption DEF IInv, InCalls, QueueTyped, TestInserted, Goes
<1> USE <1>0 DEF TestInsertedEffect
<1>1. (IF timer[call[c].timer].inserted THEN "lock" ELSE "unmark") \in Pcs
  BY DEF Pcs
<1> QED BY <1>1, PcGoes DEF TestInserted, queueVars

LEMMA LockDoes ==
  ASSUME IInv, NEW c \in Threads, Lock(c)
  PROVE  LockEffect(c)
<1>0. Typed /\ call[c].timer \in Timers /\ now \in Nat
  BY TimersAssumption DEF IInv, InCalls, QueueTyped, Lock, Goes
<1> USE <1>0 DEF LockEffect
<1> DEFINE t == call[c].timer
<1>1. "disarm" \in Pcs
  BY DEF Pcs
<1>2. /\ timer' = [timer EXCEPT ![t].lock = c] /\ timer[t].lock = None
      /\ UNCHANGED <<plan, loop, expiring, item>>
  BY DEF Lock, queueVars
<1>3. TimerBecomes(t, timer[t].set, c, timer[t].signal, timer[t].apc, timer[t].header,
                   timer[t].inserted)
  BY <1>2, PutLock
<1>4. CASE Goes(c, "cancelFirst", "disarm") /\ call' = [call EXCEPT ![c].kind = "first"]
  BY <1>1, <1>2, <1>3, <1>4, PutKind, PcGoes
<1>5. CASE /\ Goes(c, "lock", "disarm") /\ call[c].kind = "set"
           /\ \E delay \in Delays : call' = [call EXCEPT ![c].due = now + delay]
  <2>1. PICK delay \in Delays : call' = [call EXCEPT ![c].due = now + delay]
    BY <1>5
  <2>2. now + delay \in Nat
    BY TimersAssumption
  <2>3. CallBecomes(c, t, "set")
    BY <1>5, <2>1, <2>2, PutDue
  <2> QED BY <1>1, <1>2, <1>3, <1>5, <2>3, PcGoes
<1>6. CASE Goes(c, "lock", "disarm") /\ call[c].kind = "cancel" /\ UNCHANGED call
  <2>1. CallBecomes(c, t, "cancel")
    BY <1>6 DEF Typed, CallBecomes
  <2> QED BY <1>1, <1>2, <1>3, <1>6, <2>1, PcGoes
<1> QED BY <1>4, <1>5, <1>6 DEF Lock

LEMMA DisarmDoes ==
  ASSUME IInv, NEW c \in Threads, Disarm(c)
  PROVE  DisarmEffect(c)
<1>0. Typed /\ call[c].timer \in Timers
  BY TimersAssumption DEF IInv, InCalls, QueueTyped, Disarm, Goes
<1> USE <1>0 DEF DisarmEffect
<1>1. "remove" \in Pcs
  BY DEF Pcs
<1>2. ASSUME NEW r \in ItemRecord
      PROVE  LET s == [r EXCEPT !.state = "disarmed"]
             IN  s \in ItemRecord /\ s.state = "disarmed" /\ s.interval = r.interval
  BY DEF ItemRecord, States
<1> DEFINE d(i) == [item[i] EXCEPT !.state = "disarmed"]
<1>3. item' = [i \in Items |-> IF i = Item(c) /\ item[i].state = "idle"
                               THEN d(i) ELSE item[i]]
  BY DEF Disarm
<1>4. \A i \in Items : item[i] \in ItemRecord
  BY DEF Typed
<1>5. \A i \in Items : d(i) \in ItemRecord /\ d(i).state = "disarmed"
                       /\ d(i).interval = item[i].interval
  BY <1>2, <1>4
<1> HIDE DEF d
<1>6. item' \in [Items -> ItemRecord]
  BY <1>3, <1>4, <1>5
<1>7. \A i \in Items :
        /\ item'[i].interval = item[i].interval
        /\ i = Item(c) /\ item[i].state = "idle" => item'[i].state = "disarmed"
        /\ i # Item(c) \/ item[i].state # "idle" => item'[i] = item[i]
  BY <1>3, <1>5
<1> QED BY <1>1, <1>6, <1>7, PcGoes DEF Disarm, MayDisarm, queueVars

LEMMA RemoveDoes ==
  ASSUME IInv, NEW c \in Threads, Remove(c)
  PROVE  RemoveEffect(c)
<1>0. Typed /\ call[c].timer \in Timers
  BY TimersAssumption DEF IInv, InCalls, QueueTyped, Remove, Goes, Returns
<1> USE <1>0 DEF RemoveEffect
<1> DEFINE t == call[c].timer
           r == timer[t]
<1>1. {"reset", "mark", "unmark", "out"} \subseteq Pcs /\ 0 \in 0 .. MaxSettings
  BY TimersAssumption DEF Pcs
<1>2. UNCHANGED <<plan, loop, expiring, item>>
  BY DEF Remove, queueVars
<1>3. CASE /\ call[c].kind = "set" /\ Goes(c, "remove", "reset")
           /\ timer' = [timer EXCEPT ![t].apc = 0] /\ UNCHANGED call
  <2>1. TimerBecomes(t, r.set, r.lock, r.signal, 0, r.header, r.inserted)
    BY <1>1, <1>3, PutApc
  <2> QED BY <1>1, <1>2, <1>3, <2>1, PcGoes
<1>4. CASE timer' = [timer EXCEPT ![t].apc = 0, ![t].lock = None]
  <2>1. TimerBecomes(t, r.set, None, r.signal, 0, r.header, r.inserted)
    BY <1>1, <1>4, PutApcUnlock
  <2>2. CASE /\ call[c].kind = "first" /\ Goes(c, "remove", "mark")
             /\ call' = [call EXCEPT ![c].kind = "set"]
    BY <1>1, <1>2, <2>1, <2>2, PutKind, PcGoes
  <2>3. CASE /\ call[c].kind = "cancel"
             /\ IF plan.calls = "Ke" THEN Goes(c, "remove", "unmark") /\ UNCHANGED call
                                     ELSE Returns(c, "remove")
    BY <1>1, <1>2, <2>1, <2>3, PcGoes, CallReturns
  <2>4. \/ /\ call[c].kind = "first" /\ Goes(c, "remove", "mark")
           /\ call' = [call EXCEPT ![c].kind = "set"]
        \/ /\ call[c].kind = "cancel"
           /\ IF plan.calls = "Ke" THEN Goes(c, "remove", "unmark") /\ UNCHANGED call
                                   ELSE Returns(c, "remove")
        \/ /\ call[c].kind = "set" /\ Goes(c, "remove", "reset")
           /\ timer' = [timer EXCEPT ![t].apc = 0] /\ UNCHANGED call
    BY DEF Remove
  <2> QED BY <1>3, <2>2, <2>3, <2>4
<1> QED BY <1>3, <1>4 DEF Remove

LEMMA ResetDoes ==
  ASSUME IInv, NEW c \in Threads, Reset(c)
  PROVE  ResetEffect(c)
<1>0. Typed /\ call[c].timer \in Timers
  BY TimersAssumption DEF IInv, InCalls, QueueTyped, Reset, Goes
<1> USE <1>0 DEF ResetEffect
<1>1. "arm" \in Pcs /\ 0 \in 0 .. MaxSettings
  BY TimersAssumption DEF Pcs
<1> QED BY <1>1, PutSignal, PcGoes DEF Reset, queueVars

LEMMA ArmDoes ==
  ASSUME IInv, NEW c \in Threads, Arm(c)
  PROVE  ArmEffect(c)
<1>0. Typed /\ call[c].timer \in Timers /\ now \in Nat
  BY TimersAssumption DEF IInv, InCalls, QueueTyped, Arm, Goes, Returns
<1> USE <1>0 DEF ArmEffect
<1> DEFINE t   == call[c].timer
           n   == timer[t].set + 1
           new == <<t, n>>
           r   == [state |-> "idle", interval |-> call[c].interval,
                   due |-> Latest(now - call[c].interval, call[c].due)]
<1>1. /\ Returns(c, "arm") /\ new \in Items /\ Len(ring) < RingSize
      /\ item' = [item EXCEPT ![new] = r] /\ ring' = Append(ring, new)
      /\ timer' = [timer EXCEPT ![t].set = n, ![t].lock = None]
      /\ UNCHANGED <<plan, loop, expiring, waiting, again, now>>
  BY DEF Arm
<1>2. n \in 0 .. MaxSettings
  BY <1>1, TimersAssumption DEF Items, Settings
<1>3. call[c].interval \in Nat /\ call[c].due \in Nat
  BY DEF Typed, CallRecord
<1>4. Latest(now - call[c].interval, call[c].due) \in Int
  BY <1>3 DEF Latest
<1>5. r \in ItemRecord /\ r.state = "idle" /\ r.interval = call[c].interval
  BY <1>3, <1>4 DEF ItemRecord, States
<1> HIDE DEF r, n
<1>6. ItemBecomes(new, "idle", call[c].interval)
  BY <1>1, <1>5, ItemPut
<1>7. TimerBecomes(t, n, None, timer[t].signal, timer[t].apc, timer[t].header,
                   timer[t].inserted)
  BY <1>1, <1>2, PutSetUnlock
<1> QED BY <1>1, <1>6, <1>7, CallReturns DEF n

LEMMA MarkDoes ==
  ASSUME IInv, NEW c \in Threads, Mark(c)
  PROVE  MarkEffect(c)
<1>0. Typed /\ call[c].timer \in Timers
  BY TimersAssumption DEF IInv, InCalls, QueueTyped, Mark, Goes
<1> USE <1>0 DEF MarkEffect
<1>1. "lock" \in Pcs /\ 0 \in 0 .. MaxSettings
  BY TimersAssumption DEF Pcs
<1> QED BY <1>1, PutInsertedHeader, PcGoes DEF Mark, queueVars

LEMMA UnmarkDoes ==
  ASSUME IInv, NEW c \in Threads, Unmark(c)
  PROVE  UnmarkEffect(c)
<1>0. Typed /\ call[c].timer \in Timers
  BY TimersAssumption DEF IInv, InCalls, QueueTyped, Unmark, Goes, Returns
<1> USE <1>0 DEF UnmarkEffect
<1> QED BY PutInserted, CallReturns DEF Unmark, queueVars


(* What a plan says.                                                         *)
LEMMA PlanIs ==
  ASSUME IInv
  PROVE  /\ plan.timers \subseteq Timers /\ plan.callers \subseteq Threads
         /\ plan.calls = "Ke" => /\ ~plan.disarms
                                 /\ \A c, d \in plan.callers : c = d
<1>1. plan \in Plans
  BY DEF IInv, QueueTyped
<1>2. plan.timers \subseteq Timers /\ plan.callers \subseteq Threads
  BY <1>1, TimersAssumption
<1>3. plan.calls = "Ke" => ~plan.disarms /\ \E c \in Threads : plan.callers \subseteq {c}
  BY <1>1, TimersAssumption
<1> QED BY <1>2, <1>3


(* What every step but Arm does to the items.                                *)
Keeps == /\ \A t \in Timers : timer'[t].set = timer[t].set
         /\ \A i \in Items : \/ item'[i].state = item[i].state
                             \/ /\ item[i].state \notin {"none", "disarmed"}
                                /\ item'[i].state # "none"
                                /\ item'[i].state \in {"idle", "inCallback"}
                                     => item[i].state \in {"idle", "inCallback"}


(* The records keep to their fields.                                         *)
LEMMA RecordsTyped ==
  ASSUME IInv, Next
  PROVE  Typed'
<1>0. Typed /\ MaxSettings \in Nat /\ None \notin Threads
  BY TimersAssumption DEF IInv
<1>1. ASSUME Consume PROVE Typed'
  BY <1>0, <1>1 DEF Consume, Typed
<1>2. ASSUME PopFront PROVE Typed'
  BY <1>0, <1>2 DEF PopFront, Fronts, Typed
<1>3. ASSUME NoneDue PROVE Typed'
  BY <1>0, <1>3 DEF NoneDue, Typed
<1>4. ASSUME Claim PROVE Typed'
  <2>1. ClaimEffect
    BY <1>4, ClaimDoes
  <2> QED BY <1>0, <2>1 DEF ClaimEffect, ItemBecomes, Typed
<1>5. ASSUME SetSignal PROVE Typed'
  <2>1. SetSignalEffect
    BY <1>5, SetSignalDoes
  <2> QED BY <1>0, <2>1 DEF SetSignalEffect, TimerBecomes, Typed
<1>6. ASSUME SetHeader PROVE Typed'
  <2>1. SetHeaderEffect
    BY <1>6, SetHeaderDoes
  <2> QED BY <1>0, <2>1 DEF SetHeaderEffect, TimerBecomes, Typed
<1>7. ASSUME InsertApc PROVE Typed'
  <2>1. InsertApcEffect
    BY <1>7, InsertApcDoes
  <2> QED BY <1>0, <2>1 DEF InsertApcEffect, TimerBecomes, Typed
<1>8. ASSUME Finish PROVE Typed'
  <2>1. FinishEffect
    BY <1>8, FinishDoes
  <2> QED BY <1>0, <2>1 DEF FinishEffect, ItemBecomes, Typed
<1>9. ASSUME SelfDisarm PROVE Typed'
  <2>1. SelfDisarmEffect
    BY <1>9, SelfDisarmDoes
  <2> QED BY <1>0, <2>1 DEF SelfDisarmEffect, ItemBecomes, Typed
<1>10. ASSUME Tick PROVE Typed'
  BY <1>0, <1>10 DEF Tick, queueVars, Typed
<1>11. ASSUME NEW t \in Timers, DeliverApc(t) PROVE Typed'
  <2>1. DeliverApcEffect(t)
    BY <1>11, DeliverApcDoes
  <2> QED BY <1>0, <2>1 DEF DeliverApcEffect, TimerBecomes, Typed
<1>12. ASSUME NEW t \in Timers, NEW c \in Threads, c \in plan.callers, SetTimer(c, t)
       PROVE Typed'
  <2>1. SetTimerEffect(c, t)
    BY <1>12, SetTimerDoes
  <2> QED BY <1>0, <2>1 DEF SetTimerEffect, CallBecomes, PcBecomes, Typed
<1>13. ASSUME NEW t \in Timers, NEW c \in Threads, c \in plan.callers, CancelTimer(c, t)
       PROVE Typed'
  <2>1. CancelTimerEffect(c, t)
    BY <1>13, CancelTimerDoes
  <2> QED BY <1>0, <2>1 DEF CancelTimerEffect, CallBecomes, PcBecomes, Typed
<1>14. ASSUME NEW c \in Threads, TestInserted(c) PROVE Typed'
  <2>1. TestInsertedEffect(c)
    BY <1>14, TestInsertedDoes
  <2> QED BY <1>0, <2>1 DEF TestInsertedEffect, PcBecomes, Typed
<1>15. ASSUME NEW c \in Threads, Lock(c) PROVE Typed'
  <2>1. LockEffect(c)
    BY <1>15, LockDoes
  <2> QED BY <1>0, <2>1 DEF LockEffect, TimerBecomes, CallBecomes, PcBecomes, Typed
<1>16. ASSUME NEW c \in Threads, Disarm(c) PROVE Typed'
  <2>1. DisarmEffect(c)
    BY <1>16, DisarmDoes
  <2> QED BY <1>0, <2>1 DEF DisarmEffect, PcBecomes, Typed
<1>17. ASSUME NEW c \in Threads, Remove(c) PROVE Typed'
  <2>1. RemoveEffect(c)
    BY <1>17, RemoveDoes
  <2> QED BY <1>0, <2>1 DEF RemoveEffect, TimerBecomes, CallBecomes, PcBecomes, Typed
<1>18. ASSUME NEW c \in Threads, Reset(c) PROVE Typed'
  <2>1. ResetEffect(c)
    BY <1>18, ResetDoes
  <2> QED BY <1>0, <2>1 DEF ResetEffect, TimerBecomes, PcBecomes, Typed
<1>19. ASSUME NEW c \in Threads, Arm(c) PROVE Typed'
  <2>1. ArmEffect(c)
    BY <1>19, ArmDoes
  <2> QED BY <1>0, <2>1 DEF ArmEffect, ItemBecomes, TimerBecomes, CallBecomes, PcBecomes,
    Typed
<1>20. ASSUME NEW c \in Threads, Mark(c) PROVE Typed'
  <2>1. MarkEffect(c)
    BY <1>20, MarkDoes
  <2> QED BY <1>0, <2>1 DEF MarkEffect, TimerBecomes, PcBecomes, Typed
<1>21. ASSUME NEW c \in Threads, Unmark(c) PROVE Typed'
  <2>1. UnmarkEffect(c)
    BY <1>21, UnmarkDoes
  <2> QED BY <1>0, <2>1 DEF UnmarkEffect, TimerBecomes, CallBecomes, PcBecomes, Typed
<1> QED
  BY <1>1, <1>2, <1>3, <1>4, <1>5, <1>6, <1>7, <1>8, <1>9, <1>10, <1>11, <1>12, <1>13,
     <1>14, <1>15, <1>16, <1>17, <1>18, <1>19, <1>20, <1>21, PlanIs
  DEF Next, QueueActs, CallActs

(* The queue keeps to its items.                                             *)
LEMMA QueueIsTyped ==
  ASSUME IInv, Next
  PROVE  QueueTyped'
<1>0. QueueTyped /\ InOneCallback /\ MaxClock \in Nat /\ RingSize \in Nat
      /\ MaxSettings \in Nat /\ None \notin Threads
  BY TimersAssumption DEF IInv
<1>1. ASSUME Consume PROVE QueueTyped'
  <2>1. QueueTyped /\ ring' = <<>> /\ waiting' = waiting \cup Published /\ loop' = "expire"
        /\ UNCHANGED <<plan, now, again, expiring>>
    BY <1>0, <1>1 DEF Consume
  <2>2. \A i \in DOMAIN ring : ring[i] \in Items
    BY <1>0 DEF QueueTyped
  <2>3. Published \subseteq Items
    BY <2>2 DEF Published
  <2>4. <<>> \in Seq(Items) /\ Len(<<>>) = 0
    OBVIOUS
  <2> QED BY <1>0, <2>1, <2>3, <2>4 DEF QueueTyped
<1>2. ASSUME PopFront PROVE QueueTyped'
  BY <1>0, <1>2 DEF PopFront, Fronts, QueueTyped
<1>3. ASSUME NoneDue PROVE QueueTyped'
  BY <1>0, <1>3 DEF NoneDue, QueueTyped
<1>4. ASSUME Claim PROVE QueueTyped'
  <2>1. ClaimEffect
    BY <1>4, ClaimDoes
  <2> QED BY <1>0, <2>1, <1>4 DEF ClaimEffect, ItemBecomes, QueueTyped, Callback, Claim,
    queueVars
<1>5. ASSUME SetSignal PROVE QueueTyped'
  <2>1. SetSignalEffect
    BY <1>5, SetSignalDoes
  <2> QED BY <1>0, <2>1, <1>5 DEF SetSignalEffect, TimerBecomes, QueueTyped, Callback,
    SetSignal, queueVars
<1>6. ASSUME SetHeader PROVE QueueTyped'
  <2>1. SetHeaderEffect
    BY <1>6, SetHeaderDoes
  <2> QED BY <1>0, <2>1, <1>6 DEF SetHeaderEffect, TimerBecomes, QueueTyped, Callback,
    SetHeader, queueVars
<1>7. ASSUME InsertApc PROVE QueueTyped'
  <2>1. InsertApcEffect
    BY <1>7, InsertApcDoes
  <2> QED BY <1>0, <2>1, <1>7 DEF InsertApcEffect, TimerBecomes, QueueTyped, Callback,
    InsertApc, queueVars
<1>8. ASSUME Finish PROVE QueueTyped'
  <2>1. FinishEffect
    BY <1>8, FinishDoes
  <2> QED BY <1>0, <2>1, <1>8 DEF FinishEffect, ItemBecomes, QueueTyped, InOneCallback,
    Finish, queueVars
<1>9. ASSUME SelfDisarm PROVE QueueTyped'
  <2>1. SelfDisarmEffect
    BY <1>9, SelfDisarmDoes
  <2> QED BY <1>0, <2>1, <1>9 DEF SelfDisarmEffect, ItemBecomes, QueueTyped, SelfDisarm,
    queueVars
<1>10. ASSUME Tick PROVE QueueTyped'
  <2>1. now' \in 0 .. MaxClock
    BY <1>0, <1>10 DEF Tick, QueueTyped
  <2> QED BY <1>0, <1>10, <2>1 DEF Tick, QueueTyped, queueVars
<1>11. ASSUME NEW t \in Timers, DeliverApc(t) PROVE QueueTyped'
  <2>1. DeliverApcEffect(t)
    BY <1>11, DeliverApcDoes
  <2> QED BY <1>0, <2>1, <1>11 DEF DeliverApcEffect, TimerBecomes, QueueTyped, DeliverApc,
    queueVars
<1>12. ASSUME NEW t \in Timers, NEW c \in Threads, c \in plan.callers, SetTimer(c, t)
       PROVE QueueTyped'
  <2>1. SetTimerEffect(c, t)
    BY <1>12, SetTimerDoes
  <2> QED BY <1>0, <2>1, <1>12 DEF SetTimerEffect, CallBecomes, PcBecomes, QueueTyped,
    SetTimer, queueVars
<1>13. ASSUME NEW t \in Timers, NEW c \in Threads, c \in plan.callers, CancelTimer(c, t)
       PROVE QueueTyped'
  <2>1. CancelTimerEffect(c, t)
    BY <1>13, CancelTimerDoes
  <2> QED BY <1>0, <2>1, <1>13 DEF CancelTimerEffect, CallBecomes, PcBecomes, QueueTyped,
    CancelTimer, queueVars
<1>14. ASSUME NEW c \in Threads, TestInserted(c) PROVE QueueTyped'
  <2>1. TestInsertedEffect(c)
    BY <1>14, TestInsertedDoes
  <2> QED BY <1>0, <2>1, <1>14 DEF TestInsertedEffect, PcBecomes, QueueTyped,
    TestInserted, queueVars
<1>15. ASSUME NEW c \in Threads, Lock(c) PROVE QueueTyped'
  <2>1. LockEffect(c)
    BY <1>15, LockDoes
  <2> QED BY <1>0, <2>1, <1>15 DEF LockEffect, TimerBecomes, CallBecomes, PcBecomes,
    QueueTyped, Lock, queueVars
<1>16. ASSUME NEW c \in Threads, Disarm(c) PROVE QueueTyped'
  <2>1. DisarmEffect(c)
    BY <1>16, DisarmDoes
  <2> QED BY <1>0, <2>1, <1>16 DEF DisarmEffect, PcBecomes, QueueTyped, Disarm, queueVars
<1>17. ASSUME NEW c \in Threads, Remove(c) PROVE QueueTyped'
  <2>1. RemoveEffect(c)
    BY <1>17, RemoveDoes
  <2> QED BY <1>0, <2>1, <1>17 DEF RemoveEffect, TimerBecomes, CallBecomes, PcBecomes,
    QueueTyped, Remove, queueVars
<1>18. ASSUME NEW c \in Threads, Reset(c) PROVE QueueTyped'
  <2>1. ResetEffect(c)
    BY <1>18, ResetDoes
  <2> QED BY <1>0, <2>1, <1>18 DEF ResetEffect, TimerBecomes, PcBecomes, QueueTyped,
    Reset, queueVars
<1>19. ASSUME NEW c \in Threads, Arm(c) PROVE QueueTyped'
  <2>1. ArmEffect(c)
    BY <1>19, ArmDoes
  <2> DEFINE new == <<call[c].timer, timer[call[c].timer].set + 1>>
  <2>2. /\ new \in Items /\ Len(ring) < RingSize /\ ring' = Append(ring, new)
        /\ UNCHANGED <<plan, loop, expiring, waiting, again, now>>
    BY <2>1 DEF ArmEffect
  <2> HIDE DEF new
  <2>3. ring' \in Seq(Items) /\ Len(ring') = Len(ring) + 1 /\ Len(ring) \in Nat
    BY <1>0, <2>2 DEF QueueTyped
  <2>4. Len(ring') <= RingSize
    BY <1>0, <2>2, <2>3
  <2> QED BY <1>0, <2>2, <2>3, <2>4 DEF QueueTyped
<1>20. ASSUME NEW c \in Threads, Mark(c) PROVE QueueTyped'
  <2>1. MarkEffect(c)
    BY <1>20, MarkDoes
  <2> QED BY <1>0, <2>1, <1>20 DEF MarkEffect, TimerBecomes, PcBecomes, QueueTyped, Mark,
    queueVars
<1>21. ASSUME NEW c \in Threads, Unmark(c) PROVE QueueTyped'
  <2>1. UnmarkEffect(c)
    BY <1>21, UnmarkDoes
  <2> QED BY <1>0, <2>1, <1>21 DEF UnmarkEffect, TimerBecomes, CallBecomes, PcBecomes,
    QueueTyped, Unmark, queueVars
<1> QED
  BY <1>1, <1>2, <1>3, <1>4, <1>5, <1>6, <1>7, <1>8, <1>9, <1>10, <1>11, <1>12, <1>13,
     <1>14, <1>15, <1>16, <1>17, <1>18, <1>19, <1>20, <1>21, PlanIs
  DEF Next, QueueActs, CallActs

(* The queue leaves one callback before it enters the next.                  *)
LEMMA OneCallback ==
  ASSUME IInv, Next
  PROVE  InOneCallback'
<1>0. Typed /\ QueueTyped /\ InOneCallback /\ SetInOrder /\ MaxSettings \in Nat
      /\ None \notin Threads
  BY TimersAssumption DEF IInv
<1>1. ASSUME Consume PROVE InOneCallback'
  BY <1>0, <1>1 DEF Consume, InOneCallback, Callback
<1>2. ASSUME PopFront PROVE InOneCallback'
  BY <1>0, <1>2 DEF PopFront, Fronts, QueueTyped, InOneCallback, Callback
<1>3. ASSUME NoneDue PROVE InOneCallback'
  BY <1>0, <1>3 DEF NoneDue, InOneCallback, Callback
<1>4. ASSUME Claim PROVE InOneCallback'
  <2>1. ClaimEffect
    BY <1>4, ClaimDoes
  <2> QED BY <1>0, <2>1 DEF ClaimEffect, ItemBecomes, InOneCallback, Callback
<1>5. ASSUME SetSignal PROVE InOneCallback'
  <2>1. SetSignalEffect
    BY <1>5, SetSignalDoes
  <2> QED BY <1>0, <2>1 DEF SetSignalEffect, TimerBecomes, InOneCallback, Callback
<1>6. ASSUME SetHeader PROVE InOneCallback'
  <2>1. SetHeaderEffect
    BY <1>6, SetHeaderDoes
  <2> QED BY <1>0, <2>1 DEF SetHeaderEffect, TimerBecomes, InOneCallback, Callback
<1>7. ASSUME InsertApc PROVE InOneCallback'
  <2>1. InsertApcEffect
    BY <1>7, InsertApcDoes
  <2> QED BY <1>0, <2>1 DEF InsertApcEffect, TimerBecomes, InOneCallback, Callback
<1>8. ASSUME Finish PROVE InOneCallback'
  <2>1. FinishEffect
    BY <1>8, FinishDoes
  <2> QED BY <1>0, <2>1 DEF FinishEffect, ItemBecomes, InOneCallback, Callback
<1>9. ASSUME SelfDisarm PROVE InOneCallback'
  <2>1. SelfDisarmEffect
    BY <1>9, SelfDisarmDoes
  <2> QED BY <1>0, <2>1 DEF SelfDisarmEffect, ItemBecomes, InOneCallback
<1>10. ASSUME Tick PROVE InOneCallback'
  BY <1>0, <1>10 DEF Tick, queueVars, InOneCallback
<1>11. ASSUME NEW t \in Timers, DeliverApc(t) PROVE InOneCallback'
  <2>1. DeliverApcEffect(t)
    BY <1>11, DeliverApcDoes
  <2> QED BY <1>0, <2>1 DEF DeliverApcEffect, TimerBecomes, InOneCallback
<1>12. ASSUME NEW t \in Timers, NEW c \in Threads, c \in plan.callers, SetTimer(c, t)
       PROVE InOneCallback'
  <2>1. SetTimerEffect(c, t)
    BY <1>12, SetTimerDoes
  <2> QED BY <1>0, <2>1 DEF SetTimerEffect, CallBecomes, PcBecomes, InOneCallback
<1>13. ASSUME NEW t \in Timers, NEW c \in Threads, c \in plan.callers, CancelTimer(c, t)
       PROVE InOneCallback'
  <2>1. CancelTimerEffect(c, t)
    BY <1>13, CancelTimerDoes
  <2> QED BY <1>0, <2>1 DEF CancelTimerEffect, CallBecomes, PcBecomes, InOneCallback
<1>14. ASSUME NEW c \in Threads, TestInserted(c) PROVE InOneCallback'
  <2>1. TestInsertedEffect(c)
    BY <1>14, TestInsertedDoes
  <2> QED BY <1>0, <2>1 DEF TestInsertedEffect, PcBecomes, InOneCallback
<1>15. ASSUME NEW c \in Threads, Lock(c) PROVE InOneCallback'
  <2>1. LockEffect(c)
    BY <1>15, LockDoes
  <2> QED BY <1>0, <2>1 DEF LockEffect, TimerBecomes, CallBecomes, PcBecomes,
    InOneCallback
<1>16. ASSUME NEW c \in Threads, Disarm(c) PROVE InOneCallback'
  <2>1. DisarmEffect(c)
    BY <1>16, DisarmDoes
  <2> QED BY <1>0, <2>1 DEF DisarmEffect, PcBecomes, InOneCallback, Callback
<1>17. ASSUME NEW c \in Threads, Remove(c) PROVE InOneCallback'
  <2>1. RemoveEffect(c)
    BY <1>17, RemoveDoes
  <2> QED BY <1>0, <2>1 DEF RemoveEffect, TimerBecomes, CallBecomes, PcBecomes,
    InOneCallback
<1>18. ASSUME NEW c \in Threads, Reset(c) PROVE InOneCallback'
  <2>1. ResetEffect(c)
    BY <1>18, ResetDoes
  <2> QED BY <1>0, <2>1 DEF ResetEffect, TimerBecomes, PcBecomes, InOneCallback
<1>19. ASSUME NEW c \in Threads, Arm(c) PROVE InOneCallback'
  <2> DEFINE new == <<call[c].timer, timer[call[c].timer].set + 1>>
  <2>1. ArmEffect(c)
    BY <1>19, ArmDoes
  <2>2. item[new].state = "none"
    <3>1. call[c].timer \in Timers /\ timer[call[c].timer].set \in Nat /\ new \in Items
      BY <1>0, <2>1 DEF ArmEffect, Typed, TimerRecord
    <3> QED BY <1>0, <3>1 DEF SetInOrder, Items, Settings
  <2> HIDE DEF new
  <2>3. /\ new \in Items /\ item'[new].state = "idle"
        /\ \A i \in Items : i # new => item'[i] = item[i]
        /\ UNCHANGED <<loop, expiring>>
    BY <2>1 DEF ArmEffect, ItemBecomes, new
  <2> QED BY <1>0, <2>2, <2>3 DEF InOneCallback, Callback
<1>20. ASSUME NEW c \in Threads, Mark(c) PROVE InOneCallback'
  <2>1. MarkEffect(c)
    BY <1>20, MarkDoes
  <2> QED BY <1>0, <2>1 DEF MarkEffect, TimerBecomes, PcBecomes, InOneCallback
<1>21. ASSUME NEW c \in Threads, Unmark(c) PROVE InOneCallback'
  <2>1. UnmarkEffect(c)
    BY <1>21, UnmarkDoes
  <2> QED BY <1>0, <2>1 DEF UnmarkEffect, TimerBecomes, CallBecomes, PcBecomes,
    InOneCallback
<1> QED
  BY <1>1, <1>2, <1>3, <1>4, <1>5, <1>6, <1>7, <1>8, <1>9, <1>10, <1>11, <1>12, <1>13,
     <1>14, <1>15, <1>16, <1>17, <1>18, <1>19, <1>20, <1>21, PlanIs
  DEF Next, QueueActs, CallActs

(* A call keeps its timer, and its lock past the point where it has it.      *)
LEMMA CallsGoOn ==
  ASSUME IInv, Next
  PROVE  InCalls'
<1>0. Typed /\ InCalls /\ MaxSettings \in Nat /\ None \notin Threads
  BY TimersAssumption DEF IInv
<1>1. ASSUME Consume PROVE InCalls'
  BY <1>0, <1>1 DEF Consume, InCalls
<1>2. ASSUME PopFront PROVE InCalls'
  BY <1>0, <1>2 DEF PopFront, Fronts, InCalls
<1>3. ASSUME NoneDue PROVE InCalls'
  BY <1>0, <1>3 DEF NoneDue, InCalls
<1>4. ASSUME Claim PROVE InCalls'
  <2>1. ClaimEffect
    BY <1>4, ClaimDoes
  <2> QED BY <1>0, <2>1 DEF ClaimEffect, ItemBecomes, InCalls
<1>5. ASSUME SetSignal PROVE InCalls'
  <2>1. SetSignalEffect
    BY <1>5, SetSignalDoes
  <2> QED BY <1>0, <2>1 DEF SetSignalEffect, TimerBecomes, InCalls
<1>6. ASSUME SetHeader PROVE InCalls'
  <2>1. SetHeaderEffect
    BY <1>6, SetHeaderDoes
  <2> QED BY <1>0, <2>1 DEF SetHeaderEffect, TimerBecomes, InCalls
<1>7. ASSUME InsertApc PROVE InCalls'
  <2>1. InsertApcEffect
    BY <1>7, InsertApcDoes
  <2> QED BY <1>0, <2>1 DEF InsertApcEffect, TimerBecomes, InCalls
<1>8. ASSUME Finish PROVE InCalls'
  <2>1. FinishEffect
    BY <1>8, FinishDoes
  <2> QED BY <1>0, <2>1 DEF FinishEffect, ItemBecomes, InCalls
<1>9. ASSUME SelfDisarm PROVE InCalls'
  <2>1. SelfDisarmEffect
    BY <1>9, SelfDisarmDoes
  <2> QED BY <1>0, <2>1 DEF SelfDisarmEffect, ItemBecomes, InCalls
<1>10. ASSUME Tick PROVE InCalls'
  BY <1>0, <1>10 DEF Tick, queueVars, InCalls
<1>11. ASSUME NEW t \in Timers, DeliverApc(t) PROVE InCalls'
  <2>1. DeliverApcEffect(t)
    BY <1>11, DeliverApcDoes
  <2> QED BY <1>0, <2>1 DEF DeliverApcEffect, TimerBecomes, InCalls
<1>12. ASSUME NEW t \in Timers, NEW c \in Threads, c \in plan.callers, SetTimer(c, t)
       PROVE InCalls'
  <2>1. SetTimerEffect(c, t)
    BY <1>12, SetTimerDoes
  <2>2. CASE plan.calls = "Ke"
    BY <1>0, <1>12, <2>1, <2>2 DEF SetTimerEffect, CallBecomes, PcBecomes, InCalls, Past
  <2>3. CASE plan.calls # "Ke"
    BY <1>0, <1>12, <2>1, <2>3 DEF SetTimerEffect, CallBecomes, PcBecomes, InCalls, Past
  <2> QED BY <2>2, <2>3
<1>13. ASSUME NEW t \in Timers, NEW c \in Threads, c \in plan.callers, CancelTimer(c, t)
       PROVE InCalls'
  <2>1. CancelTimerEffect(c, t)
    BY <1>13, CancelTimerDoes
  <2>2. CASE plan.calls = "Ke"
    BY <1>0, <1>13, <2>1, <2>2 DEF CancelTimerEffect, CallBecomes, PcBecomes, InCalls,
       Past
  <2>3. CASE plan.calls # "Ke"
    BY <1>0, <1>13, <2>1, <2>3 DEF CancelTimerEffect, CallBecomes, PcBecomes, InCalls,
       Past
  <2> QED BY <2>2, <2>3
<1>14. ASSUME NEW c \in Threads, TestInserted(c) PROVE InCalls'
  <2>1. TestInsertedEffect(c)
    BY <1>14, TestInsertedDoes
  <2> QED BY <1>0, <2>1 DEF TestInsertedEffect, PcBecomes, InCalls, Past
<1>15. ASSUME NEW c \in Threads, Lock(c) PROVE InCalls'
  <2> DEFINE t == call[c].timer
  <2>1. LockEffect(c)
    BY <1>15, LockDoes
  <2>2. /\ t \in Timers /\ timer[t].lock = None /\ timer'[t].lock = c
        /\ \A u \in Timers : u # t => timer'[u] = timer[u]
        /\ \A d \in Threads : d # c => call'[d] = call[d] /\ pc'[d] = pc[d]
        /\ pc'[c] = "disarm" /\ call'[c].timer = t /\ pc[c] \in {"cancelFirst", "lock"}
        /\ \/ call'[c].kind = "first" /\ pc[c] = "cancelFirst"
           \/ call'[c].kind = call[c].kind /\ call[c].kind \in {"set", "cancel"}
        /\ plan' = plan
    BY <2>1 DEF LockEffect, TimerBecomes, CallBecomes, PcBecomes
  <2> HIDE DEF t
  <2>3. c \in plan.callers /\ (pc[c] = "cancelFirst" => plan.calls = "Ke")
    BY <1>0, <2>2 DEF InCalls
  <2>4. ASSUME NEW d \in Threads, pc[d] \in {"disarm"} \cup Past
        PROVE  call[d].timer # t
    BY <1>0, <2>2, <2>4 DEF InCalls, Past
  <2>5. ASSUME NEW d \in Threads, d # c, pc[d] # "out", pc[d] \in {"disarm"} \cup Past
        PROVE  timer'[call[d].timer].lock = d
    BY <1>0, <2>2, <2>4, <2>5 DEF InCalls
  <2> QED BY <1>0, <2>2, <2>3, <2>5 DEF InCalls, Past
<1>16. ASSUME NEW c \in Threads, Disarm(c) PROVE InCalls'
  <2>1. DisarmEffect(c)
    BY <1>16, DisarmDoes
  <2> QED BY <1>0, <2>1 DEF DisarmEffect, PcBecomes, InCalls
<1>17. ASSUME NEW c \in Threads, Remove(c) PROVE InCalls'
  <2>1. RemoveEffect(c)
    BY <1>17, RemoveDoes
  <2> QED BY <1>0, <2>1 DEF RemoveEffect, TimerBecomes, CallBecomes, PcBecomes, InCalls,
    Past
<1>18. ASSUME NEW c \in Threads, Reset(c) PROVE InCalls'
  <2>1. ResetEffect(c)
    BY <1>18, ResetDoes
  <2> QED BY <1>0, <2>1 DEF ResetEffect, TimerBecomes, PcBecomes, InCalls, Past
<1>19. ASSUME NEW c \in Threads, Arm(c) PROVE InCalls'
  <2>1. ArmEffect(c)
    BY <1>19, ArmDoes
  <2> QED BY <1>0, <2>1, SMTT(30) DEF ArmEffect, ItemBecomes, TimerBecomes, CallBecomes, PcBecomes,
    InCalls, Past
<1>20. ASSUME NEW c \in Threads, Mark(c) PROVE InCalls'
  <2>1. MarkEffect(c)
    BY <1>20, MarkDoes
  <2> QED BY <1>0, <2>1 DEF MarkEffect, TimerBecomes, PcBecomes, InCalls, Past
<1>21. ASSUME NEW c \in Threads, Unmark(c) PROVE InCalls'
  <2>1. UnmarkEffect(c)
    BY <1>21, UnmarkDoes
  <2> QED BY <1>0, <2>1 DEF UnmarkEffect, TimerBecomes, CallBecomes, PcBecomes, InCalls
<1> QED
  BY <1>1, <1>2, <1>3, <1>4, <1>5, <1>6, <1>7, <1>8, <1>9, <1>10, <1>11, <1>12, <1>13,
     <1>14, <1>15, <1>16, <1>17, <1>18, <1>19, <1>20, <1>21, PlanIs
  DEF Next, QueueActs, CallActs

(* Of the items that are set, all steps but Arm change the latest only.      *)
LEMMA ItemsAreKept ==
  ASSUME IInv, Next
  PROVE  Keeps \/ \E c \in Threads : Arm(c)
<1>0. Typed /\ QueueTyped /\ InOneCallback /\ MaxSettings \in Nat /\ None \notin Threads
  BY TimersAssumption DEF IInv
<1>1. ASSUME Consume PROVE Keeps
  BY <1>0, <1>1 DEF Consume, Keeps
<1>2. ASSUME PopFront PROVE Keeps
  BY <1>0, <1>2 DEF PopFront, Fronts, Keeps
<1>3. ASSUME NoneDue PROVE Keeps
  BY <1>0, <1>3 DEF NoneDue, Keeps
<1>4. ASSUME Claim PROVE Keeps
  <2>1. ClaimEffect
    BY <1>4, ClaimDoes
  <2> QED BY <1>0, <2>1 DEF ClaimEffect, ItemBecomes, Keeps
<1>5. ASSUME SetSignal PROVE Keeps
  <2>1. SetSignalEffect
    BY <1>5, SetSignalDoes
  <2> QED BY <1>0, <2>1 DEF SetSignalEffect, TimerBecomes, Keeps
<1>6. ASSUME SetHeader PROVE Keeps
  <2>1. SetHeaderEffect
    BY <1>6, SetHeaderDoes
  <2> QED BY <1>0, <2>1 DEF SetHeaderEffect, TimerBecomes, Keeps
<1>7. ASSUME InsertApc PROVE Keeps
  <2>1. InsertApcEffect
    BY <1>7, InsertApcDoes
  <2> QED BY <1>0, <2>1 DEF InsertApcEffect, TimerBecomes, Keeps
<1>8. ASSUME Finish PROVE Keeps
  <2>1. FinishEffect
    BY <1>8, FinishDoes
  <2> QED BY <1>0, <2>1 DEF FinishEffect, ItemBecomes, Keeps, InOneCallback, Recurs
<1>9. ASSUME SelfDisarm PROVE Keeps
  <2>1. SelfDisarmEffect
    BY <1>9, SelfDisarmDoes
  <2> QED BY <1>0, <2>1 DEF SelfDisarmEffect, ItemBecomes, Keeps, InOneCallback
<1>10. ASSUME Tick PROVE Keeps
  BY <1>0, <1>10 DEF Tick, queueVars, Keeps
<1>11. ASSUME NEW t \in Timers, DeliverApc(t) PROVE Keeps
  <2>1. DeliverApcEffect(t)
    BY <1>11, DeliverApcDoes
  <2> QED BY <1>0, <2>1 DEF DeliverApcEffect, TimerBecomes, Keeps
<1>12. ASSUME NEW t \in Timers, NEW c \in Threads, c \in plan.callers, SetTimer(c, t)
       PROVE Keeps
  <2>1. SetTimerEffect(c, t)
    BY <1>12, SetTimerDoes
  <2> QED BY <1>0, <2>1 DEF SetTimerEffect, CallBecomes, PcBecomes, Keeps
<1>13. ASSUME NEW t \in Timers, NEW c \in Threads, c \in plan.callers, CancelTimer(c, t)
       PROVE Keeps
  <2>1. CancelTimerEffect(c, t)
    BY <1>13, CancelTimerDoes
  <2> QED BY <1>0, <2>1 DEF CancelTimerEffect, CallBecomes, PcBecomes, Keeps
<1>14. ASSUME NEW c \in Threads, TestInserted(c) PROVE Keeps
  <2>1. TestInsertedEffect(c)
    BY <1>14, TestInsertedDoes
  <2> QED BY <1>0, <2>1 DEF TestInsertedEffect, PcBecomes, Keeps
<1>15. ASSUME NEW c \in Threads, Lock(c) PROVE Keeps
  <2>1. LockEffect(c)
    BY <1>15, LockDoes
  <2> QED BY <1>0, <2>1 DEF LockEffect, TimerBecomes, CallBecomes, PcBecomes, Keeps
<1>16. ASSUME NEW c \in Threads, Disarm(c) PROVE Keeps
  <2>1. DisarmEffect(c)
    BY <1>16, DisarmDoes
  <2> QED BY <1>0, <2>1 DEF DisarmEffect, PcBecomes, Keeps
<1>17. ASSUME NEW c \in Threads, Remove(c) PROVE Keeps
  <2>1. RemoveEffect(c)
    BY <1>17, RemoveDoes
  <2> QED BY <1>0, <2>1 DEF RemoveEffect, TimerBecomes, CallBecomes, PcBecomes, Keeps
<1>18. ASSUME NEW c \in Threads, Reset(c) PROVE Keeps
  <2>1. ResetEffect(c)
    BY <1>18, ResetDoes
  <2> QED BY <1>0, <2>1 DEF ResetEffect, TimerBecomes, PcBecomes, Keeps
<1>19. ASSUME NEW c \in Threads, Mark(c) PROVE Keeps
  <2>1. MarkEffect(c)
    BY <1>19, MarkDoes
  <2> QED BY <1>0, <2>1 DEF MarkEffect, TimerBecomes, PcBecomes, Keeps
<1>20. ASSUME NEW c \in Threads, Unmark(c) PROVE Keeps
  <2>1. UnmarkEffect(c)
    BY <1>20, UnmarkDoes
  <2> QED BY <1>0, <2>1 DEF UnmarkEffect, TimerBecomes, CallBecomes, PcBecomes, Keeps
<1> QED
  BY <1>1, <1>2, <1>3, <1>4, <1>5, <1>6, <1>7, <1>8, <1>9, <1>10, <1>11, <1>12, <1>13,
     <1>14, <1>15, <1>16, <1>17, <1>18, <1>19, <1>20, PlanIs
  DEF Next, QueueActs, CallActs


(* A callback is of the latest setting, and no thread is past the Disarm of  *)
(* its timer.                                                                *)
LEMMA CallbackAlone ==
  ASSUME IInv, loop \in Callback
  PROVE  /\ InItem /\ Setting = timer[Of].set /\ ~Disarmed(Of)
         /\ \A d \in Threads : pc[d] \in Past => call[d].timer # Of
<1>1. InOneCallback /\ SetInOrder /\ PastDisarm /\ InItem
  BY ExpiringIs DEF IInv, InOneCallback
<1>2. item[<<Of, Setting>>].state \in {"inCallback", "inCallbackSelfDisarmed"}
  BY <1>1 DEF InOneCallback, Callback, InItem
<1>3. timer[Of].set \in Int /\ Setting \in Int
  BY <1>1, TimersAssumption DEF IInv, Typed, TimerRecord, InItem, Settings
<1>4. Setting = timer[Of].set
  BY <1>1, <1>2, <1>3 DEF SetInOrder, InItem
<1>5. ~Disarmed(Of)
  BY <1>1, <1>2, <1>4 DEF Disarmed, Items, InItem
<1> QED BY <1>1, <1>4, <1>5 DEF PastDisarm

(* The thread of a KTIMER is alone.                                          *)
LEMMA KeAlone ==
  ASSUME IInv, plan.calls = "Ke", NEW c \in Threads, c \in plan.callers
  PROVE  \A d \in Threads : d # c => pc[d] = "out"
BY PlanIs DEF IInv, InCalls

(* A thread in a call is a caller of the plan.                              *)
LEMMA CallerIs ==
  ASSUME IInv, NEW c \in Threads, pc[c] # "out"
  PROVE  c \in plan.callers
BY DEF IInv, InCalls

(* What is disarmed stays so.                                                *)
LEMMA DisarmedStays ==
  ASSUME Keeps, NEW t \in Timers
  PROVE  /\ Disarmed(t) => Disarmed(t)'
         /\ ~Armed(t) => ~Armed(t)'
BY DEF Keeps, Disarmed, Armed

(* Only the latest item of a timer changes, until there is another.          *)
LEMMA OrderedSettings ==
  ASSUME IInv, Next
  PROVE  SetInOrder'
<1>1. Typed /\ SetInOrder /\ PastDisarm /\ MaxSettings \in Nat
  BY TimersAssumption DEF IInv
<1>2. CASE Keeps
  <2> SUFFICES ASSUME NEW t \in Timers, NEW n \in Settings
               PROVE  /\ n > timer'[t].set => item'[<<t, n>>].state = "none"
                      /\ n < timer'[t].set => item'[<<t, n>>].state = "disarmed"
                      /\ n = timer'[t].set => item'[<<t, n>>].state # "none"
    BY DEF SetInOrder
  <2> DEFINE i == <<t, n>>
  <2>1. i \in Items
    BY DEF Items
  <2>2. timer'[t].set = timer[t].set
    BY <1>2 DEF Keeps
  <2>3. \/ item'[i].state = item[i].state
        \/ item[i].state \notin {"none", "disarmed"} /\ item'[i].state # "none"
    BY <1>2, <2>1 DEF Keeps
  <2>4. /\ n > timer[t].set => item[i].state = "none"
        /\ n < timer[t].set => item[i].state = "disarmed"
        /\ n = timer[t].set => item[i].state # "none"
    BY <1>1 DEF SetInOrder
  <2> QED BY <2>2, <2>3, <2>4
<1>3. ASSUME NEW c \in Threads, Arm(c) PROVE SetInOrder'
  <2> DEFINE t == call[c].timer
             m == timer[t].set
  <2>1. ArmEffect(c)
    BY <1>3, ArmDoes
  <2>2. /\ pc[c] = "arm" /\ t \in Timers
        /\ \A u \in Timers : timer'[u].set = IF u = t THEN m + 1 ELSE timer[u].set
        /\ \A i \in Items : i # <<t, m + 1>> => item'[i] = item[i]
        /\ item'[<<t, m + 1>>].state = "idle" /\ m + 1 \in Settings
    BY <2>1 DEF ArmEffect, TimerBecomes, ItemBecomes, Items
  <2>3. Disarmed(t) /\ \A u \in Timers : timer[u].set \in Nat
    BY <1>1, <2>2 DEF PastDisarm, Past, Typed, TimerRecord
  <2> SUFFICES ASSUME NEW u \in Timers, NEW n \in Settings
               PROVE  /\ n > timer'[u].set => item'[<<u, n>>].state = "none"
                      /\ n < timer'[u].set => item'[<<u, n>>].state = "disarmed"
                      /\ n = timer'[u].set => item'[<<u, n>>].state # "none"
    BY DEF SetInOrder
  <2>4. /\ n > timer[u].set => item[<<u, n>>].state = "none"
        /\ n < timer[u].set => item[<<u, n>>].state = "disarmed"
        /\ n = timer[u].set => item[<<u, n>>].state # "none"
    BY <1>1 DEF SetInOrder
  <2>5. <<u, n>> \in Items /\ n \in Int
    BY <1>1 DEF Items, Settings
  <2>6. CASE u # t
    BY <2>2, <2>4, <2>5, <2>6
  <2>7. CASE u = t
    <3>1. m \in Nat /\ timer'[t].set = m + 1
      BY <2>2, <2>3
    <3>2. CASE n = m + 1
      BY <2>2, <2>7, <3>1, <3>2
    <3>3. CASE n # m + 1
      <4>1. item'[<<t, n>>] = item[<<t, n>>]
        BY <2>2, <2>5, <2>7, <3>3
      <4>2. n = m => item[<<t, n>>].state = "disarmed"
        BY <2>3, <2>5, <2>7 DEF Disarmed
      <4> QED BY <2>4, <2>5, <2>7, <3>1, <3>3, <4>1, <4>2
    <3> QED BY <3>2, <3>3
  <2> QED BY <2>6, <2>7
<1> QED BY <1>2, <1>3, ItemsAreKept

(* Where a step does not touch a timer and its latest item, it stays armed,  *)
(* and ending, or not.                                                       *)
LEMMA TimerStays ==
  ASSUME IInv, NEW u \in Timers, loop' = loop, expiring' = expiring,
         timer'[u].set = timer[u].set, timer'[u].inserted = timer[u].inserted,
         <<u, timer[u].set>> \in Items
           => item'[<<u, timer[u].set>>] = item[<<u, timer[u].set>>]
  PROVE  /\ Armed(u)' = Armed(u) /\ Ending(u)' = Ending(u)
         /\ Disarmed(u)' = Disarmed(u) /\ Insertion(u)' = Insertion(u)
<1>1. Armed(u)' = Armed(u) /\ Disarmed(u)' = Disarmed(u)
  BY DEF Armed, Disarmed
<1>2. Ending(u)' = Ending(u)
  BY DEF Ending, IInv, InOneCallback, Callback
<1> QED BY <1>1, <1>2 DEF Insertion

(* The timers of the calls that others are in.                               *)
LEMMA OthersBefore ==
  ASSUME IInv, NEW c \in Threads, NEW u \in Timers, call[c].timer # u,
         \A d \in Threads : d # c => call'[d] = call[d] /\ pc'[d] = pc[d],
         \A d \in Threads : call'[d].timer = u => Before(d)'
  PROVE  \A d \in Threads : call[d].timer = u => Before(d)
BY DEF Before

(* Another thread of a KTIMER has nothing to say of the header.              *)
LEMMA OthersHeaders ==
  ASSUME IInv, plan.calls = "Ke", NEW c \in Threads, pc[c] # "out" \/ c \in plan.callers,
         NEW d \in Threads, d # c, pc'[d] = pc[d]
  PROVE  HeaderOf(d)'
<1>1. pc[d] = "out"
  BY KeAlone, CallerIs
<1> QED BY <1>1 DEF HeaderOf, Past

(* Disarmed is not armed.                                                    *)
LEMMA DisarmedIs ==
  ASSUME NEW t \in Timers, Disarmed(t)
  PROVE  ~Armed(t)
BY DEF Disarmed, Armed


(* Past Disarm, nothing comes of the disarmed item.                          *)
LEMMA DisarmHolds ==
  ASSUME IInv, Next
  PROVE  PastDisarm'
<1>0. Typed /\ InOneCallback /\ SetInOrder /\ InCalls /\ PastDisarm /\ MaxSettings \in Nat
      /\ None \notin Threads
  BY TimersAssumption DEF IInv
<1>1. ASSUME Consume PROVE PastDisarm'
  BY <1>0, <1>1 DEF Consume, PastDisarm, Disarmed
<1>2. ASSUME PopFront PROVE PastDisarm'
  BY <1>0, <1>2 DEF PopFront, Fronts, PastDisarm, Disarmed
<1>3. ASSUME NoneDue PROVE PastDisarm'
  BY <1>0, <1>3 DEF NoneDue, PastDisarm, Disarmed
<1>4. ASSUME Claim PROVE PastDisarm'
  <2>1. ClaimEffect
    BY <1>4, ClaimDoes
  <2> QED BY <1>0, <2>1 DEF ClaimEffect, ItemBecomes, PastDisarm, Disarmed
<1>5. ASSUME SetSignal PROVE PastDisarm'
  <2>1. SetSignalEffect
    BY <1>5, SetSignalDoes
  <2>2. \A d \in Threads : pc[d] \in Past => call[d].timer # Of
    BY <2>1, CallbackAlone DEF SetSignalEffect, Callback
  <2> QED BY <1>0, <2>1, <2>2 DEF SetSignalEffect, TimerBecomes, PastDisarm, Disarmed,
    InCalls, Past
<1>6. ASSUME SetHeader PROVE PastDisarm'
  <2>1. SetHeaderEffect
    BY <1>6, SetHeaderDoes
  <2> QED BY <1>0, <2>1 DEF SetHeaderEffect, TimerBecomes, InCalls, PastDisarm, Disarmed,
    Past
<1>7. ASSUME InsertApc PROVE PastDisarm'
  <2>1. InsertApcEffect
    BY <1>7, InsertApcDoes
  <2>2. \A d \in Threads : pc[d] \in Past => call[d].timer # Of
    BY <2>1, CallbackAlone DEF InsertApcEffect, Callback
  <2> QED BY <1>0, <2>1, <2>2 DEF InsertApcEffect, TimerBecomes, PastDisarm, Disarmed,
    InCalls, Past
<1>8. ASSUME Finish PROVE PastDisarm'
  <2>1. FinishEffect
    BY <1>8, FinishDoes
  <2> QED BY <1>0, <2>1 DEF FinishEffect, ItemBecomes, InOneCallback, PastDisarm, Disarmed
<1>9. ASSUME SelfDisarm PROVE PastDisarm'
  <2>1. SelfDisarmEffect
    BY <1>9, SelfDisarmDoes
  <2> QED BY <1>0, <2>1 DEF SelfDisarmEffect, ItemBecomes, InOneCallback, PastDisarm,
    Disarmed
<1>10. ASSUME Tick PROVE PastDisarm'
  BY <1>0, <1>10 DEF Tick, queueVars, PastDisarm, Disarmed
<1>11. ASSUME NEW t \in Timers, DeliverApc(t) PROVE PastDisarm'
  <2>1. DeliverApcEffect(t)
    BY <1>11, DeliverApcDoes
  <2> QED BY <1>0, <2>1 DEF DeliverApcEffect, TimerBecomes, InCalls, PastDisarm, Disarmed,
    Past
<1>12. ASSUME NEW t \in Timers, NEW c \in Threads, c \in plan.callers, SetTimer(c, t)
       PROVE PastDisarm'
  <2>1. SetTimerEffect(c, t)
    BY <1>12, SetTimerDoes
  <2> QED BY <1>0, <2>1 DEF SetTimerEffect, CallBecomes, PcBecomes, PastDisarm, Disarmed,
    Past
<1>13. ASSUME NEW t \in Timers, NEW c \in Threads, c \in plan.callers, CancelTimer(c, t)
       PROVE PastDisarm'
  <2>1. CancelTimerEffect(c, t)
    BY <1>13, CancelTimerDoes
  <2> QED BY <1>0, <2>1 DEF CancelTimerEffect, CallBecomes, PcBecomes, PastDisarm,
    Disarmed, Past
<1>14. ASSUME NEW c \in Threads, TestInserted(c) PROVE PastDisarm'
  <2>1. TestInsertedEffect(c)
    BY <1>14, TestInsertedDoes
  <2> QED BY <1>0, <2>1 DEF TestInsertedEffect, PcBecomes, PastDisarm, Disarmed, Past
<1>15. ASSUME NEW c \in Threads, Lock(c) PROVE PastDisarm'
  <2>1. LockEffect(c)
    BY <1>15, LockDoes
  <2> DEFINE t == call[c].timer
  <2>2. /\ pc[c] \notin Past /\ pc'[c] = "disarm" /\ item' = item
        /\ \A d \in Threads : d # c => call'[d] = call[d] /\ pc'[d] = pc[d]
        /\ t \in Timers /\ timer'[t].set = timer[t].set /\ timer'[t].apc = timer[t].apc
        /\ timer'[t].signal = timer[t].signal
        /\ \A u \in Timers : u # t => timer'[u] = timer[u]
    BY <2>1 DEF LockEffect, TimerBecomes, CallBecomes, PcBecomes, Past
  <2> HIDE DEF t
  <2> QED BY <1>0, <2>2 DEF PastDisarm, Disarmed, InCalls, Past
<1>16. ASSUME NEW c \in Threads, Disarm(c) PROVE PastDisarm'
  <2>1. DisarmEffect(c)
    BY <1>16, DisarmDoes
  <2> DEFINE t == call[c].timer
  <2>2. /\ pc[c] = "disarm" /\ pc'[c] = "remove" /\ UNCHANGED <<timer, call>>
        /\ \A d \in Threads : d # c => pc'[d] = pc[d]
        /\ \A i \in Items : item[i].state = "disarmed" => item'[i] = item[i]
    BY <2>1 DEF DisarmEffect, PcBecomes
  <2>3. Disarmed(t)'
    BY <2>1 DEF DisarmEffect, InCallback, Item, Disarmed
  <2>4. \A d \in Threads : Disarmed(call[d].timer) => Disarmed(call[d].timer)'
    BY <2>2 DEF Disarmed
  <2> QED BY <1>0, <2>2, <2>3, <2>4 DEF PastDisarm, Past
<1>17. ASSUME NEW c \in Threads, Remove(c) PROVE PastDisarm'
  <2>1. RemoveEffect(c)
    BY <1>17, RemoveDoes
  <2> DEFINE t == call[c].timer
  <2>2. /\ t \in Timers /\ pc[c] = "remove" /\ item' = item
        /\ pc'[c] \in {"reset", "mark", "unmark", "out"}
        /\ (pc'[c] = "reset" => call' = call)
        /\ \A d \in Threads : d # c => call'[d] = call[d] /\ pc'[d] = pc[d]
        /\ timer'[t].set = timer[t].set /\ timer'[t].apc = 0
        /\ \A u \in Timers : u # t => timer'[u] = timer[u]
    BY <2>1 DEF RemoveEffect, TimerBecomes, CallBecomes, PcBecomes
  <2>3. ASSUME NEW d \in Threads, d # c, pc[d] \in Past
        PROVE  call[d].timer \in Timers /\ call[d].timer # t
    BY <1>0, <2>2, <2>3 DEF InCalls, Past
  <2> HIDE DEF t
  <2>4. ASSUME NEW d \in Threads, d # c, pc'[d] \in Past
        PROVE  /\ Disarmed(call[d].timer)'
               /\ pc'[d] \in {"reset", "arm"} => timer'[call'[d].timer].apc = 0
               /\ pc'[d] = "arm" => timer'[call'[d].timer].signal = 0
    BY <1>0, <2>2, <2>3, <2>4 DEF PastDisarm, Disarmed
  <2>5. pc'[c] \in Past => /\ Disarmed(call[c].timer)'
                           /\ pc'[c] = "reset" /\ timer'[call'[c].timer].apc = 0
    BY <1>0, <2>2 DEF PastDisarm, Disarmed, Past, t
  <2> QED BY <2>4, <2>5 DEF PastDisarm
<1>18. ASSUME NEW c \in Threads, Reset(c) PROVE PastDisarm'
  <2>1. ResetEffect(c)
    BY <1>18, ResetDoes
  <2> QED BY <1>0, <2>1 DEF ResetEffect, TimerBecomes, PcBecomes, InCalls, PastDisarm,
    Disarmed, Past
<1>19. ASSUME NEW c \in Threads, Arm(c) PROVE PastDisarm'
  <2>1. ArmEffect(c)
    BY <1>19, ArmDoes
  <2> DEFINE t == call[c].timer
             new == <<t, timer[t].set + 1>>
  <2>2. /\ pc[c] = "arm" /\ pc'[c] = "out" /\ t \in Timers
        /\ \A d \in Threads : d # c => call'[d] = call[d] /\ pc'[d] = pc[d]
        /\ \A u \in Timers : u # t => timer'[u] = timer[u]
        /\ \A i \in Items : i # new => item'[i] = item[i]
    BY <2>1 DEF ArmEffect, TimerBecomes, CallBecomes, PcBecomes, ItemBecomes
  <2>3. ASSUME NEW d \in Threads, d # c, pc[d] \in Past
        PROVE  call[d].timer \in Timers /\ call[d].timer # t
    BY <1>0, <2>2, <2>3 DEF InCalls, Past
  <2>4. \A u \in Timers : \A n : u # t => <<u, n>> # new
    OBVIOUS
  <2> HIDE DEF t, new
  <2> QED BY <1>0, <2>2, <2>3, <2>4 DEF PastDisarm, Disarmed, Past
<1>20. ASSUME NEW c \in Threads, Mark(c) PROVE PastDisarm'
  <2>1. MarkEffect(c)
    BY <1>20, MarkDoes
  <2> QED BY <1>0, <2>1 DEF MarkEffect, TimerBecomes, PcBecomes, InCalls, PastDisarm,
    Disarmed, Past
<1>21. ASSUME NEW c \in Threads, Unmark(c) PROVE PastDisarm'
  <2>1. UnmarkEffect(c)
    BY <1>21, UnmarkDoes
  <2> DEFINE t == call[c].timer
  <2>2. /\ pc'[c] = "out" /\ item' = item /\ t \in Timers
        /\ \A d \in Threads : d # c => call'[d] = call[d] /\ pc'[d] = pc[d]
        /\ \A u \in Timers : /\ timer'[u].set = timer[u].set
                              /\ timer'[u].apc = timer[u].apc
                              /\ timer'[u].signal = timer[u].signal
    BY <2>1 DEF UnmarkEffect, TimerBecomes, CallBecomes, PcBecomes
  <2> HIDE DEF t
  <2> QED BY <1>0, <2>2 DEF PastDisarm, Disarmed, InCalls, Past
<1> QED
  BY <1>1, <1>2, <1>3, <1>4, <1>5, <1>6, <1>7, <1>8, <1>9, <1>10, <1>11, <1>12, <1>13,
     <1>14, <1>15, <1>16, <1>17, <1>18, <1>19, <1>20, <1>21, PlanIs
  DEF Next, QueueActs, CallActs

(* What is left behind is of the latest setting.                             *)
LEMMA CurrentStays ==
  ASSUME IInv, Next
  PROVE  Currents'
<1>0. Typed /\ InOneCallback /\ SetInOrder /\ InCalls /\ PastDisarm /\ Currents /\ NtHeaders
      /\ KeCalls /\ MaxSettings \in Nat /\ None \notin Threads
  BY TimersAssumption DEF IInv
<1>1. ASSUME Consume PROVE Currents'
  BY <1>0, <1>1 DEF Consume, Currents, Current
<1>2. ASSUME PopFront PROVE Currents'
  BY <1>0, <1>2 DEF PopFront, Fronts, Currents, Current
<1>3. ASSUME NoneDue PROVE Currents'
  BY <1>0, <1>3 DEF NoneDue, Currents, Current
<1>4. ASSUME Claim PROVE Currents'
  <2>1. ClaimEffect
    BY <1>4, ClaimDoes
  <2> QED BY <1>0, <2>1 DEF ClaimEffect, ItemBecomes, Currents, Current
<1>5. ASSUME SetSignal PROVE Currents'
  <2>1. SetSignalEffect
    BY <1>5, SetSignalDoes
  <2>2. Setting = timer[Of].set
    BY <2>1, CallbackAlone DEF SetSignalEffect, Callback
  <2>3. /\ Of \in Timers /\ timer'[Of].set = timer[Of].set
        /\ timer'[Of].signal = timer[Of].set
        /\ timer'[Of].apc = timer[Of].apc
        /\ timer'[Of].header = timer[Of].header
        /\ \A u \in Timers : u # Of => timer'[u] = timer[u]
    BY <2>1, <2>2 DEF SetSignalEffect, InItem, TimerBecomes
  <2> QED BY <1>0, <2>3 DEF Currents, Current
<1>6. ASSUME SetHeader PROVE Currents'
  <2>1. SetHeaderEffect
    BY <1>6, SetHeaderDoes
  <2>2. Setting = timer[Of].set
    BY <2>1, CallbackAlone DEF SetHeaderEffect, Callback
  <2>3. /\ Of \in Timers /\ timer'[Of].set = timer[Of].set
        /\ timer'[Of].header = timer[Of].set
        /\ timer'[Of].apc = timer[Of].apc
        /\ timer'[Of].signal = timer[Of].signal
        /\ \A u \in Timers : u # Of => timer'[u] = timer[u]
    BY <2>1, <2>2 DEF SetHeaderEffect, InItem, TimerBecomes
  <2> QED BY <1>0, <2>3 DEF Currents, Current
<1>7. ASSUME InsertApc PROVE Currents'
  <2>1. InsertApcEffect
    BY <1>7, InsertApcDoes
  <2>2. Setting = timer[Of].set
    BY <2>1, CallbackAlone DEF InsertApcEffect, Callback
  <2>3. /\ Of \in Timers /\ timer'[Of].set = timer[Of].set
        /\ timer'[Of].apc = IF timer[Of].apc = 0 THEN timer[Of].set ELSE timer[Of].apc
        /\ timer'[Of].header = timer[Of].header /\ timer'[Of].signal = timer[Of].signal
        /\ \A u \in Timers : u # Of => timer'[u] = timer[u]
    BY <2>1, <2>2 DEF InsertApcEffect, InItem, TimerBecomes
  <2> QED BY <1>0, <2>3 DEF Currents, Current
<1>8. ASSUME Finish PROVE Currents'
  <2>1. FinishEffect
    BY <1>8, FinishDoes
  <2> QED BY <1>0, <2>1 DEF FinishEffect, ItemBecomes, Currents, Current
<1>9. ASSUME SelfDisarm PROVE Currents'
  <2>1. SelfDisarmEffect
    BY <1>9, SelfDisarmDoes
  <2> QED BY <1>0, <2>1 DEF SelfDisarmEffect, ItemBecomes, Currents, Current
<1>10. ASSUME Tick PROVE Currents'
  BY <1>0, <1>10 DEF Tick, queueVars, Currents, Current
<1>11. ASSUME NEW t \in Timers, DeliverApc(t) PROVE Currents'
  <2>1. DeliverApcEffect(t)
    BY <1>11, DeliverApcDoes
  <2> QED BY <1>0, <2>1 DEF DeliverApcEffect, TimerBecomes, Currents, Current
<1>12. ASSUME NEW t \in Timers, NEW c \in Threads, c \in plan.callers, SetTimer(c, t)
       PROVE Currents'
  <2>1. SetTimerEffect(c, t)
    BY <1>12, SetTimerDoes
  <2> QED BY <1>0, <2>1 DEF SetTimerEffect, CallBecomes, PcBecomes, Currents, Current
<1>13. ASSUME NEW t \in Timers, NEW c \in Threads, c \in plan.callers, CancelTimer(c, t)
       PROVE Currents'
  <2>1. CancelTimerEffect(c, t)
    BY <1>13, CancelTimerDoes
  <2> QED BY <1>0, <2>1 DEF CancelTimerEffect, CallBecomes, PcBecomes, Currents, Current
<1>14. ASSUME NEW c \in Threads, TestInserted(c) PROVE Currents'
  <2>1. TestInsertedEffect(c)
    BY <1>14, TestInsertedDoes
  <2> QED BY <1>0, <2>1 DEF TestInsertedEffect, PcBecomes, Currents, Current
<1>15. ASSUME NEW c \in Threads, Lock(c) PROVE Currents'
  <2>1. LockEffect(c)
    BY <1>15, LockDoes
  <2> QED BY <1>0, <2>1 DEF LockEffect, TimerBecomes, CallBecomes, PcBecomes, Currents,
    Current
<1>16. ASSUME NEW c \in Threads, Disarm(c) PROVE Currents'
  <2>1. DisarmEffect(c)
    BY <1>16, DisarmDoes
  <2> QED BY <1>0, <2>1 DEF DisarmEffect, PcBecomes, Currents, Current
<1>17. ASSUME NEW c \in Threads, Remove(c) PROVE Currents'
  <2>1. RemoveEffect(c)
    BY <1>17, RemoveDoes
  <2> DEFINE t == call[c].timer
  <2>2. /\ t \in Timers /\ timer'[t].set = timer[t].set /\ timer'[t].apc = 0
        /\ timer'[t].header = timer[t].header /\ timer'[t].signal = timer[t].signal
        /\ \A u \in Timers : u # t => timer'[u] = timer[u]
    BY <2>1 DEF RemoveEffect, TimerBecomes
  <2> HIDE DEF t
  <2> QED BY <1>0, <2>2 DEF Currents, Current
<1>18. ASSUME NEW c \in Threads, Reset(c) PROVE Currents'
  <2>1. ResetEffect(c)
    BY <1>18, ResetDoes
  <2> QED BY <1>0, <2>1 DEF ResetEffect, TimerBecomes, PcBecomes, Currents, Current
<1>19. ASSUME NEW c \in Threads, Arm(c) PROVE Currents'
  <2>1. ArmEffect(c)
    BY <1>19, ArmDoes
  <2> DEFINE t == call[c].timer
  <2>2. /\ t \in Timers /\ pc[c] = "arm" /\ timer'[t].apc = timer[t].apc
        /\ timer'[t].header = timer[t].header /\ timer'[t].signal = timer[t].signal
        /\ \A u \in Timers : u # t => timer'[u] = timer[u]
    BY <2>1 DEF ArmEffect, TimerBecomes
  <2>3. timer[t].apc = 0 /\ timer[t].signal = 0
    BY <1>0, <2>2 DEF PastDisarm, Past
  <2>4. timer[t].header = 0
    BY <1>0, <2>2 DEF NtHeaders, KeCalls, HeaderOf, InCalls, Past
  <2> HIDE DEF t
  <2> QED BY <1>0, <2>2, <2>3, <2>4 DEF Currents, Current
<1>20. ASSUME NEW c \in Threads, Mark(c) PROVE Currents'
  <2>1. MarkEffect(c)
    BY <1>20, MarkDoes
  <2> QED BY <1>0, <2>1 DEF MarkEffect, TimerBecomes, PcBecomes, Currents, Current
<1>21. ASSUME NEW c \in Threads, Unmark(c) PROVE Currents'
  <2>1. UnmarkEffect(c)
    BY <1>21, UnmarkDoes
  <2> QED BY <1>0, <2>1 DEF UnmarkEffect, TimerBecomes, CallBecomes, PcBecomes, Currents,
    Current
<1> QED
  BY <1>1, <1>2, <1>3, <1>4, <1>5, <1>6, <1>7, <1>8, <1>9, <1>10, <1>11, <1>12, <1>13,
     <1>14, <1>15, <1>16, <1>17, <1>18, <1>19, <1>20, <1>21, PlanIs
  DEF Next, QueueActs, CallActs

(* Timer objects have no header.                                             *)
LEMMA NoHeaders ==
  ASSUME IInv, Next
  PROVE  NtHeaders'
<1>0. Typed /\ NtHeaders /\ MaxSettings \in Nat /\ None \notin Threads
  BY TimersAssumption DEF IInv
<1>1. ASSUME Consume PROVE NtHeaders'
  BY <1>0, <1>1 DEF Consume, NtHeaders
<1>2. ASSUME PopFront PROVE NtHeaders'
  BY <1>0, <1>2 DEF PopFront, Fronts, NtHeaders
<1>3. ASSUME NoneDue PROVE NtHeaders'
  BY <1>0, <1>3 DEF NoneDue, NtHeaders
<1>4. ASSUME Claim PROVE NtHeaders'
  <2>1. ClaimEffect
    BY <1>4, ClaimDoes
  <2> QED BY <1>0, <2>1 DEF ClaimEffect, ItemBecomes, NtHeaders
<1>5. ASSUME SetSignal PROVE NtHeaders'
  <2>1. SetSignalEffect
    BY <1>5, SetSignalDoes
  <2> QED BY <1>0, <2>1 DEF SetSignalEffect, TimerBecomes, NtHeaders
<1>6. ASSUME SetHeader PROVE NtHeaders'
  <2>1. SetHeaderEffect
    BY <1>6, SetHeaderDoes
  <2> QED BY <1>0, <2>1 DEF SetHeaderEffect, TimerBecomes, NtHeaders
<1>7. ASSUME InsertApc PROVE NtHeaders'
  <2>1. InsertApcEffect
    BY <1>7, InsertApcDoes
  <2> QED BY <1>0, <2>1 DEF InsertApcEffect, TimerBecomes, NtHeaders
<1>8. ASSUME Finish PROVE NtHeaders'
  <2>1. FinishEffect
    BY <1>8, FinishDoes
  <2> QED BY <1>0, <2>1 DEF FinishEffect, ItemBecomes, NtHeaders
<1>9. ASSUME SelfDisarm PROVE NtHeaders'
  <2>1. SelfDisarmEffect
    BY <1>9, SelfDisarmDoes
  <2> QED BY <1>0, <2>1 DEF SelfDisarmEffect, ItemBecomes, NtHeaders
<1>10. ASSUME Tick PROVE NtHeaders'
  BY <1>0, <1>10 DEF Tick, queueVars, NtHeaders
<1>11. ASSUME NEW t \in Timers, DeliverApc(t) PROVE NtHeaders'
  <2>1. DeliverApcEffect(t)
    BY <1>11, DeliverApcDoes
  <2> QED BY <1>0, <2>1 DEF DeliverApcEffect, TimerBecomes, NtHeaders
<1>12. ASSUME NEW t \in Timers, NEW c \in Threads, c \in plan.callers, SetTimer(c, t)
       PROVE NtHeaders'
  <2>1. SetTimerEffect(c, t)
    BY <1>12, SetTimerDoes
  <2> QED BY <1>0, <2>1 DEF SetTimerEffect, CallBecomes, PcBecomes, NtHeaders
<1>13. ASSUME NEW t \in Timers, NEW c \in Threads, c \in plan.callers, CancelTimer(c, t)
       PROVE NtHeaders'
  <2>1. CancelTimerEffect(c, t)
    BY <1>13, CancelTimerDoes
  <2> QED BY <1>0, <2>1 DEF CancelTimerEffect, CallBecomes, PcBecomes, NtHeaders
<1>14. ASSUME NEW c \in Threads, TestInserted(c) PROVE NtHeaders'
  <2>1. TestInsertedEffect(c)
    BY <1>14, TestInsertedDoes
  <2> QED BY <1>0, <2>1 DEF TestInsertedEffect, PcBecomes, NtHeaders
<1>15. ASSUME NEW c \in Threads, Lock(c) PROVE NtHeaders'
  <2>1. LockEffect(c)
    BY <1>15, LockDoes
  <2> QED BY <1>0, <2>1 DEF LockEffect, TimerBecomes, CallBecomes, PcBecomes, NtHeaders
<1>16. ASSUME NEW c \in Threads, Disarm(c) PROVE NtHeaders'
  <2>1. DisarmEffect(c)
    BY <1>16, DisarmDoes
  <2> QED BY <1>0, <2>1 DEF DisarmEffect, PcBecomes, NtHeaders
<1>17. ASSUME NEW c \in Threads, Remove(c) PROVE NtHeaders'
  <2>1. RemoveEffect(c)
    BY <1>17, RemoveDoes
  <2> QED BY <1>0, <2>1 DEF RemoveEffect, TimerBecomes, CallBecomes, PcBecomes, NtHeaders
<1>18. ASSUME NEW c \in Threads, Reset(c) PROVE NtHeaders'
  <2>1. ResetEffect(c)
    BY <1>18, ResetDoes
  <2> QED BY <1>0, <2>1 DEF ResetEffect, TimerBecomes, PcBecomes, NtHeaders
<1>19. ASSUME NEW c \in Threads, Arm(c) PROVE NtHeaders'
  <2>1. ArmEffect(c)
    BY <1>19, ArmDoes
  <2> QED BY <1>0, <2>1 DEF ArmEffect, ItemBecomes, TimerBecomes, CallBecomes, PcBecomes,
    NtHeaders
<1>20. ASSUME NEW c \in Threads, Mark(c) PROVE NtHeaders'
  <2>1. MarkEffect(c)
    BY <1>20, MarkDoes
  <2> QED BY <1>0, <2>1 DEF MarkEffect, TimerBecomes, PcBecomes, NtHeaders
<1>21. ASSUME NEW c \in Threads, Unmark(c) PROVE NtHeaders'
  <2>1. UnmarkEffect(c)
    BY <1>21, UnmarkDoes
  <2> QED BY <1>0, <2>1 DEF UnmarkEffect, TimerBecomes, CallBecomes, PcBecomes, NtHeaders
<1> QED
  BY <1>1, <1>2, <1>3, <1>4, <1>5, <1>6, <1>7, <1>8, <1>9, <1>10, <1>11, <1>12, <1>13,
     <1>14, <1>15, <1>16, <1>17, <1>18, <1>19, <1>20, <1>21, PlanIs
  DEF Next, QueueActs, CallActs

(* An expiry of a KTIMER that does not recur clears its flag.                *)
LEMMA Expiries ==
  ASSUME IInv, Next
  PROVE  KeExpiries'
<1>0. Typed /\ QueueTyped /\ InOneCallback /\ SetInOrder /\ InCalls /\ PastDisarm
      /\ KeExpiries /\ KeCalls /\ MaxSettings \in Nat /\ None \notin Threads
  BY TimersAssumption DEF IInv
<1>1. ASSUME Consume PROVE KeExpiries'
  BY <1>0, <1>1 DEF Consume, KeExpiries
<1>2. ASSUME PopFront PROVE KeExpiries'
  BY <1>0, <1>2 DEF PopFront, Fronts, KeExpiries
<1>3. ASSUME NoneDue PROVE KeExpiries'
  BY <1>0, <1>3 DEF NoneDue, KeExpiries
<1>4. ASSUME Claim PROVE KeExpiries'
  <2>1. ClaimEffect
    BY <1>4, ClaimDoes
  <2> QED BY <1>0, <2>1 DEF ClaimEffect, ItemBecomes, KeExpiries
<1>5. ASSUME SetSignal PROVE KeExpiries'
  <2>1. SetSignalEffect
    BY <1>5, SetSignalDoes
  <2> QED BY <1>0, <2>1 DEF SetSignalEffect, TimerBecomes, KeExpiries
<1>6. ASSUME SetHeader PROVE KeExpiries'
  <2>1. SetHeaderEffect
    BY <1>6, SetHeaderDoes
  <2> QED BY <1>0, <2>1 DEF SetHeaderEffect, TimerBecomes, KeExpiries, InOneCallback, Of
<1>7. ASSUME InsertApc PROVE KeExpiries'
  <2>1. InsertApcEffect
    BY <1>7, InsertApcDoes
  <2> QED BY <1>0, <2>1 DEF InsertApcEffect, TimerBecomes, KeExpiries
<1>8. ASSUME Finish PROVE KeExpiries'
  <2>1. FinishEffect
    BY <1>8, FinishDoes
  <2> QED BY <1>0, <2>1 DEF FinishEffect, ItemBecomes, KeExpiries
<1>9. ASSUME SelfDisarm PROVE KeExpiries'
  <2>1. SelfDisarmEffect
    BY <1>9, SelfDisarmDoes
  <2>2. plan.calls # "Ke"
    BY <1>0, <2>1, PlanIs DEF SelfDisarmEffect
  <2> QED BY <2>1, <2>2 DEF SelfDisarmEffect, KeExpiries
<1>10. ASSUME Tick PROVE KeExpiries'
  BY <1>0, <1>10 DEF Tick, queueVars, KeExpiries, Of
<1>11. ASSUME NEW t \in Timers, DeliverApc(t) PROVE KeExpiries'
  <2>1. DeliverApcEffect(t)
    BY <1>11, DeliverApcDoes
  <2> QED BY <1>0, <2>1 DEF DeliverApcEffect, TimerBecomes, KeExpiries, InOneCallback,
    Callback, Items, Of
<1>12. ASSUME NEW t \in Timers, NEW c \in Threads, c \in plan.callers, SetTimer(c, t)
       PROVE KeExpiries'
  <2>1. SetTimerEffect(c, t)
    BY <1>12, SetTimerDoes
  <2> QED BY <1>0, <2>1 DEF SetTimerEffect, CallBecomes, PcBecomes, KeExpiries, Of
<1>13. ASSUME NEW t \in Timers, NEW c \in Threads, c \in plan.callers, CancelTimer(c, t)
       PROVE KeExpiries'
  <2>1. CancelTimerEffect(c, t)
    BY <1>13, CancelTimerDoes
  <2> QED BY <1>0, <2>1 DEF CancelTimerEffect, CallBecomes, PcBecomes, KeExpiries, Of
<1>14. ASSUME NEW c \in Threads, TestInserted(c) PROVE KeExpiries'
  <2>1. TestInsertedEffect(c)
    BY <1>14, TestInsertedDoes
  <2> QED BY <1>0, <2>1 DEF TestInsertedEffect, PcBecomes, KeExpiries, Of
<1>15. ASSUME NEW c \in Threads, Lock(c) PROVE KeExpiries'
  <2>1. LockEffect(c)
    BY <1>15, LockDoes
  <2> QED BY <1>0, <2>1 DEF LockEffect, TimerBecomes, CallBecomes, PcBecomes, KeExpiries,
    InOneCallback, Callback, Items, Of
<1>16. ASSUME NEW c \in Threads, Disarm(c) PROVE KeExpiries'
  <2>1. DisarmEffect(c)
    BY <1>16, DisarmDoes
  <2> SUFFICES ASSUME plan.calls = "Ke"
               PROVE  /\ loop' # "apc"
                      /\ loop' = "finish" => /\ item'[expiring].state = "inCallback"
                                             /\ item'[expiring].interval = 0 => ~timer'[Of].inserted
    BY <2>1 DEF DisarmEffect, KeExpiries, Of
  <2>2. loop' = loop /\ loop # "apc"
    BY <1>0, <2>1 DEF DisarmEffect, KeExpiries
  <2> SUFFICES ASSUME loop = "finish"
               PROVE  /\ item'[expiring].state = "inCallback"
                      /\ item'[expiring].interval = 0 => ~timer'[Of].inserted
    BY <2>2
  <2>3. InItem /\ item[expiring].state = "inCallback"
        /\ (item[expiring].interval = 0 => ~timer[Of].inserted)
    BY <1>0, CallbackAlone DEF KeExpiries, Callback
  <2>4. item'[expiring] = item[expiring] /\ timer' = timer
    BY <2>1, <2>3 DEF DisarmEffect, InItem
  <2> QED BY <2>3, <2>4
<1>17. ASSUME NEW c \in Threads, Remove(c) PROVE KeExpiries'
  <2>1. RemoveEffect(c)
    BY <1>17, RemoveDoes
  <2> SUFFICES ASSUME plan.calls = "Ke"
               PROVE  /\ loop' # "apc"
                      /\ loop' = "finish" => /\ item'[expiring].state = "inCallback"
                                             /\ item'[expiring].interval = 0 => ~timer'[Of].inserted
    BY <2>1 DEF RemoveEffect, KeExpiries, Of
  <2>2. loop' = loop /\ loop # "apc"
    BY <1>0, <2>1 DEF RemoveEffect, KeExpiries
  <2> SUFFICES ASSUME loop = "finish"
               PROVE  /\ item'[expiring].state = "inCallback"
                      /\ item'[expiring].interval = 0 => ~timer'[Of].inserted
    BY <2>2
  <2>3. InItem /\ item[expiring].state = "inCallback"
        /\ (item[expiring].interval = 0 => ~timer[Of].inserted)
    BY <1>0, CallbackAlone DEF KeExpiries, Callback
  <2>4. item' = item /\ timer'[Of].inserted = timer[Of].inserted
    BY <2>1, <2>3 DEF RemoveEffect, InItem, TimerBecomes
  <2> QED BY <2>3, <2>4
<1>18. ASSUME NEW c \in Threads, Reset(c) PROVE KeExpiries'
  <2>1. ResetEffect(c)
    BY <1>18, ResetDoes
  <2> QED BY <1>0, <2>1 DEF ResetEffect, TimerBecomes, PcBecomes, KeExpiries,
    InOneCallback, Callback, Items, Of
<1>19. ASSUME NEW c \in Threads, Arm(c) PROVE KeExpiries'
  <2>1. ArmEffect(c)
    BY <1>19, ArmDoes
  <2> SUFFICES ASSUME plan.calls = "Ke"
               PROVE  /\ loop' # "apc"
                      /\ loop' = "finish" => /\ item'[expiring].state = "inCallback"
                                             /\ item'[expiring].interval = 0 => ~timer'[Of].inserted
    BY <2>1 DEF ArmEffect, KeExpiries, Of
  <2>2. loop' = loop /\ loop # "apc"
    BY <1>0, <2>1 DEF ArmEffect, KeExpiries
  <2> SUFFICES ASSUME loop = "finish"
               PROVE  /\ item'[expiring].state = "inCallback"
                      /\ item'[expiring].interval = 0 => ~timer'[Of].inserted
    BY <2>2
  <2>3. InItem /\ item[expiring].state = "inCallback"
        /\ (item[expiring].interval = 0 => ~timer[Of].inserted)
    BY <1>0, CallbackAlone DEF KeExpiries, Callback
  <2>4. item'[expiring] = item[expiring] /\ timer'[Of].inserted = timer[Of].inserted
    <3> DEFINE t == call[c].timer
               new == <<t, timer[t].set + 1>>
    <3>1. /\ new \in Items /\ new # expiring
          /\ \A i \in Items : i # new => item'[i] = item[i]
      <4>1. new \in Items /\ t \in Timers /\ timer[t].set \in Nat
        BY <1>0, <2>1 DEF ArmEffect, Typed, TimerRecord
      <4>2. item[new].state = "none"
        BY <1>0, <4>1 DEF SetInOrder, Items, Settings
      <4> QED BY <2>1, <2>3, <4>1, <4>2 DEF ArmEffect, ItemBecomes
    <3> QED BY <2>1, <2>3, <3>1 DEF ArmEffect, InItem, TimerBecomes
  <2> QED BY <2>3, <2>4
<1>20. ASSUME NEW c \in Threads, Mark(c) PROVE KeExpiries'
  <2>1. MarkEffect(c)
    BY <1>20, MarkDoes
  <2> SUFFICES ASSUME plan.calls = "Ke"
               PROVE  /\ loop' # "apc"
                      /\ loop' = "finish" => /\ item'[expiring].state = "inCallback"
                                             /\ item'[expiring].interval = 0 => ~timer'[Of].inserted
    BY <2>1 DEF MarkEffect, KeExpiries, Of
  <2>2. loop' = loop /\ loop # "apc"
    BY <1>0, <2>1 DEF MarkEffect, KeExpiries
  <2> SUFFICES ASSUME loop = "finish"
               PROVE  /\ item'[expiring].state = "inCallback"
                      /\ item'[expiring].interval = 0 => ~timer'[Of].inserted
    BY <2>2
  <2>3. InItem /\ item[expiring].state = "inCallback"
        /\ (item[expiring].interval = 0 => ~timer[Of].inserted)
    BY <1>0, CallbackAlone DEF KeExpiries, Callback
  <2>4. item' = item /\ timer'[Of] = timer[Of]
    <3> DEFINE t == call[c].timer
    <3>1. Disarmed(t)
      BY <1>0, <2>1 DEF KeCalls, HeaderOf, MarkEffect
    <3>2. Of \in Timers /\ Of # t
      BY <2>3, <3>1, CallbackAlone DEF InItem, Callback
    <3> QED BY <2>1, <3>2 DEF MarkEffect, TimerBecomes
  <2> QED BY <2>3, <2>4
<1>21. ASSUME NEW c \in Threads, Unmark(c) PROVE KeExpiries'
  <2>1. UnmarkEffect(c)
    BY <1>21, UnmarkDoes
  <2> QED BY <1>0, <2>1 DEF UnmarkEffect, TimerBecomes, CallBecomes, PcBecomes,
    KeExpiries, InOneCallback, Callback, Items, Of
<1> QED
  BY <1>1, <1>2, <1>3, <1>4, <1>5, <1>6, <1>7, <1>8, <1>9, <1>10, <1>11, <1>12, <1>13,
     <1>14, <1>15, <1>16, <1>17, <1>18, <1>19, <1>20, <1>21, PlanIs
  DEF Next, QueueActs, CallActs

(* Outside the calls that change it, the flag says that the KTIMER is armed. *)
LEMMA Insertions ==
  ASSUME IInv, Next
  PROVE  KeInsertions'
<1>0. Typed /\ InOneCallback /\ SetInOrder /\ InCalls /\ PastDisarm /\ KeExpiries
      /\ KeInsertions /\ KeCalls /\ MaxSettings \in Nat /\ None \notin Threads
  BY TimersAssumption DEF IInv
<1>1. ASSUME Consume PROVE KeInsertions'
  BY <1>0, <1>1 DEF Consume, KeInsertions, Before, Insertion, Ending, Armed
<1>2. ASSUME PopFront PROVE KeInsertions'
  BY <1>0, <1>2 DEF PopFront, Fronts, KeInsertions, Before, Insertion, Ending, Armed
<1>3. ASSUME NoneDue PROVE KeInsertions'
  BY <1>0, <1>3 DEF NoneDue, KeInsertions, Before, Insertion, Ending, Armed
<1>4. ASSUME Claim PROVE KeInsertions'
  <2>1. ClaimEffect
    BY <1>4, ClaimDoes
  <2> QED BY <1>0, <2>1 DEF ClaimEffect, ItemBecomes, KeInsertions, Before, Insertion,
    Ending, Armed
<1>5. ASSUME SetSignal PROVE KeInsertions'
  <2>1. SetSignalEffect
    BY <1>5, SetSignalDoes
  <2> QED BY <1>0, <2>1 DEF SetSignalEffect, TimerBecomes, KeInsertions, Before,
    Insertion, Ending, Armed
<1>6. ASSUME SetHeader PROVE KeInsertions'
  <2>1. SetHeaderEffect
    BY <1>6, SetHeaderDoes
  <2> SUFFICES ASSUME plan.calls = "Ke", NEW u \in Timers,
                      \A d \in Threads : call'[d].timer = u => Before(d)'
               PROVE  Insertion(u)'
    BY <1>0, <2>1 DEF SetHeaderEffect, KeInsertions
  <2>2. InItem /\ loop = "header" /\ loop' = "finish" /\ item' = item
        /\ expiring' = expiring
        /\ UNCHANGED <<call, pc>> /\ Setting = timer[Of].set
        /\ timer'[Of].set = timer[Of].set
        /\ timer'[Of].inserted = (timer[Of].inserted /\ item[expiring].interval # 0)
        /\ \A t \in Timers : t # Of => timer'[t] = timer[t]
    BY <2>1, CallbackAlone DEF SetHeaderEffect, TimerBecomes, Callback
  <2>3. Insertion(u)
    BY <1>0, <2>2 DEF KeInsertions, Before
  <2>4. timer[u].inserted = Armed(u)
    BY <2>2, <2>3 DEF Insertion, Ending
  <2>5. Armed(u)' = Armed(u)
    BY <2>2 DEF Armed
  <2>6. CASE u = Of
    <3>1. CASE item[expiring].interval = 0
      <4>1. Ending(u)'
        BY <2>2, <2>6, <3>1 DEF Ending, InItem
      <4> QED BY <2>2, <2>6, <3>1, <4>1 DEF Insertion
    <3>2. CASE item[expiring].interval # 0
      BY <1>0, <2>2, <2>4, <2>5, <2>6, <3>2 DEF Insertion, Typed, TimerRecord
    <3> QED BY <3>1, <3>2
  <2>7. CASE u # Of
    BY <2>2, <2>4, <2>5, <2>7 DEF Insertion
  <2> QED BY <2>6, <2>7
<1>7. ASSUME InsertApc PROVE KeInsertions'
  <2>1. InsertApcEffect
    BY <1>7, InsertApcDoes
  <2> QED BY <1>0, <2>1 DEF InsertApcEffect, TimerBecomes, KeInsertions, Before,
    Insertion, Ending, Armed
<1>8. ASSUME Finish PROVE KeInsertions'
  <2>1. FinishEffect
    BY <1>8, FinishDoes
  <2> SUFFICES ASSUME plan.calls = "Ke", NEW u \in Timers,
                      \A d \in Threads : call'[d].timer = u => Before(d)'
               PROVE  Insertion(u)'
    BY <1>0, <2>1 DEF FinishEffect, KeInsertions
  <2>2. /\ InItem /\ loop = "finish" /\ UNCHANGED <<call, pc, timer>>
        /\ Setting = timer[Of].set
        /\ \A i \in Items : i # expiring => item'[i] = item[i]
    BY <2>1, CallbackAlone DEF FinishEffect, ItemBecomes, Callback
  <2>3. Insertion(u)
    BY <1>0, <2>2 DEF KeInsertions, Before
  <2>4. item[expiring].state = "inCallback"
        /\ (item[expiring].interval = 0 => ~timer[Of].inserted)
    BY <1>0, <2>2 DEF KeExpiries
  <2>5. CASE u = Of
    <3>1. expiring = <<u, timer[u].set>> /\ expiring \in Items
      BY <2>2, <2>5 DEF InItem
    <3>2. Armed(u)
      BY <2>4, <3>1 DEF Armed
    <3>3. CASE item[expiring].interval = 0
      <4>1. item'[expiring].state = "disarmed"
        BY <2>1, <3>3 DEF FinishEffect, Recurs, ItemBecomes
      <4>2. ~Armed(u)'
        BY <2>2, <3>1, <4>1 DEF Armed
      <4>3. timer[u].inserted = FALSE
        BY <1>0, <2>4, <2>5, <3>3 DEF Typed, TimerRecord
      <4> QED BY <2>2, <4>2, <4>3 DEF Insertion, Armed
    <3>4. CASE item[expiring].interval # 0
      <4>1. item'[expiring].state = "idle"
        BY <2>1, <2>4, <3>4 DEF FinishEffect, Recurs, ItemBecomes
      <4>2. Armed(u)' /\ timer[u].inserted = Armed(u)
        BY <2>2, <2>3, <3>1, <3>4, <4>1 DEF Armed, Insertion, Ending
      <4> QED BY <2>2, <3>2, <4>2 DEF Insertion
    <3> QED BY <3>3, <3>4
  <2>6. CASE u # Of
    <3>1. <<u, timer[u].set>> # expiring
      BY <2>2, <2>6 DEF InItem
    <3>2. timer[u].inserted = Armed(u) /\ Armed(u)' = Armed(u)
      BY <2>2, <2>3, <3>1 DEF Insertion, Ending, Armed
    <3> QED BY <2>2, <3>2 DEF Insertion
  <2> QED BY <2>5, <2>6
<1>9. ASSUME SelfDisarm PROVE KeInsertions'
  <2>1. SelfDisarmEffect
    BY <1>9, SelfDisarmDoes
  <2>2. plan.calls # "Ke"
    BY <1>0, <2>1, PlanIs DEF SelfDisarmEffect
  <2> QED BY <2>1, <2>2 DEF SelfDisarmEffect, KeInsertions
<1>10. ASSUME Tick PROVE KeInsertions'
  BY <1>0, <1>10 DEF Tick, queueVars, KeInsertions, Before, Insertion, Ending, Armed
<1>11. ASSUME NEW t \in Timers, DeliverApc(t) PROVE KeInsertions'
  <2>1. DeliverApcEffect(t)
    BY <1>11, DeliverApcDoes
  <2> QED BY <1>0, <2>1 DEF DeliverApcEffect, TimerBecomes, KeInsertions, Before,
    Insertion, Ending, Armed
<1>12. ASSUME NEW t \in Timers, NEW c \in Threads, c \in plan.callers, SetTimer(c, t)
       PROVE KeInsertions'
  <2>1. SetTimerEffect(c, t)
    BY <1>12, SetTimerDoes
  <2> QED BY <1>0, <2>1 DEF SetTimerEffect, CallBecomes, PcBecomes, KeInsertions, Before,
    Insertion, Ending, Armed
<1>13. ASSUME NEW t \in Timers, NEW c \in Threads, c \in plan.callers, CancelTimer(c, t)
       PROVE KeInsertions'
  <2>1. CancelTimerEffect(c, t)
    BY <1>13, CancelTimerDoes
  <2> QED BY <1>0, <2>1 DEF CancelTimerEffect, CallBecomes, PcBecomes, KeInsertions,
    Before, Insertion, Ending, Armed
<1>14. ASSUME NEW c \in Threads, TestInserted(c) PROVE KeInsertions'
  <2>1. TestInsertedEffect(c)
    BY <1>14, TestInsertedDoes
  <2> QED BY <1>0, <2>1 DEF TestInsertedEffect, PcBecomes, KeInsertions, Before,
    Insertion, Ending, Armed
<1>15. ASSUME NEW c \in Threads, Lock(c) PROVE KeInsertions'
  <2>1. LockEffect(c)
    BY <1>15, LockDoes
  <2> QED BY <1>0, <2>1 DEF LockEffect, TimerBecomes, CallBecomes, PcBecomes,
    KeInsertions, Before, Insertion, Ending, Armed
<1>16. ASSUME NEW c \in Threads, Disarm(c) PROVE KeInsertions'
  <2>1. DisarmEffect(c)
    BY <1>16, DisarmDoes
  <2> DEFINE t == call[c].timer
  <2> SUFFICES ASSUME plan.calls = "Ke", NEW u \in Timers,
                      \A d \in Threads : call'[d].timer = u => Before(d)'
               PROVE  Insertion(u)'
    BY <1>0, <2>1 DEF DisarmEffect, KeInsertions
  <2>2. CASE u # t
    <3>1. /\ UNCHANGED <<loop, expiring>> /\ timer'[u] = timer[u]
          /\ <<u, timer[u].set>> \in Items
               => item'[<<u, timer[u].set>>] = item[<<u, timer[u].set>>]
          /\ \A d \in Threads : d # c => call'[d] = call[d] /\ pc'[d] = pc[d]
      <4>1. Item(c) # <<u, timer[u].set>>
        BY <2>2 DEF Item
      <4>2. /\ UNCHANGED <<loop, expiring, timer, call>>
            /\ \A d \in Threads : d # c => pc'[d] = pc[d]
            /\ \A i \in Items : i # Item(c) => item'[i] = item[i]
        BY <2>1 DEF DisarmEffect, PcBecomes
      <4> QED BY <4>1, <4>2
    <3>2. \A d \in Threads : call[d].timer = u => Before(d)
      BY <2>2, <3>1, OthersBefore
    <3>3. Insertion(u)
      BY <1>0, <3>2 DEF KeInsertions
    <3> QED BY <3>1, <3>3, TimerStays
  <2>3. CASE u = t
    <3>1. call'[c].timer = t /\ pc'[c] = "remove"
      BY <2>1 DEF DisarmEffect, PcBecomes
    <3> QED BY <2>3, <3>1 DEF Before
  <2> QED BY <2>2, <2>3
<1>17. ASSUME NEW c \in Threads, Remove(c) PROVE KeInsertions'
  <2>1. RemoveEffect(c)
    BY <1>17, RemoveDoes
  <2> DEFINE t == call[c].timer
  <2> SUFFICES ASSUME plan.calls = "Ke", NEW u \in Timers,
                      \A d \in Threads : call'[d].timer = u => Before(d)'
               PROVE  Insertion(u)'
    BY <1>0, <2>1 DEF RemoveEffect, KeInsertions
  <2>2. CASE u # t
    <3>1. /\ UNCHANGED <<loop, expiring>> /\ timer'[u] = timer[u]
          /\ <<u, timer[u].set>> \in Items
               => item'[<<u, timer[u].set>>] = item[<<u, timer[u].set>>]
          /\ \A d \in Threads : d # c => call'[d] = call[d] /\ pc'[d] = pc[d]
      BY <2>1, <2>2 DEF RemoveEffect, TimerBecomes, ItemBecomes, CallBecomes, PcBecomes
    <3>2. \A d \in Threads : call[d].timer = u => Before(d)
      BY <2>2, <3>1, OthersBefore
    <3>3. Insertion(u)
      BY <1>0, <3>2 DEF KeInsertions
    <3> QED BY <3>1, <3>3, TimerStays
  <2>3. CASE u = t
    <3>1. call'[c].timer = t /\ pc'[c] \in {"reset", "mark", "unmark"}
      BY <2>1 DEF RemoveEffect, CallBecomes, PcBecomes
    <3> QED BY <2>3, <3>1 DEF Before
  <2> QED BY <2>2, <2>3
<1>18. ASSUME NEW c \in Threads, Reset(c) PROVE KeInsertions'
  <2>1. ResetEffect(c)
    BY <1>18, ResetDoes
  <2> QED BY <1>0, <2>1 DEF ResetEffect, TimerBecomes, PcBecomes, KeInsertions, Before,
    Insertion, Ending, Armed
<1>19. ASSUME NEW c \in Threads, Arm(c) PROVE KeInsertions'
  <2>1. ArmEffect(c)
    BY <1>19, ArmDoes
  <2> DEFINE t == call[c].timer
  <2> SUFFICES ASSUME plan.calls = "Ke", NEW u \in Timers,
                      \A d \in Threads : call'[d].timer = u => Before(d)'
               PROVE  Insertion(u)'
    BY <1>0, <2>1 DEF ArmEffect, KeInsertions
  <2>2. CASE u # t
    <3>1. /\ UNCHANGED <<loop, expiring>> /\ timer'[u] = timer[u]
          /\ <<u, timer[u].set>> \in Items
               => item'[<<u, timer[u].set>>] = item[<<u, timer[u].set>>]
          /\ \A d \in Threads : d # c => call'[d] = call[d] /\ pc'[d] = pc[d]
      BY <2>1, <2>2 DEF ArmEffect, TimerBecomes, ItemBecomes, CallBecomes, PcBecomes
    <3>2. \A d \in Threads : call[d].timer = u => Before(d)
      BY <2>2, <3>1, OthersBefore
    <3>3. Insertion(u)
      BY <1>0, <3>2 DEF KeInsertions
    <3> QED BY <3>1, <3>3, TimerStays
  <2>3. CASE u = t
    <3> DEFINE new == <<t, timer[t].set + 1>>
    <3>1. /\ new \in Items /\ item'[new].state = "idle" /\ timer'[t].set = timer[t].set + 1
          /\ timer'[t].inserted = timer[t].inserted /\ pc[c] = "arm"
      BY <2>1 DEF ArmEffect, TimerBecomes, ItemBecomes
    <3>2. timer[t].inserted
      BY <1>0, <3>1 DEF KeCalls, HeaderOf, InCalls, Past
    <3>3. Armed(u)'
      BY <2>3, <3>1 DEF Armed
    <3>4. timer[t].inserted = TRUE
      BY <1>0, <2>3, <3>2 DEF Typed, TimerRecord
    <3> QED BY <2>3, <3>1, <3>3, <3>4 DEF Insertion, Armed
  <2> QED BY <2>2, <2>3
<1>20. ASSUME NEW c \in Threads, Mark(c) PROVE KeInsertions'
  <2>1. MarkEffect(c)
    BY <1>20, MarkDoes
  <2> DEFINE t == call[c].timer
  <2> SUFFICES ASSUME plan.calls = "Ke", NEW u \in Timers,
                      \A d \in Threads : call'[d].timer = u => Before(d)'
               PROVE  Insertion(u)'
    BY <1>0, <2>1 DEF MarkEffect, KeInsertions
  <2>2. CASE u # t
    <3>1. /\ UNCHANGED <<loop, expiring>> /\ timer'[u] = timer[u]
          /\ <<u, timer[u].set>> \in Items
               => item'[<<u, timer[u].set>>] = item[<<u, timer[u].set>>]
          /\ \A d \in Threads : d # c => call'[d] = call[d] /\ pc'[d] = pc[d]
      BY <2>1, <2>2 DEF MarkEffect, TimerBecomes, ItemBecomes, CallBecomes, PcBecomes
    <3>2. \A d \in Threads : call[d].timer = u => Before(d)
      BY <2>2, <3>1, OthersBefore
    <3>3. Insertion(u)
      BY <1>0, <3>2 DEF KeInsertions
    <3> QED BY <3>1, <3>3, TimerStays
  <2>3. CASE u = t
    <3>1. call'[c].timer = t /\ pc'[c] = "lock" /\ call'[c].kind = "set"
      BY <1>0, <2>1 DEF MarkEffect, PcBecomes, InCalls
    <3> QED BY <2>3, <3>1 DEF Before
  <2> QED BY <2>2, <2>3
<1>21. ASSUME NEW c \in Threads, Unmark(c) PROVE KeInsertions'
  <2>1. UnmarkEffect(c)
    BY <1>21, UnmarkDoes
  <2> DEFINE t == call[c].timer
  <2> SUFFICES ASSUME plan.calls = "Ke", NEW u \in Timers,
                      \A d \in Threads : call'[d].timer = u => Before(d)'
               PROVE  Insertion(u)'
    BY <1>0, <2>1 DEF UnmarkEffect, KeInsertions
  <2>2. CASE u # t
    <3>1. /\ UNCHANGED <<loop, expiring>> /\ timer'[u] = timer[u]
          /\ <<u, timer[u].set>> \in Items
               => item'[<<u, timer[u].set>>] = item[<<u, timer[u].set>>]
          /\ \A d \in Threads : d # c => call'[d] = call[d] /\ pc'[d] = pc[d]
      BY <2>1, <2>2 DEF UnmarkEffect, TimerBecomes, ItemBecomes, CallBecomes, PcBecomes
    <3>2. \A d \in Threads : call[d].timer = u => Before(d)
      BY <2>2, <3>1, OthersBefore
    <3>3. Insertion(u)
      BY <1>0, <3>2 DEF KeInsertions
    <3> QED BY <3>1, <3>3, TimerStays
  <2>3. CASE u = t
    <3>1. /\ UNCHANGED <<item, loop, expiring>> /\ timer'[t].set = timer[t].set
          /\ timer'[t].inserted = FALSE
      BY <2>1 DEF UnmarkEffect, TimerBecomes
    <3>2. ~Armed(t) \/ Ending(t)
      BY <1>0, <2>1 DEF UnmarkEffect, KeCalls, HeaderOf
    <3>3. (~Armed(u))' \/ Ending(u)'
      BY <2>3, <3>1, <3>2 DEF Armed, Ending
    <3> QED BY <2>3, <3>1, <3>3 DEF Insertion, Armed
  <2> QED BY <2>2, <2>3
<1> QED
  BY <1>1, <1>2, <1>3, <1>4, <1>5, <1>6, <1>7, <1>8, <1>9, <1>10, <1>11, <1>12, <1>13,
     <1>14, <1>15, <1>16, <1>17, <1>18, <1>19, <1>20, <1>21, PlanIs
  DEF Next, QueueActs, CallActs

(* In those calls, the header is what the call has made it.                  *)
LEMMA HeaderInCalls ==
  ASSUME IInv, Next
  PROVE  KeCalls'
<1>0. Typed /\ InOneCallback /\ SetInOrder /\ InCalls /\ PastDisarm /\ KeExpiries
      /\ KeInsertions /\ KeCalls /\ MaxSettings \in Nat /\ None \notin Threads
  BY TimersAssumption DEF IInv
<1>1. ASSUME Consume PROVE KeCalls'
  BY <1>0, <1>1 DEF Consume, KeCalls, HeaderOf, Disarmed, Ending, Armed
<1>2. ASSUME PopFront PROVE KeCalls'
  BY <1>0, <1>2 DEF PopFront, Fronts, KeCalls, HeaderOf, Disarmed, Ending, Armed
<1>3. ASSUME NoneDue PROVE KeCalls'
  BY <1>0, <1>3 DEF NoneDue, KeCalls, HeaderOf, Disarmed, Ending, Armed
<1>4. ASSUME Claim PROVE KeCalls'
  <2>1. ClaimEffect
    BY <1>4, ClaimDoes
  <2> QED BY <1>0, <2>1 DEF ClaimEffect, ItemBecomes, KeCalls, HeaderOf, Disarmed, Ending,
    Armed
<1>5. ASSUME SetSignal PROVE KeCalls'
  <2>1. SetSignalEffect
    BY <1>5, SetSignalDoes
  <2> SUFFICES ASSUME plan.calls = "Ke", NEW d \in Threads
               PROVE  HeaderOf(d)'
    BY <1>0, <2>1 DEF SetSignalEffect, KeCalls
  <2> DEFINE t == call[d].timer
  <2>2. HeaderOf(d) /\ (pc[d] # "out" => t \in Timers)
    BY <1>0 DEF KeCalls, InCalls
  <2>3. /\ loop = "signal" /\ UNCHANGED <<item, pc, call>>
        /\ \A u \in Timers : /\ timer'[u].set = timer[u].set
                              /\ timer'[u].header = timer[u].header
                              /\ timer'[u].inserted = timer[u].inserted
    BY <2>1 DEF SetSignalEffect, TimerBecomes
  <2> QED BY <2>2, <2>3 DEF HeaderOf, Disarmed, Armed, Ending, Past
<1>6. ASSUME SetHeader PROVE KeCalls'
  <2>1. SetHeaderEffect
    BY <1>6, SetHeaderDoes
  <2> SUFFICES ASSUME plan.calls = "Ke", NEW d \in Threads
               PROVE  HeaderOf(d)'
    BY <1>0, <2>1 DEF SetHeaderEffect, KeCalls
  <2> DEFINE t == call[d].timer
  <2>2. HeaderOf(d) /\ (pc[d] # "out" => t \in Timers)
    BY <1>0 DEF KeCalls, InCalls
  <2>3. /\ loop = "header" /\ UNCHANGED <<item, pc, call>> /\ Of \in Timers /\ ~Disarmed(Of)
        /\ \A u \in Timers : timer'[u].set = timer[u].set
        /\ \A u \in Timers : u # Of => timer'[u] = timer[u]
    BY <2>1, CallbackAlone DEF SetHeaderEffect, TimerBecomes, InItem, Callback
  <2>4. Disarmed(t) => t # Of
    BY <2>3
  <2> QED BY <2>2, <2>3, <2>4 DEF HeaderOf, Disarmed, Armed, Ending, Past
<1>7. ASSUME InsertApc PROVE KeCalls'
  <2>1. InsertApcEffect
    BY <1>7, InsertApcDoes
  <2> QED BY <1>0, <2>1 DEF InsertApcEffect, TimerBecomes, KeExpiries, KeCalls
<1>8. ASSUME Finish PROVE KeCalls'
  <2>1. FinishEffect
    BY <1>8, FinishDoes
  <2> QED BY <1>0, <2>1 DEF FinishEffect, ItemBecomes, KeExpiries, KeCalls, HeaderOf,
    Disarmed, Ending, Armed, Recurs
<1>9. ASSUME SelfDisarm PROVE KeCalls'
  <2>1. SelfDisarmEffect
    BY <1>9, SelfDisarmDoes
  <2> QED BY <1>0, <2>1 DEF SelfDisarmEffect, ItemBecomes, KeExpiries, KeCalls, HeaderOf,
    Disarmed, Ending, Armed
<1>10. ASSUME Tick PROVE KeCalls'
  BY <1>0, <1>10 DEF Tick, queueVars, KeCalls, HeaderOf, Disarmed, Ending, Armed
<1>11. ASSUME NEW t \in Timers, DeliverApc(t) PROVE KeCalls'
  <2>1. DeliverApcEffect(t)
    BY <1>11, DeliverApcDoes
  <2> SUFFICES ASSUME plan.calls = "Ke", NEW d \in Threads
               PROVE  HeaderOf(d)'
    BY <1>0, <2>1 DEF DeliverApcEffect, KeCalls
  <2> DEFINE w == call[d].timer
  <2>2. HeaderOf(d) /\ (pc[d] # "out" => w \in Timers)
    BY <1>0 DEF KeCalls, InCalls
  <2>3. /\ UNCHANGED <<loop, expiring, item, pc, call>>
        /\ \A u \in Timers : /\ timer'[u].set = timer[u].set
                              /\ timer'[u].header = timer[u].header
                              /\ timer'[u].inserted = timer[u].inserted
    BY <2>1 DEF DeliverApcEffect, TimerBecomes
  <2> QED BY <2>2, <2>3 DEF HeaderOf, Disarmed, Armed, Ending, Past
<1>12. ASSUME NEW t \in Timers, NEW c \in Threads, c \in plan.callers, SetTimer(c, t)
       PROVE KeCalls'
  <2>1. SetTimerEffect(c, t)
    BY <1>12, SetTimerDoes
  <2> QED BY <1>0, <2>1 DEF SetTimerEffect, CallBecomes, PcBecomes, KeCalls, HeaderOf,
    Disarmed, Ending, Armed, Past
<1>13. ASSUME NEW t \in Timers, NEW c \in Threads, c \in plan.callers, CancelTimer(c, t)
       PROVE KeCalls'
  <2>1. CancelTimerEffect(c, t)
    BY <1>13, CancelTimerDoes
  <2> QED BY <1>0, <2>1 DEF CancelTimerEffect, CallBecomes, PcBecomes, KeCalls, HeaderOf,
    Disarmed, Ending, Armed
<1>14. ASSUME NEW c \in Threads, TestInserted(c) PROVE KeCalls'
  <2>1. TestInsertedEffect(c)
    BY <1>14, TestInsertedDoes
  <2> DEFINE t == call[c].timer
  <2> SUFFICES ASSUME plan.calls = "Ke", NEW d \in Threads
               PROVE  HeaderOf(d)'
    BY <1>0, <2>1 DEF TestInsertedEffect, KeCalls
  <2>2. pc[c] # "out" /\ (d # c => pc'[d] = pc[d]) /\ t \in Timers
    BY <2>1 DEF TestInsertedEffect, PcBecomes
  <2>3. CASE d # c
    BY <2>2, <2>3, OthersHeaders
  <2>4. CASE d = c
    <3>1. HeaderOf(c)
      BY <1>0 DEF KeCalls
    <3>2. /\ pc[c] = "test" /\ UNCHANGED <<loop, expiring, item, timer, call>>
          /\ pc'[c] = IF timer[t].inserted THEN "lock" ELSE "unmark"
      BY <2>1 DEF TestInsertedEffect, PcBecomes
    <3>3. call[c].kind = "cancel"
      BY <1>0, <3>2 DEF InCalls
    <3>4. Insertion(t)
      <4>1. \A e \in Threads : Before(e)
        BY <3>2, KeAlone, CallerIs DEF Before
      <4> QED BY <1>0, <2>2, <4>1 DEF KeInsertions
    <3>5. ~timer[t].inserted => ~Armed(t) \/ Ending(t)
      BY <3>4 DEF Insertion
    <3> QED BY <2>4, <3>2, <3>3, <3>5 DEF HeaderOf, Past, Armed, Ending
  <2> QED BY <2>3, <2>4
<1>15. ASSUME NEW c \in Threads, Lock(c) PROVE KeCalls'
  <2>1. LockEffect(c)
    BY <1>15, LockDoes
  <2> DEFINE t == call[c].timer
  <2> SUFFICES ASSUME plan.calls = "Ke", NEW d \in Threads
               PROVE  HeaderOf(d)'
    BY <1>0, <2>1 DEF LockEffect, KeCalls
  <2>2. pc[c] # "out" /\ (d # c => pc'[d] = pc[d]) /\ t \in Timers
    BY <2>1 DEF LockEffect, PcBecomes
  <2>3. CASE d # c
    BY <2>2, <2>3, OthersHeaders
  <2>4. CASE d = c
    <3>1. HeaderOf(c)
      BY <1>0 DEF KeCalls
    <3>2. /\ pc'[c] = "disarm" /\ call'[c].timer = t /\ item' = item
          /\ call'[c].kind = "set" => pc[c] = "lock" /\ call[c].kind = "set"
          /\ timer'[t].set = timer[t].set /\ timer'[t].header = timer[t].header
          /\ timer'[t].inserted = timer[t].inserted
      BY <2>1 DEF LockEffect, PcBecomes, CallBecomes, TimerBecomes
    <3> QED BY <2>4, <3>1, <3>2 DEF HeaderOf, Past, Disarmed
  <2> QED BY <2>3, <2>4
<1>16. ASSUME NEW c \in Threads, Disarm(c) PROVE KeCalls'
  <2>1. DisarmEffect(c)
    BY <1>16, DisarmDoes
  <2> DEFINE t == call[c].timer
  <2> SUFFICES ASSUME plan.calls = "Ke", NEW d \in Threads
               PROVE  HeaderOf(d)'
    BY <1>0, <2>1 DEF DisarmEffect, KeCalls
  <2>2. pc[c] # "out" /\ (d # c => pc'[d] = pc[d]) /\ t \in Timers
    BY <2>1 DEF DisarmEffect, PcBecomes
  <2>3. CASE d # c
    BY <2>2, <2>3, OthersHeaders
  <2>4. CASE d = c
    <3>1. HeaderOf(c)
      BY <1>0 DEF KeCalls
    <3>2. /\ pc[c] = "disarm" /\ pc'[c] = "remove" /\ UNCHANGED <<timer, call>>
      BY <2>1 DEF DisarmEffect, PcBecomes
    <3>3. Disarmed(t) => Disarmed(t)'
      BY <2>1 DEF DisarmEffect, Disarmed
    <3> QED BY <2>4, <3>1, <3>2, <3>3 DEF HeaderOf, Past
  <2> QED BY <2>3, <2>4
<1>17. ASSUME NEW c \in Threads, Remove(c) PROVE KeCalls'
  <2>1. RemoveEffect(c)
    BY <1>17, RemoveDoes
  <2> DEFINE t == call[c].timer
  <2> SUFFICES ASSUME plan.calls = "Ke", NEW d \in Threads
               PROVE  HeaderOf(d)'
    BY <1>0, <2>1 DEF RemoveEffect, KeCalls
  <2>2. pc[c] # "out" /\ (d # c => pc'[d] = pc[d]) /\ t \in Timers
    BY <2>1 DEF RemoveEffect, PcBecomes
  <2>3. CASE d # c
    BY <2>2, <2>3, OthersHeaders
  <2>4. CASE d = c
    <3>1. HeaderOf(c)
      BY <1>0 DEF KeCalls
    <3>2. /\ pc[c] = "remove" /\ call'[c].timer = t /\ item' = item
          /\ \/ pc'[c] = "reset" /\ call[c].kind = "set"
             \/ pc'[c] \in {"mark", "unmark"}
          /\ timer'[t].set = timer[t].set /\ timer'[t].header = timer[t].header
          /\ timer'[t].inserted = timer[t].inserted
      BY <2>1 DEF RemoveEffect, PcBecomes, CallBecomes, TimerBecomes
    <3>3. Disarmed(t)
      BY <1>0, <3>2 DEF PastDisarm, Past
    <3>4. Disarmed(t)' /\ ~Armed(t)'
      BY <2>2, <3>2, <3>3 DEF Disarmed, Armed
    <3> QED BY <2>4, <3>1, <3>2, <3>4 DEF HeaderOf, Past
  <2> QED BY <2>3, <2>4
<1>18. ASSUME NEW c \in Threads, Reset(c) PROVE KeCalls'
  <2>1. ResetEffect(c)
    BY <1>18, ResetDoes
  <2> DEFINE t == call[c].timer
  <2> SUFFICES ASSUME plan.calls = "Ke", NEW d \in Threads
               PROVE  HeaderOf(d)'
    BY <1>0, <2>1 DEF ResetEffect, KeCalls
  <2>2. pc[c] # "out" /\ (d # c => pc'[d] = pc[d]) /\ t \in Timers
    BY <2>1 DEF ResetEffect, PcBecomes
  <2>3. CASE d # c
    BY <2>2, <2>3, OthersHeaders
  <2>4. CASE d = c
    <3>1. HeaderOf(c)
      BY <1>0 DEF KeCalls
    <3>2. /\ pc[c] = "reset" /\ pc'[c] = "arm" /\ call' = call /\ item' = item
          /\ timer'[t].set = timer[t].set /\ timer'[t].header = timer[t].header
          /\ timer'[t].inserted = timer[t].inserted
      BY <2>1 DEF ResetEffect, PcBecomes, TimerBecomes
    <3> QED BY <2>4, <3>1, <3>2 DEF HeaderOf, Past, Disarmed
  <2> QED BY <2>3, <2>4
<1>19. ASSUME NEW c \in Threads, Arm(c) PROVE KeCalls'
  <2>1. ArmEffect(c)
    BY <1>19, ArmDoes
  <2> DEFINE t == call[c].timer
  <2> SUFFICES ASSUME plan.calls = "Ke", NEW d \in Threads
               PROVE  HeaderOf(d)'
    BY <1>0, <2>1 DEF ArmEffect, KeCalls
  <2>2. pc[c] # "out" /\ (d # c => pc'[d] = pc[d]) /\ t \in Timers
    BY <2>1 DEF ArmEffect, PcBecomes
  <2>3. CASE d # c
    BY <2>2, <2>3, OthersHeaders
  <2>4. CASE d = c
    <3>1. HeaderOf(c)
      BY <1>0 DEF KeCalls
    <3>2. pc'[c] = "out"
      BY <2>1 DEF ArmEffect, PcBecomes
    <3> QED BY <2>4, <3>2 DEF HeaderOf, Past
  <2> QED BY <2>3, <2>4
<1>20. ASSUME NEW c \in Threads, Mark(c) PROVE KeCalls'
  <2>1. MarkEffect(c)
    BY <1>20, MarkDoes
  <2> DEFINE t == call[c].timer
  <2> SUFFICES ASSUME plan.calls = "Ke", NEW d \in Threads
               PROVE  HeaderOf(d)'
    BY <1>0, <2>1 DEF MarkEffect, KeCalls
  <2>2. pc[c] # "out" /\ (d # c => pc'[d] = pc[d]) /\ t \in Timers
    BY <2>1 DEF MarkEffect, PcBecomes
  <2>3. CASE d # c
    BY <2>2, <2>3, OthersHeaders
  <2>4. CASE d = c
    <3>1. HeaderOf(c)
      BY <1>0 DEF KeCalls
    <3>2. /\ pc[c] = "mark" /\ pc'[c] = "lock" /\ call' = call /\ item' = item
          /\ timer'[t].set = timer[t].set /\ timer'[t].header = 0
          /\ timer'[t].inserted = TRUE
      BY <2>1 DEF MarkEffect, PcBecomes, TimerBecomes
    <3> QED BY <2>4, <3>1, <3>2 DEF HeaderOf, Past, Disarmed
  <2> QED BY <2>3, <2>4
<1>21. ASSUME NEW c \in Threads, Unmark(c) PROVE KeCalls'
  <2>1. UnmarkEffect(c)
    BY <1>21, UnmarkDoes
  <2> DEFINE t == call[c].timer
  <2> SUFFICES ASSUME plan.calls = "Ke", NEW d \in Threads
               PROVE  HeaderOf(d)'
    BY <1>0, <2>1 DEF UnmarkEffect, KeCalls
  <2>2. pc[c] # "out" /\ (d # c => pc'[d] = pc[d]) /\ t \in Timers
    BY <2>1 DEF UnmarkEffect, PcBecomes
  <2>3. CASE d # c
    BY <2>2, <2>3, OthersHeaders
  <2>4. CASE d = c
    <3>1. HeaderOf(c)
      BY <1>0 DEF KeCalls
    <3>2. pc'[c] = "out"
      BY <2>1 DEF UnmarkEffect, PcBecomes
    <3> QED BY <2>4, <3>2 DEF HeaderOf, Past
  <2> QED BY <2>3, <2>4
<1> QED
  BY <1>1, <1>2, <1>3, <1>4, <1>5, <1>6, <1>7, <1>8, <1>9, <1>10, <1>11, <1>12, <1>13,
     <1>14, <1>15, <1>16, <1>17, <1>18, <1>19, <1>20, <1>21, PlanIs
  DEF Next, QueueActs, CallActs

(* Each part of the invariant is kept by every step.                         *)
LEMMA StepKeeps ==
  ASSUME IInv, Next
  PROVE  IInv'
<1>1. Typed' /\ QueueTyped' /\ InOneCallback' /\ SetInOrder' /\ InCalls'
  BY RecordsTyped, QueueIsTyped, OneCallback, OrderedSettings, CallsGoOn
<1>2. PastDisarm' /\ Currents' /\ NtHeaders' /\ KeExpiries' /\ KeInsertions' /\ KeCalls'
  BY DisarmHolds, CurrentStays, NoHeaders, Expiries, Insertions, HeaderInCalls
<1> QED BY <1>1, <1>2 DEF IInv

(* The invariant holds at the start.                                        *)
LEMMA StartsWell ==
  ASSUME Init
  PROVE  IInv
<1> USE DEF Init
<1>0. 0 \in 0 .. MaxSettings /\ 0 \in 0 .. MaxClock /\ RingSize \in Nat
      /\ MaxSettings \in Nat
  BY TimersAssumption
<1>1. Typed
  <2>1. [state |-> "none", due |-> 0, interval |-> 0] \in ItemRecord
    BY DEF ItemRecord, States
  <2>2. [set |-> 0, lock |-> None, signal |-> 0, apc |-> 0, header |-> 0,
         inserted |-> FALSE] \in TimerRecord
    BY <1>0 DEF TimerRecord
  <2>3. NoCall \in CallRecord /\ "out" \in Pcs
    BY DEF NoCall, CallRecord, Pcs
  <2> QED BY <2>1, <2>2, <2>3 DEF Typed
<1>2. QueueTyped
  <2>1. <<>> \in Seq(Items) /\ Len(<<>>) = 0
    OBVIOUS
  <2> QED BY <1>0, <2>1 DEF QueueTyped
<1>3. \A t \in Timers : /\ timer[t].set = 0 /\ timer[t].signal = 0 /\ timer[t].apc = 0
                        /\ timer[t].header = 0 /\ timer[t].inserted = FALSE
                        /\ <<t, 0>> \notin Items
  BY <1>0 DEF Items, Settings
<1>4. \A i \in Items : item[i].state = "none"
  OBVIOUS
<1>5. InOneCallback
  BY <1>4 DEF InOneCallback, Callback
<1>6. SetInOrder
  <2>1. \A n \in Settings : n \in Int /\ n > 0
    BY <1>0 DEF Settings
  <2>2. \A t \in Timers, n \in Settings : item[<<t, n>>].state = "none"
    BY <1>4 DEF Items
  <2> HIDE DEF Init
  <2> SUFFICES ASSUME NEW t \in Timers, NEW n \in Settings
               PROVE  /\ n > timer[t].set => item[<<t, n>>].state = "none"
                      /\ n < timer[t].set => item[<<t, n>>].state = "disarmed"
                      /\ n = timer[t].set => item[<<t, n>>].state # "none"
    BY DEF SetInOrder
  <2>3. timer[t].set = 0 /\ n \in Int /\ n > 0 /\ item[<<t, n>>].state = "none"
    BY <1>3, <2>1, <2>2
  <2> QED BY <2>3
<1>7. InCalls /\ PastDisarm
  BY DEF InCalls, PastDisarm, Past
<1>8. Currents /\ NtHeaders
  BY <1>3 DEF Currents, Current, NtHeaders
<1>9. KeExpiries /\ KeCalls
  BY DEF KeExpiries, KeCalls, HeaderOf, Past
<1>10. KeInsertions
  BY <1>3 DEF KeInsertions, Insertion, Armed
<1> HIDE DEF Init
<1> QED BY <1>1, <1>2, <1>5, <1>6, <1>7, <1>8, <1>9, <1>10 DEF IInv

(* The invariant holds in every behaviour.                                  *)
LEMMA Inductive == Spec => []IInv
<1>1. ASSUME IInv, UNCHANGED vars PROVE IInv'
  <2> USE <1>1 DEF vars, queueVars
  <2>1. Typed' /\ QueueTyped' /\ InOneCallback' /\ SetInOrder'
    BY DEF IInv, Typed, QueueTyped, InOneCallback, SetInOrder
  <2>2. InCalls' /\ PastDisarm' /\ Currents' /\ NtHeaders'
    BY DEF IInv, InCalls, PastDisarm, Disarmed, Currents, Current, NtHeaders
  <2>3. KeExpiries' /\ KeInsertions' /\ KeCalls'
    BY DEF IInv, KeExpiries, KeInsertions, KeCalls, HeaderOf, Before, Insertion, Ending,
           Armed, Disarmed, Of
  <2> QED BY <2>1, <2>2, <2>3 DEF IInv
<1>2. IInv /\ [Next]_vars => IInv'
  BY <1>1, StepKeeps
<1> QED BY <1>2, StartsWell, PTL DEF Spec

-----------------------------------------------------------------------------
(* Every variable keeps to its values.                                       *)
THEOREM TimersTypeCorrect == Spec => []TypeOK
<1>1. IInv => TypeOK
  BY Types DEF IInv
<1> QED BY <1>1, Inductive, PTL

(* xtimer.cc and threading_timer_queue.cc: whatever the threads that set and *)
(* cancel timers and the thread that runs the callbacks do, the signal, the  *)
(* header and the APC of a timer are of its latest setting, nothing of an    *)
(* older one comes once a call is past its Disarm, and the header of a       *)
(* KTIMER tells the next call whether it is armed.                           *)
THEOREM NoStaleExpiry == Spec => []ExpiryIsCurrent
<1>1. ASSUME IInv PROVE ExpiryIsCurrent
  <2>1. InsertedIsArmed
    <3> SUFFICES ASSUME NEW t \in Timers, plan.calls = "Ke",
                        \A c \in Threads : pc[c] = "out",
                        timer[t].inserted # Armed(t)
                 PROVE  loop = "finish" /\ expiring = <<t, timer[t].set>>
      BY DEF InsertedIsArmed
    <3>1. Insertion(t)
      BY <1>1 DEF IInv, KeInsertions, Before
    <3> QED BY <3>1 DEF Insertion, Ending
  <2>2. \A t \in Timers : /\ Current(t, timer[t].signal)
                          /\ Current(t, timer[t].header)
                          /\ Current(t, timer[t].apc)
    BY <1>1 DEF IInv, Currents
  <2>3. \A c \in Threads :
          /\ pc[c] \in {"remove", "reset", "arm"} => ~Armed(call[c].timer)
          /\ pc[c] \in {"reset", "arm"} => timer[call[c].timer].apc = 0
          /\ pc[c] = "arm" => timer[call[c].timer].signal = 0
    BY <1>1 DEF IInv, PastDisarm, Past, Disarmed, Armed
  <2> QED BY <2>1, <2>2, <2>3 DEF ExpiryIsCurrent
<1> QED BY <1>1, Inductive, PTL

=============================================================================
