------------------------------- MODULE Timers -------------------------------
(* The guest's timers: XTimer (kernel/xtimer.cc) and the exports that set    *)
(* and cancel them, on the host timer of the POSIX build, on the timer queue *)
(* (base/threading_timer_queue.cc), whose one thread runs all callbacks.     *)
(*                                                                           *)
(* Each setting of a timer is an item of its own, which the setter publishes *)
(* in a ring and the thread of the queue moves to its wait queue.  A timer   *)
(* that is set again or cancelled disarms its item and waits for a callback  *)
(* that is running.  What an expiry leaves behind, the signal, the guest's   *)
(* header and a queued APC, carries here the number of the setting it is of. *)
EXTENDS Integers, Sequences, FiniteSets

CONSTANTS
    Timers,
    Threads,        \* guest threads that set and cancel them
    None,
    MaxSettings,    \* bound on the settings of a timer
    MaxClock,       \* bound on the time
    Delays,         \* due times, from now
    RingSize,       \* kWaitCount, 512
    Plans           \* bounds, of which a behaviour picks one:
                    \*   timers     timers there are,
                    \*   settings   settings of each, MaxSettings at most
                    \*   callers    threads that set and cancel them,
                    \*   calls      "Nt", timer objects, or "Ke", KTIMERs,
                    \*              which one thread sets and cancels and
                    \*              whose callbacks disarm nothing
                    \*   intervals  of recurring timers, 0 for one-shot ones
                    \*   disarms    callbacks disarm their own item

ASSUME TimersAssumption ==
    /\ {MaxSettings, MaxClock} \subseteq Nat /\ RingSize \in Nat \ {0}
    /\ Delays \subseteq Nat
    /\ Plans \subseteq [timers : SUBSET Timers, settings : 0 .. MaxSettings,
                        callers : SUBSET Threads, calls : {"Nt", "Ke"},
                        intervals : SUBSET Nat, disarms : BOOLEAN]
    /\ \A p \in Plans : p.calls = "Ke" =>
         ~p.disarms /\ \E c \in Threads : p.callers \subseteq {c}
    /\ None \notin Timers /\ None \notin Threads

Settings == 1 .. MaxSettings
Items == Timers \X Settings

VARIABLES
    plan,       \* which of Plans
    now,        \* clock::now()
    ring,       \* items published and not yet consumed
    waiting,    \* wait_queue_, of which the earliest item is the front
    again,      \* recurring items that go back once all that are due have run
    loop,       \* where the thread of the queue is
    expiring,   \* the item it is about
    item,       \* state_, due_ and interval_ of each item
    timer,      \* of each timer: how often it was set, who has timer_lock_, and
                \* the settings its signal, header and queued APC are of
    pc,         \* where each guest thread is in its call
    call        \* the timer, the call and what it sets

queueVars == <<ring, waiting, again, loop, expiring>>
vars == <<plan, now, queueVars, item, timer, pc, call>>

States == {"none", "idle", "inCallback", "inCallbackSelfDisarmed", "disarmed"}
Pcs == {"out", "cancelFirst", "test", "lock", "disarm", "remove", "reset", "arm",
        "mark", "unmark"}

NoCall == [timer |-> None, kind |-> "none", due |-> 0, interval |-> 0]

Init ==
    /\ plan \in Plans
    /\ now = 0 /\ ring = <<>> /\ waiting = {} /\ again = {}
    /\ loop = "wait" /\ expiring = None
    /\ item = [i \in Items |-> [state |-> "none", due |-> 0, interval |-> 0]]
    /\ timer = [t \in Timers |-> [set |-> 0, lock |-> None, signal |-> 0, apc |-> 0,
                                  header |-> 0, inserted |-> FALSE]]
    /\ pc = [c \in Threads |-> "out"]
    /\ call = [c \in Threads |-> NoCall]

Goes(c, from, to) == pc[c] = from /\ pc' = [pc EXCEPT ![c] = to]
Returns(c, from) == Goes(c, from, "out") /\ call' = [call EXCEPT ![c] = NoCall]

-----------------------------------------------------------------------------
(* The thread of the queue (TimerThreadMain).                                *)

Due(items) == {i \in items : item[i].due <= now}
Fronts(items) == {i \in items : \A k \in items : item[i].due <= item[k].due}

(* It waits for an item to be published or for the front to be due.  Mutant: *)
(* for an item alone.                                                        *)
WakesForItems == ring # <<>>
Wakes == ring # <<>> \/ Due(waiting) # {}

Published == {ring[i] : i \in DOMAIN ring}

Consume ==
    /\ loop = "wait" /\ Wakes
    /\ loop' = "expire"
    /\ waiting' = waiting \cup Published /\ ring' = <<>>
    /\ UNCHANGED <<plan, now, again, expiring, item, timer, pc, call>>

PopFront ==
    /\ loop = "expire" /\ Due(waiting) # {}
    /\ \E i \in Fronts(waiting) :
         waiting' = waiting \ {i} /\ expiring' = i
    /\ loop' = "claim"
    /\ UNCHANGED <<plan, now, ring, again, item, timer, pc, call>>

NoneDue ==
    /\ loop = "expire" /\ Due(waiting) = {}
    /\ waiting' = waiting \cup again /\ again' = {}
    /\ loop' = "wait"
    /\ UNCHANGED <<plan, now, ring, expiring, item, timer, pc, call>>

(* An item that was disarmed is dropped.                                     *)
Claim ==
    /\ loop = "claim"
    /\ IF item[expiring].state = "idle"
       THEN /\ loop' = "signal" /\ UNCHANGED expiring
            /\ item' = [item EXCEPT ![expiring].state = "inCallback"]
       ELSE loop' = "expire" /\ expiring' = None /\ UNCHANGED item
    /\ UNCHANGED <<plan, now, ring, waiting, again, timer, pc, call>>

(* The callback of XTimer: it sets the signal, then the header of a KTIMER   *)
(* or, for a timer object with a routine, queues its APC unless it is queued.*)
Of == expiring[1]
Setting == expiring[2]

SetSignal ==
    /\ loop = "signal"
    /\ timer' = [timer EXCEPT ![Of].signal = Setting]
    /\ loop' = IF plan.calls = "Ke" THEN "header" ELSE "apc"
    /\ UNCHANGED <<plan, now, ring, waiting, again, expiring, item, pc, call>>

SetHeader ==
    /\ loop = "header"
    /\ timer' = [timer EXCEPT ![Of].header = Setting,
                              ![Of].inserted = @ /\ item[expiring].interval # 0]
    /\ loop' = "finish"
    /\ UNCHANGED <<plan, now, ring, waiting, again, expiring, item, pc, call>>

InsertApc ==
    /\ loop = "apc"
    /\ timer' = [timer EXCEPT ![Of].apc = IF @ = 0 THEN Setting ELSE @]
    /\ loop' = "finish"
    /\ UNCHANGED <<plan, now, ring, waiting, again, expiring, item, pc, call>>

SelfDisarm ==
    /\ plan.disarms /\ loop = "finish" /\ item[expiring].state = "inCallback"
    /\ item' = [item EXCEPT ![expiring].state = "inCallbackSelfDisarmed"]
    /\ UNCHANGED <<plan, now, queueVars, timer, pc, call>>

(* What recurs, and did not disarm itself, goes back to the queue.           *)
Recurs(i) == item[i].interval # 0 /\ item[i].state # "inCallbackSelfDisarmed"

Finish ==
    /\ loop = "finish"
    /\ IF Recurs(expiring)
       THEN /\ item' = [item EXCEPT ![expiring].state = "idle",
                                    ![expiring].due = @ + item[expiring].interval]
            /\ again' = again \cup {expiring}
       ELSE /\ item' = [item EXCEPT ![expiring].state = "disarmed"]
            /\ UNCHANGED again
    /\ loop' = "expire" /\ expiring' = None
    /\ UNCHANGED <<plan, now, ring, waiting, timer, pc, call>>

-----------------------------------------------------------------------------
(* Setting and cancelling a timer.                                           *)

Calls(c, t, kind, interval) ==
    call' = [call EXCEPT ![c] = [timer |-> t, kind |-> kind, due |-> 0,
                                 interval |-> interval]]

(* NtSetTimerEx and KeSetTimerEx, which cancels first so that an expiry of   *)
(* the previous setting cannot overwrite the new one.                        *)
SetTimer(c, t) ==
    /\ \E interval \in plan.intervals : Calls(c, t, "set", interval)
    /\ Goes(c, "out", IF plan.calls = "Ke" THEN "cancelFirst" ELSE "lock")
    /\ UNCHANGED <<plan, now, queueVars, item, timer>>

(* NtCancelTimer and KeCancelTimer.                                          *)
CancelTimer(c, t) ==
    /\ Calls(c, t, "cancel", 0)
    /\ Goes(c, "out", IF plan.calls = "Ke" THEN "test" ELSE "lock")
    /\ UNCHANGED <<plan, now, queueVars, item, timer>>

(* A KTIMER that is not inserted is not cancelled.                           *)
TestInserted(c) ==
    /\ Goes(c, "test", IF timer[call[c].timer].inserted THEN "lock" ELSE "unmark")
    /\ UNCHANGED <<plan, now, queueVars, item, timer, call>>

(* XTimer::SetTimer and XTimer::Cancel hold timer_lock_ from here on; the    *)
(* former then takes the due time, and "first" is the Cancel of KeSetTimerEx.*)
Lock(c) ==
    /\ \/ /\ Goes(c, "cancelFirst", "disarm")
          /\ call' = [call EXCEPT ![c].kind = "first"]
       \/ /\ Goes(c, "lock", "disarm") /\ call[c].kind = "set"
          /\ \E delay \in Delays : call' = [call EXCEPT ![c].due = now + delay]
       \/ /\ Goes(c, "lock", "disarm") /\ call[c].kind = "cancel"
          /\ UNCHANGED call
    /\ timer[call[c].timer].lock = None
    /\ timer' = [timer EXCEPT ![call[c].timer].lock = c]
    /\ UNCHANGED <<plan, now, queueVars, item>>

(* Disarm: it spins while the callback runs.  Mutant: it does not.           *)
Item(c) == <<call[c].timer, timer[call[c].timer].set>>
MayDisarmAtOnce(i) == TRUE
InCallback(i) == i \in Items /\ item[i].state \notin {"idle", "disarmed"}
MayDisarm(i) == ~InCallback(i)

Disarm(c) ==
    /\ Goes(c, "disarm", "remove")
    /\ MayDisarm(Item(c))
    /\ item' = [i \in Items |-> IF i = Item(c) /\ item[i].state = "idle"
                                THEN [item[i] EXCEPT !.state = "disarmed"]
                                ELSE item[i]]
    /\ UNCHANGED <<plan, now, queueVars, timer, call>>

(* RemoveApc, with which Cancel ends.                                        *)
Remove(c) ==
    LET t == call[c].timer
    IN  /\ \/ /\ call[c].kind = "set" /\ Goes(c, "remove", "reset")
              /\ timer' = [timer EXCEPT ![t].apc = 0]
              /\ UNCHANGED call
           \/ /\ call[c].kind = "first" /\ Goes(c, "remove", "mark")
              /\ timer' = [timer EXCEPT ![t].apc = 0, ![t].lock = None]
              /\ call' = [call EXCEPT ![c].kind = "set"]
           \/ /\ call[c].kind = "cancel"
              /\ timer' = [timer EXCEPT ![t].apc = 0, ![t].lock = None]
              /\ IF plan.calls = "Ke" THEN Goes(c, "remove", "unmark") /\ UNCHANGED call
                                      ELSE Returns(c, "remove")
        /\ UNCHANGED <<plan, now, queueVars, item>>

Reset(c) ==
    /\ Goes(c, "reset", "arm")
    /\ timer' = [timer EXCEPT ![call[c].timer].signal = 0]
    /\ UNCHANGED <<plan, now, queueVars, item, call>>

(* QueueTimer waits for room in the ring; the item it disarms first is the   *)
(* one that is disarmed.                                                     *)
Latest(a, b) == IF a < b THEN b ELSE a
Arm(c) ==
    LET t == call[c].timer
        new == <<t, timer[t].set + 1>>
    IN  /\ Returns(c, "arm") /\ new \in Items /\ Len(ring) < RingSize
        /\ item' = [item EXCEPT ![new] =
                      [state |-> "idle", interval |-> call[c].interval,
                       due |-> Latest(now - call[c].interval, call[c].due)]]
        /\ ring' = Append(ring, new)
        /\ timer' = [timer EXCEPT ![t].set = @ + 1, ![t].lock = None]
        /\ UNCHANGED <<plan, now, waiting, again, loop, expiring>>

(* KeSetTimerEx between its two calls, and the end of KeCancelTimer.         *)
Mark(c) ==
    /\ Goes(c, "mark", "lock")
    /\ timer' = [timer EXCEPT ![call[c].timer].inserted = TRUE,
                              ![call[c].timer].header = 0]
    /\ UNCHANGED <<plan, now, queueVars, item, call>>

Unmark(c) ==
    /\ Returns(c, "unmark")
    /\ timer' = [timer EXCEPT ![call[c].timer].inserted = FALSE]
    /\ UNCHANGED <<plan, now, queueVars, item>>

(* The thread an APC is queued to delivers it.                               *)
DeliverApc(t) ==
    /\ timer[t].apc # 0
    /\ timer' = [timer EXCEPT ![t].apc = 0]
    /\ UNCHANGED <<plan, now, queueVars, item, pc, call>>

Tick ==
    /\ now < MaxClock
    /\ now' = now + 1
    /\ UNCHANGED <<plan, queueVars, item, timer, pc, call>>

-----------------------------------------------------------------------------
QueueActs ==
    \/ Consume \/ PopFront \/ NoneDue \/ Claim
    \/ SetSignal \/ SetHeader \/ InsertApc \/ Finish

CallActs(c) ==
    \/ TestInserted(c) \/ Lock(c) \/ Disarm(c) \/ Remove(c) \/ Reset(c) \/ Arm(c)
    \/ Mark(c) \/ Unmark(c)

Setters(t) == {c \in Threads : call[c].timer = t /\ call[c].kind # "cancel"}
MayBeSet(t) == timer[t].set + Cardinality(Setters(t)) < plan.settings

Next ==
    \/ QueueActs \/ SelfDisarm \/ Tick
    \/ \E t \in plan.timers :
         \/ DeliverApc(t)
         \/ \E c \in plan.callers :
              \/ MayBeSet(t) /\ SetTimer(c, t)
              \/ CancelTimer(c, t)
    \/ \E c \in Threads : CallActs(c)

Spec == Init /\ [][Next]_vars

(* Time goes on and host threads run.                                        *)
FairSpec ==
    /\ Spec /\ WF_vars(QueueActs)
    /\ \A c \in Threads : WF_vars(CallActs(c))

-----------------------------------------------------------------------------
(* Properties.                                                               *)

(* Every variable keeps to its values.                                       *)
TypeOK ==
    /\ plan \in Plans
    /\ now \in 0 .. MaxClock /\ ring \in Seq(Items) /\ Len(ring) <= RingSize
    /\ waiting \subseteq Items /\ again \subseteq Items
    /\ loop \in {"wait", "expire", "claim", "signal", "header", "apc", "finish"}
    /\ expiring \in Items \cup {None}
    /\ item \in [Items -> [state : States, due : Int, interval : Nat]]
    /\ timer \in [Timers -> [set : 0 .. MaxSettings, lock : Threads \cup {None},
                             signal : 0 .. MaxSettings, apc : 0 .. MaxSettings,
                             header : 0 .. MaxSettings, inserted : BOOLEAN]]
    /\ pc \in [Threads -> Pcs]
    /\ call \in [Threads -> [timer : Timers \cup {None}, due : Nat, interval : Nat,
                             kind : {"none", "set", "first", "cancel"}]]

Current(t, n) == n = 0 \/ n = timer[t].set

Armed(t) ==
    LET i == <<t, timer[t].set>>
    IN  i \in Items /\ item[i].state \in {"idle", "inCallback"}

(* The header of a KTIMER, by which KeCancelTimer knows whether there is     *)
(* something to cancel, says that it is inserted exactly while it is armed,  *)
(* but for the end of the callback of a one-shot timer.                      *)
InsertedIsArmed ==
    \A t \in Timers :
        /\ plan.calls = "Ke" /\ \A c \in Threads : pc[c] = "out"
        /\ timer[t].inserted # Armed(t)
        => loop = "finish" /\ expiring = <<t, timer[t].set>>

(* No expiry outlives its setting: the signal, the header and the APC of a   *)
(* timer are of its latest setting, as long as a KTIMER is set by one thread *)
(* only, and once a call that sets or cancels a timer is past its Disarm,    *)
(* nothing of the old setting comes any more.                                *)
ExpiryIsCurrent ==
    /\ InsertedIsArmed
    /\ \A t \in Timers : /\ Current(t, timer[t].signal)
                          /\ Current(t, timer[t].header)
                          /\ Current(t, timer[t].apc)
    /\ \A c \in Threads :
         LET t == call[c].timer
         IN  /\ pc[c] \in {"remove", "reset", "arm"} => ~Armed(t)
             /\ pc[c] \in {"reset", "arm"} => timer[t].apc = 0
             /\ pc[c] = "arm" => timer[t].signal = 0

(* A timer that is due expires unless it is disarmed, and who waits for a    *)
(* callback of the timer, with its lock, gets to go on.                      *)
TimersFire ==
    /\ \A i \in Items :
         item[i].state = "idle" /\ item[i].due <= now
           ~> item[i].state # "idle" \/ item[i].due > now
    /\ \A c \in Threads : pc[c] = "disarm" ~> pc[c] # "disarm"

=============================================================================
