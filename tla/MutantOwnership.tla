-------------------------- MODULE MutantOwnership --------------------------
(***************************************************************************)
(* Who owns a guest mutant: src/src/xenia/kernel/xmutant.cc, with the      *)
(* lookups that precede every call that names one and the sweep of         *)
(* XThread::Exit and XThread::Terminate.                                   *)
(*                                                                         *)
(* The host semaphore free_signal_ is the token: it is free or exactly one *)
(* thread has it, in owning_thread_ or on its way there or back.  Nothing  *)
(* but the lookups is under a lock, so every access to a field that two    *)
(* threads use is a step, in the order of the source.                      *)
(***************************************************************************)
EXTENDS Integers, Sequences, FiniteSets

CONSTANTS
  Threads,   \* guest threads
  Leavers,   \* those that exit
  Victims,   \* those that another thread terminates
  MaxDepth,  \* bound on recursive acquires
  Guests,    \* what guests do: "pointer", calls name the object by its guest
             \* address, else by handle; "reinit", they initialize it again
  None

ASSUME MutantAssumption ==
  /\ MaxDepth \in Nat \ {0}
  /\ Guests \subseteq {{}, {"pointer"}, {"pointer", "reinit"}}
  /\ Leavers \subseteq Threads /\ Victims \subseteq Threads
  /\ None \notin Threads

VARIABLES
  host,       \* count of free_signal_
  owner,      \* owning_thread_
  recursion,  \* recursion_count_
  header,     \* signal_state of the guest object
  chain,      \* the thread whose mutants_list has it, KMUTANT.owner
  abandoned,  \* KMUTANT.abandoned
  lock,       \* holder of the global critical region
  pc,         \* where each thread is in its call
  purpose,    \* what it does after its lookup
  sampled,    \* the owner it read, in SyncFromGuest, Wait or WaitCallback
  sweep,      \* where AbandonAllOwnedByThread is with the thread
  held,       \* how often the guest code of a thread has acquired it
  ops         \* which of Guests this one is

kernelVars == <<host, owner, recursion, header, chain, abandoned>>
vars == <<kernelVars, lock, pc, purpose, sampled, sweep, held, ops>>

Pcs == {"out", "sample", "check", "swap", "syncUnlink", "syncGive",
        "wait", "poll", "header", "load", "owner", "insert", "recurse", "status",
        "release", "decrement", "clear", "bump", "bumpOnly", "unlink", "give", "dead"}

SweepPcs == {"no", "mark", "header", "swap", "give", "done"}

Init ==
  /\ host = 1 /\ owner = None /\ recursion = 0 /\ header = 1
  /\ chain = None /\ abandoned = FALSE /\ lock = None
  /\ pc = [t \in Threads |-> "out"]
  /\ purpose = [t \in Threads |-> "wait"]
  /\ sampled = [t \in Threads |-> None]
  /\ sweep = [t \in Threads |-> "no"]
  /\ held = [t \in Threads |-> 0]
  /\ ops \in Guests

Goes(t, from, to) == pc[t] = from /\ pc' = [pc EXCEPT ![t] = to]
Rest == UNCHANGED <<purpose, sampled, sweep, held, ops>>

-----------------------------------------------------------------------------
(* Lookups                                                                 *)

(* A wait or a release begins by looking the object up.  Guest code        *)
(* releases what it has acquired, and now and then what is not its own.    *)
Call(t, what) ==
  /\ lock = None
  /\ what = "wait" => held[t] < MaxDepth
  /\ what = "release" => held[t] > 0 \/ owner # t
  /\ purpose' = [purpose EXCEPT ![t] = what]
  /\ IF "pointer" \in ops
     THEN lock' = t /\ Goes(t, "out", "sample")
     ELSE UNCHANGED lock /\ Goes(t, "out", what)
  /\ UNCHANGED <<kernelVars, sampled, sweep, held, ops>>

LookedUp(t, from) == lock' = None /\ Goes(t, from, purpose[t])

(* SyncFromGuest, under the global critical region.                        *)
SyncSample(t) ==
  /\ sampled' = [sampled EXCEPT ![t] = owner]
  /\ \/ owner = None /\ LookedUp(t, "sample")
     \/ owner # None /\ Goes(t, "sample", "check") /\ UNCHANGED lock
  /\ UNCHANGED <<kernelVars, purpose, sweep, held, ops>>

SyncCheck(t) ==
  /\ \/ header < 1 /\ LookedUp(t, "check")
     \/ header >= 1 /\ Goes(t, "check", "swap") /\ UNCHANGED lock
  /\ UNCHANGED kernelVars /\ Rest

Swaps(t) == owner = sampled[t]

SyncSwap(t) ==
  /\ \/ /\ ~Swaps(t) /\ LookedUp(t, "swap")
        /\ UNCHANGED <<owner, recursion>>
     \/ /\ Swaps(t) /\ Goes(t, "swap", "syncUnlink")
        /\ owner' = None /\ recursion' = 0
        /\ UNCHANGED lock
  /\ UNCHANGED <<host, header, chain, abandoned>> /\ Rest

SyncUnlink(t) ==
  /\ Goes(t, "syncUnlink", "syncGive")
  /\ chain' = None
  /\ UNCHANGED <<host, owner, recursion, header, abandoned, lock>> /\ Rest

SyncGive(t) ==
  /\ LookedUp(t, "syncGive")
  /\ host' = 1
  /\ UNCHANGED <<owner, recursion, header, chain, abandoned>> /\ Rest

-----------------------------------------------------------------------------
(* Acquire                                                                 *)

(* The order in which WaitCallback publishes an acquire, and in which      *)
(* ReleaseMutant publishes the last release.  Mutants: the other order.    *)
OwnerFirst  == <<"load", "header">>
HeaderFirst == <<"header", "load">>

BumpFirst  == <<"bump", "clear">>
ClearFirst == <<"clear", "bump">>

Then(order, step, end) == IF order[1] = step THEN order[2] ELSE end

(* The handle a wait polls is chosen as it begins: the owner is given one   *)
(* that is always signaled.                                                *)
ResolveHandle(t) ==
  /\ Goes(t, "wait", "poll")
  /\ sampled' = [sampled EXCEPT ![t] = owner]
  /\ UNCHANGED <<kernelVars, lock, purpose, sweep, held, ops>>

Forgets(t) == sampled' = [sampled EXCEPT ![t] = None]

Poll(t) ==
  /\ Goes(t, "poll", HeaderFirst[1])
  /\ \/ sampled[t] = t /\ UNCHANGED host
     \/ sampled[t] # t /\ host = 1 /\ host' = 0
  /\ Forgets(t)
  /\ UNCHANGED <<owner, recursion, header, chain, abandoned, lock, purpose, sweep, held, ops>>

(* A timeout or a user APC ends the wait, and may come before the first    *)
(* poll; a kernel APC starts it over.                                      *)
GiveUp(t) ==
  /\ Goes(t, "poll", "out") \/ Goes(t, "poll", "wait")
  /\ Forgets(t)
  /\ UNCHANGED <<kernelVars, lock, purpose, sweep, held, ops>>

(* What follows the two writes depends on the owner read before the        *)
(* second.                                                                 *)
Acquired(t) == IF sampled[t] = t THEN "recurse" ELSE "insert"

TakeHeader(t) ==
  /\ Goes(t, "header", Then(HeaderFirst, "header", Acquired(t)))
  /\ header' = header - 1
  /\ UNCHANGED <<host, owner, recursion, chain, abandoned, lock>> /\ Rest

LoadOwner(t) ==
  /\ Goes(t, "load", "owner")
  /\ sampled' = [sampled EXCEPT ![t] = owner]
  /\ UNCHANGED <<kernelVars, lock, purpose, sweep, held, ops>>

TakeOwner(t) ==
  /\ Goes(t, "owner", Then(HeaderFirst, "load", Acquired(t)))
  /\ owner' = t
  /\ UNCHANGED <<host, recursion, header, chain, abandoned, lock>> /\ Rest

Insert(t) ==
  /\ Goes(t, "insert", "status")
  /\ recursion' = 1 /\ chain' = t
  /\ Forgets(t)
  /\ UNCHANGED <<host, owner, header, abandoned, lock, purpose, sweep, held, ops>>

Recurse(t) ==
  /\ Goes(t, "recurse", "status")
  /\ recursion' = recursion + 1
  /\ Forgets(t)
  /\ UNCHANGED <<host, owner, header, chain, abandoned, lock, purpose, sweep, held, ops>>

(* AcquireStatus: tells the guest of an abandonment, once.  Mutant: leaves *)
(* the flag set.                                                           *)
FlagLeft    == abandoned
FlagCleared == FALSE

AcquireStatus(t) ==
  /\ Goes(t, "status", "out")
  /\ abandoned' = FlagCleared
  /\ held' = [held EXCEPT ![t] = @ + 1]
  /\ UNCHANGED <<host, owner, recursion, header, chain, lock, purpose, sampled, sweep, ops>>

-----------------------------------------------------------------------------
(* ReleaseMutant                                                           *)

ReleaseNotOwned(t) ==
  /\ owner # t /\ Goes(t, "release", "out")
  /\ UNCHANGED <<kernelVars, lock>> /\ Rest

Release(t) ==
  /\ owner = t /\ Goes(t, "release", "decrement")
  /\ UNCHANGED <<kernelVars, lock>> /\ Rest

(* An unsigned count, so that one below zero frees nothing.                *)
Decrement(t) ==
  /\ Goes(t, "decrement", IF recursion = 1 THEN ClearFirst[1] ELSE "bumpOnly")
  /\ recursion' = recursion - 1
  /\ held' = [held EXCEPT ![t] = @ - 1]
  /\ UNCHANGED <<host, owner, header, chain, abandoned, lock, purpose, sampled, sweep, ops>>

ClearOwner(t) ==
  /\ Goes(t, "clear", Then(ClearFirst, "clear", "unlink"))
  /\ owner' = None
  /\ UNCHANGED <<host, recursion, header, chain, abandoned, lock>> /\ Rest

BumpHeader(t) ==
  /\ \/ Goes(t, "bump", Then(ClearFirst, "bump", "unlink"))
     \/ Goes(t, "bumpOnly", "out")
  /\ header' = header + 1
  /\ UNCHANGED <<host, owner, recursion, chain, abandoned, lock>> /\ Rest

Unlink(t) ==
  /\ Goes(t, "unlink", "give")
  /\ chain' = None
  /\ UNCHANGED <<host, owner, recursion, header, abandoned, lock>> /\ Rest

Give(t) ==
  /\ Goes(t, "give", "out")
  /\ host' = 1
  /\ UNCHANGED <<owner, recursion, header, chain, abandoned, lock>> /\ Rest

-----------------------------------------------------------------------------
(* Ends and re-initializations                                             *)

(* Bound: threads end only where calls name the mutant by its handle.      *)
MayEnd == ops = {}

(* Exit runs on the thread itself, which is not in a call.                 *)
Exit(t) ==
  /\ MayEnd /\ t \in Leavers /\ Goes(t, "out", "dead")
  /\ sweep[t] = "no"
  /\ sweep' = [sweep EXCEPT ![t] = "mark"]
  /\ held' = [held EXCEPT ![t] = 0]
  /\ UNCHANGED <<kernelVars, lock, purpose, sampled, ops>>

(* Terminate runs on another thread, whatever this one is doing; it dies   *)
(* where it next gives up its CPU, once it is flagged after the sweep.     *)
Terminate(t) ==
  /\ MayEnd /\ t \in Victims /\ sweep[t] = "no"
  /\ sweep' = [sweep EXCEPT ![t] = "mark"]
  /\ UNCHANGED <<kernelVars, lock, pc, purpose, sampled, held, ops>>

Dies(t) ==
  /\ sweep[t] = "done"
  /\ Goes(t, "out", "dead") \/ Goes(t, "poll", "dead")
  /\ held' = [held EXCEPT ![t] = 0]
  /\ UNCHANGED <<kernelVars, lock, purpose, sampled, sweep, ops>>

Sweeps(t, from, to) == sweep[t] = from /\ sweep' = [sweep EXCEPT ![t] = to]
SweepRest == UNCHANGED <<lock, pc, purpose, sampled, held, ops>>

(* AbandonAllOwnedByThread for this mutant, if the thread's list has it.   *)
SweepMark(t) ==
  /\ \/ /\ chain = t /\ Sweeps(t, "mark", "header")
        /\ abandoned' = TRUE /\ chain' = None
     \/ /\ chain # t /\ Sweeps(t, "mark", "done")
        /\ UNCHANGED <<abandoned, chain>>
  /\ UNCHANGED <<host, owner, recursion, header>> /\ SweepRest

SweepHeader(t) ==
  /\ Sweeps(t, "header", "swap")
  /\ header' = 1
  /\ UNCHANGED <<host, owner, recursion, chain, abandoned>> /\ SweepRest

(* The lookup of the object needs the lock; the exchange that follows does *)
(* not say whose ownership it ends.  Mutant: keeps the token.              *)
EndsSweep    == "done"
GivesItBack  == "give"

SweepSwap(t) ==
  /\ lock = None
  /\ \/ /\ owner # None /\ Sweeps(t, "swap", GivesItBack)
        /\ owner' = None /\ recursion' = 0
     \/ /\ owner = None /\ Sweeps(t, "swap", "done")
        /\ UNCHANGED <<owner, recursion>>
  /\ UNCHANGED <<host, header, chain, abandoned>> /\ SweepRest

SweepGive(t) ==
  /\ Sweeps(t, "give", "done")
  /\ host' = 1
  /\ UNCHANGED <<owner, recursion, header, chain, abandoned>> /\ SweepRest

(* The guest initializes the structure anew, with nobody in a call as the  *)
(* holder: from here on it takes the mutant to be free.                    *)
Reinitialize(t) ==
  /\ "reinit" \in ops /\ owner = t /\ pc[t] = "out" /\ header < 1
  /\ header' = 1
  /\ held' = [held EXCEPT ![t] = 0]
  /\ UNCHANGED <<host, owner, recursion, chain, abandoned, lock, pc, purpose,
                 sampled, sweep, ops>>

-----------------------------------------------------------------------------
Next ==
  \E t \in Threads :
    \/ \E what \in {"wait", "release"} : Call(t, what)
    \/ SyncSample(t) \/ SyncCheck(t) \/ SyncSwap(t) \/ SyncUnlink(t) \/ SyncGive(t)
    \/ ResolveHandle(t) \/ Poll(t) \/ GiveUp(t) \/ TakeHeader(t) \/ LoadOwner(t) \/ TakeOwner(t)
    \/ Insert(t) \/ Recurse(t)
    \/ AcquireStatus(t)
    \/ ReleaseNotOwned(t) \/ Release(t) \/ Decrement(t) \/ ClearOwner(t) \/ BumpHeader(t)
    \/ Unlink(t) \/ Give(t)
    \/ Exit(t) \/ Terminate(t) \/ Dies(t)
    \/ SweepMark(t) \/ SweepHeader(t) \/ SweepSwap(t) \/ SweepGive(t)
    \/ Reinitialize(t)

Spec == Init /\ [][Next]_vars

-----------------------------------------------------------------------------
(* Properties                                                              *)

(* Every variable keeps to its values.                                     *)
TypeOK ==
  /\ host \in {0, 1} /\ owner \in Threads \cup {None}
  /\ recursion \in Int /\ header \in Int
  /\ chain \in Threads \cup {None} /\ abandoned \in BOOLEAN
  /\ lock \in Threads \cup {None}
  /\ pc \in [Threads -> Pcs]
  /\ purpose \in [Threads -> {"wait", "release"}]
  /\ sampled \in [Threads -> Threads \cup {None}]
  /\ sweep \in [Threads -> SweepPcs]
  /\ held \in [Threads -> 0 .. MaxDepth]
  /\ ops \in Guests

Taking == {t \in Threads : owner # t /\ pc[t] \in {"header", "load", "owner"}}
Giving == {t \in Threads : \/ pc[t] \in {"syncUnlink", "syncGive", "unlink", "give"}
                           \/ owner # t /\ pc[t] \in {"bump", "clear"}
                           \/ sweep[t] = "give"}

(* There is one token: the mutant is free, owned, on its way to an owner   *)
(* or on its way back, and only one of these, by only one thread.          *)
OneToken ==
  (\A v \in Victims : sweep[v] = "no") =>
    host + (IF owner = None THEN 0 ELSE 1) + Cardinality(Taking) + Cardinality(Giving) = 1

(* What the guest code of a thread has acquired and not released is its    *)
(* own, as long as no thread is swept: the kernel agrees on the owner and  *)
(* the depth, and so does the guest's header.  xmutant.cc, WaitCallback: "an         *)
(* acquire in flight never looks like a guest-side release";               *)
(* AbandonAllOwnedByThread: "Only the thread that held it releases".       *)
HoldersOwn ==
  \A t \in Threads :
    pc[t] = "out" /\ held[t] > 0 /\ (\A v \in Threads : sweep[v] = "no") =>
      owner = t /\ recursion = held[t] /\ header = 1 - held[t]

(* An abandonment is reported to whoever acquires the mutant next: nobody  *)
(* but a thread that is itself being swept holds it while the flag is set. *)
(* Once a thread is terminated this is no longer so, as its sweep may run  *)
(* against its own release and end the ownership of the next holder.       *)
AbandonmentReported ==
  abandoned /\ (\A v \in Victims : sweep[v] = "no") =>
    \A t \in Threads : held[t] > 0 => sweep[t] # "no"

(* However terminates, exits and lookups interleave, the token is never    *)
(* lost: a mutant nobody owns is free or about to be given back.           *)
NeverLost ==
  \/ host = 1 \/ owner # None
  \/ Taking \cup Giving # {}

=============================================================================
