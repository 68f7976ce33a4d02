----------------------- MODULE MutantOwnershipProofs -----------------------
(***************************************************************************)
(* Proofs about the ownership of a guest mutant, for any number of         *)
(* threads: the token is never lost; and until a thread is terminated by   *)
(* another there is one token, a thread owns what it has acquired, and an  *)
(* abandonment is reported to whoever acquires the mutant next.            *)
(*                                                                         *)
(* The invariant says of each thread that carries the token what the       *)
(* fields are at each point of its call, and of a lookup that has read an  *)
(* owner that this thread cannot own the mutant anew before the lookup is  *)
(* over: a thread past its own lookup may only give the mutant up, and one *)
(* that is not needs the lock.                                             *)
(***************************************************************************)
EXTENDS MutantOwnership, FiniteSetTheorems, TLAPS

SyncPcs  == {"sample", "check", "swap", "syncUnlink", "syncGive"}
WaitPcs  == {"wait", "poll", "header", "load", "owner", "insert", "recurse", "status"}
OwnerPcs == {"insert", "recurse", "status", "decrement", "bumpOnly", "clear"}
GivePcs  == {"bump", "unlink", "give", "syncUnlink", "syncGive"}

(* A lookup is under the lock, and there are none once a thread ends.      *)
Locked  == \A t \in Threads : pc[t] \in SyncPcs <=> lock = t

Regimes == \A t \in Threads : /\ pc[t] \in SyncPcs => ops # {}
                              /\ sweep[t] # "no" => ops = {}

(* A call only acquires what its guest code may acquire once more, and     *)
(* only releases what it has acquired.                                     *)
Acquires(t) == pc[t] \in WaitPcs \/ (pc[t] \in SyncPcs /\ purpose[t] = "wait")
Releases(t) == \/ owner = t /\ pc[t] = "release"
               \/ owner = t /\ pc[t] \in SyncPcs /\ purpose[t] = "release"
               \/ pc[t] = "decrement"

Bounded == \A t \in Threads : /\ Acquires(t) => held[t] < MaxDepth
                              /\ Releases(t) => held[t] > 0

(* No thread has been terminated by another.                               *)
Quiet == \A v \in Victims : sweep[v] = "no"

Carries(t) == owner = t \/ t \in Taking \/ t \in Giving

OneCarrier == /\ \A t, u \in Threads : Carries(t) /\ Carries(u) => t = u
              /\ \A t \in Threads : Carries(t) => host = 0

WhenFree == host = 1 => header = 1 /\ chain = None

Agree(t, depth) == recursion = held[t] /\ held[t] > 0 /\ header = 1 - held[t] - depth

(* What the owner's call has done by each point of it.                     *)
OwnersCall(t) ==
  /\ chain = IF pc[t] = "insert" THEN None ELSE t
  /\ pc[t] \in {"out", "sample", "check", "swap"} =>
       Agree(t, 0) \/ (header = 1 /\ held[t] = 0 /\ ops # {})
  /\ pc[t] \in {"wait", "poll", "header", "release", "decrement"} => Agree(t, 0)
  /\ pc[t] \in {"load", "owner", "recurse", "bumpOnly"} => Agree(t, 1)
  /\ pc[t] = "insert" => header = 0 /\ held[t] = 0
  /\ pc[t] = "status" => recursion = held[t] + 1 /\ header = - held[t]
  /\ pc[t] = "clear" => recursion = 0 /\ header = 0 /\ held[t] = 0

OwnersEnd(t) ==
  /\ sweep[t] \in {"no", "mark", "header", "swap"}
  /\ sweep[t] = "mark" => chain = t
  /\ sweep[t] \in {"header", "swap"} => chain = None
  /\ sweep[t] = "swap" => header = 1

Owns == \A t \in Threads : owner = t =>
          /\ pc[t] \notin GivePcs /\ OwnersEnd(t)
          /\ sweep[t] = "no" => OwnersCall(t)

(* What the call of a thread that does not own the mutant has done.        *)
OthersCall(t) ==
  /\ held[t] = 0 /\ pc[t] \notin OwnerPcs /\ sweep[t] \notin {"header", "swap"}
  /\ pc[t] = "header" => header = 1 /\ chain = None
  /\ pc[t] \in {"load", "owner"} => header = 0 /\ chain = None
  /\ pc[t] = "bump" => header = 0 /\ chain = t
  /\ pc[t] \in {"unlink", "give", "syncUnlink", "syncGive"} => header = 1
  /\ pc[t] = "unlink" => chain = t
  /\ pc[t] \in {"give", "syncGive"} => chain = None
  /\ sweep[t] = "give" => header = 1 /\ chain = None

Others == \A t \in Threads : owner # t => OthersCall(t)

(* A thread that leaves is in no call and has nothing.                     *)
Leaving == \A t \in Threads : /\ sweep[t] # "no" => pc[t] = "dead" /\ held[t] = 0
                              /\ pc[t] = "dead" => sweep[t] # "no"

(* What a sample of the owner still says.                                  *)
Samples == \A t \in Threads :
  /\ pc[t] = "poll" /\ sampled[t] = t => owner = t
  /\ pc[t] = "owner" => (sampled[t] = t <=> owner = t)
  /\ pc[t] \in {"check", "swap"} =>
       /\ sampled[t] \in Threads
       /\ owner = t => sampled[t] = t
       /\ \/ owner = sampled[t]
          \/ pc[sampled[t]] \in {"bump", "unlink", "give", "out"}
          \/ sampled[t] = t
  /\ pc[t] = "swap" /\ owner = sampled[t] => header = 1

Reported == abandoned => \A t \in Threads : held[t] = 0

Token == /\ OneCarrier /\ WhenFree /\ Owns /\ Others /\ Leaving /\ Samples /\ Reported

IInv == TypeOK /\ Locked /\ Regimes /\ Bounded /\ NeverLost /\ (Quiet => Token)


-----------------------------------------------------------------------------
(* The order of the writes of an acquire and of a last release.            *)
LEMMA Orders ==
  /\ HeaderFirst[1] = "header" /\ ClearFirst[1] = "clear"
  /\ \A e : /\ Then(HeaderFirst, "header", e) = "load" /\ Then(HeaderFirst, "load", e) = e
            /\ Then(ClearFirst, "clear", e) = "bump" /\ Then(ClearFirst, "bump", e) = e
BY DEF HeaderFirst, ClearFirst, Then

(* While the header is set, its owner is outside its calls, or only has    *)
(* begun one, and has initialized it again.                                *)
LEMMA OwnerOut ==
  ASSUME IInv, Token, owner \in Threads, sweep[owner] = "no", header >= 1
  PROVE  /\ header = 1 /\ held[owner] = 0
         /\ pc[owner] \in {"out", "sample", "check", "swap"}
<1>1. held[owner] \in Nat /\ recursion \in Int /\ header \in Int /\ pc[owner] \in Pcs
  BY MutantAssumption DEF IInv, TypeOK
<1>2. OwnersCall(owner) /\ pc[owner] \notin GivePcs /\ pc[owner] # "dead"
  BY DEF Token, Owns, Leaving
<1>3. ~Agree(owner, 0) /\ ~Agree(owner, 1)
  BY <1>1 DEF Agree
<1>4. pc[owner] \in {"out", "sample", "check", "swap"}
  BY <1>1, <1>2, <1>3 DEF OwnersCall, GivePcs, Pcs
<1> QED BY <1>2, <1>3, <1>4 DEF OwnersCall

(* Every variable keeps to its values.                                     *)
LEMMA TypeIsKept ==
  ASSUME TypeOK, Bounded, Next
  PROVE  TypeOK'
<1> USE MutantAssumption, Orders DEF TypeOK, Bounded, Acquires, Releases, Pcs, SweepPcs,
  WaitPcs,
       Goes, Rest, kernelVars, LookedUp, Forgets, Sweeps, SweepRest, MayEnd
<1>1. ASSUME NEW t \in Threads, NEW what \in {"wait", "release"}, Call(t, what)
      PROVE  TypeOK'
  BY <1>1 DEF Call
<1>2. ASSUME NEW t \in Threads, SyncSample(t) PROVE TypeOK'
  BY <1>2 DEF SyncSample
<1>3. ASSUME NEW t \in Threads, SyncCheck(t) PROVE TypeOK'
  BY <1>3 DEF SyncCheck
<1>4. ASSUME NEW t \in Threads, SyncSwap(t) PROVE TypeOK'
  BY <1>4 DEF SyncSwap, Swaps
<1>5. ASSUME NEW t \in Threads, SyncUnlink(t) PROVE TypeOK'
  BY <1>5 DEF SyncUnlink
<1>6. ASSUME NEW t \in Threads, SyncGive(t) PROVE TypeOK'
  BY <1>6 DEF SyncGive
<1>7. ASSUME NEW t \in Threads, ResolveHandle(t) PROVE TypeOK'
  BY <1>7 DEF ResolveHandle
<1>8. ASSUME NEW t \in Threads, Poll(t) PROVE TypeOK'
  BY <1>8 DEF Poll
<1>9. ASSUME NEW t \in Threads, GiveUp(t) PROVE TypeOK'
  BY <1>9 DEF GiveUp
<1>10. ASSUME NEW t \in Threads, TakeHeader(t) PROVE TypeOK'
  BY <1>10 DEF TakeHeader, Acquired
<1>11. ASSUME NEW t \in Threads, LoadOwner(t) PROVE TypeOK'
  BY <1>11 DEF LoadOwner
<1>12. ASSUME NEW t \in Threads, TakeOwner(t) PROVE TypeOK'
  BY <1>12 DEF TakeOwner, Acquired
<1>13. ASSUME NEW t \in Threads, Insert(t) PROVE TypeOK'
  BY <1>13 DEF Insert
<1>14. ASSUME NEW t \in Threads, Recurse(t) PROVE TypeOK'
  BY <1>14 DEF Recurse
<1>15. ASSUME NEW t \in Threads, AcquireStatus(t) PROVE TypeOK'
  <2>1. held[t] \in 0 .. MaxDepth /\ held[t] < MaxDepth
    BY <1>15 DEF AcquireStatus
  <2>2. held' \in [Threads -> 0 .. MaxDepth]
    BY <2>1, <1>15 DEF AcquireStatus
  <2> QED BY <2>2, <1>15 DEF AcquireStatus, FlagCleared
<1>16. ASSUME NEW t \in Threads, ReleaseNotOwned(t) PROVE TypeOK'
  BY <1>16 DEF ReleaseNotOwned
<1>17. ASSUME NEW t \in Threads, Release(t) PROVE TypeOK'
  BY <1>17 DEF Release
<1>18. ASSUME NEW t \in Threads, Decrement(t) PROVE TypeOK'
  BY <1>18 DEF Decrement
<1>19. ASSUME NEW t \in Threads, ClearOwner(t) PROVE TypeOK'
  BY <1>19 DEF ClearOwner
<1>20. ASSUME NEW t \in Threads, BumpHeader(t) PROVE TypeOK'
  BY <1>20 DEF BumpHeader
<1>21. ASSUME NEW t \in Threads, Unlink(t) PROVE TypeOK'
  BY <1>21 DEF Unlink
<1>22. ASSUME NEW t \in Threads, Give(t) PROVE TypeOK'
  BY <1>22 DEF Give
<1>23. ASSUME NEW t \in Threads, Exit(t) PROVE TypeOK'
  BY <1>23 DEF Exit
<1>24. ASSUME NEW t \in Threads, Terminate(t) PROVE TypeOK'
  BY <1>24 DEF Terminate
<1>25. ASSUME NEW t \in Threads, Dies(t) PROVE TypeOK'
  BY <1>25 DEF Dies
<1>26. ASSUME NEW t \in Threads, SweepMark(t) PROVE TypeOK'
  <2>1. CASE chain = t
    BY <2>1, <1>26 DEF SweepMark
  <2>2. CASE chain # t
    BY <2>2, <1>26 DEF SweepMark
  <2> QED BY <2>1, <2>2
<1>27. ASSUME NEW t \in Threads, SweepHeader(t) PROVE TypeOK'
  BY <1>27 DEF SweepHeader
<1>28. ASSUME NEW t \in Threads, SweepSwap(t) PROVE TypeOK'
  BY <1>28 DEF SweepSwap, GivesItBack
<1>29. ASSUME NEW t \in Threads, SweepGive(t) PROVE TypeOK'
  BY <1>29 DEF SweepGive
<1>30. ASSUME NEW t \in Threads, Reinitialize(t) PROVE TypeOK'
  BY <1>30 DEF Reinitialize
<1> HIDE MutantAssumption, Orders DEF TypeOK, Bounded, Acquires, Releases, Pcs, SweepPcs,
  WaitPcs,
       Goes, Rest, kernelVars, LookedUp, Forgets, Sweeps, SweepRest, MayEnd
<1> QED
  BY <1>1, <1>2, <1>3, <1>4, <1>5, <1>6, <1>7, <1>8, <1>9, <1>10, <1>11, <1>12, <1>13,
     <1>14, <1>15, <1>16, <1>17, <1>18, <1>19, <1>20, <1>21, <1>22, <1>23, <1>24, <1>25,
     <1>26, <1>27, <1>28, <1>29, <1>30 DEF Next

(* Only the thread in its lookup has the lock.                             *)
LEMMA LockIsKept ==
  ASSUME TypeOK, Locked, Next
  PROVE  Locked'
<1> USE MutantAssumption, Orders DEF TypeOK, Locked, SyncPcs,
       Goes, Rest, kernelVars, LookedUp, Forgets, Sweeps, SweepRest, MayEnd
<1>1. ASSUME NEW t \in Threads, NEW what \in {"wait", "release"}, Call(t, what)
      PROVE  Locked'
  BY <1>1 DEF Call
<1>2. ASSUME NEW t \in Threads, SyncSample(t) PROVE Locked'
  BY <1>2 DEF SyncSample
<1>3. ASSUME NEW t \in Threads, SyncCheck(t) PROVE Locked'
  BY <1>3 DEF SyncCheck
<1>4. ASSUME NEW t \in Threads, SyncSwap(t) PROVE Locked'
  BY <1>4 DEF SyncSwap, Swaps
<1>5. ASSUME NEW t \in Threads, SyncUnlink(t) PROVE Locked'
  BY <1>5 DEF SyncUnlink
<1>6. ASSUME NEW t \in Threads, SyncGive(t) PROVE Locked'
  BY <1>6 DEF SyncGive
<1>7. ASSUME NEW t \in Threads, ResolveHandle(t) PROVE Locked'
  BY <1>7 DEF ResolveHandle
<1>8. ASSUME NEW t \in Threads, Poll(t) PROVE Locked'
  BY <1>8 DEF Poll
<1>9. ASSUME NEW t \in Threads, GiveUp(t) PROVE Locked'
  BY <1>9 DEF GiveUp
<1>10. ASSUME NEW t \in Threads, TakeHeader(t) PROVE Locked'
  BY <1>10 DEF TakeHeader, Acquired
<1>11. ASSUME NEW t \in Threads, LoadOwner(t) PROVE Locked'
  BY <1>11 DEF LoadOwner
<1>12. ASSUME NEW t \in Threads, TakeOwner(t) PROVE Locked'
  BY <1>12 DEF TakeOwner, Acquired
<1>13. ASSUME NEW t \in Threads, Insert(t) PROVE Locked'
  BY <1>13 DEF Insert
<1>14. ASSUME NEW t \in Threads, Recurse(t) PROVE Locked'
  BY <1>14 DEF Recurse
<1>15. ASSUME NEW t \in Threads, AcquireStatus(t) PROVE Locked'
  BY <1>15 DEF AcquireStatus, FlagCleared
<1>16. ASSUME NEW t \in Threads, ReleaseNotOwned(t) PROVE Locked'
  BY <1>16 DEF ReleaseNotOwned
<1>17. ASSUME NEW t \in Threads, Release(t) PROVE Locked'
  BY <1>17 DEF Release
<1>18. ASSUME NEW t \in Threads, Decrement(t) PROVE Locked'
  BY <1>18 DEF Decrement
<1>19. ASSUME NEW t \in Threads, ClearOwner(t) PROVE Locked'
  BY <1>19 DEF ClearOwner
<1>20. ASSUME NEW t \in Threads, BumpHeader(t) PROVE Locked'
  BY <1>20 DEF BumpHeader
<1>21. ASSUME NEW t \in Threads, Unlink(t) PROVE Locked'
  BY <1>21 DEF Unlink
<1>22. ASSUME NEW t \in Threads, Give(t) PROVE Locked'
  BY <1>22 DEF Give
<1>23. ASSUME NEW t \in Threads, Exit(t) PROVE Locked'
  BY <1>23 DEF Exit
<1>24. ASSUME NEW t \in Threads, Terminate(t) PROVE Locked'
  BY <1>24 DEF Terminate
<1>25. ASSUME NEW t \in Threads, Dies(t) PROVE Locked'
  BY <1>25 DEF Dies
<1>26. ASSUME NEW t \in Threads, SweepMark(t) PROVE Locked'
  BY <1>26 DEF SweepMark
<1>27. ASSUME NEW t \in Threads, SweepHeader(t) PROVE Locked'
  BY <1>27 DEF SweepHeader
<1>28. ASSUME NEW t \in Threads, SweepSwap(t) PROVE Locked'
  BY <1>28 DEF SweepSwap, GivesItBack
<1>29. ASSUME NEW t \in Threads, SweepGive(t) PROVE Locked'
  BY <1>29 DEF SweepGive
<1>30. ASSUME NEW t \in Threads, Reinitialize(t) PROVE Locked'
  BY <1>30 DEF Reinitialize
<1> HIDE MutantAssumption, Orders DEF TypeOK, Locked, SyncPcs,
       Goes, Rest, kernelVars, LookedUp, Forgets, Sweeps, SweepRest, MayEnd
<1> QED
  BY <1>1, <1>2, <1>3, <1>4, <1>5, <1>6, <1>7, <1>8, <1>9, <1>10, <1>11, <1>12, <1>13,
     <1>14, <1>15, <1>16, <1>17, <1>18, <1>19, <1>20, <1>21, <1>22, <1>23, <1>24, <1>25,
     <1>26, <1>27, <1>28, <1>29, <1>30 DEF Next

(* Threads end only where there are no lookups.                            *)
LEMMA RegimesAreKept ==
  ASSUME TypeOK, Regimes, Next
  PROVE  Regimes'
<1> USE MutantAssumption, Orders DEF TypeOK, Regimes, SyncPcs,
       Goes, Rest, kernelVars, LookedUp, Forgets, Sweeps, SweepRest, MayEnd
<1>1. ASSUME NEW t \in Threads, NEW what \in {"wait", "release"}, Call(t, what)
      PROVE  Regimes'
  BY <1>1 DEF Call
<1>2. ASSUME NEW t \in Threads, SyncSample(t) PROVE Regimes'
  BY <1>2 DEF SyncSample
<1>3. ASSUME NEW t \in Threads, SyncCheck(t) PROVE Regimes'
  BY <1>3 DEF SyncCheck
<1>4. ASSUME NEW t \in Threads, SyncSwap(t) PROVE Regimes'
  BY <1>4 DEF SyncSwap, Swaps
<1>5. ASSUME NEW t \in Threads, SyncUnlink(t) PROVE Regimes'
  BY <1>5 DEF SyncUnlink
<1>6. ASSUME NEW t \in Threads, SyncGive(t) PROVE Regimes'
  BY <1>6 DEF SyncGive
<1>7. ASSUME NEW t \in Threads, ResolveHandle(t) PROVE Regimes'
  BY <1>7 DEF ResolveHandle
<1>8. ASSUME NEW t \in Threads, Poll(t) PROVE Regimes'
  BY <1>8 DEF Poll
<1>9. ASSUME NEW t \in Threads, GiveUp(t) PROVE Regimes'
  BY <1>9 DEF GiveUp
<1>10. ASSUME NEW t \in Threads, TakeHeader(t) PROVE Regimes'
  BY <1>10 DEF TakeHeader, Acquired
<1>11. ASSUME NEW t \in Threads, LoadOwner(t) PROVE Regimes'
  BY <1>11 DEF LoadOwner
<1>12. ASSUME NEW t \in Threads, TakeOwner(t) PROVE Regimes'
  BY <1>12 DEF TakeOwner, Acquired
<1>13. ASSUME NEW t \in Threads, Insert(t) PROVE Regimes'
  BY <1>13 DEF Insert
<1>14. ASSUME NEW t \in Threads, Recurse(t) PROVE Regimes'
  BY <1>14 DEF Recurse
<1>15. ASSUME NEW t \in Threads, AcquireStatus(t) PROVE Regimes'
  BY <1>15 DEF AcquireStatus, FlagCleared
<1>16. ASSUME NEW t \in Threads, ReleaseNotOwned(t) PROVE Regimes'
  BY <1>16 DEF ReleaseNotOwned
<1>17. ASSUME NEW t \in Threads, Release(t) PROVE Regimes'
  BY <1>17 DEF Release
<1>18. ASSUME NEW t \in Threads, Decrement(t) PROVE Regimes'
  BY <1>18 DEF Decrement
<1>19. ASSUME NEW t \in Threads, ClearOwner(t) PROVE Regimes'
  BY <1>19 DEF ClearOwner
<1>20. ASSUME NEW t \in Threads, BumpHeader(t) PROVE Regimes'
  BY <1>20 DEF BumpHeader
<1>21. ASSUME NEW t \in Threads, Unlink(t) PROVE Regimes'
  BY <1>21 DEF Unlink
<1>22. ASSUME NEW t \in Threads, Give(t) PROVE Regimes'
  BY <1>22 DEF Give
<1>23. ASSUME NEW t \in Threads, Exit(t) PROVE Regimes'
  BY <1>23 DEF Exit
<1>24. ASSUME NEW t \in Threads, Terminate(t) PROVE Regimes'
  BY <1>24 DEF Terminate
<1>25. ASSUME NEW t \in Threads, Dies(t) PROVE Regimes'
  BY <1>25 DEF Dies
<1>26. ASSUME NEW t \in Threads, SweepMark(t) PROVE Regimes'
  BY <1>26 DEF SweepMark
<1>27. ASSUME NEW t \in Threads, SweepHeader(t) PROVE Regimes'
  BY <1>27 DEF SweepHeader
<1>28. ASSUME NEW t \in Threads, SweepSwap(t) PROVE Regimes'
  BY <1>28 DEF SweepSwap, GivesItBack
<1>29. ASSUME NEW t \in Threads, SweepGive(t) PROVE Regimes'
  BY <1>29 DEF SweepGive
<1>30. ASSUME NEW t \in Threads, Reinitialize(t) PROVE Regimes'
  BY <1>30 DEF Reinitialize
<1> HIDE MutantAssumption, Orders DEF TypeOK, Regimes, SyncPcs,
       Goes, Rest, kernelVars, LookedUp, Forgets, Sweeps, SweepRest, MayEnd
<1> QED
  BY <1>1, <1>2, <1>3, <1>4, <1>5, <1>6, <1>7, <1>8, <1>9, <1>10, <1>11, <1>12, <1>13,
     <1>14, <1>15, <1>16, <1>17, <1>18, <1>19, <1>20, <1>21, <1>22, <1>23, <1>24, <1>25,
     <1>26, <1>27, <1>28, <1>29, <1>30 DEF Next

(* What a call may acquire or release it still may as it goes on.          *)
LEMMA BoundsAreKept ==
  ASSUME TypeOK, Locked, Bounded, Next
  PROVE  Bounded'
<1> USE MutantAssumption, Orders DEF TypeOK, Bounded, Acquires, Releases, SyncPcs,
  WaitPcs,
       Goes, Rest, kernelVars, LookedUp, Forgets, Sweeps, SweepRest, MayEnd
<1>1. ASSUME NEW t \in Threads, NEW what \in {"wait", "release"}, Call(t, what)
      PROVE  Bounded'
  BY <1>1 DEF Call
<1>2. ASSUME NEW t \in Threads, SyncSample(t) PROVE Bounded'
  BY <1>2 DEF SyncSample
<1>3. ASSUME NEW t \in Threads, SyncCheck(t) PROVE Bounded'
  BY <1>3 DEF SyncCheck
<1>4. ASSUME NEW t \in Threads, SyncSwap(t) PROVE Bounded'
  BY <1>4 DEF SyncSwap, Swaps
<1>5. ASSUME NEW t \in Threads, SyncUnlink(t) PROVE Bounded'
  BY <1>5 DEF SyncUnlink
<1>6. ASSUME NEW t \in Threads, SyncGive(t) PROVE Bounded'
  BY <1>6 DEF SyncGive
<1>7. ASSUME NEW t \in Threads, ResolveHandle(t) PROVE Bounded'
  BY <1>7 DEF ResolveHandle
<1>8. ASSUME NEW t \in Threads, Poll(t) PROVE Bounded'
  BY <1>8 DEF Poll
<1>9. ASSUME NEW t \in Threads, GiveUp(t) PROVE Bounded'
  BY <1>9 DEF GiveUp
<1>10. ASSUME NEW t \in Threads, TakeHeader(t) PROVE Bounded'
  BY <1>10 DEF TakeHeader, Acquired
<1>11. ASSUME NEW t \in Threads, LoadOwner(t) PROVE Bounded'
  BY <1>11 DEF LoadOwner
<1>12. ASSUME NEW t \in Threads, TakeOwner(t) PROVE Bounded'
  BY <1>12 DEF TakeOwner, Acquired
<1>13. ASSUME NEW t \in Threads, Insert(t) PROVE Bounded'
  BY <1>13 DEF Insert
<1>14. ASSUME NEW t \in Threads, Recurse(t) PROVE Bounded'
  BY <1>14 DEF Recurse
<1>15. ASSUME NEW t \in Threads, AcquireStatus(t) PROVE Bounded'
  BY <1>15 DEF AcquireStatus, FlagCleared
<1>16. ASSUME NEW t \in Threads, ReleaseNotOwned(t) PROVE Bounded'
  BY <1>16 DEF ReleaseNotOwned
<1>17. ASSUME NEW t \in Threads, Release(t) PROVE Bounded'
  BY <1>17 DEF Release
<1>18. ASSUME NEW t \in Threads, Decrement(t) PROVE Bounded'
  BY <1>18 DEF Decrement
<1>19. ASSUME NEW t \in Threads, ClearOwner(t) PROVE Bounded'
  BY <1>19 DEF ClearOwner
<1>20. ASSUME NEW t \in Threads, BumpHeader(t) PROVE Bounded'
  BY <1>20 DEF BumpHeader
<1>21. ASSUME NEW t \in Threads, Unlink(t) PROVE Bounded'
  BY <1>21 DEF Unlink
<1>22. ASSUME NEW t \in Threads, Give(t) PROVE Bounded'
  BY <1>22 DEF Give
<1>23. ASSUME NEW t \in Threads, Exit(t) PROVE Bounded'
  BY <1>23 DEF Exit
<1>24. ASSUME NEW t \in Threads, Terminate(t) PROVE Bounded'
  BY <1>24 DEF Terminate
<1>25. ASSUME NEW t \in Threads, Dies(t) PROVE Bounded'
  BY <1>25 DEF Dies
<1>26. ASSUME NEW t \in Threads, SweepMark(t) PROVE Bounded'
  BY <1>26 DEF SweepMark
<1>27. ASSUME NEW t \in Threads, SweepHeader(t) PROVE Bounded'
  BY <1>27 DEF SweepHeader
<1>28. ASSUME NEW t \in Threads, SweepSwap(t) PROVE Bounded'
  BY <1>28 DEF SweepSwap, GivesItBack
<1>29. ASSUME NEW t \in Threads, SweepGive(t) PROVE Bounded'
  BY <1>29 DEF SweepGive
<1>30. ASSUME NEW t \in Threads, Reinitialize(t) PROVE Bounded'
  BY <1>30 DEF Reinitialize
<1> HIDE MutantAssumption, Orders DEF TypeOK, Bounded, Acquires, Releases, SyncPcs,
  WaitPcs,
       Goes, Rest, kernelVars, LookedUp, Forgets, Sweeps, SweepRest, MayEnd
<1> QED
  BY <1>1, <1>2, <1>3, <1>4, <1>5, <1>6, <1>7, <1>8, <1>9, <1>10, <1>11, <1>12, <1>13,
     <1>14, <1>15, <1>16, <1>17, <1>18, <1>19, <1>20, <1>21, <1>22, <1>23, <1>24, <1>25,
     <1>26, <1>27, <1>28, <1>29, <1>30 DEF Next

(* The token goes from one place to the next.                              *)
LEMMA NothingLost ==
  ASSUME TypeOK, NeverLost, Next
  PROVE  NeverLost'
<1> USE MutantAssumption, Orders DEF TypeOK, NeverLost, Taking, Giving,
       Goes, Rest, kernelVars, LookedUp, Forgets, Sweeps, SweepRest, MayEnd
<1>1. ASSUME NEW t \in Threads, NEW what \in {"wait", "release"}, Call(t, what)
      PROVE  NeverLost'
  BY <1>1 DEF Call
<1>2. ASSUME NEW t \in Threads, SyncSample(t) PROVE NeverLost'
  BY <1>2 DEF SyncSample
<1>3. ASSUME NEW t \in Threads, SyncCheck(t) PROVE NeverLost'
  BY <1>3 DEF SyncCheck
<1>4. ASSUME NEW t \in Threads, SyncSwap(t) PROVE NeverLost'
  BY <1>4 DEF SyncSwap, Swaps
<1>5. ASSUME NEW t \in Threads, SyncUnlink(t) PROVE NeverLost'
  BY <1>5 DEF SyncUnlink
<1>6. ASSUME NEW t \in Threads, SyncGive(t) PROVE NeverLost'
  BY <1>6 DEF SyncGive
<1>7. ASSUME NEW t \in Threads, ResolveHandle(t) PROVE NeverLost'
  BY <1>7 DEF ResolveHandle
<1>8. ASSUME NEW t \in Threads, Poll(t) PROVE NeverLost'
  BY <1>8 DEF Poll
<1>9. ASSUME NEW t \in Threads, GiveUp(t) PROVE NeverLost'
  BY <1>9 DEF GiveUp
<1>10. ASSUME NEW t \in Threads, TakeHeader(t) PROVE NeverLost'
  BY <1>10 DEF TakeHeader, Acquired
<1>11. ASSUME NEW t \in Threads, LoadOwner(t) PROVE NeverLost'
  BY <1>11 DEF LoadOwner
<1>12. ASSUME NEW t \in Threads, TakeOwner(t) PROVE NeverLost'
  BY <1>12 DEF TakeOwner, Acquired
<1>13. ASSUME NEW t \in Threads, Insert(t) PROVE NeverLost'
  BY <1>13 DEF Insert
<1>14. ASSUME NEW t \in Threads, Recurse(t) PROVE NeverLost'
  BY <1>14 DEF Recurse
<1>15. ASSUME NEW t \in Threads, AcquireStatus(t) PROVE NeverLost'
  BY <1>15 DEF AcquireStatus, FlagCleared
<1>16. ASSUME NEW t \in Threads, ReleaseNotOwned(t) PROVE NeverLost'
  BY <1>16 DEF ReleaseNotOwned
<1>17. ASSUME NEW t \in Threads, Release(t) PROVE NeverLost'
  BY <1>17 DEF Release
<1>18. ASSUME NEW t \in Threads, Decrement(t) PROVE NeverLost'
  BY <1>18 DEF Decrement
<1>19. ASSUME NEW t \in Threads, ClearOwner(t) PROVE NeverLost'
  BY <1>19 DEF ClearOwner
<1>20. ASSUME NEW t \in Threads, BumpHeader(t) PROVE NeverLost'
  BY <1>20 DEF BumpHeader
<1>21. ASSUME NEW t \in Threads, Unlink(t) PROVE NeverLost'
  BY <1>21 DEF Unlink
<1>22. ASSUME NEW t \in Threads, Give(t) PROVE NeverLost'
  BY <1>22 DEF Give
<1>23. ASSUME NEW t \in Threads, Exit(t) PROVE NeverLost'
  BY <1>23 DEF Exit
<1>24. ASSUME NEW t \in Threads, Terminate(t) PROVE NeverLost'
  BY <1>24 DEF Terminate
<1>25. ASSUME NEW t \in Threads, Dies(t) PROVE NeverLost'
  BY <1>25 DEF Dies
<1>26. ASSUME NEW t \in Threads, SweepMark(t) PROVE NeverLost'
  BY <1>26 DEF SweepMark
<1>27. ASSUME NEW t \in Threads, SweepHeader(t) PROVE NeverLost'
  BY <1>27 DEF SweepHeader
<1>28. ASSUME NEW t \in Threads, SweepSwap(t) PROVE NeverLost'
  BY <1>28 DEF SweepSwap, GivesItBack
<1>29. ASSUME NEW t \in Threads, SweepGive(t) PROVE NeverLost'
  BY <1>29 DEF SweepGive
<1>30. ASSUME NEW t \in Threads, Reinitialize(t) PROVE NeverLost'
  BY <1>30 DEF Reinitialize
<1> HIDE MutantAssumption, Orders DEF TypeOK, NeverLost, Taking, Giving,
       Goes, Rest, kernelVars, LookedUp, Forgets, Sweeps, SweepRest, MayEnd
<1> QED
  BY <1>1, <1>2, <1>3, <1>4, <1>5, <1>6, <1>7, <1>8, <1>9, <1>10, <1>11, <1>12, <1>13,
     <1>14, <1>15, <1>16, <1>17, <1>18, <1>19, <1>20, <1>21, <1>22, <1>23, <1>24, <1>25,
     <1>26, <1>27, <1>28, <1>29, <1>30 DEF Next

(* No step gives the token to a second thread.                             *)
LEMMA OneCarries ==
  ASSUME IInv, Quiet, Quiet', Next
  PROVE  OneCarrier'
<1> USE MutantAssumption, Orders DEF IInv, Token, OneCarrier, Owns, Others, Leaving,
  Samples, Carries, Agree, OwnersCall, OwnersEnd, OthersCall, Taking, Giving, GivePcs,
  Quiet, TypeOK, Bounded, Releases,
       Goes, Rest, kernelVars, LookedUp, Forgets, Sweeps, SweepRest, MayEnd
<1>1. ASSUME NEW t \in Threads, NEW what \in {"wait", "release"}, Call(t, what)
      PROVE  OneCarrier'
  BY <1>1 DEF Call
<1>2. ASSUME NEW t \in Threads, SyncSample(t) PROVE OneCarrier'
  BY <1>2 DEF SyncSample
<1>3. ASSUME NEW t \in Threads, SyncCheck(t) PROVE OneCarrier'
  BY <1>3 DEF SyncCheck
<1>4. ASSUME NEW t \in Threads, SyncSwap(t) PROVE OneCarrier'
  BY <1>4 DEF SyncSwap, Swaps
<1>5. ASSUME NEW t \in Threads, SyncUnlink(t) PROVE OneCarrier'
  BY <1>5 DEF SyncUnlink
<1>6. ASSUME NEW t \in Threads, SyncGive(t) PROVE OneCarrier'
  BY <1>6 DEF SyncGive
<1>7. ASSUME NEW t \in Threads, ResolveHandle(t) PROVE OneCarrier'
  BY <1>7 DEF ResolveHandle
<1>8. ASSUME NEW t \in Threads, Poll(t) PROVE OneCarrier'
  BY <1>8 DEF Poll
<1>9. ASSUME NEW t \in Threads, GiveUp(t) PROVE OneCarrier'
  BY <1>9 DEF GiveUp
<1>10. ASSUME NEW t \in Threads, TakeHeader(t) PROVE OneCarrier'
  BY <1>10 DEF TakeHeader, Acquired
<1>11. ASSUME NEW t \in Threads, LoadOwner(t) PROVE OneCarrier'
  BY <1>11 DEF LoadOwner
<1>12. ASSUME NEW t \in Threads, TakeOwner(t) PROVE OneCarrier'
  BY <1>12 DEF TakeOwner, Acquired
<1>13. ASSUME NEW t \in Threads, Insert(t) PROVE OneCarrier'
  BY <1>13 DEF Insert
<1>14. ASSUME NEW t \in Threads, Recurse(t) PROVE OneCarrier'
  BY <1>14 DEF Recurse
<1>15. ASSUME NEW t \in Threads, AcquireStatus(t) PROVE OneCarrier'
  BY <1>15 DEF AcquireStatus, FlagCleared
<1>16. ASSUME NEW t \in Threads, ReleaseNotOwned(t) PROVE OneCarrier'
  BY <1>16 DEF ReleaseNotOwned
<1>17. ASSUME NEW t \in Threads, Release(t) PROVE OneCarrier'
  BY <1>17 DEF Release
<1>18. ASSUME NEW t \in Threads, Decrement(t) PROVE OneCarrier'
  BY <1>18 DEF Decrement
<1>19. ASSUME NEW t \in Threads, ClearOwner(t) PROVE OneCarrier'
  BY <1>19 DEF ClearOwner
<1>20. ASSUME NEW t \in Threads, BumpHeader(t) PROVE OneCarrier'
  BY <1>20 DEF BumpHeader
<1>21. ASSUME NEW t \in Threads, Unlink(t) PROVE OneCarrier'
  BY <1>21 DEF Unlink
<1>22. ASSUME NEW t \in Threads, Give(t) PROVE OneCarrier'
  BY <1>22 DEF Give
<1>23. ASSUME NEW t \in Threads, Exit(t) PROVE OneCarrier'
  BY <1>23 DEF Exit
<1>24. ASSUME NEW t \in Threads, Terminate(t) PROVE OneCarrier'
  BY <1>24 DEF Terminate
<1>25. ASSUME NEW t \in Threads, Dies(t) PROVE OneCarrier'
  BY <1>25 DEF Dies
<1>26. ASSUME NEW t \in Threads, SweepMark(t) PROVE OneCarrier'
  BY <1>26 DEF SweepMark
<1>27. ASSUME NEW t \in Threads, SweepHeader(t) PROVE OneCarrier'
  BY <1>27 DEF SweepHeader
<1>28. ASSUME NEW t \in Threads, SweepSwap(t) PROVE OneCarrier'
  BY <1>28 DEF SweepSwap, GivesItBack
<1>29. ASSUME NEW t \in Threads, SweepGive(t) PROVE OneCarrier'
  BY <1>29 DEF SweepGive
<1>30. ASSUME NEW t \in Threads, Reinitialize(t) PROVE OneCarrier'
  BY <1>30 DEF Reinitialize
<1> HIDE MutantAssumption, Orders DEF IInv, Token, OneCarrier, Owns, Others, Leaving,
  Samples, Carries, Agree, OwnersCall, OwnersEnd, OthersCall, Taking, Giving, GivePcs,
  Quiet, TypeOK, Bounded, Releases,
       Goes, Rest, kernelVars, LookedUp, Forgets, Sweeps, SweepRest, MayEnd
<1> QED
  BY <1>1, <1>2, <1>3, <1>4, <1>5, <1>6, <1>7, <1>8, <1>9, <1>10, <1>11, <1>12, <1>13,
     <1>14, <1>15, <1>16, <1>17, <1>18, <1>19, <1>20, <1>21, <1>22, <1>23, <1>24, <1>25,
     <1>26, <1>27, <1>28, <1>29, <1>30 DEF Next

(* The token comes back with the header set and the chain without it.      *)
LEMMA FreeIsFree ==
  ASSUME IInv, Quiet, Quiet', Next
  PROVE  WhenFree'
<1> USE MutantAssumption, Orders DEF IInv, Token, OneCarrier, WhenFree, Owns, Others,
  Carries, OwnersEnd, OthersCall, Taking, OwnerPcs, GivePcs,
       Goes, Rest, kernelVars, LookedUp, Forgets, Sweeps, SweepRest, MayEnd
<1>1. ASSUME NEW t \in Threads, NEW what \in {"wait", "release"}, Call(t, what)
      PROVE  WhenFree'
  BY <1>1 DEF Call
<1>2. ASSUME NEW t \in Threads, SyncSample(t) PROVE WhenFree'
  BY <1>2 DEF SyncSample
<1>3. ASSUME NEW t \in Threads, SyncCheck(t) PROVE WhenFree'
  BY <1>3 DEF SyncCheck
<1>4. ASSUME NEW t \in Threads, SyncSwap(t) PROVE WhenFree'
  BY <1>4 DEF SyncSwap, Swaps
<1>5. ASSUME NEW t \in Threads, SyncUnlink(t) PROVE WhenFree'
  BY <1>5 DEF SyncUnlink
<1>6. ASSUME NEW t \in Threads, SyncGive(t) PROVE WhenFree'
  BY <1>6 DEF SyncGive
<1>7. ASSUME NEW t \in Threads, ResolveHandle(t) PROVE WhenFree'
  BY <1>7 DEF ResolveHandle
<1>8. ASSUME NEW t \in Threads, Poll(t) PROVE WhenFree'
  BY <1>8 DEF Poll
<1>9. ASSUME NEW t \in Threads, GiveUp(t) PROVE WhenFree'
  BY <1>9 DEF GiveUp
<1>10. ASSUME NEW t \in Threads, TakeHeader(t) PROVE WhenFree'
  BY <1>10 DEF TakeHeader, Acquired
<1>11. ASSUME NEW t \in Threads, LoadOwner(t) PROVE WhenFree'
  BY <1>11 DEF LoadOwner
<1>12. ASSUME NEW t \in Threads, TakeOwner(t) PROVE WhenFree'
  BY <1>12 DEF TakeOwner, Acquired
<1>13. ASSUME NEW t \in Threads, Insert(t) PROVE WhenFree'
  BY <1>13 DEF Insert
<1>14. ASSUME NEW t \in Threads, Recurse(t) PROVE WhenFree'
  BY <1>14 DEF Recurse
<1>15. ASSUME NEW t \in Threads, AcquireStatus(t) PROVE WhenFree'
  BY <1>15 DEF AcquireStatus, FlagCleared
<1>16. ASSUME NEW t \in Threads, ReleaseNotOwned(t) PROVE WhenFree'
  BY <1>16 DEF ReleaseNotOwned
<1>17. ASSUME NEW t \in Threads, Release(t) PROVE WhenFree'
  BY <1>17 DEF Release
<1>18. ASSUME NEW t \in Threads, Decrement(t) PROVE WhenFree'
  BY <1>18 DEF Decrement
<1>19. ASSUME NEW t \in Threads, ClearOwner(t) PROVE WhenFree'
  BY <1>19 DEF ClearOwner
<1>20. ASSUME NEW t \in Threads, BumpHeader(t) PROVE WhenFree'
  BY <1>20 DEF BumpHeader
<1>21. ASSUME NEW t \in Threads, Unlink(t) PROVE WhenFree'
  BY <1>21 DEF Unlink
<1>22. ASSUME NEW t \in Threads, Give(t) PROVE WhenFree'
  BY <1>22 DEF Give
<1>23. ASSUME NEW t \in Threads, Exit(t) PROVE WhenFree'
  BY <1>23 DEF Exit
<1>24. ASSUME NEW t \in Threads, Terminate(t) PROVE WhenFree'
  BY <1>24 DEF Terminate
<1>25. ASSUME NEW t \in Threads, Dies(t) PROVE WhenFree'
  BY <1>25 DEF Dies
<1>26. ASSUME NEW t \in Threads, SweepMark(t) PROVE WhenFree'
  BY <1>26 DEF SweepMark
<1>27. ASSUME NEW t \in Threads, SweepHeader(t) PROVE WhenFree'
  BY <1>27 DEF SweepHeader
<1>28. ASSUME NEW t \in Threads, SweepSwap(t) PROVE WhenFree'
  BY <1>28 DEF SweepSwap, GivesItBack
<1>29. ASSUME NEW t \in Threads, SweepGive(t) PROVE WhenFree'
  BY <1>29 DEF SweepGive
<1>30. ASSUME NEW t \in Threads, Reinitialize(t) PROVE WhenFree'
  BY <1>30 DEF Reinitialize
<1> HIDE MutantAssumption, Orders DEF IInv, Token, OneCarrier, WhenFree, Owns, Others,
  Carries, OwnersEnd, OthersCall, Taking, OwnerPcs, GivePcs,
       Goes, Rest, kernelVars, LookedUp, Forgets, Sweeps, SweepRest, MayEnd
<1> QED
  BY <1>1, <1>2, <1>3, <1>4, <1>5, <1>6, <1>7, <1>8, <1>9, <1>10, <1>11, <1>12, <1>13,
     <1>14, <1>15, <1>16, <1>17, <1>18, <1>19, <1>20, <1>21, <1>22, <1>23, <1>24, <1>25,
     <1>26, <1>27, <1>28, <1>29, <1>30 DEF Next

(* A thread leaves from outside its calls, with nothing acquired.          *)
LEMMA LeaversHaveLeft ==
  ASSUME IInv, Quiet, Quiet', Next
  PROVE  Leaving'
<1> USE MutantAssumption, Orders DEF IInv, Token, Leaving, Quiet, TypeOK,
       Goes, Rest, kernelVars, LookedUp, Forgets, Sweeps, SweepRest, MayEnd
<1>1. ASSUME NEW t \in Threads, NEW what \in {"wait", "release"}, Call(t, what)
      PROVE  Leaving'
  BY <1>1 DEF Call
<1>2. ASSUME NEW t \in Threads, SyncSample(t) PROVE Leaving'
  BY <1>2 DEF SyncSample
<1>3. ASSUME NEW t \in Threads, SyncCheck(t) PROVE Leaving'
  BY <1>3 DEF SyncCheck
<1>4. ASSUME NEW t \in Threads, SyncSwap(t) PROVE Leaving'
  BY <1>4 DEF SyncSwap, Swaps
<1>5. ASSUME NEW t \in Threads, SyncUnlink(t) PROVE Leaving'
  BY <1>5 DEF SyncUnlink
<1>6. ASSUME NEW t \in Threads, SyncGive(t) PROVE Leaving'
  BY <1>6 DEF SyncGive
<1>7. ASSUME NEW t \in Threads, ResolveHandle(t) PROVE Leaving'
  BY <1>7 DEF ResolveHandle
<1>8. ASSUME NEW t \in Threads, Poll(t) PROVE Leaving'
  BY <1>8 DEF Poll
<1>9. ASSUME NEW t \in Threads, GiveUp(t) PROVE Leaving'
  BY <1>9 DEF GiveUp
<1>10. ASSUME NEW t \in Threads, TakeHeader(t) PROVE Leaving'
  BY <1>10 DEF TakeHeader, Acquired
<1>11. ASSUME NEW t \in Threads, LoadOwner(t) PROVE Leaving'
  BY <1>11 DEF LoadOwner
<1>12. ASSUME NEW t \in Threads, TakeOwner(t) PROVE Leaving'
  BY <1>12 DEF TakeOwner, Acquired
<1>13. ASSUME NEW t \in Threads, Insert(t) PROVE Leaving'
  BY <1>13 DEF Insert
<1>14. ASSUME NEW t \in Threads, Recurse(t) PROVE Leaving'
  BY <1>14 DEF Recurse
<1>15. ASSUME NEW t \in Threads, AcquireStatus(t) PROVE Leaving'
  BY <1>15 DEF AcquireStatus, FlagCleared
<1>16. ASSUME NEW t \in Threads, ReleaseNotOwned(t) PROVE Leaving'
  BY <1>16 DEF ReleaseNotOwned
<1>17. ASSUME NEW t \in Threads, Release(t) PROVE Leaving'
  BY <1>17 DEF Release
<1>18. ASSUME NEW t \in Threads, Decrement(t) PROVE Leaving'
  BY <1>18 DEF Decrement
<1>19. ASSUME NEW t \in Threads, ClearOwner(t) PROVE Leaving'
  BY <1>19 DEF ClearOwner
<1>20. ASSUME NEW t \in Threads, BumpHeader(t) PROVE Leaving'
  BY <1>20 DEF BumpHeader
<1>21. ASSUME NEW t \in Threads, Unlink(t) PROVE Leaving'
  BY <1>21 DEF Unlink
<1>22. ASSUME NEW t \in Threads, Give(t) PROVE Leaving'
  BY <1>22 DEF Give
<1>23. ASSUME NEW t \in Threads, Exit(t) PROVE Leaving'
  BY <1>23 DEF Exit
<1>24. ASSUME NEW t \in Threads, Terminate(t) PROVE Leaving'
  BY <1>24 DEF Terminate
<1>25. ASSUME NEW t \in Threads, Dies(t) PROVE Leaving'
  BY <1>25 DEF Dies
<1>26. ASSUME NEW t \in Threads, SweepMark(t) PROVE Leaving'
  BY <1>26 DEF SweepMark
<1>27. ASSUME NEW t \in Threads, SweepHeader(t) PROVE Leaving'
  BY <1>27 DEF SweepHeader
<1>28. ASSUME NEW t \in Threads, SweepSwap(t) PROVE Leaving'
  BY <1>28 DEF SweepSwap, GivesItBack
<1>29. ASSUME NEW t \in Threads, SweepGive(t) PROVE Leaving'
  BY <1>29 DEF SweepGive
<1>30. ASSUME NEW t \in Threads, Reinitialize(t) PROVE Leaving'
  BY <1>30 DEF Reinitialize
<1> HIDE MutantAssumption, Orders DEF IInv, Token, Leaving, Quiet, TypeOK,
       Goes, Rest, kernelVars, LookedUp, Forgets, Sweeps, SweepRest, MayEnd
<1> QED
  BY <1>1, <1>2, <1>3, <1>4, <1>5, <1>6, <1>7, <1>8, <1>9, <1>10, <1>11, <1>12, <1>13,
     <1>14, <1>15, <1>16, <1>17, <1>18, <1>19, <1>20, <1>21, <1>22, <1>23, <1>24, <1>25,
     <1>26, <1>27, <1>28, <1>29, <1>30 DEF Next

(* Whoever acquires the mutant clears the flag.                            *)
LEMMA FlagIsReported ==
  ASSUME IInv, Quiet, Quiet', Next
  PROVE  Reported'
<1> USE MutantAssumption, Orders DEF IInv, Token, Owns, Others, Leaving, Reported,
  OwnersCall, OthersCall, Bounded, Releases,
       Goes, Rest, kernelVars, LookedUp, Forgets, Sweeps, SweepRest, MayEnd
<1>1. ASSUME NEW t \in Threads, NEW what \in {"wait", "release"}, Call(t, what)
      PROVE  Reported'
  BY <1>1 DEF Call
<1>2. ASSUME NEW t \in Threads, SyncSample(t) PROVE Reported'
  BY <1>2 DEF SyncSample
<1>3. ASSUME NEW t \in Threads, SyncCheck(t) PROVE Reported'
  BY <1>3 DEF SyncCheck
<1>4. ASSUME NEW t \in Threads, SyncSwap(t) PROVE Reported'
  BY <1>4 DEF SyncSwap, Swaps
<1>5. ASSUME NEW t \in Threads, SyncUnlink(t) PROVE Reported'
  BY <1>5 DEF SyncUnlink
<1>6. ASSUME NEW t \in Threads, SyncGive(t) PROVE Reported'
  BY <1>6 DEF SyncGive
<1>7. ASSUME NEW t \in Threads, ResolveHandle(t) PROVE Reported'
  BY <1>7 DEF ResolveHandle
<1>8. ASSUME NEW t \in Threads, Poll(t) PROVE Reported'
  BY <1>8 DEF Poll
<1>9. ASSUME NEW t \in Threads, GiveUp(t) PROVE Reported'
  BY <1>9 DEF GiveUp
<1>10. ASSUME NEW t \in Threads, TakeHeader(t) PROVE Reported'
  BY <1>10 DEF TakeHeader, Acquired
<1>11. ASSUME NEW t \in Threads, LoadOwner(t) PROVE Reported'
  BY <1>11 DEF LoadOwner
<1>12. ASSUME NEW t \in Threads, TakeOwner(t) PROVE Reported'
  BY <1>12 DEF TakeOwner, Acquired
<1>13. ASSUME NEW t \in Threads, Insert(t) PROVE Reported'
  BY <1>13 DEF Insert
<1>14. ASSUME NEW t \in Threads, Recurse(t) PROVE Reported'
  BY <1>14 DEF Recurse
<1>15. ASSUME NEW t \in Threads, AcquireStatus(t) PROVE Reported'
  BY <1>15 DEF AcquireStatus, FlagCleared
<1>16. ASSUME NEW t \in Threads, ReleaseNotOwned(t) PROVE Reported'
  BY <1>16 DEF ReleaseNotOwned
<1>17. ASSUME NEW t \in Threads, Release(t) PROVE Reported'
  BY <1>17 DEF Release
<1>18. ASSUME NEW t \in Threads, Decrement(t) PROVE Reported'
  BY <1>18 DEF Decrement
<1>19. ASSUME NEW t \in Threads, ClearOwner(t) PROVE Reported'
  BY <1>19 DEF ClearOwner
<1>20. ASSUME NEW t \in Threads, BumpHeader(t) PROVE Reported'
  BY <1>20 DEF BumpHeader
<1>21. ASSUME NEW t \in Threads, Unlink(t) PROVE Reported'
  BY <1>21 DEF Unlink
<1>22. ASSUME NEW t \in Threads, Give(t) PROVE Reported'
  BY <1>22 DEF Give
<1>23. ASSUME NEW t \in Threads, Exit(t) PROVE Reported'
  BY <1>23 DEF Exit
<1>24. ASSUME NEW t \in Threads, Terminate(t) PROVE Reported'
  BY <1>24 DEF Terminate
<1>25. ASSUME NEW t \in Threads, Dies(t) PROVE Reported'
  BY <1>25 DEF Dies
<1>26. ASSUME NEW t \in Threads, SweepMark(t) PROVE Reported'
  <2>1. CASE chain = t
    BY <2>1, <1>26 DEF SweepMark
  <2>2. CASE chain # t
    BY <2>2, <1>26 DEF SweepMark
  <2> QED BY <2>1, <2>2
<1>27. ASSUME NEW t \in Threads, SweepHeader(t) PROVE Reported'
  BY <1>27 DEF SweepHeader
<1>28. ASSUME NEW t \in Threads, SweepSwap(t) PROVE Reported'
  BY <1>28 DEF SweepSwap, GivesItBack
<1>29. ASSUME NEW t \in Threads, SweepGive(t) PROVE Reported'
  BY <1>29 DEF SweepGive
<1>30. ASSUME NEW t \in Threads, Reinitialize(t) PROVE Reported'
  BY <1>30 DEF Reinitialize
<1> HIDE MutantAssumption, Orders DEF IInv, Token, Owns, Others, Leaving, Reported,
  OwnersCall, OthersCall, Bounded, Releases,
       Goes, Rest, kernelVars, LookedUp, Forgets, Sweeps, SweepRest, MayEnd
<1> QED
  BY <1>1, <1>2, <1>3, <1>4, <1>5, <1>6, <1>7, <1>8, <1>9, <1>10, <1>11, <1>12, <1>13,
     <1>14, <1>15, <1>16, <1>17, <1>18, <1>19, <1>20, <1>21, <1>22, <1>23, <1>24, <1>25,
     <1>26, <1>27, <1>28, <1>29, <1>30 DEF Next

(* The fields follow the call of the owner.                                *)
LEMMA OwnersState ==
  ASSUME IInv, Quiet, Quiet', Next
  PROVE  Owns'
<1> USE MutantAssumption, Orders DEF IInv, Token, OneCarrier, WhenFree, Owns, Others,
  Leaving, Samples, Reported, Carries, Agree, OwnersCall, OwnersEnd, OthersCall, Taking,
  Giving, SyncPcs, OwnerPcs, GivePcs, WaitPcs, Locked, Regimes, NeverLost, Quiet, TypeOK,
  Bounded, Acquires, Releases,
       Goes, Rest, kernelVars, LookedUp, Forgets, Sweeps, SweepRest, MayEnd
<1>1. ASSUME NEW t \in Threads, NEW what \in {"wait", "release"}, Call(t, what)
      PROVE  Owns'
  BY <1>1 DEF Call
<1>2. ASSUME NEW t \in Threads, SyncSample(t) PROVE Owns'
  BY <1>2 DEF SyncSample
<1>3. ASSUME NEW t \in Threads, SyncCheck(t) PROVE Owns'
  BY <1>3 DEF SyncCheck
<1>4. ASSUME NEW t \in Threads, SyncSwap(t) PROVE Owns'
  BY <1>4 DEF SyncSwap, Swaps
<1>5. ASSUME NEW t \in Threads, SyncUnlink(t) PROVE Owns'
  BY <1>5 DEF SyncUnlink
<1>6. ASSUME NEW t \in Threads, SyncGive(t) PROVE Owns'
  BY <1>6 DEF SyncGive
<1>7. ASSUME NEW t \in Threads, ResolveHandle(t) PROVE Owns'
  BY <1>7 DEF ResolveHandle
<1>8. ASSUME NEW t \in Threads, Poll(t) PROVE Owns'
  BY <1>8 DEF Poll
<1>9. ASSUME NEW t \in Threads, GiveUp(t) PROVE Owns'
  BY <1>9 DEF GiveUp
<1>10. ASSUME NEW t \in Threads, TakeHeader(t) PROVE Owns'
  BY <1>10 DEF TakeHeader, Acquired
<1>11. ASSUME NEW t \in Threads, LoadOwner(t) PROVE Owns'
  BY <1>11 DEF LoadOwner
<1>12. ASSUME NEW t \in Threads, TakeOwner(t) PROVE Owns'
  BY <1>12 DEF TakeOwner, Acquired
<1>13. ASSUME NEW t \in Threads, Insert(t) PROVE Owns'
  BY <1>13 DEF Insert
<1>14. ASSUME NEW t \in Threads, Recurse(t) PROVE Owns'
  BY <1>14 DEF Recurse
<1>15. ASSUME NEW t \in Threads, AcquireStatus(t) PROVE Owns'
  BY <1>15 DEF AcquireStatus, FlagCleared
<1>16. ASSUME NEW t \in Threads, ReleaseNotOwned(t) PROVE Owns'
  BY <1>16 DEF ReleaseNotOwned
<1>17. ASSUME NEW t \in Threads, Release(t) PROVE Owns'
  BY <1>17 DEF Release
<1>18. ASSUME NEW t \in Threads, Decrement(t) PROVE Owns'
  BY <1>18 DEF Decrement
<1>19. ASSUME NEW t \in Threads, ClearOwner(t) PROVE Owns'
  BY <1>19 DEF ClearOwner
<1>20. ASSUME NEW t \in Threads, BumpHeader(t) PROVE Owns'
  BY <1>20 DEF BumpHeader
<1>21. ASSUME NEW t \in Threads, Unlink(t) PROVE Owns'
  BY <1>21 DEF Unlink
<1>22. ASSUME NEW t \in Threads, Give(t) PROVE Owns'
  BY <1>22 DEF Give
<1>23. ASSUME NEW t \in Threads, Exit(t) PROVE Owns'
  BY <1>23 DEF Exit
<1>24. ASSUME NEW t \in Threads, Terminate(t) PROVE Owns'
  BY <1>24 DEF Terminate
<1>25. ASSUME NEW t \in Threads, Dies(t) PROVE Owns'
  BY <1>25 DEF Dies
<1>26. ASSUME NEW t \in Threads, SweepMark(t) PROVE Owns'
  BY <1>26 DEF SweepMark
<1>27. ASSUME NEW t \in Threads, SweepHeader(t) PROVE Owns'
  BY <1>27 DEF SweepHeader
<1>28. ASSUME NEW t \in Threads, SweepSwap(t) PROVE Owns'
  BY <1>28 DEF SweepSwap, GivesItBack
<1>29. ASSUME NEW t \in Threads, SweepGive(t) PROVE Owns'
  BY <1>29 DEF SweepGive
<1>30. ASSUME NEW t \in Threads, Reinitialize(t) PROVE Owns'
  BY <1>30 DEF Reinitialize
<1> HIDE MutantAssumption, Orders DEF IInv, Token, OneCarrier, WhenFree, Owns, Others,
  Leaving, Samples, Reported, Carries, Agree, OwnersCall, OwnersEnd, OthersCall, Taking,
  Giving, SyncPcs, OwnerPcs, GivePcs, WaitPcs, Locked, Regimes, NeverLost, Quiet, TypeOK,
  Bounded, Acquires, Releases,
       Goes, Rest, kernelVars, LookedUp, Forgets, Sweeps, SweepRest, MayEnd
<1> QED
  BY <1>1, <1>2, <1>3, <1>4, <1>5, <1>6, <1>7, <1>8, <1>9, <1>10, <1>11, <1>12, <1>13,
     <1>14, <1>15, <1>16, <1>17, <1>18, <1>19, <1>20, <1>21, <1>22, <1>23, <1>24, <1>25,
     <1>26, <1>27, <1>28, <1>29, <1>30 DEF Next

(* The fields follow the calls of those that take and those that give.     *)
LEMMA OthersState ==
  ASSUME IInv, Quiet, Quiet', Next
  PROVE  Others'
<1> USE MutantAssumption, Orders DEF IInv, Token, OneCarrier, WhenFree, Owns, Others,
  Leaving, Samples, Carries, OwnersCall, OwnersEnd, OthersCall, Taking, Giving, SyncPcs,
  OwnerPcs, GivePcs, Regimes, NeverLost, TypeOK,
       Goes, Rest, kernelVars, LookedUp, Forgets, Sweeps, SweepRest, MayEnd
<1>1. ASSUME NEW t \in Threads, NEW what \in {"wait", "release"}, Call(t, what)
      PROVE  Others'
  BY <1>1 DEF Call
<1>2. ASSUME NEW t \in Threads, SyncSample(t) PROVE Others'
  BY <1>2 DEF SyncSample
<1>3. ASSUME NEW t \in Threads, SyncCheck(t) PROVE Others'
  BY <1>3 DEF SyncCheck
<1>4. ASSUME NEW t \in Threads, SyncSwap(t) PROVE Others'
  <2> USE <1>4 DEF SyncSwap, Swaps
  <2>1. CASE ~Swaps(t)
    BY <2>1
  <2>2. CASE Swaps(t)
    <3> DEFINE w == sampled[t]
    <3>1. w \in Threads /\ owner = w /\ header = 1 /\ pc[t] = "swap"
      BY <2>2
    <3>2. sweep[w] = "no"
      BY <3>1
    <3>3. held[w] = 0 /\ pc[w] \in {"out", "sample", "check", "swap"}
      BY <3>1, <3>2, OwnerOut
    <3> HIDE DEF w
    <3>5. \A u \in Threads : /\ held[u] = 0 /\ pc[u] \notin OwnerPcs
                             /\ pc[u] \notin {"header", "load", "owner"}
                             /\ pc[u] \notin GivePcs /\ sweep[u] = "no"
      BY <3>1, <3>3
    <3> QED BY <3>1, <3>5, <2>2
  <2> QED BY <2>1, <2>2
<1>5. ASSUME NEW t \in Threads, SyncUnlink(t) PROVE Others'
  BY <1>5 DEF SyncUnlink
<1>6. ASSUME NEW t \in Threads, SyncGive(t) PROVE Others'
  BY <1>6 DEF SyncGive
<1>7. ASSUME NEW t \in Threads, ResolveHandle(t) PROVE Others'
  BY <1>7 DEF ResolveHandle
<1>8. ASSUME NEW t \in Threads, Poll(t) PROVE Others'
  BY <1>8 DEF Poll
<1>9. ASSUME NEW t \in Threads, GiveUp(t) PROVE Others'
  BY <1>9 DEF GiveUp
<1>10. ASSUME NEW t \in Threads, TakeHeader(t) PROVE Others'
  BY <1>10 DEF TakeHeader, Acquired
<1>11. ASSUME NEW t \in Threads, LoadOwner(t) PROVE Others'
  BY <1>11 DEF LoadOwner
<1>12. ASSUME NEW t \in Threads, TakeOwner(t) PROVE Others'
  BY <1>12 DEF TakeOwner, Acquired
<1>13. ASSUME NEW t \in Threads, Insert(t) PROVE Others'
  BY <1>13 DEF Insert
<1>14. ASSUME NEW t \in Threads, Recurse(t) PROVE Others'
  BY <1>14 DEF Recurse
<1>15. ASSUME NEW t \in Threads, AcquireStatus(t) PROVE Others'
  BY <1>15 DEF AcquireStatus, FlagCleared
<1>16. ASSUME NEW t \in Threads, ReleaseNotOwned(t) PROVE Others'
  BY <1>16 DEF ReleaseNotOwned
<1>17. ASSUME NEW t \in Threads, Release(t) PROVE Others'
  BY <1>17 DEF Release
<1>18. ASSUME NEW t \in Threads, Decrement(t) PROVE Others'
  BY <1>18 DEF Decrement
<1>19. ASSUME NEW t \in Threads, ClearOwner(t) PROVE Others'
  BY <1>19 DEF ClearOwner
<1>20. ASSUME NEW t \in Threads, BumpHeader(t) PROVE Others'
  BY <1>20 DEF BumpHeader
<1>21. ASSUME NEW t \in Threads, Unlink(t) PROVE Others'
  BY <1>21 DEF Unlink
<1>22. ASSUME NEW t \in Threads, Give(t) PROVE Others'
  BY <1>22 DEF Give
<1>23. ASSUME NEW t \in Threads, Exit(t) PROVE Others'
  BY <1>23 DEF Exit
<1>24. ASSUME NEW t \in Threads, Terminate(t) PROVE Others'
  BY <1>24 DEF Terminate
<1>25. ASSUME NEW t \in Threads, Dies(t) PROVE Others'
  BY <1>25 DEF Dies
<1>26. ASSUME NEW t \in Threads, SweepMark(t) PROVE Others'
  BY <1>26 DEF SweepMark
<1>27. ASSUME NEW t \in Threads, SweepHeader(t) PROVE Others'
  BY <1>27 DEF SweepHeader
<1>28. ASSUME NEW t \in Threads, SweepSwap(t) PROVE Others'
  BY <1>28 DEF SweepSwap, GivesItBack
<1>29. ASSUME NEW t \in Threads, SweepGive(t) PROVE Others'
  BY <1>29 DEF SweepGive
<1>30. ASSUME NEW t \in Threads, Reinitialize(t) PROVE Others'
  BY <1>30 DEF Reinitialize
<1> HIDE MutantAssumption, Orders DEF IInv, Token, OneCarrier, WhenFree, Owns, Others,
  Leaving, Samples, Carries, OwnersCall, OwnersEnd, OthersCall, Taking, Giving, SyncPcs,
  OwnerPcs, GivePcs, Regimes, NeverLost, TypeOK,
       Goes, Rest, kernelVars, LookedUp, Forgets, Sweeps, SweepRest, MayEnd
<1> QED
  BY <1>1, <1>2, <1>3, <1>4, <1>5, <1>6, <1>7, <1>8, <1>9, <1>10, <1>11, <1>12, <1>13,
     <1>14, <1>15, <1>16, <1>17, <1>18, <1>19, <1>20, <1>21, <1>22, <1>23, <1>24, <1>25,
     <1>26, <1>27, <1>28, <1>29, <1>30 DEF Next

(* What a thread has sampled holds until it uses it.                       *)
LEMMA SamplesHold ==
  ASSUME IInv, Quiet, Quiet', Next
  PROVE  Samples'
<1> USE MutantAssumption, Orders DEF IInv, Token, OneCarrier, Owns, Others, Leaving,
  Samples, Carries, Agree, OwnersCall, OthersCall, Taking, SyncPcs, OwnerPcs, GivePcs,
  Locked, Regimes, TypeOK,
       Goes, Rest, kernelVars, LookedUp, Forgets, Sweeps, SweepRest, MayEnd
<1>1. ASSUME NEW t \in Threads, NEW what \in {"wait", "release"}, Call(t, what)
      PROVE  Samples'
  BY <1>1 DEF Call
<1>2. ASSUME NEW t \in Threads, SyncSample(t) PROVE Samples'
  BY <1>2 DEF SyncSample
<1>3. ASSUME NEW t \in Threads, SyncCheck(t) PROVE Samples'
  <2> USE <1>3 DEF SyncCheck
  <2>1. CASE header < 1
    BY <2>1
  <2>2. CASE header >= 1
    <3>1. owner = sampled[t] => header = 1
      <4> SUFFICES ASSUME owner = sampled[t] PROVE header = 1
        OBVIOUS
      <4>1. owner \in Threads /\ sweep[owner] = "no"
        OBVIOUS
      <4> QED BY <2>2, <4>1, OwnerOut
    <3> QED BY <2>2, <3>1
  <2> QED BY <2>1, <2>2
<1>4. ASSUME NEW t \in Threads, SyncSwap(t) PROVE Samples'
  BY <1>4 DEF SyncSwap, Swaps
<1>5. ASSUME NEW t \in Threads, SyncUnlink(t) PROVE Samples'
  BY <1>5 DEF SyncUnlink
<1>6. ASSUME NEW t \in Threads, SyncGive(t) PROVE Samples'
  BY <1>6 DEF SyncGive
<1>7. ASSUME NEW t \in Threads, ResolveHandle(t) PROVE Samples'
  BY <1>7 DEF ResolveHandle
<1>8. ASSUME NEW t \in Threads, Poll(t) PROVE Samples'
  BY <1>8 DEF Poll
<1>9. ASSUME NEW t \in Threads, GiveUp(t) PROVE Samples'
  BY <1>9 DEF GiveUp
<1>10. ASSUME NEW t \in Threads, TakeHeader(t) PROVE Samples'
  BY <1>10 DEF TakeHeader, Acquired
<1>11. ASSUME NEW t \in Threads, LoadOwner(t) PROVE Samples'
  BY <1>11 DEF LoadOwner
<1>12. ASSUME NEW t \in Threads, TakeOwner(t) PROVE Samples'
  BY <1>12 DEF TakeOwner, Acquired
<1>13. ASSUME NEW t \in Threads, Insert(t) PROVE Samples'
  BY <1>13 DEF Insert
<1>14. ASSUME NEW t \in Threads, Recurse(t) PROVE Samples'
  BY <1>14 DEF Recurse
<1>15. ASSUME NEW t \in Threads, AcquireStatus(t) PROVE Samples'
  BY <1>15 DEF AcquireStatus, FlagCleared
<1>16. ASSUME NEW t \in Threads, ReleaseNotOwned(t) PROVE Samples'
  BY <1>16 DEF ReleaseNotOwned
<1>17. ASSUME NEW t \in Threads, Release(t) PROVE Samples'
  BY <1>17 DEF Release
<1>18. ASSUME NEW t \in Threads, Decrement(t) PROVE Samples'
  BY <1>18 DEF Decrement
<1>19. ASSUME NEW t \in Threads, ClearOwner(t) PROVE Samples'
  BY <1>19 DEF ClearOwner
<1>20. ASSUME NEW t \in Threads, BumpHeader(t) PROVE Samples'
  BY <1>20 DEF BumpHeader
<1>21. ASSUME NEW t \in Threads, Unlink(t) PROVE Samples'
  BY <1>21 DEF Unlink
<1>22. ASSUME NEW t \in Threads, Give(t) PROVE Samples'
  BY <1>22 DEF Give
<1>23. ASSUME NEW t \in Threads, Exit(t) PROVE Samples'
  BY <1>23 DEF Exit
<1>24. ASSUME NEW t \in Threads, Terminate(t) PROVE Samples'
  BY <1>24 DEF Terminate
<1>25. ASSUME NEW t \in Threads, Dies(t) PROVE Samples'
  BY <1>25 DEF Dies
<1>26. ASSUME NEW t \in Threads, SweepMark(t) PROVE Samples'
  BY <1>26 DEF SweepMark
<1>27. ASSUME NEW t \in Threads, SweepHeader(t) PROVE Samples'
  BY <1>27 DEF SweepHeader
<1>28. ASSUME NEW t \in Threads, SweepSwap(t) PROVE Samples'
  BY <1>28 DEF SweepSwap, GivesItBack
<1>29. ASSUME NEW t \in Threads, SweepGive(t) PROVE Samples'
  BY <1>29 DEF SweepGive
<1>30. ASSUME NEW t \in Threads, Reinitialize(t) PROVE Samples'
  BY <1>30 DEF Reinitialize
<1> HIDE MutantAssumption, Orders DEF IInv, Token, OneCarrier, Owns, Others, Leaving,
  Samples, Carries, Agree, OwnersCall, OthersCall, Taking, SyncPcs, OwnerPcs, GivePcs,
  Locked, Regimes, TypeOK,
       Goes, Rest, kernelVars, LookedUp, Forgets, Sweeps, SweepRest, MayEnd
<1> QED
  BY <1>1, <1>2, <1>3, <1>4, <1>5, <1>6, <1>7, <1>8, <1>9, <1>10, <1>11, <1>12, <1>13,
     <1>14, <1>15, <1>16, <1>17, <1>18, <1>19, <1>20, <1>21, <1>22, <1>23, <1>24, <1>25,
     <1>26, <1>27, <1>28, <1>29, <1>30 DEF Next

(* Each part of the invariant is kept by every step.                       *)
LEMMA StepKeeps == IInv /\ Next => IInv'
<1> SUFFICES ASSUME IInv, Next PROVE IInv'
  OBVIOUS
<1>1. TypeOK' /\ Locked' /\ Regimes' /\ Bounded' /\ NeverLost'
  BY TypeIsKept, LockIsKept, RegimesAreKept, BoundsAreKept, NothingLost DEF IInv
<1>2. ASSUME Quiet' PROVE Token'
  <2>1. Quiet
    <3> SUFFICES ASSUME NEW v \in Victims, sweep[v] # "no" PROVE sweep'[v] # "no"
      BY <1>2 DEF Quiet
    <3>1. v \in Threads /\ sweep \in [Threads -> SweepPcs]
      BY MutantAssumption DEF IInv, TypeOK
    <3>2. ASSUME NEW t \in Threads, NEW to \in SweepPcs \ {"no"},
                 sweep' = [sweep EXCEPT ![t] = to]
          PROVE  sweep'[v] # "no"
      BY <3>1, <3>2
    <3>3. \/ sweep' = sweep
          \/ \E t \in Threads, to \in SweepPcs \ {"no"} : sweep' = [sweep EXCEPT ![t] = to]
      BY DEF Next, Call, SyncSample, SyncCheck, SyncSwap, SyncUnlink, SyncGive,
             ResolveHandle, Poll, GiveUp, TakeHeader, LoadOwner, TakeOwner, Insert,
             Recurse, AcquireStatus, ReleaseNotOwned, Release, Decrement, ClearOwner,
             BumpHeader, Unlink, Give, Exit, Terminate, Dies, SweepMark, SweepHeader,
             SweepSwap, SweepGive, Reinitialize, Rest, SweepRest, Sweeps,
             GivesItBack, SweepPcs
    <3> QED BY <3>2, <3>3
  <2>2. OneCarrier' /\ WhenFree' /\ Leaving' /\ Reported' /\ Owns' /\ Others' /\ Samples'
    BY <1>2, <2>1, OneCarries, FreeIsFree, LeaversHaveLeft, FlagIsReported,
       OwnersState, OthersState, SamplesHold
  <2> QED BY <2>2 DEF Token
<1> QED BY <1>1, <1>2 DEF IInv

(* It holds at first.                                                      *)
LEMMA StartsWell == Init => IInv
<1> SUFFICES ASSUME Init PROVE IInv
  OBVIOUS
<1> USE MutantAssumption DEF Init
<1>1. TypeOK
  <2>1. 0 \in 0 .. MaxDepth /\ "out" \in Pcs /\ "no" \in SweepPcs
    BY DEF Pcs, SweepPcs
  <2>2. held \in [Threads -> 0 .. MaxDepth]
    BY <2>1
  <2>3. host \in {0, 1} /\ recursion \in Int /\ header \in Int
    OBVIOUS
  <2>4. abandoned \in BOOLEAN
    OBVIOUS
  <2> QED BY <2>1, <2>2, <2>3, <2>4 DEF TypeOK
<1>2. Locked /\ Regimes /\ Bounded /\ NeverLost
  BY DEF Locked, Regimes, Bounded, NeverLost, Acquires, Releases, SyncPcs, WaitPcs
<1>3. OneCarrier /\ WhenFree /\ Reported
  BY DEF OneCarrier, Carries, Taking, Giving, WhenFree, Reported
<1>4. Owns /\ Others /\ Leaving /\ Samples
  BY DEF Owns, Others, OthersCall, OwnerPcs, Leaving, Samples
<1> QED BY <1>1, <1>2, <1>3, <1>4 DEF IInv, Token

(* So it holds always.                                                     *)
LEMMA Inductive == Spec => []IInv
<1>1. IInv /\ UNCHANGED vars => IInv'
  BY DEF vars, kernelVars, IInv, TypeOK, Locked, Regimes, Bounded, Acquires, Releases,
         NeverLost, Taking, Giving, Quiet, Token, OneCarrier, Carries, WhenFree, Owns,
         OwnersEnd, OwnersCall, Agree, Others, OthersCall, Leaving, Samples, Reported
<1>2. IInv /\ [Next]_vars => IInv'
  BY <1>1, StepKeeps
<1> QED BY <1>2, StartsWell, PTL DEF Spec

-----------------------------------------------------------------------------
(* Every variable keeps to its values.                                     *)
THEOREM MutantTypeCorrect == Spec => []TypeOK
<1>1. IInv => TypeOK
  BY DEF IInv
<1> QED BY <1>1, Inductive, PTL

(* xmutant.cc: however waits, releases, lookups, exits and terminations    *)
(* interleave, the count of free_signal_ is not lost, so that the mutant   *)
(* can be acquired again.                                                  *)
THEOREM TokenNeverLost == Spec => []NeverLost
<1>1. IInv => NeverLost
  BY DEF IInv
<1> QED BY <1>1, Inductive, PTL

(* xmutant.cc: until a thread is terminated by another, the mutant is      *)
(* free, owned, being taken or being given back, by one thread.            *)
THEOREM TokenIsOne == Spec => []OneToken
<1>1. IInv => OneToken
  <2> SUFFICES ASSUME IInv, Quiet
               PROVE  host + (IF owner = None THEN 0 ELSE 1)
                      + Cardinality(Taking) + Cardinality(Giving) = 1
    BY DEF OneToken, Quiet
  <2>1. OneCarrier /\ Owns /\ TypeOK /\ NeverLost
    BY DEF IInv, Token
  <2>2. Cardinality({}) = 0 /\ \A t : Cardinality({t}) = 1
    BY FS_EmptySet, FS_Singleton
  <2>3. host = 1 \/ \E t \in Threads : Carries(t)
    BY <2>1 DEF NeverLost, Carries, Taking, Giving, TypeOK
  <2>4. CASE host = 1
    <3>1. owner = None /\ Taking = {} /\ Giving = {}
      BY <2>1, <2>4 DEF OneCarrier, Carries, TypeOK, Taking, Giving
    <3> QED BY <3>1, <2>2, <2>4
  <2>5. ASSUME NEW t \in Threads, Carries(t)
        PROVE  host + (IF owner = None THEN 0 ELSE 1)
               + Cardinality(Taking) + Cardinality(Giving) = 1
    <3>1. host = 0
      BY <2>1, <2>5 DEF OneCarrier
    <3>2. Taking \subseteq {t} /\ Giving \subseteq {t} /\ owner \in {t, None}
      BY <2>1, <2>5 DEF OneCarrier, Carries, TypeOK, Taking, Giving
    <3>3. t # None
      BY MutantAssumption
    <3>4. CASE owner = t
      <4>1. Taking = {}
        BY <3>2, <3>4 DEF Taking
      <4>2. Giving = {}
        BY <3>2, <3>4, <2>1 DEF Giving, Owns, OwnersEnd, GivePcs
      <4> QED BY <4>1, <4>2, <3>1, <3>3, <3>4, <2>2
    <3>5. CASE owner = None /\ t \in Taking
      <4>1. Giving = {}
        BY <2>1, <3>2, <3>5 DEF Taking, Giving, IInv, Token, Others, Leaving, SweepPcs
      <4>2. Taking = {t}
        BY <3>2, <3>5
      <4> QED BY <4>1, <4>2, <3>1, <3>5, <2>2
    <3>6. CASE owner = None /\ t \notin Taking
      <4>1. Taking = {} /\ Giving = {t}
        BY <3>2, <3>3, <3>6, <2>5 DEF Carries
      <4>2. Cardinality(Taking) = 0 /\ Cardinality(Giving) = 1
        BY <4>1, <2>2
      <4> QED BY <4>2, <3>1, <3>6
    <3> QED BY <3>2, <3>3, <3>4, <3>5, <3>6
  <2> QED BY <2>3, <2>4, <2>5
<1> QED BY <1>1, Inductive, PTL

(* xmutant.cc: until a thread ends, what its guest code has acquired and   *)
(* not released is its own, and the kernel and the guest's header agree on *)
(* how often.                                                              *)
THEOREM AcquiredIsOwned == Spec => []HoldersOwn
<1>1. IInv => HoldersOwn
  <2> SUFFICES ASSUME IInv, NEW t \in Threads, pc[t] = "out", held[t] > 0,
                      \A v \in Threads : sweep[v] = "no"
               PROVE  owner = t /\ recursion = held[t] /\ header = 1 - held[t]
    BY DEF HoldersOwn
  <2>1. Quiet
    BY MutantAssumption DEF Quiet
  <2>2. Owns /\ Others /\ held[t] \in Nat /\ header \in Int
    BY <2>1, MutantAssumption DEF IInv, Token, TypeOK
  <2>3. owner = t
    BY <2>2 DEF Others, OthersCall
  <2>4. Agree(t, 0)
    BY <2>2, <2>3 DEF Owns, OwnersCall
  <2> QED BY <2>2, <2>3, <2>4 DEF Agree
<1> QED BY <1>1, Inductive, PTL

(* xmutant.cc, AcquireStatus: until a thread is terminated by another, no  *)
(* thread holds the mutant without having been told that it was abandoned. *)
THEOREM AbandonmentIsReported == Spec => []AbandonmentReported
<1>1. IInv => AbandonmentReported
  BY DEF IInv, Token, Reported, Quiet, AbandonmentReported, TypeOK
<1> QED BY <1>1, Inductive, PTL

=============================================================================
