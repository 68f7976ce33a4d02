------------------------ MODULE GuestSchedulerProofs ------------------------
(***************************************************************************)
(* The guest scheduler keeps every thread in one place, with one owner,    *)
(* for every number of CPUs, threads, callers and levels, whatever the     *)
(* environment calls and guest code does, except that no thread resumes    *)
(* itself (no plan with "resumeself": the run self_resume shows what       *)
(* happens then).  The wake-ups come last: WakeInv is added to the         *)
(* invariant IInv of the lists, and no work and no signal is lost while a  *)
(* dispatch thread goes to sleep or a waiter parks.                        *)
(***************************************************************************)
EXTENDS GuestSchedulerProperties, SequenceTheorems, WellFoundedInduction, TLAPS

-----------------------------------------------------------------------------
(* The intrusive lists: taking a thread out of its list and linking it into  *)
(* another keeps every thread in one place and the summary words exact.      *)

(* A nonempty set of integers of -1 .. n has a greatest element.           *)
LEMMA GreatestExists ==
  ASSUME NEW n \in Nat, NEW S \in SUBSET (-1 .. n), S # {}
  PROVE  \E p \in S : \A q \in S : q <= p
<1> DEFINE T == {n - p : p \in S}
<1>1. T \subseteq Nat /\ T # {}
  <2>1. ASSUME NEW p \in S PROVE n - p \in Nat
    <3>1. p \in Int /\ p <= n
      OBVIOUS
    <3> QED
      BY <3>1
  <2>2. PICK p \in S : TRUE
    OBVIOUS
  <2>3. n - p \in T
    OBVIOUS
  <2> QED
    BY <2>1, <2>3
<1>2. \E x \in T : \A y \in T : ~(<<y, x>> \in OpToRel(<, Nat))
  BY <1>1, NatLessThanWellFounded, WFMin
<1>3. PICK x \in T : \A y \in T : ~(<<y, x>> \in OpToRel(<, Nat))
  BY <1>2
<1>4. \A y \in T : ~(y < x)
  BY <1>1, <1>3 DEF OpToRel
<1>5. PICK p \in S : x = n - p
  OBVIOUS
<1>6. ASSUME NEW q \in S PROVE q <= p
  <2>1. ~(n - q < n - p)
    BY <1>4, <1>5
  <2> QED
    BY <2>1
<1> QED
  BY <1>6

NoDup(s) == \A i, j \in DOMAIN s : s[i] = s[j] => i = j

(* UnlinkLocked drops the thread and nothing else.                         *)
LEMMA UnlinkDrops ==
  ASSUME NEW T, NEW s \in Seq(T), NoDup(s), NEW t
  PROVE  /\ Unlink(s, t) \in Seq(T)
         /\ NoDup(Unlink(s, t))
         /\ RangeOf(Unlink(s, t)) = RangeOf(s) \ {t}
<1>1. CASE t \notin RangeOf(s)
  BY <1>1 DEF Unlink
<1>2. CASE t \in RangeOf(s)
  <2> DEFINE i == CHOOSE j \in DOMAIN s : s[j] = t
             u == SubSeq(s, 1, i - 1) \o SubSeq(s, i + 1, Len(s))
  <2>1. i \in 1 .. Len(s) /\ s[i] = t
    BY <1>2 DEF RangeOf
  <2>2. Unlink(s, t) = u
    BY <1>2 DEF Unlink
  <2> HIDE DEF i
  <2>3. /\ u \in Seq(T) /\ Len(u) = Len(s) - 1
        /\ \A j \in 1 .. Len(u) : u[j] = IF j < i THEN s[j] ELSE s[j + 1]
    <3> DEFINE l == SubSeq(s, 1, i - 1)
               r == SubSeq(s, i + 1, Len(s))
    <3>1. \A j \in 1 .. Len(s) : s[j] \in T
      OBVIOUS
    <3>2. l \in Seq(T) /\ Len(l) = i - 1 /\ \A j \in 1 .. i - 1 : l[j] = s[j]
      BY <2>1, <3>1, SubSeqProperties
    <3>3. /\ r \in Seq(T) /\ Len(r) = Len(s) - i
          /\ \A j \in 1 .. Len(s) - i : r[j] = s[j + i]
      BY <2>1, <3>1, SubSeqProperties
    <3> HIDE DEF l, r
    <3>4. /\ l \o r \in Seq(T) /\ Len(l \o r) = Len(s) - 1
          /\ \A j \in 1 .. Len(s) - 1 : (l \o r)[j] = IF j <= i - 1 THEN l[j] ELSE r[j - (i - 1)]
      <4>1. Len(l) + Len(r) = Len(s) - 1
        BY <2>1, <3>2, <3>3
      <4>2. /\ l \o r \in Seq(T) /\ Len(l \o r) = Len(l) + Len(r)
            /\ \A j \in 1 .. Len(l) + Len(r) :
                 (l \o r)[j] = IF j <= Len(l) THEN l[j] ELSE r[j - Len(l)]
        BY <3>2, <3>3, ConcatProperties
      <4> QED
        BY <3>2, <4>1, <4>2
    <3>5. u = l \o r
      BY DEF l, r
    <3> HIDE DEF u
    <3>6. Len(s) \in Nat
      OBVIOUS
    <3>7. ASSUME NEW j \in 1 .. Len(s) - 1
          PROVE  u[j] = IF j < i THEN s[j] ELSE s[j + 1]
      <4>1. CASE j < i
        BY <2>1, <3>2, <3>4, <3>5, <3>6, <4>1
      <4>2. CASE ~(j < i)
        <5>1. j - (i - 1) \in 1 .. Len(s) - i /\ j - (i - 1) + i = j + 1
          BY <2>1, <3>6, <4>2
        <5> QED
          BY <2>1, <3>3, <3>4, <3>5, <3>6, <4>2, <5>1
      <4> QED
        BY <4>1, <4>2
    <3> QED
      BY <3>4, <3>5, <3>7
  <2> HIDE DEF u
  <2>4. NoDup(u)
    <3>1. /\ DOMAIN u = 1 .. Len(u) /\ Len(s) \in Nat
          /\ \A j, k \in 1 .. Len(s) : s[j] = s[k] => j = k
      BY <2>3 DEF NoDup
    <3>2. ASSUME NEW j \in 1 .. Len(u), NEW k \in 1 .. Len(u), u[j] = u[k], j < k
          PROVE  FALSE
      BY <2>1, <2>3, <3>1, <3>2
    <3>3. ASSUME NEW j \in 1 .. Len(u), NEW k \in 1 .. Len(u), u[j] = u[k]
          PROVE  j = k
      <4>1. ~(j < k) /\ ~(k < j)
        BY <3>2, <3>3
      <4> QED
        BY <2>3, <3>1, <4>1
    <3> QED
      BY <3>1, <3>3 DEF NoDup
  <2>5. ASSUME NEW x \in RangeOf(u) PROVE x \in RangeOf(s) \ {t}
    BY <2>1, <2>3, <2>5 DEF RangeOf, NoDup
  <2>6. ASSUME NEW x \in RangeOf(s) \ {t} PROVE x \in RangeOf(u)
    <3>1. PICK j \in 1 .. Len(s) : s[j] = x
      BY DEF RangeOf
    <3>2. CASE j < i
      BY <2>1, <2>3, <3>1, <3>2 DEF RangeOf
    <3>3. CASE j > i
      <4>1. j - 1 \in 1 .. Len(u) /\ u[j - 1] = x
        BY <2>1, <2>3, <3>1, <3>3
      <4> QED
        BY <4>1, <2>3 DEF RangeOf
    <3> QED
      BY <2>1, <3>1, <3>2, <3>3
  <2> QED
    BY <2>2, <2>3, <2>4, <2>5, <2>6
<1> QED
  BY <1>1, <1>2

(* A thread linked at either end of a list it is not in.                   *)
LEMMA LinkAdds ==
  ASSUME NEW T, NEW s \in Seq(T), NoDup(s), NEW t \in T, t \notin RangeOf(s)
  PROVE  /\ Append(s, t) \in Seq(T) /\ NoDup(Append(s, t))
         /\ RangeOf(Append(s, t)) = RangeOf(s) \cup {t}
         /\ Append(s, t) # <<>>
         /\ <<t>> \o s \in Seq(T) /\ NoDup(<<t>> \o s)
         /\ RangeOf(<<t>> \o s) = RangeOf(s) \cup {t}
         /\ <<t>> \o s # <<>>
<1> DEFINE a == Append(s, t)
           h == <<t>> \o s
<1>1. /\ a \in Seq(T) /\ Len(a) = Len(s) + 1 /\ a[Len(s) + 1] = t
      /\ \A i \in 1 .. Len(s) : a[i] = s[i]
  OBVIOUS
<1>2. /\ h \in Seq(T) /\ Len(h) = Len(s) + 1 /\ h[1] = t
      /\ \A i \in 1 .. Len(s) : h[i + 1] = s[i]
  OBVIOUS
<1> HIDE DEF a, h
<1>3. NoDup(a) /\ RangeOf(a) = RangeOf(s) \cup {t} /\ a # <<>>
  <2>1. NoDup(a) /\ a # <<>>
    BY <1>1 DEF NoDup, RangeOf
  <2>2. RangeOf(a) \subseteq RangeOf(s) \cup {t}
    BY <1>1 DEF RangeOf
  <2>3. RangeOf(s) \cup {t} \subseteq RangeOf(a)
    BY <1>1 DEF RangeOf
  <2> QED
    BY <2>1, <2>2, <2>3
<1>4. \A i \in 2 .. Len(h) : h[i] = s[i - 1]
  BY <1>2
<1>5. NoDup(h) /\ RangeOf(h) = RangeOf(s) \cup {t} /\ h # <<>>
  <2>1. NoDup(h) /\ h # <<>>
    BY <1>2, <1>4 DEF NoDup, RangeOf
  <2>2. RangeOf(h) \subseteq RangeOf(s) \cup {t}
    BY <1>2, <1>4 DEF RangeOf
  <2>3. RangeOf(s) \cup {t} \subseteq RangeOf(h)
    <3>1. ASSUME NEW i \in 1 .. Len(s) PROVE s[i] \in RangeOf(h)
      <4>1. i + 1 \in DOMAIN h /\ h[i + 1] = s[i]
        BY <1>2
      <4> QED
        BY <4>1 DEF RangeOf
    <3> QED
      BY <3>1, <1>2 DEF RangeOf
  <2> QED
    BY <2>1, <2>2, <2>3
<1> QED
  BY <1>1, <1>2, <1>3, <1>5 DEF a, h

-----------------------------------------------------------------------------
(* The lists as a whole                                                    *)

(* The part of the invariant that is about lists, flags and links.         *)
ListInv ==
  /\ list \in [ListIds -> Seq(Threads)]
  /\ summary \in [Cpus -> SUBSET Levels]
  /\ queued \subseteq Threads /\ blocked \subseteq Threads /\ suspended \subseteq Threads
  /\ linkCpu \in [Threads -> Cpus \cup {None}]
  /\ queuedPrio \in [Threads -> Levels]
  /\ \A t \in Listed : linkCpu[t] \in Cpus
  /\ InOnePlace
  /\ SummaryExact

(* L is the lists without t, S the summary words that go with L.           *)
OutOf(L, t) ==
  /\ L \in [ListIds -> Seq(Threads)]
  /\ \A l \in ListIds : NoDup(L[l]) /\ RangeOf(L[l]) = RangeOf(list[l]) \ {t}

Exact(L, S) ==
  /\ S \in [Cpus -> SUBSET Levels]
  /\ \A c \in Cpus : S[c] = {p \in Levels : L[Ready(c, p)] # <<>>}

(* No two lists share an identifier.                                       *)
LEMMA ListsDiffer ==
  /\ \A c \in Cpus, p \in Levels :
       Ready(c, p) \in ListIds /\ Blocked(c) \in ListIds /\ Suspended(c) \in ListIds
  /\ \A c, d \in Cpus, p, q \in Levels : Ready(c, p) = Ready(d, q) => c = d /\ p = q
  /\ \A c, d \in Cpus, p \in Levels : Ready(c, p) # Blocked(d) /\ Ready(c, p) # Suspended(d)
  /\ \A c, d \in Cpus : Blocked(c) = Blocked(d) => c = d
  /\ \A c, d \in Cpus : Suspended(c) = Suspended(d) => c = d
  /\ \A c, d \in Cpus : Blocked(c) # Suspended(d)
BY DEF Ready, Blocked, Suspended, ListIds

(* Where a thread is, by its flags.                                        *)
LEMMA HomeIsList ==
  ASSUME ListInv, NEW t \in Listed
  PROVE  /\ HomeList(t) \in ListIds
         /\ t \in queued => HomeList(t) = Ready(linkCpu[t], queuedPrio[t])
         /\ t \in blocked => HomeList(t) = Blocked(linkCpu[t])
         /\ t \in suspended => HomeList(t) = Suspended(linkCpu[t])
<1>1. linkCpu[t] \in Cpus /\ queuedPrio[t] \in Levels
  BY DEF ListInv, Listed
<1>2. CASE t \in queued
  <2>1. t \notin blocked /\ t \notin suspended
    BY <1>2 DEF ListInv, InOnePlace
  <2> QED
    BY <1>1, <1>2, <2>1, ListsDiffer DEF HomeList
<1>3. CASE t \in blocked
  <2>1. t \notin queued /\ t \notin suspended
    BY <1>3 DEF ListInv, InOnePlace
  <2> QED
    BY <1>1, <1>3, <2>1, ListsDiffer DEF HomeList
<1>4. CASE t \in suspended
  <2>1. t \notin queued /\ t \notin blocked
    BY <1>4 DEF ListInv, InOnePlace
  <2> QED
    BY <1>1, <1>4, <2>1, ListsDiffer DEF HomeList
<1> QED
  BY <1>2, <1>3, <1>4 DEF Listed

LEMMA ListsHaveNoDup ==
  ASSUME ListInv, NEW l \in ListIds
  PROVE  list[l] \in Seq(Threads) /\ NoDup(list[l])
BY DEF ListInv, InOnePlace, NoDup

(* A thread in no list is out of all of them.                              *)
LEMMA UnlistedIsOut ==
  ASSUME ListInv, NEW t \in Threads \ Listed
  PROVE  OutOf(list, t) /\ Exact(list, summary)
<1>1. \A l \in ListIds : t \notin RangeOf(list[l])
  BY DEF ListInv, InOnePlace
<1>2. Exact(list, summary)
  BY DEF ListInv, Exact, SummaryExact
<1> QED
  BY <1>1, <1>2, ListsHaveNoDup DEF ListInv, OutOf

(* Unlinking a thread from the list it is in takes it out of all of them.  *)
LEMMA UnlinkTakesOut ==
  ASSUME ListInv, NEW t \in Listed
  PROVE  OutOf([list EXCEPT ![HomeList(t)] = Unlink(@, t)], t)
<1> DEFINE L == [list EXCEPT ![HomeList(t)] = Unlink(@, t)]
<1>1. t \in Threads /\ HomeList(t) \in ListIds
  BY HomeIsList DEF ListInv, Listed
<1>2. ASSUME NEW l \in ListIds
      PROVE  /\ L[l] \in Seq(Threads) /\ NoDup(L[l])
             /\ RangeOf(L[l]) = RangeOf(list[l]) \ {t}
  <2>1. list[l] \in Seq(Threads) /\ NoDup(list[l])
    BY ListsHaveNoDup
  <2>2. CASE l = HomeList(t)
    <3>1. L[l] = Unlink(list[l], t)
      BY <2>2 DEF ListInv
    <3> QED
      BY <2>1, <3>1, UnlinkDrops
  <2>3. CASE l # HomeList(t)
    <3>1. L[l] = list[l]
      BY <2>3 DEF ListInv
    <3>2. t \notin RangeOf(list[l])
      BY <1>1, <2>3 DEF ListInv, InOnePlace
    <3> QED
      BY <2>1, <3>1, <3>2
  <2> QED
    BY <2>2, <2>3
<1>3. DOMAIN L = ListIds /\ L = [l \in ListIds |-> L[l]]
  BY DEF ListInv
<1> HIDE DEF L
<1>4. L \in [ListIds -> Seq(Threads)]
  BY <1>2, <1>3
<1>5. OutOf(L, t)
  BY <1>2, <1>4 DEF OutOf
<1> QED
  BY <1>5 DEF L

(* Out of a ready list, with its summary bit.                              *)
LEMMA UnlinkReady ==
  ASSUME ListInv, NEW t \in queued
  PROVE  /\ OutOf(WithoutReady(t), t)
         /\ Exact(WithoutReady(t),
                  ClearedSummary(linkCpu[t], queuedPrio[t], WithoutReady(t)))
<1> DEFINE c == linkCpu[t]
           p == queuedPrio[t]
           S == ClearedSummary(c, p, WithoutReady(t))
<1>1. t \in Listed /\ t \in Threads
  BY DEF ListInv, Listed
<1>2. c \in Cpus /\ p \in Levels /\ HomeList(t) = Ready(c, p)
  BY <1>1, HomeIsList DEF ListInv
<1>3. WithoutReady(t) = [list EXCEPT ![HomeList(t)] = Unlink(@, t)]
  BY <1>2 DEF WithoutReady
<1>4. OutOf(WithoutReady(t), t)
  BY <1>1, <1>3, UnlinkTakesOut
<1> DEFINE L == WithoutReady(t)
<1>5. \A l \in ListIds : l # Ready(c, p) => L[l] = list[l]
  BY <1>2, <1>3 DEF ListInv
<1>6. list[Ready(c, p)] # <<>>
  <2>1. t \in RangeOf(list[Ready(c, p)])
    BY <1>1, <1>2, HomeIsList DEF ListInv, InOnePlace
  <2> QED
    BY <2>1 DEF RangeOf
<1>7. /\ S \in [Cpus -> SUBSET Levels]
      /\ \A d \in Cpus \ {c} : S[d] = summary[d]
      /\ S[c] = IF L[Ready(c, p)] = <<>> THEN summary[c] \ {p} ELSE summary[c]
  BY <1>2 DEF ListInv, ClearedSummary
<1> HIDE DEF L, S
<1>8. ASSUME NEW d \in Cpus PROVE S[d] = {q \in Levels : L[Ready(d, q)] # <<>>}
  <2>1. summary[d] = {q \in Levels : list[Ready(d, q)] # <<>>}
    BY DEF ListInv, SummaryExact
  <2>2. CASE d # c
    BY <1>2, <1>5, <1>7, <2>1, <2>2, ListsDiffer
  <2>3. CASE d = c
    <3>1. \A q \in Levels \ {p} : L[Ready(d, q)] = list[Ready(d, q)]
      BY <1>2, <1>5, <2>3, ListsDiffer
    <3> QED
      BY <1>2, <1>6, <1>7, <2>1, <2>3, <3>1
  <2> QED
    BY <2>2, <2>3
<1>9. Exact(L, S)
  BY <1>7, <1>8 DEF Exact
<1> QED
  BY <1>4, <1>9 DEF L, S

(* Out of a blocked or suspended list: no summary word changes.            *)
LEMMA UnlinkParked ==
  ASSUME ListInv, NEW t \in blocked \cup suspended, NEW from,
         from = IF t \in blocked THEN Blocked(linkCpu[t]) ELSE Suspended(linkCpu[t])
  PROVE  /\ OutOf([list EXCEPT ![from] = Unlink(@, t)], t)
         /\ Exact([list EXCEPT ![from] = Unlink(@, t)], summary)
<1> DEFINE L == [list EXCEPT ![from] = Unlink(@, t)]
<1>1. t \in Listed /\ from = HomeList(t) /\ linkCpu[t] \in Cpus
  BY HomeIsList DEF ListInv, Listed
<1>2. OutOf(L, t)
  BY <1>1, UnlinkTakesOut
<1>3. \A c \in Cpus, p \in Levels : L[Ready(c, p)] = list[Ready(c, p)]
  BY <1>1, ListsDiffer DEF ListInv
<1> HIDE DEF L
<1>4. Exact(L, summary)
  BY <1>3 DEF ListInv, SummaryExact, Exact
<1> QED
  BY <1>2, <1>4 DEF L

(* A thread leaves its list for none.                                      *)
LEMMA TakenOut ==
  ASSUME ListInv, NEW t \in Threads, NEW L, NEW S, OutOf(L, t), Exact(L, S),
         list' = L, summary' = S,
         queued' = queued \ {t}, blocked' = blocked \ {t}, suspended' = suspended \ {t},
         UNCHANGED <<linkCpu, queuedPrio>>
  PROVE  ListInv'
<1>1. Listed' = Listed \ {t}
  BY DEF Listed
<1>2. \A x \in Listed \ {t} : HomeList(x)' = HomeList(x)
  BY DEF HomeList, Ready, Blocked, Suspended
<1>3. InOnePlace'
  <2>1. /\ queued' \cap blocked' = {} /\ queued' \cap suspended' = {}
        /\ blocked' \cap suspended' = {}
    BY DEF ListInv, InOnePlace
  <2>2. ASSUME NEW x \in Threads, NEW l \in ListIds
        PROVE  x \in RangeOf(list'[l]) <=> x \in Listed' /\ l = HomeList(x)'
    <3>1. x \in RangeOf(list[l]) <=> x \in Listed /\ l = HomeList(x)
      BY DEF ListInv, InOnePlace
    <3> QED
      BY <1>1, <1>2, <3>1 DEF OutOf
  <2>3. \A l \in ListIds : NoDup(list'[l])
    BY DEF OutOf
  <2> QED
    BY <2>1, <2>2, <2>3 DEF InOnePlace, NoDup
<1>4. SummaryExact'
  BY DEF Exact, SummaryExact
<1> QED
  BY <1>1, <1>3, <1>4 DEF ListInv, OutOf, Exact

(* A thread that is out of every list is linked into list l of CPU c.      *)
LEMMA LinkedIn ==
  ASSUME ListInv, NEW t \in Threads, NEW L, OutOf(L, t),
         NEW l \in ListIds, NEW new, NEW c \in Cpus,
         list' = [L EXCEPT ![l] = new],
         new \in {Append(L[l], t), <<t>> \o L[l]},
         queued' \subseteq Threads, blocked' \subseteq Threads, suspended' \subseteq Threads,
         queued' \cap blocked' = {}, queued' \cap suspended' = {},
         blocked' \cap suspended' = {},
         queued' \ {t} = queued \ {t}, blocked' \ {t} = blocked \ {t},
         suspended' \ {t} = suspended \ {t},
         linkCpu' = [linkCpu EXCEPT ![t] = c],
         queuedPrio' \in [Threads -> Levels],
         \A x \in Threads \ {t} : queuedPrio'[x] = queuedPrio[x],
         t \in Listed', HomeList(t)' = l,
         summary' \in [Cpus -> SUBSET Levels], SummaryExact'
  PROVE  ListInv'
<1>1. Listed' = Listed \cup {t} /\ Listed' \subseteq Threads
  BY DEF Listed, ListInv
<1>2. linkCpu' \in [Threads -> Cpus \cup {None}] /\ linkCpu'[t] = c
      /\ \A x \in Threads \ {t} : linkCpu'[x] = linkCpu[x]
  BY DEF ListInv
<1>3. \A x \in Listed \ {t} : HomeList(x)' = HomeList(x)
  BY <1>2 DEF HomeList, Ready, Blocked, Suspended, Listed, ListInv
<1>4. L[l] \in Seq(Threads) /\ NoDup(L[l]) /\ t \notin RangeOf(L[l])
  BY DEF OutOf
<1>5. /\ new \in Seq(Threads) /\ NoDup(new)
      /\ RangeOf(new) = RangeOf(L[l]) \cup {t}
  <2> DEFINE s == L[l]
  <2>1. /\ Append(s, t) \in Seq(Threads) /\ NoDup(Append(s, t))
        /\ RangeOf(Append(s, t)) = RangeOf(s) \cup {t}
    BY <1>4, LinkAdds
  <2>2. /\ <<t>> \o s \in Seq(Threads) /\ NoDup(<<t>> \o s)
        /\ RangeOf(<<t>> \o s) = RangeOf(s) \cup {t}
    BY <1>4, LinkAdds
  <2>3. CASE new = Append(s, t)
    BY <2>1, <2>3
  <2>4. CASE new = <<t>> \o s
    BY <2>2, <2>4
  <2> QED
    BY <2>3, <2>4
<1>6. list' \in [ListIds -> Seq(Threads)] /\ list'[l] = new
      /\ \A m \in ListIds \ {l} : list'[m] = L[m]
  BY <1>5 DEF OutOf
<1>7. ASSUME NEW x \in Threads, NEW m \in ListIds
      PROVE  x \in RangeOf(list'[m]) <=> x \in Listed' /\ m = HomeList(x)'
  <2>1. x \in RangeOf(list[m]) <=> x \in Listed /\ m = HomeList(x)
    BY DEF ListInv, InOnePlace
  <2>2. RangeOf(L[m]) = RangeOf(list[m]) \ {t}
    BY DEF OutOf
  <2>3. CASE x = t
    BY <1>1, <1>5, <1>6, <2>2, <2>3
  <2>4. CASE x # t
    <3>1. x \in RangeOf(list'[m]) <=> x \in RangeOf(list[m])
      BY <1>5, <1>6, <2>2, <2>4
    <3> QED
      BY <1>1, <1>3, <2>1, <2>4, <3>1
  <2> QED
    BY <2>3, <2>4
<1>8. \A m \in ListIds : NoDup(list'[m])
  BY <1>5, <1>6 DEF OutOf
<1>9. InOnePlace'
  BY <1>7, <1>8 DEF InOnePlace, NoDup
<1>10. \A x \in Listed' : linkCpu'[x] \in Cpus
  BY <1>1, <1>2 DEF ListInv, Listed
<1> QED
  BY <1>2, <1>6, <1>9, <1>10 DEF ListInv

(* LinkReadyLocked of a thread out of every list.                          *)
LEMMA LinkedReady ==
  ASSUME ListInv, NEW t \in Threads, NEW c \in Cpus, NEW L, NEW S, NEW h \in BOOLEAN, NEW b,
         priority[t] \in Levels,
         OutOf(L, t), Exact(L, S), LinkReadyLocked(c, t, h, L, S, b),
         blocked' = blocked \ {t}, suspended' = suspended \ {t}
  PROVE  /\ ListInv'
         /\ queued' = queued \cup {t}
         /\ linkCpu' = [linkCpu EXCEPT ![t] = c]
<1> DEFINE p == priority[t]
           l == Ready(c, p)
           new == IF h THEN <<t>> \o L[l] ELSE Append(L[l], t)
<1>1. /\ list' = [L EXCEPT ![l] = new]
      /\ summary' = [S EXCEPT ![c] = @ \cup {p}]
      /\ queuedPrio' = [queuedPrio EXCEPT ![t] = p]
      /\ linkCpu' = [linkCpu EXCEPT ![t] = c]
      /\ queued' = queued \cup {t}
  BY DEF LinkReadyLocked, OutOf
<1>2. l \in ListIds
  BY ListsDiffer
<1>3. L[l] \in Seq(Threads) /\ NoDup(L[l]) /\ t \notin RangeOf(L[l])
  BY <1>2 DEF OutOf
<1>4. new # <<>> /\ new \in {Append(L[l], t), <<t>> \o L[l]}
  BY <1>3, LinkAdds
<1>5. summary' \in [Cpus -> SUBSET Levels]
  BY <1>1 DEF Exact
<1> HIDE DEF new, l
<1>6. SummaryExact'
  <2>1. list'[l] = new /\ \A m \in ListIds \ {l} : list'[m] = L[m]
    BY <1>1, <1>2 DEF OutOf
  <2>2. ASSUME NEW d \in Cpus
        PROVE  summary'[d] = {q \in Levels : list'[Ready(d, q)] # <<>>}
    <3>1. S[d] = {q \in Levels : L[Ready(d, q)] # <<>>}
      BY DEF Exact
    <3>2. CASE d # c
      <4>1. \A q \in Levels : list'[Ready(d, q)] = L[Ready(d, q)]
        BY <2>1, <3>2, ListsDiffer DEF l
      <4> QED
        BY <1>1, <3>1, <3>2, <4>1 DEF Exact
    <3>3. CASE d = c
      <4>1. \A q \in Levels \ {p} : list'[Ready(d, q)] = L[Ready(d, q)]
        BY <2>1, <3>3, ListsDiffer DEF l
      <4>2. list'[Ready(d, p)] # <<>>
        BY <1>4, <2>1, <3>3 DEF l
      <4>3. summary'[d] = S[d] \cup {p}
        BY <1>1, <3>3 DEF Exact
      <4> QED
        BY <3>1, <4>1, <4>2, <4>3
    <3> QED
      BY <3>2, <3>3
  <2> QED
    BY <2>2 DEF SummaryExact
<1>7. queuedPrio' \in [Threads -> Levels] /\ queuedPrio'[t] = p
      /\ \A x \in Threads \ {t} : queuedPrio'[x] = queuedPrio[x]
  BY <1>1 DEF ListInv
<1>8. t \in Listed' /\ HomeList(t)' = l
  <2>1. linkCpu'[t] = c
    BY <1>1 DEF ListInv
  <2> QED
    BY <1>1, <1>7, <2>1 DEF Listed, HomeList, Ready, l
<1>9. /\ queued' \cap blocked' = {} /\ queued' \cap suspended' = {}
      /\ blocked' \cap suspended' = {}
      /\ queued' \subseteq Threads /\ blocked' \subseteq Threads /\ suspended' \subseteq Threads
      /\ queued' \ {t} = queued \ {t} /\ blocked' \ {t} = blocked \ {t}
      /\ suspended' \ {t} = suspended \ {t}
  BY <1>1 DEF ListInv, InOnePlace
<1>10. ListInv'
  BY <1>1, <1>2, <1>4, <1>5, <1>6, <1>7, <1>8, <1>9, LinkedIn
<1> QED
  BY <1>1, <1>10

(* A thread in no list parks in the blocked or the suspended list of c.    *)
LEMMA Parks ==
  ASSUME ListInv, NEW t \in Threads \ Listed, NEW c \in Cpus, NEW l,
         \/ l = Blocked(c) /\ blocked' = blocked \cup {t} /\ suspended' = suspended
         \/ l = Suspended(c) /\ suspended' = suspended \cup {t} /\ blocked' = blocked,
         list' = [list EXCEPT ![l] = Append(@, t)],
         linkCpu' = [linkCpu EXCEPT ![t] = c],
         UNCHANGED <<summary, queued, queuedPrio>>
  PROVE  ListInv'
<1>1. OutOf(list, t) /\ Exact(list, summary)
  BY UnlistedIsOut
<1>2. l \in ListIds
  BY ListsDiffer DEF ListIds
<1>3. t \notin queued /\ t \notin blocked /\ t \notin suspended
  BY DEF Listed
<1>4. /\ queued' \cap blocked' = {} /\ queued' \cap suspended' = {}
      /\ blocked' \cap suspended' = {}
      /\ queued' \subseteq Threads /\ blocked' \subseteq Threads /\ suspended' \subseteq Threads
      /\ queued' \ {t} = queued \ {t} /\ blocked' \ {t} = blocked \ {t}
      /\ suspended' \ {t} = suspended \ {t}
  BY <1>3 DEF ListInv, InOnePlace
<1>5. t \in Listed' /\ HomeList(t)' = l
  <2>1. linkCpu'[t] = c
    BY DEF ListInv
  <2> QED
    BY <1>3, <2>1 DEF Listed, HomeList, Blocked, Suspended
<1>6. SummaryExact'
  <2>1. \A d \in Cpus, p \in Levels : list'[Ready(d, p)] = list[Ready(d, p)]
    BY <1>2, ListsDiffer DEF ListInv
  <2> QED
    BY <2>1 DEF ListInv, SummaryExact
<1>7. list' = [list EXCEPT ![l] = Append(list[l], t)]
  BY <1>2 DEF ListInv
<1>8. queuedPrio' \in [Threads -> Levels] /\ summary' \in [Cpus -> SUBSET Levels]
      /\ \A x \in Threads \ {t} : queuedPrio'[x] = queuedPrio[x]
  BY DEF ListInv
<1> QED
  BY <1>1, <1>2, <1>4, <1>5, <1>6, <1>7, <1>8, LinkedIn

-----------------------------------------------------------------------------
(* The steps.                                                                *)

(* The assumption of every theorem: XThread::Resume is not called by the   *)
(* thread on itself, between its Suspend and the switch away.              *)
NoSelfResume == \A p \in Plans : "resumeself" \notin p.guestOps

(* Of the call of each caller: the pcs at which it is about a thread.      *)
ThreadCallPcs == {"unlink", "markReady", "enqueue", "terminate", "reclaim",
                  "migrate", "requeue"}

(* A dispatch thread has a next thread exactly while it owns one; running  *)
(* says so; no two own the same; what one owns is linked to it, and is in  *)
(* no list until its context is saved.                                     *)
OwnInv ==
  /\ \A c \in Cpus : loop[c] # "gone" => (next[c] # None <=> loop[c] \in OwningPcs)
  /\ \A t \in Threads : t \in running <=> \E c \in Cpus : Owns(c, t)
  /\ \A c, d \in Cpus, t \in Threads : Owns(c, t) /\ Owns(d, t) => c = d
  /\ \A c \in Cpus, t \in Threads :
       Owns(c, t) => linkCpu[t] = c /\ (t \notin Listed \/ loop[c] = "back")

(* Whatever refers to a thread refers to one that exists, and a thread     *)
(* that exists has a CPU.                                                  *)
RefInv ==
  /\ \A t \in Listed \cup running : Exists(t)
  /\ \A t \in Threads : Exists(t) => currentCpu[t] \in Cpus
  /\ \A k \in Callers : /\ call[k].pc \in ThreadCallPcs =>
                             call[k].t \in Threads /\ Exists(call[k].t)
                        /\ call[k].pc = "enqueue" => call[k].cpu \in Cpus
  /\ \A c \in Cpus : loop[c] = "migrate" => home[c] \in Cpus

YieldInv ==
  /\ YielderIsQueued
  /\ phase = "stopped" => \A c \in Cpus : loop[c] = "gone" /\ yieldToOther[c] = None

(* The types of the other variables, a group of them at a time.            *)
WaitType ==
  /\ waitSet \in [Threads -> SUBSET Objects]
  /\ epochMoved \subseteq Threads /\ gated \subseteq Threads
  /\ hasBlocked \subseteq Cpus /\ repollNow \subseteq Cpus
  /\ maxBlockedPrio \in [Cpus -> Levels \cup {-1}]
  /\ toPoll \subseteq Threads

StateType ==
  /\ priority \in [Threads -> Levels]
  /\ currentCpu \in [Threads -> Cpus \cup {None}]
  /\ suspendCount \in [Threads -> 0 .. MaxSuspend]

LifeType ==
  /\ terminated \subseteq Threads /\ reclaimed \subseteq Threads
  /\ hasRun \subseteq Threads /\ terminatePending \subseteq Threads

OwnType ==
  /\ running \subseteq Threads
  /\ currentThread \in [Cpus -> Threads \cup {None}]
  /\ exitedThread \in [Cpus -> Threads \cup {None}]

PickType ==
  /\ yieldToOther \in [Cpus -> Threads \cup {None}]
  /\ background \subseteq Cpus

ParkType == parked \subseteq Cpus /\ readyEvent \subseteq Cpus

LoopType ==
  /\ loop \in [Cpus -> LoopPcs]
  /\ next \in [Cpus -> Threads \cup {None}]
  /\ home \in [Cpus -> Cpus \cup {None}]

FiberType == fiber \in [Threads -> FiberPcs]
WakeType  == wake \in [Cpus \cup Callers -> SUBSET Cpus]
BumpType  == bumped \subseteq Threads

CallType ==
  call \in [Callers -> [pc  : CallPcs,
                        t   : Threads \cup Objects \cup {None},
                        cpu : Cpus \cup {None}]]

PhaseType == phase \in {"up", "stopping", "stopped"}

TypeInv ==
  /\ WaitType /\ StateType /\ LifeType /\ OwnType /\ PickType /\ ParkType
  /\ LoopType /\ FiberType /\ WakeType /\ BumpType /\ CallType /\ PhaseType

IInv == ListInv /\ TypeInv /\ OwnInv /\ RefInv /\ YieldInv

USE ConstantsAssumption

-----------------------------------------------------------------------------
(* What a step leaves alone keeps its part of the invariant.               *)

LEMMA TypeFrames ==
  /\ WaitType /\ UNCHANGED waitVars => WaitType'
  /\ StateType /\ UNCHANGED stateVars => StateType'
  /\ LifeType /\ UNCHANGED lifeVars => LifeType'
  /\ OwnType /\ UNCHANGED ownVars => OwnType'
  /\ PickType /\ UNCHANGED pickVars => PickType'
  /\ ParkType /\ UNCHANGED parkVars => ParkType'
  /\ LoopType /\ UNCHANGED loopVars => LoopType'
  /\ FiberType /\ UNCHANGED fiber => FiberType'
  /\ WakeType /\ UNCHANGED wake => WakeType'
  /\ BumpType /\ UNCHANGED bumped => BumpType'
  /\ CallType /\ UNCHANGED call => CallType'
  /\ PhaseType /\ UNCHANGED phase => PhaseType'
<1>1. WaitType /\ UNCHANGED waitVars => WaitType'
  BY DEF WaitType, waitVars
<1>2. StateType /\ UNCHANGED stateVars => StateType'
  BY DEF StateType, stateVars
<1>3. LifeType /\ UNCHANGED lifeVars => LifeType'
  BY DEF LifeType, lifeVars
<1>4. OwnType /\ UNCHANGED ownVars => OwnType'
  BY DEF OwnType, ownVars
<1>5. PickType /\ UNCHANGED pickVars => PickType'
  BY DEF PickType, pickVars
<1>6. ParkType /\ UNCHANGED parkVars => ParkType'
  BY DEF ParkType, parkVars
<1>7. LoopType /\ UNCHANGED loopVars => LoopType'
  BY DEF LoopType, loopVars
<1>8. FiberType /\ UNCHANGED fiber => FiberType'
  BY DEF FiberType
<1>9. WakeType /\ UNCHANGED wake => WakeType'
  BY DEF WakeType
<1>10. BumpType /\ UNCHANGED bumped => BumpType'
  BY DEF BumpType
<1>11. CallType /\ UNCHANGED call => CallType'
  BY DEF CallType
<1>12. PhaseType /\ UNCHANGED phase => PhaseType'
  BY DEF PhaseType
<1> QED
  BY <1>1, <1>2, <1>3, <1>4, <1>5, <1>6, <1>7, <1>8, <1>9, <1>10, <1>11, <1>12

LEMMA ListFrame ==
  ASSUME ListInv, UNCHANGED listVars
  PROVE  ListInv' /\ Listed' = Listed
BY DEF ListInv, InOnePlace, SummaryExact, Listed, HomeList, Ready, Blocked, Suspended, listVars

(* What is owned stays so while nothing it owns is linked elsewhere.       *)
LEMMA OwnFrame ==
  ASSUME OwnInv, UNCHANGED <<running, loop, next>>,
         \A t \in running : linkCpu'[t] = linkCpu[t] /\ (t \in Listed' => t \in Listed),
         running \subseteq Threads
  PROVE  OwnInv'
<1>1. \A c \in Cpus, t \in Threads : Owns(c, t)' <=> Owns(c, t)
  BY DEF Owns
<1> QED
  BY <1>1 DEF OwnInv, Owns

(* A step that touches no list and no dispatch thread.                     *)
LEMMA StaysPut ==
  ASSUME IInv, UNCHANGED <<listVars, running, loop, next>>
  PROVE  ListInv' /\ OwnInv' /\ Listed' = Listed
<1>1. ListInv' /\ Listed' = Listed
  BY ListFrame DEF IInv
<1>2. OwnInv'
  BY <1>1, OwnFrame DEF IInv, TypeInv, OwnType, listVars
<1> QED
  BY <1>1, <1>2

LEMMA ThreadsOnly ==
  ASSUME IInv PROVE Listed \subseteq Threads /\ running \subseteq Threads
BY DEF IInv, ListInv, TypeInv, OwnType, Listed

(* References stay good while no thread vanishes or changes its CPU.       *)
LEMMA RefFrame ==
  ASSUME IInv, Listed' \subseteq Listed, running' \subseteq running,
         \A t \in Threads : Exists(t)' <=> Exists(t),
         UNCHANGED <<currentCpu, call, loop, home>>
  PROVE  RefInv'
<1>1. Listed \subseteq Threads /\ running \subseteq Threads
  BY ThreadsOnly
<1>2. \A t \in Listed' \cup running' : Exists(t)'
  BY <1>1 DEF IInv, RefInv
<1>3. \A t \in Threads : Exists(t)' => currentCpu'[t] \in Cpus
  BY DEF IInv, RefInv
<1>4. \A k \in Callers : /\ call'[k].pc \in ThreadCallPcs =>
                              call'[k].t \in Threads /\ fiber'[call'[k].t] # "none"
                         /\ call'[k].pc = "enqueue" => call'[k].cpu \in Cpus
  BY DEF IInv, RefInv, Exists
<1>5. \A c \in Cpus : loop'[c] = "migrate" => home'[c] \in Cpus
  BY DEF IInv, RefInv
<1> QED
  BY <1>2, <1>3, <1>4, <1>5 DEF RefInv, Exists

LEMMA YieldFrame ==
  ASSUME IInv, UNCHANGED <<queued, linkCpu, yieldToOther, loop, phase>>
  PROVE  YieldInv'
BY DEF IInv, YieldInv, YielderIsQueued

-----------------------------------------------------------------------------
(* Calls                                                                   *)

LEMMA CreateKeeps ==
  ASSUME IInv, NEW k \in Callers, NEW t \in Threads, NEW c \in Cpus,
         NEW p \in Levels, NEW b \in BOOLEAN, Create(k, t, c, p, b)
  PROVE  IInv'
<1> USE DEF Create
<1>1. ListInv' /\ OwnInv' /\ Listed' = Listed
  BY StaysPut DEF cpuVars, ownVars, loopVars
<1>2. TypeInv'
  BY TypeFrames DEF IInv, TypeInv, StateType, FiberType, CallType, Begin, FiberPcs, CallPcs,
     cpuVars, waitVars
<1>3. RefInv'
  BY <1>1 DEF IInv, RefInv, Exists, Begin, cpuVars, loopVars, ownVars, TypeInv, FiberType, StateType, CallType, ThreadCallPcs
<1>4. YieldInv'
  BY YieldFrame DEF cpuVars, pickVars, loopVars, listVars
<1> QED
  BY <1>1, <1>2, <1>3, <1>4 DEF IInv
LEMMA ResumeKeeps ==
  ASSUME IInv, NEW k \in Callers, NEW t \in Threads,
         Resume(k, t)
  PROVE  IInv'
<1> USE DEF Resume, Begin
<1>1. ListInv' /\ OwnInv' /\ Listed' = Listed
  BY StaysPut DEF threadVars, cpuVars, ownVars, pickVars, loopVars, listVars, stateVars
<1>2. TypeInv'
  BY TypeFrames DEF IInv, TypeInv, StateType, CallType, CallPcs, threadVars, cpuVars, ownVars, pickVars, loopVars, listVars, stateVars
<1>3. RefInv'
  BY <1>1 DEF IInv, RefInv, Exists, TypeInv, CallType, ThreadCallPcs, threadVars, cpuVars, ownVars, pickVars, loopVars, listVars, stateVars
<1>4. YieldInv'
  BY YieldFrame DEF threadVars, cpuVars, ownVars, pickVars, loopVars, listVars, stateVars
<1> QED
  BY <1>1, <1>2, <1>3, <1>4 DEF IInv

LEMMA MarkReadyKeeps ==
  ASSUME IInv, NEW k \in Callers,
         MarkReady(k)
  PROVE  IInv'
<1> USE DEF MarkReady, At, Begin, Return, Idle
<1>1. ListInv' /\ OwnInv' /\ Listed' = Listed
  BY StaysPut DEF threadVars, cpuVars, ownVars, pickVars, loopVars, listVars, stateVars
<1>2. TypeInv'
  BY TypeFrames DEF IInv, TypeInv, CallType, CallPcs, RefInv, ThreadCallPcs, StateType, threadVars, cpuVars, ownVars, pickVars, loopVars, listVars, stateVars
<1>3. RefInv'
  BY <1>1 DEF IInv, RefInv, Exists, TypeInv, CallType, ThreadCallPcs, threadVars, cpuVars, ownVars, pickVars, loopVars, listVars, stateVars
<1>4. YieldInv'
  BY YieldFrame DEF threadVars, cpuVars, ownVars, pickVars, loopVars, listVars, stateVars
<1> QED
  BY <1>1, <1>2, <1>3, <1>4 DEF IInv

LEMMA WakeKeeps ==
  ASSUME IInv, NEW k \in Callers, NEW c \in Cpus,
         Wake(k, c)
  PROVE  IInv'
<1> USE DEF Wake, At, SetReadyEvent, WakeAndReturn, Idle
<1>1. ListInv' /\ OwnInv' /\ Listed' = Listed
  BY StaysPut DEF threadVars, cpuVars, ownVars, pickVars, loopVars, listVars, stateVars
<1>2. TypeInv'
  BY TypeFrames DEF IInv, TypeInv, CallType, CallPcs, ParkType, WakeType, threadVars, cpuVars, ownVars, pickVars, loopVars, listVars, stateVars
<1>3. RefInv'
  BY <1>1 DEF IInv, RefInv, Exists, TypeInv, CallType, ThreadCallPcs, threadVars, cpuVars, ownVars, pickVars, loopVars, listVars, stateVars
<1>4. YieldInv'
  BY YieldFrame DEF threadVars, cpuVars, ownVars, pickVars, loopVars, listVars, stateVars
<1> QED
  BY <1>1, <1>2, <1>3, <1>4 DEF IInv

LEMMA SuspendKeeps ==
  ASSUME IInv, NEW k \in Callers, NEW t \in Threads,
         Suspend(k, t)
  PROVE  IInv'
<1> USE DEF Suspend
<1>1. ListInv' /\ OwnInv' /\ Listed' = Listed
  BY StaysPut DEF threadVars, cpuVars, ownVars, pickVars, loopVars, listVars, stateVars
<1>2. TypeInv'
  BY TypeFrames DEF IInv, TypeInv, StateType, threadVars, cpuVars, ownVars, pickVars, loopVars, listVars, stateVars
<1>3. RefInv'
  BY <1>1, RefFrame DEF threadVars, cpuVars, ownVars, pickVars, loopVars, listVars, stateVars, Exists
<1>4. YieldInv'
  BY YieldFrame DEF threadVars, cpuVars, ownVars, pickVars, loopVars, listVars, stateVars
<1> QED
  BY <1>1, <1>2, <1>3, <1>4 DEF IInv

LEMMA TerminateKeeps ==
  ASSUME IInv, NEW k \in Callers, NEW t \in Threads,
         Terminate(k, t)
  PROVE  IInv'
<1> USE DEF Terminate, Begin, LeaveWait
<1>1. ListInv' /\ OwnInv' /\ Listed' = Listed
  BY StaysPut DEF threadVars, cpuVars, ownVars, pickVars, loopVars, listVars, stateVars
<1>2. TypeInv'
  BY TypeFrames DEF IInv, TypeInv, LifeType, WaitType, CallType, CallPcs, threadVars, cpuVars, ownVars, pickVars, loopVars, listVars, stateVars
<1>3. RefInv'
  BY <1>1 DEF IInv, RefInv, Exists, TypeInv, CallType, ThreadCallPcs, threadVars, cpuVars, ownVars, pickVars, loopVars, listVars, stateVars
<1>4. YieldInv'
  BY YieldFrame DEF threadVars, cpuVars, ownVars, pickVars, loopVars, listVars, stateVars
<1> QED
  BY <1>1, <1>2, <1>3, <1>4 DEF IInv

LEMMA ReclaimTerminatedKeeps ==
  ASSUME IInv, NEW k \in Callers,
         ReclaimTerminated(k)
  PROVE  IInv'
<1> USE DEF ReclaimTerminated, At, Return, Idle
<1>1. ListInv' /\ OwnInv' /\ Listed' = Listed
  BY StaysPut DEF threadVars, cpuVars, ownVars, pickVars, loopVars, listVars, stateVars
<1>2. TypeInv'
  BY TypeFrames DEF IInv, TypeInv, LifeType, CallType, CallPcs, RefInv, ThreadCallPcs, threadVars, cpuVars, ownVars, pickVars, loopVars, listVars, stateVars
<1>3. RefInv'
  BY <1>1 DEF IInv, RefInv, Exists, TypeInv, CallType, ThreadCallPcs, threadVars, cpuVars, ownVars, pickVars, loopVars, listVars, stateVars
<1>4. YieldInv'
  BY YieldFrame DEF threadVars, cpuVars, ownVars, pickVars, loopVars, listVars, stateVars
<1> QED
  BY <1>1, <1>2, <1>3, <1>4 DEF IInv

LEMMA SetActiveCpuKeeps ==
  ASSUME IInv, NEW k \in Callers, NEW t \in Threads, NEW c \in Cpus,
         SetActiveCpu(k, t, c)
  PROVE  IInv'
<1> USE DEF SetActiveCpu, Begin
<1>1. ListInv' /\ OwnInv' /\ Listed' = Listed
  BY StaysPut DEF threadVars, cpuVars, ownVars, pickVars, loopVars, listVars, stateVars
<1>2. TypeInv'
  BY TypeFrames DEF IInv, TypeInv, StateType, CallType, CallPcs, threadVars, cpuVars, ownVars, pickVars, loopVars, listVars, stateVars
<1>3. RefInv'
  BY <1>1 DEF IInv, RefInv, Exists, TypeInv, CallType, StateType, ThreadCallPcs, threadVars, cpuVars, ownVars, pickVars, loopVars, listVars, stateVars
<1>4. YieldInv'
  BY YieldFrame DEF threadVars, cpuVars, ownVars, pickVars, loopVars, listVars, stateVars
<1> QED
  BY <1>1, <1>2, <1>3, <1>4 DEF IInv

LEMMA PublishPriorityKeeps ==
  ASSUME IInv, NEW k \in Callers, NEW t \in Threads, NEW p \in Levels,
         PublishPriority(k, t, p)
  PROVE  IInv'
<1> USE DEF PublishPriority, Begin
<1>1. ListInv' /\ OwnInv' /\ Listed' = Listed
  BY StaysPut DEF threadVars, cpuVars, ownVars, pickVars, loopVars, listVars, stateVars
<1>2. TypeInv'
  BY TypeFrames DEF IInv, TypeInv, StateType, CallType, CallPcs, threadVars, cpuVars, ownVars, pickVars, loopVars, listVars, stateVars
<1>3. RefInv'
  BY <1>1 DEF IInv, RefInv, Exists, TypeInv, CallType, ThreadCallPcs, threadVars, cpuVars, ownVars, pickVars, loopVars, listVars, stateVars
<1>4. YieldInv'
  BY YieldFrame DEF threadVars, cpuVars, ownVars, pickVars, loopVars, listVars, stateVars
<1> QED
  BY <1>1, <1>2, <1>3, <1>4 DEF IInv

LEMMA SignalKeeps ==
  ASSUME IInv, NEW k \in Callers, NEW o \in Objects,
         Signal(k, o)
  PROVE  IInv'
<1> USE DEF Signal, Begin, Watchers
<1>1. ListInv' /\ OwnInv' /\ Listed' = Listed
  BY StaysPut DEF threadVars, cpuVars, ownVars, pickVars, loopVars, listVars, stateVars
<1>2. TypeInv'
  BY TypeFrames DEF IInv, TypeInv, WaitType, CallType, CallPcs, threadVars, cpuVars, ownVars, pickVars, loopVars, listVars, stateVars
<1>3. RefInv'
  BY <1>1 DEF IInv, RefInv, Exists, TypeInv, CallType, ThreadCallPcs, threadVars, cpuVars, ownVars, pickVars, loopVars, listVars, stateVars
<1>4. YieldInv'
  BY YieldFrame DEF threadVars, cpuVars, ownVars, pickVars, loopVars, listVars, stateVars
<1> QED
  BY <1>1, <1>2, <1>3, <1>4 DEF IInv

LEMMA BeginWakeAllKeeps ==
  ASSUME IInv, NEW k \in Callers,
         BeginWakeAll(k)
  PROVE  IInv'
<1> USE DEF BeginWakeAll, Begin
<1>1. ListInv' /\ OwnInv' /\ Listed' = Listed
  BY StaysPut DEF threadVars, cpuVars, ownVars, pickVars, loopVars, listVars, stateVars
<1>2. TypeInv'
  BY TypeFrames DEF IInv, TypeInv, CallType, CallPcs, threadVars, cpuVars, ownVars, pickVars, loopVars, listVars, stateVars
<1>3. RefInv'
  BY <1>1 DEF IInv, RefInv, Exists, TypeInv, CallType, ThreadCallPcs, threadVars, cpuVars, ownVars, pickVars, loopVars, listVars, stateVars
<1>4. YieldInv'
  BY YieldFrame DEF threadVars, cpuVars, ownVars, pickVars, loopVars, listVars, stateVars
<1> QED
  BY <1>1, <1>2, <1>3, <1>4 DEF IInv

LEMMA SignalCheckKeeps ==
  ASSUME IInv, NEW k \in Callers,
         SignalCheck(k)
  PROVE  IInv'
<1> USE DEF SignalCheck, AnyBlocked, At, Begin, Return, Idle
<1>1. ListInv' /\ OwnInv' /\ Listed' = Listed
  BY StaysPut DEF threadVars, cpuVars, ownVars, pickVars, loopVars, listVars, stateVars
<1>2. TypeInv'
  BY TypeFrames DEF IInv, TypeInv, CallType, CallPcs, threadVars, cpuVars, ownVars, pickVars, loopVars, listVars, stateVars
<1>3. RefInv'
  BY <1>1 DEF IInv, RefInv, Exists, TypeInv, CallType, ThreadCallPcs, threadVars, cpuVars, ownVars, pickVars, loopVars, listVars, stateVars
<1>4. YieldInv'
  BY YieldFrame DEF threadVars, cpuVars, ownVars, pickVars, loopVars, listVars, stateVars
<1> QED
  BY <1>1, <1>2, <1>3, <1>4 DEF IInv

LEMMA WakeAllCheckKeeps ==
  ASSUME IInv, NEW k \in Callers,
         WakeAllCheck(k)
  PROVE  IInv'
<1> USE DEF WakeAllCheck, AnyBlocked, At, Begin, Return, Idle
<1>1. ListInv' /\ OwnInv' /\ Listed' = Listed
  BY StaysPut DEF threadVars, cpuVars, ownVars, pickVars, loopVars, listVars, stateVars
<1>2. TypeInv'
  BY TypeFrames DEF IInv, TypeInv, CallType, CallPcs, threadVars, cpuVars, ownVars, pickVars, loopVars, listVars, stateVars
<1>3. RefInv'
  BY <1>1 DEF IInv, RefInv, Exists, TypeInv, CallType, ThreadCallPcs, threadVars, cpuVars, ownVars, pickVars, loopVars, listVars, stateVars
<1>4. YieldInv'
  BY YieldFrame DEF threadVars, cpuVars, ownVars, pickVars, loopVars, listVars, stateVars
<1> QED
  BY <1>1, <1>2, <1>3, <1>4 DEF IInv

LEMMA WakeForSignalKeeps ==
  ASSUME IInv, NEW k \in Callers,
         WakeForSignal(k)
  PROVE  IInv'
<1> USE DEF WakeForSignal, At, WakeAndReturn, Idle
<1>1. ListInv' /\ OwnInv' /\ Listed' = Listed
  BY StaysPut DEF threadVars, cpuVars, ownVars, pickVars, loopVars, listVars, stateVars
<1>2. TypeInv'
  BY TypeFrames DEF IInv, TypeInv, WaitType, CallType, CallPcs, WakeType, BumpType, OwnType, Outranked, threadVars, cpuVars, ownVars, pickVars, loopVars, listVars, stateVars
<1>3. RefInv'
  BY <1>1 DEF IInv, RefInv, Exists, TypeInv, CallType, ThreadCallPcs, threadVars, cpuVars, ownVars, pickVars, loopVars, listVars, stateVars
<1>4. YieldInv'
  BY YieldFrame DEF threadVars, cpuVars, ownVars, pickVars, loopVars, listVars, stateVars
<1> QED
  BY <1>1, <1>2, <1>3, <1>4 DEF IInv

LEMMA WakeAllKeeps ==
  ASSUME IInv, NEW k \in Callers,
         WakeAll(k)
  PROVE  IInv'
<1> USE DEF WakeAll, At, WakeAndReturn, Idle
<1>1. ListInv' /\ OwnInv' /\ Listed' = Listed
  BY StaysPut DEF threadVars, cpuVars, ownVars, pickVars, loopVars, listVars, stateVars
<1>2. TypeInv'
  <2>1. BumpType'
    BY DEF IInv, TypeInv, BumpType, OwnType, Outranked
  <2>2. WakeType' /\ CallType'
    BY DEF IInv, TypeInv, WakeType, CallType, CallPcs, WaitType
  <2>3. WaitType'
    BY DEF IInv, TypeInv, WaitType
  <2> QED
    BY <2>1, <2>2, <2>3, TypeFrames DEF IInv, TypeInv, threadVars, cpuVars, ownVars, pickVars, loopVars, listVars, stateVars
<1>3. RefInv'
  BY <1>1 DEF IInv, RefInv, Exists, TypeInv, CallType, ThreadCallPcs, threadVars, cpuVars, ownVars, pickVars, loopVars, listVars, stateVars
<1>4. YieldInv'
  BY YieldFrame DEF threadVars, cpuVars, ownVars, pickVars, loopVars, listVars, stateVars
<1> QED
  BY <1>1, <1>2, <1>3, <1>4 DEF IInv

LEMMA EnterBackgroundModeKeeps ==
  ASSUME IInv, NEW k \in Callers, NEW C \in SUBSET BackgroundCpus,
         EnterBackgroundMode(k, C)
  PROVE  IInv'
<1> USE DEF EnterBackgroundMode
<1>1. ListInv' /\ OwnInv' /\ Listed' = Listed
  BY StaysPut DEF threadVars, cpuVars, ownVars, pickVars, loopVars, listVars, stateVars
<1>2. TypeInv'
  BY TypeFrames DEF IInv, TypeInv, PickType, BumpType, OwnType, threadVars, cpuVars, ownVars, pickVars, loopVars, listVars, stateVars
<1>3. RefInv'
  BY <1>1, RefFrame DEF threadVars, cpuVars, ownVars, pickVars, loopVars, listVars, stateVars, Exists
<1>4. YieldInv'
  BY YieldFrame DEF threadVars, cpuVars, ownVars, pickVars, loopVars, listVars, stateVars
<1> QED
  BY <1>1, <1>2, <1>3, <1>4 DEF IInv
LEMMA ShutdownBeginKeeps ==
  ASSUME IInv, ShutdownBegin
  PROVE  IInv'
<1> USE DEF ShutdownBegin, threadVars, cpuVars, ownVars, pickVars, loopVars, listVars, stateVars
<1>1. ListInv' /\ OwnInv' /\ Listed' = Listed
  BY StaysPut
<1>2. TypeInv'
  BY TypeFrames DEF IInv, TypeInv, PhaseType
<1>3. RefInv'
  BY <1>1, RefFrame DEF Exists
<1>4. YieldInv'
  BY DEF IInv, YieldInv, YielderIsQueued
<1> QED
  BY <1>1, <1>2, <1>3, <1>4 DEF IInv

LEMMA ShutdownNudgeKeeps ==
  ASSUME IInv, NEW c \in Cpus, ShutdownNudge(c)
  PROVE  IInv'
<1> USE DEF ShutdownNudge, threadVars, cpuVars, ownVars, pickVars, loopVars, listVars, stateVars
<1>1. ListInv' /\ OwnInv' /\ Listed' = Listed
  BY StaysPut
<1>2. TypeInv'
  BY TypeFrames DEF IInv, TypeInv, ParkType
<1>3. RefInv'
  BY <1>1, RefFrame DEF Exists
<1>4. YieldInv'
  BY YieldFrame
<1> QED
  BY <1>1, <1>2, <1>3, <1>4 DEF IInv

(* What runs is linked to a CPU, so EnqueueReady off the dispatch threads  *)
(* leaves it alone.                                                        *)
LEMMA RunningIsLinked ==
  ASSUME IInv, NEW t \in running
  PROVE  linkCpu[t] \in Cpus /\ linkCpu[t] # None
<1>1. t \in Threads
  BY ThreadsOnly
<1>2. PICK c \in Cpus : Owns(c, t)
  BY <1>1 DEF IInv, OwnInv
<1> QED
  BY <1>1, <1>2 DEF IInv, OwnInv, ConstantsAssumption

LEMMA ResumeThreadKeeps ==
  ASSUME IInv, NEW k \in Callers, ResumeThread(k)
  PROVE  IInv'
<1> DEFINE t == call[k].t
<1> USE DEF ResumeThread, At, Begin
<1>1. t \in Threads /\ Exists(t)
  BY DEF IInv, RefInv, ThreadCallPcs
<1>2. ListInv' /\ Listed' \subseteq Listed
  <2>1. CASE t \notin suspended
    BY <2>1, ListFrame DEF IInv, listVars
  <2>2. CASE t \in suspended
    <3> DEFINE L == [list EXCEPT ![Suspended(linkCpu[t])] = Unlink(@, t)]
    <3>1. t \notin blocked /\ t \notin queued
      BY <2>2 DEF IInv, ListInv, InOnePlace
    <3>2. OutOf(L, t) /\ Exact(L, summary)
      BY <2>2, <3>1, UnlinkParked DEF IInv
    <3>3. queued' = queued \ {t} /\ blocked' = blocked \ {t} /\ suspended' = suspended \ {t}
      BY <2>2, <3>1
    <3>4. ListInv'
      BY <1>1, <2>2, <3>2, <3>3, TakenOut DEF IInv
    <3> QED
      BY <3>3, <3>4 DEF Listed
  <2> QED
    BY <2>1, <2>2
<1>3. OwnInv'
  BY <1>2, OwnFrame DEF IInv, TypeInv, OwnType, cpuVars, ownVars, loopVars
<1>4. TypeInv'
  BY <1>1, TypeFrames DEF IInv, TypeInv, CallType, CallPcs, cpuVars
<1>5. RefInv'
  BY <1>1, <1>2 DEF IInv, RefInv, Exists, TypeInv, CallType, ThreadCallPcs, stateVars, cpuVars,
     ownVars, loopVars
<1>6. YieldInv'
  BY YieldFrame DEF cpuVars, pickVars, loopVars
<1> QED
  BY <1>2, <1>3, <1>4, <1>5, <1>6 DEF IInv

(* Linking a thread that nobody runs and that no CPU names as its yielder. *)
LEMMA LinkKeepsRest ==
  ASSUME IInv, NEW t \in Threads, t \notin running, Exists(t), NEW c \in Cpus,
         ListInv', queued' = queued \cup {t}, blocked' \subseteq blocked,
         suspended' \subseteq suspended,
         linkCpu' = [linkCpu EXCEPT ![t] = c],
         UNCHANGED <<running, loop, next>>
  PROVE  /\ OwnInv'
         /\ Listed' \subseteq Listed \cup {t}
<1>1. Listed' \subseteq Listed \cup {t}
  BY DEF Listed
<1>2. \A x \in running : linkCpu'[x] = linkCpu[x] /\ (x \in Listed' => x \in Listed)
  BY <1>1, ThreadsOnly DEF IInv, ListInv
<1>3. OwnInv'
  BY <1>2, OwnFrame, ThreadsOnly DEF IInv
<1> QED
  BY <1>1, <1>3

LEMMA LinkedAtTurn ==
  ASSUME ListInv, BumpType, OwnType,
         NEW t \in Threads, NEW c \in Cpus, NEW L, NEW S, priority[t] \in Levels,
         OutOf(L, t), Exact(L, S), LinkAtTurn(c, t, L, S),
         blocked' = blocked \ {t}, suspended' = suspended \ {t}
  PROVE  /\ ListInv'
         /\ queued' = queued \cup {t}
         /\ linkCpu' = [linkCpu EXCEPT ![t] = c]
         /\ BumpType'
<1> DEFINE h == t \in bumped
           b == bumped \ {t}
<1>1. h \in BOOLEAN /\ LinkReadyLocked(c, t, h, L, S, b)
  BY DEF LinkAtTurn
<1>2. BumpType'
  BY <1>1 DEF LinkReadyLocked, BumpType, OwnType, Outranked
<1> HIDE DEF h, b
<1> QED
  BY <1>1, <1>2, LinkedReady

LEMMA EnqueueReadyKeeps ==
  ASSUME IInv, NEW k \in Callers, EnqueueReady(k)
  PROVE  IInv'
<1> DEFINE t == call[k].t
           c == call[k].cpu
<1>1. t \in Threads /\ Exists(t) /\ c \in Cpus
  BY DEF IInv, RefInv, ThreadCallPcs, EnqueueReady, At
<1>2. CASE LeftAlone(t, None) /\ Return(k)
           /\ UNCHANGED <<list, summary, queued, linkCpu, queuedPrio, bumped>>
  <2> USE <1>2 DEF EnqueueReady, Return, At
  <2>1. ListInv' /\ OwnInv' /\ Listed' = Listed
    BY StaysPut DEF listVars, cpuVars, ownVars, loopVars
  <2>2. TypeInv'
    BY TypeFrames DEF IInv, TypeInv, CallType, CallPcs, Idle, cpuVars
  <2>3. RefInv'
    BY <2>1 DEF IInv, RefInv, Exists, TypeInv, CallType, Idle, ThreadCallPcs, stateVars, cpuVars,
       ownVars, loopVars
  <2>4. YieldInv'
    BY YieldFrame DEF cpuVars, pickVars, loopVars
  <2> QED
    BY <2>1, <2>2, <2>3, <2>4 DEF IInv
<1>3. CASE ~LeftAlone(t, None) /\ LinkAtTurn(c, t, list, summary) /\ WakeAndReturn(k, {c})
  <2> USE <1>3 DEF EnqueueReady, WakeAndReturn, At
  <2>1. t \notin Listed /\ t \notin running
    BY <1>1, RunningIsLinked DEF LeftAlone, Listed
  <2>2. OutOf(list, t) /\ Exact(list, summary)
    BY <1>1, <2>1, UnlistedIsOut DEF IInv
  <2>3. blocked' = blocked \ {t} /\ suspended' = suspended \ {t} /\ priority[t] \in Levels
    BY <1>1, <2>1 DEF Listed, IInv, TypeInv, StateType
  <2>4. ListInv' /\ queued' = queued \cup {t} /\ linkCpu' = [linkCpu EXCEPT ![t] = c] /\ BumpType'
    BY <1>1, <2>2, <2>3, LinkedAtTurn DEF IInv, TypeInv
  <2>5. OwnInv' /\ Listed' \subseteq Listed \cup {t}
    BY <1>1, <2>1, <2>4, LinkKeepsRest DEF cpuVars, ownVars, loopVars
  <2>6. TypeInv'
    BY <1>1, <2>4, TypeFrames DEF IInv, TypeInv, CallType, CallPcs, WakeType, Idle, cpuVars
  <2>7. RefInv'
    BY <1>1, <2>5 DEF IInv, RefInv, Exists, TypeInv, CallType, Idle, ThreadCallPcs, stateVars,
       cpuVars, ownVars, loopVars
  <2>8. YieldInv'
    BY <2>1, <2>4 DEF IInv, ListInv, YieldInv, YielderIsQueued, Listed, cpuVars, pickVars, loopVars
  <2> QED
    BY <2>4, <2>5, <2>6, <2>7, <2>8 DEF IInv
<1> QED
  BY <1>2, <1>3 DEF EnqueueReady
LEMMA DetachTakesOut ==
  ASSUME ListInv, NEW t \in Threads, Detach(t), UNCHANGED <<linkCpu, queuedPrio>>
  PROVE  ListInv' /\ Listed' = Listed \ {t} /\ queued' = queued \ {t}
<1>1. /\ queued' = queued \ {t} /\ blocked' = blocked \ {t} /\ suspended' = suspended \ {t}
      /\ Listed' = Listed \ {t}
  BY DEF Detach, Listed
<1>2. CASE t \notin Listed
  <2>1. UNCHANGED <<list, summary>>
    BY <1>2 DEF Detach, Listed
  <2>2. OutOf(list, t) /\ Exact(list, summary)
    BY <1>2, UnlistedIsOut
  <2> QED
    BY <1>1, <2>1, <2>2, TakenOut
<1>3. CASE t \in queued
  <2>1. linkCpu[t] \in Cpus /\ queuedPrio[t] \in Levels
    BY <1>3 DEF ListInv, Listed
  <2>2. /\ list' = WithoutReady(t)
        /\ summary' = ClearedSummary(linkCpu[t], queuedPrio[t], WithoutReady(t))
    BY <1>3 DEF Detach, WithoutReady
  <2> QED
    BY <1>1, <1>3, <2>2, UnlinkReady, TakenOut
<1>4. CASE t \in blocked \cup suspended
  <2> DEFINE from == IF t \in blocked THEN Blocked(linkCpu[t]) ELSE Suspended(linkCpu[t])
             L == [list EXCEPT ![from] = Unlink(@, t)]
  <2>1. t \notin queued
    BY <1>4 DEF ListInv, InOnePlace
  <2>2. list' = L /\ summary' = summary
    BY <1>4, <2>1 DEF Detach
  <2>3. OutOf(L, t) /\ Exact(L, summary)
    BY <1>4, UnlinkParked
  <2> HIDE DEF L
  <2> QED
    BY <1>1, <2>2, <2>3, TakenOut
<1> QED
  BY <1>1, <1>2, <1>3, <1>4 DEF Listed

LEMMA TerminateThreadKeeps ==
  ASSUME IInv, NEW k \in Callers, TerminateThread(k)
  PROVE  IInv'
<1> DEFINE t == call[k].t
<1> USE DEF TerminateThread, At, Return
<1>1. t \in Threads /\ Exists(t) /\ priority[t] \in Levels
  BY DEF IInv, RefInv, ThreadCallPcs, TypeInv, StateType
<1>2. WaitType' /\ LifeType'
  BY <1>1 DEF IInv, TypeInv, WaitType, LifeType
<1>3. UNCHANGED <<running, loop, next, home, yieldToOther, currentCpu, fiber>>
  BY DEF stateVars, cpuVars, ownVars, pickVars, loopVars
<1>4. /\ call' \in {[call EXCEPT ![k] = Idle], [call EXCEPT ![k] = [@ EXCEPT !.pc = "wake"]],
                    [call EXCEPT ![k] = [pc |-> "reclaim", t |-> t, cpu |-> None]]}
  BY DEF TerminateStopped, TerminateRunning, TerminateParked, TerminateUnlisted, WakeAndReturn,
     Begin
<1>5. CallType'
  BY <1>1, <1>4 DEF IInv, TypeInv, CallType, CallPcs, Idle
<1>6. ASSUME Listed' \subseteq Listed \cup {t}
      PROVE  RefInv'
  BY <1>1, <1>3, <1>4, <1>6 DEF IInv, RefInv, Exists, TypeInv, CallType, Idle, ThreadCallPcs
<1>7. CASE TerminateStopped(k, t) /\ phase = "stopped"
  <2> USE <1>7 DEF TerminateStopped
  <2>1. ListInv' /\ Listed' = Listed \ {t} /\ queued' = queued \ {t}
    BY <1>1, DetachTakesOut DEF IInv
  <2>2. OwnInv'
    BY <1>3, <2>1, OwnFrame, ThreadsOnly DEF IInv
  <2>3. WakeType'
    BY DEF IInv, TypeInv, WakeType, Begin
  <2>4. TypeInv'
    BY <1>2, <1>5, <2>3, TypeFrames DEF IInv, TypeInv, cpuVars
  <2>5. YieldInv'
    BY <1>3 DEF IInv, YieldInv, YielderIsQueued, ConstantsAssumption
  <2> QED
    BY <1>6, <2>1, <2>2, <2>4, <2>5 DEF IInv
<1>8. CASE TerminateRunning(k, t) \/ TerminateUnlisted(k, t)
  <2>1. UNCHANGED listVars /\ UNCHANGED <<bumped, wake>>
    BY <1>8 DEF TerminateRunning, TerminateUnlisted, Begin
  <2>2. ListInv' /\ OwnInv' /\ Listed' = Listed
    BY <1>3, <2>1, StaysPut
  <2>3. TypeInv'
    BY <1>2, <1>5, <2>1, TypeFrames DEF IInv, TypeInv, cpuVars
  <2>4. YieldInv'
    BY <1>3, <2>1, YieldFrame DEF listVars
  <2> QED
    BY <1>6, <2>2, <2>3, <2>4 DEF IInv
<1>9. CASE TerminateParked(k, t)
  <2> DEFINE from == IF t \in blocked THEN Blocked(linkCpu[t]) ELSE Suspended(linkCpu[t])
             L == [list EXCEPT ![from] = Unlink(@, t)]
             c == linkCpu[t]
  <2> USE <1>9 DEF TerminateParked
  <2>1. t \in blocked \cup suspended /\ t \notin running /\ t \in Listed /\ c \in Cpus
        /\ t \notin queued
    BY DEF IInv, ListInv, Listed, InOnePlace
  <2>2. OutOf(L, t) /\ Exact(L, summary)
    BY <2>1, UnlinkParked DEF IInv
  <2>3. LinkReadyLocked(c, t, TRUE, L, summary, bumped)
    OBVIOUS
  <2>4. blocked' = blocked \ {t} /\ suspended' = suspended \ {t}
    OBVIOUS
  <2> HIDE DEF L
  <2>5. ListInv' /\ queued' = queued \cup {t} /\ linkCpu' = [linkCpu EXCEPT ![t] = c]
    BY <1>1, <2>1, <2>2, <2>3, <2>4, LinkedReady DEF IInv
  <2>6. OwnInv' /\ Listed' \subseteq Listed \cup {t}
    BY <1>1, <1>3, <2>1, <2>4, <2>5, LinkKeepsRest
  <2>7. BumpType' /\ WakeType'
    BY <2>1, <2>3, ZenonT(60) DEF IInv, TypeInv, BumpType, WakeType, OwnType, Outranked, LinkReadyLocked,
       WakeAndReturn
  <2>8. TypeInv'
    BY <1>2, <1>5, <2>7, TypeFrames DEF IInv, TypeInv, cpuVars
  <2>9. YieldInv'
    BY <1>3, <2>1, <2>5 DEF IInv, ListInv, YieldInv, YielderIsQueued
  <2> QED
    BY <1>6, <2>5, <2>6, <2>8, <2>9 DEF IInv
<1> QED
  BY <1>7, <1>8, <1>9

LEMMA MigrateForAffinityKeeps ==
  ASSUME IInv, NEW k \in Callers, MigrateForAffinity(k)
  PROVE  IInv'
<1> DEFINE t == call[k].t
           from == linkCpu[t]
           target == currentCpu[t]
<1>1. t \in Threads /\ Exists(t) /\ priority[t] \in Levels /\ target \in Cpus
  BY DEF IInv, RefInv, ThreadCallPcs, TypeInv, StateType, MigrateForAffinity, At
<1>2. CASE Return(k)
           /\ UNCHANGED <<list, summary, queued, linkCpu, queuedPrio, bumped, yieldToOther>>
  <2> USE <1>2 DEF MigrateForAffinity, Return, At
  <2>1. ListInv' /\ OwnInv' /\ Listed' = Listed
    BY StaysPut DEF listVars, ownVars, loopVars
  <2>2. TypeInv'
    BY TypeFrames DEF IInv, TypeInv, CallType, CallPcs, Idle, pickVars
  <2>3. RefInv'
    BY <2>1 DEF IInv, RefInv, Exists, TypeInv, CallType, Idle, ThreadCallPcs, stateVars,
       ownVars, loopVars
  <2>4. YieldInv'
    BY YieldFrame DEF loopVars
  <2> QED
    BY <2>1, <2>2, <2>3, <2>4 DEF IInv
<1>3. CASE /\ t \in queued /\ t \notin running /\ target # from
           /\ LinkAtTurn(target, t, WithoutReady(t),
                         ClearedSummary(from, queuedPrio[t], WithoutReady(t)))
           /\ yieldToOther' = YielderDropped(from, t)
           /\ WakeAndReturn(k, {target})
  <2> USE <1>3 DEF MigrateForAffinity, WakeAndReturn, At
  <2>1. /\ OutOf(WithoutReady(t), t)
        /\ Exact(WithoutReady(t), ClearedSummary(from, queuedPrio[t], WithoutReady(t)))
    BY UnlinkReady DEF IInv
  <2>2. blocked' = blocked \ {t} /\ suspended' = suspended \ {t} /\ from \in Cpus
    BY DEF IInv, ListInv, InOnePlace, Listed
  <2>3. ListInv' /\ queued' = queued \cup {t} /\ linkCpu' = [linkCpu EXCEPT ![t] = target] /\ BumpType'
    BY <1>1, <2>1, <2>2, LinkedAtTurn DEF IInv, TypeInv
  <2>4. OwnInv' /\ Listed' \subseteq Listed \cup {t}
    BY <1>1, <2>2, <2>3, LinkKeepsRest DEF ownVars, loopVars
  <2>5. TypeInv'
    BY <1>1, <2>2, <2>3, TypeFrames DEF IInv, TypeInv, CallType, CallPcs, WakeType, PickType,
       YielderDropped, Idle
  <2>6. RefInv'
    BY <1>1, <2>4 DEF IInv, RefInv, Exists, TypeInv, CallType, Idle, ThreadCallPcs, stateVars,
       ownVars, loopVars
  <2>7. YieldInv'
    <3>1. /\ \A c \in Cpus, u \in Threads :
               yieldToOther[c] = u => u \in queued /\ linkCpu[u] = c
          /\ yieldToOther \in [Cpus -> Threads \cup {None}]
          /\ linkCpu \in [Threads -> Cpus \cup {None}] /\ None \notin Threads
          /\ phase = "stopped" => \A c \in Cpus : loop[c] = "gone" /\ yieldToOther[c] = None
      BY ConstantsAssumption
         DEF IInv, ListInv, YieldInv, YielderIsQueued, TypeInv, PickType, Listed
    <3>2. /\ yieldToOther' = [yieldToOther EXCEPT ![from] =
                                IF yieldToOther[from] = t THEN None ELSE yieldToOther[from]]
          /\ UNCHANGED <<phase, loop>>
      BY DEF YielderDropped, loopVars
    <3>3. ASSUME NEW c \in Cpus, NEW u \in Threads, yieldToOther'[c] = u
          PROVE  u \in queued' /\ linkCpu'[u] = c
      BY <1>1, <2>2, <2>3, <3>1, <3>2, <3>3
    <3>4. ASSUME phase' = "stopped", NEW c \in Cpus
          PROVE  loop'[c] = "gone" /\ yieldToOther'[c] = None
      BY <2>2, <3>1, <3>2, <3>4
    <3> QED
      BY <3>3, <3>4 DEF YieldInv, YielderIsQueued
  <2> QED
    BY <2>3, <2>4, <2>5, <2>6, <2>7 DEF IInv
<1> QED
  BY <1>2, <1>3 DEF MigrateForAffinity

LEMMA RequeueForPriorityKeeps ==
  ASSUME IInv, NEW k \in Callers, RequeueForPriority(k)
  PROVE  IInv'
<1> DEFINE t == call[k].t
           c == linkCpu[t]
           S == ClearedSummary(c, queuedPrio[t], WithoutReady(t))
<1> USE DEF RequeueForPriority, Return, At
<1>1. t \in Threads /\ Exists(t) /\ priority[t] \in Levels
  BY DEF IInv, RefInv, ThreadCallPcs, TypeInv, StateType
<1>2. ListInv' /\ Listed' = Listed /\ BumpType' /\ UNCHANGED <<queued, linkCpu>>
  <2>1. CASE t \notin queued
    BY <2>1, ListFrame DEF IInv, listVars, TypeInv, BumpType
  <2>2. CASE t \in queued
    <3>1. OutOf(WithoutReady(t), t) /\ Exact(WithoutReady(t), S)
      BY <2>2, UnlinkReady DEF IInv
    <3>2. LinkReadyLocked(c, t, FALSE, WithoutReady(t), S, bumped)
      BY <2>2
    <3> HIDE DEF S
    <3>3. blocked' = blocked \ {t} /\ suspended' = suspended \ {t} /\ c \in Cpus
      BY <2>2 DEF IInv, ListInv, InOnePlace, Listed
    <3>4. ListInv' /\ queued' = queued \cup {t} /\ linkCpu' = [linkCpu EXCEPT ![t] = c]
      BY <1>1, <3>1, <3>2, <3>3, LinkedReady DEF IInv
    <3>5. BumpType'
      BY <1>1, <3>2, <3>3 DEF IInv, TypeInv, BumpType, OwnType, Outranked, LinkReadyLocked
    <3>6. UNCHANGED <<queued, linkCpu>>
      BY <2>2, <3>4 DEF IInv, ListInv
    <3> QED
      BY <3>4, <3>5, <3>6 DEF Listed
  <2> QED
    BY <2>1, <2>2
<1>3. OwnInv'
  BY <1>2, OwnFrame, ThreadsOnly DEF IInv, cpuVars, ownVars, loopVars
<1>4. TypeInv'
  BY <1>2, TypeFrames DEF IInv, TypeInv, CallType, CallPcs, Idle, cpuVars
<1>5. RefInv'
  BY <1>1, <1>2 DEF IInv, RefInv, Exists, TypeInv, CallType, Idle, ThreadCallPcs, stateVars,
     cpuVars, ownVars, loopVars
<1>6. YieldInv'
  BY <1>2, YieldFrame DEF cpuVars, pickVars, loopVars
<1> QED
  BY <1>2, <1>3, <1>4, <1>5, <1>6 DEF IInv
LEMMA ShutdownDrainKeeps ==
  ASSUME IInv, ShutdownDrain
  PROVE  IInv'
<1> USE DEF ShutdownDrain
<1>1. Listed' = {} /\ Listed \subseteq Threads
  BY ThreadsOnly DEF Listed
<1>2. ListInv'
  <2>1. \A l \in ListIds : list'[l] = <<>> /\ RangeOf(list'[l]) = {}
    BY DEF RangeOf
  <2>2. InOnePlace'
    BY <1>1, <2>1 DEF InOnePlace
  <2>3. SummaryExact'
    BY <2>1, ListsDiffer DEF SummaryExact
  <2>4. list' \in [ListIds -> Seq(Threads)]
    OBVIOUS
  <2> QED
    BY <1>1, <2>2, <2>3, <2>4 DEF IInv, ListInv
<1>3. OwnInv'
  BY <1>1, OwnFrame, ThreadsOnly DEF IInv, loopVars
<1>4. TypeInv'
  <2>1. OwnType' /\ PickType'
    BY DEF IInv, TypeInv, OwnType, PickType
  <2>2. WaitType'
    BY DEF IInv, TypeInv, WaitType
  <2>3. LifeType'
    <3>1. Leftovers \subseteq Threads
      BY <1>1, ThreadsOnly DEF IInv, TypeInv, OwnType, Leftovers, RangeOf
    <3> QED
      BY <3>1 DEF IInv, TypeInv, LifeType
  <2> QED
    BY <2>1, <2>2, <2>3, TypeFrames DEF IInv, TypeInv, PhaseType
<1>5. RefInv'
  BY <1>1, RefFrame DEF Exists, stateVars, loopVars
<1>6. YieldInv'
  BY DEF IInv, YieldInv, YielderIsQueued, ConstantsAssumption, loopVars
<1> QED
  BY <1>2, <1>3, <1>4, <1>5, <1>6 DEF IInv

-----------------------------------------------------------------------------
(* Fibers                                                                  *)

(* What runs on a CPU is a thread it owns, in no list.                     *)
LEMMA FiberOwned ==
  ASSUME IInv, NEW c \in Cpus, loop[c] = "fiber"
  PROVE  /\ next[c] \in Threads /\ next[c] \in running /\ next[c] \notin Listed
         /\ Owns(c, next[c]) /\ linkCpu[next[c]] = c
         /\ Exists(next[c]) /\ priority[next[c]] \in Levels
         /\ phase # "stopped"
<1>1. next[c] \in Threads
  BY DEF IInv, OwnInv, OwningPcs, TypeInv, LoopType
<1>2. Owns(c, next[c])
  BY DEF Owns, OwningPcs
<1>3. next[c] \in running
  BY <1>1, <1>2 DEF IInv, OwnInv
<1> QED
  BY <1>1, <1>2, <1>3 DEF IInv, OwnInv, RefInv, TypeInv, StateType, YieldInv

(* A fiber that yields may have left itself in a list of its CPU.          *)
LEMMA FiberYields ==
  ASSUME IInv, NEW c \in Cpus, loop[c] = "fiber", YieldToScheduler(c),
         Listed' \subseteq Listed \cup {next[c]}, UNCHANGED running,
         linkCpu' = [linkCpu EXCEPT ![next[c]] = c]
  PROVE  OwnInv' /\ LoopType' /\ UNCHANGED <<next, home>>
<1> USE DEF YieldToScheduler
<1>1. Owns(c, next[c]) /\ next[c] \in Threads
  BY FiberOwned
<1>2. loop' = [loop EXCEPT ![c] = "back"] /\ loop \in [Cpus -> LoopPcs] /\ loop'[c] = "back"
  BY DEF IInv, TypeInv, LoopType
<1>3. \A d \in Cpus, t \in Threads : Owns(d, t)' <=> Owns(d, t)
  BY <1>2 DEF Owns, OwningPcs
<1>4. ASSUME NEW d \in Cpus, NEW t \in Threads, Owns(d, t)
      PROVE  linkCpu'[t] = d /\ (t \notin Listed' \/ loop'[d] = "back")
  <2>1. CASE t = next[c]
    <3>1. d = c
      BY <1>1, <1>4, <2>1 DEF IInv, OwnInv
    <3> QED
      BY <1>2, <2>1, <3>1 DEF IInv, ListInv
  <2>2. CASE t # next[c]
    <3>1. linkCpu[t] = d /\ (t \notin Listed \/ loop[d] = "back")
      BY <1>4 DEF IInv, OwnInv
    <3> QED
      BY <1>2, <2>2, <3>1 DEF IInv, ListInv
  <2> QED
    BY <2>1, <2>2
<1>5. \A d \in Cpus : loop'[d] # "gone" => (next'[d] # None <=> loop'[d] \in OwningPcs)
  BY <1>2 DEF IInv, OwnInv, OwningPcs
<1>6. OwnInv'
  BY <1>3, <1>4, <1>5 DEF IInv, OwnInv
<1>7. LoopType'
  BY DEF IInv, TypeInv, LoopType, LoopPcs
<1> QED
  BY <1>6, <1>7

(* References, when only fiber positions change, to ones that exist.       *)
LEMMA FiberRefs ==
  ASSUME IInv, NEW c \in Cpus, loop[c] = "fiber", NEW pc \in FiberPcs \ {"none"},
         FiberAt(next[c], pc), Listed' \subseteq Listed \cup {next[c]},
         loop' \in {loop, [loop EXCEPT ![c] = "back"], [loop EXCEPT ![c] = "gone"]},
         UNCHANGED <<running, currentCpu, call, home>>
  PROVE  RefInv' /\ FiberType'
<1>1. next[c] \in Threads /\ Exists(next[c])
  BY FiberOwned
<1>2. FiberType'
  BY <1>1 DEF IInv, TypeInv, FiberType, FiberAt
<1>3. \A t \in Threads : Exists(t)' <=> Exists(t)
  BY <1>1 DEF IInv, TypeInv, FiberType, FiberAt, Exists
<1>4. \A d \in Cpus : loop'[d] = "migrate" => home'[d] \in Cpus
  BY DEF IInv, RefInv, TypeInv, LoopType
<1>5. \A t \in Listed' \cup running' : Exists(t)'
  BY <1>1, <1>3, ThreadsOnly DEF IInv, RefInv
<1> QED
  BY <1>2, <1>3, <1>4, <1>5 DEF IInv, RefInv, Exists

(* A thread that finds itself terminated leaves its CPU and no list.       *)
LEMMA Diverts ==
  ASSUME IInv, NEW c \in Cpus, loop[c] = "fiber", ExitIfTerminated(c),
         UNCHANGED <<listVars, running, currentCpu, call, phase, yieldToOther>>,
         UNCHANGED <<gated, hasBlocked, repollNow, maxBlockedPrio, toPoll, reclaimed,
                     hasRun, terminatePending, currentThread>>
  PROVE  /\ ListInv' /\ OwnInv' /\ RefInv' /\ YieldInv'
         /\ WaitType' /\ LifeType' /\ OwnType' /\ LoopType' /\ FiberType'
<1> DEFINE t == next[c]
<1> USE DEF ExitIfTerminated
<1>1. t \in Threads /\ linkCpu[t] = c /\ phase # "stopped"
  BY FiberOwned
<1>2. ListInv' /\ Listed' = Listed
  BY ListFrame DEF IInv
<1>3. linkCpu' = [linkCpu EXCEPT ![t] = c]
  BY <1>1 DEF IInv, ListInv, listVars
<1>4. OwnInv' /\ LoopType' /\ UNCHANGED <<next, home>>
  BY <1>2, <1>3, FiberYields
<1>5. RefInv' /\ FiberType'
  BY <1>2, <1>4, FiberRefs DEF FiberPcs, YieldToScheduler
<1>6. YieldInv'
  BY <1>1 DEF IInv, YieldInv, YielderIsQueued, listVars
<1>7. WaitType' /\ LifeType' /\ OwnType'
  BY <1>1 DEF IInv, TypeInv, WaitType, LifeType, OwnType, LeaveWait
<1> QED
  BY <1>2, <1>4, <1>5, <1>6, <1>7

(* YieldCurrentThread, whatever its caller did to the suspend count.       *)
LEMMA YieldKeepsAll ==
  ASSUME IInv, NEW c \in Cpus, loop[c] = "fiber", NEW b \in BOOLEAN,
         NEW pc \in {"yielded", "exitYielded"},
         YieldCurrentThread(c, b, pc), YieldLeavesAlone, StateType'
  PROVE  IInv'
<1> DEFINE t == next[c]
<1> USE DEF YieldLeavesAlone
<1>1. /\ t \in Threads /\ t \notin Listed /\ t \in running /\ linkCpu[t] = c
      /\ priority[t] \in Levels /\ phase # "stopped"
  BY FiberOwned
<1>2. CASE ExitIfTerminated(c) /\ UNCHANGED <<listVars, bumped, yieldToOther>>
  <2>1. /\ ListInv' /\ OwnInv' /\ RefInv' /\ YieldInv'
        /\ WaitType' /\ LifeType' /\ OwnType' /\ LoopType' /\ FiberType'
    BY <1>2, Diverts
  <2>2. TypeInv'
    BY <1>2, <2>1, TypeFrames DEF IInv, TypeInv, pickVars, parkVars
  <2> QED
    BY <2>1, <2>2 DEF IInv
<1>3. CASE /\ LinkAtTurn(c, t, list, summary)
           /\ yieldToOther' = [yieldToOther EXCEPT ![c] = IF b THEN t ELSE @]
           /\ UNCHANGED <<blocked, suspended>>
           /\ FiberAt(t, pc)
           /\ YieldToScheduler(c)
           /\ UNCHANGED <<waitSet, epochMoved, terminated, exitedThread>>
  <2>1. OutOf(list, t) /\ Exact(list, summary)
    BY <1>1, UnlistedIsOut DEF IInv
  <2>2. blocked' = blocked \ {t} /\ suspended' = suspended \ {t}
    BY <1>1, <1>3 DEF Listed
  <2>3. ListInv' /\ queued' = queued \cup {t} /\ linkCpu' = [linkCpu EXCEPT ![t] = c] /\ BumpType'
    BY <1>1, <1>3, <2>1, <2>2, LinkedAtTurn DEF IInv, TypeInv
  <2>4. Listed' \subseteq Listed \cup {t}
    BY <1>3, <2>3 DEF Listed
  <2>5. OwnInv' /\ LoopType' /\ UNCHANGED <<next, home>>
    BY <1>3, <2>3, <2>4, FiberYields
  <2>6. RefInv' /\ FiberType'
    BY <1>3, <2>4, <2>5, FiberRefs DEF FiberPcs, YieldToScheduler
  <2>7. YieldInv'
    BY <1>1, <1>3, <2>3 DEF IInv, ListInv, YieldInv, YielderIsQueued, TypeInv, PickType
  <2>8. PickType'
    BY <1>1, <1>3 DEF IInv, TypeInv, PickType
  <2>9. TypeInv'
    BY <1>3, <2>3, <2>5, <2>6, <2>8, TypeFrames DEF IInv, TypeInv, waitVars, lifeVars, ownVars,
       parkVars
  <2> QED
    BY <2>3, <2>5, <2>6, <2>7, <2>9 DEF IInv
<1>4. ~LeftAlone(t, c)
  BY <1>1 DEF LeftAlone, Listed
<1> QED
  BY <1>2, <1>3, <1>4 DEF YieldCurrentThread

LEMMA YieldsKeep ==
  ASSUME IInv, NEW c \in Cpus,
         PreemptCurrentFiber(c) \/ Yield(c) \/ SelfSuspend(c) \/ ExitYield(c)
  PROVE  IInv'
<1>1. CASE PreemptCurrentFiber(c)
  <2>1. loop[c] = "fiber" /\ YieldCurrentThread(c, FALSE, "yielded") /\ YieldLeavesAlone
    BY <1>1 DEF PreemptCurrentFiber, OnCpu
  <2>2. StateType'
    BY <1>1, TypeFrames DEF PreemptCurrentFiber, YieldLeavesAlone, stateVars, IInv, TypeInv
  <2> QED
    BY <2>1, <2>2, YieldKeepsAll
<1>2. CASE Yield(c)
  <2>1. loop[c] = "fiber" /\ YieldCurrentThread(c, TRUE, "yielded") /\ YieldLeavesAlone
    BY <1>2 DEF Yield, OnCpu
  <2>2. StateType'
    BY <1>2, TypeFrames DEF Yield, YieldLeavesAlone, stateVars, IInv, TypeInv
  <2> QED
    BY <2>1, <2>2, YieldKeepsAll
<1>3. CASE SelfSuspend(c)
  <2>1. loop[c] = "fiber" /\ YieldCurrentThread(c, FALSE, "yielded") /\ YieldLeavesAlone
    BY <1>3 DEF SelfSuspend, OnCpu
  <2>2. StateType'
    BY <1>3, <2>1, FiberOwned DEF SelfSuspend, YieldLeavesAlone, StateType, IInv, TypeInv,
       ConstantsAssumption
  <2> QED
    BY <2>1, <2>2, YieldKeepsAll
<1>4. CASE ExitYield(c)
  <2>1. loop[c] = "fiber" /\ YieldCurrentThread(c, FALSE, "exitYielded") /\ YieldLeavesAlone
    BY <1>4 DEF ExitYield, OnCpu
  <2>2. StateType'
    BY <1>4, TypeFrames DEF ExitYield, YieldLeavesAlone, stateVars, IInv, TypeInv
  <2> QED
    BY <2>1, <2>2, YieldKeepsAll
<1> QED
  BY <1>1, <1>2, <1>3, <1>4

(* The part of a blocking call that parks.                                 *)
LEMMA ParkBlockedKeeps ==
  ASSUME IInv, NEW c \in Cpus, loop[c] = "fiber", NEW g \in BOOLEAN,
         NEW pc \in {"parked", "fenced"}, ParkBlocked(c, g, pc), BlockLeavesAlone
  PROVE  IInv'
<1> DEFINE t == next[c]
<1> USE DEF ParkBlocked, BlockLeavesAlone
<1>1. /\ t \in Threads /\ t \notin Listed /\ priority[t] \in Levels /\ phase # "stopped"
      /\ linkCpu[t] = c
  BY FiberOwned
<1>2. ListInv'
  BY <1>1, Parks DEF IInv
<1>3. Listed' \subseteq Listed \cup {t}
  BY DEF Listed
<1>4. OwnInv' /\ LoopType' /\ UNCHANGED <<next, home>>
  BY <1>3, FiberYields
<1>5. RefInv' /\ FiberType'
  BY <1>3, <1>4, FiberRefs DEF FiberPcs, YieldToScheduler, stateVars
<1>6. YieldInv'
  BY <1>1 DEF IInv, ListInv, YieldInv, YielderIsQueued, pickVars
<1>7. WaitType'
  BY <1>1 DEF IInv, TypeInv, WaitType, PokeIfMoved
<1>8. LifeType' /\ OwnType' /\ BumpType'
  BY <1>1 DEF IInv, TypeInv, LifeType, OwnType, BumpType
<1>9. TypeInv'
  BY <1>4, <1>5, <1>7, <1>8, TypeFrames DEF IInv, TypeInv
<1> QED
  BY <1>2, <1>4, <1>5, <1>6, <1>9 DEF IInv

LEMMA BlockKeeps ==
  ASSUME IInv, NEW c \in Cpus, loop[c] = "fiber", NEW g \in BOOLEAN, BlockCurrentThread(c, g)
  PROVE  IInv'
<1>1. CASE ParkBlocked(c, g, "parked") /\ BlockLeavesAlone
  BY <1>1, ParkBlockedKeeps
<1>2. CASE /\ ExitIfTerminated(c) /\ BlockLeavesAlone
           /\ UNCHANGED <<list, blocked, linkCpu, gated, hasBlocked, repollNow,
                          maxBlockedPrio, bumped>>
  <2> USE <1>2 DEF BlockLeavesAlone
  <2>1. /\ ListInv' /\ OwnInv' /\ RefInv' /\ YieldInv'
        /\ WaitType' /\ LifeType' /\ OwnType' /\ LoopType' /\ FiberType'
    BY Diverts DEF listVars, stateVars, pickVars
  <2>2. TypeInv'
    BY <2>1, TypeFrames DEF IInv, TypeInv
  <2> QED
    BY <2>1, <2>2 DEF IInv
<1> QED
  BY <1>1, <1>2 DEF BlockCurrentThread

LEMMA BlocksKeep ==
  ASSUME IInv, NEW c \in Cpus,
         BlockOnObjects(c) \/ Delay(c) \/ BlockUngated(c) \/ WaitOnFence(c)
  PROVE  IInv'
<1>1. CASE BlockOnObjects(c)
  BY <1>1, BlockKeeps DEF BlockOnObjects, OnCpu
<1>2. CASE Delay(c)
  BY <1>2, BlockKeeps DEF Delay, OnCpu
<1>3. CASE BlockUngated(c)
  BY <1>3, BlockKeeps DEF BlockUngated, OnCpu
<1>4. CASE WaitOnFence(c)
  BY <1>4, ParkBlockedKeeps DEF WaitOnFence, OnCpu
<1> QED
  BY <1>1, <1>2, <1>3, <1>4

(* A fiber that keeps its CPU and touches no list.                         *)
LEMMA StaysOn ==
  ASSUME IInv, NEW c \in Cpus, loop[c] = "fiber", NEW pc \in FiberPcs \ {"none"},
         FiberAt(next[c], pc), StaysOnCpu,
         UNCHANGED <<listVars, stateVars, running, yieldToOther, call, phase>>
  PROVE  ListInv' /\ OwnInv' /\ RefInv' /\ YieldInv' /\ FiberType' /\ LoopType'
<1> USE DEF StaysOnCpu, loopVars
<1>1. ListInv' /\ OwnInv' /\ Listed' = Listed
  BY StaysPut
<1>2. RefInv' /\ FiberType'
  BY <1>1, FiberRefs DEF stateVars
<1>3. YieldInv'
  BY YieldFrame DEF listVars
<1>4. LoopType'
  BY TypeFrames DEF IInv, TypeInv
<1> QED
  BY <1>1, <1>2, <1>3, <1>4

LEMMA SampleEpochKeeps ==
  ASSUME IInv, NEW c \in Cpus, NEW S \in SUBSET Objects, SampleEpoch(c, S)
  PROVE  IInv'
<1> USE DEF SampleEpoch, OnCpu, cpuVars, ownVars, pickVars
<1>1. ListInv' /\ OwnInv' /\ RefInv' /\ YieldInv' /\ FiberType' /\ LoopType'
  BY StaysOn DEF FiberPcs
<1>2. WaitType'
  BY FiberOwned DEF IInv, TypeInv, WaitType
<1>3. TypeInv'
  BY <1>1, <1>2, TypeFrames DEF IInv, TypeInv
<1> QED
  BY <1>1, <1>3 DEF IInv

LEMMA PollSatisfiedKeeps ==
  ASSUME IInv, NEW c \in Cpus, PollSatisfied(c)
  PROVE  IInv'
<1> USE DEF PollSatisfied, OnCpu, cpuVars, ownVars, pickVars
<1>1. ListInv' /\ OwnInv' /\ RefInv' /\ YieldInv' /\ FiberType' /\ LoopType'
  BY StaysOn DEF FiberPcs
<1>2. WaitType'
  BY FiberOwned DEF IInv, TypeInv, WaitType, LeaveWait
<1>3. TypeInv'
  BY <1>1, <1>2, TypeFrames DEF IInv, TypeInv
<1> QED
  BY <1>1, <1>3 DEF IInv

LEMMA ExitBeginKeeps ==
  ASSUME IInv, NEW c \in Cpus, ExitBegin(c)
  PROVE  IInv'
<1> USE DEF ExitBegin, OnCpu, cpuVars, ownVars, pickVars
<1>1. ListInv' /\ OwnInv' /\ RefInv' /\ YieldInv' /\ FiberType' /\ LoopType'
  BY StaysOn DEF FiberPcs
<1>2. LifeType'
  BY FiberOwned DEF IInv, TypeInv, LifeType
<1>3. TypeInv'
  BY <1>1, <1>2, TypeFrames DEF IInv, TypeInv
<1> QED
  BY <1>1, <1>3 DEF IInv

LEMMA ExitEndKeeps ==
  ASSUME IInv, NEW c \in Cpus, ExitEnd(c)
  PROVE  IInv'
<1> USE DEF ExitEnd, OnCpu, threadVars
<1>1. next[c] \in Threads /\ linkCpu[next[c]] = c /\ phase # "stopped"
  BY FiberOwned
<1>2. ListInv' /\ Listed' = Listed
  BY ListFrame DEF IInv
<1>3. linkCpu' = [linkCpu EXCEPT ![next[c]] = c]
  BY <1>1 DEF IInv, ListInv, listVars
<1>4. OwnInv' /\ LoopType' /\ UNCHANGED <<next, home>>
  BY <1>2, <1>3, FiberYields
<1>5. RefInv' /\ FiberType'
  BY <1>2, <1>4, FiberRefs DEF FiberPcs, YieldToScheduler, stateVars
<1>6. YieldInv'
  BY <1>1 DEF IInv, YieldInv, YielderIsQueued, listVars, pickVars
<1>7. OwnType'
  BY <1>1 DEF IInv, TypeInv, OwnType
<1>8. TypeInv'
  BY <1>4, <1>5, <1>7, TypeFrames DEF IInv, TypeInv
<1> QED
  BY <1>2, <1>4, <1>5, <1>6, <1>8 DEF IInv

LEMMA CrashKeeps ==
  ASSUME IInv, NEW c \in Cpus, Crash(c)
  PROVE  IInv'
<1> DEFINE t == next[c]
<1> USE DEF Crash, OnCpu
<1>1. t \in Threads /\ t \notin Listed /\ linkCpu[t] = c /\ phase # "stopped"
  BY FiberOwned
<1>2. ListInv' /\ Listed' = Listed \ {t} /\ queued' = queued \ {t}
  BY <1>1, DetachTakesOut DEF IInv
<1>3. linkCpu' = [linkCpu EXCEPT ![t] = c]
  BY <1>1 DEF IInv, ListInv
<1>4. OwnInv' /\ LoopType' /\ UNCHANGED <<next, home>>
  BY <1>2, <1>3, FiberYields
<1>5. RefInv' /\ FiberType'
  BY <1>2, <1>4, FiberRefs DEF FiberPcs, YieldToScheduler, stateVars
<1>6. YieldInv'
  BY <1>1, <1>2 DEF IInv, YieldInv, YielderIsQueued, TypeInv, PickType, Listed
<1>7. OwnType' /\ PickType'
  BY DEF IInv, TypeInv, OwnType, PickType
<1>8. LifeType' /\ WaitType'
  BY <1>1 DEF IInv, TypeInv, LifeType, WaitType, LeaveWait
<1>9. TypeInv'
  BY <1>4, <1>5, <1>7, <1>8, TypeFrames DEF IInv, TypeInv
<1> QED
  BY <1>2, <1>4, <1>5, <1>6, <1>9 DEF IInv

LEMMA FiberResumeKeeps ==
  ASSUME IInv, NEW c \in Cpus, FiberResume(c)
  PROVE  IInv'
<1> DEFINE t == next[c]
<1> USE DEF FiberResume, OnCpu
<1>1. /\ t \in Threads /\ t \notin Listed /\ linkCpu[t] = c /\ phase # "stopped"
      /\ Owns(c, t)
  BY FiberOwned
<1>2. CASE ExitIfTerminated(c)
  <2>1. /\ ListInv' /\ OwnInv' /\ RefInv' /\ YieldInv'
        /\ WaitType' /\ LifeType' /\ OwnType' /\ LoopType' /\ FiberType'
    BY <1>2, Diverts DEF stateVars, pickVars
  <2>2. TypeInv'
    BY <1>2, <2>1, TypeFrames DEF IInv, TypeInv
  <2> QED
    BY <2>1, <2>2 DEF IInv
<1>3. CASE /\ FiberAt(t, ResumedAt(fiber[t])) /\ LeaveWait(t)
           /\ loop' = [loop EXCEPT ![c] = CASE fiber[t] = "crashed" -> "back"
                                            [] fiber[t] = "exited"  -> "gone"
                                            [] OTHER                -> "fiber"]
           /\ UNCHANGED <<terminated, exitedThread, next, home>>
  <2>1. ListInv' /\ Listed' = Listed
    BY ListFrame DEF IInv
  <2>2. loop' \in {[loop EXCEPT ![c] = "back"], [loop EXCEPT ![c] = "gone"],
                   [loop EXCEPT ![c] = "fiber"]}
    <3>1. CASE fiber[t] = "crashed"
      BY <1>3, <3>1
    <3>2. CASE fiber[t] = "exited"
      BY <1>3, <3>2
    <3>3. CASE fiber[t] # "crashed" /\ fiber[t] # "exited"
      BY <1>3, <3>3
    <3> QED
      BY <3>1, <3>2, <3>3
  <2>3. /\ loop \in [Cpus -> LoopPcs] /\ loop' \in [Cpus -> LoopPcs]
        /\ loop'[c] \in {"back", "gone", "fiber"}
        /\ \A d \in Cpus \ {c} : loop'[d] = loop[d]
    BY <2>2 DEF IInv, TypeInv, LoopType, LoopPcs
  <2>4. \A d \in Cpus, x \in Threads : Owns(d, x)' <=> Owns(d, x)
    BY <1>3, <2>3 DEF Owns, OwningPcs
  <2>5. OwnInv'
    <3>1. \A d \in Cpus, x \in Threads :
            Owns(d, x) => linkCpu'[x] = d /\ (x \notin Listed' \/ loop'[d] = "back")
      BY <1>1, <2>1, <2>3 DEF IInv, OwnInv, Owns, listVars
    <3>2. \A d \in Cpus : loop'[d] # "gone" => (next'[d] # None <=> loop'[d] \in OwningPcs)
      BY <1>1, <1>3, <2>3 DEF IInv, OwnInv, OwningPcs, ConstantsAssumption
    <3> QED
      BY <2>4, <3>1, <3>2 DEF IInv, OwnInv
  <2>6. ResumedAt(fiber[t]) \in FiberPcs \ {"none"}
    <3>1. CASE fiber[t] = "exitYielded"
      BY <3>1 DEF ResumedAt, FiberPcs
    <3>2. CASE fiber[t] = "crashed"
      BY <3>2 DEF ResumedAt, FiberPcs
    <3>3. CASE fiber[t] # "exitYielded" /\ fiber[t] # "crashed"
      BY <3>3 DEF ResumedAt, FiberPcs
    <3> QED
      BY <3>1, <3>2, <3>3
  <2>7. loop' \in {loop, [loop EXCEPT ![c] = "back"], [loop EXCEPT ![c] = "gone"]}
    <3>1. [loop EXCEPT ![c] = "fiber"] = loop
      BY <2>3
    <3> QED
      BY <2>2, <3>1
  <2>8. RefInv' /\ FiberType'
    BY <1>3, <2>1, <2>6, <2>7, FiberRefs DEF stateVars
  <2>9. YieldInv'
    BY <1>1 DEF IInv, YieldInv, YielderIsQueued, listVars, pickVars
  <2>10. WaitType' /\ LoopType'
    BY <1>3, <2>3 DEF IInv, TypeInv, WaitType, LoopType, LeaveWait
  <2>11. TypeInv'
    BY <1>3, <2>8, <2>10, TypeFrames DEF IInv, TypeInv, lifeVars, ownVars
  <2> QED
    BY <2>1, <2>5, <2>8, <2>9, <2>11 DEF IInv
<1> QED
  BY <1>2, <1>3

-----------------------------------------------------------------------------
(* Dispatch threads                                                        *)

(* A dispatch thread that owns no thread moves on without one.             *)
LEMMA IdleMoves ==
  ASSUME IInv, NEW c \in Cpus, loop[c] \notin OwningPcs,
         NEW pc \in (LoopPcs \ OwningPcs) \cup {"gone"},
         Goes(c, pc),
         UNCHANGED <<listVars, running, currentCpu, fiber, call, yieldToOther, phase>>
  PROVE  ListInv' /\ OwnInv' /\ RefInv' /\ YieldInv' /\ LoopType'
<1> USE DEF Goes
<1>1. ListInv' /\ Listed' = Listed
  BY ListFrame DEF IInv
<1>2. /\ loop \in [Cpus -> LoopPcs] /\ loop' = [loop EXCEPT ![c] = pc]
      /\ next' = next /\ next[c] = None /\ loop[c] # "gone"
  BY DEF IInv, TypeInv, LoopType, OwnInv, OwningPcs
<1>3. \A d \in Cpus, t \in Threads : Owns(d, t)' <=> Owns(d, t)
  BY <1>2, ConstantsAssumption DEF Owns
<1>4. LoopType'
  BY <1>2 DEF IInv, TypeInv, LoopType, LoopPcs
<1>5. OwnInv'
  <2>1. \A d \in Cpus : loop'[d] # "gone" => (next'[d] # None <=> loop'[d] \in OwningPcs)
    BY <1>2 DEF IInv, OwnInv
  <2>2. \A d \in Cpus, t \in Threads :
          Owns(d, t) => linkCpu'[t] = d /\ (t \notin Listed' \/ loop'[d] = "back")
    BY <1>1, <1>2 DEF IInv, OwnInv, Owns, listVars
  <2> QED
    BY <1>3, <2>1, <2>2 DEF IInv, OwnInv
<1>6. RefInv'
  <2>1. \A d \in Cpus : loop'[d] = "migrate" => home'[d] \in Cpus
    BY <1>2 DEF IInv, RefInv, OwningPcs
  <2> QED
    BY <1>1, <2>1 DEF IInv, RefInv, Exists
<1>7. YieldInv'
  BY <1>2 DEF IInv, YieldInv, YielderIsQueued, listVars
<1> QED
  BY <1>1, <1>4, <1>5, <1>6, <1>7

LEMMA TopKeeps ==
  ASSUME IInv, NEW c \in Cpus, Top(c) \/ RepollDue(c)
  PROVE  IInv'
<1> USE DEF Top, RepollDue, threadVars, cpuVars, ownVars, pickVars, stateVars
<1>1. PICK pc \in {"gone", "repoll", "dequeue"} : Goes(c, pc)
  OBVIOUS
<1>2. pc \in (LoopPcs \ OwningPcs) \cup {"gone"} /\ loop[c] \notin OwningPcs
  BY DEF LoopPcs, OwningPcs
<1>3. ListInv' /\ OwnInv' /\ RefInv' /\ YieldInv' /\ LoopType'
  BY <1>1, <1>2, IdleMoves
<1>4. WaitType'
  BY DEF IInv, TypeInv, WaitType, waitVars
<1>5. TypeInv'
  BY <1>3, <1>4, TypeFrames DEF IInv, TypeInv
<1> QED
  BY <1>3, <1>5 DEF IInv

LEMMA RereadyBeginKeeps ==
  ASSUME IInv, NEW c \in Cpus, RereadyBegin(c)
  PROVE  IInv'
<1> USE DEF RereadyBegin, cpuVars, ownVars, pickVars, stateVars
<1>1. ListInv' /\ OwnInv' /\ RefInv' /\ YieldInv' /\ LoopType'
  BY IdleMoves DEF LoopPcs, OwningPcs
<1>2. RangeOf(list[Blocked(c)]) \subseteq Threads
  <2>1. Blocked(c) \in ListIds
    BY DEF ListIds
  <2> QED
    BY <2>1 DEF IInv, ListInv, RangeOf
<1>3. WaitType'
  BY <1>2 DEF IInv, TypeInv, WaitType
<1>4. TypeInv'
  BY <1>1, <1>3, TypeFrames DEF IInv, TypeInv
<1> QED
  BY <1>1, <1>4 DEF IInv

LEMMA KeepBlockedKeeps ==
  ASSUME IInv, NEW c \in Cpus, NEW t \in Threads, KeepBlocked(c, t)
  PROVE  IInv'
<1> USE DEF KeepBlocked, cpuVars, ownVars, pickVars, stateVars, loopVars
<1>1. ListInv' /\ OwnInv' /\ Listed' = Listed
  BY StaysPut
<1>2. WaitType'
  BY DEF IInv, TypeInv, WaitType
<1>3. TypeInv'
  BY <1>2, TypeFrames DEF IInv, TypeInv
<1>4. RefInv' /\ YieldInv'
  BY <1>1, RefFrame, YieldFrame DEF Exists, listVars
<1> QED
  BY <1>1, <1>3, <1>4 DEF IInv

LEMMA RereadyKeeps ==
  ASSUME IInv, NEW c \in Cpus, NEW t \in Threads, Reready(c, t)
  PROVE  IInv'
<1> DEFINE target == currentCpu[t]
           L == [list EXCEPT ![Blocked(c)] = Unlink(@, t)]
<1> USE DEF Reready, ownVars, pickVars, stateVars, loopVars
<1>1. t \in blocked /\ linkCpu[t] = c /\ t \notin queued /\ t \notin suspended
  <2>1. Blocked(c) \in ListIds /\ t \in RangeOf(list[Blocked(c)])
    BY DEF Visits, RangeOf, ListIds
  <2>2. t \in Listed /\ Blocked(c) = HomeList(t)
    BY <2>1 DEF IInv, ListInv, InOnePlace
  <2>3. linkCpu[t] \in Cpus /\ queuedPrio[t] \in Levels
    BY <2>2 DEF IInv, ListInv
  <2>4. t \notin queued /\ t \notin suspended
    BY <2>2, <2>3, HomeIsList, ListsDiffer DEF IInv
  <2>5. t \in blocked
    BY <2>2, <2>4 DEF Listed
  <2> QED
    BY <2>2, <2>3, <2>4, <2>5, HomeIsList, ListsDiffer DEF IInv
<1>2. t \in Listed /\ Exists(t) /\ target \in Cpus /\ priority[t] \in Levels
  BY <1>1 DEF Listed, IInv, RefInv, TypeInv, StateType
<1>3. t \notin running
  <2>1. ASSUME NEW d \in Cpus, Owns(d, t) PROVE FALSE
    <3>1. linkCpu[t] = d /\ loop[d] = "back"
      BY <1>2, <2>1 DEF IInv, OwnInv
    <3> QED
      BY <1>1, <3>1
  <2> QED
    BY <2>1 DEF IInv, OwnInv
<1>4. OutOf(L, t) /\ Exact(L, summary)
  BY <1>1, UnlinkParked DEF IInv
<1>5. blocked' = blocked \ {t} /\ suspended' = suspended \ {t} /\ LinkAtTurn(target, t, L, summary)
  BY <1>1
<1>6. /\ UNCHANGED <<running, loop, next, home, currentCpu, fiber, call, phase, yieldToOther>>
      /\ UNCHANGED <<stateVars, lifeVars, ownVars, pickVars, parkVars, loopVars>>
      /\ gated' = gated \ {t} /\ toPoll' = toPoll \ {t}
      /\ wake' = [wake EXCEPT ![c] = @ \cup ({target} \ {c})]
      /\ UNCHANGED <<waitSet, epochMoved, hasBlocked, repollNow, maxBlockedPrio>>
  BY DEF cpuVars
<1> HIDE DEF L, Reready, ownVars, pickVars, stateVars, loopVars
<1>7. ListInv' /\ queued' = queued \cup {t} /\ linkCpu' = [linkCpu EXCEPT ![t] = target] /\ BumpType'
  BY <1>2, <1>4, <1>5, LinkedAtTurn DEF IInv, TypeInv
<1>8. OwnInv' /\ Listed' \subseteq Listed \cup {t}
  BY <1>2, <1>3, <1>5, <1>6, <1>7, LinkKeepsRest
<1>9. RefInv'
  <2>1. Listed' \subseteq Listed
    BY <1>2, <1>8
  <2> QED
    BY <1>6, <2>1, RefFrame DEF Exists
<1>10. YieldInv'
  BY <1>1, <1>6, <1>7 DEF IInv, ListInv, YieldInv, YielderIsQueued
<1>11. WaitType' /\ WakeType'
  BY <1>2, <1>6 DEF IInv, TypeInv, WaitType, WakeType
<1>12. TypeInv'
  BY <1>6, <1>7, <1>11, TypeFrames DEF IInv, TypeInv
<1> QED
  BY <1>7, <1>8, <1>9, <1>10, <1>12 DEF IInv

LEMMA RereadyEndKeeps ==
  ASSUME IInv, NEW c \in Cpus, RereadyEnd(c)
  PROVE  IInv'
<1> DEFINE kept == RangeOf(list[Blocked(c)])
<1> USE DEF RereadyEnd, cpuVars, ownVars, pickVars, stateVars
<1>1. ListInv' /\ OwnInv' /\ RefInv' /\ YieldInv' /\ LoopType'
  BY IdleMoves DEF LoopPcs, OwningPcs
<1>2. kept \subseteq Threads
  <2>1. Blocked(c) \in ListIds
    BY DEF ListIds
  <2> QED
    BY <2>1 DEF IInv, ListInv, RangeOf
<1>3. HighestPriority(kept) \in Levels \cup {-1}
  <2> HIDE DEF kept
  <2> DEFINE S == {-1} \cup {priority[t] : t \in kept}
  <2>1. S \subseteq -1 .. MaxLevel /\ S # {} /\ MaxLevel \in Nat
    BY <1>2, ConstantsAssumption DEF IInv, TypeInv, StateType, Levels
  <2>2. PICK p \in S : \A q \in S : q <= p
    BY <2>1, GreatestExists
  <2>3. \E q \in S : \A t \in kept : priority[t] <= q
    BY <2>2
  <2>4. HighestPriority(kept) \in S
    BY <2>3 DEF HighestPriority
  <2> QED
    BY <2>1, <2>4, <1>2 DEF IInv, TypeInv, StateType
<1>4. WaitType'
  <2> HIDE DEF kept
  <2>1. maxBlockedPrio' = [maxBlockedPrio EXCEPT ![c] = HighestPriority(kept)]
        /\ hasBlocked' \subseteq hasBlocked
    BY DEF kept
  <2> QED
    BY <1>3, <2>1 DEF IInv, TypeInv, WaitType
<1>5. TypeInv'
  BY <1>1, <1>4, TypeFrames DEF IInv, TypeInv
<1> QED
  BY <1>1, <1>5 DEF IInv

LEMMA LoopWakeKeeps ==
  ASSUME IInv, NEW c \in Cpus, NEW d \in Cpus, LoopWake(c, d)
  PROVE  IInv'
<1> USE DEF LoopWake, threadVars, ownVars, pickVars, stateVars, loopVars
<1>1. ListInv' /\ OwnInv' /\ Listed' = Listed
  BY StaysPut
<1>2. TypeInv'
  BY TypeFrames DEF IInv, TypeInv, ParkType, WakeType, SetReadyEvent
<1>3. RefInv' /\ YieldInv'
  BY <1>1, RefFrame, YieldFrame DEF Exists, listVars
<1> QED
  BY <1>1, <1>2, <1>3 DEF IInv

LEMMA LoopWokenKeeps ==
  ASSUME IInv, NEW c \in Cpus, LoopWoken(c) \/ DequeueNothing(c)
  PROVE  IInv'
<1> USE DEF LoopWoken, DequeueNothing, threadVars, cpuVars, ownVars, pickVars, stateVars
<1>1. PICK pc \in {"dequeue", "top", "idle"} : Goes(c, pc)
  OBVIOUS
<1>2. pc \in (LoopPcs \ OwningPcs) \cup {"gone"} /\ loop[c] \notin OwningPcs
  BY DEF LoopPcs, OwningPcs
<1>3. ListInv' /\ OwnInv' /\ RefInv' /\ YieldInv' /\ LoopType'
  BY <1>1, <1>2, IdleMoves
<1>4. TypeInv'
  BY <1>3, TypeFrames DEF IInv, TypeInv
<1> QED
  BY <1>3, <1>4 DEF IInv

LEMMA ReclaimExitedKeeps ==
  ASSUME IInv, NEW c \in Cpus, ReclaimExited(c)
  PROVE  IInv'
<1> USE DEF ReclaimExited, pickVars, stateVars
<1>1. ListInv' /\ OwnInv' /\ RefInv' /\ YieldInv' /\ LoopType'
  BY IdleMoves DEF LoopPcs, OwningPcs
<1>2. LifeType' /\ OwnType'
  BY DEF IInv, TypeInv, LifeType, OwnType
<1>3. TypeInv'
  BY <1>1, <1>2, TypeFrames DEF IInv, TypeInv
<1> QED
  BY <1>1, <1>3 DEF IInv

LEMMA IdlesKeep ==
  ASSUME IInv, NEW c \in Cpus,
         IdleParks(c) \/ IdleRechecks(c) \/ SleepWoken(c) \/ SleepTimeout(c)
  PROVE  IInv'
<1> USE DEF IdleParks, IdleRechecks, SleepWoken, SleepTimeout, WakesUp, threadVars, ownVars,
            pickVars, stateVars
<1>1. PICK pc \in {"recheck", "top", "sleep"} : Goes(c, pc)
  OBVIOUS
<1>2. pc \in (LoopPcs \ OwningPcs) \cup {"gone"} /\ loop[c] \notin OwningPcs
  BY DEF LoopPcs, OwningPcs
<1>3. UNCHANGED <<listVars, running, currentCpu, fiber, call, yieldToOther, phase>>
  OBVIOUS
<1>4. ListInv' /\ OwnInv' /\ RefInv' /\ YieldInv' /\ LoopType'
  BY <1>1, <1>2, <1>3, IdleMoves
<1>5. ParkType'
  BY DEF IInv, TypeInv, ParkType
<1>6. UNCHANGED <<waitVars, stateVars, lifeVars, ownVars, pickVars, fiber, wake, bumped, call, phase>>
  OBVIOUS
<1>7. TypeInv'
  BY <1>4, <1>5, <1>6, TypeFrames DEF IInv, TypeInv
<1> QED
  BY <1>4, <1>7 DEF IInv

(* The best level of some that have threads is one of them.                *)
LEMMA HighestIsIn ==
  ASSUME NEW S \in SUBSET Levels, S # {}
  PROVE  Highest(S) \in S
<1>1. MaxLevel \in Nat /\ S \subseteq -1 .. MaxLevel
  BY ConstantsAssumption DEF Levels
<1>2. \E p \in S : \A q \in S : q <= p
  BY <1>1, GreatestExists
<1> QED
  BY <1>2 DEF Highest

(* What the ready lists of a CPU hold is queued there.                     *)
LEMMA ReadyIsQueued ==
  ASSUME IInv, NEW c \in Cpus, NEW p \in summary[c],
         NEW i \in DOMAIN list[Ready(c, p)]
  PROVE  LET t == list[Ready(c, p)][i] IN t \in queued /\ linkCpu[t] = c
<1> DEFINE t == list[Ready(c, p)][i]
<1>1. p \in Levels /\ Ready(c, p) \in ListIds
  BY ListsDiffer DEF IInv, ListInv
<1>2. list[Ready(c, p)] \in Seq(Threads)
  BY <1>1 DEF IInv, ListInv
<1>3. t \in Threads /\ t \in RangeOf(list[Ready(c, p)])
  BY <1>2 DEF RangeOf
<1>4. t \in Listed /\ HomeList(t) = Ready(c, p)
  BY <1>1, <1>3 DEF IInv, ListInv, InOnePlace
<1>5. linkCpu[t] \in Cpus
  BY <1>4 DEF IInv, ListInv, Listed
<1>6. t \notin blocked /\ t \notin suspended
  BY <1>1, <1>4, <1>5, HomeIsList, ListsDiffer DEF IInv
<1>7. t \in queued
  BY <1>4, <1>6 DEF Listed
<1>8. HomeList(t) = Ready(linkCpu[t], queuedPrio[t]) /\ queuedPrio[t] \in Levels
  BY <1>4, <1>7, HomeIsList DEF IInv, ListInv
<1> QED
  BY <1>1, <1>4, <1>5, <1>7, <1>8, ListsDiffer

(* Whatever level and thread it settles on, the dispatcher picks a thread  *)
(* that is queued on its CPU.                                              *)
LEMMA PicksQueued ==
  ASSUME IInv, NEW c \in Cpus, NEW S \in SUBSET summary[c], S # {}
  PROVE  PickedAmong(c, S) \in queued /\ linkCpu[PickedAmong(c, S)] = c
<1> DEFINE head == list[Ready(c, Highest(S))][1]
           R == ReadyExcept(c, head)
           q == list[Ready(c, Highest(R))]
<1>1. summary[c] \subseteq Levels
  BY DEF IInv, ListInv
<1>2. ASSUME NEW p \in summary[c]
      PROVE  list[Ready(c, p)] \in Seq(Threads) /\ 1 \in DOMAIN list[Ready(c, p)]
  <2>1. list[Ready(c, p)] \in Seq(Threads) /\ list[Ready(c, p)] # <<>>
    BY <1>1, ListsDiffer DEF IInv, ListInv, SummaryExact
  <2> QED
    BY <2>1
<1>3. Highest(S) \in summary[c]
  BY <1>1, HighestIsIn
<1>4. head \in queued /\ linkCpu[head] = c
  BY <1>2, <1>3, ReadyIsQueued
<1>5. ASSUME R # {}
      PROVE  HighestReadyExcept(c, head) \in queued /\ linkCpu[HighestReadyExcept(c, head)] = c
  <2>1. R \subseteq summary[c]
    BY DEF ReadyExcept
  <2>2. Highest(R) \in R
    BY <1>1, <1>5, <2>1, HighestIsIn
  <2>3. Highest(R) \in summary[c] /\ RangeOf(q) \ {head} # {}
    BY <2>2 DEF ReadyExcept
  <2>4. q \in Seq(Threads) /\ 1 \in DOMAIN q
    BY <1>2, <2>3
  <2>5. PICK i \in DOMAIN q : q[i] # head
    BY <2>3 DEF RangeOf
  <2>6. q[1] = head => 2 \in DOMAIN q
    <3>1. q[1] = head => i \in Nat /\ 1 < i /\ i <= Len(q)
      BY <2>4, <2>5
    <3>2. DOMAIN q = 1 .. Len(q) /\ Len(q) \in Nat
      BY <2>4
    <3> QED
      BY <3>1, <3>2
  <2>7. HighestReadyExcept(c, head) = IF q[1] # head THEN q[1] ELSE q[2]
    BY DEF HighestReadyExcept
  <2>8. q[1] \in queued /\ linkCpu[q[1]] = c
    BY <2>3, <2>4, ReadyIsQueued
  <2>9. q[1] = head => q[2] \in queued /\ linkCpu[q[2]] = c
    BY <2>3, <2>6, ReadyIsQueued
  <2> QED
    BY <2>7, <2>8, <2>9
<1>6. PickedAmong(c, S) \in {head} \/ (R # {} /\ PickedAmong(c, S) = HighestReadyExcept(c, head))
  BY DEF PickedAmong
<1> QED
  BY <1>4, <1>5, <1>6

LEMMA DequeueReadyKeeps ==
  ASSUME IInv, NEW c \in Cpus, DequeueReady(c)
  PROVE  IInv'
<1>1. PICK open \in BOOLEAN :
        LET t == PickedAmong(c, Band(c, open)) IN
        /\ background' = IF open THEN background ELSE background \ {c}
        /\ list' = WithoutReady(t)
        /\ summary' = ClearedSummary(c, queuedPrio[t], WithoutReady(t))
        /\ queued' = queued \ {t}
        /\ running' = running \cup {t}
        /\ next' = [next EXCEPT ![c] = t]
  BY DEF DequeueReady
<1> DEFINE t == PickedAmong(c, Band(c, open))
<1>2. Band(c, open) \subseteq summary[c] /\ Band(c, open) # {}
  BY DEF Band, DequeueReady
<1>3. t \in queued /\ linkCpu[t] = c
  BY <1>2, PicksQueued
<1>4. /\ list' = WithoutReady(t)
      /\ summary' = ClearedSummary(c, queuedPrio[t], WithoutReady(t))
      /\ queued' = queued \ {t} /\ running' = running \cup {t}
      /\ next' = [next EXCEPT ![c] = t]
      /\ background' \subseteq background
  BY <1>1
<1> HIDE DEF t
<1>5. /\ loop[c] = "dequeue" /\ loop' = [loop EXCEPT ![c] = "picked"]
      /\ yieldToOther' = [yieldToOther EXCEPT ![c] = None]
      /\ UNCHANGED <<blocked, suspended, linkCpu, queuedPrio, waitVars, stateVars, currentCpu,
                     lifeVars, currentThread, exitedThread, parkVars, home, bumped,
                     fiber, wake, call, phase>>
  BY DEF DequeueReady, stateVars
<1>6. t \in Threads /\ t \in Listed /\ t \notin blocked /\ t \notin suspended
  BY <1>3 DEF IInv, ListInv, InOnePlace, Listed
<1>7. \A d \in Cpus : ~Owns(d, t)
  <2>1. ASSUME NEW d \in Cpus, Owns(d, t) PROVE FALSE
    <3>1. linkCpu[t] = d /\ loop[d] = "back"
      BY <1>6, <2>1 DEF IInv, OwnInv
    <3> QED
      BY <1>3, <1>5, <3>1
  <2> QED
    BY <2>1
<1>8. ListInv'
  <2>1. blocked' = blocked \ {t} /\ suspended' = suspended \ {t}
    BY <1>5, <1>6
  <2>2. OutOf(WithoutReady(t), t) /\ Exact(WithoutReady(t), summary')
    BY <1>3, <1>4, UnlinkReady DEF IInv
  <2> QED
    BY <1>4, <1>5, <1>6, <2>1, <2>2, TakenOut DEF IInv
<1>9. Listed' = Listed \ {t}
  BY <1>4, <1>5, <1>6 DEF Listed
<1>10. LoopType'
  BY <1>4, <1>5, <1>6 DEF IInv, TypeInv, LoopType, LoopPcs
<1>11. OwnInv'
  <2>1. t # None /\ loop \in [Cpus -> LoopPcs] /\ next \in [Cpus -> Threads \cup {None}]
    BY <1>6, ConstantsAssumption DEF IInv, TypeInv, LoopType
  <2>2. \A d \in Cpus, x \in Threads : Owns(d, x)' <=> Owns(d, x) \/ (d = c /\ x = t)
    <3>1. ~ \E x \in Threads : Owns(c, x)
      BY <1>5 DEF Owns, OwningPcs
    <3>2. \A x \in Threads : Owns(c, x)' <=> x = t
      BY <1>4, <1>5, <2>1 DEF Owns, OwningPcs
    <3>3. \A d \in Cpus \ {c}, x \in Threads : Owns(d, x)' <=> Owns(d, x)
      BY <1>4, <1>5, <2>1 DEF Owns
    <3> QED
      BY <3>1, <3>2, <3>3
  <2>3. \A d \in Cpus : loop'[d] # "gone" => (next'[d] # None <=> loop'[d] \in OwningPcs)
    BY <1>4, <1>5, <2>1 DEF IInv, OwnInv, OwningPcs
  <2>4. \A x \in Threads : x \in running' <=> \E d \in Cpus : Owns(d, x)'
    BY <1>4, <2>2 DEF IInv, OwnInv
  <2>5. \A d, e \in Cpus, x \in Threads : Owns(d, x)' /\ Owns(e, x)' => d = e
    BY <1>7, <2>2 DEF IInv, OwnInv
  <2>6. ASSUME NEW d \in Cpus, NEW x \in Threads, Owns(d, x)'
        PROVE  linkCpu'[x] = d /\ (x \notin Listed' \/ loop'[d] = "back")
    <3>1. CASE d = c /\ x = t
      BY <1>3, <1>5, <1>9, <3>1
    <3>2. CASE Owns(d, x)
      <4>1. loop[d] = "back" => loop'[d] = "back"
        BY <1>5, <2>1
      <4> QED
        BY <1>5, <1>9, <3>2, <4>1 DEF IInv, OwnInv
    <3> QED
      BY <2>2, <2>6, <3>1, <3>2
  <2> QED
    BY <2>3, <2>4, <2>5, <2>6 DEF OwnInv
<1>12. RefInv'
  <2>1. \A d \in Cpus : loop'[d] = "migrate" => home'[d] \in Cpus
    BY <1>5 DEF IInv, RefInv, TypeInv, LoopType
  <2>2. \A x \in Listed' \cup running' : Exists(x)'
    BY <1>4, <1>5, <1>6, <1>9 DEF IInv, RefInv, Exists
  <2> QED
    BY <1>5, <2>1, <2>2 DEF IInv, RefInv, Exists
<1>13. YieldInv'
  <2>1. \A d \in Cpus, x \in Threads : yieldToOther'[d] = x => x \in queued' /\ linkCpu'[x] = d
    <3>1. yieldToOther \in [Cpus -> Threads \cup {None}] /\ None \notin Threads
      BY ConstantsAssumption DEF IInv, TypeInv, PickType
    <3> QED
      BY <1>3, <1>4, <1>5, <3>1 DEF IInv, YieldInv, YielderIsQueued
  <2>2. phase' # "stopped"
    BY <1>5 DEF IInv, YieldInv
  <2> QED
    BY <2>1, <2>2 DEF YieldInv, YielderIsQueued
<1>14. OwnType' /\ PickType'
  BY <1>4, <1>5, <1>6 DEF IInv, TypeInv, OwnType, PickType
<1>15. TypeInv'
  BY <1>5, <1>10, <1>14, TypeFrames DEF IInv, TypeInv
<1> QED
  BY <1>8, <1>11, <1>12, <1>13, <1>15 DEF IInv

(* A dispatch thread that owns a thread has it as next.                    *)
LEMMA OwnsNext ==
  ASSUME IInv, NEW c \in Cpus, loop[c] \in OwningPcs \ {"gone"}
  PROVE  /\ next[c] \in Threads /\ next[c] \in running /\ Owns(c, next[c])
         /\ linkCpu[next[c]] = c /\ Exists(next[c])
         /\ currentCpu[next[c]] \in Cpus /\ priority[next[c]] \in Levels
         /\ loop[c] # "back" => next[c] \notin Listed
         /\ phase # "stopped"
<1>1. next[c] \in Threads /\ Owns(c, next[c])
  BY DEF IInv, OwnInv, TypeInv, LoopType, Owns
<1>2. next[c] \in running /\ linkCpu[next[c]] = c
  BY <1>1 DEF IInv, OwnInv
<1>3. Exists(next[c])
  BY <1>2 DEF IInv, RefInv
<1>4. loop[c] # "back" => next[c] \notin Listed
  BY <1>1 DEF IInv, OwnInv
<1> QED
  BY <1>1, <1>2, <1>3, <1>4 DEF IInv, RefInv, TypeInv, StateType, YieldInv

(* It keeps it while it gets ready to switch to it.                        *)
LEMMA OwnerMoves ==
  ASSUME IInv, NEW c \in Cpus, loop[c] \in OwningPcs \ {"back", "gone"},
         NEW pc \in OwningPcs \ {"gone"}, loop' = [loop EXCEPT ![c] = pc],
         UNCHANGED <<listVars, running, next>>
  PROVE  ListInv' /\ OwnInv' /\ Listed' = Listed
<1>1. ListInv' /\ Listed' = Listed /\ linkCpu' = linkCpu
  BY ListFrame DEF IInv, listVars
<1>2. \A d \in Cpus : loop'[d] = IF d = c THEN pc ELSE loop[d]
  BY DEF IInv, TypeInv, LoopType
<1>3. \A d \in Cpus, t \in Threads : Owns(d, t)' <=> Owns(d, t)
  BY <1>2 DEF Owns
<1>4. \A d \in Cpus : loop'[d] # "gone" => (next'[d] # None <=> loop'[d] \in OwningPcs)
  BY <1>2 DEF IInv, OwnInv
<1>5. \A d \in Cpus, t \in Threads :
        Owns(d, t) => linkCpu'[t] = d /\ (t \notin Listed' \/ loop'[d] = "back")
  BY <1>1, <1>2 DEF IInv, OwnInv
<1>6. OwnInv'
  BY <1>3, <1>4, <1>5 DEF IInv, OwnInv
<1> QED
  BY <1>1, <1>6

(* It gives it up, to a list or to whoever holds it already.               *)
LEMMA Releases ==
  ASSUME IInv, NEW c \in Cpus, loop[c] \in OwningPcs \ {"gone"},
         NEW pc \in LoopPcs \ OwningPcs, loop' = [loop EXCEPT ![c] = pc],
         next' = [next EXCEPT ![c] = None], running' = running \ {next[c]},
         Listed' \subseteq Listed \cup {next[c]},
         \A x \in Threads \ {next[c]} : linkCpu'[x] = linkCpu[x]
  PROVE  OwnInv'
<1> DEFINE t == next[c]
<1>1. t \in Threads /\ Owns(c, t)
  BY OwnsNext
<1>2. /\ \A d \in Cpus : loop'[d] = IF d = c THEN pc ELSE loop[d]
      /\ \A d \in Cpus : next'[d] = IF d = c THEN None ELSE next[d]
  BY DEF IInv, TypeInv, LoopType
<1>3. \A d \in Cpus, x \in Threads : Owns(d, x)' <=> Owns(d, x) /\ d # c
  BY <1>2 DEF Owns
<1>4. \A d \in Cpus, x \in Threads : Owns(d, x)' => x # t
  BY <1>1, <1>3 DEF IInv, OwnInv
<1>5. \A x \in Threads : Owns(c, x) => x = t
  BY DEF Owns
<1>6. \A d \in Cpus : loop'[d] # "gone" => (next'[d] # None <=> loop'[d] \in OwningPcs)
  BY <1>2 DEF IInv, OwnInv
<1>7. \A x \in Threads : x \in running' <=> \E d \in Cpus : Owns(d, x)'
  <2>1. ASSUME NEW x \in Threads, x \in running' PROVE \E d \in Cpus : Owns(d, x)'
    <3>1. PICK d \in Cpus : Owns(d, x)
      BY <2>1 DEF IInv, OwnInv
    <3> QED
      BY <1>3, <1>5, <2>1, <3>1
  <2>2. ASSUME NEW x \in Threads, NEW d \in Cpus, Owns(d, x)' PROVE x \in running'
    BY <1>3, <1>4, <2>2 DEF IInv, OwnInv
  <2> QED
    BY <2>1, <2>2
<1>8. \A d, e \in Cpus, x \in Threads : Owns(d, x)' /\ Owns(e, x)' => d = e
  BY <1>3 DEF IInv, OwnInv
<1>9. ASSUME NEW d \in Cpus, NEW x \in Threads, Owns(d, x)'
      PROVE  linkCpu'[x] = d /\ (x \notin Listed' \/ loop'[d] = "back")
  <2>1. x # t /\ d # c /\ Owns(d, x)
    BY <1>3, <1>4, <1>9
  <2> QED
    BY <1>2, <2>1 DEF IInv, OwnInv
<1> QED
  BY <1>6, <1>7, <1>8, <1>9 DEF OwnInv

LEMMA PickedKeeps ==
  ASSUME IInv, NEW c \in Cpus, Picked(c)
  PROVE  IInv'
<1> USE DEF Picked, threadVars, cpuVars, ownVars, pickVars, stateVars
<1>1. currentCpu[next[c]] \in Cpus
  BY OwnsNext DEF OwningPcs
<1>2. PICK pc \in {"migrate", "settled"} :
        /\ loop' = [loop EXCEPT ![c] = pc]
        /\ IF pc = "migrate" THEN home' = [home EXCEPT ![c] = currentCpu[next[c]]]
                             ELSE home' = home
  OBVIOUS
<1>3. ListInv' /\ OwnInv' /\ Listed' = Listed
  BY <1>2, OwnerMoves DEF OwningPcs
<1>4. LoopType'
  BY <1>1, <1>2 DEF IInv, TypeInv, LoopType, LoopPcs
<1>5. TypeInv'
  BY <1>4, TypeFrames DEF IInv, TypeInv
<1>6. RefInv'
  <2>1. \A d \in Cpus : loop'[d] = "migrate" => home'[d] \in Cpus
    BY <1>1, <1>2 DEF IInv, RefInv, TypeInv, LoopType
  <2> QED
    BY <1>3, <2>1 DEF IInv, RefInv, Exists
<1>7. YieldInv'
  BY OwnsNext DEF IInv, YieldInv, YielderIsQueued, listVars, OwningPcs
<1> QED
  BY <1>3, <1>5, <1>6, <1>7 DEF IInv

LEMMA SwitchToKeeps ==
  ASSUME IInv, NEW c \in Cpus, SwitchTo(c)
  PROVE  IInv'
<1> USE DEF SwitchTo, Goes, ownVars, pickVars, stateVars
<1>1. next[c] \in Threads
  BY OwnsNext DEF OwningPcs
<1>2. ListInv' /\ OwnInv' /\ Listed' = Listed
  BY OwnerMoves DEF OwningPcs
<1>3. LoopType' /\ OwnType' /\ LifeType'
  BY <1>1 DEF IInv, TypeInv, LoopType, OwnType, LifeType, LoopPcs
<1>4. TypeInv'
  BY <1>3, TypeFrames DEF IInv, TypeInv
<1>5. RefInv'
  <2>1. \A d \in Cpus : loop'[d] = "migrate" => home'[d] \in Cpus
    BY DEF IInv, RefInv, TypeInv, LoopType
  <2> QED
    BY <1>2, <2>1 DEF IInv, RefInv, Exists
<1>6. YieldInv'
  BY OwnsNext DEF IInv, YieldInv, YielderIsQueued, listVars, OwningPcs
<1> QED
  BY <1>2, <1>4, <1>5, <1>6 DEF IInv

LEMMA SwitchedBackKeeps ==
  ASSUME IInv, NEW c \in Cpus, SwitchedBack(c)
  PROVE  IInv'
<1> USE DEF SwitchedBack, threadVars, pickVars, stateVars
<1>1. AfterSwitch(c) \in LoopPcs \ OwningPcs /\ AfterSwitch(c) \in {"top", "reap"}
  BY DEF AfterSwitch, LoopPcs, OwningPcs
<1>2. ListInv' /\ Listed' = Listed /\ linkCpu' = linkCpu
  BY ListFrame DEF IInv, listVars
<1>3. OwnInv'
  BY <1>1, <1>2, Releases DEF OwningPcs
<1>4. LoopType' /\ OwnType'
  BY <1>1 DEF IInv, TypeInv, LoopType, OwnType
<1>5. TypeInv'
  BY <1>4, TypeFrames DEF IInv, TypeInv
<1>6. RefInv'
  <2>1. \A d \in Cpus : loop'[d] = "migrate" => home'[d] \in Cpus
    BY <1>1 DEF IInv, RefInv, TypeInv, LoopType
  <2> QED
    BY <1>2, <2>1 DEF IInv, RefInv, Exists
<1>7. YieldInv'
  BY OwnsNext DEF IInv, YieldInv, YielderIsQueued, listVars, OwningPcs
<1> QED
  BY <1>2, <1>3, <1>5, <1>6, <1>7 DEF IInv

LEMMA MigrateHomeKeeps ==
  ASSUME IInv, NEW c \in Cpus, MigrateHome(c)
  PROVE  IInv'
<1> DEFINE t == next[c]
<1>1. /\ loop[c] = "migrate" /\ LinkAtTurn(home[c], t, list, summary)
      /\ running' = running \ {t}
      /\ loop' = [loop EXCEPT ![c] = "migrateWake"]
      /\ next' = [next EXCEPT ![c] = None]
      /\ home' = [home EXCEPT ![c] = None]
      /\ wake' = [wake EXCEPT ![c] = {home[c]}]
      /\ UNCHANGED <<blocked, suspended, waitVars, stateVars, currentCpu, lifeVars,
                     currentThread, exitedThread, pickVars, yieldToOther, parkVars, fiber,
                     call, phase>>
  BY DEF MigrateHome, stateVars, pickVars
<1>2. /\ t \in Threads /\ t \notin Listed /\ t \in running /\ linkCpu[t] = c /\ Exists(t)
      /\ priority[t] \in Levels /\ phase # "stopped" /\ home[c] \in Cpus
  BY <1>1, OwnsNext DEF OwningPcs, IInv, RefInv
<1> HIDE DEF t
<1>3. OutOf(list, t) /\ Exact(list, summary)
  BY <1>2, UnlistedIsOut DEF IInv
<1>4. blocked' = blocked \ {t} /\ suspended' = suspended \ {t}
  BY <1>1, <1>2 DEF Listed
<1>5. ListInv' /\ queued' = queued \cup {t} /\ linkCpu' = [linkCpu EXCEPT ![t] = home[c]] /\ BumpType'
  BY <1>1, <1>2, <1>3, <1>4, LinkedAtTurn DEF IInv, TypeInv
<1>6. Listed' \subseteq Listed \cup {t}
  BY <1>4, <1>5 DEF Listed
<1>7. OwnInv'
  <2>1. \A x \in Threads \ {t} : linkCpu'[x] = linkCpu[x]
    BY <1>5 DEF IInv, ListInv
  <2> QED
    BY <1>1, <1>6, <2>1, Releases DEF OwningPcs, LoopPcs, t
<1>8. LoopType' /\ OwnType' /\ WakeType'
  BY <1>1, <1>2 DEF IInv, TypeInv, LoopType, OwnType, WakeType, LoopPcs
<1>9. TypeInv'
  BY <1>1, <1>5, <1>8, TypeFrames DEF IInv, TypeInv
<1>10. RefInv'
  <2>1. \A d \in Cpus : loop'[d] = "migrate" => home'[d] \in Cpus
    BY <1>1 DEF IInv, RefInv, TypeInv, LoopType
  <2>2. \A x \in Listed' \cup running' : Exists(x)'
    BY <1>1, <1>2, <1>6 DEF IInv, RefInv, Exists
  <2> QED
    BY <1>1, <2>1, <2>2 DEF IInv, RefInv, Exists
<1>11. YieldInv'
  BY <1>1, <1>2, <1>5 DEF IInv, ListInv, YieldInv, YielderIsQueued, Listed
<1> QED
  BY <1>5, <1>7, <1>9, <1>10, <1>11 DEF IInv

LEMMA ParkSuspendedKeeps ==
  ASSUME IInv, NEW c \in Cpus, ParkSuspended(c)
  PROVE  IInv'
<1> DEFINE t == next[c]
<1>1. /\ loop[c] = "settled"
      /\ suspended' = suspended \cup {t}
      /\ linkCpu' = [linkCpu EXCEPT ![t] = c]
      /\ list' = [list EXCEPT ![Suspended(c)] = Append(@, t)]
      /\ running' = running \ {t}
      /\ loop' = [loop EXCEPT ![c] = "top"]
      /\ next' = [next EXCEPT ![c] = None]
      /\ UNCHANGED <<summary, queued, blocked, queuedPrio, waitVars, stateVars, currentCpu,
                     lifeVars, currentThread, exitedThread, pickVars, yieldToOther, parkVars,
                     home, bumped, fiber, wake, call, phase>>
  BY DEF ParkSuspended, stateVars, pickVars
<1>2. /\ t \in Threads /\ t \notin Listed /\ t \in running /\ linkCpu[t] = c /\ Exists(t)
      /\ phase # "stopped"
  BY <1>1, OwnsNext DEF OwningPcs
<1> HIDE DEF t
<1>3. ListInv'
  BY <1>1, <1>2, Parks DEF IInv
<1>4. Listed' \subseteq Listed \cup {t}
  BY <1>1 DEF Listed
<1>5. OwnInv'
  <2>1. \A x \in Threads \ {t} : linkCpu'[x] = linkCpu[x]
    BY <1>1 DEF IInv, ListInv
  <2> QED
    BY <1>1, <1>4, <2>1, Releases DEF OwningPcs, LoopPcs, t
<1>6. LoopType' /\ OwnType'
  BY <1>1, <1>2 DEF IInv, TypeInv, LoopType, OwnType, LoopPcs
<1>7. TypeInv'
  BY <1>1, <1>6, TypeFrames DEF IInv, TypeInv
<1>8. RefInv'
  <2>1. \A d \in Cpus : loop'[d] = "migrate" => home'[d] \in Cpus
    BY <1>1 DEF IInv, RefInv, TypeInv, LoopType
  <2>2. \A x \in Listed' \cup running' : Exists(x)'
    BY <1>1, <1>2, <1>4 DEF IInv, RefInv, Exists
  <2> QED
    BY <1>1, <2>1, <2>2 DEF IInv, RefInv, Exists
<1>9. YieldInv'
  BY <1>1, <1>2 DEF IInv, ListInv, YieldInv, YielderIsQueued, Listed
<1> QED
  BY <1>3, <1>5, <1>7, <1>8, <1>9 DEF IInv

-----------------------------------------------------------------------------
(* The invariant                                                           *)

LEMMA InitHolds == Init => IInv
<1> SUFFICES ASSUME Init PROVE IInv
  OBVIOUS
<1> USE DEF Init
<1>1. None \notin Threads /\ None \notin Cpus /\ MaxLevel \in Nat /\ MaxSuspend \in Nat
  BY ConstantsAssumption
<1>2. Listed = {}
  BY DEF Listed
<1>3. ListInv
  <2>1. \A l \in ListIds : list[l] = <<>> /\ RangeOf(list[l]) = {}
    BY DEF RangeOf
  <2>2. InOnePlace
    BY <1>2, <2>1 DEF InOnePlace
  <2>3. SummaryExact
    BY <2>1, ListsDiffer DEF SummaryExact
  <2>4. queuedPrio \in [Threads -> Levels] /\ list \in [ListIds -> Seq(Threads)]
    BY <1>1 DEF Levels
  <2>5. summary \in [Cpus -> SUBSET Levels] /\ linkCpu \in [Threads -> Cpus \cup {None}]
        /\ queued \subseteq Threads /\ blocked \subseteq Threads /\ suspended \subseteq Threads
    OBVIOUS
  <2> QED
    BY <1>2, <2>2, <2>3, <2>4, <2>5 DEF ListInv
<1>4. OwnInv
  BY DEF OwnInv, Owns, OwningPcs
<1>5. RefInv
  BY <1>2 DEF RefInv, Exists, Idle, ThreadCallPcs
<1>6. YieldInv
  BY <1>1 DEF YieldInv, YielderIsQueued
<1>7. WaitType /\ StateType
  BY <1>1 DEF WaitType, StateType, Levels
<1>8. LifeType /\ OwnType /\ PickType /\ ParkType
  BY DEF LifeType, OwnType, PickType, ParkType
<1>9. LoopType /\ FiberType /\ WakeType /\ BumpType
  BY DEF LoopType, FiberType, WakeType, BumpType, LoopPcs, FiberPcs
<1>10. CallType /\ PhaseType
  BY DEF CallType, PhaseType, Idle, CallPcs
<1> QED
  BY <1>3, <1>4, <1>5, <1>6, <1>7, <1>8, <1>9, <1>10 DEF IInv, TypeInv

LEMMA StutterKeeps ==
  ASSUME IInv, UNCHANGED vars
  PROVE  IInv'
<1> USE DEF vars, stateVars, lifeVars, ownVars, pickVars, parkVars, loopVars
<1>1. ListInv' /\ OwnInv' /\ Listed' = Listed
  BY StaysPut
<1>2. TypeInv'
  BY TypeFrames DEF IInv, TypeInv
<1>3. RefInv' /\ YieldInv'
  BY <1>1, RefFrame, YieldFrame DEF Exists, listVars
<1> QED
  BY <1>1, <1>2, <1>3 DEF IInv

LEMMA CallsKeep ==
  ASSUME IInv, NEW k \in Callers, CallStarts(k) \/ CallContinues(k)
  PROVE  IInv'
<1>1. CASE CallStarts(k)
  <2>1. CASE \E s \in Starts, b \in BOOLEAN : Create(k, s[1], s[2], s[3], b)
    <3>1. PICK s \in Starts, b \in BOOLEAN : Create(k, s[1], s[2], s[3], b)
      BY <2>1
    <3>2. s[1] \in Threads /\ s[2] \in Cpus /\ s[3] \in Levels
      BY ConstantsAssumption DEF ConstantsAssumption
    <3> QED
      BY <3>1, <3>2, CreateKeeps
  <2>2. CASE \E t \in Threads : Resume(k, t) \/ Suspend(k, t) \/ Terminate(k, t)
    BY <2>2, ResumeKeeps, SuspendKeeps, TerminateKeeps
  <2>3. CASE \E t \in Threads, c \in Cpus : SetActiveCpu(k, t, c)
    BY <2>3, SetActiveCpuKeeps
  <2>4. CASE \E t \in Threads, p \in Levels : PublishPriority(k, t, p)
    BY <2>4, PublishPriorityKeeps
  <2>5. CASE \E o \in Objects : Signal(k, o)
    BY <2>5, SignalKeeps
  <2>6. CASE BeginWakeAll(k)
    BY <2>6, BeginWakeAllKeeps
  <2>7. CASE \E C \in SUBSET BackgroundCpus : EnterBackgroundMode(k, C)
    BY <2>7, EnterBackgroundModeKeeps
  <2> QED
    BY <1>1, <2>1, <2>2, <2>3, <2>4, <2>5, <2>6, <2>7 DEF CallStarts
<1>2. CASE CallContinues(k)
  <2>1. CASE ResumeThread(k) \/ MarkReady(k) \/ EnqueueReady(k)
    BY <2>1, ResumeThreadKeeps, MarkReadyKeeps, EnqueueReadyKeeps
  <2>2. CASE TerminateThread(k) \/ ReclaimTerminated(k)
    BY <2>2, TerminateThreadKeeps, ReclaimTerminatedKeeps
  <2>3. CASE MigrateForAffinity(k) \/ RequeueForPriority(k)
    BY <2>3, MigrateForAffinityKeeps, RequeueForPriorityKeeps
  <2>4. CASE SignalCheck(k) \/ WakeForSignal(k) \/ WakeAllCheck(k) \/ WakeAll(k)
    BY <2>4, SignalCheckKeeps, WakeForSignalKeeps, WakeAllCheckKeeps, WakeAllKeeps
  <2>5. CASE \E c \in Cpus : Wake(k, c)
    BY <2>5, WakeKeeps
  <2> QED
    BY <1>2, <2>1, <2>2, <2>3, <2>4, <2>5 DEF CallContinues
<1> QED
  BY <1>1, <1>2

LEMMA FibersKeep ==
  ASSUME NoSelfResume, plan \in Plans, IInv, NEW c \in Cpus,
         GuestActs(c) \/ PreemptCurrentFiber(c) \/ FiberContinues(c)
  PROVE  IInv'
<1>1. CASE GuestActs(c)
  <2>1. CASE Yield(c) \/ SelfSuspend(c) \/ ExitYield(c)
    BY <2>1, YieldsKeep
  <2>2. CASE SelfResume(c)
    BY <2>2 DEF SelfResume, NoSelfResume
  <2>3. CASE \E S \in SUBSET Objects \ {{}} : SampleEpoch(c, S)
    BY <2>3, SampleEpochKeeps
  <2>4. CASE Delay(c) \/ BlockUngated(c) \/ WaitOnFence(c)
    BY <2>4, BlocksKeep
  <2>5. CASE ExitBegin(c) \/ Crash(c)
    BY <2>5, ExitBeginKeeps, CrashKeeps
  <2> QED
    BY <1>1, <2>1, <2>2, <2>3, <2>4, <2>5 DEF GuestActs
<1>2. CASE PreemptCurrentFiber(c)
  BY <1>2, YieldsKeep
<1>3. CASE FiberContinues(c)
  BY <1>3, FiberResumeKeeps, PollSatisfiedKeeps, BlocksKeep, ExitEndKeeps DEF FiberContinues
<1> QED
  BY <1>1, <1>2, <1>3

LEMMA DispatchersKeep ==
  ASSUME IInv, NEW c \in Cpus, Dispatches(c) \/ RepollDue(c) \/ SleepTimeout(c)
  PROVE  IInv'
<1>1. CASE Top(c) \/ RepollDue(c)
  BY <1>1, TopKeeps
<1>2. CASE RereadyBegin(c) \/ RereadyEnd(c)
  BY <1>2, RereadyBeginKeeps, RereadyEndKeeps
<1>3. CASE Walks(c)
  BY <1>3, KeepBlockedKeeps, RereadyKeeps DEF Walks
<1>4. CASE LoopWoken(c) \/ DequeueNothing(c)
  BY <1>4, LoopWokenKeeps
<1>5. CASE \E d \in Cpus : LoopWake(c, d)
  BY <1>5, LoopWakeKeeps
<1>6. CASE DequeueReady(c) \/ Picked(c)
  BY <1>6, DequeueReadyKeeps, PickedKeeps
<1>7. CASE MigrateHome(c) \/ ParkSuspended(c) \/ SwitchTo(c)
  BY <1>7, MigrateHomeKeeps, ParkSuspendedKeeps, SwitchToKeeps
<1>8. CASE SwitchedBack(c) \/ ReclaimExited(c)
  BY <1>8, SwitchedBackKeeps, ReclaimExitedKeeps
<1>9. CASE IdleParks(c) \/ IdleRechecks(c) \/ SleepWoken(c) \/ SleepTimeout(c)
  BY <1>9, IdlesKeep
<1> QED
  BY <1>1, <1>2, <1>3, <1>4, <1>5, <1>6, <1>7, <1>8, <1>9 DEF Dispatches

LEMMA ShutdownKeeps ==
  ASSUME IInv, ShutdownActs
  PROVE  IInv'
BY ShutdownBeginKeeps, ShutdownNudgeKeeps, ShutdownDrainKeeps DEF ShutdownActs

(* No step changes the plan of a behaviour.                                *)
LEMMA PlanKept ==
  ASSUME [Next]_vars
  PROVE  plan' = plan
<1>1. ASSUME NEW k \in Callers, CallStarts(k)
      PROVE  plan' = plan
  BY <1>1 DEF CallStarts, Create, Resume, Suspend, Terminate, SetActiveCpu, PublishPriority,
              Signal, BeginWakeAll, EnterBackgroundMode
<1>2. ASSUME NEW k \in Callers, CallContinues(k)
      PROVE  plan' = plan
  BY <1>2 DEF CallContinues, ResumeThread, MarkReady, EnqueueReady, TerminateThread,
              ReclaimTerminated, MigrateForAffinity, RequeueForPriority, SignalCheck,
              WakeAllCheck, AnyBlocked, WakeForSignal, WakeAll, Wake
<1>3. ASSUME NEW c \in Cpus, GuestActs(c) \/ PreemptCurrentFiber(c) \/ FiberContinues(c)
      PROVE  plan' = plan
  BY <1>3 DEF GuestActs, Yield, PreemptCurrentFiber, YieldLeavesAlone, SelfSuspend, SelfResume,
              SampleEpoch, Delay, BlockUngated, BlockCurrentThread, BlockLeavesAlone,
              WaitOnFence, ExitBegin, ExitYield, Crash, FiberContinues, FiberResume,
              PollSatisfied, BlockOnObjects, ExitEnd
<1>4. ASSUME NEW c \in Cpus, Dispatches(c) \/ RepollDue(c) \/ SleepTimeout(c)
      PROVE  plan' = plan
  BY <1>4 DEF Dispatches, Top, RepollDue, RereadyBegin, Walks, KeepBlocked, Reready, RereadyEnd,
              LoopWoken, LoopWake, DequeueReady, DequeueNothing, Picked, MigrateHome,
              ParkSuspended, SwitchTo, SwitchedBack, ReclaimExited, IdleParks, IdleRechecks,
              SleepWoken, SleepTimeout, WakesUp
<1>5. ASSUME ShutdownActs
      PROVE  plan' = plan
  BY <1>5 DEF ShutdownActs, ShutdownBegin, ShutdownDrain, ShutdownNudge
<1> QED
  BY <1>1, <1>2, <1>3, <1>4, <1>5 DEF Next, vars

(* The inductive invariant: the plan is one of Plans, and IInv.             *)
PlannedInv == plan \in Plans /\ IInv

LEMMA StepKeeps ==
  ASSUME NoSelfResume, PlannedInv, [Next]_vars
  PROVE  PlannedInv'
<1>0. plan \in Plans /\ IInv /\ plan' = plan
  BY PlanKept DEF PlannedInv
<1> SUFFICES IInv'
  BY <1>0 DEF PlannedInv
<1>1. CASE \E k \in Callers : CallStarts(k) \/ CallContinues(k)
  BY <1>0, <1>1, CallsKeep
<1>2. CASE \E c \in Cpus : \/ GuestActs(c) \/ PreemptCurrentFiber(c) \/ FiberContinues(c)
                           \/ Dispatches(c) \/ RepollDue(c) \/ SleepTimeout(c)
  BY <1>0, <1>2, FibersKeep, DispatchersKeep
<1>3. CASE ShutdownActs
  BY <1>0, <1>3, ShutdownKeeps
<1>4. CASE UNCHANGED vars
  BY <1>0, <1>4, StutterKeeps
<1> QED
  BY <1>1, <1>2, <1>3, <1>4 DEF Next

LEMMA InvariantHolds ==
  ASSUME NoSelfResume
  PROVE  Spec => []IInv
<1>1. Init => PlannedInv
  BY InitHolds DEF Init, PlannedInv
<1>2. PlannedInv /\ [Next]_vars => PlannedInv'
  BY StepKeeps
<1>3. PlannedInv => IInv
  BY DEF PlannedInv
<1> QED
  BY <1>1, <1>2, <1>3, PTL DEF Spec

(* Every variable keeps its type.                                          *)
THEOREM TypeCorrect ==
  ASSUME NoSelfResume
  PROVE  Spec => []TypeOK
<1>1. IInv => TypeOK
  BY DEF IInv, ListInv, TypeInv, WaitType, StateType, LifeType, OwnType, PickType, ParkType,
     LoopType, FiberType, WakeType, BumpType, CallType, PhaseType, TypeOK
<1> QED
  BY <1>1, InvariantHolds, PTL

(* A thread is in at most one of the ready, blocked and suspended lists,   *)
(* once, in the one its flags and links name: whatever the interleaving of *)
(* callers, fibers and dispatch threads, the shared link field ready_next  *)
(* is never used for two lists at once.                                    *)
THEOREM LinkedOnce ==
  ASSUME NoSelfResume
  PROVE  Spec => []InOnePlace
<1>1. IInv => InOnePlace
  BY DEF IInv, ListInv
<1> QED
  BY <1>1, InvariantHolds, PTL

(* ready_summary has exactly the bits of the nonempty levels, so a pick    *)
(* never misses a thread and never takes a null head.                      *)
THEOREM SummaryCorrect ==
  ASSUME NoSelfResume
  PROVE  Spec => []SummaryExact
<1>1. IInv => SummaryExact
  BY DEF IInv, ListInv
<1> QED
  BY <1>1, InvariantHolds, PTL

(* No two dispatch threads own the same fiber, running is set exactly      *)
(* while one does, and no list offers a fiber to another CPU until its     *)
(* context is saved.                                                       *)
THEOREM OneStack ==
  ASSUME NoSelfResume
  PROVE  Spec => []OneOwner
<1>1. IInv => OneOwner
  BY DEF IInv, OwnInv, OneOwner
<1> QED
  BY <1>1, InvariantHolds, PTL

(* yield_to_other never dangles: the thread it names is queued there.      *)
THEOREM YielderNotStale ==
  ASSUME NoSelfResume
  PROVE  Spec => []YielderIsQueued
<1>1. IInv => YielderIsQueued
  BY DEF IInv, YieldInv
<1> QED
  BY <1>1, InvariantHolds, PTL

-----------------------------------------------------------------------------
(* Wake-ups                                                                *)
-----------------------------------------------------------------------------
(* parked is set exactly around the sleep of a dispatch thread.            *)
ParkedAsleep == \A c \in Cpus : c \in parked <=> loop[c] \in {"recheck", "sleep"}

(* A wake-up that is not delivered yet belongs to a call or a dispatch     *)
(* thread that is about to.                                                *)
WakesHeld ==
  /\ \A k \in Callers : wake[k] # {} => call[k].pc = "wake"
  /\ \A c \in Cpus : wake[c] # {} => loop[c] \in {"reready", "rereadyWake", "migrateWake"}

(* has_blocked, which signals read without the lock, is set while the list *)
(* is not empty.                                                           *)
BlockedCovered == \A t \in blocked : linkCpu[t] \in hasBlocked

(* The invariant of the wake-ups: the promises, and what they rest on.     *)
WakeInv ==
  /\ ParkedAsleep /\ WakesHeld /\ BlockedCovered
  /\ NoLostWork /\ NoLostSignal /\ SuspendedHasCount

(* The blocked list of a CPU has the blocked threads linked to it.         *)
LEMMA BlockedAreListed ==
  ASSUME IInv, NEW t \in Threads, NEW c \in Cpus
  PROVE  t \in RangeOf(list[Blocked(c)]) <=> t \in blocked /\ linkCpu[t] = c
<1>1. Blocked(c) \in ListIds
  BY DEF ListIds
<1>2. t \in RangeOf(list[Blocked(c)]) <=> t \in Listed /\ Blocked(c) = HomeList(t)
  BY <1>1 DEF IInv, ListInv, InOnePlace
<1>3. CASE t \in Listed
  BY <1>2, <1>3, HomeIsList, ListsDiffer DEF IInv, ListInv, InOnePlace, Listed
<1>4. CASE t \notin Listed
  BY <1>2, <1>4 DEF Listed
<1> QED BY <1>3, <1>4

(* The thread a dispatch thread has taken is in no list.                   *)
LEMMA NextIsUnlisted ==
  ASSUME IInv, NEW c \in Cpus, loop[c] \in {"picked", "settled", "migrate", "fiber"}
  PROVE  next[c] \in Threads /\ next[c] \notin Listed /\ next[c] \in running
           /\ linkCpu[next[c]] = c
<1>1. next[c] \in Threads
  BY DEF IInv, OwnInv, TypeInv, LoopType, OwningPcs
<1>2. Owns(c, next[c])
  BY <1>1 DEF Owns, OwningPcs
<1> QED BY <1>1, <1>2 DEF IInv, OwnInv

(* What TerminateThread changes, whichever of its cases it meets.          *)
LEMMA TerminateDoes ==
  ASSUME IInv, NEW k \in Callers, NEW t, t = call[k].t, TerminateThread(k)
  PROVE  /\ blocked' \subseteq blocked /\ suspended' \subseteq suspended /\ linkCpu' = linkCpu
         /\ gated' = gated \ {t} /\ call[k].pc = "terminate"
         /\ \A c \in Cpus : \/ summary'[c] \subseteq summary[c]
                            \/ wake'[k] = {c} /\ call'[k].pc = "wake"
         /\ \A j \in Callers : j # k => call'[j] = call[j]
         /\ UNCHANGED <<waitSet, epochMoved, hasBlocked, repollNow, toPoll, suspendCount,
              cpuVars, loopVars, fiber, hasRun, terminated, reclaimed>>
<1>0. t \in Threads /\ call \in [Callers -> [pc : CallPcs,
        t : Threads \cup Objects \cup {None}, cpu : Cpus \cup {None}]]
      /\ wake \in [Cpus \cup Callers -> SUBSET Cpus]
      /\ linkCpu \in [Threads -> Cpus \cup {None}] /\ summary \in [Cpus -> SUBSET Levels]
  BY DEF TerminateThread, At, IInv, RefInv, ThreadCallPcs, ListInv, TypeInv, CallType,
     WakeType
<1>1. /\ gated' = gated \ {t} /\ call[k].pc = "terminate"
      /\ UNCHANGED <<waitSet, epochMoved, hasBlocked, repollNow, toPoll, suspendCount, cpuVars,
           loopVars, fiber, hasRun, terminated, reclaimed>>
  BY DEF TerminateThread, At, stateVars
<1>5. \A j \in Callers : j # k => call'[j] = call[j]
  <2>1. \/ call' = [call EXCEPT ![k] = Idle]
        \/ \E r : call' = [call EXCEPT ![k] = r]
    BY DEF TerminateThread, TerminateStopped, TerminateRunning, TerminateParked,
       TerminateUnlisted, Return, WakeAndReturn, Begin
  <2> QED BY <1>0, <2>1
<1>2. CASE TerminateStopped(k, t)
  <2>1. blocked' \subseteq blocked /\ suspended' \subseteq suspended /\ linkCpu' = linkCpu
    BY <1>2 DEF TerminateStopped, Detach
  <2>2. summary' = summary \/ (summary' = ClearedSummary(linkCpu[t], queuedPrio[t],
          WithoutReady(t)))
    BY <1>2 DEF TerminateStopped, Detach
  <2>3. \A c \in Cpus : summary'[c] \subseteq summary[c]
    BY <1>0, <2>2 DEF ClearedSummary
  <2> QED BY <1>1, <1>5, <2>1, <2>3
<1>3. CASE TerminateRunning(k, t) \/ TerminateUnlisted(k, t)
  BY <1>0, <1>1, <1>3, <1>5 DEF TerminateRunning, TerminateUnlisted, listVars
<1>4. CASE TerminateParked(k, t)
  <2>1. LinkReadyLocked(linkCpu[t], t, TRUE,
          [list EXCEPT ![IF t \in blocked THEN Blocked(linkCpu[t])
            ELSE Suspended(linkCpu[t])] = Unlink(@, t)], summary, bumped)
        /\ blocked' = blocked \ {t} /\ suspended' = suspended \ {t}
             /\ WakeAndReturn(k, {linkCpu[t]})
    BY <1>4 DEF TerminateParked
  <2>2. linkCpu' = [linkCpu EXCEPT ![t] = linkCpu[t]]
        /\ summary' = [summary EXCEPT ![linkCpu[t]] = @ \cup {priority[t]}]
    BY <2>1 DEF LinkReadyLocked
  <2>3. wake'[k] = {linkCpu[t]} /\ call'[k].pc = "wake"
    <3>1. wake' = [wake EXCEPT ![k] = {linkCpu[t]}]
      BY <2>1 DEF WakeAndReturn
    <3>2. call' = [call EXCEPT ![k] = [call[k] EXCEPT !.pc = "wake"]]
      BY <2>1 DEF WakeAndReturn
    <3>3. k \in Cpus \cup Callers
      OBVIOUS
    <3> QED BY <1>0, <3>1, <3>2, <3>3
  <2> QED BY <1>0, <1>1, <1>5, <2>1, <2>2, <2>3
<1> QED BY <1>2, <1>3, <1>4 DEF TerminateThread

(* What MigrateForAffinity changes.                                        *)
LEMMA MigrateDoes ==
  ASSUME IInv, NEW k \in Callers, NEW t, t = call[k].t, MigrateForAffinity(k)
  PROVE  /\ blocked' = blocked /\ suspended' = suspended /\ call[k].pc = "migrate"
         /\ \/ Return(k) /\ UNCHANGED <<linkCpu, summary, queued>>
            \/ /\ t \in queued /\ linkCpu' = [linkCpu EXCEPT ![t] = currentCpu[t]]
                    /\ queued' = queued \cup {t}
               /\ WakeAndReturn(k, {currentCpu[t]}) /\ currentCpu[t] \in Cpus
               /\ \A c \in Cpus \ {currentCpu[t]} : summary'[c] \subseteq summary[c]
         /\ UNCHANGED <<waitVars, stateVars, lifeVars, ownVars, parkVars, loopVars, fiber>>
<1>0. t \in Threads /\ Exists(t) /\ currentCpu[t] \in Cpus
        /\ summary \in [Cpus -> SUBSET Levels] /\ call[k].pc = "migrate"
  BY DEF MigrateForAffinity, At, IInv, RefInv, ThreadCallPcs, ListInv
<1>1. blocked' = blocked /\ suspended' = suspended
        /\ UNCHANGED <<waitVars, stateVars, lifeVars, ownVars, parkVars, loopVars, fiber>>
  BY DEF MigrateForAffinity
<1>2. CASE Return(k) /\ UNCHANGED <<linkCpu, summary, queued>>
  BY <1>0, <1>1, <1>2
<1>3. CASE /\ t \in queued
           /\ LinkAtTurn(currentCpu[t], t, WithoutReady(t),
                ClearedSummary(linkCpu[t], queuedPrio[t], WithoutReady(t)))
           /\ WakeAndReturn(k, {currentCpu[t]})
  <2> DEFINE S == ClearedSummary(linkCpu[t], queuedPrio[t], WithoutReady(t))
  <2>1. linkCpu' = [linkCpu EXCEPT ![t] = currentCpu[t]] /\ queued' = queued \cup {t}
        /\ summary' = [S EXCEPT ![currentCpu[t]] = @ \cup {priority[t]}]
    BY <1>3 DEF LinkAtTurn, LinkReadyLocked
  <2>2. \A c \in Cpus : S[c] \subseteq summary[c]
    BY <1>0 DEF ClearedSummary
  <2>3. S \in [Cpus -> SUBSET Levels]
    BY <1>0 DEF ClearedSummary
  <2> HIDE DEF S
  <2>4. \A c \in Cpus \ {currentCpu[t]} : summary'[c] \subseteq summary[c]
    BY <2>1, <2>2, <2>3
  <2> QED BY <1>0, <1>1, <1>3, <2>1, <2>4
<1>4. \/ Return(k) /\ UNCHANGED <<linkCpu, summary, queued>>
      \/ /\ t \in queued
         /\ LinkAtTurn(currentCpu[t], t, WithoutReady(t),
              ClearedSummary(linkCpu[t], queuedPrio[t], WithoutReady(t)))
         /\ WakeAndReturn(k, {currentCpu[t]})
  BY DEF MigrateForAffinity
<1> QED BY <1>2, <1>3, <1>4

(* Work is not lost while what sleeps gets no more of it and keeps its     *)
(* wake-ups.                                                               *)
LEMMA WorkRests ==
  ASSUME NoLostWork,
         \A c \in Cpus : loop'[c] = "sleep" =>
           \/ c \in readyEvent' \/ WakeInFlight(c)'
           \/ /\ loop[c] = "sleep"
              /\ (summary'[c] # {} => summary[c] # {})
              /\ c \in repollNow' => c \in repollNow
              /\ c \in readyEvent => c \in readyEvent'
              /\ WakeInFlight(c) => WakeInFlight(c)'
  PROVE  NoLostWork'
BY DEF NoLostWork

(* A call that has no wake-ups left takes on those of its lock section.    *)
LEMMA WakesAdd ==
  ASSUME WakeType, WakesHeld, NEW k \in Callers, call[k].pc # "wake", NEW W,
         wake' = [wake EXCEPT ![k] = W] \/ (wake' = wake /\ W = {})
  PROVE  \A c \in Cpus : (WakeInFlight(c) \/ c \in W) => WakeInFlight(c)'
<1>1. wake[k] = {} /\ k \in Cpus \cup Callers
  BY DEF WakesHeld
<1>2. \A a \in Cpus \cup Callers : a # k => wake'[a] = wake[a]
  BY DEF WakeType
<1>3. wake'[k] = W
  BY <1>1 DEF WakeType
<1> QED BY <1>1, <1>2, <1>3 DEF WakeInFlight

(* What RequeueForPriority changes: at most the level, so no CPU gains     *)
(* work.                                                                   *)
LEMMA RequeueDoes ==
  ASSUME IInv, NEW k \in Callers, RequeueForPriority(k)
  PROVE  /\ \A c \in Cpus : summary'[c] # {} => summary[c] # {}
         /\ \A t \in blocked \cup suspended : linkCpu'[t] = linkCpu[t]
         /\ Return(k) /\ call[k].pc = "requeue" /\ call[k].t \in Threads
         /\ queued' = queued
         /\ UNCHANGED <<blocked, suspended, waitVars, stateVars, lifeVars, cpuVars, loopVars,
              fiber>>
<1> DEFINE t == call[k].t
           d == linkCpu[t]
           S == ClearedSummary(d, queuedPrio[t], WithoutReady(t))
<1>0. t \in Threads /\ call[k].pc = "requeue" /\ summary \in [Cpus -> SUBSET Levels]
  BY DEF RequeueForPriority, At, IInv, RefInv, ThreadCallPcs, ListInv
<1>1. Return(k) /\ UNCHANGED <<blocked, suspended, waitVars, stateVars, lifeVars, cpuVars,
        loopVars, fiber>>
  BY DEF RequeueForPriority
<1>2. CASE t \notin queued
  <2>1. UNCHANGED <<summary, linkCpu, queued>>
    BY <1>2 DEF RequeueForPriority
  <2> QED BY <1>0, <1>1, <2>1
<1>3. CASE t \in queued
  <2>1. LinkReadyLocked(d, t, FALSE, WithoutReady(t), S, bumped)
    BY <1>3 DEF RequeueForPriority
  <2>2. linkCpu' = [linkCpu EXCEPT ![t] = d]
          /\ summary' = [S EXCEPT ![d] = @ \cup {priority[t]}]
        /\ queued' = queued \cup {t}
    BY <2>1 DEF LinkReadyLocked
  <2>3. d \in Cpus /\ summary[d] # {} /\ linkCpu \in [Threads -> Cpus \cup {None}]
          /\ t \notin blocked \cup suspended
    <3>1. t \in RangeOf(list[Ready(d, queuedPrio[t])]) /\ d \in Cpus /\ queuedPrio[t] \in Levels
      BY <1>0, <1>3, HomeIsList DEF IInv, ListInv, InOnePlace, Listed
    <3>2. list[Ready(d, queuedPrio[t])] # <<>>
      BY <3>1 DEF RangeOf
    <3> QED BY <1>3, <3>1, <3>2 DEF IInv, ListInv, SummaryExact, InOnePlace
  <2>4. \A c \in Cpus : c # d => S[c] = summary[c]
    BY <1>0 DEF ClearedSummary
  <2>5. S \in [Cpus -> SUBSET Levels]
    BY <1>0 DEF ClearedSummary
  <2> HIDE DEF S
  <2>6. \A c \in Cpus : summary'[c] # {} => summary[c] # {}
    BY <2>2, <2>3, <2>4, <2>5
  <2> HIDE DEF d
  <2>7. \A u \in blocked \cup suspended : linkCpu'[u] = linkCpu[u]
    BY <2>2, <2>3
  <2> QED BY <1>0, <1>1, <1>3, <2>2, <2>6, <2>7
<1> QED BY <1>2, <1>3
(* Only the dispatch thread sets and clears parked, on its way to sleep    *)
(* and back.                                                               *)
LEMMA ParkedIsAsleep ==
  ASSUME NoSelfResume, plan \in Plans, IInv, IInv', WakeInv, Next
  PROVE  ParkedAsleep'
<1>0. ParkedAsleep /\ ParkType /\ LoopType
  BY DEF WakeInv, IInv, TypeInv
<1>1. ASSUME NEW k \in Callers, NEW t \in Threads, NEW c \in Cpus, NEW p \in Levels,
               NEW b \in BOOLEAN, Create(k, t, c, p, b)
      PROVE  ParkedAsleep'
  BY <1>0, <1>1 DEF Create, cpuVars, loopVars, parkVars, ParkedAsleep, LoopType, ParkType
<1>2. ASSUME NEW k \in Callers, NEW t \in Threads, Resume(k, t)
      PROVE  ParkedAsleep'
  BY <1>0, <1>2 DEF Resume, At, ResumesFrom, Exists, cpuVars, loopVars, parkVars,
     ParkedAsleep, LoopType, ParkType
<1>3. ASSUME NEW k \in Callers, NEW t \in Threads, Suspend(k, t)
      PROVE  ParkedAsleep'
  BY <1>0, <1>3 DEF Suspend, cpuVars, loopVars, parkVars, ParkedAsleep, LoopType, ParkType
<1>4. ASSUME NEW k \in Callers, NEW t \in Threads, Terminate(k, t)
      PROVE  ParkedAsleep'
  BY <1>0, <1>4 DEF Terminate, At, cpuVars, loopVars, parkVars, ParkedAsleep, LoopType,
     ParkType
<1>5. ASSUME NEW k \in Callers, NEW t \in Threads, NEW c \in Cpus, SetActiveCpu(k, t, c)
      PROVE  ParkedAsleep'
  BY <1>0, <1>5 DEF SetActiveCpu, At, cpuVars, loopVars, parkVars, ParkedAsleep, LoopType,
     ParkType
<1>6. ASSUME NEW k \in Callers, NEW t \in Threads, NEW p \in Levels, PublishPriority(k, t, p)
      PROVE  ParkedAsleep'
  BY <1>0, <1>6 DEF PublishPriority, At, cpuVars, loopVars, parkVars, ParkedAsleep,
     LoopType, ParkType
<1>7. ASSUME NEW k \in Callers, NEW o \in Objects, Signal(k, o)
      PROVE  ParkedAsleep'
  BY <1>0, <1>7 DEF Signal, At, cpuVars, loopVars, parkVars, ParkedAsleep, LoopType,
     ParkType
<1>8. ASSUME NEW k \in Callers, BeginWakeAll(k)
      PROVE  ParkedAsleep'
  BY <1>0, <1>8 DEF BeginWakeAll, At, cpuVars, loopVars, parkVars, ParkedAsleep, LoopType,
     ParkType
<1>9. ASSUME NEW k \in Callers, NEW C \in SUBSET BackgroundCpus, EnterBackgroundMode(k, C)
      PROVE  ParkedAsleep'
  BY <1>0, <1>9 DEF EnterBackgroundMode, parkVars, loopVars, ParkedAsleep, LoopType,
     ParkType
<1>10. ASSUME NEW k \in Callers, ResumeThread(k)
      PROVE  ParkedAsleep'
  BY <1>0, <1>10 DEF ResumeThread, At, LockFree, cpuVars, loopVars, parkVars,
     ParkedAsleep, LoopType, ParkType
<1>11. ASSUME NEW k \in Callers, MarkReady(k)
      PROVE  ParkedAsleep'
  BY <1>0, <1>11 DEF MarkReady, At, cpuVars, loopVars, parkVars, ParkedAsleep, LoopType,
     ParkType
<1>12. ASSUME NEW k \in Callers, EnqueueReady(k)
      PROVE  ParkedAsleep'
  BY <1>0, <1>12 DEF EnqueueReady, At, LockFree, LeftAlone, cpuVars, loopVars, parkVars,
     ParkedAsleep, LoopType, ParkType
<1>13. ASSUME NEW k \in Callers, TerminateThread(k)
      PROVE  ParkedAsleep'
  BY <1>0, <1>13 DEF TerminateThread, At, LockFree, cpuVars, loopVars, parkVars,
     ParkedAsleep, LoopType, ParkType
<1>14. ASSUME NEW k \in Callers, ReclaimTerminated(k)
      PROVE  ParkedAsleep'
  BY <1>0, <1>14 DEF ReclaimTerminated, At, cpuVars, loopVars, parkVars, ParkedAsleep,
     LoopType, ParkType
<1>15. ASSUME NEW k \in Callers, MigrateForAffinity(k)
      PROVE  ParkedAsleep'
  BY <1>0, <1>15 DEF MigrateForAffinity, At, LockFree, parkVars, loopVars, ParkedAsleep,
     LoopType, ParkType
<1>16. ASSUME NEW k \in Callers, RequeueForPriority(k)
      PROVE  ParkedAsleep'
  BY <1>0, <1>16 DEF RequeueForPriority, At, LockFree, cpuVars, loopVars, parkVars,
     ParkedAsleep, LoopType, ParkType
<1>17. ASSUME NEW k \in Callers, SignalCheck(k)
      PROVE  ParkedAsleep'
  BY <1>0, <1>17 DEF SignalCheck, AnyBlocked, At, cpuVars, loopVars, parkVars,
     ParkedAsleep, LoopType, ParkType
<1>18. ASSUME NEW k \in Callers, WakeForSignal(k)
      PROVE  ParkedAsleep'
  BY <1>0, <1>18 DEF WakeForSignal, At, LockFree, cpuVars, loopVars, parkVars,
     ParkedAsleep, LoopType, ParkType
<1>19. ASSUME NEW k \in Callers, WakeAllCheck(k)
      PROVE  ParkedAsleep'
  BY <1>0, <1>19 DEF WakeAllCheck, AnyBlocked, At, cpuVars, loopVars, parkVars,
     ParkedAsleep, LoopType, ParkType
<1>20. ASSUME NEW k \in Callers, WakeAll(k)
      PROVE  ParkedAsleep'
  BY <1>0, <1>20 DEF WakeAll, At, LockFree, cpuVars, loopVars, parkVars, ParkedAsleep,
     LoopType, ParkType
<1>21. ASSUME NEW k \in Callers, NEW c \in Cpus, Wake(k, c)
      PROVE  ParkedAsleep'
  BY <1>0, <1>21 DEF Wake, At, SetReadyEvent, loopVars, ParkedAsleep, LoopType, ParkType
<1>22. ASSUME NEW c \in Cpus, Yield(c)
      PROVE  ParkedAsleep'
  BY <1>0, <1>22 DEF Yield, YieldCurrentThread, YieldLeavesAlone, ExitIfTerminated,
     YieldToScheduler, OnCpu, LeftAlone, parkVars, ParkedAsleep, LoopType, ParkType
<1>23. ASSUME NEW c \in Cpus, SelfSuspend(c)
      PROVE  ParkedAsleep'
  BY <1>0, <1>23 DEF SelfSuspend, YieldCurrentThread, YieldLeavesAlone, ExitIfTerminated,
     YieldToScheduler, OnCpu, LeftAlone, parkVars, ParkedAsleep, LoopType, ParkType
<1>24. ASSUME NEW c \in Cpus, NEW S \in SUBSET Objects, SampleEpoch(c, S)
      PROVE  ParkedAsleep'
  BY <1>0, <1>24 DEF SampleEpoch, OnCpu, StaysOnCpu, cpuVars, loopVars, parkVars,
     ParkedAsleep, LoopType, ParkType
<1>25. ASSUME NEW c \in Cpus, Delay(c)
      PROVE  ParkedAsleep'
  BY <1>0, <1>25 DEF Delay, BlockCurrentThread, ParkBlocked, ExitIfTerminated,
     BlockLeavesAlone, OnCpu, YieldToScheduler, PokeIfMoved, LockFree, parkVars,
     ParkedAsleep, LoopType, ParkType
<1>26. ASSUME NEW c \in Cpus, BlockUngated(c)
      PROVE  ParkedAsleep'
  BY <1>0, <1>26 DEF BlockUngated, BlockCurrentThread, ParkBlocked, ExitIfTerminated,
     BlockLeavesAlone, OnCpu, YieldToScheduler, PokeIfMoved, LockFree, parkVars,
     ParkedAsleep, LoopType, ParkType
<1>27. ASSUME NEW c \in Cpus, WaitOnFence(c)
      PROVE  ParkedAsleep'
  BY <1>0, <1>27 DEF WaitOnFence, ParkBlocked, BlockLeavesAlone, OnCpu, YieldToScheduler,
     PokeIfMoved, LockFree, parkVars, ParkedAsleep, LoopType, ParkType
<1>28. ASSUME NEW c \in Cpus, ExitBegin(c)
      PROVE  ParkedAsleep'
  BY <1>0, <1>28 DEF ExitBegin, OnCpu, StaysOnCpu, cpuVars, loopVars, parkVars,
     ParkedAsleep, LoopType, ParkType
<1>29. ASSUME NEW c \in Cpus, ExitYield(c)
      PROVE  ParkedAsleep'
  BY <1>0, <1>29 DEF ExitYield, YieldCurrentThread, YieldLeavesAlone, ExitIfTerminated,
     YieldToScheduler, OnCpu, LeftAlone, parkVars, ParkedAsleep, LoopType, ParkType
<1>30. ASSUME NEW c \in Cpus, Crash(c)
      PROVE  ParkedAsleep'
  BY <1>0, <1>30 DEF Crash, OnCpu, YieldToScheduler, LockFree, parkVars, ParkedAsleep,
     LoopType, ParkType
<1>31. ASSUME NEW c \in Cpus, PreemptCurrentFiber(c)
      PROVE  ParkedAsleep'
  BY <1>0, <1>31 DEF PreemptCurrentFiber, YieldCurrentThread, YieldLeavesAlone,
     ExitIfTerminated, YieldToScheduler, OnCpu, LeftAlone, parkVars, ParkedAsleep,
     LoopType, ParkType
<1>32. ASSUME NEW c \in Cpus, FiberResume(c)
      PROVE  ParkedAsleep'
  BY <1>0, <1>32 DEF FiberResume, OnCpu, ExitIfTerminated, YieldToScheduler, parkVars,
     ParkedAsleep, LoopType, ParkType
<1>33. ASSUME NEW c \in Cpus, PollSatisfied(c)
      PROVE  ParkedAsleep'
  BY <1>0, <1>33 DEF PollSatisfied, OnCpu, StaysOnCpu, cpuVars, loopVars, parkVars,
     ParkedAsleep, LoopType, ParkType
<1>34. ASSUME NEW c \in Cpus, BlockOnObjects(c)
      PROVE  ParkedAsleep'
  BY <1>0, <1>34 DEF BlockOnObjects, BlockCurrentThread, ParkBlocked, ExitIfTerminated,
     BlockLeavesAlone, OnCpu, YieldToScheduler, PokeIfMoved, LockFree, parkVars,
     ParkedAsleep, LoopType, ParkType
<1>35. ASSUME NEW c \in Cpus, ExitEnd(c)
      PROVE  ParkedAsleep'
  BY <1>0, <1>35 DEF ExitEnd, OnCpu, YieldToScheduler, parkVars, ParkedAsleep, LoopType,
     ParkType
<1>36. ASSUME NEW c \in Cpus, Top(c)
      PROVE  ParkedAsleep'
  BY <1>0, <1>36 DEF Top, Goes, cpuVars, parkVars, ParkedAsleep, LoopType, ParkType
<1>37. ASSUME NEW c \in Cpus, RepollDue(c)
      PROVE  ParkedAsleep'
  BY <1>0, <1>37 DEF RepollDue, Goes, cpuVars, parkVars, ParkedAsleep, LoopType, ParkType
<1>38. ASSUME NEW c \in Cpus, SleepTimeout(c)
      PROVE  ParkedAsleep'
  BY <1>0, <1>38 DEF SleepTimeout, WakesUp, Goes, ParkedAsleep, LoopType, ParkType
<1>39. ASSUME NEW c \in Cpus, RereadyBegin(c)
      PROVE  ParkedAsleep'
  BY <1>0, <1>39 DEF RereadyBegin, Goes, LockFree, cpuVars, parkVars, ParkedAsleep,
     LoopType, ParkType
<1>40. ASSUME NEW c \in Cpus, NEW t \in Threads, KeepBlocked(c, t)
      PROVE  ParkedAsleep'
  BY <1>0, <1>40 DEF KeepBlocked, MayHaveResolved, Visits, cpuVars, loopVars, parkVars,
     ParkedAsleep, LoopType, ParkType
<1>41. ASSUME NEW c \in Cpus, NEW t \in Threads, Reready(c, t)
      PROVE  ParkedAsleep'
  BY <1>0, <1>41 DEF Reready, Visits, cpuVars, loopVars, parkVars, ParkedAsleep, LoopType,
     ParkType
<1>42. ASSUME NEW c \in Cpus, RereadyEnd(c)
      PROVE  ParkedAsleep'
  BY <1>0, <1>42 DEF RereadyEnd, Goes, cpuVars, parkVars, ParkedAsleep, LoopType, ParkType
<1>43. ASSUME NEW c \in Cpus, LoopWoken(c)
      PROVE  ParkedAsleep'
  BY <1>0, <1>43 DEF LoopWoken, Goes, cpuVars, parkVars, ParkedAsleep, LoopType, ParkType
<1>44. ASSUME NEW c \in Cpus, NEW d \in Cpus, LoopWake(c, d)
      PROVE  ParkedAsleep'
  BY <1>0, <1>44 DEF LoopWake, SetReadyEvent, loopVars, ParkedAsleep, LoopType, ParkType
<1>45. ASSUME NEW c \in Cpus, DequeueReady(c)
      PROVE  ParkedAsleep'
  BY <1>0, <1>45 DEF DequeueReady, LockFree, parkVars, ParkedAsleep, LoopType, ParkType
<1>46. ASSUME NEW c \in Cpus, DequeueNothing(c)
      PROVE  ParkedAsleep'
  BY <1>0, <1>46 DEF DequeueNothing, Goes, LockFree, cpuVars, parkVars, ParkedAsleep,
     LoopType, ParkType
<1>47. ASSUME NEW c \in Cpus, Picked(c)
      PROVE  ParkedAsleep'
  BY <1>0, <1>47 DEF Picked, cpuVars, parkVars, ParkedAsleep, LoopType, ParkType
<1>48. ASSUME NEW c \in Cpus, MigrateHome(c)
      PROVE  ParkedAsleep'
  BY <1>0, <1>48 DEF MigrateHome, LockFree, parkVars, ParkedAsleep, LoopType, ParkType
<1>49. ASSUME NEW c \in Cpus, ParkSuspended(c)
      PROVE  ParkedAsleep'
  BY <1>0, <1>49 DEF ParkSuspended, LockFree, MustPark, parkVars, ParkedAsleep, LoopType,
     ParkType
<1>50. ASSUME NEW c \in Cpus, SwitchTo(c)
      PROVE  ParkedAsleep'
  BY <1>0, <1>50 DEF SwitchTo, Goes, parkVars, ParkedAsleep, LoopType, ParkType
<1>51. ASSUME NEW c \in Cpus, SwitchedBack(c)
      PROVE  ParkedAsleep'
  BY <1>0, <1>51 DEF SwitchedBack, AfterSwitch, parkVars, ParkedAsleep, LoopType, ParkType
<1>52. ASSUME NEW c \in Cpus, ReclaimExited(c)
      PROVE  ParkedAsleep'
  BY <1>0, <1>52 DEF ReclaimExited, Goes, parkVars, ParkedAsleep, LoopType, ParkType
<1>53. ASSUME NEW c \in Cpus, IdleParks(c)
      PROVE  ParkedAsleep'
  BY <1>0, <1>53 DEF IdleParks, Goes, ParkedAsleep, LoopType, ParkType
<1>54. ASSUME NEW c \in Cpus, IdleRechecks(c)
      PROVE  ParkedAsleep'
  BY <1>0, <1>54 DEF IdleRechecks, Goes, HasWork, LockFree, ParkedAsleep, LoopType,
     ParkType
<1>55. ASSUME NEW c \in Cpus, SleepWoken(c)
      PROVE  ParkedAsleep'
  BY <1>0, <1>55 DEF SleepWoken, WakesUp, Goes, ParkedAsleep, LoopType, ParkType
<1>56. ASSUME ShutdownBegin
      PROVE  ParkedAsleep'
  BY <1>0, <1>56 DEF ShutdownBegin, cpuVars, loopVars, parkVars, ParkedAsleep, LoopType,
     ParkType
<1>57. ASSUME NEW c \in Cpus, ShutdownNudge(c)
      PROVE  ParkedAsleep'
  BY <1>0, <1>57 DEF ShutdownNudge, loopVars, ParkedAsleep, LoopType, ParkType
<1>58. ASSUME ShutdownDrain
      PROVE  ParkedAsleep'
  BY <1>0, <1>58 DEF ShutdownDrain, Listed, Leftovers, parkVars, loopVars, ParkedAsleep,
     LoopType, ParkType
<1>59. ASSUME NEW c \in Cpus, SelfResume(c) PROVE FALSE
  BY <1>59 DEF SelfResume, NoSelfResume
<1>60. \A s \in Starts : s[1] \in Threads /\ s[2] \in Cpus /\ s[3] \in Levels
  BY ConstantsAssumption
<1>61. CASE \E k \in Callers : CallStarts(k) \/ CallContinues(k)
  BY <1>61, <1>60, <1>1, <1>2, <1>3, <1>4, <1>5, <1>6, <1>7, <1>8, <1>9, <1>10, <1>11,
     <1>12, <1>13, <1>14, <1>15, <1>16, <1>17, <1>18, <1>19, <1>20, <1>21
     DEF CallStarts, CallContinues
<1>62. CASE \E c \in Cpus : GuestActs(c) \/ PreemptCurrentFiber(c) \/ FiberContinues(c)
  BY <1>62, <1>59, <1>22, <1>23, <1>24, <1>25, <1>26, <1>27, <1>28, <1>29, <1>30, <1>31,
     <1>32, <1>33, <1>34, <1>35
     DEF GuestActs, FiberContinues
<1>63. CASE \E c \in Cpus : Dispatches(c) \/ RepollDue(c) \/ SleepTimeout(c)
  BY <1>63, <1>36, <1>37, <1>38, <1>39, <1>40, <1>41, <1>42, <1>43, <1>44, <1>45, <1>46,
     <1>47, <1>48, <1>49, <1>50, <1>51, <1>52, <1>53, <1>54, <1>55
     DEF Dispatches, Walks
<1>64. CASE ShutdownActs
  BY <1>64, <1>56, <1>57, <1>58 DEF ShutdownActs
<1> QED BY <1>61, <1>62, <1>63, <1>64 DEF Next

(* Whoever has wake-ups to deliver delivers them next.                     *)
LEMMA WakesAreHeld ==
  ASSUME NoSelfResume, plan \in Plans, IInv, IInv', WakeInv, Next
  PROVE  WakesHeld'
<1>0. WakesHeld /\ LoopType /\ WakeType /\ CallType /\ Callers \cap Cpus = {}
  BY DEF WakeInv, IInv, TypeInv
<1>1. ASSUME NEW k \in Callers, NEW t \in Threads, NEW c \in Cpus, NEW p \in Levels,
               NEW b \in BOOLEAN, Create(k, t, c, p, b)
      PROVE  WakesHeld'
  <2>1. wake' = wake /\ loop' = loop /\ call[k].pc = "idle"
          /\ (call' = call \/ Begin(k, "markReady", t, None))
    BY <1>1 DEF Create, At, loopVars
  <2> QED BY <1>0, <2>1 DEF Begin, WakesHeld, LoopType, WakeType, CallType
<1>2. ASSUME NEW k \in Callers, NEW t \in Threads, Resume(k, t)
      PROVE  WakesHeld'
  BY <1>0, <1>2 DEF Resume, Begin, At, ResumesFrom, Exists, loopVars, WakesHeld, LoopType,
     WakeType, CallType
<1>3. ASSUME NEW k \in Callers, NEW t \in Threads, Suspend(k, t)
      PROVE  WakesHeld'
  BY <1>0, <1>3 DEF Suspend, loopVars, WakesHeld, LoopType, WakeType, CallType
<1>4. ASSUME NEW k \in Callers, NEW t \in Threads, Terminate(k, t)
      PROVE  WakesHeld'
  BY <1>0, <1>4 DEF Terminate, Begin, At, loopVars, WakesHeld, LoopType, WakeType,
     CallType
<1>5. ASSUME NEW k \in Callers, NEW t \in Threads, NEW c \in Cpus, SetActiveCpu(k, t, c)
      PROVE  WakesHeld'
  BY <1>0, <1>5 DEF SetActiveCpu, Begin, At, loopVars, WakesHeld, LoopType, WakeType,
     CallType
<1>6. ASSUME NEW k \in Callers, NEW t \in Threads, NEW p \in Levels, PublishPriority(k, t, p)
      PROVE  WakesHeld'
  BY <1>0, <1>6 DEF PublishPriority, Begin, At, loopVars, WakesHeld, LoopType, WakeType,
     CallType
<1>7. ASSUME NEW k \in Callers, NEW o \in Objects, Signal(k, o)
      PROVE  WakesHeld'
  BY <1>0, <1>7 DEF Signal, Begin, At, loopVars, WakesHeld, LoopType, WakeType, CallType
<1>8. ASSUME NEW k \in Callers, BeginWakeAll(k)
      PROVE  WakesHeld'
  BY <1>0, <1>8 DEF BeginWakeAll, Begin, At, loopVars, WakesHeld, LoopType, WakeType,
     CallType
<1>9. ASSUME NEW k \in Callers, NEW C \in SUBSET BackgroundCpus, EnterBackgroundMode(k, C)
      PROVE  WakesHeld'
  BY <1>0, <1>9 DEF EnterBackgroundMode, loopVars, WakesHeld, LoopType, WakeType, CallType
<1>10. ASSUME NEW k \in Callers, ResumeThread(k)
      PROVE  WakesHeld'
  BY <1>0, <1>10 DEF ResumeThread, Begin, At, LockFree, loopVars, WakesHeld, LoopType,
     WakeType, CallType
<1>11. ASSUME NEW k \in Callers, MarkReady(k)
      PROVE  WakesHeld'
  BY <1>0, <1>11 DEF MarkReady, Begin, At, Return, loopVars, WakesHeld, LoopType,
     WakeType, CallType, Idle
<1>12. ASSUME NEW k \in Callers, EnqueueReady(k)
      PROVE  WakesHeld'
  <2>1. loop' = loop /\ (Return(k) \/ (\E W : WakeAndReturn(k, W))
          \/ (Begin(k, "reclaim", call[k].t, None) /\ UNCHANGED wake))
    BY <1>12 DEF EnqueueReady, loopVars
  <2>2. CASE Return(k)
    BY <1>0, <1>12, <2>1, <2>2 DEF EnqueueReady, At, Return, WakesHeld, LoopType,
       WakeType, CallType, Idle
  <2>3. CASE \E W : WakeAndReturn(k, W)
    BY <1>0, <2>1, <2>3 DEF WakeAndReturn, WakesHeld, LoopType, WakeType, CallType, Idle
  <2>4. CASE Begin(k, "reclaim", call[k].t, None) /\ UNCHANGED wake
    BY <1>0, <1>12, <2>1, <2>4 DEF EnqueueReady, At, Begin, WakesHeld, LoopType, WakeType,
       CallType
  <2> QED BY <2>1, <2>2, <2>3, <2>4
<1>13. ASSUME NEW k \in Callers, TerminateThread(k)
      PROVE  WakesHeld'
  <2>1. loop' = loop /\ (Return(k) \/ (\E W : WakeAndReturn(k, W))
          \/ (Begin(k, "reclaim", call[k].t, None) /\ UNCHANGED wake))
    BY <1>13 DEF TerminateThread, TerminateStopped, TerminateRunning, TerminateParked,
       TerminateUnlisted, loopVars
  <2>2. CASE Return(k)
    BY <1>0, <1>13, <2>1, <2>2 DEF TerminateThread, At, Return, WakesHeld, LoopType,
       WakeType, CallType, Idle
  <2>3. CASE \E W : WakeAndReturn(k, W)
    BY <1>0, <2>1, <2>3 DEF WakeAndReturn, WakesHeld, LoopType, WakeType, CallType, Idle
  <2>4. CASE Begin(k, "reclaim", call[k].t, None) /\ UNCHANGED wake
    BY <1>0, <1>13, <2>1, <2>4 DEF TerminateThread, At, Begin, WakesHeld, LoopType,
       WakeType, CallType
  <2> QED BY <2>1, <2>2, <2>3, <2>4
<1>14. ASSUME NEW k \in Callers, ReclaimTerminated(k)
      PROVE  WakesHeld'
  BY <1>0, <1>14 DEF ReclaimTerminated, At, Return, loopVars, WakesHeld, LoopType,
     WakeType, CallType, Idle
<1>15. ASSUME NEW k \in Callers, MigrateForAffinity(k)
      PROVE  WakesHeld'
  <2>1. loop' = loop /\ (Return(k) \/ (\E W : WakeAndReturn(k, W))
          \/ (Begin(k, "reclaim", call[k].t, None) /\ UNCHANGED wake))
    BY <1>15 DEF MigrateForAffinity, loopVars
  <2>2. CASE Return(k)
    BY <1>0, <1>15, <2>1, <2>2 DEF MigrateForAffinity, At, Return, WakesHeld, LoopType,
       WakeType, CallType, Idle
  <2>3. CASE \E W : WakeAndReturn(k, W)
    BY <1>0, <2>1, <2>3 DEF WakeAndReturn, WakesHeld, LoopType, WakeType, CallType, Idle
  <2>4. CASE Begin(k, "reclaim", call[k].t, None) /\ UNCHANGED wake
    BY <1>0, <1>15, <2>1, <2>4 DEF MigrateForAffinity, At, Begin, WakesHeld, LoopType,
       WakeType, CallType
  <2> QED BY <2>1, <2>2, <2>3, <2>4
<1>16. ASSUME NEW k \in Callers, RequeueForPriority(k)
      PROVE  WakesHeld'
  BY <1>0, <1>16 DEF RequeueForPriority, At, Return, LockFree, loopVars, WakesHeld,
     LoopType, WakeType, CallType, Idle
<1>17. ASSUME NEW k \in Callers, SignalCheck(k)
      PROVE  WakesHeld'
  BY <1>0, <1>17 DEF SignalCheck, AnyBlocked, At, Begin, Return, loopVars, WakesHeld,
     LoopType, WakeType, CallType, Idle
<1>18. ASSUME NEW k \in Callers, WakeForSignal(k)
      PROVE  WakesHeld'
  BY <1>0, <1>18 DEF WakeForSignal, At, LockFree, WakeAndReturn, loopVars, WakesHeld,
     LoopType, WakeType, CallType, Idle
<1>19. ASSUME NEW k \in Callers, WakeAllCheck(k)
      PROVE  WakesHeld'
  BY <1>0, <1>19 DEF WakeAllCheck, AnyBlocked, At, Begin, Return, loopVars, WakesHeld,
     LoopType, WakeType, CallType, Idle
<1>20. ASSUME NEW k \in Callers, WakeAll(k)
      PROVE  WakesHeld'
  BY <1>0, <1>20 DEF WakeAll, At, LockFree, WakeAndReturn, loopVars, WakesHeld, LoopType,
     WakeType, CallType, Idle
<1>21. ASSUME NEW k \in Callers, NEW c \in Cpus, Wake(k, c)
      PROVE  WakesHeld'
  BY <1>0, <1>21 DEF Wake, At, WakeAndReturn, loopVars, WakesHeld, LoopType, WakeType,
     CallType, Idle
<1>22. ASSUME NEW c \in Cpus, Yield(c)
      PROVE  WakesHeld'
  BY <1>0, <1>22 DEF Yield, YieldCurrentThread, YieldLeavesAlone, ExitIfTerminated,
     YieldToScheduler, OnCpu, LeftAlone, WakesHeld, LoopType, WakeType, CallType
<1>23. ASSUME NEW c \in Cpus, SelfSuspend(c)
      PROVE  WakesHeld'
  BY <1>0, <1>23 DEF SelfSuspend, YieldCurrentThread, YieldLeavesAlone, ExitIfTerminated,
     YieldToScheduler, OnCpu, LeftAlone, WakesHeld, LoopType, WakeType, CallType
<1>24. ASSUME NEW c \in Cpus, NEW S \in SUBSET Objects, SampleEpoch(c, S)
      PROVE  WakesHeld'
  BY <1>0, <1>24 DEF SampleEpoch, OnCpu, StaysOnCpu, loopVars, WakesHeld, LoopType,
     WakeType, CallType
<1>25. ASSUME NEW c \in Cpus, Delay(c)
      PROVE  WakesHeld'
  BY <1>0, <1>25 DEF Delay, BlockCurrentThread, ParkBlocked, ExitIfTerminated,
     BlockLeavesAlone, OnCpu, YieldToScheduler, PokeIfMoved, LockFree, WakesHeld,
     LoopType, WakeType, CallType
<1>26. ASSUME NEW c \in Cpus, BlockUngated(c)
      PROVE  WakesHeld'
  BY <1>0, <1>26 DEF BlockUngated, BlockCurrentThread, ParkBlocked, ExitIfTerminated,
     BlockLeavesAlone, OnCpu, YieldToScheduler, PokeIfMoved, LockFree, WakesHeld,
     LoopType, WakeType, CallType
<1>27. ASSUME NEW c \in Cpus, WaitOnFence(c)
      PROVE  WakesHeld'
  BY <1>0, <1>27 DEF WaitOnFence, ParkBlocked, BlockLeavesAlone, OnCpu, YieldToScheduler,
     PokeIfMoved, LockFree, WakesHeld, LoopType, WakeType, CallType
<1>28. ASSUME NEW c \in Cpus, ExitBegin(c)
      PROVE  WakesHeld'
  BY <1>0, <1>28 DEF ExitBegin, OnCpu, StaysOnCpu, loopVars, WakesHeld, LoopType,
     WakeType, CallType
<1>29. ASSUME NEW c \in Cpus, ExitYield(c)
      PROVE  WakesHeld'
  BY <1>0, <1>29 DEF ExitYield, YieldCurrentThread, YieldLeavesAlone, ExitIfTerminated,
     YieldToScheduler, OnCpu, LeftAlone, WakesHeld, LoopType, WakeType, CallType
<1>30. ASSUME NEW c \in Cpus, Crash(c)
      PROVE  WakesHeld'
  BY <1>0, <1>30 DEF Crash, OnCpu, YieldToScheduler, LockFree, WakesHeld, LoopType,
     WakeType, CallType
<1>31. ASSUME NEW c \in Cpus, PreemptCurrentFiber(c)
      PROVE  WakesHeld'
  BY <1>0, <1>31 DEF PreemptCurrentFiber, YieldCurrentThread, YieldLeavesAlone,
     ExitIfTerminated, YieldToScheduler, OnCpu, LeftAlone, WakesHeld, LoopType, WakeType,
     CallType
<1>32. ASSUME NEW c \in Cpus, FiberResume(c)
      PROVE  WakesHeld'
  BY <1>0, <1>32 DEF FiberResume, OnCpu, ExitIfTerminated, YieldToScheduler, WakesHeld,
     LoopType, WakeType, CallType
<1>33. ASSUME NEW c \in Cpus, PollSatisfied(c)
      PROVE  WakesHeld'
  BY <1>0, <1>33 DEF PollSatisfied, OnCpu, StaysOnCpu, loopVars, WakesHeld, LoopType,
     WakeType, CallType
<1>34. ASSUME NEW c \in Cpus, BlockOnObjects(c)
      PROVE  WakesHeld'
  BY <1>0, <1>34 DEF BlockOnObjects, BlockCurrentThread, ParkBlocked, ExitIfTerminated,
     BlockLeavesAlone, OnCpu, YieldToScheduler, PokeIfMoved, LockFree, WakesHeld,
     LoopType, WakeType, CallType
<1>35. ASSUME NEW c \in Cpus, ExitEnd(c)
      PROVE  WakesHeld'
  BY <1>0, <1>35 DEF ExitEnd, OnCpu, YieldToScheduler, WakesHeld, LoopType, WakeType,
     CallType
<1>36. ASSUME NEW c \in Cpus, Top(c)
      PROVE  WakesHeld'
  BY <1>0, <1>36 DEF Top, Goes, WakesHeld, LoopType, WakeType, CallType
<1>37. ASSUME NEW c \in Cpus, RepollDue(c)
      PROVE  WakesHeld'
  BY <1>0, <1>37 DEF RepollDue, Goes, WakesHeld, LoopType, WakeType, CallType
<1>38. ASSUME NEW c \in Cpus, SleepTimeout(c)
      PROVE  WakesHeld'
  BY <1>0, <1>38 DEF SleepTimeout, WakesUp, Goes, WakesHeld, LoopType, WakeType, CallType
<1>39. ASSUME NEW c \in Cpus, RereadyBegin(c)
      PROVE  WakesHeld'
  BY <1>0, <1>39 DEF RereadyBegin, Goes, LockFree, WakesHeld, LoopType, WakeType, CallType
<1>40. ASSUME NEW c \in Cpus, NEW t \in Threads, KeepBlocked(c, t)
      PROVE  WakesHeld'
  BY <1>0, <1>40 DEF KeepBlocked, MayHaveResolved, Visits, loopVars, WakesHeld, LoopType,
     WakeType, CallType
<1>41. ASSUME NEW c \in Cpus, NEW t \in Threads, Reready(c, t)
      PROVE  WakesHeld'
  BY <1>0, <1>41 DEF Reready, Visits, loopVars, WakesHeld, LoopType, WakeType, CallType
<1>42. ASSUME NEW c \in Cpus, RereadyEnd(c)
      PROVE  WakesHeld'
  BY <1>0, <1>42 DEF RereadyEnd, Goes, WakesHeld, LoopType, WakeType, CallType
<1>43. ASSUME NEW c \in Cpus, LoopWoken(c)
      PROVE  WakesHeld'
  BY <1>0, <1>43 DEF LoopWoken, Goes, WakesHeld, LoopType, WakeType, CallType
<1>44. ASSUME NEW c \in Cpus, NEW d \in Cpus, LoopWake(c, d)
      PROVE  WakesHeld'
  BY <1>0, <1>44 DEF LoopWake, loopVars, WakesHeld, LoopType, WakeType, CallType
<1>45. ASSUME NEW c \in Cpus, DequeueReady(c)
      PROVE  WakesHeld'
  BY <1>0, <1>45 DEF DequeueReady, LockFree, WakesHeld, LoopType, WakeType, CallType
<1>46. ASSUME NEW c \in Cpus, DequeueNothing(c)
      PROVE  WakesHeld'
  BY <1>0, <1>46 DEF DequeueNothing, Goes, LockFree, WakesHeld, LoopType, WakeType,
     CallType
<1>47. ASSUME NEW c \in Cpus, Picked(c)
      PROVE  WakesHeld'
  BY <1>0, <1>47 DEF Picked, WakesHeld, LoopType, WakeType, CallType
<1>48. ASSUME NEW c \in Cpus, MigrateHome(c)
      PROVE  WakesHeld'
  BY <1>0, <1>48 DEF MigrateHome, LockFree, WakesHeld, LoopType, WakeType, CallType
<1>49. ASSUME NEW c \in Cpus, ParkSuspended(c)
      PROVE  WakesHeld'
  BY <1>0, <1>49 DEF ParkSuspended, LockFree, MustPark, WakesHeld, LoopType, WakeType,
     CallType
<1>50. ASSUME NEW c \in Cpus, SwitchTo(c)
      PROVE  WakesHeld'
  BY <1>0, <1>50 DEF SwitchTo, Goes, WakesHeld, LoopType, WakeType, CallType
<1>51. ASSUME NEW c \in Cpus, SwitchedBack(c)
      PROVE  WakesHeld'
  BY <1>0, <1>51 DEF SwitchedBack, AfterSwitch, WakesHeld, LoopType, WakeType, CallType
<1>52. ASSUME NEW c \in Cpus, ReclaimExited(c)
      PROVE  WakesHeld'
  BY <1>0, <1>52 DEF ReclaimExited, Goes, WakesHeld, LoopType, WakeType, CallType
<1>53. ASSUME NEW c \in Cpus, IdleParks(c)
      PROVE  WakesHeld'
  BY <1>0, <1>53 DEF IdleParks, Goes, WakesHeld, LoopType, WakeType, CallType
<1>54. ASSUME NEW c \in Cpus, IdleRechecks(c)
      PROVE  WakesHeld'
  BY <1>0, <1>54 DEF IdleRechecks, Goes, HasWork, LockFree, WakesHeld, LoopType, WakeType,
     CallType
<1>55. ASSUME NEW c \in Cpus, SleepWoken(c)
      PROVE  WakesHeld'
  BY <1>0, <1>55 DEF SleepWoken, WakesUp, Goes, WakesHeld, LoopType, WakeType, CallType
<1>56. ASSUME ShutdownBegin
      PROVE  WakesHeld'
  BY <1>0, <1>56 DEF ShutdownBegin, loopVars, WakesHeld, LoopType, WakeType, CallType
<1>57. ASSUME NEW c \in Cpus, ShutdownNudge(c)
      PROVE  WakesHeld'
  BY <1>0, <1>57 DEF ShutdownNudge, loopVars, WakesHeld, LoopType, WakeType, CallType
<1>58. ASSUME ShutdownDrain
      PROVE  WakesHeld'
  BY <1>0, <1>58 DEF ShutdownDrain, Listed, Leftovers, loopVars, WakesHeld, LoopType,
     WakeType, CallType
<1>59. ASSUME NEW c \in Cpus, SelfResume(c) PROVE FALSE
  BY <1>59 DEF SelfResume, NoSelfResume
<1>60. \A s \in Starts : s[1] \in Threads /\ s[2] \in Cpus /\ s[3] \in Levels
  BY ConstantsAssumption
<1>61. CASE \E k \in Callers : CallStarts(k) \/ CallContinues(k)
  BY <1>61, <1>60, <1>1, <1>2, <1>3, <1>4, <1>5, <1>6, <1>7, <1>8, <1>9, <1>10, <1>11,
     <1>12, <1>13, <1>14, <1>15, <1>16, <1>17, <1>18, <1>19, <1>20, <1>21
     DEF CallStarts, CallContinues
<1>62. CASE \E c \in Cpus : GuestActs(c) \/ PreemptCurrentFiber(c) \/ FiberContinues(c)
  BY <1>62, <1>59, <1>22, <1>23, <1>24, <1>25, <1>26, <1>27, <1>28, <1>29, <1>30, <1>31,
     <1>32, <1>33, <1>34, <1>35
     DEF GuestActs, FiberContinues
<1>63. CASE \E c \in Cpus : Dispatches(c) \/ RepollDue(c) \/ SleepTimeout(c)
  BY <1>63, <1>36, <1>37, <1>38, <1>39, <1>40, <1>41, <1>42, <1>43, <1>44, <1>45, <1>46,
     <1>47, <1>48, <1>49, <1>50, <1>51, <1>52, <1>53, <1>54, <1>55
     DEF Dispatches, Walks
<1>64. CASE ShutdownActs
  BY <1>64, <1>56, <1>57, <1>58 DEF ShutdownActs
<1> QED BY <1>61, <1>62, <1>63, <1>64 DEF Next

(* What links a blocked thread sets has_blocked in the same lock section.  *)
LEMMA BlockedAreCovered ==
  ASSUME NoSelfResume, plan \in Plans, IInv, IInv', WakeInv, Next
  PROVE  BlockedCovered'
<1>0. /\ blocked \subseteq Threads /\ queued \cap blocked = {}
           /\ linkCpu \in [Threads -> Cpus \cup {None}]
      /\ \A t \in Threads, c \in Cpus : t \in RangeOf(list[Blocked(c)]) <=> t \in blocked
           /\ linkCpu[t] = c
      /\ \A c \in Cpus : loop[c] \in {"picked", "settled", "migrate", "fiber"}
           => next[c] \in Threads /\ next[c] \notin Listed
      /\ BlockedCovered
  BY BlockedAreListed, NextIsUnlisted DEF WakeInv, IInv, ListInv, InOnePlace
<1>1. ASSUME NEW k \in Callers, NEW t \in Threads, NEW c \in Cpus, NEW p \in Levels,
               NEW b \in BOOLEAN, Create(k, t, c, p, b)
      PROVE  BlockedCovered'
  BY <1>0, <1>1 DEF Create, listVars, waitVars, loopVars, BlockedCovered, Listed
<1>2. ASSUME NEW k \in Callers, NEW t \in Threads, Resume(k, t)
      PROVE  BlockedCovered'
  BY <1>0, <1>2 DEF Resume, At, ResumesFrom, Exists, listVars, waitVars, loopVars,
     BlockedCovered, Listed
<1>3. ASSUME NEW k \in Callers, NEW t \in Threads, Suspend(k, t)
      PROVE  BlockedCovered'
  BY <1>0, <1>3 DEF Suspend, listVars, waitVars, loopVars, BlockedCovered, Listed
<1>4. ASSUME NEW k \in Callers, NEW t \in Threads, Terminate(k, t)
      PROVE  BlockedCovered'
  BY <1>0, <1>4 DEF Terminate, At, listVars, loopVars, BlockedCovered, Listed
<1>5. ASSUME NEW k \in Callers, NEW t \in Threads, NEW c \in Cpus, SetActiveCpu(k, t, c)
      PROVE  BlockedCovered'
  BY <1>0, <1>5 DEF SetActiveCpu, At, listVars, waitVars, loopVars, BlockedCovered, Listed
<1>6. ASSUME NEW k \in Callers, NEW t \in Threads, NEW p \in Levels, PublishPriority(k, t, p)
      PROVE  BlockedCovered'
  BY <1>0, <1>6 DEF PublishPriority, At, listVars, waitVars, loopVars, BlockedCovered,
     Listed
<1>7. ASSUME NEW k \in Callers, NEW o \in Objects, Signal(k, o)
      PROVE  BlockedCovered'
  BY <1>0, <1>7 DEF Signal, At, listVars, loopVars, BlockedCovered, Listed
<1>8. ASSUME NEW k \in Callers, BeginWakeAll(k)
      PROVE  BlockedCovered'
  BY <1>0, <1>8 DEF BeginWakeAll, At, threadVars, loopVars, listVars, waitVars,
     BlockedCovered, Listed
<1>9. ASSUME NEW k \in Callers, NEW C \in SUBSET BackgroundCpus, EnterBackgroundMode(k, C)
      PROVE  BlockedCovered'
  BY <1>0, <1>9 DEF EnterBackgroundMode, threadVars, loopVars, listVars, waitVars,
     BlockedCovered, Listed
<1>10. ASSUME NEW k \in Callers, ResumeThread(k)
      PROVE  BlockedCovered'
  BY <1>0, <1>10 DEF ResumeThread, At, LockFree, waitVars, loopVars, BlockedCovered,
     Listed
<1>11. ASSUME NEW k \in Callers, MarkReady(k)
      PROVE  BlockedCovered'
  BY <1>0, <1>11 DEF MarkReady, At, threadVars, loopVars, listVars, waitVars,
     BlockedCovered, Listed
<1>12. ASSUME NEW k \in Callers, EnqueueReady(k)
      PROVE  BlockedCovered'
  BY <1>0, <1>12 DEF EnqueueReady, At, LockFree, LeftAlone, LinkAtTurn, LinkReadyLocked,
     waitVars, loopVars, BlockedCovered, Listed
<1>13. ASSUME NEW k \in Callers, TerminateThread(k)
      PROVE  BlockedCovered'
  BY <1>0, <1>13, TerminateDoes DEF BlockedCovered
<1>14. ASSUME NEW k \in Callers, ReclaimTerminated(k)
      PROVE  BlockedCovered'
  BY <1>0, <1>14 DEF ReclaimTerminated, At, listVars, waitVars, loopVars, BlockedCovered,
     Listed
<1>15. ASSUME NEW k \in Callers, MigrateForAffinity(k)
      PROVE  BlockedCovered'
  <2> DEFINE t == call[k].t
  <2>1. /\ blocked' = blocked /\ hasBlocked' = hasBlocked
        /\ linkCpu' = linkCpu \/ (t \in queued
             /\ linkCpu' = [linkCpu EXCEPT ![t] = currentCpu[t]])
    BY <1>15, MigrateDoes DEF waitVars
  <2> HIDE DEF t
  <2> QED BY <1>0, <2>1 DEF BlockedCovered
<1>16. ASSUME NEW k \in Callers, RequeueForPriority(k)
      PROVE  BlockedCovered'
  BY <1>0, <1>16 DEF RequeueForPriority, At, LockFree, LinkReadyLocked, waitVars,
     loopVars, BlockedCovered, Listed
<1>17. ASSUME NEW k \in Callers, SignalCheck(k)
      PROVE  BlockedCovered'
  BY <1>0, <1>17 DEF SignalCheck, AnyBlocked, At, threadVars, loopVars, listVars,
     waitVars, BlockedCovered, Listed
<1>18. ASSUME NEW k \in Callers, WakeForSignal(k)
      PROVE  BlockedCovered'
  BY <1>0, <1>18 DEF WakeForSignal, At, LockFree, listVars, loopVars, BlockedCovered,
     Listed
<1>19. ASSUME NEW k \in Callers, WakeAllCheck(k)
      PROVE  BlockedCovered'
  BY <1>0, <1>19 DEF WakeAllCheck, AnyBlocked, At, threadVars, loopVars, listVars,
     waitVars, BlockedCovered, Listed
<1>20. ASSUME NEW k \in Callers, WakeAll(k)
      PROVE  BlockedCovered'
  BY <1>0, <1>20 DEF WakeAll, At, LockFree, listVars, loopVars, BlockedCovered, Listed
<1>21. ASSUME NEW k \in Callers, NEW c \in Cpus, Wake(k, c)
      PROVE  BlockedCovered'
  BY <1>0, <1>21 DEF Wake, At, threadVars, loopVars, listVars, waitVars, BlockedCovered,
     Listed
<1>22. ASSUME NEW c \in Cpus, Yield(c)
      PROVE  BlockedCovered'
  BY <1>0, <1>22 DEF Yield, YieldCurrentThread, YieldLeavesAlone, ExitIfTerminated,
     YieldToScheduler, LinkAtTurn, LinkReadyLocked, OnCpu, LeftAlone, listVars,
     BlockedCovered, Listed
<1>23. ASSUME NEW c \in Cpus, SelfSuspend(c)
      PROVE  BlockedCovered'
  BY <1>0, <1>23 DEF SelfSuspend, YieldCurrentThread, YieldLeavesAlone, ExitIfTerminated,
     YieldToScheduler, LinkAtTurn, LinkReadyLocked, OnCpu, LeftAlone, listVars,
     BlockedCovered, Listed
<1>24. ASSUME NEW c \in Cpus, NEW S \in SUBSET Objects, SampleEpoch(c, S)
      PROVE  BlockedCovered'
  BY <1>0, <1>24 DEF SampleEpoch, OnCpu, StaysOnCpu, listVars, loopVars, BlockedCovered,
     Listed
<1>25. ASSUME NEW c \in Cpus, Delay(c)
      PROVE  BlockedCovered'
  BY <1>0, <1>25 DEF Delay, BlockCurrentThread, ParkBlocked, ExitIfTerminated,
     BlockLeavesAlone, OnCpu, YieldToScheduler, PokeIfMoved, LockFree, BlockedCovered,
     Listed
<1>26. ASSUME NEW c \in Cpus, BlockUngated(c)
      PROVE  BlockedCovered'
  BY <1>0, <1>26 DEF BlockUngated, BlockCurrentThread, ParkBlocked, ExitIfTerminated,
     BlockLeavesAlone, OnCpu, YieldToScheduler, PokeIfMoved, LockFree, BlockedCovered,
     Listed
<1>27. ASSUME NEW c \in Cpus, WaitOnFence(c)
      PROVE  BlockedCovered'
  BY <1>0, <1>27 DEF WaitOnFence, ParkBlocked, BlockLeavesAlone, OnCpu, YieldToScheduler,
     PokeIfMoved, LockFree, BlockedCovered, Listed
<1>28. ASSUME NEW c \in Cpus, ExitBegin(c)
      PROVE  BlockedCovered'
  BY <1>0, <1>28 DEF ExitBegin, OnCpu, StaysOnCpu, listVars, waitVars, loopVars,
     BlockedCovered, Listed
<1>29. ASSUME NEW c \in Cpus, ExitYield(c)
      PROVE  BlockedCovered'
  BY <1>0, <1>29 DEF ExitYield, YieldCurrentThread, YieldLeavesAlone, ExitIfTerminated,
     YieldToScheduler, LinkAtTurn, LinkReadyLocked, OnCpu, LeftAlone, listVars,
     BlockedCovered, Listed
<1>30. ASSUME NEW c \in Cpus, Crash(c)
      PROVE  BlockedCovered'
  BY <1>0, <1>30 DEF Crash, OnCpu, YieldToScheduler, Detach, LockFree, BlockedCovered,
     Listed
<1>31. ASSUME NEW c \in Cpus, PreemptCurrentFiber(c)
      PROVE  BlockedCovered'
  BY <1>0, <1>31 DEF PreemptCurrentFiber, YieldCurrentThread, YieldLeavesAlone,
     ExitIfTerminated, YieldToScheduler, LinkAtTurn, LinkReadyLocked, OnCpu, LeftAlone,
     listVars, BlockedCovered, Listed
<1>32. ASSUME NEW c \in Cpus, FiberResume(c)
      PROVE  BlockedCovered'
  BY <1>0, <1>32 DEF FiberResume, OnCpu, ExitIfTerminated, YieldToScheduler, listVars,
     BlockedCovered, Listed
<1>33. ASSUME NEW c \in Cpus, PollSatisfied(c)
      PROVE  BlockedCovered'
  BY <1>0, <1>33 DEF PollSatisfied, OnCpu, StaysOnCpu, listVars, loopVars, BlockedCovered,
     Listed
<1>34. ASSUME NEW c \in Cpus, BlockOnObjects(c)
      PROVE  BlockedCovered'
  BY <1>0, <1>34 DEF BlockOnObjects, BlockCurrentThread, ParkBlocked, ExitIfTerminated,
     BlockLeavesAlone, OnCpu, YieldToScheduler, PokeIfMoved, LockFree, BlockedCovered,
     Listed
<1>35. ASSUME NEW c \in Cpus, ExitEnd(c)
      PROVE  BlockedCovered'
  BY <1>0, <1>35 DEF ExitEnd, OnCpu, YieldToScheduler, threadVars, listVars, waitVars,
     BlockedCovered, Listed
<1>36. ASSUME NEW c \in Cpus, Top(c)
      PROVE  BlockedCovered'
  BY <1>0, <1>36 DEF Top, Goes, listVars, BlockedCovered, Listed
<1>37. ASSUME NEW c \in Cpus, RepollDue(c)
      PROVE  BlockedCovered'
  BY <1>0, <1>37 DEF RepollDue, Goes, threadVars, listVars, waitVars, BlockedCovered,
     Listed
<1>38. ASSUME NEW c \in Cpus, SleepTimeout(c)
      PROVE  BlockedCovered'
  BY <1>0, <1>38 DEF SleepTimeout, WakesUp, Goes, threadVars, listVars, waitVars,
     BlockedCovered, Listed
<1>39. ASSUME NEW c \in Cpus, RereadyBegin(c)
      PROVE  BlockedCovered'
  BY <1>0, <1>39 DEF RereadyBegin, Goes, LockFree, listVars, BlockedCovered, Listed
<1>40. ASSUME NEW c \in Cpus, NEW t \in Threads, KeepBlocked(c, t)
      PROVE  BlockedCovered'
  BY <1>0, <1>40 DEF KeepBlocked, MayHaveResolved, Visits, listVars, loopVars,
     BlockedCovered, Listed
<1>41. ASSUME NEW c \in Cpus, NEW t \in Threads, Reready(c, t)
      PROVE  BlockedCovered'
  BY <1>0, <1>41 DEF Reready, LinkAtTurn, LinkReadyLocked, Visits, loopVars,
     BlockedCovered, Listed
<1>42. ASSUME NEW c \in Cpus, RereadyEnd(c)
      PROVE  BlockedCovered'
  <2>1. blocked' = blocked /\ linkCpu' = linkCpu
    BY <1>42 DEF RereadyEnd, listVars
  <2>2. hasBlocked' = hasBlocked \/ (hasBlocked' = hasBlocked \ {c}
          /\ RangeOf(list[Blocked(c)]) = {})
    BY <1>42 DEF RereadyEnd
  <2> QED BY <1>0, <2>1, <2>2 DEF BlockedCovered
<1>43. ASSUME NEW c \in Cpus, LoopWoken(c)
      PROVE  BlockedCovered'
  BY <1>0, <1>43 DEF LoopWoken, Goes, threadVars, listVars, waitVars, BlockedCovered,
     Listed
<1>44. ASSUME NEW c \in Cpus, NEW d \in Cpus, LoopWake(c, d)
      PROVE  BlockedCovered'
  BY <1>0, <1>44 DEF LoopWake, threadVars, loopVars, listVars, waitVars, BlockedCovered,
     Listed
<1>45. ASSUME NEW c \in Cpus, DequeueReady(c)
      PROVE  BlockedCovered'
  BY <1>0, <1>45 DEF DequeueReady, LockFree, waitVars, BlockedCovered, Listed
<1>46. ASSUME NEW c \in Cpus, DequeueNothing(c)
      PROVE  BlockedCovered'
  BY <1>0, <1>46 DEF DequeueNothing, Goes, LockFree, threadVars, listVars, waitVars,
     BlockedCovered, Listed
<1>47. ASSUME NEW c \in Cpus, Picked(c)
      PROVE  BlockedCovered'
  BY <1>0, <1>47 DEF Picked, threadVars, listVars, waitVars, BlockedCovered, Listed
<1>48. ASSUME NEW c \in Cpus, MigrateHome(c)
      PROVE  BlockedCovered'
  BY <1>0, <1>48 DEF MigrateHome, LinkAtTurn, LinkReadyLocked, LockFree, waitVars,
     BlockedCovered, Listed
<1>49. ASSUME NEW c \in Cpus, ParkSuspended(c)
      PROVE  BlockedCovered'
  BY <1>0, <1>49 DEF ParkSuspended, LockFree, MustPark, waitVars, BlockedCovered, Listed
<1>50. ASSUME NEW c \in Cpus, SwitchTo(c)
      PROVE  BlockedCovered'
  BY <1>0, <1>50 DEF SwitchTo, Goes, listVars, waitVars, BlockedCovered, Listed
<1>51. ASSUME NEW c \in Cpus, SwitchedBack(c)
      PROVE  BlockedCovered'
  BY <1>0, <1>51 DEF SwitchedBack, AfterSwitch, threadVars, listVars, waitVars,
     BlockedCovered, Listed
<1>52. ASSUME NEW c \in Cpus, ReclaimExited(c)
      PROVE  BlockedCovered'
  BY <1>0, <1>52 DEF ReclaimExited, Goes, listVars, waitVars, BlockedCovered, Listed
<1>53. ASSUME NEW c \in Cpus, IdleParks(c)
      PROVE  BlockedCovered'
  BY <1>0, <1>53 DEF IdleParks, Goes, threadVars, listVars, waitVars, BlockedCovered,
     Listed
<1>54. ASSUME NEW c \in Cpus, IdleRechecks(c)
      PROVE  BlockedCovered'
  BY <1>0, <1>54 DEF IdleRechecks, Goes, HasWork, LockFree, threadVars, listVars,
     waitVars, BlockedCovered, Listed
<1>55. ASSUME NEW c \in Cpus, SleepWoken(c)
      PROVE  BlockedCovered'
  BY <1>0, <1>55 DEF SleepWoken, WakesUp, Goes, threadVars, listVars, waitVars,
     BlockedCovered, Listed
<1>56. ASSUME ShutdownBegin
      PROVE  BlockedCovered'
  BY <1>0, <1>56 DEF ShutdownBegin, threadVars, loopVars, listVars, waitVars,
     BlockedCovered, Listed
<1>57. ASSUME NEW c \in Cpus, ShutdownNudge(c)
      PROVE  BlockedCovered'
  BY <1>0, <1>57 DEF ShutdownNudge, threadVars, loopVars, listVars, waitVars,
     BlockedCovered, Listed
<1>58. ASSUME ShutdownDrain
      PROVE  BlockedCovered'
  BY <1>0, <1>58 DEF ShutdownDrain, Listed, Leftovers, loopVars, BlockedCovered, Listed
<1>59. ASSUME NEW c \in Cpus, SelfResume(c) PROVE FALSE
  BY <1>59 DEF SelfResume, NoSelfResume
<1>60. \A s \in Starts : s[1] \in Threads /\ s[2] \in Cpus /\ s[3] \in Levels
  BY ConstantsAssumption
<1>61. CASE \E k \in Callers : CallStarts(k) \/ CallContinues(k)
  BY <1>61, <1>60, <1>1, <1>2, <1>3, <1>4, <1>5, <1>6, <1>7, <1>8, <1>9, <1>10, <1>11,
     <1>12, <1>13, <1>14, <1>15, <1>16, <1>17, <1>18, <1>19, <1>20, <1>21
     DEF CallStarts, CallContinues
<1>62. CASE \E c \in Cpus : GuestActs(c) \/ PreemptCurrentFiber(c) \/ FiberContinues(c)
  BY <1>62, <1>59, <1>22, <1>23, <1>24, <1>25, <1>26, <1>27, <1>28, <1>29, <1>30, <1>31,
     <1>32, <1>33, <1>34, <1>35
     DEF GuestActs, FiberContinues
<1>63. CASE \E c \in Cpus : Dispatches(c) \/ RepollDue(c) \/ SleepTimeout(c)
  BY <1>63, <1>36, <1>37, <1>38, <1>39, <1>40, <1>41, <1>42, <1>43, <1>44, <1>45, <1>46,
     <1>47, <1>48, <1>49, <1>50, <1>51, <1>52, <1>53, <1>54, <1>55
     DEF Dispatches, Walks
<1>64. CASE ShutdownActs
  BY <1>64, <1>56, <1>57, <1>58 DEF ShutdownActs
<1> QED BY <1>61, <1>62, <1>63, <1>64 DEF Next

(* A thread is queued, or a re-poll requested, together with a wake-up;    *)
(* and the last look before the sleep is after parked was set.             *)
LEMMA WorkIsKept ==
  ASSUME NoSelfResume, plan \in Plans, IInv, IInv', WakeInv, Next
  PROVE  NoLostWork'
<1>0. /\ NoLostWork /\ ParkedAsleep /\ WakesHeld /\ LoopType /\ ParkType /\ WakeType /\ CallType
      /\ summary \in [Cpus -> SUBSET Levels] /\ Callers \cap Cpus = {}
  BY DEF WakeInv, IInv, ListInv, TypeInv
<1>1. ASSUME NEW k \in Callers, NEW t \in Threads, NEW c \in Cpus, NEW p \in Levels,
               NEW b \in BOOLEAN, Create(k, t, c, p, b)
      PROVE  NoLostWork'
  BY <1>0, <1>1, WorkRests DEF Create, Begin, cpuVars, listVars, waitVars, loopVars,
     parkVars, WakeInFlight, ParkedAsleep, WakesHeld, LoopType, ParkType, WakeType,
     CallType
<1>2. ASSUME NEW k \in Callers, NEW t \in Threads, Resume(k, t)
      PROVE  NoLostWork'
  BY <1>0, <1>2, WorkRests DEF Resume, Begin, At, ResumesFrom, Exists, cpuVars, listVars,
     waitVars, loopVars, parkVars, WakeInFlight, ParkedAsleep, WakesHeld, LoopType,
     ParkType, WakeType, CallType
<1>3. ASSUME NEW k \in Callers, NEW t \in Threads, Suspend(k, t)
      PROVE  NoLostWork'
  BY <1>0, <1>3, WorkRests DEF Suspend, cpuVars, listVars, waitVars, loopVars, parkVars,
     WakeInFlight, ParkedAsleep, WakesHeld, LoopType, ParkType, WakeType, CallType
<1>4. ASSUME NEW k \in Callers, NEW t \in Threads, Terminate(k, t)
      PROVE  NoLostWork'
  BY <1>0, <1>4, WorkRests DEF Terminate, Begin, At, cpuVars, listVars, loopVars,
     parkVars, WakeInFlight, ParkedAsleep, WakesHeld, LoopType, ParkType, WakeType,
     CallType
<1>5. ASSUME NEW k \in Callers, NEW t \in Threads, NEW c \in Cpus, SetActiveCpu(k, t, c)
      PROVE  NoLostWork'
  BY <1>0, <1>5, WorkRests DEF SetActiveCpu, Begin, At, cpuVars, listVars, waitVars,
     loopVars, parkVars, WakeInFlight, ParkedAsleep, WakesHeld, LoopType, ParkType,
     WakeType, CallType
<1>6. ASSUME NEW k \in Callers, NEW t \in Threads, NEW p \in Levels, PublishPriority(k, t, p)
      PROVE  NoLostWork'
  BY <1>0, <1>6, WorkRests DEF PublishPriority, Begin, At, cpuVars, listVars, waitVars,
     loopVars, parkVars, WakeInFlight, ParkedAsleep, WakesHeld, LoopType, ParkType,
     WakeType, CallType
<1>7. ASSUME NEW k \in Callers, NEW o \in Objects, Signal(k, o)
      PROVE  NoLostWork'
  BY <1>0, <1>7, WorkRests DEF Signal, Begin, At, cpuVars, listVars, loopVars, parkVars,
     WakeInFlight, ParkedAsleep, WakesHeld, LoopType, ParkType, WakeType, CallType
<1>8. ASSUME NEW k \in Callers, BeginWakeAll(k)
      PROVE  NoLostWork'
  BY <1>0, <1>8, WorkRests DEF BeginWakeAll, Begin, At, threadVars, cpuVars, loopVars,
     listVars, waitVars, parkVars, WakeInFlight, ParkedAsleep, WakesHeld, LoopType,
     ParkType, WakeType, CallType
<1>9. ASSUME NEW k \in Callers, NEW C \in SUBSET BackgroundCpus, EnterBackgroundMode(k, C)
      PROVE  NoLostWork'
  BY <1>0, <1>9, WorkRests DEF EnterBackgroundMode, threadVars, parkVars, loopVars,
     listVars, waitVars, WakeInFlight, ParkedAsleep, WakesHeld, LoopType, ParkType,
     WakeType, CallType
<1>10. ASSUME NEW k \in Callers, ResumeThread(k)
      PROVE  NoLostWork'
  BY <1>0, <1>10, WorkRests DEF ResumeThread, Begin, At, LockFree, cpuVars, waitVars,
     loopVars, parkVars, WakeInFlight, ParkedAsleep, WakesHeld, LoopType, ParkType,
     WakeType, CallType
<1>11. ASSUME NEW k \in Callers, MarkReady(k)
      PROVE  NoLostWork'
  BY <1>0, <1>11, WorkRests DEF MarkReady, Begin, At, Return, threadVars, cpuVars,
     loopVars, listVars, waitVars, parkVars, WakeInFlight, ParkedAsleep, WakesHeld,
     LoopType, ParkType, WakeType, CallType
<1>12. ASSUME NEW k \in Callers, EnqueueReady(k)
      PROVE  NoLostWork'
  <2>1. loop' = loop /\ UNCHANGED <<repollNow, readyEvent>> /\ call[k].pc # "wake"
    BY <1>12 DEF EnqueueReady, At, loopVars, waitVars, cpuVars, parkVars
  <2>2. CASE Return(k) /\ summary' = summary
    BY <1>0, <2>1, <2>2, WorkRests DEF Return, WakeInFlight
  <2>3. CASE LinkAtTurn(call[k].cpu, call[k].t, list, summary)
               /\ WakeAndReturn(k, {call[k].cpu})
    <3>1. \A c \in Cpus : c # call[k].cpu => summary'[c] = summary[c]
      BY <1>0, <2>3 DEF LinkAtTurn, LinkReadyLocked
    <3>2. \A c \in Cpus : (WakeInFlight(c) \/ c = call[k].cpu) => WakeInFlight(c)'
      BY <1>0, <2>1, <2>3, WakesAdd DEF WakeAndReturn
    <3> QED BY <1>0, <2>1, <3>1, <3>2, WorkRests
  <2> QED BY <1>12, <2>2, <2>3 DEF EnqueueReady
<1>13. ASSUME NEW k \in Callers, TerminateThread(k)
      PROVE  NoLostWork'
  <2> DEFINE u == call[k].t
  <2>1. /\ UNCHANGED <<loop, repollNow, readyEvent>> /\ call[k].pc # "wake"
        /\ \A c \in Cpus : summary'[c] \subseteq summary[c] \/ wake'[k] = {c}
    BY <1>13, TerminateDoes DEF cpuVars, parkVars, loopVars
  <2>2. wake' = wake \/ \E W : wake' = [wake EXCEPT ![k] = W]
    BY <1>13 DEF TerminateThread, TerminateStopped, TerminateRunning, TerminateParked,
       TerminateUnlisted, Return, WakeAndReturn
  <2>3. \A c \in Cpus : WakeInFlight(c) => WakeInFlight(c)'
    BY <1>0, <2>1, <2>2, WakesAdd
  <2> QED BY <1>0, <2>1, <2>3, WorkRests DEF WakeInFlight
<1>14. ASSUME NEW k \in Callers, ReclaimTerminated(k)
      PROVE  NoLostWork'
  BY <1>0, <1>14, WorkRests DEF ReclaimTerminated, At, Return, cpuVars, listVars,
     waitVars, loopVars, parkVars, WakeInFlight, ParkedAsleep, WakesHeld, LoopType,
     ParkType, WakeType, CallType
<1>15. ASSUME NEW k \in Callers, MigrateForAffinity(k)
      PROVE  NoLostWork'
  <2> DEFINE u == currentCpu[call[k].t]
  <2>1. /\ UNCHANGED <<loop, repollNow, readyEvent>> /\ call[k].pc # "wake"
    BY <1>15, MigrateDoes DEF parkVars, loopVars, waitVars
  <2>2. CASE Return(k) /\ summary' = summary
    BY <1>0, <2>1, <2>2, WorkRests DEF Return, WakeInFlight
  <2>3. CASE WakeAndReturn(k, {u}) /\ \A c \in Cpus \ {u} : summary'[c] \subseteq summary[c]
    <3>1. \A c \in Cpus : (WakeInFlight(c) \/ c = u) => WakeInFlight(c)'
      BY <1>0, <2>1, <2>3, WakesAdd DEF WakeAndReturn
    <3> QED BY <1>0, <2>1, <2>3, <3>1, WorkRests
  <2> QED BY <1>15, <2>2, <2>3, MigrateDoes
<1>16. ASSUME NEW k \in Callers, RequeueForPriority(k)
      PROVE  NoLostWork'
  <2>1. /\ UNCHANGED <<loop, repollNow, readyEvent, wake>> /\ \A c \in Cpus : summary'[c] # {}
             => summary[c] # {}
    BY <1>16, RequeueDoes DEF cpuVars, parkVars, loopVars, waitVars, Return
  <2> QED BY <1>0, <2>1, WorkRests DEF WakeInFlight
<1>17. ASSUME NEW k \in Callers, SignalCheck(k)
      PROVE  NoLostWork'
  BY <1>0, <1>17, WorkRests DEF SignalCheck, AnyBlocked, At, Begin, Return, threadVars,
     cpuVars, loopVars, listVars, waitVars, parkVars, WakeInFlight, ParkedAsleep,
     WakesHeld, LoopType, ParkType, WakeType, CallType
<1>18. ASSUME NEW k \in Callers, WakeForSignal(k)
      PROVE  NoLostWork'
  BY <1>0, <1>18, WorkRests DEF WakeForSignal, At, LockFree, WakeAndReturn, cpuVars,
     listVars, loopVars, parkVars, WakeInFlight, ParkedAsleep, WakesHeld, LoopType,
     ParkType, WakeType, CallType
<1>19. ASSUME NEW k \in Callers, WakeAllCheck(k)
      PROVE  NoLostWork'
  BY <1>0, <1>19, WorkRests DEF WakeAllCheck, AnyBlocked, At, Begin, Return, threadVars,
     cpuVars, loopVars, listVars, waitVars, parkVars, WakeInFlight, ParkedAsleep,
     WakesHeld, LoopType, ParkType, WakeType, CallType
<1>20. ASSUME NEW k \in Callers, WakeAll(k)
      PROVE  NoLostWork'
  <2>1. /\ UNCHANGED <<loop, summary, readyEvent>> /\ call[k].pc # "wake"
        /\ wake' = [wake EXCEPT ![k] = hasBlocked]
        /\ \A c \in Cpus : c \in repollNow' => c \in repollNow \/ list[Blocked(c)] # <<>>
    BY <1>20 DEF WakeAll, At, WakeAndReturn, listVars, cpuVars, parkVars, loopVars
  <2>2. ASSUME NEW c \in Cpus, list[Blocked(c)] # <<>>
        PROVE  c \in hasBlocked
    <3>1. list[Blocked(c)] \in Seq(Threads)
      BY ListsDiffer DEF IInv, ListInv, Levels, ListIds
    <3>2. list[Blocked(c)][1] \in Threads /\ list[Blocked(c)][1] \in RangeOf(list[Blocked(c)])
      BY <2>2, <3>1 DEF RangeOf
    <3> QED BY <3>2, BlockedAreListed DEF WakeInv, BlockedCovered
  <2>3. \A c \in Cpus : (WakeInFlight(c) \/ c \in hasBlocked) => WakeInFlight(c)'
    BY <1>0, <2>1, WakesAdd
  <2> QED BY <1>0, <2>1, <2>2, <2>3, WorkRests
<1>21. ASSUME NEW k \in Callers, NEW c \in Cpus, Wake(k, c)
      PROVE  NoLostWork'
  BY <1>0, <1>21, WorkRests DEF Wake, At, WakeAndReturn, SetReadyEvent, threadVars,
     loopVars, listVars, waitVars, WakeInFlight, ParkedAsleep, WakesHeld, LoopType,
     ParkType, WakeType, CallType
<1>22. ASSUME NEW c \in Cpus, Yield(c)
      PROVE  NoLostWork'
  BY <1>0, <1>22, WorkRests DEF Yield, YieldCurrentThread, YieldLeavesAlone,
     ExitIfTerminated, YieldToScheduler, LinkAtTurn, LinkReadyLocked, OnCpu, LeftAlone,
     listVars, parkVars, WakeInFlight, ParkedAsleep, WakesHeld, LoopType, ParkType,
     WakeType, CallType
<1>23. ASSUME NEW c \in Cpus, SelfSuspend(c)
      PROVE  NoLostWork'
  BY <1>0, <1>23, WorkRests DEF SelfSuspend, YieldCurrentThread, YieldLeavesAlone,
     ExitIfTerminated, YieldToScheduler, LinkAtTurn, LinkReadyLocked, OnCpu, LeftAlone,
     listVars, parkVars, WakeInFlight, ParkedAsleep, WakesHeld, LoopType, ParkType,
     WakeType, CallType
<1>24. ASSUME NEW c \in Cpus, NEW S \in SUBSET Objects, SampleEpoch(c, S)
      PROVE  NoLostWork'
  BY <1>0, <1>24, WorkRests DEF SampleEpoch, OnCpu, StaysOnCpu, cpuVars, listVars,
     loopVars, parkVars, WakeInFlight, ParkedAsleep, WakesHeld, LoopType, ParkType,
     WakeType, CallType
<1>25. ASSUME NEW c \in Cpus, Delay(c)
      PROVE  NoLostWork'
  BY <1>0, <1>25, WorkRests DEF Delay, BlockCurrentThread, ParkBlocked, ExitIfTerminated,
     BlockLeavesAlone, OnCpu, YieldToScheduler, PokeIfMoved, LockFree, parkVars,
     WakeInFlight, ParkedAsleep, WakesHeld, LoopType, ParkType, WakeType, CallType
<1>26. ASSUME NEW c \in Cpus, BlockUngated(c)
      PROVE  NoLostWork'
  BY <1>0, <1>26, WorkRests DEF BlockUngated, BlockCurrentThread, ParkBlocked,
     ExitIfTerminated, BlockLeavesAlone, OnCpu, YieldToScheduler, PokeIfMoved, LockFree,
     parkVars, WakeInFlight, ParkedAsleep, WakesHeld, LoopType, ParkType, WakeType,
     CallType
<1>27. ASSUME NEW c \in Cpus, WaitOnFence(c)
      PROVE  NoLostWork'
  BY <1>0, <1>27, WorkRests DEF WaitOnFence, ParkBlocked, BlockLeavesAlone, OnCpu,
     YieldToScheduler, PokeIfMoved, LockFree, parkVars, WakeInFlight, ParkedAsleep,
     WakesHeld, LoopType, ParkType, WakeType, CallType
<1>28. ASSUME NEW c \in Cpus, ExitBegin(c)
      PROVE  NoLostWork'
  BY <1>0, <1>28, WorkRests DEF ExitBegin, OnCpu, StaysOnCpu, cpuVars, listVars, waitVars,
     loopVars, parkVars, WakeInFlight, ParkedAsleep, WakesHeld, LoopType, ParkType,
     WakeType, CallType
<1>29. ASSUME NEW c \in Cpus, ExitYield(c)
      PROVE  NoLostWork'
  BY <1>0, <1>29, WorkRests DEF ExitYield, YieldCurrentThread, YieldLeavesAlone,
     ExitIfTerminated, YieldToScheduler, LinkAtTurn, LinkReadyLocked, OnCpu, LeftAlone,
     listVars, parkVars, WakeInFlight, ParkedAsleep, WakesHeld, LoopType, ParkType,
     WakeType, CallType
<1>30. ASSUME NEW c \in Cpus, Crash(c)
      PROVE  NoLostWork'
  <2>1. UNCHANGED <<wake, readyEvent, repollNow>> /\ loop' = [loop EXCEPT ![c] = "back"]
    BY <1>30 DEF Crash, parkVars, YieldToScheduler
  <2>2. summary' = summary \/ \E q : summary' = ClearedSummary(linkCpu[next[c]], q,
          WithoutReady(next[c]))
    BY <1>30 DEF Crash, Detach
  <2>3. \A d \in Cpus : summary'[d] \subseteq summary[d]
    <3>1. ASSUME NEW a, NEW q, NEW L, NEW d \in Cpus
          PROVE  ClearedSummary(a, q, L)[d] \subseteq summary[d]
      <4>1. ClearedSummary(a, q, L)[d] \in {summary[d], summary[d] \ {q}}
        BY <1>0 DEF ClearedSummary
      <4> QED BY <4>1
    <3>2. CASE summary' = summary
      BY <3>2
    <3> QED BY <2>2, <3>1, <3>2
  <2> QED BY <1>0, <2>1, <2>3, WorkRests DEF LoopType, WakeInFlight
<1>31. ASSUME NEW c \in Cpus, PreemptCurrentFiber(c)
      PROVE  NoLostWork'
  BY <1>0, <1>31, WorkRests DEF PreemptCurrentFiber, YieldCurrentThread, YieldLeavesAlone,
     ExitIfTerminated, YieldToScheduler, LinkAtTurn, LinkReadyLocked, OnCpu, LeftAlone,
     listVars, parkVars, WakeInFlight, ParkedAsleep, WakesHeld, LoopType, ParkType,
     WakeType, CallType
<1>32. ASSUME NEW c \in Cpus, FiberResume(c)
      PROVE  NoLostWork'
  BY <1>0, <1>32, WorkRests DEF FiberResume, OnCpu, ExitIfTerminated, YieldToScheduler,
     listVars, parkVars, WakeInFlight, ParkedAsleep, WakesHeld, LoopType, ParkType,
     WakeType, CallType
<1>33. ASSUME NEW c \in Cpus, PollSatisfied(c)
      PROVE  NoLostWork'
  BY <1>0, <1>33, WorkRests DEF PollSatisfied, OnCpu, StaysOnCpu, cpuVars, listVars,
     loopVars, parkVars, WakeInFlight, ParkedAsleep, WakesHeld, LoopType, ParkType,
     WakeType, CallType
<1>34. ASSUME NEW c \in Cpus, BlockOnObjects(c)
      PROVE  NoLostWork'
  BY <1>0, <1>34, WorkRests DEF BlockOnObjects, BlockCurrentThread, ParkBlocked,
     ExitIfTerminated, BlockLeavesAlone, OnCpu, YieldToScheduler, PokeIfMoved, LockFree,
     parkVars, WakeInFlight, ParkedAsleep, WakesHeld, LoopType, ParkType, WakeType,
     CallType
<1>35. ASSUME NEW c \in Cpus, ExitEnd(c)
      PROVE  NoLostWork'
  BY <1>0, <1>35, WorkRests DEF ExitEnd, OnCpu, YieldToScheduler, threadVars, parkVars,
     listVars, waitVars, WakeInFlight, ParkedAsleep, WakesHeld, LoopType, ParkType,
     WakeType, CallType
<1>36. ASSUME NEW c \in Cpus, Top(c)
      PROVE  NoLostWork'
  BY <1>0, <1>36, WorkRests DEF Top, Goes, cpuVars, listVars, parkVars, WakeInFlight,
     ParkedAsleep, WakesHeld, LoopType, ParkType, WakeType, CallType
<1>37. ASSUME NEW c \in Cpus, RepollDue(c)
      PROVE  NoLostWork'
  BY <1>0, <1>37, WorkRests DEF RepollDue, Goes, threadVars, cpuVars, listVars, waitVars,
     parkVars, WakeInFlight, ParkedAsleep, WakesHeld, LoopType, ParkType, WakeType,
     CallType
<1>38. ASSUME NEW c \in Cpus, SleepTimeout(c)
      PROVE  NoLostWork'
  BY <1>0, <1>38, WorkRests DEF SleepTimeout, WakesUp, Goes, threadVars, listVars,
     waitVars, WakeInFlight, ParkedAsleep, WakesHeld, LoopType, ParkType, WakeType,
     CallType
<1>39. ASSUME NEW c \in Cpus, RereadyBegin(c)
      PROVE  NoLostWork'
  BY <1>0, <1>39, WorkRests DEF RereadyBegin, Goes, LockFree, cpuVars, listVars, parkVars,
     WakeInFlight, ParkedAsleep, WakesHeld, LoopType, ParkType, WakeType, CallType
<1>40. ASSUME NEW c \in Cpus, NEW t \in Threads, KeepBlocked(c, t)
      PROVE  NoLostWork'
  BY <1>0, <1>40, WorkRests DEF KeepBlocked, MayHaveResolved, Visits, cpuVars, listVars,
     loopVars, parkVars, WakeInFlight, ParkedAsleep, WakesHeld, LoopType, ParkType,
     WakeType, CallType
<1>41. ASSUME NEW c \in Cpus, NEW t \in Threads, Reready(c, t)
      PROVE  NoLostWork'
  BY <1>0, <1>41, WorkRests DEF Reready, LinkAtTurn, LinkReadyLocked, Visits, cpuVars,
     loopVars, parkVars, WakeInFlight, ParkedAsleep, WakesHeld, LoopType, ParkType,
     WakeType, CallType
<1>42. ASSUME NEW c \in Cpus, RereadyEnd(c)
      PROVE  NoLostWork'
  BY <1>0, <1>42, WorkRests DEF RereadyEnd, Goes, cpuVars, listVars, parkVars,
     WakeInFlight, ParkedAsleep, WakesHeld, LoopType, ParkType, WakeType, CallType
<1>43. ASSUME NEW c \in Cpus, LoopWoken(c)
      PROVE  NoLostWork'
  BY <1>0, <1>43, WorkRests DEF LoopWoken, Goes, threadVars, cpuVars, listVars, waitVars,
     parkVars, WakeInFlight, ParkedAsleep, WakesHeld, LoopType, ParkType, WakeType,
     CallType
<1>44. ASSUME NEW c \in Cpus, NEW d \in Cpus, LoopWake(c, d)
      PROVE  NoLostWork'
  BY <1>0, <1>44, WorkRests DEF LoopWake, SetReadyEvent, threadVars, loopVars, listVars,
     waitVars, WakeInFlight, ParkedAsleep, WakesHeld, LoopType, ParkType, WakeType,
     CallType
<1>45. ASSUME NEW c \in Cpus, DequeueReady(c)
      PROVE  NoLostWork'
  <2>1. UNCHANGED <<wake, readyEvent, repollNow>> /\ loop' = [loop EXCEPT ![c] = "picked"]
    BY <1>45 DEF DequeueReady, parkVars, waitVars
  <2>2. \E t : summary' = ClearedSummary(c, queuedPrio[t], WithoutReady(t))
    BY <1>45 DEF DequeueReady
  <2>3. \A d \in Cpus : summary'[d] \subseteq summary[d]
    BY <1>0, <2>2 DEF ClearedSummary
  <2> QED BY <1>0, <2>1, <2>3, WorkRests DEF LoopType, WakeInFlight
<1>46. ASSUME NEW c \in Cpus, DequeueNothing(c)
      PROVE  NoLostWork'
  BY <1>0, <1>46, WorkRests DEF DequeueNothing, Goes, LockFree, threadVars, cpuVars,
     listVars, waitVars, parkVars, WakeInFlight, ParkedAsleep, WakesHeld, LoopType,
     ParkType, WakeType, CallType
<1>47. ASSUME NEW c \in Cpus, Picked(c)
      PROVE  NoLostWork'
  BY <1>0, <1>47, WorkRests DEF Picked, threadVars, cpuVars, listVars, waitVars, parkVars,
     WakeInFlight, ParkedAsleep, WakesHeld, LoopType, ParkType, WakeType, CallType
<1>48. ASSUME NEW c \in Cpus, MigrateHome(c)
      PROVE  NoLostWork'
  BY <1>0, <1>48, WorkRests DEF MigrateHome, LinkAtTurn, LinkReadyLocked, LockFree,
     waitVars, parkVars, WakeInFlight, ParkedAsleep, WakesHeld, LoopType, ParkType,
     WakeType, CallType
<1>49. ASSUME NEW c \in Cpus, ParkSuspended(c)
      PROVE  NoLostWork'
  BY <1>0, <1>49, WorkRests DEF ParkSuspended, LockFree, MustPark, waitVars, parkVars,
     WakeInFlight, ParkedAsleep, WakesHeld, LoopType, ParkType, WakeType, CallType
<1>50. ASSUME NEW c \in Cpus, SwitchTo(c)
      PROVE  NoLostWork'
  BY <1>0, <1>50, WorkRests DEF SwitchTo, Goes, listVars, waitVars, parkVars,
     WakeInFlight, ParkedAsleep, WakesHeld, LoopType, ParkType, WakeType, CallType
<1>51. ASSUME NEW c \in Cpus, SwitchedBack(c)
      PROVE  NoLostWork'
  BY <1>0, <1>51, WorkRests DEF SwitchedBack, AfterSwitch, threadVars, parkVars, listVars,
     waitVars, WakeInFlight, ParkedAsleep, WakesHeld, LoopType, ParkType, WakeType,
     CallType
<1>52. ASSUME NEW c \in Cpus, ReclaimExited(c)
      PROVE  NoLostWork'
  BY <1>0, <1>52, WorkRests DEF ReclaimExited, Goes, listVars, waitVars, parkVars,
     WakeInFlight, ParkedAsleep, WakesHeld, LoopType, ParkType, WakeType, CallType
<1>53. ASSUME NEW c \in Cpus, IdleParks(c)
      PROVE  NoLostWork'
  BY <1>0, <1>53, WorkRests DEF IdleParks, Goes, threadVars, listVars, waitVars,
     WakeInFlight, ParkedAsleep, WakesHeld, LoopType, ParkType, WakeType, CallType
<1>54. ASSUME NEW c \in Cpus, IdleRechecks(c)
      PROVE  NoLostWork'
  <2>1. UNCHANGED <<wake, readyEvent, repollNow, summary>>
    BY <1>54 DEF IdleRechecks, threadVars, listVars, waitVars
  <2>2. CASE HasWork(c) /\ loop' = [loop EXCEPT ![c] = "top"]
    BY <1>0, <2>1, <2>2, WorkRests DEF LoopType, WakeInFlight
  <2>3. CASE ~HasWork(c) /\ loop' = [loop EXCEPT ![c] = "sleep"]
    BY <1>0, <2>1, <2>3 DEF LoopType, WakeInFlight, HasWork, NoLostWork
  <2> QED BY <1>54, <2>2, <2>3 DEF IdleRechecks, Goes
<1>55. ASSUME NEW c \in Cpus, SleepWoken(c)
      PROVE  NoLostWork'
  BY <1>0, <1>55, WorkRests DEF SleepWoken, WakesUp, Goes, threadVars, listVars, waitVars,
     WakeInFlight, ParkedAsleep, WakesHeld, LoopType, ParkType, WakeType, CallType
<1>56. ASSUME ShutdownBegin
      PROVE  NoLostWork'
  BY <1>0, <1>56, WorkRests DEF ShutdownBegin, threadVars, cpuVars, loopVars, listVars,
     waitVars, parkVars, WakeInFlight, ParkedAsleep, WakesHeld, LoopType, ParkType,
     WakeType, CallType
<1>57. ASSUME NEW c \in Cpus, ShutdownNudge(c)
      PROVE  NoLostWork'
  BY <1>0, <1>57, WorkRests DEF ShutdownNudge, threadVars, loopVars, listVars, waitVars,
     WakeInFlight, ParkedAsleep, WakesHeld, LoopType, ParkType, WakeType, CallType
<1>58. ASSUME ShutdownDrain
      PROVE  NoLostWork'
  BY <1>0, <1>58, WorkRests DEF ShutdownDrain, Listed, Leftovers, parkVars, loopVars,
     WakeInFlight, ParkedAsleep, WakesHeld, LoopType, ParkType, WakeType, CallType
<1>59. ASSUME NEW c \in Cpus, SelfResume(c) PROVE FALSE
  BY <1>59 DEF SelfResume, NoSelfResume
<1>60. \A s \in Starts : s[1] \in Threads /\ s[2] \in Cpus /\ s[3] \in Levels
  BY ConstantsAssumption
<1>61. CASE \E k \in Callers : CallStarts(k) \/ CallContinues(k)
  BY <1>61, <1>60, <1>1, <1>2, <1>3, <1>4, <1>5, <1>6, <1>7, <1>8, <1>9, <1>10, <1>11,
     <1>12, <1>13, <1>14, <1>15, <1>16, <1>17, <1>18, <1>19, <1>20, <1>21
     DEF CallStarts, CallContinues
<1>62. CASE \E c \in Cpus : GuestActs(c) \/ PreemptCurrentFiber(c) \/ FiberContinues(c)
  BY <1>62, <1>59, <1>22, <1>23, <1>24, <1>25, <1>26, <1>27, <1>28, <1>29, <1>30, <1>31,
     <1>32, <1>33, <1>34, <1>35
     DEF GuestActs, FiberContinues
<1>63. CASE \E c \in Cpus : Dispatches(c) \/ RepollDue(c) \/ SleepTimeout(c)
  BY <1>63, <1>36, <1>37, <1>38, <1>39, <1>40, <1>41, <1>42, <1>43, <1>44, <1>45, <1>46,
     <1>47, <1>48, <1>49, <1>50, <1>51, <1>52, <1>53, <1>54, <1>55
     DEF Dispatches, Walks
<1>64. CASE ShutdownActs
  BY <1>64, <1>56, <1>57, <1>58 DEF ShutdownActs
<1> QED BY <1>61, <1>62, <1>63, <1>64 DEF Next

(* A signal that moves the epoch of a blocked waiter requests a re-poll of *)
(* its CPU; one that comes before the park is noticed by                   *)
(* BlockCurrentThread.                                                     *)
LEMMA SignalIsKept ==
  ASSUME NoSelfResume, plan \in Plans, IInv, IInv', WakeInv, Next
  PROVE  NoLostSignal'
<1>0. /\ NoLostSignal /\ blocked \subseteq Threads /\ queued \cap blocked = {}
           /\ linkCpu \in [Threads -> Cpus \cup {None}]
      /\ WaitType /\ LoopType /\ CallType /\ \A t \in blocked : linkCpu[t] \in Cpus
           /\ linkCpu[t] \in hasBlocked
      /\ \A t \in Threads, c \in Cpus : t \in RangeOf(list[Blocked(c)]) <=> t \in blocked
           /\ linkCpu[t] = c
      /\ \A c \in Cpus : loop[c] \in {"picked", "settled", "migrate", "fiber"}
           => next[c] \in Threads /\ next[c] \notin Listed
  BY BlockedAreListed, NextIsUnlisted DEF WakeInv, BlockedCovered, IInv, ListInv,
     InOnePlace, TypeInv, Listed
<1>1. ASSUME NEW k \in Callers, NEW t \in Threads, NEW c \in Cpus, NEW p \in Levels,
               NEW b \in BOOLEAN, Create(k, t, c, p, b)
      PROVE  NoLostSignal'
  <2>1. UNCHANGED <<blocked, linkCpu, gated, waitSet, epochMoved, repollNow, toPoll, loop>>
          /\ call[k].pc = "idle" /\ \A j \in Callers : j # k => call'[j] = call[j]
    BY <1>0, <1>1 DEF Create, At, Begin, CallType, listVars, waitVars, loopVars
  <2> QED BY <1>0, <2>1 DEF NoLostSignal, SignalInFlight
<1>2. ASSUME NEW k \in Callers, NEW t \in Threads, Resume(k, t)
      PROVE  NoLostSignal'
  BY <1>0, <1>2 DEF Resume, Begin, At, ResumesFrom, Exists, listVars, waitVars, loopVars,
     NoLostSignal, SignalInFlight, Listed, WaitType, LoopType, CallType
<1>3. ASSUME NEW k \in Callers, NEW t \in Threads, Suspend(k, t)
      PROVE  NoLostSignal'
  BY <1>0, <1>3 DEF Suspend, listVars, waitVars, loopVars, NoLostSignal, SignalInFlight,
     Listed, WaitType, LoopType, CallType
<1>4. ASSUME NEW k \in Callers, NEW t \in Threads, Terminate(k, t)
      PROVE  NoLostSignal'
  BY <1>0, <1>4 DEF Terminate, Begin, At, LeaveWait, listVars, loopVars, NoLostSignal,
     SignalInFlight, Listed, WaitType, LoopType, CallType
<1>5. ASSUME NEW k \in Callers, NEW t \in Threads, NEW c \in Cpus, SetActiveCpu(k, t, c)
      PROVE  NoLostSignal'
  BY <1>0, <1>5 DEF SetActiveCpu, Begin, At, listVars, waitVars, loopVars, NoLostSignal,
     SignalInFlight, Listed, WaitType, LoopType, CallType
<1>6. ASSUME NEW k \in Callers, NEW t \in Threads, NEW p \in Levels, PublishPriority(k, t, p)
      PROVE  NoLostSignal'
  BY <1>0, <1>6 DEF PublishPriority, Begin, At, listVars, waitVars, loopVars,
     NoLostSignal, SignalInFlight, Listed, WaitType, LoopType, CallType
<1>7. ASSUME NEW k \in Callers, NEW o \in Objects, Signal(k, o)
      PROVE  NoLostSignal'
  <2>1. UNCHANGED <<blocked, linkCpu, gated, waitSet, repollNow, toPoll, loop>>
          /\ epochMoved' = epochMoved \cup Watchers(o)
        /\ call[k].pc = "idle" /\ (\A j \in Callers : j # k => call'[j] = call[j])
        /\ call'[k].pc = "signalCheck" /\ call'[k].t = o
    BY <1>0, <1>7 DEF Signal, At, Begin, CallType, listVars, loopVars
  <2> QED BY <1>0, <2>1 DEF NoLostSignal, SignalInFlight, Watchers
<1>8. ASSUME NEW k \in Callers, BeginWakeAll(k)
      PROVE  NoLostSignal'
  BY <1>0, <1>8 DEF BeginWakeAll, Begin, At, threadVars, loopVars, listVars, waitVars,
     NoLostSignal, SignalInFlight, Listed, WaitType, LoopType, CallType
<1>9. ASSUME NEW k \in Callers, NEW C \in SUBSET BackgroundCpus, EnterBackgroundMode(k, C)
      PROVE  NoLostSignal'
  BY <1>0, <1>9 DEF EnterBackgroundMode, threadVars, loopVars, listVars, waitVars,
     NoLostSignal, SignalInFlight, Listed, WaitType, LoopType, CallType
<1>10. ASSUME NEW k \in Callers, ResumeThread(k)
      PROVE  NoLostSignal'
  BY <1>0, <1>10 DEF ResumeThread, Begin, At, LockFree, waitVars, loopVars, NoLostSignal,
     SignalInFlight, Listed, WaitType, LoopType, CallType
<1>11. ASSUME NEW k \in Callers, MarkReady(k)
      PROVE  NoLostSignal'
  BY <1>0, <1>11 DEF MarkReady, Begin, At, Return, threadVars, loopVars, listVars,
     waitVars, NoLostSignal, SignalInFlight, Listed, WaitType, LoopType, CallType, Idle
<1>12. ASSUME NEW k \in Callers, EnqueueReady(k)
      PROVE  NoLostSignal'
  <2>1. UNCHANGED <<blocked, gated, waitSet, epochMoved, repollNow, toPoll, loop>>
          /\ call[k].pc = "enqueue"
    BY <1>12 DEF EnqueueReady, At, waitVars, loopVars
  <2>2. \A j \in Callers : j # k => call'[j] = call[j]
    BY <1>0, <1>12 DEF EnqueueReady, Return, WakeAndReturn, CallType
  <2>3. \A t \in blocked : linkCpu'[t] = linkCpu[t]
    BY <1>0, <1>12 DEF EnqueueReady, LeftAlone, LinkAtTurn, LinkReadyLocked
  <2> QED BY <1>0, <2>1, <2>2, <2>3 DEF NoLostSignal, SignalInFlight
<1>13. ASSUME NEW k \in Callers, TerminateThread(k)
      PROVE  NoLostSignal'
  <2> DEFINE u == call[k].t
  <2>1. /\ blocked' \subseteq blocked /\ linkCpu' = linkCpu /\ gated' = gated \ {u}
             /\ call[k].pc = "terminate"
        /\ UNCHANGED <<waitSet, epochMoved, repollNow, toPoll, loop>>
             /\ \A j \in Callers : j # k => call'[j] = call[j]
    BY <1>13, TerminateDoes DEF loopVars
  <2> QED BY <1>0, <2>1 DEF NoLostSignal, SignalInFlight
<1>14. ASSUME NEW k \in Callers, ReclaimTerminated(k)
      PROVE  NoLostSignal'
  BY <1>0, <1>14 DEF ReclaimTerminated, At, Return, listVars, waitVars, loopVars,
     NoLostSignal, SignalInFlight, Listed, WaitType, LoopType, CallType, Idle
<1>15. ASSUME NEW k \in Callers, MigrateForAffinity(k)
      PROVE  NoLostSignal'
  <2> DEFINE u == call[k].t
  <2>1. /\ blocked' = blocked /\ (linkCpu' = linkCpu
             \/ (u \in queued /\ linkCpu' = [linkCpu EXCEPT ![u] = currentCpu[u]]))
                  /\ call[k].pc = "migrate"
        /\ UNCHANGED <<waitSet, gated, epochMoved, repollNow, toPoll, loop>>
    BY <1>15, MigrateDoes DEF loopVars, waitVars
  <2>2. \A j \in Callers : j # k => call'[j] = call[j]
    BY <1>0, <1>15 DEF MigrateForAffinity, Return, WakeAndReturn, CallType
  <2> QED BY <1>0, <2>1, <2>2 DEF NoLostSignal, SignalInFlight
<1>16. ASSUME NEW k \in Callers, RequeueForPriority(k)
      PROVE  NoLostSignal'
  <2>1. /\ blocked' = blocked /\ (\A t \in blocked : linkCpu'[t] = linkCpu[t])
             /\ call[k].pc = "requeue"
        /\ UNCHANGED <<waitSet, gated, epochMoved, repollNow, toPoll, loop>>
    BY <1>16, RequeueDoes DEF loopVars, waitVars
  <2>2. \A j \in Callers : j # k => call'[j] = call[j]
    BY <1>0, <1>16 DEF RequeueForPriority, Return, CallType
  <2> QED BY <1>0, <2>1, <2>2 DEF NoLostSignal, SignalInFlight
<1>17. ASSUME NEW k \in Callers, SignalCheck(k)
      PROVE  NoLostSignal'
  <2>1. UNCHANGED <<blocked, linkCpu, gated, waitSet, epochMoved, repollNow, toPoll, loop>>
          /\ call[k].pc = "signalCheck"
    BY <1>17 DEF SignalCheck, AnyBlocked, At, threadVars, listVars, waitVars, loopVars
  <2>2. CASE hasBlocked = {}
    BY <1>0, <2>1, <2>2 DEF NoLostSignal
  <2>3. CASE hasBlocked # {}
    <3>1. (\A j \in Callers : j # k => call'[j] = call[j]) /\ call'[k].pc = "signalWalk"
            /\ call'[k].t = call[k].t
      BY <1>0, <1>17, <2>3 DEF SignalCheck, AnyBlocked, Begin, CallType
    <3> QED BY <1>0, <2>1, <3>1 DEF NoLostSignal, SignalInFlight
  <2> QED BY <2>2, <2>3
<1>18. ASSUME NEW k \in Callers, WakeForSignal(k)
      PROVE  NoLostSignal'
  <2>1. UNCHANGED <<blocked, linkCpu, gated, waitSet, epochMoved, toPoll, loop>>
          /\ call[k].pc = "signalWalk"
        /\ repollNow' = repollNow \cup {c \in Cpus : RangeOf(list[Blocked(c)]) \cap Watchers(call[k].t) # {}}
    BY <1>18 DEF WakeForSignal, At, listVars, loopVars
  <2>2. \A j \in Callers : j # k => call'[j] = call[j]
    BY <1>0, <1>18 DEF WakeForSignal, WakeAndReturn, CallType
  <2>3. ASSUME NEW t \in blocked, call[k].t \in waitSet[t]
        PROVE  linkCpu[t] \in repollNow'
    <3>1. t \in RangeOf(list[Blocked(linkCpu[t])]) /\ t \in Watchers(call[k].t)
      BY <1>0, <2>3 DEF Watchers
    <3> QED BY <1>0, <2>1, <3>1
  <2> QED BY <1>0, <2>1, <2>2, <2>3 DEF NoLostSignal, SignalInFlight
<1>19. ASSUME NEW k \in Callers, WakeAllCheck(k)
      PROVE  NoLostSignal'
  BY <1>0, <1>19 DEF WakeAllCheck, AnyBlocked, At, Begin, Return, threadVars, loopVars,
     listVars, waitVars, NoLostSignal, SignalInFlight, Listed, WaitType, LoopType,
     CallType, Idle
<1>20. ASSUME NEW k \in Callers, WakeAll(k)
      PROVE  NoLostSignal'
  BY <1>0, <1>20 DEF WakeAll, At, LockFree, WakeAndReturn, listVars, loopVars,
     NoLostSignal, SignalInFlight, Listed, WaitType, LoopType, CallType, Idle
<1>21. ASSUME NEW k \in Callers, NEW c \in Cpus, Wake(k, c)
      PROVE  NoLostSignal'
  BY <1>0, <1>21 DEF Wake, At, WakeAndReturn, threadVars, loopVars, listVars, waitVars,
     NoLostSignal, SignalInFlight, Listed, WaitType, LoopType, CallType, Idle
<1>22. ASSUME NEW c \in Cpus, Yield(c)
      PROVE  NoLostSignal'
  BY <1>0, <1>22 DEF Yield, YieldCurrentThread, YieldLeavesAlone, ExitIfTerminated,
     YieldToScheduler, LinkAtTurn, LinkReadyLocked, LeaveWait, OnCpu, LeftAlone, listVars,
     NoLostSignal, SignalInFlight, Listed, WaitType, LoopType, CallType
<1>23. ASSUME NEW c \in Cpus, SelfSuspend(c)
      PROVE  NoLostSignal'
  BY <1>0, <1>23 DEF SelfSuspend, YieldCurrentThread, YieldLeavesAlone, ExitIfTerminated,
     YieldToScheduler, LinkAtTurn, LinkReadyLocked, LeaveWait, OnCpu, LeftAlone, listVars,
     NoLostSignal, SignalInFlight, Listed, WaitType, LoopType, CallType
<1>24. ASSUME NEW c \in Cpus, NEW S \in SUBSET Objects, SampleEpoch(c, S)
      PROVE  NoLostSignal'
  BY <1>0, <1>24 DEF SampleEpoch, OnCpu, StaysOnCpu, listVars, loopVars, NoLostSignal,
     SignalInFlight, Listed, WaitType, LoopType, CallType
<1>25. ASSUME NEW c \in Cpus, Delay(c)
      PROVE  NoLostSignal'
  BY <1>0, <1>25 DEF Delay, BlockCurrentThread, ParkBlocked, ExitIfTerminated,
     BlockLeavesAlone, OnCpu, YieldToScheduler, LeaveWait, PokeIfMoved, LockFree,
     NoLostSignal, SignalInFlight, Listed, WaitType, LoopType, CallType
<1>26. ASSUME NEW c \in Cpus, BlockUngated(c)
      PROVE  NoLostSignal'
  BY <1>0, <1>26 DEF BlockUngated, BlockCurrentThread, ParkBlocked, ExitIfTerminated,
     BlockLeavesAlone, OnCpu, YieldToScheduler, LeaveWait, PokeIfMoved, LockFree,
     NoLostSignal, SignalInFlight, Listed, WaitType, LoopType, CallType
<1>27. ASSUME NEW c \in Cpus, WaitOnFence(c)
      PROVE  NoLostSignal'
  BY <1>0, <1>27 DEF WaitOnFence, ParkBlocked, BlockLeavesAlone, OnCpu, YieldToScheduler,
     PokeIfMoved, LockFree, NoLostSignal, SignalInFlight, Listed, WaitType, LoopType,
     CallType
<1>28. ASSUME NEW c \in Cpus, ExitBegin(c)
      PROVE  NoLostSignal'
  BY <1>0, <1>28 DEF ExitBegin, OnCpu, StaysOnCpu, listVars, waitVars, loopVars,
     NoLostSignal, SignalInFlight, Listed, WaitType, LoopType, CallType
<1>29. ASSUME NEW c \in Cpus, ExitYield(c)
      PROVE  NoLostSignal'
  BY <1>0, <1>29, SMTT(30) DEF ExitYield, YieldCurrentThread, YieldLeavesAlone, ExitIfTerminated,
     YieldToScheduler, LinkAtTurn, LinkReadyLocked, LeaveWait, OnCpu, LeftAlone, listVars,
     NoLostSignal, SignalInFlight, Listed, WaitType, LoopType, CallType
<1>30. ASSUME NEW c \in Cpus, Crash(c)
      PROVE  NoLostSignal'
  BY <1>0, <1>30 DEF Crash, OnCpu, YieldToScheduler, LeaveWait, Detach, LockFree,
     NoLostSignal, SignalInFlight, Listed, WaitType, LoopType, CallType
<1>31. ASSUME NEW c \in Cpus, PreemptCurrentFiber(c)
      PROVE  NoLostSignal'
  BY <1>0, <1>31 DEF PreemptCurrentFiber, YieldCurrentThread, YieldLeavesAlone,
     ExitIfTerminated, YieldToScheduler, LinkAtTurn, LinkReadyLocked, LeaveWait, OnCpu,
     LeftAlone, listVars, NoLostSignal, SignalInFlight, Listed, WaitType, LoopType,
     CallType
<1>32. ASSUME NEW c \in Cpus, FiberResume(c)
      PROVE  NoLostSignal'
  BY <1>0, <1>32 DEF FiberResume, OnCpu, ExitIfTerminated, LeaveWait, YieldToScheduler,
     listVars, NoLostSignal, SignalInFlight, Listed, WaitType, LoopType, CallType
<1>33. ASSUME NEW c \in Cpus, PollSatisfied(c)
      PROVE  NoLostSignal'
  BY <1>0, <1>33 DEF PollSatisfied, OnCpu, StaysOnCpu, LeaveWait, listVars, loopVars,
     NoLostSignal, SignalInFlight, Listed, WaitType, LoopType, CallType
<1>34. ASSUME NEW c \in Cpus, BlockOnObjects(c)
      PROVE  NoLostSignal'
  BY <1>0, <1>34 DEF BlockOnObjects, BlockCurrentThread, ParkBlocked, ExitIfTerminated,
     BlockLeavesAlone, OnCpu, YieldToScheduler, LeaveWait, PokeIfMoved, LockFree,
     NoLostSignal, SignalInFlight, Listed, WaitType, LoopType, CallType
<1>35. ASSUME NEW c \in Cpus, ExitEnd(c)
      PROVE  NoLostSignal'
  BY <1>0, <1>35 DEF ExitEnd, OnCpu, YieldToScheduler, threadVars, listVars, waitVars,
     NoLostSignal, SignalInFlight, Listed, WaitType, LoopType, CallType
<1>36. ASSUME NEW c \in Cpus, Top(c)
      PROVE  NoLostSignal'
  BY <1>0, <1>36 DEF Top, Goes, listVars, NoLostSignal, SignalInFlight, Listed, WaitType,
     LoopType, CallType
<1>37. ASSUME NEW c \in Cpus, RepollDue(c)
      PROVE  NoLostSignal'
  BY <1>0, <1>37 DEF RepollDue, Goes, threadVars, listVars, waitVars, NoLostSignal,
     SignalInFlight, Listed, WaitType, LoopType, CallType
<1>38. ASSUME NEW c \in Cpus, SleepTimeout(c)
      PROVE  NoLostSignal'
  BY <1>0, <1>38 DEF SleepTimeout, WakesUp, Goes, threadVars, listVars, waitVars,
     NoLostSignal, SignalInFlight, Listed, WaitType, LoopType, CallType
<1>39. ASSUME NEW c \in Cpus, RereadyBegin(c)
      PROVE  NoLostSignal'
  BY <1>0, <1>39 DEF RereadyBegin, Goes, LockFree, listVars, NoLostSignal, SignalInFlight,
     Listed, WaitType, LoopType, CallType
<1>40. ASSUME NEW c \in Cpus, NEW t \in Threads, KeepBlocked(c, t)
      PROVE  NoLostSignal'
  BY <1>0, <1>40 DEF KeepBlocked, MayHaveResolved, Visits, listVars, loopVars,
     NoLostSignal, SignalInFlight, Listed, WaitType, LoopType, CallType
<1>41. ASSUME NEW c \in Cpus, NEW t \in Threads, Reready(c, t)
      PROVE  NoLostSignal'
  BY <1>0, <1>41 DEF Reready, LinkAtTurn, LinkReadyLocked, Visits, loopVars, NoLostSignal,
     SignalInFlight, Listed, WaitType, LoopType, CallType
<1>42. ASSUME NEW c \in Cpus, RereadyEnd(c)
      PROVE  NoLostSignal'
  BY <1>0, <1>42 DEF RereadyEnd, Goes, listVars, NoLostSignal, SignalInFlight, Listed,
     WaitType, LoopType, CallType
<1>43. ASSUME NEW c \in Cpus, LoopWoken(c)
      PROVE  NoLostSignal'
  BY <1>0, <1>43 DEF LoopWoken, Goes, threadVars, listVars, waitVars, NoLostSignal,
     SignalInFlight, Listed, WaitType, LoopType, CallType
<1>44. ASSUME NEW c \in Cpus, NEW d \in Cpus, LoopWake(c, d)
      PROVE  NoLostSignal'
  BY <1>0, <1>44 DEF LoopWake, threadVars, loopVars, listVars, waitVars, NoLostSignal,
     SignalInFlight, Listed, WaitType, LoopType, CallType
<1>45. ASSUME NEW c \in Cpus, DequeueReady(c)
      PROVE  NoLostSignal'
  BY <1>0, <1>45 DEF DequeueReady, LockFree, waitVars, NoLostSignal, SignalInFlight,
     Listed, WaitType, LoopType, CallType
<1>46. ASSUME NEW c \in Cpus, DequeueNothing(c)
      PROVE  NoLostSignal'
  BY <1>0, <1>46 DEF DequeueNothing, Goes, LockFree, threadVars, listVars, waitVars,
     NoLostSignal, SignalInFlight, Listed, WaitType, LoopType, CallType
<1>47. ASSUME NEW c \in Cpus, Picked(c)
      PROVE  NoLostSignal'
  BY <1>0, <1>47 DEF Picked, threadVars, listVars, waitVars, NoLostSignal, SignalInFlight,
     Listed, WaitType, LoopType, CallType
<1>48. ASSUME NEW c \in Cpus, MigrateHome(c)
      PROVE  NoLostSignal'
  BY <1>0, <1>48 DEF MigrateHome, LinkAtTurn, LinkReadyLocked, LockFree, waitVars,
     NoLostSignal, SignalInFlight, Listed, WaitType, LoopType, CallType
<1>49. ASSUME NEW c \in Cpus, ParkSuspended(c)
      PROVE  NoLostSignal'
  BY <1>0, <1>49 DEF ParkSuspended, LockFree, MustPark, waitVars, NoLostSignal,
     SignalInFlight, Listed, WaitType, LoopType, CallType
<1>50. ASSUME NEW c \in Cpus, SwitchTo(c)
      PROVE  NoLostSignal'
  BY <1>0, <1>50 DEF SwitchTo, Goes, listVars, waitVars, NoLostSignal, SignalInFlight,
     Listed, WaitType, LoopType, CallType
<1>51. ASSUME NEW c \in Cpus, SwitchedBack(c)
      PROVE  NoLostSignal'
  BY <1>0, <1>51 DEF SwitchedBack, AfterSwitch, threadVars, listVars, waitVars,
     NoLostSignal, SignalInFlight, Listed, WaitType, LoopType, CallType
<1>52. ASSUME NEW c \in Cpus, ReclaimExited(c)
      PROVE  NoLostSignal'
  BY <1>0, <1>52 DEF ReclaimExited, Goes, listVars, waitVars, NoLostSignal,
     SignalInFlight, Listed, WaitType, LoopType, CallType
<1>53. ASSUME NEW c \in Cpus, IdleParks(c)
      PROVE  NoLostSignal'
  BY <1>0, <1>53 DEF IdleParks, Goes, threadVars, listVars, waitVars, NoLostSignal,
     SignalInFlight, Listed, WaitType, LoopType, CallType
<1>54. ASSUME NEW c \in Cpus, IdleRechecks(c)
      PROVE  NoLostSignal'
  BY <1>0, <1>54 DEF IdleRechecks, Goes, HasWork, LockFree, threadVars, listVars,
     waitVars, NoLostSignal, SignalInFlight, Listed, WaitType, LoopType, CallType
<1>55. ASSUME NEW c \in Cpus, SleepWoken(c)
      PROVE  NoLostSignal'
  BY <1>0, <1>55 DEF SleepWoken, WakesUp, Goes, threadVars, listVars, waitVars,
     NoLostSignal, SignalInFlight, Listed, WaitType, LoopType, CallType
<1>56. ASSUME ShutdownBegin
      PROVE  NoLostSignal'
  BY <1>0, <1>56 DEF ShutdownBegin, threadVars, loopVars, listVars, waitVars,
     NoLostSignal, SignalInFlight, Listed, WaitType, LoopType, CallType
<1>57. ASSUME NEW c \in Cpus, ShutdownNudge(c)
      PROVE  NoLostSignal'
  BY <1>0, <1>57 DEF ShutdownNudge, threadVars, loopVars, listVars, waitVars,
     NoLostSignal, SignalInFlight, Listed, WaitType, LoopType, CallType
<1>58. ASSUME ShutdownDrain
      PROVE  NoLostSignal'
  BY <1>0, <1>58 DEF ShutdownDrain, Listed, Leftovers, loopVars, NoLostSignal,
     SignalInFlight, Listed, WaitType, LoopType, CallType
<1>59. ASSUME NEW c \in Cpus, SelfResume(c) PROVE FALSE
  BY <1>59 DEF SelfResume, NoSelfResume
<1>60. \A s \in Starts : s[1] \in Threads /\ s[2] \in Cpus /\ s[3] \in Levels
  BY ConstantsAssumption
<1>61. CASE \E k \in Callers : CallStarts(k) \/ CallContinues(k)
  BY <1>61, <1>60, <1>1, <1>2, <1>3, <1>4, <1>5, <1>6, <1>7, <1>8, <1>9, <1>10, <1>11,
     <1>12, <1>13, <1>14, <1>15, <1>16, <1>17, <1>18, <1>19, <1>20, <1>21
     DEF CallStarts, CallContinues
<1>62. CASE \E c \in Cpus : GuestActs(c) \/ PreemptCurrentFiber(c) \/ FiberContinues(c)
  BY <1>62, <1>59, <1>22, <1>23, <1>24, <1>25, <1>26, <1>27, <1>28, <1>29, <1>30, <1>31,
     <1>32, <1>33, <1>34, <1>35
     DEF GuestActs, FiberContinues
<1>63. CASE \E c \in Cpus : Dispatches(c) \/ RepollDue(c) \/ SleepTimeout(c)
  BY <1>63, <1>36, <1>37, <1>38, <1>39, <1>40, <1>41, <1>42, <1>43, <1>44, <1>45, <1>46,
     <1>47, <1>48, <1>49, <1>50, <1>51, <1>52, <1>53, <1>54, <1>55
     DEF Dispatches, Walks
<1>64. CASE ShutdownActs
  BY <1>64, <1>56, <1>57, <1>58 DEF ShutdownActs
<1> QED BY <1>61, <1>62, <1>63, <1>64 DEF Next

(* A count is taken before the park and given back by Resume before the    *)
(* unlink.                                                                 *)
LEMMA CountIsKept ==
  ASSUME NoSelfResume, plan \in Plans, IInv, IInv', WakeInv, Next
  PROVE  SuspendedHasCount'
<1>0. /\ SuspendedHasCount /\ suspended \subseteq Threads /\ StateType /\ CallType
      /\ \A t \in suspended : Exists(t)
  BY DEF WakeInv, IInv, ListInv, TypeInv, RefInv, Listed
<1>1. ASSUME NEW k \in Callers, NEW t \in Threads, NEW c \in Cpus, NEW p \in Levels,
               NEW b \in BOOLEAN, Create(k, t, c, p, b)
      PROVE  SuspendedHasCount'
  <2>1. UNCHANGED suspended /\ call[k].pc = "idle" /\ \A j \in Callers : j # k
          => call'[j] = call[j]
    BY <1>0, <1>1 DEF Create, At, Begin, CallType, listVars
  <2>2. \A u \in suspended : suspendCount'[u] = suspendCount[u]
    BY <1>0, <1>1 DEF Create, StateType
  <2> QED BY <1>0, <2>1, <2>2 DEF SuspendedHasCount
<1>2. ASSUME NEW k \in Callers, NEW t \in Threads, Resume(k, t)
      PROVE  SuspendedHasCount'
  BY <1>0, <1>2 DEF Resume, Begin, At, ResumesFrom, Exists, listVars, SuspendedHasCount,
     StateType, CallType
<1>3. ASSUME NEW k \in Callers, NEW t \in Threads, Suspend(k, t)
      PROVE  SuspendedHasCount'
  BY <1>0, <1>3 DEF Suspend, listVars, SuspendedHasCount, StateType, CallType
<1>4. ASSUME NEW k \in Callers, NEW t \in Threads, Terminate(k, t)
      PROVE  SuspendedHasCount'
  BY <1>0, <1>4 DEF Terminate, Begin, At, listVars, stateVars, SuspendedHasCount,
     StateType, CallType
<1>5. ASSUME NEW k \in Callers, NEW t \in Threads, NEW c \in Cpus, SetActiveCpu(k, t, c)
      PROVE  SuspendedHasCount'
  BY <1>0, <1>5 DEF SetActiveCpu, Begin, At, listVars, SuspendedHasCount, StateType,
     CallType
<1>6. ASSUME NEW k \in Callers, NEW t \in Threads, NEW p \in Levels, PublishPriority(k, t, p)
      PROVE  SuspendedHasCount'
  BY <1>0, <1>6 DEF PublishPriority, Begin, At, listVars, SuspendedHasCount, StateType,
     CallType
<1>7. ASSUME NEW k \in Callers, NEW o \in Objects, Signal(k, o)
      PROVE  SuspendedHasCount'
  BY <1>0, <1>7 DEF Signal, Begin, At, listVars, stateVars, SuspendedHasCount, StateType,
     CallType
<1>8. ASSUME NEW k \in Callers, BeginWakeAll(k)
      PROVE  SuspendedHasCount'
  BY <1>0, <1>8 DEF BeginWakeAll, Begin, At, threadVars, listVars, stateVars,
     SuspendedHasCount, StateType, CallType
<1>9. ASSUME NEW k \in Callers, NEW C \in SUBSET BackgroundCpus, EnterBackgroundMode(k, C)
      PROVE  SuspendedHasCount'
  BY <1>0, <1>9 DEF EnterBackgroundMode, threadVars, listVars, stateVars,
     SuspendedHasCount, StateType, CallType
<1>10. ASSUME NEW k \in Callers, ResumeThread(k)
      PROVE  SuspendedHasCount'
  BY <1>0, <1>10 DEF ResumeThread, Begin, At, LockFree, stateVars, SuspendedHasCount,
     StateType, CallType
<1>11. ASSUME NEW k \in Callers, MarkReady(k)
      PROVE  SuspendedHasCount'
  BY <1>0, <1>11 DEF MarkReady, Begin, At, Return, threadVars, listVars, stateVars,
     SuspendedHasCount, StateType, CallType, Idle
<1>12. ASSUME NEW k \in Callers, EnqueueReady(k)
      PROVE  SuspendedHasCount'
  BY <1>0, <1>12 DEF EnqueueReady, At, Return, LockFree, LeftAlone, LinkAtTurn,
     LinkReadyLocked, WakeAndReturn, stateVars, SuspendedHasCount, StateType, CallType,
     Idle
<1>13. ASSUME NEW k \in Callers, TerminateThread(k)
      PROVE  SuspendedHasCount'
  <2>1. suspended' \subseteq suspended /\ suspendCount' = suspendCount
          /\ call[k].pc = "terminate"
        /\ \A j \in Callers : j # k => call'[j] = call[j]
    BY <1>13, TerminateDoes
  <2> QED BY <1>0, <2>1 DEF SuspendedHasCount
<1>14. ASSUME NEW k \in Callers, ReclaimTerminated(k)
      PROVE  SuspendedHasCount'
  BY <1>0, <1>14 DEF ReclaimTerminated, At, Return, listVars, stateVars,
     SuspendedHasCount, StateType, CallType, Idle
<1>15. ASSUME NEW k \in Callers, MigrateForAffinity(k)
      PROVE  SuspendedHasCount'
  <2>1. suspended' = suspended /\ suspendCount' = suspendCount /\ call[k].pc = "migrate"
    BY <1>15, MigrateDoes DEF stateVars
  <2>2. \A j \in Callers : j # k => call'[j] = call[j]
    BY <1>0, <1>15 DEF MigrateForAffinity, Return, WakeAndReturn, CallType
  <2> QED BY <1>0, <2>1, <2>2 DEF SuspendedHasCount
<1>16. ASSUME NEW k \in Callers, RequeueForPriority(k)
      PROVE  SuspendedHasCount'
  BY <1>0, <1>16 DEF RequeueForPriority, At, Return, LockFree, LinkReadyLocked, stateVars,
     SuspendedHasCount, StateType, CallType, Idle
<1>17. ASSUME NEW k \in Callers, SignalCheck(k)
      PROVE  SuspendedHasCount'
  BY <1>0, <1>17 DEF SignalCheck, AnyBlocked, At, Begin, Return, threadVars, listVars,
     stateVars, SuspendedHasCount, StateType, CallType, Idle
<1>18. ASSUME NEW k \in Callers, WakeForSignal(k)
      PROVE  SuspendedHasCount'
  BY <1>0, <1>18 DEF WakeForSignal, At, LockFree, WakeAndReturn, listVars, stateVars,
     SuspendedHasCount, StateType, CallType, Idle
<1>19. ASSUME NEW k \in Callers, WakeAllCheck(k)
      PROVE  SuspendedHasCount'
  BY <1>0, <1>19 DEF WakeAllCheck, AnyBlocked, At, Begin, Return, threadVars, listVars,
     stateVars, SuspendedHasCount, StateType, CallType, Idle
<1>20. ASSUME NEW k \in Callers, WakeAll(k)
      PROVE  SuspendedHasCount'
  BY <1>0, <1>20 DEF WakeAll, At, LockFree, WakeAndReturn, listVars, stateVars,
     SuspendedHasCount, StateType, CallType, Idle
<1>21. ASSUME NEW k \in Callers, NEW c \in Cpus, Wake(k, c)
      PROVE  SuspendedHasCount'
  BY <1>0, <1>21 DEF Wake, At, WakeAndReturn, threadVars, listVars, stateVars,
     SuspendedHasCount, StateType, CallType, Idle
<1>22. ASSUME NEW c \in Cpus, Yield(c)
      PROVE  SuspendedHasCount'
  BY <1>0, <1>22 DEF Yield, YieldCurrentThread, YieldLeavesAlone, ExitIfTerminated,
     FiberAt, LinkAtTurn, LinkReadyLocked, OnCpu, LeftAlone, listVars, SuspendedHasCount,
     StateType, CallType
<1>23. ASSUME NEW c \in Cpus, SelfSuspend(c)
      PROVE  SuspendedHasCount'
  BY <1>0, <1>23 DEF SelfSuspend, YieldCurrentThread, YieldLeavesAlone, ExitIfTerminated,
     FiberAt, LinkAtTurn, LinkReadyLocked, OnCpu, LeftAlone, listVars, SuspendedHasCount,
     StateType, CallType
<1>24. ASSUME NEW c \in Cpus, NEW S \in SUBSET Objects, SampleEpoch(c, S)
      PROVE  SuspendedHasCount'
  BY <1>0, <1>24 DEF SampleEpoch, OnCpu, FiberAt, listVars, stateVars, SuspendedHasCount,
     StateType, CallType
<1>25. ASSUME NEW c \in Cpus, Delay(c)
      PROVE  SuspendedHasCount'
  BY <1>0, <1>25 DEF Delay, BlockCurrentThread, ParkBlocked, ExitIfTerminated,
     BlockLeavesAlone, OnCpu, FiberAt, PokeIfMoved, LockFree, stateVars,
     SuspendedHasCount, StateType, CallType
<1>26. ASSUME NEW c \in Cpus, BlockUngated(c)
      PROVE  SuspendedHasCount'
  BY <1>0, <1>26 DEF BlockUngated, BlockCurrentThread, ParkBlocked, ExitIfTerminated,
     BlockLeavesAlone, OnCpu, FiberAt, PokeIfMoved, LockFree, stateVars,
     SuspendedHasCount, StateType, CallType
<1>27. ASSUME NEW c \in Cpus, WaitOnFence(c)
      PROVE  SuspendedHasCount'
  BY <1>0, <1>27 DEF WaitOnFence, ParkBlocked, BlockLeavesAlone, OnCpu, FiberAt,
     PokeIfMoved, LockFree, stateVars, SuspendedHasCount, StateType, CallType
<1>28. ASSUME NEW c \in Cpus, ExitBegin(c)
      PROVE  SuspendedHasCount'
  BY <1>0, <1>28 DEF ExitBegin, OnCpu, FiberAt, listVars, stateVars, SuspendedHasCount,
     StateType, CallType
<1>29. ASSUME NEW c \in Cpus, ExitYield(c)
      PROVE  SuspendedHasCount'
  BY <1>0, <1>29 DEF ExitYield, YieldCurrentThread, YieldLeavesAlone, ExitIfTerminated,
     FiberAt, LinkAtTurn, LinkReadyLocked, OnCpu, LeftAlone, listVars, SuspendedHasCount,
     StateType, CallType
<1>30. ASSUME NEW c \in Cpus, Crash(c)
      PROVE  SuspendedHasCount'
  BY <1>0, <1>30 DEF Crash, OnCpu, FiberAt, Detach, LockFree, stateVars,
     SuspendedHasCount, StateType, CallType
<1>31. ASSUME NEW c \in Cpus, PreemptCurrentFiber(c)
      PROVE  SuspendedHasCount'
  BY <1>0, <1>31 DEF PreemptCurrentFiber, YieldCurrentThread, YieldLeavesAlone,
     ExitIfTerminated, FiberAt, LinkAtTurn, LinkReadyLocked, OnCpu, LeftAlone, listVars,
     SuspendedHasCount, StateType, CallType
<1>32. ASSUME NEW c \in Cpus, FiberResume(c)
      PROVE  SuspendedHasCount'
  BY <1>0, <1>32 DEF FiberResume, OnCpu, ExitIfTerminated, FiberAt, listVars, stateVars,
     SuspendedHasCount, StateType, CallType
<1>33. ASSUME NEW c \in Cpus, PollSatisfied(c)
      PROVE  SuspendedHasCount'
  BY <1>0, <1>33 DEF PollSatisfied, OnCpu, FiberAt, listVars, stateVars,
     SuspendedHasCount, StateType, CallType
<1>34. ASSUME NEW c \in Cpus, BlockOnObjects(c)
      PROVE  SuspendedHasCount'
  BY <1>0, <1>34 DEF BlockOnObjects, BlockCurrentThread, ParkBlocked, ExitIfTerminated,
     BlockLeavesAlone, OnCpu, FiberAt, PokeIfMoved, LockFree, stateVars,
     SuspendedHasCount, StateType, CallType
<1>35. ASSUME NEW c \in Cpus, ExitEnd(c)
      PROVE  SuspendedHasCount'
  BY <1>0, <1>35 DEF ExitEnd, OnCpu, FiberAt, threadVars, listVars, stateVars,
     SuspendedHasCount, StateType, CallType
<1>36. ASSUME NEW c \in Cpus, Top(c)
      PROVE  SuspendedHasCount'
  BY <1>0, <1>36 DEF Top, listVars, stateVars, SuspendedHasCount, StateType, CallType
<1>37. ASSUME NEW c \in Cpus, RepollDue(c)
      PROVE  SuspendedHasCount'
  BY <1>0, <1>37 DEF RepollDue, threadVars, listVars, stateVars, SuspendedHasCount,
     StateType, CallType
<1>38. ASSUME NEW c \in Cpus, SleepTimeout(c)
      PROVE  SuspendedHasCount'
  BY <1>0, <1>38 DEF SleepTimeout, WakesUp, threadVars, listVars, stateVars,
     SuspendedHasCount, StateType, CallType
<1>39. ASSUME NEW c \in Cpus, RereadyBegin(c)
      PROVE  SuspendedHasCount'
  BY <1>0, <1>39 DEF RereadyBegin, LockFree, listVars, stateVars, SuspendedHasCount,
     StateType, CallType
<1>40. ASSUME NEW c \in Cpus, NEW t \in Threads, KeepBlocked(c, t)
      PROVE  SuspendedHasCount'
  BY <1>0, <1>40 DEF KeepBlocked, MayHaveResolved, Visits, listVars, stateVars,
     SuspendedHasCount, StateType, CallType
<1>41. ASSUME NEW c \in Cpus, NEW t \in Threads, Reready(c, t)
      PROVE  SuspendedHasCount'
  BY <1>0, <1>41 DEF Reready, LinkAtTurn, LinkReadyLocked, Visits, stateVars,
     SuspendedHasCount, StateType, CallType
<1>42. ASSUME NEW c \in Cpus, RereadyEnd(c)
      PROVE  SuspendedHasCount'
  BY <1>0, <1>42 DEF RereadyEnd, listVars, stateVars, SuspendedHasCount, StateType,
     CallType
<1>43. ASSUME NEW c \in Cpus, LoopWoken(c)
      PROVE  SuspendedHasCount'
  BY <1>0, <1>43 DEF LoopWoken, threadVars, listVars, stateVars, SuspendedHasCount,
     StateType, CallType
<1>44. ASSUME NEW c \in Cpus, NEW d \in Cpus, LoopWake(c, d)
      PROVE  SuspendedHasCount'
  BY <1>0, <1>44 DEF LoopWake, threadVars, listVars, stateVars, SuspendedHasCount,
     StateType, CallType
<1>45. ASSUME NEW c \in Cpus, DequeueReady(c)
      PROVE  SuspendedHasCount'
  BY <1>0, <1>45 DEF DequeueReady, LockFree, stateVars, SuspendedHasCount, StateType,
     CallType
<1>46. ASSUME NEW c \in Cpus, DequeueNothing(c)
      PROVE  SuspendedHasCount'
  BY <1>0, <1>46 DEF DequeueNothing, LockFree, threadVars, listVars, stateVars,
     SuspendedHasCount, StateType, CallType
<1>47. ASSUME NEW c \in Cpus, Picked(c)
      PROVE  SuspendedHasCount'
  BY <1>0, <1>47 DEF Picked, threadVars, listVars, stateVars, SuspendedHasCount,
     StateType, CallType
<1>48. ASSUME NEW c \in Cpus, MigrateHome(c)
      PROVE  SuspendedHasCount'
  BY <1>0, <1>48 DEF MigrateHome, LinkAtTurn, LinkReadyLocked, LockFree, stateVars,
     SuspendedHasCount, StateType, CallType
<1>49. ASSUME NEW c \in Cpus, ParkSuspended(c)
      PROVE  SuspendedHasCount'
  BY <1>0, <1>49 DEF ParkSuspended, LockFree, MustPark, stateVars, SuspendedHasCount,
     StateType, CallType
<1>50. ASSUME NEW c \in Cpus, SwitchTo(c)
      PROVE  SuspendedHasCount'
  BY <1>0, <1>50 DEF SwitchTo, listVars, stateVars, SuspendedHasCount, StateType, CallType
<1>51. ASSUME NEW c \in Cpus, SwitchedBack(c)
      PROVE  SuspendedHasCount'
  BY <1>0, <1>51 DEF SwitchedBack, AfterSwitch, threadVars, listVars, stateVars,
     SuspendedHasCount, StateType, CallType
<1>52. ASSUME NEW c \in Cpus, ReclaimExited(c)
      PROVE  SuspendedHasCount'
  BY <1>0, <1>52 DEF ReclaimExited, listVars, stateVars, SuspendedHasCount, StateType,
     CallType
<1>53. ASSUME NEW c \in Cpus, IdleParks(c)
      PROVE  SuspendedHasCount'
  BY <1>0, <1>53 DEF IdleParks, threadVars, listVars, stateVars, SuspendedHasCount,
     StateType, CallType
<1>54. ASSUME NEW c \in Cpus, IdleRechecks(c)
      PROVE  SuspendedHasCount'
  BY <1>0, <1>54 DEF IdleRechecks, HasWork, LockFree, threadVars, listVars, stateVars,
     SuspendedHasCount, StateType, CallType
<1>55. ASSUME NEW c \in Cpus, SleepWoken(c)
      PROVE  SuspendedHasCount'
  BY <1>0, <1>55 DEF SleepWoken, WakesUp, threadVars, listVars, stateVars,
     SuspendedHasCount, StateType, CallType
<1>56. ASSUME ShutdownBegin
      PROVE  SuspendedHasCount'
  BY <1>0, <1>56 DEF ShutdownBegin, threadVars, listVars, stateVars, SuspendedHasCount,
     StateType, CallType
<1>57. ASSUME NEW c \in Cpus, ShutdownNudge(c)
      PROVE  SuspendedHasCount'
  BY <1>0, <1>57 DEF ShutdownNudge, threadVars, listVars, stateVars, SuspendedHasCount,
     StateType, CallType
<1>58. ASSUME ShutdownDrain
      PROVE  SuspendedHasCount'
  BY <1>0, <1>58 DEF ShutdownDrain, Listed, Leftovers, stateVars, SuspendedHasCount,
     StateType, CallType
<1>59. ASSUME NEW c \in Cpus, SelfResume(c) PROVE FALSE
  BY <1>59 DEF SelfResume, NoSelfResume
<1>60. \A s \in Starts : s[1] \in Threads /\ s[2] \in Cpus /\ s[3] \in Levels
  BY ConstantsAssumption
<1>61. CASE \E k \in Callers : CallStarts(k) \/ CallContinues(k)
  BY <1>61, <1>60, <1>1, <1>2, <1>3, <1>4, <1>5, <1>6, <1>7, <1>8, <1>9, <1>10, <1>11,
     <1>12, <1>13, <1>14, <1>15, <1>16, <1>17, <1>18, <1>19, <1>20, <1>21
     DEF CallStarts, CallContinues
<1>62. CASE \E c \in Cpus : GuestActs(c) \/ PreemptCurrentFiber(c) \/ FiberContinues(c)
  BY <1>62, <1>59, <1>22, <1>23, <1>24, <1>25, <1>26, <1>27, <1>28, <1>29, <1>30, <1>31,
     <1>32, <1>33, <1>34, <1>35
     DEF GuestActs, FiberContinues
<1>63. CASE \E c \in Cpus : Dispatches(c) \/ RepollDue(c) \/ SleepTimeout(c)
  BY <1>63, <1>36, <1>37, <1>38, <1>39, <1>40, <1>41, <1>42, <1>43, <1>44, <1>45, <1>46,
     <1>47, <1>48, <1>49, <1>50, <1>51, <1>52, <1>53, <1>54, <1>55
     DEF Dispatches, Walks
<1>64. CASE ShutdownActs
  BY <1>64, <1>56, <1>57, <1>58 DEF ShutdownActs
<1> QED BY <1>61, <1>62, <1>63, <1>64 DEF Next

(* Nothing sleeps and nothing is owed initially.                           *)
LEMMA WakeInvStarts ==
  ASSUME Init
  PROVE  WakeInv
BY DEF Init, WakeInv, ParkedAsleep, WakesHeld, BlockedCovered, NoLostWork, NoLostSignal,
   SuspendedHasCount

(* The invariant of the wake-ups is about the variables of the model.      *)
LEMMA WakeInvStutters ==
  ASSUME WakeInv, UNCHANGED vars
  PROVE  WakeInv'
BY DEF vars, listVars, waitVars, stateVars, parkVars, loopVars, WakeInv, ParkedAsleep,
   WakesHeld, BlockedCovered, NoLostWork, WakeInFlight, NoLostSignal, SignalInFlight,
   SuspendedHasCount

(* The invariant of the wake-ups holds in every reachable state.           *)
LEMMA WakeInvHolds ==
  ASSUME NoSelfResume
  PROVE  Spec => [](PlannedInv /\ WakeInv)
<1>1. Init => PlannedInv /\ WakeInv
  BY InitHolds, WakeInvStarts DEF Init, PlannedInv
<1>2. PlannedInv /\ WakeInv /\ [Next]_vars => PlannedInv' /\ WakeInv'
  <2> SUFFICES ASSUME PlannedInv, WakeInv, [Next]_vars
               PROVE  PlannedInv' /\ WakeInv'
    OBVIOUS
  <2>1. PlannedInv' /\ plan \in Plans /\ IInv /\ IInv'
    BY StepKeeps DEF PlannedInv
  <2>2. CASE Next
    BY <2>1, <2>2, ParkedIsAsleep, WakesAreHeld, BlockedAreCovered, WorkIsKept,
       SignalIsKept, CountIsKept DEF WakeInv
  <2> QED BY <2>1, <2>2, WakeInvStutters
<1> QED BY <1>1, <1>2, PTL DEF Spec

(* A dispatch thread does not sleep on a queued thread, nor on a requested *)
(* re-poll, unless the event that ends its sleep is set or about to be     *)
(* (RunLoop's second look after parked is set, SetReadyEvent after lock_). *)
THEOREM WorkIsSeen ==
  ASSUME NoSelfResume
  PROVE  Spec => []NoLostWork
<1>1. WakeInv => NoLostWork
  BY DEF WakeInv
<1> QED BY <1>1, WakeInvHolds, PTL

(* A signal is not lost between the poll of a wait and its park: whoever   *)
(* is blocked with its epoch moved is covered by a re-poll to come         *)
(* (BlockCurrentThread's look at the epoch, WakeForSignal's has_blocked).  *)
THEOREM SignalIsSeen ==
  ASSUME NoSelfResume
  PROVE  Spec => []NoLostSignal
<1>1. WakeInv => NoLostSignal
  BY DEF WakeInv
<1> QED BY <1>1, WakeInvHolds, PTL

(* ParkSuspended parks only whom a suspend count asks for, and Resume,     *)
(* which gives the count back without lock_, then unlinks.                 *)
THEOREM CountParks ==
  ASSUME NoSelfResume
  PROVE  Spec => []SuspendedHasCount
<1>1. WakeInv => SuspendedHasCount
  BY DEF WakeInv
<1> QED BY <1>1, WakeInvHolds, PTL
=============================================================================
