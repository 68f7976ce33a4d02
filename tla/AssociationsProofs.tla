------------------------- MODULE AssociationsProofs -------------------------
(* What a console's associations keep, for every plan, window and queue:     *)
(* the owner knows whether the peer is connected, an association that is     *)
(* established is never given other keys, a packet waits until it is sent,   *)
(* and it reaches the owner of the other console once.                       *)
EXTENDS Associations, FiniteSetTheorems, SequenceTheorems, TLAPS

-----------------------------------------------------------------------------
(* The inductive invariant.                                                  *)

AssocShape(s) ==
    s = [status |-> s.status, gen |-> s.gen, initiator |-> s.initiator,
         remote |-> s.remote, fresh |-> s.fresh, attempts |-> s.attempts,
         sequence |-> s.sequence, highest |-> s.highest, seen |-> s.seen,
         pending |-> s.pending]

ConsoleShape(c) ==
    /\ c = [assoc |-> c.assoc, gens |-> c.gens, clock |-> c.clock,
            events |-> c.events, out |-> c.out, room |-> c.room, lost |-> c.lost]
    /\ AssocShape(c.assoc)

IsASequence(s) == \E S : s \in Seq(S)

(* Generations are drawn one after the other and only by what exists.        *)
Generated(c) ==
    /\ c.gens \in Nat /\ c.assoc.gen \in 0 .. c.gens
    /\ c.assoc.status \in {"None", "Pending", "Established"}
    /\ Exists(c.assoc) <=> c.assoc.gen # 0

Sound(c) == ConsoleShape(c) /\ Generated(c) /\ IsASequence(c.events)

(* What the owner is about to know, who was told u before: the last event    *)
(* tells, and without one nothing has changed.                               *)
Knows(c, u) ==
    IF c.events = <<>> THEN u <=> Established(c.assoc)
    ELSE Last(c.events).type # "Retired" <=> Established(c.assoc)

IInv == /\ console = [m \in Consoles |-> console[m]]
        /\ up \in [Consoles -> BOOLEAN]
        /\ \A m \in Consoles : Sound(console[m]) /\ Knows(console[m], up[m])

(* What every call does to a console.                                        *)
Advances(c, d) ==
    /\ c.gens <= d.gens
    /\ d.assoc.gen = c.assoc.gen \/ d.assoc.gen = 0 \/ d.assoc.gen > c.gens
    /\ Established(c.assoc) /\ d.assoc.gen = c.assoc.gen =>
         Established(d.assoc) /\ Keys(d.assoc) = Keys(c.assoc)
    /\ \A u \in BOOLEAN : Knows(c, u) => Knows(d, u)

(* What every step of a call that is only about packets does.                *)
Alike(c, d) ==
    /\ ConsoleShape(d) /\ d.gens = c.gens /\ d.events = c.events
    /\ d.assoc.status = c.assoc.status /\ d.assoc.gen = c.assoc.gen
    /\ d.assoc.initiator = c.assoc.initiator /\ d.assoc.remote = c.assoc.remote

LEMMA AlikeAdvances ==
    ASSUME NEW c, NEW d, Sound(c), Alike(c, d)
    PROVE  Sound(d) /\ Advances(c, d)
BY DEF Sound, Alike, Advances, Generated, Exists, Established, Knows, Keys

LEMMA AlikeTransitive ==
    ASSUME NEW c, NEW d, NEW e, Alike(c, d), Alike(d, e)
    PROVE  Alike(c, e)
BY DEF Alike

LEMMA AlikeSelf ==
    ASSUME NEW c, ConsoleShape(c)
    PROVE  Alike(c, c)
BY DEF Alike

LEMMA AdvancesTransitive ==
    ASSUME NEW c, NEW d, NEW e, Sound(c), Sound(d), Sound(e),
           Advances(c, d), Advances(d, e)
    PROVE  Advances(c, e)
BY DEF Sound, Generated, Advances, Established, Exists

LEMMA AppendToAny ==
    ASSUME NEW s, IsASequence(s), NEW e
    PROVE  /\ IsASequence(Append(s, e)) /\ Append(s, e) # <<>>
           /\ Last(Append(s, e)) = e
<1>1. PICK S : s \in Seq(S)
  BY DEF IsASequence
<1> DEFINE T == S \cup {e}
<1>2. s \in Seq(T)
  BY <1>1
<1>3. Append(s, e) \in Seq(T) /\ Len(Append(s, e)) = Len(s) + 1
      /\ Append(s, e)[Len(s) + 1] = e /\ Len(s) \in Nat
  BY <1>2
<1>4. Append(s, e) # <<>>
  BY <1>3
<1> QED
  BY <1>3, <1>4 DEF IsASequence, Last

-----------------------------------------------------------------------------
(* Packets.                                                                  *)

(* A console with one field replaced.                                        *)
LEMMA OutAlike ==
    ASSUME NEW c, ConsoleShape(c), NEW v
    PROVE  Alike(c, [c EXCEPT !.out = v])
BY DEF ConsoleShape, Alike

LEMMA RoomAlike ==
    ASSUME NEW c, ConsoleShape(c), NEW v
    PROVE  Alike(c, [c EXCEPT !.room = v])
BY DEF ConsoleShape, Alike

LEMMA ClockAlike ==
    ASSUME NEW c, ConsoleShape(c), NEW v
    PROVE  Alike(c, [c EXCEPT !.clock = v])
BY DEF ConsoleShape, Alike

LEMMA LostAlike ==
    ASSUME NEW c, ConsoleShape(c), NEW v
    PROVE  Alike(c, [c EXCEPT !.lost = v])
BY DEF ConsoleShape, Alike

(* A console with one field of its association replaced.                      *)
LEMMA SequenceAlike ==
    ASSUME NEW c, ConsoleShape(c), NEW v
    PROVE  Alike(c, [c EXCEPT !.assoc.sequence = v])
BY DEF ConsoleShape, AssocShape, Alike

LEMMA PendingAlike ==
    ASSUME NEW c, ConsoleShape(c), NEW v
    PROVE  Alike(c, [c EXCEPT !.assoc.pending = v])
BY DEF ConsoleShape, AssocShape, Alike

LEMMA AttemptsAlike ==
    ASSUME NEW c, ConsoleShape(c), NEW v
    PROVE  Alike(c, [c EXCEPT !.assoc.attempts = v])
BY DEF ConsoleShape, AssocShape, Alike

LEMMA FreshAlike ==
    ASSUME NEW c, ConsoleShape(c), NEW v
    PROVE  Alike(c, [c EXCEPT !.assoc.fresh = v])
BY DEF ConsoleShape, AssocShape, Alike

LEMMA EmitAlike ==
    ASSUME NEW c, NEW x, ConsoleShape(c)
    PROVE  Alike(c, Emit(c, x))
<1>1. CASE c.room = 0
  BY <1>1, AlikeSelf DEF Emit
<1>2. CASE c.room # 0
  <2> DEFINE o == Append(c.out, x)
             r == c.room - 1
             d == [c EXCEPT !.out = o]
  <2>1. Emit(c, x) = [d EXCEPT !.room = r]
    BY <1>2 DEF Emit, ConsoleShape
  <2>2. Alike(c, d)
    BY OutAlike
  <2>3. Alike(d, [d EXCEPT !.room = r])
    BY <2>2, RoomAlike DEF Alike
  <2> QED
    BY <2>1, <2>2, <2>3, AlikeTransitive
<1> QED
  BY <1>1, <1>2

LEMMA ExchangeAlike ==
    ASSUME NEW m, NEW c, ConsoleShape(c)
    PROVE  Alike(c, ExchangePacket(m, c))
<1> DEFINE d == [c EXCEPT !.clock = Stamp(c)]
           e == Emit(d, Exchange(m, c))
<1>1. Alike(c, d)
  BY ClockAlike
<1>2. Alike(d, e)
  BY <1>1, EmitAlike DEF Alike
<1>3. ExchangePacket(m, c) = IF c.room = 0 THEN d
                             ELSE [e EXCEPT !.assoc.attempts = e.assoc.attempts + 1]
  BY DEF ExchangePacket
<1> HIDE DEF d, e
<1>4. Alike(e, [e EXCEPT !.assoc.attempts = e.assoc.attempts + 1])
  BY <1>2, AttemptsAlike DEF Alike
<1> QED
  BY <1>1, <1>2, <1>3, <1>4, AlikeTransitive

LEMMA ProtectAllAlike ==
    ASSUME NEW m, NEW c, NEW bodies, ConsoleShape(c)
    PROVE  Alike(c, ProtectAll(m, c, bodies))
<1> DEFINE n == c.assoc.sequence + Len(bodies)
           o == c.out \o [i \in 1 .. Len(bodies) |-> Numbered(m, c, i, bodies[i])]
           r == c.room - Len(bodies)
           d == [c EXCEPT !.out = o]
           e == [d EXCEPT !.room = r]
<1>1. ProtectAll(m, c, bodies) = [c EXCEPT !.out = o, !.room = r, !.assoc.sequence = n]
  BY DEF ProtectAll
<1> HIDE DEF n, o, r
<1>2. ProtectAll(m, c, bodies) = [e EXCEPT !.assoc.sequence = n]
  BY <1>1
<1>3. Alike(c, d)
  BY OutAlike
<1>4. Alike(d, e)
  BY <1>3, RoomAlike DEF Alike
<1> HIDE DEF d, e
<1>5. Alike(e, [e EXCEPT !.assoc.sequence = n])
  BY <1>4, SequenceAlike DEF Alike
<1> QED
  BY <1>2, <1>3, <1>4, <1>5, AlikeTransitive

LEMMA ProtectAlike ==
    ASSUME NEW m, NEW c, NEW body, ConsoleShape(c)
    PROVE  Alike(c, Protect(m, c, body))
BY ProtectAllAlike, AlikeSelf DEF Protect

LEMMA FlushAlike ==
    ASSUME NEW m, NEW c, ConsoleShape(c)
    PROVE  Alike(c, FlushPending(m, c))
<1> DEFINE n == Min({Room(c), Len(c.assoc.pending)})
           bodies == SubSeq(c.assoc.pending, 1, n)
           d == ProtectAll(m, c, bodies)
<1>1. FlushPending(m, c) = [d EXCEPT !.assoc.pending = SubSeq(@, n + 1, Len(@))]
  BY DEF FlushPending
<1> HIDE DEF n, bodies
<1>2. Alike(c, d)
  BY ProtectAllAlike
<1> DEFINE p == SubSeq(d.assoc.pending, n + 1, Len(d.assoc.pending))
<1>3. FlushPending(m, c) = [d EXCEPT !.assoc.pending = p]
  BY <1>1
<1> HIDE DEF d, p
<1>4. Alike(d, [d EXCEPT !.assoc.pending = p])
  BY <1>2, PendingAlike DEF Alike
<1> QED
  BY <1>2, <1>3, <1>4, AlikeTransitive

-----------------------------------------------------------------------------
(* Calls.                                                                    *)

Moves(c, d) == Sound(d) /\ Advances(c, d)

LEMMA AlikeMoves ==
    ASSUME NEW c, NEW d, Sound(c), Alike(c, d)
    PROVE  Moves(c, d)
BY AlikeAdvances DEF Moves

LEMMA MovesTransitive ==
    ASSUME NEW c, NEW d, NEW e, Sound(c), Moves(c, d), Moves(d, e)
    PROVE  Moves(c, e)
BY AdvancesTransitive DEF Moves

LEMMA MovesSelf ==
    ASSUME NEW c, Sound(c)
    PROVE  Moves(c, c)
BY AlikeSelf, AlikeMoves DEF Sound

(* A console whose association, generations or events are replaced.          *)
LEMMA AssocReplaced ==
    ASSUME NEW c, ConsoleShape(c), NEW v
    PROVE  LET d == [c EXCEPT !.assoc = v]
           IN  /\ AssocShape(v) => ConsoleShape(d)
               /\ d.assoc = v /\ d.gens = c.gens /\ d.events = c.events
BY DEF ConsoleShape

LEMMA GenerationsReplaced ==
    ASSUME NEW c, ConsoleShape(c), NEW v
    PROVE  LET d == [c EXCEPT !.gens = v]
           IN  ConsoleShape(d) /\ d.assoc = c.assoc /\ d.gens = v /\ d.events = c.events
BY DEF ConsoleShape

LEMMA EventsReplaced ==
    ASSUME NEW c, ConsoleShape(c), NEW v
    PROVE  LET d == [c EXCEPT !.events = v]
           IN  ConsoleShape(d) /\ d.assoc = c.assoc /\ d.gens = c.gens /\ d.events = v
BY DEF ConsoleShape

LEMMA LostReplaced ==
    ASSUME NEW c, ConsoleShape(c), NEW v
    PROVE  LET d == [c EXCEPT !.lost = v]
           IN  /\ ConsoleShape(d) /\ d.assoc = c.assoc /\ d.gens = c.gens
               /\ d.events = c.events
BY DEF ConsoleShape

(* An association, as far as its keys go, and with one field replaced.       *)
HasFields(s, status, gen, initiator, remote) ==
    /\ AssocShape(s) /\ s.status = status /\ s.gen = gen
    /\ s.initiator = initiator /\ s.remote = remote

LEMMA KeysReplaced ==
    ASSUME NEW s, AssocShape(s), NEW v
    PROVE  /\ HasFields([s EXCEPT !.status = v], v, s.gen, s.initiator, s.remote)
           /\ HasFields([s EXCEPT !.gen = v], s.status, v, s.initiator, s.remote)
           /\ HasFields([s EXCEPT !.initiator = v], s.status, s.gen, v, s.remote)
           /\ HasFields([s EXCEPT !.remote = v], s.status, s.gen, s.initiator, v)
           /\ HasFields([s EXCEPT !.fresh = v], s.status, s.gen, s.initiator, s.remote)
           /\ HasFields([s EXCEPT !.attempts = v], s.status, s.gen, s.initiator, s.remote)
           /\ HasFields([s EXCEPT !.highest = v], s.status, s.gen, s.initiator, s.remote)
           /\ HasFields([s EXCEPT !.seen = v], s.status, s.gen, s.initiator, s.remote)
           /\ HasFields([s EXCEPT !.pending = v], s.status, s.gen, s.initiator, s.remote)
<1>1. HasFields([s EXCEPT !.status = v], v, s.gen, s.initiator, s.remote)
  BY DEF AssocShape, HasFields
<1>2. HasFields([s EXCEPT !.gen = v], s.status, v, s.initiator, s.remote)
  BY DEF AssocShape, HasFields
<1>3. HasFields([s EXCEPT !.initiator = v], s.status, s.gen, v, s.remote)
  BY DEF AssocShape, HasFields
<1>4. HasFields([s EXCEPT !.remote = v], s.status, s.gen, s.initiator, v)
  BY DEF AssocShape, HasFields
<1>5. HasFields([s EXCEPT !.fresh = v], s.status, s.gen, s.initiator, s.remote)
  BY DEF AssocShape, HasFields
<1>6. HasFields([s EXCEPT !.attempts = v], s.status, s.gen, s.initiator, s.remote)
  BY DEF AssocShape, HasFields
<1>7. HasFields([s EXCEPT !.highest = v], s.status, s.gen, s.initiator, s.remote)
  BY DEF AssocShape, HasFields
<1>8. HasFields([s EXCEPT !.seen = v], s.status, s.gen, s.initiator, s.remote)
  BY DEF AssocShape, HasFields
<1>9. HasFields([s EXCEPT !.pending = v], s.status, s.gen, s.initiator, s.remote)
  BY DEF AssocShape, HasFields
<1> QED
  BY <1>1, <1>2, <1>3, <1>4, <1>5, <1>6, <1>7, <1>8, <1>9

(* The same of a record t that is made so.                                   *)
LEMMA Put ==
    ASSUME NEW s, AssocShape(s), NEW v, NEW t
    PROVE  /\ t = [s EXCEPT !.status = v] => HasFields(t, v, s.gen, s.initiator, s.remote)
           /\ t = [s EXCEPT !.gen = v] => HasFields(t, s.status, v, s.initiator, s.remote)
           /\ t = [s EXCEPT !.initiator = v] => HasFields(t, s.status, s.gen, v, s.remote)
           /\ t = [s EXCEPT !.remote = v] => HasFields(t, s.status, s.gen, s.initiator, v)
           /\ t = [s EXCEPT !.fresh = v] \/ t = [s EXCEPT !.highest = v]
              \/ t = [s EXCEPT !.seen = v] \/ t = [s EXCEPT !.pending = v]
                => HasFields(t, s.status, s.gen, s.initiator, s.remote)
BY KeysReplaced

LEMMA PutConsole ==
    ASSUME NEW c, ConsoleShape(c), NEW v, NEW d
    PROVE  /\ d = [c EXCEPT !.assoc = v] /\ AssocShape(v) =>
                ConsoleShape(d) /\ d.assoc = v /\ d.gens = c.gens /\ d.events = c.events
           /\ d = [c EXCEPT !.gens = v] =>
                ConsoleShape(d) /\ d.assoc = c.assoc /\ d.gens = v /\ d.events = c.events
           /\ d = [c EXCEPT !.events = v] =>
                ConsoleShape(d) /\ d.assoc = c.assoc /\ d.gens = c.gens /\ d.events = v
<1>1. d = [c EXCEPT !.assoc = v] /\ AssocShape(v) =>
        ConsoleShape(d) /\ d.assoc = v /\ d.gens = c.gens /\ d.events = c.events
  BY DEF ConsoleShape
<1>2. d = [c EXCEPT !.gens = v] =>
        ConsoleShape(d) /\ d.assoc = c.assoc /\ d.gens = v /\ d.events = c.events
  BY DEF ConsoleShape
<1>3. d = [c EXCEPT !.events = v] =>
        ConsoleShape(d) /\ d.assoc = c.assoc /\ d.gens = c.gens /\ d.events = v
  BY DEF ConsoleShape
<1> QED
  BY <1>1, <1>2, <1>3

LEMMA NoneShape ==
    AssocShape(None) /\ None.status = "None" /\ None.gen = 0
BY DEF AssocShape, None

(* What the events of a call tell.                                           *)
LEMMA EventTells ==
    ASSUME NEW c, ConsoleShape(c), Generated(c), IsASequence(c.events), NEW type, NEW packet,
           type # "Retired" <=> Established(c.assoc),
           NEW d, ConsoleShape(d), d.assoc = c.assoc, d.gens = c.gens,
           d.events = Append(c.events, Event(type, packet))
    PROVE  Sound(d) /\ \A u : Knows(d, u)
<1>1. /\ IsASequence(d.events) /\ d.events # <<>>
      /\ Last(d.events) = Event(type, packet)
  BY AppendToAny
<1>2. Last(d.events).type = type
  BY <1>1 DEF Event
<1> QED
  BY <1>1, <1>2 DEF Sound, Generated, Knows

LEMMA RetireMoves ==
    ASSUME NEW c, Sound(c)
    PROVE  Moves(c, Retire(c)) /\ Retire(c).assoc = None /\ Retire(c).gens = c.gens
<1> DEFINE es == <<Event("Retired", 0)>>
           c1 == [c EXCEPT !.assoc = None]
           c2 == [c1 EXCEPT !.lost = TRUE]
           d == [c2 EXCEPT !.events = es]
<1>1. Retire(c) = d
  BY DEF Retire
<1>2. ConsoleShape(c1) /\ c1.assoc = None /\ c1.gens = c.gens
  BY AssocReplaced, NoneShape DEF Sound
<1> HIDE DEF c1
<1>3. ConsoleShape(c2) /\ c2.assoc = None /\ c2.gens = c.gens
  BY <1>2, LostReplaced
<1> HIDE DEF c2
<1>4. IsASequence(es) /\ es # <<>> /\ Last(es).type = "Retired"
  <2>1. es \in Seq({Event("Retired", 0)})
    OBVIOUS
  <2> QED
    BY <2>1 DEF IsASequence, Last, Event
<1> HIDE DEF es
<1>5. ConsoleShape(d) /\ d.assoc = None /\ d.gens = c.gens /\ d.events = es
  BY <1>3, EventsReplaced
<1> HIDE DEF d
<1>6. Sound(d) /\ Advances(c, d)
  BY <1>4, <1>5, NoneShape
  DEF Sound, Generated, Exists, Established, Advances, Knows
<1> QED
  BY <1>1, <1>5, <1>6 DEF Moves

LEMMA EstablishMoves ==
    ASSUME NEW m, NEW c, Sound(c), Exists(c.assoc)
    PROVE  Moves(c, Establish(m, c)) /\ Established(Establish(m, c).assoc)
<1>1. CASE Established(c.assoc)
  BY <1>1, MovesSelf DEF Establish
<1>2. CASE ~Established(c.assoc)
  <2> DEFINE a == [c.assoc EXCEPT !.status = "Established", !.attempts = 0]
             es == Append(c.events, Event("Connected", 0))
             c1 == [c EXCEPT !.assoc = a]
             told == [c1 EXCEPT !.events = es]
             kept == Protect(m, told, Keepalive)
             flushed == FlushPending(m, kept)
  <2>1. AssocShape(a) /\ a.status = "Established" /\ a.gen = c.assoc.gen
    <3> DEFINE b == [c.assoc EXCEPT !.status = "Established"]
    <3>1. HasFields(b, "Established", c.assoc.gen, c.assoc.initiator, c.assoc.remote)
      BY KeysReplaced DEF Sound, ConsoleShape
    <3>2. a = [b EXCEPT !.attempts = 0]
      OBVIOUS
    <3> HIDE DEF b, a
    <3>3. AssocShape(b) /\ b.status = "Established" /\ b.gen = c.assoc.gen
      BY <3>1 DEF HasFields
    <3>4. HasFields(a, b.status, b.gen, b.initiator, b.remote)
      BY <3>2, <3>3, KeysReplaced
    <3> QED
      BY <3>3, <3>4 DEF HasFields
  <2>2. Establish(m, c) = flushed
    <3>1. [c EXCEPT !.assoc.status = "Established", !.assoc.attempts = 0,
                    !.events = Append(@, Event("Connected", 0))] = told
      BY DEF Sound, ConsoleShape
    <3> QED
      BY <1>2, <3>1 DEF Establish
  <2> HIDE DEF a, es
  <2>3. ConsoleShape(c1) /\ c1.assoc = a /\ c1.gens = c.gens /\ c1.events = c.events
    BY <2>1, AssocReplaced DEF Sound
  <2> HIDE DEF c1
  <2>4. ConsoleShape(told) /\ told.assoc = a /\ told.gens = c.gens /\ told.events = es
    BY <2>3, EventsReplaced
  <2> HIDE DEF told
  <2>5. Generated(c1) /\ IsASequence(c1.events) /\ Established(c1.assoc)
    BY <2>1, <2>3 DEF Sound, Generated, Established, Exists
  <2>6. Sound(told) /\ \A u : Knows(told, u)
    BY <2>3, <2>4, <2>5, EventTells DEF es
  <2>7. Moves(c, told)
    BY <1>2, <2>1, <2>4, <2>6 DEF Moves, Advances, Sound, Generated
  <2>8. Alike(told, kept)
    BY <2>4, ProtectAlike
  <2> HIDE DEF kept
  <2>9. Alike(kept, flushed)
    BY <2>8, FlushAlike DEF Alike
  <2> HIDE DEF flushed
  <2>10. Alike(told, flushed)
    BY <2>8, <2>9, AlikeTransitive
  <2>11. Moves(c, flushed)
    BY <2>6, <2>7, <2>10, AlikeMoves, MovesTransitive
  <2>12. Established(flushed.assoc)
    BY <2>1, <2>4, <2>10 DEF Alike, Established
  <2> QED
    BY <2>2, <2>11, <2>12
<1> QED
  BY <1>1, <1>2

(* A console whose association is replaced by a pending one that it has just *)
(* drawn a generation for.                                                   *)
LEMMA DrawnMoves ==
    ASSUME NEW c, Sound(c), ~Established(c.assoc), NEW a, AssocShape(a),
           a.status = "Pending", a.gen = c.gens + 1
    PROVE  Moves(c, [c EXCEPT !.gens = @ + 1, !.assoc = a])
<1> DEFINE g == c.gens + 1
           c1 == [c EXCEPT !.gens = g]
           d == [c1 EXCEPT !.assoc = a]
<1>1. [c EXCEPT !.gens = @ + 1, !.assoc = a] = d
  OBVIOUS
<1> HIDE DEF g
<1>2. ConsoleShape(c1) /\ c1.gens = g /\ c1.events = c.events
  BY GenerationsReplaced DEF Sound
<1>3. d = [c1 EXCEPT !.assoc = a]
  OBVIOUS
<1> HIDE DEF c1, d
<1>4a. ConsoleShape(d) /\ d.assoc = a /\ d.gens = c1.gens /\ d.events = c1.events
  BY <1>2, <1>3, PutConsole
<1>4. g \in Nat /\ g > c.gens /\ g # 0 /\ c.gens \in Nat /\ a.gen = g
  BY DEF g, Sound, Generated
<1>5. Sound(d)
  BY <1>2, <1>4, <1>4a DEF Sound, Generated, Exists
<1>6. Advances(c, d)
  BY <1>2, <1>4, <1>4a DEF Advances, Sound, Generated, Established, Knows
<1> QED
  BY <1>1, <1>5, <1>6 DEF Moves

LEMMA CreatedFields ==
    ASSUME NEW c
    PROVE  HasFields(Created(c), "Pending", c.gens + 1, FALSE, 0)
<1> DEFINE s == [None EXCEPT !.status = "Pending"]
           g == c.gens + 1
<1>1. None.initiator = FALSE /\ None.remote = 0
  BY DEF None
<1>2. s = [None EXCEPT !.status = "Pending"] /\ Created(c) = [s EXCEPT !.gen = g]
  BY DEF Created
<1> HIDE DEF s
<1>3. HasFields(s, "Pending", None.gen, None.initiator, None.remote)
  BY <1>2, NoneShape, Put
<1>4. AssocShape(s)
  BY <1>3 DEF HasFields
<1> HIDE DEF g
<1>5. HasFields(Created(c), s.status, g, s.initiator, s.remote)
  BY <1>2, <1>4, Put
<1> QED
  BY <1>1, <1>3, <1>5, NoneShape DEF HasFields, g

LEMMA ConnectMoves ==
    ASSUME NEW m, NEW c, Sound(c)
    PROVE  Moves(c, Connect(m, c))
<1>1. CASE Exists(c.assoc) \/ c.room = 0 \/ ~CanCreate(c)
  BY <1>1, MovesSelf DEF Connect
<1>2. CASE ~(Exists(c.assoc) \/ c.room = 0 \/ ~CanCreate(c))
  <2> DEFINE k == Created(c)
             a == [k EXCEPT !.initiator = TRUE]
             d == [c EXCEPT !.gens = @ + 1, !.assoc = a]
  <2>1. Connect(m, c) = ExchangePacket(m, d)
    BY <1>2 DEF Connect
  <2>2. HasFields(k, "Pending", c.gens + 1, FALSE, 0) /\ AssocShape(k)
    BY CreatedFields DEF HasFields
  <2>2a. a = [k EXCEPT !.initiator = TRUE]
    OBVIOUS
  <2> HIDE DEF k, a
  <2>3. HasFields(a, k.status, k.gen, TRUE, k.remote)
    BY <2>2, <2>2a, Put
  <2>4. AssocShape(a) /\ a.status = "Pending" /\ a.gen = c.gens + 1
    BY <2>2, <2>3 DEF HasFields
  <2>5. ~Established(c.assoc)
    BY <1>2 DEF Exists, Established
  <2>6. Moves(c, d)
    BY <2>4, <2>5, DrawnMoves
  <2> HIDE DEF d
  <2>7. Alike(d, ExchangePacket(m, d))
    BY <2>6, ExchangeAlike DEF Moves, Sound
  <2> QED
    BY <2>1, <2>6, <2>7, AlikeMoves, MovesTransitive DEF Moves
<1> QED
  BY <1>1, <1>2

LEMMA SendMoves ==
    ASSUME NEW m, NEW c, NEW body, Sound(c)
    PROVE  Moves(c, SendPacket(m, c, body))
<1>1. CASE Established(c.assoc)
  BY <1>1, ProtectAlike, AlikeMoves DEF SendPacket, Sound
<1>2. CASE ~Established(c.assoc)
  <2> DEFINE p == Append(c.assoc.pending, body)
  <2>1. SendPacket(m, c, body) = [c EXCEPT !.assoc.pending = p]
    BY <1>2 DEF SendPacket
  <2> HIDE DEF p
  <2> QED
    BY <2>1, PendingAlike, AlikeMoves DEF Sound
<1> QED
  BY <1>1, <1>2

LEMMA ResponseMoves ==
    ASSUME NEW m, NEW c, NEW x, Sound(c)
    PROVE  Moves(c, ReceiveResponse(m, c, x))
<1>1. CASE ~IsAnswer(c.assoc, x) \/ Rekeys(c.assoc, x)
  BY <1>1, MovesSelf DEF ReceiveResponse
<1>2. CASE IsAnswer(c.assoc, x) /\ ~Rekeys(c.assoc, x)
  <2> DEFINE v == x.responder
             w == x.fresh
             b == [c.assoc EXCEPT !.remote = v]
             a == [b EXCEPT !.fresh = w]
             met == [c EXCEPT !.assoc = a]
  <2>1. [c EXCEPT !.assoc.remote = x.responder, !.assoc.fresh = x.fresh] = met
    BY DEF Sound, ConsoleShape
  <2>2. ReceiveResponse(m, c, x) = IF Established(c.assoc) THEN Protect(m, met, Keepalive)
                                   ELSE Establish(m, met)
    BY <1>2, <2>1 DEF ReceiveResponse
  <2>3. Exists(c.assoc) /\ (Established(c.assoc) => c.assoc.remote = v)
    BY <1>2 DEF IsAnswer, Rekeys
  <2> HIDE DEF v, w
  <2>4. HasFields(b, c.assoc.status, c.assoc.gen, c.assoc.initiator, v)
    BY KeysReplaced DEF Sound, ConsoleShape
  <2>4a. a = [b EXCEPT !.fresh = w] /\ AssocShape(b)
    BY <2>4 DEF HasFields
  <2> HIDE DEF b, a
  <2>5. HasFields(a, b.status, b.gen, b.initiator, b.remote)
    BY <2>4a, Put
  <2>6. HasFields(a, c.assoc.status, c.assoc.gen, c.assoc.initiator, v)
    BY <2>4, <2>5 DEF HasFields
  <2>7. ConsoleShape(met) /\ met.assoc = a /\ met.gens = c.gens /\ met.events = c.events
    BY <2>6, AssocReplaced DEF Sound, HasFields
  <2> HIDE DEF met
  <2>8. Sound(met)
    BY <2>6, <2>7 DEF Sound, Generated, Exists, HasFields
  <2>9. Moves(c, met)
    BY <2>3, <2>6, <2>7, <2>8
    DEF Moves, Advances, Established, Keys, Knows, Sound, Generated, HasFields
  <2>10. CASE Established(c.assoc)
    <3>1. Alike(met, Protect(m, met, Keepalive))
      BY <2>7, ProtectAlike
    <3> QED
      BY <2>2, <2>8, <2>9, <2>10, <3>1, AlikeMoves, MovesTransitive
  <2>11. CASE ~Established(c.assoc)
    <3>1. Exists(met.assoc)
      BY <2>3, <2>6, <2>7 DEF Exists, HasFields
    <3>2. Moves(met, Establish(m, met))
      BY <2>8, <3>1, EstablishMoves
    <3> QED
      BY <2>2, <2>9, <2>11, <3>2, MovesTransitive
  <2> QED
    BY <2>10, <2>11
<1> QED
  BY <1>1, <1>2

(* Requests.                                                                 *)
LEMMA AnswerRetryMoves ==
    ASSUME NEW m, NEW c, NEW x, Sound(c)
    PROVE  Moves(c, AnswerRetry(m, c, x))
<1> DEFINE w == x.fresh
           noted == [c EXCEPT !.assoc.fresh = w]
<1>1. AnswerRetry(m, c, x) = IF c.assoc.status = "Pending" THEN ExchangePacket(m, noted)
                             ELSE noted
  BY DEF AnswerRetry
<1> HIDE DEF w
<1>2. Alike(c, noted)
  BY FreshAlike DEF Sound
<1> HIDE DEF noted
<1>3. Alike(noted, ExchangePacket(m, noted))
  BY <1>2, ExchangeAlike DEF Alike
<1>4. Alike(c, AnswerRetry(m, c, x))
  BY <1>1, <1>2, <1>3, AlikeTransitive
<1> QED
  BY <1>4, AlikeMoves

(* A pending association that is given up at once.                           *)
LEMMA DroppedMoves ==
    ASSUME NEW c, Sound(c), ~Established(c.assoc)
    PROVE  Moves(c, [c EXCEPT !.assoc = None])
<1> DEFINE d == [c EXCEPT !.assoc = None]
<1>1. d = [c EXCEPT !.assoc = None]
  OBVIOUS
<1> HIDE DEF d
<1>2. ConsoleShape(d) /\ d.assoc = None /\ d.gens = c.gens /\ d.events = c.events
  BY <1>1, NoneShape, PutConsole DEF Sound
<1>3. Sound(d) /\ Advances(c, d)
  BY <1>2, NoneShape DEF Sound, Generated, Exists, Established, Advances, Knows
<1> QED
  BY <1>1, <1>3 DEF Moves

LEMMA MadeRoomMoves ==
    ASSUME NEW c, Sound(c)
    PROVE  /\ Moves(c, MadeRoom(c)) /\ MadeRoom(c).gens = c.gens
           /\ ~Established(MadeRoom(c).assoc)
<1>1. CASE Exists(c.assoc) /\ ~HasAsked(c.assoc)
  BY <1>1, RetireMoves, NoneShape DEF MadeRoom, Established
<1>2. CASE ~(Exists(c.assoc) /\ ~HasAsked(c.assoc))
  BY <1>2, MovesSelf DEF MadeRoom, Exists, HasAsked, Established
<1> QED
  BY <1>1, <1>2

LEMMA AnswerNewMoves ==
    ASSUME NEW m, NEW c, NEW x, Sound(c)
    PROVE  Moves(c, AnswerNew(m, c, x))
<1> DEFINE r == x.initiator
           w == x.fresh
           p == Keeps(c)
           k == Created(c)
           k1 == [k EXCEPT !.remote = r]
           k2 == [k1 EXCEPT !.fresh = w]
           answer == [k2 EXCEPT !.pending = p]
           room == MadeRoom(c)
           drawn == [room EXCEPT !.gens = @ + 1, !.assoc = answer]
           sent == ExchangePacket(m, drawn)
<1>1. AnswerNew(m, c, x) = IF c.room = 0 THEN [sent EXCEPT !.assoc = None] ELSE sent
  <2>1. [Created(c) EXCEPT !.remote = x.initiator, !.fresh = x.fresh,
                           !.pending = Keeps(c)] = answer
    OBVIOUS
  <2> QED
    BY <2>1 DEF AnswerNew
<1>2. /\ HasFields(k, "Pending", c.gens + 1, FALSE, 0) /\ AssocShape(k)
      /\ k1 = [k EXCEPT !.remote = r] /\ k2 = [k1 EXCEPT !.fresh = w]
      /\ answer = [k2 EXCEPT !.pending = p]
  BY CreatedFields DEF HasFields
<1> HIDE DEF r, w, p, k, k1, k2, answer
<1>3. HasFields(k1, k.status, k.gen, k.initiator, r) /\ AssocShape(k1)
  BY <1>2, Put DEF HasFields
<1>4. HasFields(k2, k1.status, k1.gen, k1.initiator, k1.remote) /\ AssocShape(k2)
  <2>1. HasFields(k2, k1.status, k1.gen, k1.initiator, k1.remote)
    BY <1>2, <1>3, Put
  <2> QED
    BY <2>1 DEF HasFields
<1>5. HasFields(answer, k2.status, k2.gen, k2.initiator, k2.remote)
  BY <1>2, <1>4, Put
<1>6. AssocShape(answer) /\ answer.status = "Pending" /\ answer.gen = c.gens + 1
  BY <1>2, <1>3, <1>4, <1>5 DEF HasFields
<1>7. Moves(c, room) /\ room.gens = c.gens /\ ~Established(room.assoc)
  BY MadeRoomMoves
<1> HIDE DEF room
<1>8. Moves(room, drawn)
  BY <1>6, <1>7, DrawnMoves DEF Moves
<1>9. ~Established(drawn.assoc)
  BY <1>6, <1>7 DEF Moves, Sound, ConsoleShape, Established
<1> HIDE DEF drawn
<1>10. Alike(drawn, sent)
  BY <1>8, ExchangeAlike DEF Moves, Sound
<1> HIDE DEF sent
<1>11. Moves(drawn, sent) /\ ~Established(sent.assoc)
  BY <1>8, <1>9, <1>10, AlikeMoves DEF Moves, Alike, Established
<1>12. Moves(c, sent)
  BY <1>7, <1>8, <1>11, MovesTransitive DEF Moves
<1>13. Moves(sent, [sent EXCEPT !.assoc = None])
  BY <1>11, DroppedMoves DEF Moves
<1>14. Moves(c, [sent EXCEPT !.assoc = None])
  BY <1>12, <1>13, MovesTransitive
<1> QED
  BY <1>1, <1>12, <1>14

LEMMA RequestMoves ==
    ASSUME NEW m, NEW c, NEW x, Sound(c)
    PROVE  Moves(c, ReceiveRequest(m, c, x))
<1>1. \/ ReceiveRequest(m, c, x) = c
      \/ ReceiveRequest(m, c, x) = AnswerNew(m, c, x)
      \/ ReceiveRequest(m, c, x) = AnswerRetry(m, c, x)
  BY DEF ReceiveRequest
<1> QED
  BY <1>1, MovesSelf, AnswerNewMoves, AnswerRetryMoves

-----------------------------------------------------------------------------
(* Packets that arrive, and the calls of the timer.                          *)

LEMMA CommitAlike ==
    ASSUME NEW c, ConsoleShape(c), NEW n
    PROVE  Alike(c, [c EXCEPT !.assoc = Commit(c.assoc, n)])
<1> DEFINE s == c.assoc
           h == IF n > s.highest THEN n ELSE s.highest
           seen == {k \in s.seen \cup {n} : h - k < Window}
           s1 == [s EXCEPT !.highest = h]
           s2 == [s1 EXCEPT !.seen = seen]
           d == [c EXCEPT !.assoc = s2]
<1>1. Commit(c.assoc, n) = s2
  <2>1. Commit(s, n) = [s EXCEPT !.highest = h, !.seen = seen]
    BY DEF Commit
  <2> HIDE DEF h, seen
  <2> QED
    BY <2>1
<1>2. s1 = [s EXCEPT !.highest = h] /\ s2 = [s1 EXCEPT !.seen = seen] /\ AssocShape(s)
  BY DEF ConsoleShape
<1>3. d = [c EXCEPT !.assoc = s2]
  OBVIOUS
<1> HIDE DEF h, seen, s1, s2, d
<1>4. HasFields(s1, s.status, s.gen, s.initiator, s.remote)
  BY <1>2, Put
<1>5. AssocShape(s1)
  BY <1>4 DEF HasFields
<1>6. HasFields(s2, s1.status, s1.gen, s1.initiator, s1.remote)
  BY <1>2, <1>5, Put
<1>7. AssocShape(s2)
  BY <1>6 DEF HasFields
<1>8. ConsoleShape(d) /\ d.assoc = s2 /\ d.gens = c.gens /\ d.events = c.events
  BY <1>3, <1>7, PutConsole
<1> QED
  BY <1>1, <1>3, <1>4, <1>6, <1>8 DEF HasFields, Alike

LEMMA DatagramMoves ==
    ASSUME NEW c, Sound(c), Established(c.assoc), NEW body
    PROVE  Moves(c, [c EXCEPT !.events = Append(@, Event("Datagram", body))])
<1> DEFINE es == Append(c.events, Event("Datagram", body))
           d == [c EXCEPT !.events = es]
<1>1. d = [c EXCEPT !.events = es]
  OBVIOUS
<1> HIDE DEF es, d
<1>2. ConsoleShape(d) /\ d.assoc = c.assoc /\ d.gens = c.gens /\ d.events = es
  <2>1. ConsoleShape(c)
    BY DEF Sound
  <2> QED
    BY <1>1, <2>1, PutConsole
<1>3. d.events = Append(c.events, Event("Datagram", body))
  BY <1>2 DEF es
<1>4. "Datagram" # "Retired" <=> Established(c.assoc)
  OBVIOUS
<1>5. ConsoleShape(c) /\ Generated(c) /\ IsASequence(c.events)
  BY DEF Sound
<1>6. Sound(d) /\ \A u : Knows(d, u)
  BY <1>2, <1>3, <1>4, <1>5, EventTells
<1>7. Moves(c, d)
  BY <1>2, <1>6 DEF Moves, Advances, Sound, Generated
<1> QED
  BY <1>7 DEF d, es

LEMMA PacketMoves ==
    ASSUME NEW m, NEW c, NEW p, Sound(c)
    PROVE  Moves(c, ReceivePacket(m, c, p))
<1>1. CASE ~Decodes(c.assoc, p) \/ (c.assoc.initiator /\ ~Established(c.assoc))
  BY <1>1, MovesSelf DEF ReceivePacket
<1>2. CASE ~(~Decodes(c.assoc, p) \/ (c.assoc.initiator /\ ~Established(c.assoc)))
  <2> DEFINE n == p.sequence
             taken == [c EXCEPT !.assoc = Commit(c.assoc, n)]
             confirmed == Establish(m, taken)
             body == p.body
             told == [confirmed EXCEPT !.events = Append(@, Event("Datagram", body))]
  <2>1. \/ ReceivePacket(m, c, p) = Retire(taken)
        \/ ReceivePacket(m, c, p) = confirmed
        \/ ReceivePacket(m, c, p) = told
    BY <1>2 DEF ReceivePacket, Confirmed
  <2>2. Exists(c.assoc)
    BY <1>2 DEF Decodes
  <2> HIDE DEF n, body
  <2>3. Alike(c, taken)
    BY CommitAlike DEF Sound
  <2> HIDE DEF taken
  <2>4. Moves(c, taken) /\ Sound(taken) /\ Exists(taken.assoc)
    BY <2>2, <2>3, AlikeMoves DEF Moves, Alike, Exists
  <2>5. Moves(taken, confirmed) /\ Established(confirmed.assoc)
    BY <2>4, EstablishMoves
  <2> HIDE DEF confirmed
  <2>6. Moves(c, confirmed) /\ Sound(confirmed)
    BY <2>4, <2>5, MovesTransitive DEF Moves
  <2>7. Moves(confirmed, told)
    BY <2>5, <2>6, DatagramMoves
  <2> HIDE DEF told
  <2>8. Moves(c, told)
    BY <2>6, <2>7, MovesTransitive
  <2>9. Moves(c, Retire(taken))
    BY <2>4, RetireMoves, MovesTransitive
  <2> QED
    BY <2>1, <2>6, <2>8, <2>9
<1> QED
  BY <1>1, <1>2

LEMMA ReceiveMoves ==
    ASSUME NEW m, NEW c, NEW x, Sound(c)
    PROVE  Moves(c, Receive(m, c, x))
BY RequestMoves, ResponseMoves, PacketMoves DEF Receive

LEMMA TickMoves ==
    ASSUME NEW m, NEW c, Sound(c), NEW due
    PROVE  Moves(c, TickRetry(m, c)) /\ Moves(c, TickEstablished(m, c, due))
<1>1. Moves(c, TickRetry(m, c))
  BY RetireMoves, ExchangeAlike, AlikeMoves DEF TickRetry, Sound
<1>2. Moves(c, TickEstablished(m, c, due))
  <2> DEFINE kept == IF due THEN Protect(m, c, Keepalive) ELSE c
  <2>1. Alike(c, kept)
    BY ProtectAlike, AlikeSelf DEF Sound
  <2> HIDE DEF kept
  <2>2. Alike(kept, FlushPending(m, kept))
    BY <2>1, FlushAlike DEF Alike
  <2>3. TickEstablished(m, c, due) = FlushPending(m, kept)
    BY DEF TickEstablished, kept
  <2> QED
    BY <2>1, <2>2, <2>3, AlikeTransitive, AlikeMoves
<1> QED
  BY <1>1, <1>2

LEMMA CloseMoves ==
    ASSUME NEW m, NEW c, Sound(c)
    PROVE  Moves(c, Close(m, c))
<1> DEFINE told == Protect(m, c, Teardown)
<1>1. Moves(c, told)
  BY ProtectAlike, AlikeMoves DEF Sound
<1> HIDE DEF told
<1>2. Moves(c, Retire(told))
  BY <1>1, RetireMoves, MovesTransitive DEF Moves
<1> QED
  BY <1>2, MovesSelf DEF Close, told

-----------------------------------------------------------------------------
(* The steps of the consoles.                                                *)

(* A call on one console, of which the owner is not told yet.                *)
Calls(m) == \E d : /\ console' = [console EXCEPT ![m] = d]
                   /\ Moves(console[m], d)
                   /\ up' = up

LEMMA LeaveCalls ==
    ASSUME NEW m \in Consoles, IInv, NEW room, NEW d, NEW others, NEW more,
           Moves(WithRoom(m, room), d), Leave(m, d, others, more), up' = up
    PROVE  Calls(m)
<1> DEFINE c == console[m]
           c1 == [c EXCEPT !.room = room]
           d1 == [d EXCEPT !.out = <<>>]
           d2 == [d1 EXCEPT !.room = 0]
           d3 == [d2 EXCEPT !.lost = FALSE]
<1>1. console' = [console EXCEPT ![m] = d3]
  <2>1. [d EXCEPT !.out = <<>>, !.room = 0, !.lost = FALSE] = d3
    OBVIOUS
  <2> QED
    BY <2>1 DEF Leave
<1>2. Sound(c)
  BY DEF IInv
<1>3. WithRoom(m, room) = c1
  BY DEF WithRoom
<1> HIDE DEF c
<1>4. Alike(c, c1)
  BY <1>2, RoomAlike DEF Sound
<1> HIDE DEF c1
<1>5. Moves(c, d)
  BY <1>2, <1>3, <1>4, AlikeMoves, MovesTransitive
<1>6. Alike(d, d1) /\ ConsoleShape(d1)
  BY <1>5, OutAlike DEF Moves, Sound, Alike
<1> HIDE DEF d1
<1>7a. Alike(d1, d2)
  BY <1>6, RoomAlike
<1> HIDE DEF d2
<1>7. ConsoleShape(d2)
  BY <1>7a DEF Alike
<1>8. Alike(d2, d3)
  BY <1>7, LostAlike
<1> HIDE DEF d3
<1>9. Moves(c, d3)
  BY <1>2, <1>5, <1>6, <1>7a, <1>8, AlikeTransitive, AlikeMoves, MovesTransitive DEF Moves
<1> QED
  BY <1>1, <1>9 DEF Calls, c

LEMMA RoomSound ==
    ASSUME NEW m \in Consoles, IInv, NEW room
    PROVE  Sound(WithRoom(m, room))
<1> DEFINE c == console[m]
<1>1. Sound(c) /\ WithRoom(m, room) = [c EXCEPT !.room = room]
  BY DEF IInv, WithRoom
<1> HIDE DEF c
<1>2. Alike(c, [c EXCEPT !.room = room])
  BY <1>1, RoomAlike DEF Sound
<1> QED
  BY <1>1, <1>2, AlikeAdvances

LEMMA Steps ==
    ASSUME NEW m \in Consoles, IInv,
           \/ GuestConnects(m) \/ GuestSends(m) \/ GuestCloses(m)
           \/ Arrives(m, FALSE) \/ Arrives(m, TRUE)
           \/ Retried(m) \/ KeptAlive(m) \/ Idle(m)
    PROVE  Calls(m)
<1> USE RoomSound
<1>1. CASE GuestConnects(m)
  <2>1. PICK room : Leave(m, Connect(m, WithRoom(m, room)), net, {})
    BY <1>1 DEF GuestConnects
  <2> QED
    BY <1>1, <2>1, ConnectMoves, LeaveCalls DEF GuestConnects
<1>2. CASE GuestSends(m)
  <2> DEFINE body == accepted[m] + 1
  <2>1. PICK room : Leave(m, SendPacket(m, Connect(m, WithRoom(m, room)), body),
                          net, {body})
    BY <1>2 DEF GuestSends
  <2> HIDE DEF body
  <2> DEFINE c == WithRoom(m, room)
             k == Connect(m, c)
             d == SendPacket(m, k, body)
  <2>2. Moves(c, k)
    BY ConnectMoves
  <2>3. Moves(k, d)
    BY <2>2, SendMoves DEF Moves
  <2>4. Moves(c, d)
    BY <2>2, <2>3, MovesTransitive
  <2>5. up' = up
    BY <1>2 DEF GuestSends
  <2> HIDE DEF d
  <2>6. Leave(m, d, net, {body})
    BY <2>1 DEF d
  <2> QED
    BY <2>4, <2>5, <2>6, LeaveCalls
<1>3. CASE GuestCloses(m)
  <2>1. PICK room : Leave(m, Close(m, WithRoom(m, room)), net, {})
    BY <1>3 DEF GuestCloses
  <2> QED
    BY <1>3, <2>1, CloseMoves, LeaveCalls DEF GuestCloses
<1>4. CASE Arrives(m, FALSE) \/ Arrives(m, TRUE)
  <2>1. PICK again \in BOOLEAN : Arrives(m, again)
    BY <1>4
  <2>2. PICK x, room, others : Leave(m, Receive(m, WithRoom(m, room), x), others, {})
    BY <2>1 DEF Arrives
  <2>3. up' = up
    BY <2>1 DEF Arrives
  <2> QED
    BY <2>2, <2>3, ReceiveMoves, LeaveCalls
<1>5. CASE Retried(m)
  <2>1. PICK room : Leave(m, TickRetry(m, WithRoom(m, room)), net, {})
    BY <1>5 DEF Retried
  <2> QED
    BY <1>5, <2>1, TickMoves, LeaveCalls DEF Retried
<1>6. CASE KeptAlive(m)
  <2>1. PICK room, due : Leave(m, TickEstablished(m, WithRoom(m, room), due), net, {})
    BY <1>6 DEF KeptAlive
  <2> QED
    BY <1>6, <2>1, TickMoves, LeaveCalls DEF KeptAlive
<1>7. CASE Idle(m)
  <2> DEFINE c == console[m]
             room == c.room
  <2>1. Sound(c) /\ Leave(m, Retire(c), net, {}) /\ up' = up
    BY <1>7 DEF Idle, IInv
  <2>2. WithRoom(m, room) = c
    BY <2>1 DEF WithRoom, Sound, ConsoleShape
  <2> HIDE DEF c, room
  <2>3. Moves(c, Retire(c))
    BY <2>1, RetireMoves
  <2> QED
    BY <2>1, <2>2, <2>3, LeaveCalls
<1> QED
  BY <1>1, <1>2, <1>3, <1>4, <1>5, <1>6, <1>7

(* What is true of a call's console, and what is not touched.                *)
LEMMA CallsHold ==
    ASSUME NEW m \in Consoles, IInv, Calls(m)
    PROVE  /\ IInv'
           /\ \A k \in Consoles : console'[k] = console[k] \/ Advances(console[k], console'[k])
<1>1. PICK d : /\ console' = [console EXCEPT ![m] = d]
               /\ Moves(console[m], d) /\ up' = up
  BY DEF Calls
<1>2. /\ console' = [k \in Consoles |-> console'[k]]
      /\ console'[m] = d /\ \A k \in Consoles \ {m} : console'[k] = console[k]
  BY <1>1 DEF IInv
<1>3. \A k \in Consoles : Sound(console'[k]) /\ Knows(console'[k], up'[k])
  BY <1>1, <1>2 DEF IInv, Moves, Advances
<1> QED
  BY <1>1, <1>2, <1>3 DEF IInv, Moves

LEMMA NothingToTell ==
    /\ IsASequence(<<>>)
    /\ \A c, u : c.events = <<>> => (Knows(c, u) <=> (u <=> Established(c.assoc)))
<1>1. <<>> \in Seq({})
  OBVIOUS
<1> QED
  BY <1>1 DEF IsASequence, Knows

(* A console whose events were taken, or that has lost everything.           *)
LEMMA Emptied ==
    ASSUME NEW c, Sound(c), NEW d, d = [c EXCEPT !.events = <<>>]
    PROVE  Sound(d) /\ d.events = <<>> /\ d.gens = c.gens /\ d.assoc = c.assoc
<1>1. ConsoleShape(d) /\ d.assoc = c.assoc /\ d.gens = c.gens /\ d.events = <<>>
  BY PutConsole DEF Sound
<1> QED
  BY <1>1, NothingToTell DEF Sound, Generated

LEMMA Restarted ==
    ASSUME NEW c, Sound(c), NEW b, b = [c EXCEPT !.assoc = None],
           NEW d, d = [b EXCEPT !.events = <<>>]
    PROVE  Sound(d) /\ d.events = <<>> /\ d.gens = c.gens /\ d.assoc = None
<1>1. /\ ConsoleShape(b) /\ b.assoc = None /\ b.gens = c.gens
      /\ b.events = c.events
  BY NoneShape, PutConsole DEF Sound
<1>2. Sound(b)
  BY <1>1, NoneShape DEF Sound, Generated, Exists
<1>3. Sound(d) /\ d.events = <<>> /\ d.gens = b.gens /\ d.assoc = b.assoc
  BY <1>2, Emptied
<1> QED
  BY <1>1, <1>3

(* Neither is a call; both are like one for the keys.                        *)
LEMMA RestartHolds ==
    ASSUME NEW m \in Consoles, IInv, Restart(m)
    PROVE  /\ IInv'
           /\ \A k \in Consoles : console'[k] = console[k] \/ console'[k].assoc = None
<1> DEFINE c == console[m]
           b == [c EXCEPT !.assoc = None]
           d == [b EXCEPT !.events = <<>>]
<1>1. /\ console' = [k \in Consoles |-> console'[k]] /\ console'[m] = d
      /\ \A k \in Consoles \ {m} : console'[k] = console[k]
      /\ up' \in [Consoles -> BOOLEAN] /\ up'[m] = FALSE
      /\ \A k \in Consoles \ {m} : up'[k] = up[k]
  <2>1. console' = [console EXCEPT ![m] = d] /\ up' = [up EXCEPT ![m] = FALSE]
    BY DEF Restart, IInv
  <2> HIDE DEF b, d
  <2> QED
    BY <2>1 DEF IInv
<1>2a. Sound(c)
  BY DEF IInv
<1>2b. b = [c EXCEPT !.assoc = None]
  OBVIOUS
<1>2c. d = [b EXCEPT !.events = <<>>]
  OBVIOUS
<1> HIDE DEF c, b, d
<1>3. Sound(d) /\ d.events = <<>> /\ d.assoc = None
  BY <1>2a, <1>2b, <1>2c, Restarted
<1>4. Knows(d, FALSE)
  BY <1>3, NoneShape, NothingToTell DEF Established
<1> QED
  BY <1>1, <1>3, <1>4 DEF IInv

LEMMA DeliverHolds ==
    ASSUME NEW m \in Consoles, IInv, Deliver(m)
    PROVE  /\ IInv'
           /\ \A k \in Consoles : console'[k].assoc = console[k].assoc
<1> DEFINE c == console[m]
           d == [c EXCEPT !.events = <<>>]
           u == Last(c.events).type # "Retired"
<1>1. /\ console' = [k \in Consoles |-> console'[k]] /\ console'[m] = d
      /\ \A k \in Consoles \ {m} : console'[k] = console[k]
      /\ up' \in [Consoles -> BOOLEAN] /\ up'[m] = u
      /\ \A k \in Consoles \ {m} : up'[k] = up[k]
  <2>1. console' = [console EXCEPT ![m] = d] /\ up' = [up EXCEPT ![m] = u]
        /\ u \in BOOLEAN
    BY DEF Deliver, IInv
  <2> HIDE DEF d, u
  <2> QED
    BY <2>1 DEF IInv
<1>2. Sound(c) /\ d = [c EXCEPT !.events = <<>>] /\ c.events # <<>> /\ Knows(c, up[m])
  BY DEF IInv, Deliver
<1>3. u <=> Established(c.assoc)
  BY <1>2 DEF Knows
<1> HIDE DEF d, u
<1>4. Sound(d) /\ d.events = <<>> /\ d.assoc = c.assoc
  BY <1>2, Emptied
<1>5. Knows(d, u)
  BY <1>3, <1>4, NothingToTell
<1> QED
  BY <1>1, <1>4, <1>5 DEF IInv

-----------------------------------------------------------------------------
(* The theorems.                                                             *)

LEMMA InitHolds ==
    ASSUME Init PROVE IInv
<1> DEFINE c == NewConsole
<1>1. ConsoleShape(c) /\ c.assoc = None /\ c.gens = 0 /\ c.events = <<>>
  BY NoneShape DEF NewConsole, ConsoleShape
<1>2. Sound(c) /\ Knows(c, FALSE)
  <2> HIDE DEF c
  <2>1. Generated(c)
    BY <1>1, NoneShape DEF Generated, Exists
  <2>2. ~Established(c.assoc)
    BY <1>1, NoneShape DEF Established
  <2> QED
    BY <1>1, <2>1, <2>2, NothingToTell DEF Sound
<1>3. /\ console = [m \in Consoles |-> c] /\ up = [m \in Consoles |-> FALSE]
  BY DEF Init
<1> HIDE DEF c
<1> QED
  BY <1>2, <1>3 DEF IInv

(* Other keys come with another generation only.                             *)
KeepsKeys == \A m \in Consoles :
    LET s == console[m].assoc
        t == console'[m].assoc
    IN  (Established(s) /\ t.gen = s.gen) => Established(t) /\ Keys(t) = Keys(s)

LEMMA NextHolds ==
    ASSUME IInv, [Next]_vars
    PROVE  IInv' /\ KeepsKeys
<1>1. CASE Loses \/ UNCHANGED vars
  <2>1. console' = console /\ up' = up
    BY <1>1 DEF Loses, vars
  <2> QED
    BY <2>1 DEF IInv, KeepsKeys
<1>2. ASSUME NEW m \in Consoles,
             \/ GuestConnects(m) \/ GuestSends(m) \/ GuestCloses(m)
             \/ Arrives(m, FALSE) \/ Arrives(m, TRUE)
             \/ Retried(m) \/ KeptAlive(m) \/ Idle(m)
      PROVE  IInv' /\ KeepsKeys
  <2>1. /\ IInv'
        /\ \A k \in Consoles : console'[k] = console[k] \/ Advances(console[k], console'[k])
    BY <1>2, Steps, CallsHold
  <2> QED
    BY <2>1 DEF KeepsKeys, Advances
<1>3. ASSUME NEW m \in Consoles, Restart(m)
      PROVE  IInv' /\ KeepsKeys
  <2>1. /\ IInv'
        /\ \A k \in Consoles : console'[k] = console[k] \/ console'[k].assoc = None
    BY <1>3, RestartHolds
  <2>2. \A k \in Consoles : Established(console[k].assoc) => console[k].assoc.gen # 0
    BY DEF IInv, Sound, Generated, Exists, Established
  <2> QED
    BY <2>1, <2>2, NoneShape DEF KeepsKeys
<1>4. ASSUME NEW m \in Consoles, Deliver(m)
      PROVE  IInv' /\ KeepsKeys
  BY <1>4, DeliverHolds DEF KeepsKeys
<1> QED
  BY <1>1, <1>2, <1>3, <1>4 DEF Next

LEMMA Inductive ==
    Spec => []IInv
<1>1. Init => IInv
  BY InitHolds
<1>2. IInv /\ [Next]_vars => IInv'
  BY NextHolds
<1> QED
  BY <1>1, <1>2, PTL DEF Spec

(* Once its events are taken the owner of a console (SystemLink::Deliver)    *)
(* knows whether the peer is connected, however often associations are made, *)
(* retired and their events dropped (XNetAssociations::Retire).              *)
THEOREM OwnerInformed ==
    Spec => []OwnerKnows
<1>1. IInv => OwnerKnows
  BY NothingToTell DEF IInv, OwnerKnows
<1> QED
  BY <1>1, Inductive, PTL

(* No call of an association that is established gives it other keys, and it *)
(* stays established (XNetAssociations::ReceiveResponse).                    *)
THEOREM KeysStay ==
    Spec => NeverRekeyed
<1>1. IInv /\ [Next]_vars => [KeepsKeys]_vars
  BY NextHolds
<1>2. [][KeepsKeys]_vars => NeverRekeyed
  BY DEF KeepsKeys, NeverRekeyed
<1> QED
  BY <1>1, <1>2, Inductive, PTL DEF Spec

-----------------------------------------------------------------------------
(* What Send took is queued until it goes out: for OwedIsPending a call must *)
(* carry every packet that was queued to what it leaves queued or sends,     *)
(* unless it reports the association lost.                                   *)

(* No frame of a request is refused: with a full outbound queue AnswerNew    *)
(* drops the association it made, and what the yielding side had queued.     *)
RoomToAnswer == 0 \notin Rooms

Tidy(c) ==
    /\ ConsoleShape(c) /\ IsASequence(c.out) /\ IsASequence(c.assoc.pending)
    /\ c.room \in Nat /\ c.assoc.sequence \in Nat
    /\ Exists(c.assoc) \/ c.assoc.pending = <<>>

(* What a console still has of the packets of Send, or has sent in this call. *)
Held(c) == ToSet(c.assoc.pending) \cup Bodies(c.out)

Carries(c, d) ==
    /\ Tidy(d) /\ (c.lost => d.lost)
    /\ d.lost \/ Held(c) \subseteq Held(d)

LEMMA CarriesTransitive ==
    ASSUME NEW c, NEW d, NEW e, Carries(c, d), Carries(d, e)
    PROVE  Carries(c, e)
BY DEF Carries

LEMMA CarriesSelf ==
    ASSUME NEW c, Tidy(c)
    PROVE  Carries(c, c)
BY DEF Carries

(* Two sequences one after the other.                                        *)
LEMMA Joined ==
    ASSUME NEW s, NEW t, IsASequence(s), IsASequence(t)
    PROVE  /\ IsASequence(s \o t)
           /\ Bodies(s) \cup Bodies(t) \subseteq Bodies(s \o t)
<1>1. PICK S : s \in Seq(S)
  BY DEF IsASequence
<1>2. PICK T : t \in Seq(T)
  BY DEF IsASequence
<1> DEFINE U == S \cup T
           w == s \o t
<1>3. s \in Seq(U) /\ t \in Seq(U)
  BY <1>1, <1>2
<1>4. /\ w \in Seq(U) /\ Len(w) = Len(s) + Len(t)
      /\ \A i \in 1 .. Len(s) : w[i] = s[i]
      /\ \A i \in 1 .. Len(t) : w[Len(s) + i] = t[i]
      /\ Len(s) \in Nat /\ Len(t) \in Nat
  BY <1>3
<1>5. DOMAIN s = 1 .. Len(s) /\ DOMAIN t = 1 .. Len(t) /\ DOMAIN w = 1 .. Len(w)
  BY <1>3, <1>4
<1> HIDE DEF w
<1>6. Bodies(s) \subseteq Bodies(w)
  <2> SUFFICES ASSUME NEW i \in DOMAIN s, s[i].kind = "packet"
               PROVE  s[i].body \in Bodies(w)
    BY DEF Bodies
  <2>1. i \in DOMAIN w /\ w[i] = s[i]
    BY <1>4, <1>5
  <2> QED
    BY <2>1 DEF Bodies
<1>7. Bodies(t) \subseteq Bodies(w)
  <2> SUFFICES ASSUME NEW i \in DOMAIN t, t[i].kind = "packet"
               PROVE  t[i].body \in Bodies(w)
    BY DEF Bodies
  <2>1. Len(s) + i \in DOMAIN w /\ w[Len(s) + i] = t[i]
    BY <1>4, <1>5
  <2> QED
    BY <2>1 DEF Bodies
<1> QED
  BY <1>4, <1>6, <1>7 DEF IsASequence, w

LEMMA AppendKeeps ==
    ASSUME NEW s, IsASequence(s), NEW x
    PROVE  /\ IsASequence(Append(s, x)) /\ Bodies(s) \subseteq Bodies(Append(s, x))
           /\ ToSet(s) \subseteq ToSet(Append(s, x)) /\ x \in ToSet(Append(s, x))
<1>1. PICK S : s \in Seq(S)
  BY DEF IsASequence
<1> DEFINE U == S \cup {x}
           w == Append(s, x)
<1>2. s \in Seq(U)
  BY <1>1
<1>3. /\ w \in Seq(U) /\ Len(w) = Len(s) + 1 /\ w[Len(s) + 1] = x
      /\ \A i \in 1 .. Len(s) : w[i] = s[i]
      /\ Len(s) \in Nat
  BY <1>2
<1>4. DOMAIN s = 1 .. Len(s) /\ DOMAIN w = 1 .. Len(w)
  BY <1>2, <1>3
<1> HIDE DEF w
<1>5. \A i \in DOMAIN s : i \in DOMAIN w /\ w[i] = s[i]
  BY <1>3, <1>4
<1>6. Bodies(s) \subseteq Bodies(w)
  BY <1>5 DEF Bodies
<1>7. ToSet(s) \subseteq ToSet(w) /\ x \in ToSet(w)
  BY <1>3, <1>4, <1>5 DEF ToSet
<1> QED
  BY <1>3, <1>6, <1>7 DEF IsASequence, w

(* A sequence cut in two.                                                    *)
LEMMA LengthOfRest ==
    ASSUME NEW l \in Nat, NEW n \in 0 .. l
    PROVE  (IF n + 1 <= l THEN l - (n + 1) + 1 ELSE 0) = l - n
OBVIOUS

LEMMA Cut ==
    ASSUME NEW s, IsASequence(s), NEW n \in 0 .. Len(s)
    PROVE  /\ IsASequence(SubSeq(s, 1, n)) /\ Len(SubSeq(s, 1, n)) = n
           /\ IsASequence(SubSeq(s, n + 1, Len(s)))
           /\ ToSet(s) \subseteq ToSet(SubSeq(s, 1, n)) \cup ToSet(SubSeq(s, n + 1, Len(s)))
<1>1. PICK S : s \in Seq(S)
  BY DEF IsASequence
<1> DEFINE a == SubSeq(s, 1, n)
           b == SubSeq(s, n + 1, Len(s))
<1>2. Len(s) \in Nat /\ DOMAIN s = 1 .. Len(s) /\ n \in Nat /\ n <= Len(s)
  BY <1>1
<1>3. /\ a \in Seq(S) /\ Len(a) = n /\ DOMAIN a = 1 .. n
      /\ \A i \in 1 .. n : a[i] = s[i]
  BY <1>1, <1>2
<1>4. /\ b \in Seq(S) /\ Len(b) = Len(s) - n /\ DOMAIN b = 1 .. Len(s) - n
      /\ \A i \in 1 .. Len(s) - n : b[i] = s[n + i]
  <2>1. \A i \in n + 1 .. Len(s) : s[i] \in S
    BY <1>1, <1>2
  <2>2. /\ b \in Seq(S) /\ Len(b) = IF n + 1 <= Len(s) THEN Len(s) - (n + 1) + 1 ELSE 0
        /\ \A i \in 1 .. Len(s) - (n + 1) + 1 : b[i] = s[n + 1 + i - 1]
    BY <1>2, <2>1, SubSeqProperties
  <2> HIDE DEF b
  <2>3. Len(b) = Len(s) - n
    BY <1>2, <2>2, LengthOfRest
  <2>3a. DOMAIN b = 1 .. Len(b)
    BY <2>2
  <2>4. \A i \in 1 .. Len(s) - n : n + 1 + i - 1 = n + i /\ i \in 1 .. Len(s) - (n + 1) + 1
    BY <1>2
  <2> QED
    BY <2>2, <2>3, <2>3a, <2>4
<1> HIDE DEF a, b
<1>5. ASSUME NEW i \in DOMAIN s PROVE s[i] \in ToSet(a) \cup ToSet(b)
  <2>1. CASE i <= n
    BY <1>2, <1>3, <2>1 DEF ToSet
  <2>2. CASE i > n
    <3>1. i - n \in DOMAIN b /\ b[i - n] = s[i]
      BY <1>2, <1>4, <2>2
    <3> QED
      BY <3>1 DEF ToSet
  <2> QED
    BY <1>2, <2>1, <2>2
<1>6. ToSet(s) \subseteq ToSet(a) \cup ToSet(b)
  BY <1>5 DEF ToSet
<1> QED
  BY <1>3, <1>4, <1>6 DEF IsASequence, a, b

LEMMA LeastOfTwo ==
    ASSUME NEW i \in Nat, NEW j \in Nat
    PROVE  Min({i, j}) \in Nat /\ Min({i, j}) <= i /\ Min({i, j}) <= j
<1>1. \E x \in {i, j} : \A y \in {i, j} : x <= y
  OBVIOUS
<1> QED
  BY <1>1 DEF Min

(* The fields of a console that this is about.                               *)
Fields(d, assoc, out, room, lost) ==
    ConsoleShape(d) /\ d.assoc = assoc /\ d.out = out /\ d.room = room /\ d.lost = lost

LEMMA ConsolePut ==
    ASSUME NEW c, ConsoleShape(c), NEW v, NEW d
    PROVE  /\ d = [c EXCEPT !.out = v] => Fields(d, c.assoc, v, c.room, c.lost)
           /\ d = [c EXCEPT !.room = v] => Fields(d, c.assoc, c.out, v, c.lost)
           /\ d = [c EXCEPT !.lost = v] => Fields(d, c.assoc, c.out, c.room, v)
           /\ d = [c EXCEPT !.clock = v] \/ d = [c EXCEPT !.gens = v]
              \/ d = [c EXCEPT !.events = v] => Fields(d, c.assoc, c.out, c.room, c.lost)
           /\ d = [c EXCEPT !.assoc = v] /\ AssocShape(v) =>
                Fields(d, v, c.out, c.room, c.lost)
<1>1. d = [c EXCEPT !.out = v] => Fields(d, c.assoc, v, c.room, c.lost)
  BY DEF ConsoleShape, Fields
<1>2. d = [c EXCEPT !.room = v] => Fields(d, c.assoc, c.out, v, c.lost)
  BY DEF ConsoleShape, Fields
<1>3. d = [c EXCEPT !.lost = v] => Fields(d, c.assoc, c.out, c.room, v)
  BY DEF ConsoleShape, Fields
<1>4. d = [c EXCEPT !.clock = v] => Fields(d, c.assoc, c.out, c.room, c.lost)
  BY DEF ConsoleShape, Fields
<1>5. d = [c EXCEPT !.gens = v] => Fields(d, c.assoc, c.out, c.room, c.lost)
  BY DEF ConsoleShape, Fields
<1>6. d = [c EXCEPT !.events = v] => Fields(d, c.assoc, c.out, c.room, c.lost)
  BY DEF ConsoleShape, Fields
<1>7. d = [c EXCEPT !.assoc = v] /\ AssocShape(v) => Fields(d, v, c.out, c.room, c.lost)
  BY DEF ConsoleShape, Fields
<1> QED
  BY <1>1, <1>2, <1>3, <1>4, <1>5, <1>6, <1>7

(* The fields of an association that this is about.                          *)
Queues(s, pending, sequence, status) ==
    AssocShape(s) /\ s.pending = pending /\ s.sequence = sequence /\ s.status = status

LEMMA AssocPut ==
    ASSUME NEW s, AssocShape(s), NEW v, NEW t
    PROVE  /\ t = [s EXCEPT !.pending = v] => Queues(t, v, s.sequence, s.status)
           /\ t = [s EXCEPT !.sequence = v] => Queues(t, s.pending, v, s.status)
           /\ t = [s EXCEPT !.status = v] => Queues(t, s.pending, s.sequence, v)
           /\ t = [s EXCEPT !.attempts = v] \/ t = [s EXCEPT !.fresh = v]
              \/ t = [s EXCEPT !.remote = v] \/ t = [s EXCEPT !.gen = v]
              \/ t = [s EXCEPT !.highest = v] \/ t = [s EXCEPT !.seen = v]
              \/ t = [s EXCEPT !.initiator = v]
                => Queues(t, s.pending, s.sequence, s.status)
<1>1. t = [s EXCEPT !.pending = v] => Queues(t, v, s.sequence, s.status)
  BY DEF AssocShape, Queues
<1>2. t = [s EXCEPT !.sequence = v] => Queues(t, s.pending, v, s.status)
  BY DEF AssocShape, Queues
<1>3. t = [s EXCEPT !.status = v] => Queues(t, s.pending, s.sequence, v)
  BY DEF AssocShape, Queues
<1>4. t = [s EXCEPT !.attempts = v] => Queues(t, s.pending, s.sequence, s.status)
  BY DEF AssocShape, Queues
<1>5. t = [s EXCEPT !.fresh = v] => Queues(t, s.pending, s.sequence, s.status)
  BY DEF AssocShape, Queues
<1>6. t = [s EXCEPT !.remote = v] => Queues(t, s.pending, s.sequence, s.status)
  BY DEF AssocShape, Queues
<1>7. t = [s EXCEPT !.gen = v] => Queues(t, s.pending, s.sequence, s.status)
  BY DEF AssocShape, Queues
<1>8. t = [s EXCEPT !.highest = v] => Queues(t, s.pending, s.sequence, s.status)
  BY DEF AssocShape, Queues
<1>9. t = [s EXCEPT !.seen = v] => Queues(t, s.pending, s.sequence, s.status)
  BY DEF AssocShape, Queues
<1>10. t = [s EXCEPT !.initiator = v] => Queues(t, s.pending, s.sequence, s.status)
  BY DEF AssocShape, Queues
<1> QED
  BY <1>1, <1>2, <1>3, <1>4, <1>5, <1>6, <1>7, <1>8, <1>9, <1>10

(* A step that leaves them alone, or gives the association more to hold.     *)
LEMMA FieldsCarry ==
    ASSUME NEW c, Tidy(c), NEW d, NEW a, Fields(d, a, c.out, c.room, c.lost),
           IsASequence(a.pending), a.sequence \in Nat, Exists(a) \/ a.pending = <<>>,
           ToSet(c.assoc.pending) \subseteq ToSet(a.pending)
    PROVE  Carries(c, d)
BY DEF Fields, Tidy, Carries, Held

LEMMA FieldsKeep ==
    ASSUME NEW c, Tidy(c), NEW d, Fields(d, c.assoc, c.out, c.room, c.lost)
    PROVE  Carries(c, d)
BY FieldsCarry DEF Tidy

(* The same of an association with one field replaced.                       *)
LEMMA QueuesCarry ==
    ASSUME NEW c, Tidy(c), NEW a, Queues(a, c.assoc.pending, c.assoc.sequence, a.status),
           Exists(c.assoc) => Exists(a), NEW d, d = [c EXCEPT !.assoc = a]
    PROVE  Carries(c, d)
<1>1. Fields(d, a, c.out, c.room, c.lost)
  BY ConsolePut DEF Queues, Tidy
<1> QED
  BY <1>1, FieldsCarry DEF Queues, Tidy

(* An empty queue holds nothing.                                             *)
LEMMA NothingQueued ==
    /\ IsASequence(<<>>) /\ ToSet(<<>>) = {} /\ Bodies(<<>>) = {}
    /\ None.pending = <<>> /\ None.sequence = 0 /\ ~Exists(None)
<1>1. <<>> \in Seq({}) /\ DOMAIN <<>> = {}
  OBVIOUS
<1>2. IsASequence(<<>>)
  BY <1>1 DEF IsASequence
<1>3. ToSet(<<>>) = {} /\ Bodies(<<>>) = {}
  BY <1>1 DEF ToSet, Bodies
<1> QED
  BY <1>2, <1>3 DEF None, Exists

LEMMA EmitCarries ==
    ASSUME NEW c, NEW x, Tidy(c)
    PROVE  Carries(c, Emit(c, x)) /\ Emit(c, x).assoc = c.assoc
<1>1. CASE c.room = 0
  BY <1>1, CarriesSelf DEF Emit
<1>2. CASE c.room # 0
  <2> DEFINE o == Append(c.out, x)
             r == c.room - 1
             d == [c EXCEPT !.out = o]
             e == [d EXCEPT !.room = r]
  <2>1. Emit(c, x) = e
    BY <1>2 DEF Emit, Tidy, ConsoleShape
  <2>2. r \in Nat /\ IsASequence(o) /\ Bodies(c.out) \subseteq Bodies(o)
    BY <1>2, AppendKeeps DEF Tidy
  <2>3. d = [c EXCEPT !.out = o] /\ e = [d EXCEPT !.room = r]
    OBVIOUS
  <2> HIDE DEF o, r, d, e
  <2>4. Fields(d, c.assoc, o, c.room, c.lost)
    BY <2>3, ConsolePut DEF Tidy
  <2>5. ConsoleShape(d)
    BY <2>4 DEF Fields
  <2>6. Fields(e, d.assoc, d.out, r, d.lost)
    BY <2>3, <2>5, ConsolePut
  <2>7. Fields(e, c.assoc, o, r, c.lost)
    BY <2>4, <2>6 DEF Fields
  <2> QED
    BY <2>1, <2>2, <2>7 DEF Fields, Tidy, Carries, Held
<1> QED
  BY <1>1, <1>2

LEMMA ExchangeCarries ==
    ASSUME NEW m, NEW c, Tidy(c), Exists(c.assoc)
    PROVE  Carries(c, ExchangePacket(m, c)) /\ Exists(ExchangePacket(m, c).assoc)
<1> DEFINE d == [c EXCEPT !.clock = Stamp(c)]
           x == Exchange(m, c)
           e == Emit(d, x)
           v == e.assoc.attempts + 1
           a == [e.assoc EXCEPT !.attempts = v]
           f == [e EXCEPT !.assoc = a]
<1>1. ExchangePacket(m, c) = IF c.room = 0 THEN d ELSE [e EXCEPT !.assoc.attempts = v]
  BY DEF ExchangePacket
<1>2. Fields(d, c.assoc, c.out, c.room, c.lost)
  BY ConsolePut DEF Tidy
<1>3. Carries(c, d) /\ d.assoc = c.assoc
  BY <1>2, FieldsKeep DEF Fields
<1> HIDE DEF d, x
<1>4. Carries(d, e) /\ e.assoc = c.assoc
  BY <1>3, EmitCarries DEF Carries
<1> HIDE DEF e, v
<1>5. [e EXCEPT !.assoc.attempts = v] = f
  BY <1>4 DEF Carries, Tidy, ConsoleShape
<1>6. a = [e.assoc EXCEPT !.attempts = v] /\ f = [e EXCEPT !.assoc = a]
  OBVIOUS
<1> HIDE DEF a, f
<1>7. Queues(a, e.assoc.pending, e.assoc.sequence, e.assoc.status)
  BY <1>4, <1>6, AssocPut DEF Carries, Tidy, ConsoleShape
<1>8. Exists(a)
  BY <1>4, <1>7 DEF Queues, Exists
<1>9. Carries(e, f)
  BY <1>4, <1>6, <1>7, <1>8, QueuesCarry DEF Carries, Queues
<1>10. f.assoc = a
  BY <1>4, <1>6, <1>7, ConsolePut DEF Carries, Tidy, Queues, Fields
<1>11. Carries(c, f)
  BY <1>3, <1>4, <1>9, CarriesTransitive
<1> QED
  BY <1>1, <1>3, <1>5, <1>8, <1>10, <1>11

(* What is protected goes out.                                               *)
LEMMA ProtectAllCarries ==
    ASSUME NEW m, NEW c, NEW bodies, Tidy(c), IsASequence(bodies), Len(bodies) <= c.room
    PROVE  LET d == ProtectAll(m, c, bodies)
           IN  /\ Carries(c, d) /\ d.lost = c.lost
               /\ ToSet(bodies) \cup Bodies(c.out) \subseteq Bodies(d.out)
               /\ d.assoc.pending = c.assoc.pending /\ d.assoc.status = c.assoc.status
<1> DEFINE q == [i \in 1 .. Len(bodies) |-> Numbered(m, c, i, bodies[i])]
           o == c.out \o q
           r == c.room - Len(bodies)
           n == c.assoc.sequence + Len(bodies)
           a == [c.assoc EXCEPT !.sequence = n]
           d == [c EXCEPT !.out = o]
           e == [d EXCEPT !.room = r]
           f == [e EXCEPT !.assoc = a]
<1>1. PICK S : bodies \in Seq(S)
  BY DEF IsASequence
<1>2. Len(bodies) \in Nat /\ DOMAIN bodies = 1 .. Len(bodies)
  BY <1>1
<1>3. IsASequence(q) /\ ToSet(bodies) \subseteq Bodies(q)
  <2> DEFINE Q == {Numbered(m, c, i, bodies[i]) : i \in 1 .. Len(bodies)}
  <2>1. q \in Seq(Q)
    BY <1>2
  <2>2. DOMAIN q = 1 .. Len(bodies)
    OBVIOUS
  <2>3. \A i \in 1 .. Len(bodies) : q[i].kind = "packet" /\ q[i].body = bodies[i]
    BY DEF Numbered
  <2> HIDE DEF q
  <2>4. ToSet(bodies) \subseteq Bodies(q)
    BY <1>2, <2>2, <2>3 DEF ToSet, Bodies
  <2> QED
    BY <2>1, <2>4 DEF IsASequence
<1>4. ProtectAll(m, c, bodies) = [c EXCEPT !.out = o, !.room = r, !.assoc.sequence = n]
  BY DEF ProtectAll
<1> HIDE DEF q
<1>5. IsASequence(o) /\ ToSet(bodies) \cup Bodies(c.out) \subseteq Bodies(o)
  BY <1>3, Joined DEF Tidy
<1>6. r \in Nat /\ n \in Nat
  BY <1>2 DEF Tidy
<1> HIDE DEF o, r, n
<1>7. [c EXCEPT !.out = o, !.room = r, !.assoc.sequence = n] = f
  BY DEF Tidy, ConsoleShape
<1>8. /\ a = [c.assoc EXCEPT !.sequence = n] /\ d = [c EXCEPT !.out = o]
      /\ e = [d EXCEPT !.room = r] /\ f = [e EXCEPT !.assoc = a]
  OBVIOUS
<1> HIDE DEF a, d, e, f
<1>9. Queues(a, c.assoc.pending, n, c.assoc.status)
  BY <1>8, AssocPut DEF Tidy, ConsoleShape
<1>10. Fields(d, c.assoc, o, c.room, c.lost)
  BY <1>8, ConsolePut DEF Tidy
<1>10a. ConsoleShape(d)
  BY <1>10 DEF Fields
<1>11. Fields(e, d.assoc, d.out, r, d.lost)
  BY <1>8, <1>10a, ConsolePut
<1>11a. ConsoleShape(e)
  BY <1>11 DEF Fields
<1>12. AssocShape(a)
  BY <1>9 DEF Queues
<1>13. Fields(f, a, e.out, e.room, e.lost)
  BY <1>8, <1>11a, <1>12, ConsolePut
<1>14. Fields(f, a, o, r, c.lost)
  BY <1>10, <1>11, <1>13 DEF Fields
<1>15. Tidy(f)
  BY <1>5, <1>6, <1>9, <1>14 DEF Tidy, Fields, Queues, Exists
<1>16. Carries(c, f)
  BY <1>5, <1>9, <1>14, <1>15 DEF Carries, Held, Fields, Queues
<1> QED
  BY <1>4, <1>5, <1>7, <1>9, <1>14, <1>16 DEF Fields, Queues

LEMMA ProtectCarries ==
    ASSUME NEW m, NEW c, NEW body, Tidy(c)
    PROVE  LET d == Protect(m, c, body)
           IN  /\ Carries(c, d) /\ d.assoc.status = c.assoc.status
               /\ CanProtect(c) => body \in Bodies(d.out)
<1>1. CASE CanProtect(c)
  <2>1. IsASequence(<<body>>) /\ Len(<<body>>) = 1 /\ body \in ToSet(<<body>>)
    <3>1. <<body>> \in Seq({body}) /\ Len(<<body>>) = 1 /\ DOMAIN <<body>> = 1 .. 1
      OBVIOUS
    <3>2. <<body>>[1] = body /\ 1 \in DOMAIN <<body>>
      OBVIOUS
    <3>3. body \in ToSet(<<body>>)
      BY <3>2 DEF ToSet
    <3> QED
      BY <3>1, <3>3 DEF IsASequence
  <2> DEFINE one == <<body>>
  <2>2. Protect(m, c, body) = ProtectAll(m, c, one)
    BY <1>1 DEF Protect
  <2> HIDE DEF one
  <2>3. Len(one) <= c.room /\ IsASequence(one) /\ body \in ToSet(one)
    BY <1>1, <2>1 DEF one, CanProtect, Tidy
  <2> QED
    BY <2>2, <2>3, ProtectAllCarries
<1>2. CASE ~CanProtect(c)
  BY <1>2, CarriesSelf DEF Protect
<1> QED
  BY <1>1, <1>2

(* How much of the queue there is room for.                                  *)
LEMMA FlushLength ==
    ASSUME NEW c, c.room \in Nat, c.assoc.sequence \in Nat, IsASequence(c.assoc.pending),
           plan.sequence \in Nat
    PROVE  LET n == Min({Room(c), Len(c.assoc.pending)})
           IN  n \in 0 .. Len(c.assoc.pending) /\ n <= c.room
<1>1. Len(c.assoc.pending) \in Nat
  <2>1. PICK S : c.assoc.pending \in Seq(S)
    BY DEF IsASequence
  <2> QED
    BY <2>1
<1>2. Room(c) \in Nat /\ Room(c) <= c.room
  <2> DEFINE left == plan.sequence - c.assoc.sequence
  <2>1. CASE CanProtect(c)
    <3>1. Room(c) = Min({c.room, left}) /\ left \in Nat /\ c.room \in Nat
      BY <2>1 DEF Room, CanProtect
    <3> HIDE DEF left
    <3> QED
      BY <3>1, LeastOfTwo
  <2>2. CASE ~CanProtect(c)
    BY <2>2 DEF Room
  <2> QED
    BY <2>1, <2>2
<1> DEFINE n == Min({Room(c), Len(c.assoc.pending)})
<1>3. n \in Nat /\ n <= Room(c) /\ n <= Len(c.assoc.pending)
  BY <1>1, <1>2, LeastOfTwo
<1> HIDE DEF n
<1>4. n \in 0 .. Len(c.assoc.pending) /\ n <= c.room
  BY <1>1, <1>2, <1>3
<1> QED
  BY <1>4 DEF n

LEMMA FlushCarries ==
    ASSUME NEW m, NEW c, Tidy(c), Exists(c.assoc), plan.sequence \in Nat
    PROVE  Carries(c, FlushPending(m, c))
<1> DEFINE n == Min({Room(c), Len(c.assoc.pending)})
           bodies == SubSeq(c.assoc.pending, 1, n)
           p == SubSeq(c.assoc.pending, n + 1, Len(c.assoc.pending))
           d == ProtectAll(m, c, bodies)
           a == [d.assoc EXCEPT !.pending = p]
           f == [d EXCEPT !.assoc = a]
<1>1. FlushPending(m, c) =
        [d EXCEPT !.assoc.pending = SubSeq(d.assoc.pending, n + 1, Len(d.assoc.pending))]
  BY DEF FlushPending
<1>4. n \in 0 .. Len(c.assoc.pending) /\ n <= c.room
  BY FlushLength DEF Tidy
<1> HIDE DEF n
<1>5. /\ IsASequence(bodies) /\ Len(bodies) = n /\ IsASequence(p)
      /\ ToSet(c.assoc.pending) \subseteq ToSet(bodies) \cup ToSet(p)
  BY <1>4, Cut DEF Tidy
<1> HIDE DEF bodies
<1>6. /\ Carries(c, d) /\ d.lost = c.lost
      /\ ToSet(bodies) \cup Bodies(c.out) \subseteq Bodies(d.out)
      /\ d.assoc.pending = c.assoc.pending /\ d.assoc.status = c.assoc.status
  BY <1>4, <1>5, ProtectAllCarries
<1> HIDE DEF d
<1>7. FlushPending(m, c) = [d EXCEPT !.assoc.pending = p]
  BY <1>1, <1>6
<1> HIDE DEF p
<1>8. [d EXCEPT !.assoc.pending = p] = f
  BY <1>6 DEF Carries, Tidy, ConsoleShape
<1>9. a = [d.assoc EXCEPT !.pending = p] /\ f = [d EXCEPT !.assoc = a]
  OBVIOUS
<1> HIDE DEF a, f
<1>10. Queues(a, p, d.assoc.sequence, d.assoc.status)
  BY <1>6, <1>9, AssocPut DEF Carries, Tidy, ConsoleShape
<1>11. Fields(f, a, d.out, d.room, d.lost)
  <2>1. ConsoleShape(d) /\ AssocShape(a)
    BY <1>6, <1>10 DEF Carries, Tidy, Queues
  <2> QED
    BY <1>9, <2>1, ConsolePut
<1>12. Tidy(f)
  BY <1>5, <1>6, <1>10, <1>11 DEF Tidy, Carries, Fields, Queues, Exists
<1>13. Held(c) \subseteq Held(f) /\ f.lost = c.lost
  BY <1>5, <1>6, <1>10, <1>11 DEF Held, Fields, Queues
<1> QED
  BY <1>7, <1>8, <1>12, <1>13 DEF Carries

LEMMA EstablishCarries ==
    ASSUME NEW m, NEW c, Tidy(c), Exists(c.assoc), plan.sequence \in Nat
    PROVE  Carries(c, Establish(m, c))
<1>1. CASE Established(c.assoc)
  BY <1>1, CarriesSelf DEF Establish
<1>2. CASE ~Established(c.assoc)
  <2> DEFINE b == [c.assoc EXCEPT !.status = "Established"]
             a == [b EXCEPT !.attempts = 0]
             es == Append(c.events, Event("Connected", 0))
             c1 == [c EXCEPT !.assoc = a]
             told == [c1 EXCEPT !.events = es]
             kept == Protect(m, told, Keepalive)
  <2>1. [c EXCEPT !.assoc.status = "Established", !.assoc.attempts = 0,
                  !.events = Append(@, Event("Connected", 0))] = told
    BY DEF Tidy, ConsoleShape
  <2>2. Establish(m, c) = FlushPending(m, kept)
    BY <1>2, <2>1 DEF Establish
  <2>3. /\ b = [c.assoc EXCEPT !.status = "Established"] /\ a = [b EXCEPT !.attempts = 0]
        /\ c1 = [c EXCEPT !.assoc = a] /\ told = [c1 EXCEPT !.events = es]
    OBVIOUS
  <2> HIDE DEF b, a, es, c1, told
  <2>4. Queues(b, c.assoc.pending, c.assoc.sequence, "Established")
    BY <2>3, AssocPut DEF Tidy, ConsoleShape
  <2>5. AssocShape(b)
    BY <2>4 DEF Queues
  <2>6. Queues(a, b.pending, b.sequence, b.status)
    BY <2>3, <2>5, AssocPut
  <2>7. Queues(a, c.assoc.pending, c.assoc.sequence, a.status) /\ Established(a)
    BY <2>4, <2>6 DEF Queues, Established
  <2>8. AssocShape(a) /\ Exists(a) /\ a.status = "Established"
    BY <2>7 DEF Queues, Exists, Established
  <2>9. Carries(c, c1)
    BY <2>3, <2>7, <2>8, QueuesCarry
  <2>10. c1.assoc = a
    <3>1. Fields(c1, a, c.out, c.room, c.lost)
      BY <2>3, <2>8, ConsolePut DEF Tidy
    <3> QED
      BY <3>1 DEF Fields
  <2>11. Fields(told, c1.assoc, c1.out, c1.room, c1.lost)
    BY <2>3, <2>9, ConsolePut DEF Carries, Tidy
  <2>12. Carries(c1, told) /\ told.assoc.status = "Established"
    BY <2>8, <2>9, <2>10, <2>11, FieldsKeep DEF Carries, Fields
  <2>13. Carries(told, kept) /\ kept.assoc.status = "Established"
    BY <2>12, ProtectCarries DEF Carries
  <2> HIDE DEF kept
  <2>14. Carries(kept, FlushPending(m, kept))
    BY <2>13, FlushCarries DEF Carries, Exists
  <2> QED
    BY <2>2, <2>9, <2>12, <2>13, <2>14, CarriesTransitive
<1> QED
  BY <1>1, <1>2

(* What is dropped is reported.                                              *)
LEMMA RetireCarries ==
    ASSUME NEW c, Tidy(c)
    PROVE  Carries(c, Retire(c)) /\ Retire(c).assoc = None
<1> DEFINE es == <<Event("Retired", 0)>>
           b == [c EXCEPT !.assoc = None]
           d == [b EXCEPT !.lost = TRUE]
           e == [d EXCEPT !.events = es]
<1>1. Retire(c) = e
  BY DEF Retire
<1>2. /\ b = [c EXCEPT !.assoc = None] /\ d = [b EXCEPT !.lost = TRUE]
      /\ e = [d EXCEPT !.events = es]
  OBVIOUS
<1> HIDE DEF es, b, d, e
<1>3. Fields(b, None, c.out, c.room, c.lost)
  BY <1>2, NoneShape, ConsolePut DEF Tidy
<1>3a. ConsoleShape(b)
  BY <1>3 DEF Fields
<1>4. Fields(d, b.assoc, b.out, b.room, TRUE)
  BY <1>2, <1>3a, ConsolePut
<1>4a. ConsoleShape(d)
  BY <1>4 DEF Fields
<1>5. Fields(e, d.assoc, d.out, d.room, d.lost)
  BY <1>2, <1>4a, ConsolePut
<1>6. Fields(e, None, c.out, c.room, TRUE)
  BY <1>3, <1>4, <1>5 DEF Fields
<1> QED
  BY <1>1, <1>6, NothingQueued DEF Fields, Tidy, Carries

(* A new association that holds what the old one did.                        *)
LEMMA DrawnCarries ==
    ASSUME NEW c, Tidy(c), NEW a, AssocShape(a), Exists(a), IsASequence(a.pending),
           a.sequence \in Nat, ToSet(c.assoc.pending) \subseteq ToSet(a.pending), NEW g
    PROVE  LET d == [c EXCEPT !.gens = g, !.assoc = a]
           IN  Carries(c, d) /\ d.assoc = a
<1> DEFINE b == [c EXCEPT !.gens = g]
           d == [b EXCEPT !.assoc = a]
<1>1. [c EXCEPT !.gens = g, !.assoc = a] = d
  OBVIOUS
<1>2. b = [c EXCEPT !.gens = g] /\ d = [b EXCEPT !.assoc = a]
  OBVIOUS
<1> HIDE DEF b, d
<1>3. Fields(b, c.assoc, c.out, c.room, c.lost)
  BY <1>2, ConsolePut DEF Tidy
<1>4. ConsoleShape(b)
  BY <1>3 DEF Fields
<1>5. Fields(d, a, b.out, b.room, b.lost)
  BY <1>2, <1>4, ConsolePut
<1>6. Fields(d, a, c.out, c.room, c.lost)
  BY <1>3, <1>5 DEF Fields
<1>7. Carries(c, d) /\ d.assoc = a
  BY <1>6, FieldsCarry DEF Fields
<1> QED
  BY <1>1, <1>7

LEMMA CreatedQueues ==
    ASSUME NEW c
    PROVE  Queues(Created(c), <<>>, 0, "Pending")
<1> DEFINE s == [None EXCEPT !.status = "Pending"]
           g == c.gens + 1
<1>1. s = [None EXCEPT !.status = "Pending"] /\ Created(c) = [s EXCEPT !.gen = g]
  BY DEF Created
<1> HIDE DEF s, g
<1>2. Queues(s, None.pending, None.sequence, "Pending")
  BY <1>1, NoneShape, AssocPut
<1>3. AssocShape(s)
  BY <1>2 DEF Queues
<1>4. Queues(Created(c), s.pending, s.sequence, s.status)
  BY <1>1, <1>3, AssocPut
<1> QED
  BY <1>2, <1>4, NothingQueued DEF Queues

LEMMA ConnectCarries ==
    ASSUME NEW m, NEW c, Tidy(c)
    PROVE  Carries(c, Connect(m, c))
<1>1. CASE Exists(c.assoc) \/ c.room = 0 \/ ~CanCreate(c)
  BY <1>1, CarriesSelf DEF Connect
<1>2. CASE ~(Exists(c.assoc) \/ c.room = 0 \/ ~CanCreate(c))
  <2> DEFINE k == Created(c)
             a == [k EXCEPT !.initiator = TRUE]
             g == c.gens + 1
             d == [c EXCEPT !.gens = g, !.assoc = a]
  <2>1. Connect(m, c) = ExchangePacket(m, d)
    BY <1>2 DEF Connect
  <2>2. Queues(k, <<>>, 0, "Pending")
    BY CreatedQueues
  <2>3. a = [k EXCEPT !.initiator = TRUE] /\ AssocShape(k)
    BY <2>2 DEF Queues
  <2> HIDE DEF k, a, g
  <2>4. Queues(a, k.pending, k.sequence, k.status)
    BY <2>3, AssocPut
  <2>5. AssocShape(a) /\ a.pending = <<>> /\ a.sequence = 0 /\ Exists(a)
    BY <2>2, <2>4 DEF Queues, Exists
  <2>6. c.assoc.pending = <<>>
    BY <1>2 DEF Tidy
  <2>6a. /\ IsASequence(a.pending) /\ a.sequence \in Nat
         /\ ToSet(c.assoc.pending) \subseteq ToSet(a.pending)
    BY <2>5, <2>6, NothingQueued
  <2>7. Carries(c, d) /\ d.assoc = a
    BY <2>5, <2>6a, DrawnCarries
  <2> HIDE DEF d
  <2>8. Carries(d, ExchangePacket(m, d))
    BY <2>5, <2>7, ExchangeCarries DEF Carries
  <2> QED
    BY <2>1, <2>7, <2>8, CarriesTransitive
<1> QED
  BY <1>1, <1>2

(* What Send takes is queued or goes out.                                    *)
LEMMA SendCarries ==
    ASSUME NEW m, NEW c, Tidy(c), NEW body, TakesPacket(c)
    PROVE  LET d == SendPacket(m, c, body)
           IN  Carries(c, d) /\ body \in Held(d)
<1>1. CASE Established(c.assoc)
  BY <1>1, ProtectCarries DEF SendPacket, TakesPacket, Held
<1>2. CASE ~Established(c.assoc)
  <2> DEFINE p == Append(c.assoc.pending, body)
             a == [c.assoc EXCEPT !.pending = p]
             d == [c EXCEPT !.assoc = a]
  <2>1. SendPacket(m, c, body) = [c EXCEPT !.assoc.pending = p]
    BY <1>2 DEF SendPacket
  <2>2. /\ IsASequence(p) /\ body \in ToSet(p)
        /\ ToSet(c.assoc.pending) \subseteq ToSet(p)
    BY AppendKeeps DEF Tidy
  <2> HIDE DEF p
  <2>3. [c EXCEPT !.assoc.pending = p] = d
    BY DEF Tidy, ConsoleShape
  <2>4. a = [c.assoc EXCEPT !.pending = p] /\ d = [c EXCEPT !.assoc = a]
    OBVIOUS
  <2> HIDE DEF a, d
  <2>5. Queues(a, p, c.assoc.sequence, c.assoc.status)
    BY <2>4, AssocPut DEF Tidy, ConsoleShape
  <2>6. AssocShape(a)
    BY <2>5 DEF Queues
  <2>7. Fields(d, a, c.out, c.room, c.lost)
    BY <2>4, <2>6, ConsolePut DEF Tidy
  <2>8. Exists(a)
    BY <2>5 DEF TakesPacket, Exists, Queues
  <2>9. Carries(c, d)
    BY <2>2, <2>5, <2>7, <2>8, FieldsCarry DEF Queues, Tidy
  <2>10. body \in Held(d)
    BY <2>2, <2>5, <2>7 DEF Held, Queues, Fields
  <2> QED
    BY <2>1, <2>3, <2>9, <2>10
<1> QED
  BY <1>1, <1>2

-----------------------------------------------------------------------------
(* The same of what arrives.                                                 *)

LEMMA ResponseCarries ==
    ASSUME NEW m, NEW c, NEW x, Tidy(c), plan.sequence \in Nat
    PROVE  Carries(c, ReceiveResponse(m, c, x))
<1>1. CASE ~IsAnswer(c.assoc, x) \/ Rekeys(c.assoc, x)
  BY <1>1, CarriesSelf DEF ReceiveResponse
<1>2. CASE IsAnswer(c.assoc, x) /\ ~Rekeys(c.assoc, x)
  <2> DEFINE v == x.responder
             w == x.fresh
             b == [c.assoc EXCEPT !.remote = v]
             a == [b EXCEPT !.fresh = w]
             met == [c EXCEPT !.assoc = a]
  <2>1. [c EXCEPT !.assoc.remote = x.responder, !.assoc.fresh = x.fresh] = met
    BY DEF Tidy, ConsoleShape
  <2>2. ReceiveResponse(m, c, x) = IF Established(c.assoc) THEN Protect(m, met, Keepalive)
                                   ELSE Establish(m, met)
    BY <1>2, <2>1 DEF ReceiveResponse
  <2>3. /\ b = [c.assoc EXCEPT !.remote = v] /\ a = [b EXCEPT !.fresh = w]
        /\ met = [c EXCEPT !.assoc = a]
    OBVIOUS
  <2> HIDE DEF v, w, b, a, met
  <2>4. Queues(b, c.assoc.pending, c.assoc.sequence, c.assoc.status)
    BY <2>3, AssocPut DEF Tidy, ConsoleShape
  <2>5. AssocShape(b)
    BY <2>4 DEF Queues
  <2>6. Queues(a, b.pending, b.sequence, b.status)
    BY <2>3, <2>5, AssocPut
  <2>7. /\ Queues(a, c.assoc.pending, c.assoc.sequence, a.status) /\ AssocShape(a)
        /\ Exists(a)
    BY <1>2, <2>4, <2>6 DEF Queues, Exists, IsAnswer
  <2>8. Carries(c, met)
    BY <2>3, <2>7, QueuesCarry
  <2>9. Fields(met, a, c.out, c.room, c.lost)
    BY <2>3, <2>7, ConsolePut DEF Tidy
  <2>10. Carries(met, Protect(m, met, Keepalive)) /\ Carries(met, Establish(m, met))
    BY <2>7, <2>8, <2>9, ProtectCarries, EstablishCarries DEF Carries, Fields
  <2> QED
    BY <2>2, <2>8, <2>10, CarriesTransitive
<1> QED
  BY <1>1, <1>2

LEMMA AnswerRetryCarries ==
    ASSUME NEW m, NEW c, NEW x, Tidy(c), Exists(c.assoc)
    PROVE  Carries(c, AnswerRetry(m, c, x))
<1> DEFINE w == x.fresh
           a == [c.assoc EXCEPT !.fresh = w]
           noted == [c EXCEPT !.assoc = a]
<1>1. [c EXCEPT !.assoc.fresh = w] = noted
  BY DEF Tidy, ConsoleShape
<1>2. AnswerRetry(m, c, x) = IF c.assoc.status = "Pending" THEN ExchangePacket(m, noted)
                             ELSE noted
  BY <1>1 DEF AnswerRetry
<1>3. a = [c.assoc EXCEPT !.fresh = w] /\ noted = [c EXCEPT !.assoc = a]
  OBVIOUS
<1> HIDE DEF w, a, noted
<1>4. Queues(a, c.assoc.pending, c.assoc.sequence, c.assoc.status)
  BY <1>3, AssocPut DEF Tidy, ConsoleShape
<1>5. Queues(a, c.assoc.pending, c.assoc.sequence, a.status) /\ AssocShape(a) /\ Exists(a)
  BY <1>4 DEF Queues, Exists
<1>6. Carries(c, noted)
  BY <1>3, <1>5, QueuesCarry
<1>7. Fields(noted, a, c.out, c.room, c.lost)
  BY <1>3, <1>5, ConsolePut DEF Tidy
<1>8. Carries(noted, ExchangePacket(m, noted))
  BY <1>5, <1>6, <1>7, ExchangeCarries DEF Carries, Fields
<1> QED
  BY <1>2, <1>6, <1>8, CarriesTransitive

LEMMA MadeRoomCarries ==
    ASSUME NEW c, Tidy(c)
    PROVE  /\ Carries(c, MadeRoom(c))
           /\ ToSet(MadeRoom(c).assoc.pending) \subseteq ToSet(Keeps(c))
           /\ IsASequence(Keeps(c))
<1>1. CASE Exists(c.assoc) /\ ~HasAsked(c.assoc)
  BY <1>1, RetireCarries, NothingQueued DEF MadeRoom, Keeps
<1>2. CASE ~Exists(c.assoc)
  <2>1. ~HasAsked(c.assoc) /\ c.assoc.pending = <<>>
    BY <1>2 DEF Exists, HasAsked, Tidy
  <2> QED
    BY <1>2, <2>1, CarriesSelf, NothingQueued DEF MadeRoom, Keeps
<1>3. CASE HasAsked(c.assoc)
  BY <1>3, CarriesSelf DEF MadeRoom, Keeps, Tidy
<1> QED
  BY <1>1, <1>2, <1>3

(* With room for a frame the side that yields keeps what it has queued.      *)
LEMMA AnswerNewCarries ==
    ASSUME NEW m, NEW c, NEW x, Tidy(c), c.room # 0
    PROVE  Carries(c, AnswerNew(m, c, x))
<1> DEFINE r == x.initiator
           w == x.fresh
           p == Keeps(c)
           k == Created(c)
           k1 == [k EXCEPT !.remote = r]
           k2 == [k1 EXCEPT !.fresh = w]
           answer == [k2 EXCEPT !.pending = p]
           room == MadeRoom(c)
           g == room.gens + 1
           drawn == [room EXCEPT !.gens = g, !.assoc = answer]
<1>1. AnswerNew(m, c, x) = ExchangePacket(m, drawn)
  <2>1. [Created(c) EXCEPT !.remote = x.initiator, !.fresh = x.fresh,
                           !.pending = Keeps(c)] = answer
    OBVIOUS
  <2> QED
    BY <2>1 DEF AnswerNew
<1>2. /\ Queues(k, <<>>, 0, "Pending") /\ AssocShape(k)
      /\ k1 = [k EXCEPT !.remote = r] /\ k2 = [k1 EXCEPT !.fresh = w]
      /\ answer = [k2 EXCEPT !.pending = p]
  BY CreatedQueues DEF Queues
<1>3. /\ Carries(c, room) /\ ToSet(room.assoc.pending) \subseteq ToSet(p)
      /\ IsASequence(p)
  BY MadeRoomCarries
<1> HIDE DEF r, w, p, k, k1, k2, answer, room, g, drawn
<1>4. Queues(k1, k.pending, k.sequence, k.status)
  BY <1>2, AssocPut
<1>4a. AssocShape(k1)
  BY <1>4 DEF Queues
<1>5. Queues(k2, k1.pending, k1.sequence, k1.status)
  BY <1>2, <1>4a, AssocPut
<1>5a. AssocShape(k2)
  BY <1>5 DEF Queues
<1>6. Queues(answer, p, k2.sequence, k2.status)
  BY <1>2, <1>5a, AssocPut
<1>7. /\ AssocShape(answer) /\ answer.pending = p /\ answer.sequence = 0
      /\ answer.status = "Pending"
  BY <1>2, <1>4, <1>5, <1>6 DEF Queues
<1>8. Exists(answer) /\ answer.sequence \in Nat
  BY <1>7 DEF Exists
<1>9. Carries(room, drawn) /\ drawn.assoc = answer
  <2>1. /\ Tidy(room) /\ AssocShape(answer) /\ Exists(answer)
        /\ IsASequence(answer.pending) /\ answer.sequence \in Nat
        /\ ToSet(room.assoc.pending) \subseteq ToSet(answer.pending)
    BY <1>3, <1>7, <1>8 DEF Carries
  <2> QED
    BY <2>1, DrawnCarries DEF drawn
<1>10. Carries(drawn, ExchangePacket(m, drawn))
  BY <1>8, <1>9, ExchangeCarries DEF Carries
<1> QED
  BY <1>1, <1>3, <1>9, <1>10, CarriesTransitive

LEMMA RequestCarries ==
    ASSUME NEW m, NEW c, NEW x, Tidy(c), c.room # 0
    PROVE  Carries(c, ReceiveRequest(m, c, x))
<1>1. \/ ReceiveRequest(m, c, x) = c
      \/ ReceiveRequest(m, c, x) = AnswerNew(m, c, x)
      \/ IsRetry(m, c.assoc, x) /\ ReceiveRequest(m, c, x) = AnswerRetry(m, c, x)
  BY DEF ReceiveRequest
<1> QED
  BY <1>1, CarriesSelf, AnswerNewCarries, AnswerRetryCarries DEF IsRetry

LEMMA PacketCarries ==
    ASSUME NEW m, NEW c, NEW p, Tidy(c), plan.sequence \in Nat
    PROVE  Carries(c, ReceivePacket(m, c, p))
<1>1. CASE ~Decodes(c.assoc, p) \/ (c.assoc.initiator /\ ~Established(c.assoc))
  BY <1>1, CarriesSelf DEF ReceivePacket
<1>2. CASE ~(~Decodes(c.assoc, p) \/ (c.assoc.initiator /\ ~Established(c.assoc)))
  <2> DEFINE s == c.assoc
             n == p.sequence
             h == IF n > s.highest THEN n ELSE s.highest
             seen == {k \in s.seen \cup {n} : h - k < Window}
             s1 == [s EXCEPT !.highest = h]
             s2 == [s1 EXCEPT !.seen = seen]
             taken == [c EXCEPT !.assoc = s2]
             confirmed == Establish(m, taken)
             es == Append(confirmed.events, Event("Datagram", p.body))
             told == [confirmed EXCEPT !.events = es]
  <2>1. Commit(s, n) = s2
    <3>1. Commit(s, n) = [s EXCEPT !.highest = h, !.seen = seen]
      BY DEF Commit
    <3> HIDE DEF h, seen
    <3> QED
      BY <3>1
  <2>2. \/ ReceivePacket(m, c, p) = Retire(taken)
        \/ ReceivePacket(m, c, p) = confirmed
        \/ ReceivePacket(m, c, p) = told
    <3> HIDE DEF s2
    <3> QED
      BY <1>2, <2>1 DEF ReceivePacket, Confirmed
  <2>3. /\ s1 = [s EXCEPT !.highest = h] /\ s2 = [s1 EXCEPT !.seen = seen]
        /\ taken = [c EXCEPT !.assoc = s2] /\ AssocShape(s) /\ Exists(s)
    BY <1>2 DEF Decodes, Tidy, ConsoleShape
  <2> HIDE DEF h, seen, s1, s2, taken
  <2>4. Queues(s1, s.pending, s.sequence, s.status)
    BY <2>3, AssocPut
  <2>4a. AssocShape(s1)
    BY <2>4 DEF Queues
  <2>5. Queues(s2, s1.pending, s1.sequence, s1.status)
    BY <2>3, <2>4a, AssocPut
  <2>6. /\ Queues(s2, s.pending, s.sequence, s2.status) /\ AssocShape(s2)
        /\ Exists(s2)
    BY <2>3, <2>4, <2>5 DEF Queues, Exists
  <2>7. Carries(c, taken)
    BY <2>3, <2>6, QueuesCarry
  <2>8. Fields(taken, s2, c.out, c.room, c.lost)
    BY <2>3, <2>6, ConsolePut DEF Tidy
  <2>9. Tidy(taken) /\ Exists(taken.assoc)
    BY <2>6, <2>7, <2>8 DEF Carries, Fields
  <2>10. Carries(taken, confirmed)
    BY <2>9, EstablishCarries
  <2> HIDE DEF confirmed, es
  <2>11. told = [confirmed EXCEPT !.events = es] /\ ConsoleShape(confirmed)
    BY <2>10 DEF Carries, Tidy
  <2> HIDE DEF told
  <2>12. Fields(told, confirmed.assoc, confirmed.out, confirmed.room, confirmed.lost)
    BY <2>11, ConsolePut
  <2>13. Carries(confirmed, told)
    BY <2>10, <2>12, FieldsKeep DEF Carries
  <2>14. Carries(taken, Retire(taken))
    BY <2>9, RetireCarries
  <2> QED
    BY <2>2, <2>7, <2>10, <2>13, <2>14, CarriesTransitive
<1> QED
  BY <1>1, <1>2

LEMMA ReceiveCarries ==
    ASSUME NEW m, NEW c, NEW x, Tidy(c), c.room # 0, plan.sequence \in Nat
    PROVE  Carries(c, Receive(m, c, x))
BY RequestCarries, ResponseCarries, PacketCarries DEF Receive

LEMMA TickCarries ==
    ASSUME NEW m, NEW c, Tidy(c), Exists(c.assoc), NEW due, plan.sequence \in Nat
    PROVE  Carries(c, TickRetry(m, c)) /\ Carries(c, TickEstablished(m, c, due))
<1>1. Carries(c, TickRetry(m, c))
  BY RetireCarries, ExchangeCarries DEF TickRetry
<1>2. Carries(c, TickEstablished(m, c, due))
  <2> DEFINE kept == IF due THEN Protect(m, c, Keepalive) ELSE c
  <2>1. Carries(c, kept) /\ Exists(kept.assoc)
    BY ProtectCarries, CarriesSelf DEF Exists
  <2>2. TickEstablished(m, c, due) = FlushPending(m, kept)
    BY DEF TickEstablished
  <2> HIDE DEF kept
  <2>3. Carries(kept, FlushPending(m, kept))
    BY <2>1, FlushCarries DEF Carries
  <2> QED
    BY <2>1, <2>2, <2>3, CarriesTransitive
<1> QED
  BY <1>1, <1>2

LEMMA CloseCarries ==
    ASSUME NEW m, NEW c, Tidy(c)
    PROVE  Carries(c, Close(m, c))
<1> DEFINE told == Protect(m, c, Teardown)
<1>1. Carries(c, told)
  BY ProtectCarries
<1>2. Close(m, c) = IF Exists(c.assoc) THEN Retire(told) ELSE c
  BY DEF Close
<1> HIDE DEF told
<1>3. Carries(told, Retire(told))
  BY <1>1, RetireCarries DEF Carries
<1> QED
  BY <1>1, <1>2, <1>3, CarriesSelf, CarriesTransitive

(* What is owed is queued, on both consoles.                                 *)
Queued(m) == Tidy(console[m]) /\ owed[m] \subseteq ToSet(console[m].assoc.pending)

OwedInv == /\ plan \in Plans
           /\ console = [m \in Consoles |-> console[m]]
           /\ owed = [m \in Consoles |-> owed[m]]
           /\ \A m \in Consoles : Queued(m)

(* A call starts with some room, and leaves no frames of its own behind.     *)
LEMMA RoomCarries ==
    ASSUME NEW m \in Consoles, Tidy(console[m]), NEW room \in Nat
    PROVE  Carries(console[m], WithRoom(m, room)) /\ WithRoom(m, room).room = room
           /\ WithRoom(m, room).assoc = console[m].assoc
<1> DEFINE c == console[m]
           d == WithRoom(m, room)
<1>1. Fields(d, c.assoc, c.out, room, c.lost)
  BY ConsolePut DEF WithRoom, Tidy
<1> QED
  BY <1>1 DEF Fields, Tidy, Carries, Held

LEMMA LeaveOwes ==
    ASSUME OwedInv, NEW m \in Consoles, NEW room \in Nat, NEW d,
           Carries(WithRoom(m, room), d), NEW more, more \subseteq Held(d),
           NEW others, Leave(m, d, others, more), plan' = plan
    PROVE  OwedInv'
<1> DEFINE c == WithRoom(m, room)
           e == [d EXCEPT !.out = <<>>]
           f == [e EXCEPT !.room = 0]
           g == [f EXCEPT !.lost = FALSE]
<1>1. Tidy(d) /\ (d.lost \/ Held(console[m]) \subseteq Held(d))
  BY RoomCarries, CarriesTransitive DEF OwedInv, Queued, Carries
<1>2. [d EXCEPT !.out = <<>>, !.room = 0, !.lost = FALSE] = g
  BY <1>1 DEF Tidy, ConsoleShape
<1>3. /\ e = [d EXCEPT !.out = <<>>] /\ f = [e EXCEPT !.room = 0]
      /\ g = [f EXCEPT !.lost = FALSE]
  OBVIOUS
<1> HIDE DEF c, e, f, g
<1>4. Fields(e, d.assoc, <<>>, d.room, d.lost)
  BY <1>1, <1>3, ConsolePut DEF Tidy
<1>5. Fields(f, d.assoc, <<>>, 0, d.lost)
  <2>1. ConsoleShape(e)
    BY <1>4 DEF Fields
  <2>2. Fields(f, e.assoc, e.out, 0, e.lost)
    BY <1>3, <2>1, ConsolePut
  <2> QED
    BY <1>4, <2>2 DEF Fields
<1>6. Fields(g, d.assoc, <<>>, 0, FALSE)
  <2>1. ConsoleShape(f)
    BY <1>5 DEF Fields
  <2>2. Fields(g, f.assoc, f.out, f.room, FALSE)
    BY <1>3, <2>1, ConsolePut
  <2> QED
    BY <1>5, <2>2 DEF Fields
<1>7. Tidy(g) /\ g.assoc = d.assoc
  BY <1>1, <1>6, NothingQueued DEF Fields, Tidy
<1>8. /\ console' = [console EXCEPT ![m] = g]
      /\ owed' = [owed EXCEPT ![m] = IF d.lost THEN {}
                                     ELSE (owed[m] \cup more) \ Bodies(d.out)]
  BY <1>2 DEF Leave
<1>9. /\ console' = [n \in Consoles |-> console'[n]] /\ console'[m] = g
      /\ \A n \in Consoles \ {m} : console'[n] = console[n]
  BY <1>8 DEF OwedInv
<1>10. /\ owed' = [n \in Consoles |-> owed'[n]]
       /\ owed'[m] = IF d.lost THEN {} ELSE (owed[m] \cup more) \ Bodies(d.out)
       /\ \A n \in Consoles \ {m} : owed'[n] = owed[n]
  BY <1>8 DEF OwedInv
<1>11. owed'[m] \subseteq ToSet(d.assoc.pending)
  <2>1. CASE d.lost
    BY <1>10, <2>1
  <2>2. CASE ~d.lost
    <3>1. owed[m] \subseteq Held(d)
      BY <1>1, <2>2 DEF OwedInv, Queued, Held
    <3> QED
      BY <1>10, <2>2, <3>1 DEF Held
  <2> QED
    BY <2>1, <2>2
<1>12. Queued(m)'
  BY <1>7, <1>9, <1>11 DEF Queued
<1>13. ASSUME NEW n \in Consoles \ {m} PROVE Queued(n)'
  BY <1>9, <1>10 DEF OwedInv, Queued
<1> QED
  BY <1>9, <1>10, <1>12, <1>13 DEF OwedInv

LEMMA OwedStep ==
    ASSUME RoomToAnswer, OwedInv, [Next]_vars
    PROVE  OwedInv'
<1>1. plan.sequence \in Nat /\ Rooms \subseteq Nat /\ 0 \notin Rooms
  BY LimitsAssumption DEF OwedInv, RoomToAnswer
<1>2. ASSUME NEW m \in Consoles, NEW room \in Nat
      PROVE  /\ Tidy(WithRoom(m, room)) /\ WithRoom(m, room).room = room
             /\ WithRoom(m, room).assoc = console[m].assoc
  BY RoomCarries DEF OwedInv, Queued, Carries
<1>3. CASE UNCHANGED <<plan, console, owed>>
  BY <1>3 DEF OwedInv, Queued
<1>4. ASSUME NEW m \in Consoles, GuestConnects(m) PROVE OwedInv'
  <2>1. PICK room \in Rooms : Leave(m, Connect(m, WithRoom(m, room)), net, {})
    BY <1>4 DEF GuestConnects
  <2>2. Carries(WithRoom(m, room), Connect(m, WithRoom(m, room))) /\ room \in Nat
    BY <1>1, <1>2, ConnectCarries
  <2> QED
    BY <1>4, <2>1, <2>2, LeaveOwes DEF GuestConnects
<1>5. ASSUME NEW m \in Consoles, GuestSends(m) PROVE OwedInv'
  <2> DEFINE body == accepted[m] + 1
  <2>1. PICK room \in Rooms :
          /\ TakesPacket(Connect(m, WithRoom(m, room)))
          /\ Leave(m, SendPacket(m, Connect(m, WithRoom(m, room)), body), net, {body})
    BY <1>5 DEF GuestSends
  <2> DEFINE c == Connect(m, WithRoom(m, room))
             d == SendPacket(m, c, body)
  <2>2. Carries(WithRoom(m, room), c) /\ room \in Nat
    BY <1>1, <1>2, ConnectCarries
  <2>3. Carries(c, d) /\ body \in Held(d)
    BY <2>1, <2>2, SendCarries DEF Carries
  <2>4. Carries(WithRoom(m, room), d) /\ {body} \subseteq Held(d)
    BY <2>2, <2>3, CarriesTransitive
  <2>5. Leave(m, d, net, {body}) /\ plan' = plan
    BY <1>5, <2>1 DEF GuestSends
  <2> HIDE DEF d
  <2> QED
    BY <2>2, <2>4, <2>5, LeaveOwes
<1>6. ASSUME NEW m \in Consoles, GuestCloses(m) PROVE OwedInv'
  <2>1. PICK room \in Rooms : Leave(m, Close(m, WithRoom(m, room)), net, {})
    BY <1>6 DEF GuestCloses
  <2>2. Carries(WithRoom(m, room), Close(m, WithRoom(m, room))) /\ room \in Nat
    BY <1>1, <1>2, CloseCarries
  <2> QED
    BY <1>6, <2>1, <2>2, LeaveOwes DEF GuestCloses
<1>7. ASSUME NEW m \in Consoles, NEW again \in BOOLEAN, Arrives(m, again) PROVE OwedInv'
  <2> DEFINE others(x) == IF again THEN net ELSE net \ {x}
  <2>1. PICK x \in net, room \in Rooms :
          Leave(m, Receive(m, WithRoom(m, room), x), others(x), {})
    BY <1>7 DEF Arrives
  <2>2. Carries(WithRoom(m, room), Receive(m, WithRoom(m, room), x)) /\ room \in Nat
    BY <1>1, <1>2, ReceiveCarries
  <2> HIDE DEF others
  <2> QED
    BY <1>7, <2>1, <2>2, LeaveOwes DEF Arrives
<1>8. ASSUME NEW m \in Consoles, Retried(m) PROVE OwedInv'
  <2>1. PICK room \in Rooms : Leave(m, TickRetry(m, WithRoom(m, room)), net, {})
    BY <1>8 DEF Retried
  <2>2. Carries(WithRoom(m, room), TickRetry(m, WithRoom(m, room))) /\ room \in Nat
    BY <1>1, <1>2, <1>8, TickCarries DEF Retried, Exists
  <2> QED
    BY <1>8, <2>1, <2>2, LeaveOwes DEF Retried
<1>9. ASSUME NEW m \in Consoles, KeptAlive(m) PROVE OwedInv'
  <2>1. PICK room \in Rooms, due \in BOOLEAN :
          Leave(m, TickEstablished(m, WithRoom(m, room), due), net, {})
    BY <1>9 DEF KeptAlive
  <2>2. Exists(console[m].assoc)
    BY <1>9 DEF KeptAlive, Established, Exists
  <2>3. Carries(WithRoom(m, room), TickEstablished(m, WithRoom(m, room), due))
        /\ room \in Nat
    BY <1>1, <1>2, <2>2, TickCarries
  <2> QED
    BY <1>9, <2>1, <2>3, LeaveOwes DEF KeptAlive
<1>10. ASSUME NEW m \in Consoles, Idle(m) PROVE OwedInv'
  <2> DEFINE c == console[m]
  <2>1. Tidy(c) /\ c.room \in Nat
    BY DEF OwedInv, Queued, Tidy
  <2>2. WithRoom(m, c.room) = c
    BY <2>1 DEF WithRoom, Tidy, ConsoleShape
  <2>3. Carries(WithRoom(m, c.room), Retire(c))
    BY <2>1, <2>2, RetireCarries
  <2>4. Leave(m, Retire(c), net, {}) /\ plan' = plan
    BY <1>10 DEF Idle
  <2> QED
    BY <2>1, <2>3, <2>4, LeaveOwes
<1>11. ASSUME NEW m \in Consoles, Restart(m) PROVE OwedInv'
  <2> DEFINE c == console[m]
             d == [c EXCEPT !.assoc = None]
             e == [d EXCEPT !.events = <<>>]
  <2>1. Tidy(c) /\ AssocShape(None)
    BY DEF OwedInv, Queued, None, AssocShape
  <2>2. d = [c EXCEPT !.assoc = None] /\ e = [d EXCEPT !.events = <<>>]
    OBVIOUS
  <2>3. console' = [console EXCEPT ![m].assoc = None, ![m].events = <<>>]
        /\ owed' = [owed EXCEPT ![m] = {}] /\ plan' = plan
    BY <1>11 DEF Restart
  <2>4. /\ console' = [n \in Consoles |-> console'[n]] /\ console'[m] = e
        /\ \A n \in Consoles \ {m} : console'[n] = console[n]
    BY <2>3 DEF OwedInv
  <2>5. /\ owed' = [n \in Consoles |-> owed'[n]] /\ owed'[m] = {}
        /\ \A n \in Consoles \ {m} : owed'[n] = owed[n]
    BY <2>3 DEF OwedInv
  <2> HIDE DEF d, e
  <2>6. Fields(d, None, c.out, c.room, c.lost)
    BY <2>1, <2>2, ConsolePut DEF Tidy
  <2>7. Fields(e, None, c.out, c.room, c.lost)
    <3>1. ConsoleShape(d)
      BY <2>6 DEF Fields
    <3>2. Fields(e, d.assoc, d.out, d.room, d.lost)
      BY <2>2, <3>1, ConsolePut
    <3> QED
      BY <2>6, <3>2 DEF Fields
  <2>8. Tidy(e)
    BY <2>1, <2>7, NothingQueued DEF Fields, Tidy
  <2>9. ASSUME NEW n \in Consoles PROVE Queued(n)'
    BY <2>4, <2>5, <2>8 DEF OwedInv, Queued
  <2> QED
    BY <2>3, <2>4, <2>5, <2>9 DEF OwedInv
<1>12. ASSUME NEW m \in Consoles, Deliver(m) PROVE OwedInv'
  <2> DEFINE c == console[m]
             d == [c EXCEPT !.events = <<>>]
  <2>1. console' = [console EXCEPT ![m].events = <<>>] /\ UNCHANGED <<owed, plan>>
    BY <1>12 DEF Deliver
  <2>2. /\ console' = [n \in Consoles |-> console'[n]] /\ console'[m] = d
        /\ \A n \in Consoles \ {m} : console'[n] = console[n]
    BY <2>1 DEF OwedInv
  <2>3. Tidy(c) /\ d = [c EXCEPT !.events = <<>>]
    BY DEF OwedInv, Queued
  <2> HIDE DEF d
  <2>4. Fields(d, c.assoc, c.out, c.room, c.lost)
    BY <2>3, ConsolePut DEF Tidy
  <2>5. Tidy(d) /\ d.assoc = c.assoc
    BY <2>3, <2>4, FieldsKeep DEF Carries, Fields
  <2>6. ASSUME NEW n \in Consoles PROVE Queued(n)'
    BY <2>1, <2>2, <2>5 DEF OwedInv, Queued
  <2> QED
    BY <2>1, <2>2, <2>6 DEF OwedInv
<1>13. CASE UNCHANGED vars
  BY <1>3, <1>13 DEF vars
<1>14. CASE Loses
  BY <1>3, <1>14 DEF Loses
<1> QED
  BY <1>4, <1>5, <1>6, <1>7, <1>8, <1>9, <1>10, <1>11, <1>12, <1>13, <1>14 DEF Next

(* Where a request always finds room for its answer, no packet that Send     *)
(* took is forgotten: it is queued, was sent, or went with an association    *)
(* whose end the owner is told, and a simultaneous connect moves the queue   *)
(* of the side that yields to the association it answers with (Associations  *)
(* Send and Receive, SystemLink Send).                                       *)
THEOREM QueuedUntilSent ==
    ASSUME RoomToAnswer
    PROVE  Spec => []OwedIsPending
<1>1. Init => OwedInv
  <2> SUFFICES ASSUME Init PROVE OwedInv
    OBVIOUS
  <2>1. Tidy(NewConsole)
    BY NothingQueued DEF Tidy, NewConsole, ConsoleShape, AssocShape, None
  <2> QED
    BY <2>1 DEF Init, OwedInv, Queued
<1>2. OwedInv /\ [Next]_vars => OwedInv'
  BY OwedStep
<1>3. OwedInv => OwedIsPending
  BY DEF OwedInv, Queued, OwedIsPending
<1> QED
  BY <1>1, <1>2, <1>3, PTL DEF Spec

-----------------------------------------------------------------------------
(* No packet reaches its owner twice.  A packet of a guest is in one place:  *)
(* queued on its console, or under way in one message, which the network may *)
(* repeat; once it was received, the replay window of the association that   *)
(* could decode the message refuses its number.                              *)

Guests(S) == {x \in S : x.kind = "packet" /\ x.body \notin {Keepalive, Teardown}}

(* Two messages hold two bodies, and none that is still queued.              *)
OneEach(S, queued) ==
    /\ \A x, y \in Guests(S) : x.body = y.body => x = y
    /\ \A x \in Guests(S) : x.body \notin queued

Unrepeated(s) == \A i, j \in DOMAIN s : s[i] = s[j] => i = j

(* What the owner is told of packets, and that it is told of each once.      *)
Told(events) ==
    {events[i].packet : i \in {j \in DOMAIN events : events[j].type = "Datagram"}}
Once(events) ==
    \A i, j \in DOMAIN events :
        events[i] = events[j] /\ events[i].type = "Datagram" => i = j

(* The replay window takes no packet of that number any more.                *)
Spent(s, n) == n <= s.highest /\ (n \in s.seen \/ s.highest - n >= Window)

Frame(x) == /\ x.kind \in {"request", "response", "packet"}
            /\ x.kind = "packet" => x.sequence \in Nat

Careful(m, c) ==
    /\ ConsoleShape(c) /\ IsASequence(c.out) /\ IsASequence(c.events)
    /\ IsASequence(c.assoc.pending)
    /\ c.room \in Nat /\ c.gens \in Nat
    /\ c.assoc.gen \in Nat /\ c.assoc.highest \in Nat /\ c.assoc.sequence \in Nat
    /\ \A x \in ToSet(c.out) : x.to = Peer(m) /\ Frame(x)
    /\ Unrepeated(c.assoc.pending)
    /\ OneEach(ToSet(c.out), ToSet(c.assoc.pending))

(* What the guest's packets are that a call may still send, or has sent.     *)
Sent(c) == {x.body : x \in Guests(ToSet(c.out))}
Owes(c) == ToSet(c.assoc.pending) \cup Sent(c)

(* A call keeps the window of an association, or makes another association.  *)
Windowed(c, d) ==
    /\ c.gens <= d.gens
    /\ \/ d.assoc.gen = 0
       \/ d.assoc.gen > c.gens
       \/ /\ d.assoc.gen = c.assoc.gen
          /\ \A n \in Nat : Spent(c.assoc, n) => Spent(d.assoc, n)

Spends(m, c, d) == Careful(m, d) /\ Owes(d) \subseteq Owes(c) /\ Windowed(c, d)
TellsLess(e, f) == Told(f) \subseteq Told(e) /\ (Once(e) => Once(f))
Handles(m, c, d) == Spends(m, c, d) /\ TellsLess(c.events, d.events)

LEMMA SpendsTransitive ==
    ASSUME NEW m, NEW c, NEW d, NEW e, Careful(m, c), Spends(m, c, d), Spends(m, d, e)
    PROVE  Spends(m, c, e)
<1>1. /\ c.gens \in Nat /\ d.gens \in Nat /\ e.gens \in Nat
      /\ c.assoc.gen \in Nat /\ d.assoc.gen \in Nat /\ e.assoc.gen \in Nat
  BY DEF Spends, Careful
<1>2. Windowed(c, d) /\ Windowed(d, e)
  BY DEF Spends
<1>3. Windowed(c, e)
  BY <1>1, <1>2 DEF Windowed
<1> QED
  BY <1>3 DEF Spends

LEMMA HandlesTransitive ==
    ASSUME NEW m, NEW c, NEW d, NEW e, Careful(m, c), Handles(m, c, d), Handles(m, d, e)
    PROVE  Handles(m, c, e)
BY SpendsTransitive DEF Handles, TellsLess

LEMMA HandlesSelf ==
    ASSUME NEW m, NEW c, Careful(m, c)
    PROVE  Handles(m, c, c)
<1>1. c.gens <= c.gens
  BY DEF Careful
<1> QED
  BY <1>1 DEF Handles, Spends, Windowed, TellsLess

(* The fields of a console and of an association that this is about.         *)
Shows(d, gens, events, out, room) ==
    ConsoleShape(d) /\ d.gens = gens /\ d.events = events /\ d.out = out /\ d.room = room
Holds(s, gen, highest, seen, pending, sequence) ==
    /\ AssocShape(s) /\ s.gen = gen /\ s.highest = highest /\ s.seen = seen
    /\ s.pending = pending /\ s.sequence = sequence
Same(c, d) ==
    /\ Shows(d, c.gens, c.events, c.out, c.room)
    /\ Holds(d.assoc, c.assoc.gen, c.assoc.highest, c.assoc.seen, c.assoc.pending,
             c.assoc.sequence)

LEMMA SameHandled ==
    ASSUME NEW m, NEW c, Careful(m, c), NEW d, Same(c, d)
    PROVE  Handles(m, c, d)
<1>1. Careful(m, d)
  BY DEF Same, Shows, Holds, Careful
<1>2. Owes(d) = Owes(c)
  BY DEF Same, Shows, Holds, Owes, Sent
<1>3. Windowed(c, d)
  BY DEF Same, Shows, Holds, Windowed, Careful, Spent
<1> QED
  BY <1>1, <1>2, <1>3 DEF Handles, Spends, TellsLess, Same, Shows

(* An association that is dropped or made anew.                              *)
LEMMA Renewed ==
    ASSUME NEW m, NEW c, Careful(m, c),
           NEW d, NEW g \in Nat, NEW e, Shows(d, g, e, c.out, c.room),
           c.gens <= g, IsASequence(e), TellsLess(c.events, e),
           NEW k \in Nat, NEW p, Holds(d.assoc, k, 0, {}, p, 0),
           k = 0 \/ k > c.gens,
           IsASequence(p), Unrepeated(p), ToSet(p) \subseteq ToSet(c.assoc.pending)
    PROVE  Handles(m, c, d)
<1>1. Careful(m, d)
  BY DEF Careful, Shows, Holds, OneEach
<1>2. Owes(d) \subseteq Owes(c)
  BY DEF Owes, Sent, Shows, Holds
<1>3. Windowed(c, d)
  BY DEF Windowed, Shows, Holds
<1> QED
  BY <1>1, <1>2, <1>3 DEF Handles, Spends, Shows

(* Nothing is in an empty sequence.                                          *)
LEMMA NothingThere ==
    /\ IsASequence(<<>>) /\ ToSet(<<>>) = {} /\ Unrepeated(<<>>)
    /\ \A e : TellsLess(e, <<>>)
    /\ AssocShape(None) /\ Holds(None, 0, 0, {}, <<>>, 0)
<1>1. DOMAIN <<>> = {}
  OBVIOUS
<1>2. Unrepeated(<<>>) /\ Told(<<>>) = {} /\ Once(<<>>)
  BY <1>1 DEF Unrepeated, Told, Once
<1>3. AssocShape(None) /\ Holds(None, 0, 0, {}, <<>>, 0)
  BY DEF AssocShape, Holds, None
<1> QED
  BY <1>2, <1>3, NothingQueued DEF TellsLess

(* One more at the end of a sequence.                                        *)
LEMMA OneMore ==
    ASSUME NEW s, IsASequence(s), NEW x
    PROVE  /\ IsASequence(Append(s, x)) /\ ToSet(Append(s, x)) = ToSet(s) \cup {x}
           /\ Unrepeated(s) /\ x \notin ToSet(s) => Unrepeated(Append(s, x))
           /\ x.type # "Datagram" => TellsLess(s, Append(s, x))
           /\ Told(Append(s, x)) \subseteq Told(s) \cup {x.packet}
           /\ Once(s) /\ x \notin ToSet(s) => Once(Append(s, x))
<1>1. PICK S : s \in Seq(S)
  BY DEF IsASequence
<1> DEFINE U == S \cup {x}
           w == Append(s, x)
           l == Len(s) + 1
<1>2. s \in Seq(U)
  BY <1>1
<1>3. /\ w \in Seq(U) /\ Len(w) = l /\ w[l] = x
      /\ \A i \in 1 .. Len(s) : w[i] = s[i]
      /\ Len(s) \in Nat
  BY <1>2
<1>4. DOMAIN s = 1 .. Len(s) /\ DOMAIN w = 1 .. l
  BY <1>2, <1>3
<1>5. DOMAIN w = DOMAIN s \cup {l} /\ l \notin DOMAIN s
  BY <1>3, <1>4
<1> HIDE DEF w, l
<1>6. /\ \A i \in DOMAIN s : w[i] = s[i]
      /\ w[l] = x
  BY <1>3, <1>4
<1>7. ToSet(w) = ToSet(s) \cup {x}
  BY <1>5, <1>6 DEF ToSet
<1>8. Unrepeated(s) /\ x \notin ToSet(s) => Unrepeated(w)
  BY <1>5, <1>6 DEF Unrepeated, ToSet
<1>9. Told(w) \subseteq Told(s) \cup {x.packet}
  BY <1>5, <1>6 DEF Told
<1>10. Once(s) /\ x \notin ToSet(s) => Once(w)
  BY <1>5, <1>6 DEF Once, ToSet
<1>11. x.type # "Datagram" => TellsLess(s, w)
  BY <1>5, <1>6 DEF TellsLess, Told, Once
<1> QED
  BY <1>3, <1>7, <1>8, <1>9, <1>10, <1>11 DEF IsASequence, w

(* Frames that are no packets.                                               *)
LEMMA ExchangeHandled ==
    ASSUME NEW m, NEW c, Careful(m, c)
    PROVE  Handles(m, c, ExchangePacket(m, c))
<1> DEFINE l == Stamp(c)
           d == [c EXCEPT !.clock = l]
           x == Exchange(m, c)
           o == Append(d.out, x)
           r == d.room - 1
           e == [d EXCEPT !.out = o, !.room = r]
           v == e.assoc.attempts + 1
           f == [e EXCEPT !.assoc.attempts = v]
<1>1. c.room = 0 => ExchangePacket(m, c) = d
  BY DEF ExchangePacket
<1>2. x.to = Peer(m) /\ x.kind # "packet" /\ Frame(x)
  BY DEF Exchange, Frame
<1>3. d = [c EXCEPT !.clock = l]
  OBVIOUS
<1> HIDE DEF x, l, d
<1>4. Same(c, d)
  BY <1>3 DEF Careful, ConsoleShape, AssocShape, Same, Shows, Holds
<1>5. Handles(m, c, d) /\ Careful(m, d) /\ d.room = c.room
  BY <1>4, SameHandled DEF Handles, Spends, Same, Shows
<1>6. c.room # 0 => ExchangePacket(m, c) = f
  <2>1. d = [c EXCEPT !.clock = Stamp(c)]
    BY DEF d, l
  <2>2. c.room # 0 => ExchangePacket(m, c) = [Emit(d, x) EXCEPT !.assoc.attempts = @ + 1]
    BY <2>1 DEF ExchangePacket, x
  <2>3. c.room # 0 => Emit(d, x) = e
    BY <1>5 DEF Emit
  <2> HIDE DEF e
  <2> QED
    BY <2>2, <2>3
<1>7. ASSUME c.room # 0 PROVE Handles(m, d, f)
  <2>1. e = [d EXCEPT !.out = o, !.room = r] /\ f = [e EXCEPT !.assoc.attempts = v]
    OBVIOUS
  <2>2. /\ IsASequence(o) /\ ToSet(o) = ToSet(d.out) \cup {x} /\ r \in Nat
        /\ ConsoleShape(d)
    <3>1. IsASequence(d.out) /\ d.room \in Nat /\ d.room # 0 /\ ConsoleShape(d)
      BY <1>5, <1>7 DEF Careful
    <3> QED
      BY <3>1, OneMore
  <2> HIDE DEF o, r, e, v, f
  <2>3. /\ Shows(f, d.gens, d.events, o, r)
        /\ Holds(f.assoc, d.assoc.gen, d.assoc.highest, d.assoc.seen, d.assoc.pending,
                 d.assoc.sequence)
    BY <2>1, <2>2 DEF ConsoleShape, AssocShape, Shows, Holds
  <2>4. Guests(ToSet(o)) = Guests(ToSet(d.out))
    BY <1>2, <2>2 DEF Guests
  <2>5. Careful(m, f)
    BY <1>2, <1>5, <2>2, <2>3, <2>4 DEF Careful, Shows, Holds, OneEach
  <2>6. Owes(f) = Owes(d)
    BY <2>3, <2>4 DEF Owes, Sent, Shows, Holds
  <2>7. Windowed(d, f)
    BY <1>5, <2>3 DEF Windowed, Shows, Holds, Careful, Spent
  <2> QED
    BY <2>3, <2>5, <2>6, <2>7 DEF Handles, Spends, TellsLess, Shows
<1> QED
  BY <1>1, <1>5, <1>6, <1>7, HandlesTransitive

(* Two sequences one after the other.                                        *)
LEMMA InEither ==
    ASSUME NEW s, NEW t, IsASequence(s), IsASequence(t)
    PROVE  IsASequence(s \o t) /\ ToSet(s \o t) \subseteq ToSet(s) \cup ToSet(t)
<1>1. PICK S : s \in Seq(S)
  BY DEF IsASequence
<1>2. PICK T : t \in Seq(T)
  BY DEF IsASequence
<1> DEFINE U == S \cup T
           w == s \o t
<1>3. s \in Seq(U) /\ t \in Seq(U)
  BY <1>1, <1>2
<1>4. /\ w \in Seq(U) /\ Len(w) = Len(s) + Len(t)
      /\ \A i \in 1 .. Len(s) : w[i] = s[i]
      /\ \A i \in 1 .. Len(t) : w[Len(s) + i] = t[i]
      /\ Len(s) \in Nat /\ Len(t) \in Nat
  BY <1>3
<1>5. DOMAIN s = 1 .. Len(s) /\ DOMAIN t = 1 .. Len(t) /\ DOMAIN w = 1 .. Len(w)
  BY <1>3, <1>4
<1> HIDE DEF w
<1>6. ASSUME NEW i \in DOMAIN w PROVE w[i] \in ToSet(s) \cup ToSet(t)
  <2>1. CASE i <= Len(s)
    BY <1>4, <1>5, <2>1 DEF ToSet
  <2>2. CASE i > Len(s)
    <3> DEFINE j == i - Len(s)
    <3>1. j \in DOMAIN t /\ i = Len(s) + j
      BY <1>4, <1>5, <2>2
    <3> HIDE DEF j
    <3>2. w[i] = t[j]
      BY <1>4, <1>5, <3>1
    <3> QED
      BY <3>1, <3>2 DEF ToSet
  <2> QED
    BY <1>4, <1>5, <2>1, <2>2
<1> QED
  BY <1>4, <1>6 DEF IsASequence, ToSet, w

LEMMA FramesPut ==
    ASSUME NEW c, ConsoleShape(c), NEW o, NEW r, NEW n,
           NEW d, d = [c EXCEPT !.out = o, !.room = r, !.assoc.sequence = n]
    PROVE  /\ Shows(d, c.gens, c.events, o, r)
           /\ Holds(d.assoc, c.assoc.gen, c.assoc.highest, c.assoc.seen, c.assoc.pending, n)
BY DEF ConsoleShape, AssocShape, Shows, Holds

(* Packets that are protected hold the bodies they were made for.            *)
Protected(m, c, d, bodies) ==
    /\ Shows(d, c.gens, c.events, d.out, d.room) /\ d.room \in Nat
    /\ Holds(d.assoc, c.assoc.gen, c.assoc.highest, c.assoc.seen, c.assoc.pending,
             d.assoc.sequence)
    /\ d.assoc.sequence \in Nat /\ IsASequence(d.out)
    /\ \A x \in ToSet(d.out) : \/ x \in ToSet(c.out)
                               \/ \E i \in DOMAIN bodies : x = Numbered(m, c, i, bodies[i])

LEMMA ProtectAllSends ==
    ASSUME NEW m, NEW c, Careful(m, c), NEW bodies, IsASequence(bodies),
           Len(bodies) <= c.room, NEW d, d = ProtectAll(m, c, bodies)
    PROVE  Protected(m, c, d, bodies)
<1> DEFINE q == [i \in 1 .. Len(bodies) |-> Numbered(m, c, i, bodies[i])]
           o == c.out \o q
           r == c.room - Len(bodies)
           n == c.assoc.sequence + Len(bodies)
<1>1. PICK S : bodies \in Seq(S)
  BY DEF IsASequence
<1>2. Len(bodies) \in Nat /\ DOMAIN bodies = 1 .. Len(bodies)
  BY <1>1
<1>3. /\ IsASequence(q)
      /\ \A x \in ToSet(q) : \E i \in DOMAIN bodies : x = Numbered(m, c, i, bodies[i])
  <2> DEFINE Q == {Numbered(m, c, i, bodies[i]) : i \in 1 .. Len(bodies)}
  <2>1. q \in Seq(Q)
    BY <1>2
  <2>2. DOMAIN q = 1 .. Len(bodies)
    OBVIOUS
  <2>3. \A x \in ToSet(q) : \E i \in DOMAIN bodies : x = Numbered(m, c, i, bodies[i])
    BY <1>2, <2>2 DEF ToSet
  <2> QED
    BY <2>1, <2>3 DEF IsASequence
<1>4. d = [c EXCEPT !.out = o, !.room = r, !.assoc.sequence = n]
  BY DEF ProtectAll
<1> HIDE DEF q
<1>5. IsASequence(o) /\ ToSet(o) \subseteq ToSet(c.out) \cup ToSet(q)
  BY <1>3, InEither DEF Careful
<1>6. r \in Nat /\ n \in Nat
  BY <1>2 DEF Careful
<1>7. ConsoleShape(c)
  BY DEF Careful
<1> HIDE DEF o, r, n
<1>8. /\ Shows(d, c.gens, c.events, o, r)
      /\ Holds(d.assoc, c.assoc.gen, c.assoc.highest, c.assoc.seen, c.assoc.pending, n)
  BY <1>4, <1>7, FramesPut
<1>9. d.out = o /\ d.room = r /\ d.assoc.sequence = n
  BY <1>8 DEF Shows, Holds
<1> QED
  BY <1>3, <1>5, <1>6, <1>8, <1>9 DEF Protected

(* What is sent is new and what stays queued, p, is not.                     *)
Sends(c, bodies, p) ==
    /\ IsASequence(bodies) /\ Len(bodies) <= c.room
    /\ IsASequence(p) /\ Unrepeated(p)
    /\ \A b \in ToSet(p) : /\ b \notin Sent(c)
                           /\ b \in ToSet(bodies) => b \in {Keepalive, Teardown}
    /\ \A i, j \in DOMAIN bodies :
         bodies[i] = bodies[j] /\ bodies[i] \notin {Keepalive, Teardown} => i = j
    /\ \A i \in DOMAIN bodies :
         bodies[i] \notin {Keepalive, Teardown} => bodies[i] \notin Sent(c)

LEMMA SendsEachOnce ==
    ASSUME NEW m, NEW c, Careful(m, c), NEW bodies, NEW p, Sends(c, bodies, p),
           NEW d, d = ProtectAll(m, c, bodies),
           NEW f, Shows(f, d.gens, d.events, d.out, d.room),
           Holds(f.assoc, d.assoc.gen, d.assoc.highest, d.assoc.seen, p, d.assoc.sequence)
    PROVE  /\ Careful(m, f) /\ Windowed(c, f) /\ f.events = c.events
           /\ \A b \in Owes(f) : \/ b \in Sent(c) \cup ToSet(p)
                                 \/ b \in ToSet(bodies) /\ b \notin {Keepalive, Teardown}
<1>1. Protected(m, c, d, bodies)
  BY ProtectAllSends DEF Sends
<1>2. /\ Shows(f, c.gens, c.events, d.out, d.room)
      /\ Holds(f.assoc, c.assoc.gen, c.assoc.highest, c.assoc.seen, p, d.assoc.sequence)
  BY <1>1 DEF Protected, Shows, Holds
<1>3. DOMAIN bodies \subseteq Nat
  <2>1. PICK S : bodies \in Seq(S)
    BY DEF IsASequence, Sends
  <2> QED
    BY <2>1
<1>4. ASSUME NEW i \in DOMAIN bodies
      PROVE  LET x == Numbered(m, c, i, bodies[i])
             IN  /\ x.to = Peer(m) /\ x.body = bodies[i] /\ x.kind = "packet"
                 /\ Frame(x)
  BY <1>3 DEF Numbered, Careful, Frame
<1>5. \A x \in ToSet(f.out) : x.to = Peer(m) /\ Frame(x)
  BY <1>1, <1>2, <1>4 DEF Protected, Shows, Careful
<1>6. \A x \in Guests(ToSet(f.out)) :
        \/ x \in Guests(ToSet(c.out))
        \/ \E i \in DOMAIN bodies : /\ x = Numbered(m, c, i, bodies[i])
                                    /\ x.body = bodies[i]
                                    /\ bodies[i] \notin {Keepalive, Teardown}
  BY <1>1, <1>2, <1>4 DEF Protected, Shows, Guests
<1>7. \A x \in Guests(ToSet(c.out)) : x.body \in Sent(c)
  BY DEF Sent
<1>8. \A i \in DOMAIN bodies : bodies[i] \in ToSet(bodies)
  BY DEF ToSet
<1>9. OneEach(ToSet(f.out), ToSet(p))
  <2>1. ASSUME NEW x \in Guests(ToSet(f.out)), NEW y \in Guests(ToSet(f.out)),
               x.body = y.body
        PROVE  x = y
    <3>1. CASE x \in Guests(ToSet(c.out)) /\ y \in Guests(ToSet(c.out))
      BY <2>1, <3>1 DEF Careful, OneEach
    <3>2. CASE x \notin Guests(ToSet(c.out)) /\ y \notin Guests(ToSet(c.out))
      BY <1>6, <2>1, <3>2 DEF Sends
    <3>3. CASE x \in Guests(ToSet(c.out)) /\ y \notin Guests(ToSet(c.out))
      BY <1>6, <1>7, <2>1, <3>3 DEF Sends
    <3>4. CASE x \notin Guests(ToSet(c.out)) /\ y \in Guests(ToSet(c.out))
      BY <1>6, <1>7, <2>1, <3>4 DEF Sends
    <3> QED
      BY <3>1, <3>2, <3>3, <3>4
  <2>2. \A x \in Guests(ToSet(f.out)) : x.body \notin ToSet(p)
    BY <1>6, <1>7, <1>8 DEF Sends
  <2> QED
    BY <2>1, <2>2 DEF OneEach
<1>10. Careful(m, f)
  BY <1>1, <1>2, <1>5, <1>9 DEF Protected, Sends, Careful, Shows, Holds
<1>11. Windowed(c, f)
  BY <1>2 DEF Windowed, Shows, Holds, Careful, Spent
<1>12. \A b \in Owes(f) : \/ b \in Sent(c) \cup ToSet(p)
                          \/ b \in ToSet(bodies) /\ b \notin {Keepalive, Teardown}
  BY <1>2, <1>6, <1>7, <1>8 DEF Owes, Sent, Holds
<1> QED
  BY <1>2, <1>10, <1>11, <1>12 DEF Shows

(* One packet that is no guest's.                                            *)
LEMMA ProtectHandled ==
    ASSUME NEW m, NEW c, Careful(m, c), NEW body \in {Keepalive, Teardown}
    PROVE  Handles(m, c, Protect(m, c, body))
<1>1. CASE ~CanProtect(c)
  BY <1>1, HandlesSelf DEF Protect
<1>2. CASE CanProtect(c)
  <2> DEFINE one == <<body>>
             d == ProtectAll(m, c, one)
             p == c.assoc.pending
  <2>1. Protect(m, c, body) = d
    BY <1>2 DEF Protect
  <2>2. IsASequence(one) /\ Len(one) = 1 /\ ToSet(one) = {body} /\ one[1] = body
        /\ DOMAIN one = {1}
    <3>1. one \in Seq({body}) /\ DOMAIN one = {1} /\ one[1] = body /\ Len(one) = 1
      OBVIOUS
    <3> QED
      BY <3>1 DEF IsASequence, ToSet
  <2> HIDE DEF one
  <2>3. Len(one) <= c.room
    BY <1>2, <2>2 DEF CanProtect, Careful
  <2>4. d = ProtectAll(m, c, one)
    OBVIOUS
  <2> HIDE DEF d, p
  <2>5. Sends(c, one, p)
    <3>1. /\ IsASequence(p) /\ Unrepeated(p)
          /\ \A b \in ToSet(p) : b \notin Sent(c)
      BY DEF Careful, OneEach, Sent, p
    <3>2. \A i, j \in DOMAIN one : one[i] \in {Keepalive, Teardown}
      BY <2>2
    <3> QED
      BY <2>2, <2>3, <3>1, <3>2 DEF Sends
  <2>6. /\ Shows(d, d.gens, d.events, d.out, d.room)
        /\ Holds(d.assoc, d.assoc.gen, d.assoc.highest, d.assoc.seen, p, d.assoc.sequence)
    <3>1. Protected(m, c, d, one)
      BY <2>2, <2>3, <2>4, ProtectAllSends
    <3> QED
      BY <3>1 DEF Protected, Shows, Holds, p
  <2>7. /\ Careful(m, d) /\ Windowed(c, d) /\ d.events = c.events
        /\ \A b \in Owes(d) : \/ b \in Sent(c) \cup ToSet(p)
                              \/ b \in ToSet(one) /\ b \notin {Keepalive, Teardown}
    BY <2>4, <2>5, <2>6, SendsEachOnce
  <2>8. Owes(d) \subseteq Owes(c)
    BY <2>2, <2>7 DEF Owes, p
  <2> QED
    BY <2>1, <2>7, <2>8 DEF Handles, Spends, TellsLess
<1> QED
  BY <1>1, <1>2

(* A queue cut in two.                                                       *)
LEMMA CutApart ==
    ASSUME NEW s, IsASequence(s), Unrepeated(s), NEW n \in 0 .. Len(s)
    PROVE  /\ Unrepeated(SubSeq(s, 1, n)) /\ Unrepeated(SubSeq(s, n + 1, Len(s)))
           /\ ToSet(SubSeq(s, 1, n)) \subseteq ToSet(s)
           /\ ToSet(SubSeq(s, n + 1, Len(s))) \subseteq ToSet(s)
           /\ \A x \in ToSet(SubSeq(s, 1, n)) : x \notin ToSet(SubSeq(s, n + 1, Len(s)))
<1> DEFINE a == SubSeq(s, 1, n)
           b == SubSeq(s, n + 1, Len(s))
<1>1. PICK S : s \in Seq(S)
  BY DEF IsASequence
<1>2. Len(s) \in Nat /\ DOMAIN s = 1 .. Len(s) /\ n \in Nat /\ n <= Len(s)
  BY <1>1
<1>3. DOMAIN a = 1 .. n /\ \A i \in 1 .. n : a[i] = s[i]
  BY <1>1, <1>2
<1>4. DOMAIN b = 1 .. Len(s) - n /\ \A i \in 1 .. Len(s) - n : b[i] = s[n + i]
  <2>1. \A i \in n + 1 .. Len(s) : s[i] \in S
    BY <1>1, <1>2
  <2>2. /\ b \in Seq(S) /\ Len(b) = IF n + 1 <= Len(s) THEN Len(s) - (n + 1) + 1 ELSE 0
        /\ \A i \in 1 .. Len(s) - (n + 1) + 1 : b[i] = s[n + 1 + i - 1]
    BY <1>2, <2>1, SubSeqProperties
  <2> HIDE DEF b
  <2>3. Len(b) = Len(s) - n
    BY <1>2, <2>2, LengthOfRest
  <2>4. DOMAIN b = 1 .. Len(b)
    BY <2>2
  <2>5. \A i \in 1 .. Len(s) - n : n + 1 + i - 1 = n + i /\ i \in 1 .. Len(s) - (n + 1) + 1
    BY <1>2
  <2> QED
    BY <2>2, <2>3, <2>4, <2>5
<1> HIDE DEF a, b
<1>5. \A i \in DOMAIN a : i \in DOMAIN s /\ i <= n /\ a[i] = s[i]
  BY <1>2, <1>3
<1>6. \A i \in DOMAIN b : i \in Nat /\ n + i \in DOMAIN s /\ n + i > n /\ b[i] = s[n + i]
  BY <1>2, <1>4
<1>7. Unrepeated(a)
  BY <1>5 DEF Unrepeated
<1>8. Unrepeated(b)
  <2> SUFFICES ASSUME NEW i \in DOMAIN b, NEW j \in DOMAIN b, b[i] = b[j]
               PROVE  i = j
    BY DEF Unrepeated
  <2>1. n + i = n + j
    BY <1>6 DEF Unrepeated
  <2> QED
    BY <1>2, <1>6, <2>1
<1>9. ToSet(a) \subseteq ToSet(s) /\ ToSet(b) \subseteq ToSet(s)
  BY <1>5, <1>6 DEF ToSet
<1>10. ASSUME NEW i \in DOMAIN a, NEW j \in DOMAIN b PROVE a[i] # b[j]
  BY <1>2, <1>5, <1>6 DEF Unrepeated
<1>11. \A x \in ToSet(a) : x \notin ToSet(b)
  BY <1>10 DEF ToSet
<1> QED
  BY <1>7, <1>8, <1>9, <1>11 DEF a, b

LEMMA FlushHandled ==
    ASSUME NEW m, NEW c, Careful(m, c), plan.sequence \in Nat
    PROVE  Handles(m, c, FlushPending(m, c))
<1> DEFINE q == c.assoc.pending
           n == Min({Room(c), Len(q)})
           bodies == SubSeq(q, 1, n)
           p == SubSeq(q, n + 1, Len(q))
           d == ProtectAll(m, c, bodies)
           f == [d EXCEPT !.assoc.pending = p]
<1>1. FlushPending(m, c) =
        [d EXCEPT !.assoc.pending = SubSeq(d.assoc.pending, n + 1, Len(d.assoc.pending))]
  BY DEF FlushPending
<1>2. n \in 0 .. Len(q) /\ n <= c.room
  BY FlushLength DEF Careful
<1> HIDE DEF n
<1>3. IsASequence(q) /\ Unrepeated(q)
  BY DEF Careful
<1>4. bodies = SubSeq(q, 1, n) /\ p = SubSeq(q, n + 1, Len(q))
  OBVIOUS
<1> HIDE DEF bodies, p
<1>5. /\ IsASequence(bodies) /\ Len(bodies) = n /\ IsASequence(p)
      /\ Unrepeated(bodies) /\ Unrepeated(p)
      /\ ToSet(bodies) \subseteq ToSet(q) /\ ToSet(p) \subseteq ToSet(q)
      /\ \A x \in ToSet(bodies) : x \notin ToSet(p)
  <2>1. IsASequence(bodies) /\ Len(bodies) = n /\ IsASequence(p)
    BY <1>2, <1>3, <1>4, Cut
  <2> HIDE DEF q
  <2>2. /\ Unrepeated(bodies) /\ Unrepeated(p)
        /\ ToSet(bodies) \subseteq ToSet(q) /\ ToSet(p) \subseteq ToSet(q)
        /\ \A x \in ToSet(bodies) : x \notin ToSet(p)
    BY <1>2, <1>3, <1>4, CutApart
  <2> QED
    BY <2>1, <2>2
<1>6. \A b \in ToSet(q) : b \notin Sent(c)
  BY DEF Careful, OneEach, Sent
<1>7. Sends(c, bodies, p)
  <2>1. \A i \in DOMAIN bodies : bodies[i] \in ToSet(bodies)
    BY DEF ToSet
  <2>2. Len(bodies) <= c.room
    BY <1>2, <1>5
  <2> HIDE DEF q
  <2> QED
    BY <1>5, <1>6, <2>1, <2>2 DEF Sends, Unrepeated
<1>8. d = ProtectAll(m, c, bodies)
  OBVIOUS
<1> HIDE DEF d
<1>9. Shows(d, d.gens, d.events, d.out, d.room) /\ AssocShape(d.assoc)
      /\ d.assoc.pending = q
  <2>1. Protected(m, c, d, bodies)
    BY <1>2, <1>5, <1>8, ProtectAllSends
  <2> QED
    BY <2>1 DEF Protected, Shows, Holds
<1>10. FlushPending(m, c) = f
  BY <1>1, <1>4, <1>9
<1>11. f = [d EXCEPT !.assoc.pending = p]
  OBVIOUS
<1> HIDE DEF q, f
<1>12. /\ Shows(f, d.gens, d.events, d.out, d.room)
       /\ Holds(f.assoc, d.assoc.gen, d.assoc.highest, d.assoc.seen, p, d.assoc.sequence)
  BY <1>9, <1>11 DEF ConsoleShape, AssocShape, Shows, Holds
<1>13. /\ Careful(m, f) /\ Windowed(c, f) /\ f.events = c.events
       /\ \A b \in Owes(f) : \/ b \in Sent(c) \cup ToSet(p)
                             \/ b \in ToSet(bodies) /\ b \notin {Keepalive, Teardown}
  BY <1>7, <1>8, <1>12, SendsEachOnce
<1>14. Owes(f) \subseteq Owes(c)
  BY <1>5, <1>13 DEF Owes, q
<1> QED
  BY <1>10, <1>13, <1>14 DEF Handles, Spends, TellsLess

LEMMA EstablishHandled ==
    ASSUME NEW m, NEW c, Careful(m, c), plan.sequence \in Nat
    PROVE  Handles(m, c, Establish(m, c))
<1>1. CASE Established(c.assoc)
  BY <1>1, HandlesSelf DEF Establish
<1>2. CASE ~Established(c.assoc)
  <2> DEFINE x == Event("Connected", 0)
             es == Append(c.events, x)
             told == [c EXCEPT !.assoc.status = "Established", !.assoc.attempts = 0,
                               !.events = es]
             kept == Protect(m, told, Keepalive)
  <2>1. Establish(m, c) = FlushPending(m, kept)
    BY <1>2 DEF Establish
  <2>2. x.type # "Datagram"
    BY DEF Event
  <2> HIDE DEF x
  <2>3. IsASequence(es) /\ TellsLess(c.events, es)
    BY <2>2, OneMore DEF Careful
  <2>4. told = [c EXCEPT !.assoc.status = "Established", !.assoc.attempts = 0, !.events = es]
    OBVIOUS
  <2> HIDE DEF es, told
  <2>5. /\ Shows(told, c.gens, es, c.out, c.room)
        /\ Holds(told.assoc, c.assoc.gen, c.assoc.highest, c.assoc.seen, c.assoc.pending,
                 c.assoc.sequence)
    BY <2>4 DEF Careful, ConsoleShape, AssocShape, Shows, Holds
  <2>6. Careful(m, told)
    BY <2>3, <2>5 DEF Careful, Shows, Holds
  <2>7. Owes(told) = Owes(c) /\ Windowed(c, told)
    BY <2>5 DEF Owes, Sent, Windowed, Spent, Shows, Holds, Careful
  <2>8. Handles(m, c, told)
    BY <2>3, <2>5, <2>6, <2>7 DEF Handles, Spends, Shows
  <2>9. Handles(m, told, kept) /\ Careful(m, kept)
    BY <2>6, ProtectHandled DEF Handles, Spends
  <2> HIDE DEF kept
  <2>10. Handles(m, kept, FlushPending(m, kept))
    BY <2>9, FlushHandled
  <2> QED
    BY <2>1, <2>6, <2>8, <2>9, <2>10, HandlesTransitive
<1> QED
  BY <1>1, <1>2

(* What is queued goes with the association.                                 *)
LEMMA RetireHandled ==
    ASSUME NEW m, NEW c, Careful(m, c)
    PROVE  /\ Handles(m, c, Retire(c)) /\ Retire(c).gens = c.gens
           /\ ToSet(Retire(c).assoc.pending) = {} /\ Retire(c).room = c.room
<1> DEFINE x == Event("Retired", 0)
           es == Append(<<>>, x)
           d == [c EXCEPT !.assoc = None, !.lost = TRUE, !.events = es]
<1>1. Retire(c) = d
  BY DEF Retire
<1>2. IsASequence(es) /\ TellsLess(c.events, es)
  <2>1. x.type # "Datagram"
    BY DEF Event
  <2> HIDE DEF x
  <2>2. IsASequence(es) /\ TellsLess(<<>>, es)
    BY <2>1, NothingThere, OneMore
  <2>3. TellsLess(c.events, <<>>)
    BY NothingThere
  <2> QED
    BY <2>2, <2>3 DEF TellsLess
<1>3. d = [c EXCEPT !.assoc = None, !.lost = TRUE, !.events = es]
  OBVIOUS
<1> HIDE DEF es, d
<1>4. Shows(d, c.gens, es, c.out, c.room) /\ d.assoc = None
  BY <1>3, NothingThere DEF Careful, ConsoleShape, Shows
<1>5. Holds(d.assoc, 0, 0, {}, <<>>, 0)
  BY <1>4, NothingThere
<1>6. c.gens \in Nat /\ c.gens <= c.gens /\ ToSet(<<>>) \subseteq ToSet(c.assoc.pending)
  BY NothingThere DEF Careful
<1>7. Handles(m, c, d)
  BY <1>2, <1>4, <1>5, <1>6, NothingThere, Renewed
<1> QED
  BY <1>1, <1>4, <1>5, <1>7, NothingThere DEF Shows, Holds

(* A new association, with what it is given to hold.                         *)
LEMMA DrawnHandled ==
    ASSUME NEW m, NEW c, Careful(m, c), NEW g, g = c.gens + 1,
           NEW p, IsASequence(p), Unrepeated(p), ToSet(p) \subseteq ToSet(c.assoc.pending),
           NEW a, Holds(a, g, 0, {}, p, 0),
           NEW d, d = [c EXCEPT !.gens = g, !.assoc = a]
    PROVE  Handles(m, c, d) /\ d.room = c.room
<1>1. g \in Nat /\ c.gens <= g /\ g > c.gens
  BY DEF Careful
<1>2. Shows(d, g, c.events, c.out, c.room) /\ d.assoc = a
  BY DEF Careful, ConsoleShape, Shows, Holds
<1>3. IsASequence(c.events) /\ TellsLess(c.events, c.events)
  BY DEF Careful, TellsLess
<1>4. Handles(m, c, d)
  BY <1>1, <1>2, <1>3, Renewed
<1> QED
  BY <1>2, <1>4 DEF Shows

LEMMA CreatedHolds ==
    ASSUME NEW c, NEW g, g = c.gens + 1, NEW r, NEW w, NEW p, NEW a,
           \/ a = [Created(c) EXCEPT !.initiator = TRUE] /\ p = <<>>
           \/ a = [Created(c) EXCEPT !.remote = r, !.fresh = w, !.pending = p]
    PROVE  Holds(a, g, 0, {}, p, 0)
<1>1. Created(c) = [None EXCEPT !.status = "Pending", !.gen = g]
  BY DEF Created
<1>2. CASE a = [Created(c) EXCEPT !.initiator = TRUE] /\ p = <<>>
  BY <1>1, <1>2 DEF AssocShape, Holds, None
<1>3. CASE a = [Created(c) EXCEPT !.remote = r, !.fresh = w, !.pending = p]
  BY <1>1, <1>3 DEF AssocShape, Holds, None
<1> QED
  BY <1>2, <1>3

LEMMA ConnectHandled ==
    ASSUME NEW m, NEW c, Careful(m, c)
    PROVE  Handles(m, c, Connect(m, c))
<1>1. CASE Exists(c.assoc) \/ c.room = 0 \/ ~CanCreate(c)
  BY <1>1, HandlesSelf DEF Connect
<1>2. CASE ~(Exists(c.assoc) \/ c.room = 0 \/ ~CanCreate(c))
  <2> DEFINE g == c.gens + 1
             a == [Created(c) EXCEPT !.initiator = TRUE]
             d == [c EXCEPT !.gens = g, !.assoc = a]
  <2>1. Connect(m, c) = ExchangePacket(m, d)
    BY <1>2 DEF Connect
  <2>2. a = [Created(c) EXCEPT !.initiator = TRUE]
    OBVIOUS
  <2> HIDE DEF a
  <2>3. Holds(a, g, 0, {}, <<>>, 0)
    BY <2>2, CreatedHolds
  <2>4. IsASequence(<<>>) /\ Unrepeated(<<>>) /\ ToSet(<<>>) \subseteq ToSet(c.assoc.pending)
    BY NothingThere
  <2>5. g = c.gens + 1 /\ d = [c EXCEPT !.gens = g, !.assoc = a]
    OBVIOUS
  <2> HIDE DEF g, d
  <2>6. Handles(m, c, d)
    BY <2>3, <2>4, <2>5, DrawnHandled
  <2>7. Handles(m, d, ExchangePacket(m, d))
    BY <2>6, ExchangeHandled DEF Handles, Spends
  <2> QED
    BY <2>1, <2>6, <2>7, HandlesTransitive
<1> QED
  BY <1>1, <1>2

(* A packet that is new to the console is queued, or goes out.               *)
LEMMA SendHandled ==
    ASSUME NEW m, NEW c, Careful(m, c), NEW body, body \notin Owes(c)
    PROVE  LET d == SendPacket(m, c, body)
           IN  /\ Careful(m, d) /\ Windowed(c, d) /\ d.events = c.events
               /\ Owes(d) \subseteq Owes(c) \cup {body}
<1> DEFINE p == c.assoc.pending
<1>1. CASE Established(c.assoc) /\ CanProtect(c)
  <2> DEFINE one == <<body>>
             d == ProtectAll(m, c, one)
  <2>1. SendPacket(m, c, body) = d
    BY <1>1 DEF SendPacket, Protect
  <2>2. IsASequence(one) /\ Len(one) = 1 /\ ToSet(one) = {body} /\ one[1] = body
        /\ DOMAIN one = {1}
    <3>1. one \in Seq({body}) /\ DOMAIN one = {1} /\ one[1] = body /\ Len(one) = 1
      OBVIOUS
    <3> QED
      BY <3>1 DEF IsASequence, ToSet
  <2> HIDE DEF one
  <2>3. Len(one) <= c.room
    BY <1>1, <2>2 DEF CanProtect, Careful
  <2>4. d = ProtectAll(m, c, one)
    OBVIOUS
  <2> HIDE DEF d, p
  <2>5. Sends(c, one, p)
    <3>1. /\ IsASequence(p) /\ Unrepeated(p)
          /\ \A b \in ToSet(p) : b \notin Sent(c) /\ b # body
          /\ body \notin Sent(c)
      BY DEF Careful, OneEach, Sent, Owes, p
    <3>2. \A i, j \in DOMAIN one : i = j /\ one[i] = body
      BY <2>2
    <3> QED
      BY <2>2, <2>3, <3>1, <3>2 DEF Sends
  <2>6. /\ Shows(d, d.gens, d.events, d.out, d.room)
        /\ Holds(d.assoc, d.assoc.gen, d.assoc.highest, d.assoc.seen, p, d.assoc.sequence)
    <3>1. Protected(m, c, d, one)
      BY <2>2, <2>3, <2>4, ProtectAllSends
    <3> QED
      BY <3>1 DEF Protected, Shows, Holds, p
  <2>7. /\ Careful(m, d) /\ Windowed(c, d) /\ d.events = c.events
        /\ \A b \in Owes(d) : \/ b \in Sent(c) \cup ToSet(p)
                              \/ b \in ToSet(one) /\ b \notin {Keepalive, Teardown}
    BY <2>4, <2>5, <2>6, SendsEachOnce
  <2>8. Owes(d) \subseteq Owes(c) \cup {body}
    BY <2>2, <2>7 DEF Owes, p
  <2> QED
    BY <2>1, <2>7, <2>8
<1>2. CASE Established(c.assoc) /\ ~CanProtect(c)
  <2>1. SendPacket(m, c, body) = c
    BY <1>2 DEF SendPacket, Protect
  <2> QED
    BY <2>1, HandlesSelf DEF Handles, Spends
<1>3. CASE ~Established(c.assoc)
  <2> DEFINE q == Append(p, body)
             d == [c EXCEPT !.assoc.pending = q]
  <2>1. SendPacket(m, c, body) = d
    BY <1>3 DEF SendPacket
  <2>2. IsASequence(q) /\ Unrepeated(q) /\ ToSet(q) = ToSet(p) \cup {body}
    <3>1. IsASequence(p) /\ Unrepeated(p) /\ body \notin ToSet(p)
      BY DEF Careful, Owes
    <3> HIDE DEF p
    <3> QED
      BY <3>1, OneMore
  <2>3. d = [c EXCEPT !.assoc.pending = q]
    OBVIOUS
  <2> HIDE DEF q, d
  <2>4. /\ Shows(d, c.gens, c.events, c.out, c.room)
        /\ Holds(d.assoc, c.assoc.gen, c.assoc.highest, c.assoc.seen, q, c.assoc.sequence)
    BY <2>3 DEF Careful, ConsoleShape, AssocShape, Shows, Holds
  <2>5. \A x \in Guests(ToSet(c.out)) : x.body # body
    BY DEF Owes, Sent
  <2>6. Careful(m, d)
    BY <2>2, <2>4, <2>5 DEF Careful, Shows, Holds, OneEach
  <2>7. Windowed(c, d) /\ d.events = c.events
    BY <2>4 DEF Windowed, Spent, Shows, Holds, Careful
  <2>8. Owes(d) \subseteq Owes(c) \cup {body}
    BY <2>2, <2>4 DEF Owes, Sent, Shows, Holds
  <2> QED
    BY <2>1, <2>6, <2>7, <2>8
<1> QED
  BY <1>1, <1>2, <1>3

LEMMA ResponseHandled ==
    ASSUME NEW m, NEW c, NEW x, Careful(m, c), plan.sequence \in Nat
    PROVE  Handles(m, c, ReceiveResponse(m, c, x))
<1> DEFINE v == x.responder
           w == x.fresh
           met == [c EXCEPT !.assoc.remote = v, !.assoc.fresh = w]
<1>1. \/ ReceiveResponse(m, c, x) = c
      \/ ReceiveResponse(m, c, x) = Protect(m, met, Keepalive)
      \/ ReceiveResponse(m, c, x) = Establish(m, met)
  BY DEF ReceiveResponse
<1>2. met = [c EXCEPT !.assoc.remote = v, !.assoc.fresh = w]
  OBVIOUS
<1> HIDE DEF v, w, met
<1>3. Same(c, met)
  BY <1>2 DEF Careful, ConsoleShape, AssocShape, Same, Shows, Holds
<1>4. Handles(m, c, met) /\ Careful(m, met)
  BY <1>3, SameHandled DEF Handles, Spends
<1>5. Handles(m, met, Protect(m, met, Keepalive)) /\ Handles(m, met, Establish(m, met))
  BY <1>4, ProtectHandled, EstablishHandled
<1> QED
  BY <1>1, <1>4, <1>5, HandlesSelf, HandlesTransitive

LEMMA AnswerRetryHandled ==
    ASSUME NEW m, NEW c, NEW x, Careful(m, c)
    PROVE  Handles(m, c, AnswerRetry(m, c, x))
<1> DEFINE w == x.fresh
           noted == [c EXCEPT !.assoc.fresh = w]
<1>1. AnswerRetry(m, c, x) = noted \/ AnswerRetry(m, c, x) = ExchangePacket(m, noted)
  BY DEF AnswerRetry
<1>2. noted = [c EXCEPT !.assoc.fresh = w]
  OBVIOUS
<1> HIDE DEF w, noted
<1>3. Same(c, noted)
  BY <1>2 DEF Careful, ConsoleShape, AssocShape, Same, Shows, Holds
<1>4. Handles(m, c, noted) /\ Careful(m, noted)
  BY <1>3, SameHandled DEF Handles, Spends
<1>5. Handles(m, noted, ExchangePacket(m, noted))
  BY <1>4, ExchangeHandled
<1> QED
  BY <1>1, <1>4, <1>5, HandlesTransitive

(* The association in place is retired, or asked itself and gives up what it *)
(* has queued to the one that takes its place.                               *)
LEMMA MadeRoomHandled ==
    ASSUME NEW m, NEW c, Careful(m, c)
    PROVE  /\ Handles(m, c, MadeRoom(c)) /\ MadeRoom(c).gens = c.gens
           /\ IsASequence(Keeps(c)) /\ Unrepeated(Keeps(c))
           /\ ToSet(Keeps(c)) \subseteq ToSet(MadeRoom(c).assoc.pending)
<1>1. CASE HasAsked(c.assoc)
  <2>1. MadeRoom(c) = c /\ Keeps(c) = c.assoc.pending
    BY <1>1 DEF MadeRoom, Keeps
  <2> QED
    BY <2>1, HandlesSelf DEF Careful
<1>2. CASE ~HasAsked(c.assoc)
  <2>1. Keeps(c) = <<>>
    BY <1>2 DEF Keeps
  <2> QED
    BY <2>1, HandlesSelf, RetireHandled, NothingThere DEF MadeRoom
<1> QED
  BY <1>1, <1>2

(* Without room for the answer the new association is dropped at once.       *)
LEMMA AnswerNewHandled ==
    ASSUME NEW m, NEW c, NEW x, Careful(m, c)
    PROVE  Handles(m, c, AnswerNew(m, c, x))
<1> DEFINE r == x.initiator
           w == x.fresh
           p == Keeps(c)
           answer == [Created(c) EXCEPT !.remote = r, !.fresh = w, !.pending = p]
           room == MadeRoom(c)
           g == room.gens + 1
           drawn == [room EXCEPT !.gens = g, !.assoc = answer]
           sent == ExchangePacket(m, drawn)
           dropped == [sent EXCEPT !.assoc = None]
<1>1. AnswerNew(m, c, x) = IF c.room = 0 THEN dropped ELSE sent
  BY DEF AnswerNew
<1>2. /\ Handles(m, c, room) /\ room.gens = c.gens /\ IsASequence(p) /\ Unrepeated(p)
      /\ ToSet(p) \subseteq ToSet(room.assoc.pending)
  BY MadeRoomHandled
<1>3. /\ answer = [Created(c) EXCEPT !.remote = r, !.fresh = w, !.pending = p]
      /\ g = room.gens + 1 /\ drawn = [room EXCEPT !.gens = g, !.assoc = answer]
      /\ dropped = [sent EXCEPT !.assoc = None]
  OBVIOUS
<1> HIDE DEF r, w, p, answer, room, g, drawn, dropped
<1>4. Holds(answer, g, 0, {}, p, 0)
  BY <1>2, <1>3, CreatedHolds
<1>5. Careful(m, room)
  BY <1>2 DEF Handles, Spends
<1>6. Handles(m, room, drawn) /\ Careful(m, drawn)
  BY <1>2, <1>3, <1>4, <1>5, DrawnHandled DEF Handles, Spends
<1>7. Handles(m, drawn, sent) /\ Careful(m, sent)
  BY <1>6, ExchangeHandled DEF Handles, Spends
<1>8. Handles(m, c, sent)
  BY <1>2, <1>6, <1>7, HandlesTransitive
<1> HIDE DEF sent
<1>9. Handles(m, sent, dropped)
  <2>1. /\ Shows(dropped, sent.gens, sent.events, sent.out, sent.room)
        /\ dropped.assoc = None
    BY <1>3, <1>7, NothingThere DEF Careful, ConsoleShape, Shows
  <2>2. Holds(dropped.assoc, 0, 0, {}, <<>>, 0)
    BY <2>1, NothingThere
  <2>3. /\ sent.gens \in Nat /\ sent.gens <= sent.gens /\ IsASequence(sent.events)
        /\ TellsLess(sent.events, sent.events)
        /\ ToSet(<<>>) \subseteq ToSet(sent.assoc.pending)
    BY <1>7, NothingThere DEF Careful, TellsLess
  <2> QED
    BY <1>7, <2>1, <2>2, <2>3, NothingThere, Renewed
<1> QED
  BY <1>1, <1>8, <1>9, HandlesTransitive

LEMMA RequestHandled ==
    ASSUME NEW m, NEW c, NEW x, Careful(m, c)
    PROVE  Handles(m, c, ReceiveRequest(m, c, x))
<1>1. \/ ReceiveRequest(m, c, x) = c
      \/ ReceiveRequest(m, c, x) = AnswerNew(m, c, x)
      \/ ReceiveRequest(m, c, x) = AnswerRetry(m, c, x)
  BY DEF ReceiveRequest
<1> QED
  BY <1>1, HandlesSelf, AnswerNewHandled, AnswerRetryHandled

(* The window: what it took it refuses, and never forgets that.              *)
Takes(c, d, n) ==
    /\ Shows(d, c.gens, c.events, c.out, c.room)
    /\ Holds(d.assoc, c.assoc.gen, d.assoc.highest, d.assoc.seen, c.assoc.pending,
             c.assoc.sequence)
    /\ d.assoc.highest \in Nat /\ Spent(d.assoc, n)
    /\ \A k \in Nat : Spent(c.assoc, k) => Spent(d.assoc, k)

LEMMA CommitTakes ==
    ASSUME NEW m, NEW c, Careful(m, c), NEW n \in Nat,
           NEW d, d = [c EXCEPT !.assoc = Commit(c.assoc, n)]
    PROVE  Takes(c, d, n)
<1> DEFINE s == c.assoc
           h == IF n > s.highest THEN n ELSE s.highest
           sn == {k \in s.seen \cup {n} : h - k < Window}
           a == [s EXCEPT !.highest = h, !.seen = sn]
<1>1. Commit(s, n) = a
  BY DEF Commit
<1>2. a = [c.assoc EXCEPT !.highest = h, !.seen = sn]
  OBVIOUS
<1>3. s.highest \in Nat /\ h \in Nat /\ h >= s.highest /\ h >= n
  BY DEF Careful
<1>4. Window \in Nat /\ Window > 0
  BY LimitsAssumption
<1>5. n <= h /\ (n \in sn \/ h - n >= Window)
  BY <1>3, <1>4
<1>6. \A k \in Nat : Spent(s, k) => k <= h /\ (k \in sn \/ h - k >= Window)
  BY <1>3, <1>4 DEF Spent
<1> HIDE DEF h, sn, a
<1>7. Holds(a, c.assoc.gen, h, sn, c.assoc.pending, c.assoc.sequence)
  BY <1>2 DEF Careful, ConsoleShape, AssocShape, Holds
<1>8. d = [c EXCEPT !.assoc = a]
  BY <1>1
<1>9. Shows(d, c.gens, c.events, c.out, c.room) /\ d.assoc = a
  BY <1>7, <1>8 DEF Careful, ConsoleShape, Shows, Holds
<1>10. d.assoc.highest = h /\ d.assoc.seen = sn
  BY <1>7, <1>9 DEF Holds
<1> QED
  BY <1>3, <1>5, <1>6, <1>7, <1>9, <1>10 DEF Takes, Spent

LEMMA Refused ==
    ASSUME NEW s, s.highest \in Nat, NEW p, p.sequence \in Nat, Spent(s, p.sequence)
    PROVE  ~Decodes(s, p)
<1>1. ~Permitted(s, p.sequence)
  BY LimitsAssumption DEF Spent, Permitted, IsNew
<1> QED
  BY <1>1 DEF Decodes, Candidates

(* What a packet does that was decoded, and that tells the owner its body.   *)
Receives(m, c, d, p) ==
    /\ Decodes(c.assoc, p) /\ p.body \notin {Keepalive, Teardown}
    /\ Told(d.events) \subseteq Told(c.events) \cup {p.body}
    /\ Once(c.events) /\ p.body \notin Told(c.events) => Once(d.events)
    /\ d.assoc.gen = c.assoc.gen => Spent(d.assoc, p.sequence)

LEMMA PacketHandled ==
    ASSUME NEW m, NEW c, NEW p, Careful(m, c), plan.sequence \in Nat,
           p.sequence \in Nat, Exists(c.assoc) => c.assoc.gen \in 1 .. c.gens
    PROVE  LET d == ReceivePacket(m, c, p)
           IN  /\ Spends(m, c, d)
               /\ TellsLess(c.events, d.events) \/ Receives(m, c, d, p)
<1>1. CASE ~Decodes(c.assoc, p) \/ (c.assoc.initiator /\ ~Established(c.assoc))
  BY <1>1, HandlesSelf DEF ReceivePacket, Handles
<1>2. CASE ~(~Decodes(c.assoc, p) \/ (c.assoc.initiator /\ ~Established(c.assoc)))
  <2> DEFINE n == p.sequence
             taken == [c EXCEPT !.assoc = Commit(c.assoc, n)]
             confirmed == Establish(m, taken)
             x == Event("Datagram", p.body)
             es == Append(confirmed.events, x)
             told == [confirmed EXCEPT !.events = es]
  <2>1. \/ ReceivePacket(m, c, p) = Retire(taken)
        \/ ReceivePacket(m, c, p) = confirmed
        \/ /\ ReceivePacket(m, c, p) = told
           /\ p.body \notin {Keepalive, Teardown}
    BY <1>2 DEF ReceivePacket, Confirmed
  <2>2. taken = [c EXCEPT !.assoc = Commit(c.assoc, n)] /\ n \in Nat
    OBVIOUS
  <2> HIDE DEF n, taken
  <2>3. /\ Shows(taken, c.gens, c.events, c.out, c.room)
        /\ Holds(taken.assoc, c.assoc.gen, taken.assoc.highest, taken.assoc.seen,
                 c.assoc.pending, c.assoc.sequence)
        /\ taken.assoc.highest \in Nat /\ Spent(taken.assoc, n)
        /\ \A k \in Nat : Spent(c.assoc, k) => Spent(taken.assoc, k)
    <3>1. Takes(c, taken, n)
      BY <2>2, CommitTakes
    <3> QED
      BY <3>1 DEF Takes
  <2>4. Careful(m, taken)
    BY <2>3 DEF Careful, Shows, Holds
  <2>5. Handles(m, c, taken)
    <3>1. Windowed(c, taken)
      BY <2>3 DEF Windowed, Shows, Holds, Careful
    <3>2. Owes(taken) = Owes(c) /\ TellsLess(c.events, taken.events)
      BY <2>3 DEF Owes, Sent, TellsLess, Shows, Holds
    <3> QED
      BY <2>4, <3>1, <3>2 DEF Handles, Spends
  <2>6. Handles(m, taken, confirmed)
    BY <2>4, EstablishHandled
  <2>7. Handles(m, c, Retire(taken)) /\ Handles(m, c, confirmed) /\ Careful(m, confirmed)
    BY <2>4, <2>5, <2>6, RetireHandled, HandlesTransitive DEF Handles, Spends
  <2> HIDE DEF confirmed
  <2>8. confirmed.assoc.gen = c.assoc.gen => Spent(confirmed.assoc, n)
    <3>1. Windowed(taken, confirmed) /\ taken.assoc.gen = c.assoc.gen /\ taken.gens = c.gens
          /\ n \in Nat
      BY <2>3, <2>6 DEF Handles, Spends, Shows, Holds, n
    <3>2. c.assoc.gen \in 1 .. c.gens /\ c.gens \in Nat
      BY <1>2 DEF Decodes, Careful
    <3> QED
      BY <2>3, <3>1, <3>2 DEF Windowed
  <2>9. told = [confirmed EXCEPT !.events = es]
    OBVIOUS
  <2>10. x = Event("Datagram", p.body) /\ x.packet = p.body
    BY DEF Event
  <2> HIDE DEF x
  <2>11. /\ IsASequence(es)
         /\ Told(es) \subseteq Told(confirmed.events) \cup {p.body}
         /\ Once(confirmed.events) /\ x \notin ToSet(confirmed.events) => Once(es)
    <3>1. IsASequence(confirmed.events)
      BY <2>7 DEF Careful
    <3> QED
      BY <2>10, <3>1, OneMore
  <2>12. x \in ToSet(confirmed.events) => p.body \in Told(confirmed.events)
    BY <2>10 DEF ToSet, Told, Event
  <2> HIDE DEF es, told
  <2>13. /\ Shows(told, confirmed.gens, es, confirmed.out, confirmed.room)
         /\ told.assoc = confirmed.assoc
    BY <2>7, <2>9 DEF Careful, ConsoleShape, Shows
  <2>14. Spends(m, c, told)
    <3>1. Careful(m, told)
      BY <2>7, <2>11, <2>13 DEF Careful, Shows
    <3>2. Owes(told) = Owes(confirmed)
      BY <2>13 DEF Owes, Sent, Shows
    <3>3. Windowed(c, told)
      BY <2>7, <2>13 DEF Handles, Spends, Windowed, Shows
    <3> QED
      BY <2>7, <3>1, <3>2, <3>3 DEF Handles, Spends
  <2>15. p.body \notin {Keepalive, Teardown} => Receives(m, c, told, p)
    <3>1. TellsLess(c.events, confirmed.events)
      BY <2>7 DEF Handles
    <3>2. told.events = es /\ Spent(told.assoc, n) = Spent(confirmed.assoc, n)
      BY <2>13 DEF Shows
    <3> QED
      BY <1>2, <2>8, <2>11, <2>12, <2>13, <3>1, <3>2 DEF Receives, TellsLess, n
  <2> QED
    BY <2>1, <2>7, <2>14, <2>15 DEF Handles
<1> QED
  BY <1>1, <1>2

LEMMA ReceiveHandled ==
    ASSUME NEW m, NEW c, NEW x, Careful(m, c), plan.sequence \in Nat,
           Frame(x), Exists(c.assoc) => c.assoc.gen \in 1 .. c.gens
    PROVE  LET d == Receive(m, c, x)
           IN  /\ Spends(m, c, d)
               /\ \/ TellsLess(c.events, d.events)
                  \/ x.kind = "packet" /\ Receives(m, c, d, x)
<1>1. CASE x.kind = "request"
  BY <1>1, RequestHandled DEF Receive, Handles
<1>2. CASE x.kind = "response"
  BY <1>2, ResponseHandled DEF Receive, Handles
<1>3. CASE x.kind \notin {"request", "response"}
  <2>1. Receive(m, c, x) = ReceivePacket(m, c, x)
    BY <1>3 DEF Receive
  <2> QED
    BY <1>3, <2>1, PacketHandled DEF Frame
<1> QED
  BY <1>1, <1>2, <1>3

LEMMA TickHandled ==
    ASSUME NEW m, NEW c, Careful(m, c), NEW due, plan.sequence \in Nat
    PROVE  Handles(m, c, TickRetry(m, c)) /\ Handles(m, c, TickEstablished(m, c, due))
<1>1. Handles(m, c, TickRetry(m, c))
  BY RetireHandled, ExchangeHandled DEF TickRetry
<1>2. Handles(m, c, TickEstablished(m, c, due))
  <2> DEFINE kept == IF due THEN Protect(m, c, Keepalive) ELSE c
  <2>1. Handles(m, c, kept)
    BY ProtectHandled, HandlesSelf
  <2>2. TickEstablished(m, c, due) = FlushPending(m, kept)
    BY DEF TickEstablished
  <2> HIDE DEF kept
  <2>3. Handles(m, kept, FlushPending(m, kept))
    BY <2>1, FlushHandled DEF Handles, Spends
  <2> QED
    BY <2>1, <2>2, <2>3, HandlesTransitive
<1> QED
  BY <1>1, <1>2

LEMMA CloseHandled ==
    ASSUME NEW m, NEW c, Careful(m, c)
    PROVE  Handles(m, c, Close(m, c))
<1> DEFINE told == Protect(m, c, Teardown)
<1>1. Handles(m, c, told)
  BY ProtectHandled
<1>2. Close(m, c) = IF Exists(c.assoc) THEN Retire(told) ELSE c
  BY DEF Close
<1> HIDE DEF told
<1>3. Handles(m, told, Retire(told))
  BY <1>1, RetireHandled DEF Handles, Spends
<1> QED
  BY <1>1, <1>2, <1>3, HandlesSelf, HandlesTransitive

-----------------------------------------------------------------------------
(* The consoles and the network together.                                    *)

Arriving(m) == {x \in net : x.to = m}
Received(m) == {n \in DOMAIN delivered[m] : delivered[m][n] # 0}
                 \cup Told(console[m].events)

(* What a console has queued is what Send took of its guest.                 *)
Orderly(m) ==
    /\ Careful(m, console[m]) /\ console[m].out = <<>>
    /\ ToSet(console[m].assoc.pending) \subseteq 1 .. accepted[m]

(* A packet is queued on the other console, or in one message; and once it   *)
(* was received the message is one for an association of the past, or its    *)
(* number is spent.                                                          *)
Single(m) ==
    LET c == console[m]
        w == Peer(m)
    IN  /\ OneEach(Arriving(m), ToSet(console[w].assoc.pending))
        /\ \A x \in Guests(Arriving(m)) : x.body \in 1 .. accepted[w]
        /\ \A n \in Received(m) : /\ n \in 1 .. accepted[w]
                                  /\ n \notin ToSet(console[w].assoc.pending)
        /\ \A x \in Guests(Arriving(m)) :
             x.body \in Received(m) =>
                 /\ x.spi \in 1 .. c.gens
                 /\ x.spi = c.assoc.gen => Spent(c.assoc, x.sequence)

(* The owner is told of a packet once, and of none it has taken.             *)
Counted(m) ==
    /\ Once(console[m].events)
    /\ \A n \in DOMAIN delivered[m] :
         /\ delivered[m][n] \in {0, 1}
         /\ delivered[m][n] = 1 => n \notin Told(console[m].events)

OnceInv ==
    /\ plan \in Plans
    /\ console = [m \in Consoles |-> console[m]]
    /\ delivered = [m \in Consoles |-> [n \in DOMAIN delivered[m] |-> delivered[m][n]]]
    /\ accepted \in [Consoles -> Nat]
    /\ \A x \in net : Frame(x)
    /\ \A m \in Consoles : Orderly(m) /\ Single(m) /\ Counted(m)

LEMMA TwoConsoles ==
    ASSUME NEW m \in Consoles
    PROVE  /\ Peer(m) \in Consoles /\ Peer(m) # m /\ Peer(Peer(m)) = m
           /\ \A n \in Consoles : n = m \/ n = Peer(m)
BY LimitsAssumption DEF Consoles, Peer

(* A call of console m that leaves d, sends only what was queued or is new,  *)
(* and tells its owner of no packet, or of one that arrives and is decoded.  *)
Called(m, d, new) ==
    /\ Careful(m, d) /\ Windowed(console[m], d)
    /\ Owes(d) \subseteq ToSet(console[m].assoc.pending) \cup new
    /\ \/ TellsLess(console[m].events, d.events)
       \/ \E x \in Arriving(m) : x.kind = "packet" /\ Receives(m, console[m], d, x)

(* What the step leaves: d without its frames, which are under way.          *)
Left(m, d, new) ==
    /\ console' = [console EXCEPT ![m] = console'[m]]
    /\ Careful(m, console'[m]) /\ console'[m].out = <<>>
    /\ console'[m].assoc = d.assoc /\ console'[m].gens = d.gens
    /\ console'[m].events = d.events
    /\ net' \subseteq net \cup ToSet(d.out)
    /\ plan' = plan /\ delivered' = delivered
    /\ \/ new = {} /\ accepted' = accepted
       \/ new = {accepted[m] + 1} /\ accepted' = [accepted EXCEPT ![m] = @ + 1]

(* The packets the console that was called has sent and may still send.      *)
LEMMA SenderOnce ==
    ASSUME OnceInv, NEW m \in Consoles, NEW d, NEW new, Called(m, d, new), Left(m, d, new)
    PROVE  Orderly(m)' /\ Single(Peer(m))'
<1> DEFINE w == Peer(m)
           q == ToSet(console[m].assoc.pending)
           q1 == ToSet(d.assoc.pending)
           a == accepted[m]
<1>1. w \in Consoles /\ w # m /\ Peer(w) = m
  BY TwoConsoles
<1> HIDE DEF w
<1>2. /\ console'[w] = console[w] /\ delivered' = delivered
      /\ console'[m].assoc.pending = d.assoc.pending
  BY <1>1 DEF Left, OnceInv
<1>3. a \in Nat /\ a <= accepted'[m] /\ accepted'[m] \in Nat
      /\ \A n \in new : n \notin 1 .. a /\ n \in 1 .. accepted'[m]
  <2>1. a \in Nat
    BY DEF OnceInv
  <2>2. CASE new = {} /\ accepted' = accepted
    BY <2>1, <2>2
  <2>3. CASE new = {a + 1} /\ accepted' = [accepted EXCEPT ![m] = @ + 1]
    <3>1. accepted'[m] = a + 1
      BY <2>3 DEF OnceInv
    <3> QED
      BY <2>1, <2>3, <3>1
  <2> QED
    BY <2>2, <2>3 DEF Left
<1>4. q \subseteq 1 .. a
  BY DEF OnceInv, Orderly
<1>5. \A b \in Owes(d) : b \in 1 .. accepted'[m] /\ (b \in q \/ b \notin 1 .. a)
  BY <1>3, <1>4 DEF Called
<1>6. q1 \subseteq Owes(d) /\ \A x \in Guests(ToSet(d.out)) : x.body \in Owes(d)
  BY DEF Owes, Sent
<1>7. OneEach(ToSet(d.out), q1)
  BY DEF Called, Careful
<1>8. /\ OneEach(Arriving(w), q)
      /\ \A x \in Guests(Arriving(w)) : x.body \in 1 .. a
      /\ \A n \in Received(w) : n \in 1 .. a /\ n \notin q
  BY <1>1 DEF OnceInv, Single
<1>9. \A x \in Guests(Arriving(w)') : x \in Guests(Arriving(w)) \cup Guests(ToSet(d.out))
  BY DEF Left, Arriving, Guests
<1>10. Received(w)' = Received(w)
  BY <1>2 DEF Received
<1>11. \A x \in Guests(Arriving(w)) : x.body \notin Owes(d)
  BY <1>5, <1>8 DEF OneEach
<1> HIDE DEF q, q1, a
<1>12. OneEach(Arriving(w)', q1)
  <2>1. ASSUME NEW x \in Guests(Arriving(w)'), NEW y \in Guests(Arriving(w)'), x.body = y.body
        PROVE  x = y
    BY <1>6, <1>7, <1>8, <1>9, <1>11, <2>1 DEF OneEach
  <2>2. \A x \in Guests(Arriving(w)') : x.body \notin q1
    BY <1>6, <1>7, <1>9, <1>11 DEF OneEach
  <2> QED
    BY <2>1, <2>2 DEF OneEach
<1>13. \A x \in Guests(Arriving(w)') : x.body \in 1 .. accepted'[m]
  <2>1. \A n \in 1 .. a : n \in 1 .. accepted'[m]
    BY <1>3
  <2> QED
    BY <1>5, <1>6, <1>8, <1>9, <2>1
<1>14. \A n \in Received(w)' : n \in 1 .. accepted'[m] /\ n \notin Owes(d)
  <2>1. \A n \in 1 .. a : n \in 1 .. accepted'[m]
    BY <1>3
  <2> QED
    BY <1>5, <1>8, <1>10, <2>1
<1>15. \A x \in Guests(Arriving(w)') :
         x.body \in Received(w)' =>
             /\ x.spi \in 1 .. console[w].gens
             /\ x.spi = console[w].assoc.gen => Spent(console[w].assoc, x.sequence)
  <2>1. \A x \in Guests(Arriving(w)) :
          x.body \in Received(w) =>
             /\ x.spi \in 1 .. console[w].gens
             /\ x.spi = console[w].assoc.gen => Spent(console[w].assoc, x.sequence)
    BY <1>1 DEF OnceInv, Single
  <2> QED
    BY <1>6, <1>9, <1>10, <1>14, <2>1
<1>16. Single(w)'
  BY <1>1, <1>2, <1>6, <1>12, <1>13, <1>14, <1>15 DEF Single, q1
<1>17. Orderly(m)'
  BY <1>2, <1>5, <1>6 DEF Orderly, Left, q1
<1> QED
  BY <1>16, <1>17 DEF w

(* The packets that it received.                                             *)
LEMMA ReceiverOnce ==
    ASSUME IInv, OnceInv, NEW m \in Consoles, NEW d, NEW new, Called(m, d, new),
           Left(m, d, new)
    PROVE  Single(m)' /\ Counted(m)'
<1> DEFINE w == Peer(m)
           c == console[m]
           q == ToSet(console[w].assoc.pending)
           a == accepted[w]
<1>1. w \in Consoles /\ w # m
  BY TwoConsoles
<1>2. /\ c.gens \in Nat /\ d.gens \in Nat /\ c.assoc.gen \in Nat /\ d.assoc.gen \in Nat
      /\ c.assoc.highest \in Nat /\ Windowed(c, d)
      /\ \A x \in Arriving(m) : x.kind = "packet" => x.sequence \in Nat
      /\ Exists(c.assoc) => c.assoc.gen \in 1 .. c.gens
  <2>1. Exists(c.assoc) => c.assoc.gen \in 1 .. c.gens
    BY DEF IInv, Sound, Generated
  <2> QED
    BY <2>1 DEF OnceInv, Orderly, Careful, Called, Arriving, Frame
<1>3. /\ console'[w] = console[w] /\ accepted'[w] = a /\ delivered' = delivered
      /\ console'[m].events = d.events /\ console'[m].assoc = d.assoc
      /\ console'[m].gens = d.gens
  BY <1>1 DEF Left, OnceInv
<1>4. Arriving(m)' \subseteq Arriving(m)
  <2>1. \A x \in ToSet(d.out) : x.to # m
    BY <1>1 DEF Called, Careful
  <2> QED
    BY <2>1 DEF Left, Arriving
<1>5. /\ OneEach(Arriving(m), q)
      /\ \A x \in Guests(Arriving(m)) : x.body \in 1 .. a
      /\ \A n \in Received(m) : n \in 1 .. a /\ n \notin q
      /\ \A x \in Guests(Arriving(m)) :
           x.body \in Received(m) =>
               /\ x.spi \in 1 .. c.gens
               /\ x.spi = c.assoc.gen => Spent(c.assoc, x.sequence)
      /\ Once(c.events)
      /\ \A n \in DOMAIN delivered[m] :
           /\ delivered[m][n] \in {0, 1}
           /\ delivered[m][n] = 1 => n \notin Told(c.events)
  BY DEF OnceInv, Single, Counted
<1>6. Guests(Arriving(m)') \subseteq Guests(Arriving(m))
  BY <1>4 DEF Guests
<1>7. Received(m)' = {n \in DOMAIN delivered[m] : delivered[m][n] # 0} \cup Told(d.events)
  BY <1>3 DEF Received
<1>8. ASSUME NEW x \in Guests(Arriving(m)), x.body \in Received(m)
      PROVE  x.spi \in 1 .. d.gens /\ (x.spi = d.assoc.gen => Spent(d.assoc, x.sequence))
  <2>1. /\ x.spi \in 1 .. c.gens
        /\ x.spi = c.assoc.gen => Spent(c.assoc, x.sequence)
    BY <1>5, <1>8
  <2>2. x.sequence \in Nat
    BY <1>2 DEF Guests
  <2> QED
    BY <1>2, <2>1, <2>2 DEF Windowed
<1>9. CASE TellsLess(c.events, d.events)
  <2>1. Received(m)' \subseteq Received(m)
    BY <1>7, <1>9 DEF Received, TellsLess
  <2>2. OneEach(Arriving(m)', q)
    BY <1>5, <1>6 DEF OneEach
  <2>3. Single(m)'
    BY <1>3, <1>5, <1>6, <1>8, <2>1, <2>2 DEF Single
  <2>4. Counted(m)'
    BY <1>3, <1>5, <1>9 DEF Counted, TellsLess
  <2> QED
    BY <2>3, <2>4
<1>10. ASSUME NEW x \in Arriving(m), x.kind = "packet", Receives(m, c, d, x)
       PROVE  Single(m)' /\ Counted(m)'
  <2>1. x \in Guests(Arriving(m)) /\ x.sequence \in Nat
    BY <1>2, <1>10 DEF Guests, Receives
  <2>2. /\ x.spi = c.assoc.gen /\ x.spi \in 1 .. c.gens
        /\ d.assoc.gen = c.assoc.gen => Spent(d.assoc, x.sequence)
        /\ ~Spent(c.assoc, x.sequence)
    BY <1>2, <1>10, <2>1, Refused DEF Receives, Decodes
  <2>3. x.body \notin Received(m)
    BY <1>5, <2>1, <2>2
  <2>4. \A n \in Received(m)' : n \in Received(m) \/ n = x.body
    BY <1>7, <1>10 DEF Received, Receives
  <2>5. x.spi \in 1 .. d.gens /\ (x.spi = d.assoc.gen => Spent(d.assoc, x.sequence))
    BY <1>2, <2>2 DEF Windowed
  <2>6. OneEach(Arriving(m)', q)
    BY <1>5, <1>6 DEF OneEach
  <2>7. \A n \in Received(m)' : n \in 1 .. a /\ n \notin q
    BY <1>5, <2>1, <2>4 DEF OneEach
  <2>8. \A y \in Guests(Arriving(m)) : y.body = x.body => y = x
    BY <1>5, <2>1 DEF OneEach
  <2>9. \A y \in Guests(Arriving(m)') :
          y.body \in Received(m)' =>
              y.spi \in 1 .. d.gens /\ (y.spi = d.assoc.gen => Spent(d.assoc, y.sequence))
    BY <1>6, <1>8, <2>4, <2>5, <2>8
  <2>10. Single(m)'
    BY <1>3, <1>5, <1>6, <2>6, <2>7, <2>9 DEF Single
  <2>11. x.body \notin Told(c.events)
         /\ \A n \in DOMAIN delivered[m] : delivered[m][n] = 1 => n # x.body
    BY <2>3 DEF Received
  <2>12. Counted(m)'
    BY <1>3, <1>5, <1>10, <2>11 DEF Counted, Receives
  <2> QED
    BY <2>10, <2>12
<1> QED
  BY <1>9, <1>10 DEF Called

LEMMA CalledOnce ==
    ASSUME IInv, OnceInv, NEW m \in Consoles, NEW d, NEW new, Called(m, d, new),
           Left(m, d, new)
    PROVE  OnceInv'
<1>1. Orderly(m)' /\ Single(m)' /\ Counted(m)' /\ Single(Peer(m))'
  BY SenderOnce, ReceiverOnce
<1>2. /\ Peer(m) # m /\ Peer(m) \in Consoles
      /\ \A n \in Consoles : n = m \/ n = Peer(m)
  BY TwoConsoles
<1>3. /\ console' = [n \in Consoles |-> console'[n]]
      /\ console'[Peer(m)] = console[Peer(m)] /\ delivered' = delivered /\ plan' = plan
      /\ accepted'[Peer(m)] = accepted[Peer(m)] /\ accepted' \in [Consoles -> Nat]
  BY <1>2 DEF OnceInv, Left
<1>4. Orderly(Peer(m))' /\ Counted(Peer(m))'
  BY <1>2, <1>3 DEF OnceInv, Orderly, Counted
<1>5. \A x \in net' : Frame(x)
  BY DEF OnceInv, Left, Called, Careful
<1>6. delivered' = [n \in Consoles |-> [k \in DOMAIN delivered'[n] |-> delivered'[n][k]]]
  BY <1>3 DEF OnceInv
<1> QED
  BY <1>1, <1>2, <1>3, <1>4, <1>5, <1>6 DEF OnceInv

LEMMA RoomHandled ==
    ASSUME OnceInv, NEW m \in Consoles, NEW room \in Nat, NEW c, c = WithRoom(m, room)
    PROVE  /\ Careful(m, c) /\ c.assoc = console[m].assoc /\ c.gens = console[m].gens
           /\ c.events = console[m].events /\ Owes(c) = ToSet(console[m].assoc.pending)
<1> DEFINE b == console[m]
<1>1. Careful(m, b) /\ b.out = <<>>
  BY DEF OnceInv, Orderly
<1>2. c = [b EXCEPT !.room = room]
  BY DEF WithRoom
<1> HIDE DEF b
<1>3. Shows(c, b.gens, b.events, b.out, room) /\ c.assoc = b.assoc
  BY <1>1, <1>2 DEF Careful, ConsoleShape, Shows
<1>4. Careful(m, c)
  BY <1>1, <1>3 DEF Careful, Shows
<1>5. Owes(c) = ToSet(b.assoc.pending)
  BY <1>1, <1>3, NothingThere DEF Owes, Sent, Guests, Shows
<1> QED
  BY <1>3, <1>4, <1>5 DEF Shows, b

LEMMA LeaveLeft ==
    ASSUME OnceInv, NEW m \in Consoles, NEW d, Careful(m, d), NEW others, others \subseteq net,
           NEW more, Leave(m, d, others, more), plan' = plan, delivered' = delivered,
           NEW new, \/ new = {} /\ accepted' = accepted
                    \/ new = {accepted[m] + 1} /\ accepted' = [accepted EXCEPT ![m] = @ + 1]
    PROVE  Left(m, d, new)
<1> DEFINE g == [d EXCEPT !.out = <<>>, !.room = 0, !.lost = FALSE]
<1>1. console' = [console EXCEPT ![m] = g] /\ net' = others \cup ToSet(d.out)
  BY DEF Leave
<1>2. g = [d EXCEPT !.out = <<>>, !.room = 0, !.lost = FALSE]
  OBVIOUS
<1> HIDE DEF g
<1>3. Shows(g, d.gens, d.events, <<>>, 0) /\ g.assoc = d.assoc
  BY <1>2 DEF Careful, ConsoleShape, Shows
<1>4. Careful(m, g)
  BY <1>3, NothingThere DEF Careful, Shows, OneEach, Guests
<1>5. console'[m] = g
  BY <1>1 DEF OnceInv
<1>6. console' = [console EXCEPT ![m] = console'[m]]
  BY <1>1, <1>5
<1> QED
  BY <1>1, <1>3, <1>4, <1>5, <1>6 DEF Left, Shows

(* A call that sends nothing new and tells the owner of no packet.           *)
LEMMA HandledOnce ==
    ASSUME IInv, OnceInv, NEW m \in Consoles, NEW room \in Nat, NEW d,
           Handles(m, WithRoom(m, room), d), Leave(m, d, net, {}),
           UNCHANGED <<plan, delivered, accepted>>
    PROVE  OnceInv'
<1> DEFINE c == WithRoom(m, room)
           new == {}
<1>1. /\ c.assoc = console[m].assoc /\ c.gens = console[m].gens
      /\ c.events = console[m].events /\ Owes(c) = ToSet(console[m].assoc.pending)
  BY RoomHandled
<1>2. Handles(m, c, d)
  OBVIOUS
<1> HIDE DEF c, new
<1>3. Called(m, d, new)
  BY <1>1, <1>2 DEF Called, Handles, Spends, Windowed
<1>4. new = {} /\ Careful(m, d)
  BY <1>2 DEF new, Handles, Spends
<1>5. Left(m, d, new)
  BY <1>4, LeaveLeft
<1> QED
  BY <1>3, <1>5, CalledOnce

LEMMA ArrivesOnce ==
    ASSUME IInv, OnceInv, NEW m \in Consoles, NEW again \in BOOLEAN, Arrives(m, again)
    PROVE  OnceInv'
<1> DEFINE rest(x) == IF again THEN net ELSE net \ {x}
           new == {}
<1>1. PICK x \in Arriving(m), room \in Rooms :
        Leave(m, Receive(m, WithRoom(m, room), x), rest(x), {})
  BY DEF Arrives, Arriving
<1> DEFINE c == WithRoom(m, room)
           d == Receive(m, c, x)
           others == rest(x)
<1>2. room \in Nat /\ plan.sequence \in Nat /\ Frame(x)
  BY LimitsAssumption DEF OnceInv, Arriving
<1>3. /\ Careful(m, c) /\ c.assoc = console[m].assoc /\ c.gens = console[m].gens
      /\ c.events = console[m].events /\ Owes(c) = ToSet(console[m].assoc.pending)
  BY <1>2, RoomHandled
<1>4. Exists(c.assoc) => c.assoc.gen \in 1 .. c.gens
  BY <1>3 DEF IInv, Sound, Generated
<1>5. /\ Spends(m, c, d)
      /\ \/ TellsLess(c.events, d.events)
         \/ x.kind = "packet" /\ Receives(m, c, d, x)
  BY <1>2, <1>3, <1>4, ReceiveHandled DEF Frame
<1>6. Leave(m, d, others, {}) /\ others \subseteq net
  BY <1>1
<1>7. UNCHANGED <<plan, delivered, accepted>>
  BY DEF Arrives
<1> HIDE DEF c, d, others, new
<1>8. Called(m, d, new)
  BY <1>3, <1>5 DEF Called, Spends, Windowed, Receives
<1>9. new = {} /\ Careful(m, d)
  BY <1>5 DEF new, Spends
<1>10. Left(m, d, new)
  BY <1>6, <1>7, <1>9, LeaveLeft
<1> QED
  BY <1>8, <1>10, CalledOnce

LEMMA SendsOnce ==
    ASSUME IInv, OnceInv, NEW m \in Consoles, GuestSends(m)
    PROVE  OnceInv'
<1> DEFINE body == accepted[m] + 1
           new == {body}
<1>1. PICK room \in Rooms :
        Leave(m, SendPacket(m, Connect(m, WithRoom(m, room)), body), net, {body})
  BY DEF GuestSends
<1> DEFINE c == WithRoom(m, room)
           k == Connect(m, c)
           d == SendPacket(m, k, body)
<1>2. /\ Careful(m, c) /\ c.assoc = console[m].assoc /\ c.gens = console[m].gens
      /\ c.events = console[m].events /\ Owes(c) = ToSet(console[m].assoc.pending)
  BY RoomHandled, LimitsAssumption
<1>3. Leave(m, d, net, {body}) /\ plan' = plan /\ delivered' = delivered
      /\ accepted' = [accepted EXCEPT ![m] = body]
  BY <1>1 DEF GuestSends
<1>4. accepted[m] \in Nat /\ Owes(c) \subseteq 1 .. accepted[m]
  BY <1>2 DEF OnceInv, Orderly
<1>5. body \notin Owes(c)
  BY <1>4
<1> HIDE DEF c, body
<1>6. Handles(m, c, k) /\ Careful(m, k)
  BY <1>2, ConnectHandled DEF Handles, Spends
<1>7. /\ Careful(m, d) /\ Windowed(k, d) /\ d.events = k.events
      /\ Owes(d) \subseteq Owes(k) \cup {body}
  BY <1>5, <1>6, SendHandled DEF Handles, Spends
<1> HIDE DEF k, d
<1>8. Windowed(c, d)
  <2>1. Windowed(c, k)
    BY <1>6 DEF Handles, Spends
  <2>2. /\ c.gens \in Nat /\ k.gens \in Nat /\ d.gens \in Nat
        /\ c.assoc.gen \in Nat /\ k.assoc.gen \in Nat /\ d.assoc.gen \in Nat
    BY <1>2, <1>6, <1>7 DEF Careful
  <2> QED
    BY <1>7, <2>1, <2>2 DEF Windowed
<1>9. Called(m, d, new)
  BY <1>2, <1>6, <1>7, <1>8 DEF Called, Handles, Spends, Windowed
<1>10. new = {accepted[m] + 1} /\ accepted' = [accepted EXCEPT ![m] = @ + 1]
  BY <1>3 DEF body
<1> HIDE DEF new
<1>11. Left(m, d, new)
  BY <1>3, <1>7, <1>10, LeaveLeft
<1> QED
  BY <1>9, <1>11, CalledOnce

(* A console that restarts, and an owner that takes the events.              *)
LEMMA RestartOnce ==
    ASSUME IInv, OnceInv, NEW m \in Consoles, Restart(m)
    PROVE  OnceInv'
<1> DEFINE c == console[m]
           es == <<>>
           d == [c EXCEPT !.assoc = None, !.events = es]
           new == {}
<1>1. console' = [console EXCEPT ![m] = d] /\ UNCHANGED <<plan, net, delivered, accepted>>
  BY DEF Restart
<1>2. Careful(m, c) /\ c.out = <<>>
  BY DEF OnceInv, Orderly
<1>3. d = [c EXCEPT !.assoc = None, !.events = es]
  OBVIOUS
<1> HIDE DEF c, d, es
<1>4. Shows(d, c.gens, es, c.out, c.room) /\ d.assoc = None
  BY <1>2, <1>3, NothingThere DEF Careful, ConsoleShape, Shows
<1>5. Handles(m, c, d)
  <2>1. /\ c.gens \in Nat /\ c.gens <= c.gens /\ IsASequence(es) /\ TellsLess(c.events, es)
        /\ ToSet(<<>>) \subseteq ToSet(c.assoc.pending)
    BY <1>2, NothingThere DEF Careful, es
  <2>2. Holds(d.assoc, 0, 0, {}, <<>>, 0)
    BY <1>4, NothingThere
  <2> QED
    BY <1>2, <1>4, <2>1, <2>2, NothingThere, Renewed
<1>6. Owes(c) = ToSet(c.assoc.pending)
  BY <1>2, NothingThere DEF Owes, Sent, Guests
<1> HIDE DEF new
<1>7. Called(m, d, new)
  BY <1>5, <1>6 DEF Called, Handles, Spends, c
<1>8. console'[m] = d
  BY <1>1 DEF OnceInv
<1>9. Left(m, d, new)
  <2>1. Careful(m, d) /\ d.out = <<>>
    BY <1>2, <1>4, <1>5 DEF Handles, Spends, Shows
  <2> QED
    BY <1>1, <1>8, <2>1 DEF Left, new
<1> QED
  BY <1>7, <1>9, CalledOnce

LEMMA CopiesTold ==
    ASSUME NEW events, Once(events), NEW n
    PROVE  Copies(events, n) \in {0, 1} /\ (n \notin Told(events) => Copies(events, n) = 0)
<1> DEFINE x == Event("Datagram", n)
           S == {i \in DOMAIN events : events[i] = x}
<1>1. x.type = "Datagram" /\ x.packet = n
  BY DEF Event
<1>2. Copies(events, n) = Cardinality(S)
  BY DEF Copies
<1> HIDE DEF x
<1>3. CASE S = {}
  BY <1>2, <1>3, FS_EmptySet
<1>4. ASSUME NEW i \in S PROVE Cardinality(S) = 1 /\ n \in Told(events)
  <2>1. S = {i}
    BY <1>1, <1>4 DEF Once
  <2>2. n \in Told(events)
    BY <1>1, <1>4 DEF Told
  <2> HIDE DEF S
  <2> QED
    BY <2>1, <2>2, FS_Singleton
<1> QED
  BY <1>2, <1>3, <1>4

LEMMA DeliverOnce ==
    ASSUME OnceInv, NEW m \in Consoles, Deliver(m)
    PROVE  OnceInv'
<1> DEFINE c == console[m]
           es == <<>>
           d == [c EXCEPT !.events = es]
           w == Peer(m)
<1>1. /\ console' = [console EXCEPT ![m] = d] /\ UNCHANGED <<plan, net, accepted>>
      /\ delivered' = [delivered EXCEPT ![m] =
                         [n \in DOMAIN delivered[m] |-> delivered[m][n] + Copies(c.events, n)]]
  BY DEF Deliver
<1>2. Careful(m, c) /\ c.out = <<>> /\ Once(c.events)
  BY DEF OnceInv, Orderly, Counted
<1>3. d = [c EXCEPT !.events = es] /\ es = <<>>
  OBVIOUS
<1> HIDE DEF d, es
<1>4. Shows(d, c.gens, es, c.out, c.room) /\ d.assoc = c.assoc
  BY <1>2, <1>3 DEF Careful, ConsoleShape, Shows
<1>5. Careful(m, d)
  BY <1>2, <1>3, <1>4, NothingThere DEF Careful, Shows
<1>6. /\ w \in Consoles /\ w # m /\ Peer(w) = m /\ \A n \in Consoles : n = m \/ n = w
  BY TwoConsoles
<1> HIDE DEF w
<1>7. /\ console'[m] = d /\ console'[w] = console[w]
      /\ console' = [n \in Consoles |-> console'[n]]
  BY <1>1, <1>6 DEF OnceInv
<1>8. /\ delivered'[w] = delivered[w]
      /\ delivered' = [n \in Consoles |-> [k \in DOMAIN delivered'[n] |-> delivered'[n][k]]]
      /\ DOMAIN delivered'[m] = DOMAIN delivered[m]
      /\ \A n \in DOMAIN delivered[m] :
           delivered'[m][n] = delivered[m][n] + Copies(c.events, n)
  <2> DEFINE f == [n \in DOMAIN delivered[m] |-> delivered[m][n] + Copies(c.events, n)]
  <2>1. /\ DOMAIN f = DOMAIN delivered[m]
        /\ \A n \in DOMAIN delivered[m] : f[n] = delivered[m][n] + Copies(c.events, n)
        /\ f = [k \in DOMAIN f |-> f[k]]
    OBVIOUS
  <2>2. delivered' = [delivered EXCEPT ![m] = f]
    BY <1>1
  <2> HIDE DEF f, c
  <2>3. DOMAIN delivered = Consoles
    BY DEF OnceInv
  <2>4. DOMAIN delivered' = Consoles /\ delivered'[m] = f /\ delivered'[w] = delivered[w]
        /\ delivered' = [n \in Consoles |-> delivered'[n]]
    BY <1>6, <2>2, <2>3
  <2>5. delivered[w] = [k \in DOMAIN delivered[w] |-> delivered[w][k]]
    BY <1>6 DEF OnceInv
  <2>6. \A n \in Consoles :
          delivered'[n] = [k \in DOMAIN delivered'[n] |-> delivered'[n][k]]
    BY <1>6, <2>1, <2>4, <2>5
  <2> QED
    BY <2>1, <2>4, <2>6
<1>9. /\ \A n : Copies(c.events, n) \in {0, 1}
      /\ \A n : n \notin Told(c.events) => Copies(c.events, n) = 0
  BY <1>2, CopiesTold
<1>10. Told(es) = {} /\ Once(es)
  <2>1. DOMAIN <<>> = {}
    OBVIOUS
  <2> QED
    BY <1>3, <2>1 DEF Told, Once
<1>11. \A n \in DOMAIN delivered[m] : /\ delivered[m][n] \in {0, 1}
                                      /\ delivered[m][n] = 1 => n \notin Told(c.events)
  BY DEF OnceInv, Counted
<1>12. Counted(m)'
  <2>1. ASSUME NEW n \in DOMAIN delivered[m] PROVE delivered'[m][n] \in {0, 1}
    BY <1>8, <1>9, <1>11
  <2> QED
    BY <1>4, <1>7, <1>8, <1>10, <2>1 DEF Counted, Shows
<1>13. Received(m)' \subseteq Received(m)
  <2>1. ASSUME NEW n \in DOMAIN delivered[m], delivered'[m][n] # 0
        PROVE  delivered[m][n] # 0 \/ n \in Told(c.events)
    BY <1>8, <1>9, <2>1
  <2> QED
    BY <1>4, <1>7, <1>8, <1>10, <2>1 DEF Received, Shows
<1>14. Single(m)'
  BY <1>1, <1>4, <1>6, <1>7, <1>13 DEF OnceInv, Single, Arriving, Shows, w
<1>15. Single(w)'
  BY <1>1, <1>4, <1>6, <1>7, <1>8 DEF OnceInv, Single, Arriving, Received
<1>16. Orderly(m)' /\ Orderly(w)' /\ Counted(w)'
  BY <1>1, <1>2, <1>4, <1>5, <1>6, <1>7, <1>8 DEF OnceInv, Orderly, Counted, Shows
<1> QED
  BY <1>1, <1>6, <1>7, <1>8, <1>12, <1>14, <1>15, <1>16 DEF OnceInv

LEMMA LossOnce ==
    ASSUME OnceInv, net' \subseteq net, UNCHANGED <<plan, console, delivered, accepted>>
    PROVE  OnceInv'
<1>1. \A m : Guests(Arriving(m)') \subseteq Guests(Arriving(m)) /\ Received(m)' = Received(m)
  BY DEF Arriving, Guests, Received
<1>2. \A m \in Consoles : Single(m) => Single(m)'
  BY <1>1 DEF Single, OneEach
<1> QED
  BY <1>2 DEF OnceInv, Orderly, Counted

LEMMA OnceStep ==
    ASSUME IInv, OnceInv, [Next]_vars
    PROVE  OnceInv'
<1>1. plan.sequence \in Nat /\ Rooms \subseteq Nat
  BY LimitsAssumption DEF OnceInv
<1>2. ASSUME NEW m \in Consoles, NEW room \in Rooms
      PROVE  room \in Nat /\ Careful(m, WithRoom(m, room))
  BY <1>1, RoomHandled
<1>3. CASE UNCHANGED vars
  BY <1>3, LossOnce DEF vars
<1>4. CASE Loses
  <2>1. net' \subseteq net /\ UNCHANGED <<plan, console, delivered, accepted>>
    BY <1>4 DEF Loses
  <2> QED
    BY <2>1, LossOnce
<1>5. ASSUME NEW m \in Consoles, GuestConnects(m) PROVE OnceInv'
  <2>1. PICK room \in Rooms : Leave(m, Connect(m, WithRoom(m, room)), net, {})
    BY <1>5 DEF GuestConnects
  <2>2. Handles(m, WithRoom(m, room), Connect(m, WithRoom(m, room)))
    BY <1>2, ConnectHandled
  <2> QED
    BY <1>2, <1>5, <2>1, <2>2, HandledOnce DEF GuestConnects
<1>6. ASSUME NEW m \in Consoles, GuestCloses(m) PROVE OnceInv'
  <2>1. PICK room \in Rooms : Leave(m, Close(m, WithRoom(m, room)), net, {})
    BY <1>6 DEF GuestCloses
  <2>2. Handles(m, WithRoom(m, room), Close(m, WithRoom(m, room)))
    BY <1>2, CloseHandled
  <2> QED
    BY <1>2, <1>6, <2>1, <2>2, HandledOnce DEF GuestCloses
<1>7. ASSUME NEW m \in Consoles, Retried(m) PROVE OnceInv'
  <2>1. PICK room \in Rooms : Leave(m, TickRetry(m, WithRoom(m, room)), net, {})
    BY <1>7 DEF Retried
  <2>2. Handles(m, WithRoom(m, room), TickRetry(m, WithRoom(m, room)))
    BY <1>1, <1>2, TickHandled
  <2> QED
    BY <1>2, <1>7, <2>1, <2>2, HandledOnce DEF Retried
<1>8. ASSUME NEW m \in Consoles, KeptAlive(m) PROVE OnceInv'
  <2>1. PICK room \in Rooms, due \in BOOLEAN :
          Leave(m, TickEstablished(m, WithRoom(m, room), due), net, {})
    BY <1>8 DEF KeptAlive
  <2>2. Handles(m, WithRoom(m, room), TickEstablished(m, WithRoom(m, room), due))
    BY <1>1, <1>2, TickHandled
  <2> QED
    BY <1>2, <1>8, <2>1, <2>2, HandledOnce DEF KeptAlive
<1>9. ASSUME NEW m \in Consoles, Idle(m) PROVE OnceInv'
  <2> DEFINE c == console[m]
             room == c.room
  <2>1. Careful(m, c) /\ room \in Nat /\ Leave(m, Retire(c), net, {})
    BY <1>9 DEF OnceInv, Orderly, Careful, Idle
  <2>2. WithRoom(m, room) = c
    BY <2>1 DEF WithRoom, Careful, ConsoleShape
  <2> HIDE DEF c, room
  <2>3. Handles(m, WithRoom(m, room), Retire(c))
    BY <2>1, <2>2, RetireHandled
  <2> QED
    BY <1>9, <2>1, <2>3, HandledOnce DEF Idle
<1> QED
  BY <1>3, <1>4, <1>5, <1>6, <1>7, <1>8, <1>9, ArrivesOnce, SendsOnce, RestartOnce,
     DeliverOnce DEF Next

LEMMA OnceInit ==
    ASSUME Init PROVE OnceInv
<1> DEFINE c == NewConsole
<1>1. /\ plan \in Plans /\ console = [m \in Consoles |-> c] /\ net = {}
      /\ accepted = [m \in Consoles |-> 0]
      /\ delivered = [m \in Consoles |-> [n \in 1 .. plan.packets |-> 0]]
  BY DEF Init
<1>2. /\ c.assoc = None /\ c.out = <<>> /\ c.events = <<>> /\ c.gens = 0 /\ c.room = 0
      /\ ConsoleShape(c)
  BY NoneShape DEF NewConsole, ConsoleShape
<1> HIDE DEF c
<1>3. DOMAIN <<>> = {}
  OBVIOUS
<1>4. \A m : Careful(m, c)
  BY <1>2, NothingThere DEF Careful, Holds, OneEach, Guests
<1>5. Told(c.events) = {} /\ Once(c.events) /\ ToSet(c.assoc.pending) = {}
  BY <1>2, <1>3, NothingThere DEF Told, Once, Holds
<1>6. ASSUME NEW m \in Consoles PROVE Orderly(m) /\ Single(m) /\ Counted(m)
  <2>1. /\ console[m] = c /\ console[Peer(m)] = c /\ accepted[m] = 0
        /\ delivered[m] = [n \in 1 .. plan.packets |-> 0]
    BY <1>1, TwoConsoles
  <2>2. Orderly(m)
    BY <1>2, <1>4, <1>5, <2>1 DEF Orderly
  <2>3. Received(m) = {} /\ Guests(Arriving(m)) = {}
    BY <1>1, <1>5, <2>1 DEF Received, Arriving, Guests
  <2>4. Single(m)
    BY <2>3 DEF Single, OneEach
  <2>5. Counted(m)
    BY <1>5, <2>1 DEF Counted
  <2> QED
    BY <2>2, <2>4, <2>5
<1> QED
  BY <1>1, <1>6 DEF OnceInv

(* A packet reaches the owner at most once: whatever the network repeats and *)
(* reorders, however the windows of the associations move, however often the *)
(* consoles associate anew or restart, and although the side that yields in  *)
(* a simultaneous connect sends what it had queued in another association    *)
(* (Associations ReceivePacket and Receive, ReplayWindow, SystemLink Deliver). *)
THEOREM DeliveredOnce ==
    Spec => []AtMostOnce
<1>1. Init => OnceInv
  BY OnceInit
<1>2. IInv /\ OnceInv /\ [Next]_vars => OnceInv'
  BY OnceStep
<1>3. OnceInv => AtMostOnce
  <2> SUFFICES ASSUME OnceInv, NEW m \in Consoles, NEW n \in DOMAIN delivered[m]
               PROVE  delivered[m][n] + Copies(console[m].events, n) <= 1
    BY DEF AtMostOnce
  <2>1. /\ Once(console[m].events) /\ delivered[m][n] \in {0, 1}
        /\ delivered[m][n] = 1 => n \notin Told(console[m].events)
    BY DEF OnceInv, Counted
  <2>2. /\ Copies(console[m].events, n) \in {0, 1}
        /\ n \notin Told(console[m].events) => Copies(console[m].events, n) = 0
    BY <2>1, CopiesTold
  <2> QED
    BY <2>1, <2>2
<1> QED
  BY <1>1, <1>2, <1>3, Inductive, PTL DEF Spec

=============================================================================
