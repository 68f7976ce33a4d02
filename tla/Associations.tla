---------------------------- MODULE Associations ----------------------------
(* The secure associations of the System Link (net/xnet_association): two    *)
(* consoles of one title's key find each other by a request and a response,  *)
(* derive keys from both, and then exchange numbered, protected packets over *)
(* a network that loses, repeats and reorders them.                          *)
(*                                                                           *)
(* The owner (net/system_link) serializes the calls of a console, so each is *)
(* one action, made of operators on the console's record.  Cryptography is   *)
(* abstracted: a state that Connect or Receive creates draws a fresh SPI,    *)
(* challenge and Diffie-Hellman key, which one number, its generation,       *)
(* stands for; the keys of an association are the pair of the generations of *)
(* its initiator and its responder, and a packet decodes only under the pair *)
(* it was encoded with.  Each console knows one peer under one key id.       *)
EXTENDS Integers, Sequences, FiniteSets, SequencesExt

CONSTANTS
    Low, High,          \* the two consoles; High has the larger MAC
    Retries,            \* config.retries, exchange packets before it expires
    Window,             \* packets the replay window remembers, 32
    Ahead,              \* how far ahead a sequence may be, 4096
    LowModulus,         \* the wire carries the sequence modulo this, 2^16
    PendingLimit,       \* packets queued for an association, 32
    Rooms,              \* frames the outbound queue may still have room for
    Plans               \* bounds, of which a behaviour picks one:
                        \*   faulty       the network loses, repeats and delays
                        \*                messages and the titles send and close;
                        \*                else messages arrive before a timer of
                        \*                one second runs out
                        \*   generations  associations a console makes,
                        \*   sequence     packets sent in an association,
                        \*   packets      of these, from the guest of a console
                        \*   restarts     of all consoles together
                        \*   capacity     messages in the network

ASSUME LimitsAssumption ==
    /\ Low # High
    /\ {Retries, Window, Ahead, LowModulus, PendingLimit} \subseteq Nat \ {0}
    /\ Rooms \subseteq Nat
    /\ Window <= LowModulus /\ Ahead < LowModulus
    /\ Plans \subseteq [faulty : BOOLEAN, generations : Nat, sequence : Nat,
                        packets : Nat, restarts : Nat, capacity : Nat]

VARIABLES
    plan,           \* which of Plans
    console,        \* the Associations object of each console
    net,            \* messages under way
    up,             \* what the owner was told: the peer is connected
    delivered,      \* how often the owner took each packet
    accepted,       \* packets Send took from the guest of a console
    owed,           \* of these, neither sent nor reported lost
    restarts

vars == <<plan, console, net, up, delivered, accepted, owed, restarts>>

Consoles == {Low, High}
Peer(m) == IF m = Low THEN High ELSE Low

-----------------------------------------------------------------------------
(* One association, and the console it belongs to.                           *)

None == [status |-> "None", gen |-> 0, initiator |-> FALSE, remote |-> 0,
         fresh |-> 0, attempts |-> 0, sequence |-> 0, highest |-> 0,
         seen |-> {}, pending |-> <<>>]

(* While a call runs, "out" collects what it sends and "room" how many more  *)
(* frames the outbound queue takes; "lost" tells that a Retired event was    *)
(* queued for what was pending.                                              *)
NewConsole == [assoc |-> None, gens |-> 0, clock |-> 0, events |-> <<>>,
               out |-> <<>>, room |-> 0, lost |-> FALSE]

Exists(s) == s.status # "None"
Established(s) == s.status = "Established"
Keys(s) == IF s.initiator THEN <<s.gen, s.remote>> ELSE <<s.remote, s.gen>>

(* The bodies of control packets; those of the guest are numbered from 1.    *)
Keepalive == 0
Teardown == -1

Event(type, packet) == [type |-> type, packet |-> packet]

Emit(c, message) == IF c.room = 0 THEN c
                    ELSE [c EXCEPT !.out = Append(@, message), !.room = @ - 1]

(* A request, or the response to one, stamped with a time that never repeats.*)
Stamp(c) == c.clock + 1
Exchange(m, c) ==
    LET s == c.assoc
    IN  [to |-> Peer(m), kind |-> IF s.initiator THEN "request" ELSE "response",
         fresh |-> Stamp(c),
         initiator |-> IF s.initiator THEN s.gen ELSE s.remote,
         responder |-> IF s.initiator THEN 0 ELSE s.gen]
ExchangePacket(m, c) ==
    LET stamped == [c EXCEPT !.clock = Stamp(c)]
    IN  IF c.room = 0 THEN stamped
        ELSE [Emit(stamped, Exchange(m, c)) EXCEPT !.assoc.attempts = @ + 1]

(* Protected: packets numbered from the next sequence on, under the keys of  *)
(* the association, as many of them as there is room for.                    *)
CanProtect(c) ==
    Established(c.assoc) /\ c.assoc.sequence < plan.sequence /\ c.room > 0
Room(c) == IF CanProtect(c) THEN Min({c.room, plan.sequence - c.assoc.sequence})
           ELSE 0
Numbered(m, c, i, body) ==
    [to |-> Peer(m), kind |-> "packet", spi |-> c.assoc.remote,
     keys |-> Keys(c.assoc), sequence |-> c.assoc.sequence + i, body |-> body]
ProtectAll(m, c, bodies) ==
    [c EXCEPT !.out = @ \o [i \in 1 .. Len(bodies) |->
                              Numbered(m, c, i, bodies[i])],
              !.room = @ - Len(bodies),
              !.assoc.sequence = @ + Len(bodies)]
Protect(m, c, body) == IF CanProtect(c) THEN ProtectAll(m, c, <<body>>) ELSE c

(* What is queued goes out while there is room.                              *)
FlushPending(m, c) ==
    LET n == Min({Room(c), Len(c.assoc.pending)})
    IN  [ProtectAll(m, c, SubSeq(c.assoc.pending, 1, n))
           EXCEPT !.assoc.pending = SubSeq(@, n + 1, Len(@))]

Establish(m, c) ==
    IF Established(c.assoc) THEN c
    ELSE LET told == [c EXCEPT !.assoc.status = "Established",
                               !.assoc.attempts = 0,
                               !.events = Append(@, Event("Connected", 0))]
         IN  FlushPending(m, Protect(m, told, Keepalive))

(* Retired: the association is dropped, with the events the owner has not    *)
(* seen when the owner is told.                                              *)
Retire(c) == [c EXCEPT !.assoc = None, !.lost = TRUE,
                       !.events = <<Event("Retired", 0)>>]

-----------------------------------------------------------------------------
(* The calls.                                                                *)

CanCreate(c) == c.gens < plan.generations
Created(c) == [None EXCEPT !.status = "Pending", !.gen = c.gens + 1]

Connect(m, c) ==
    IF Exists(c.assoc) \/ c.room = 0 \/ ~CanCreate(c) THEN c
    ELSE ExchangePacket(m, [c EXCEPT !.gens = @ + 1,
                                     !.assoc = [Created(c) EXCEPT
                                                  !.initiator = TRUE]])

(* Send: protected at once, or queued until the association is established.  *)
TakesPacket(c) ==
    /\ Exists(c.assoc)
    /\ IF Established(c.assoc) THEN CanProtect(c)
       ELSE Len(c.assoc.pending) < PendingLimit
SendPacket(m, c, body) ==
    IF Established(c.assoc) THEN Protect(m, c, body)
    ELSE [c EXCEPT !.assoc.pending = Append(@, body)]

(* A response confirms or establishes what this side asked for; it never     *)
(* changes the keys of an association that is established.                   *)
IsAnswer(s, x) == Exists(s) /\ s.initiator /\ s.gen = x.initiator
                  /\ x.fresh > s.fresh
(* Mutant: the peer's new answer replaces the keys.                          *)
RekeysNever(s, x) == FALSE
Rekeys(s, x) == Established(s) /\ s.remote # x.responder
ReceiveResponse(m, c, x) ==
    LET met == [c EXCEPT !.assoc.remote = x.responder, !.assoc.fresh = x.fresh]
    IN  IF ~IsAnswer(c.assoc, x) \/ Rekeys(c.assoc, x) THEN c
        ELSE IF Established(c.assoc) THEN Protect(m, met, Keepalive)
        ELSE Establish(m, met)

(* Who yields when both have asked.                                          *)
Yields(m) == m = Low

(* A request is answered in a new association, unless it is old, the larger  *)
(* MAC has asked already, or it is a retry of one that was answered.         *)
IsStale(s, x) == Exists(s) /\ s.fresh # 0 /\ x.fresh <= s.fresh
HasAsked(s) == s.initiator /\ s.status = "Pending"
(* The initiator's challenge an association was made for.                    *)
Challenge(m, s) == IF s.initiator THEN <<m, s.gen>> ELSE <<Peer(m), s.remote>>
IsRetry(m, s, x) == Exists(s) /\ ~HasAsked(s)
                    /\ Challenge(m, s) = <<Peer(m), x.initiator>>

AnswerRetry(m, c, x) ==
    LET noted == [c EXCEPT !.assoc.fresh = x.fresh]
    IN  IF c.assoc.status = "Pending" THEN ExchangePacket(m, noted) ELSE noted

(* What becomes of the association in place.  Mutant: nobody is told.        *)
MadeRoomQuietly(c) == c
MadeRoom(c) == IF Exists(c.assoc) /\ ~HasAsked(c.assoc) THEN Retire(c) ELSE c

(* Mutant: what is queued goes with the request.                             *)
KeepsNothing(c) == <<>>
Keeps(c) == IF HasAsked(c.assoc) THEN c.assoc.pending ELSE <<>>

(* The yielding side of a simultaneous connect keeps what it has queued, and *)
(* its owner is not told of the association it drops.                        *)
AnswerNew(m, c, x) ==
    LET answer == [Created(c) EXCEPT !.remote = x.initiator, !.fresh = x.fresh,
                                     !.pending = Keeps(c)]
        sent == ExchangePacket(m, [MadeRoom(c) EXCEPT !.gens = @ + 1,
                                                      !.assoc = answer])
    IN  IF c.room = 0 THEN [sent EXCEPT !.assoc = None] ELSE sent

ReceiveRequest(m, c, x) ==
    CASE IsStale(c.assoc, x) -> c
      [] ~IsStale(c.assoc, x) /\ HasAsked(c.assoc) ->
           IF ~Yields(m) \/ ~CanCreate(c) THEN c ELSE AnswerNew(m, c, x)
      [] ~IsStale(c.assoc, x) /\ IsRetry(m, c.assoc, x) -> AnswerRetry(m, c, x)
      [] OTHER -> IF CanCreate(c) THEN AnswerNew(m, c, x) ELSE c

(* Mutant: what the window remembers is not looked at.                       *)
IsForgotten(s, n) == TRUE
IsNew(s, n) == n \notin s.seen

(* ReplayWindow: the sequences the 16 bits on the wire may stand for, and    *)
(* whether one is new.                                                       *)
Permitted(s, n) ==
    IF n > s.highest THEN n - s.highest <= Ahead
    ELSE n # 0 /\ s.highest - n < Window /\ IsNew(s, n)
Candidates(s, low) ==
    LET base == s.highest - (s.highest % LowModulus) + low
    IN  {n \in {base - LowModulus, base, base + LowModulus} :
            n >= 0 /\ Permitted(s, n)}
Commit(s, n) ==
    LET highest == IF n > s.highest THEN n ELSE s.highest
    IN  [s EXCEPT !.highest = highest,
                  !.seen = {k \in @ \cup {n} : highest - k < Window}]

Decodes(s, p) ==
    /\ Exists(s) /\ s.gen = p.spi /\ s.remote # 0 /\ Keys(s) = p.keys
    /\ p.sequence \in Candidates(s, p.sequence % LowModulus)

(* What shows that the peer has the keys.  Mutant: data alone.               *)
DataConfirms(m, c, p) == IF p.body = Keepalive THEN c ELSE Establish(m, c)
Confirmed(m, c, p) == Establish(m, c)

ReceivePacket(m, c, p) ==
    LET s == c.assoc
        taken == [c EXCEPT !.assoc = Commit(s, p.sequence)]
        confirmed == Confirmed(m, taken, p)
    IN  IF ~Decodes(s, p) \/ (s.initiator /\ ~Established(s)) THEN c
        ELSE CASE p.body = Teardown -> Retire(taken)
               [] p.body = Keepalive -> confirmed
               [] OTHER -> [confirmed EXCEPT !.events =
                              Append(@, Event("Datagram", p.body))]

Receive(m, c, x) ==
    CASE x.kind = "request" -> ReceiveRequest(m, c, x)
      [] x.kind = "response" -> ReceiveResponse(m, c, x)
      [] OTHER -> ReceivePacket(m, c, x)

(* Tick: an exchange is retried until there were too many attempts; an       *)
(* association that is established keeps itself alive and sends what waits.  *)
TickRetry(m, c) ==
    IF c.assoc.attempts >= Retries THEN Retire(c) ELSE ExchangePacket(m, c)
TickEstablished(m, c, due) ==
    FlushPending(m, IF due THEN Protect(m, c, Keepalive) ELSE c)

(* Close: the teardown goes out before the rest of the output is dropped.    *)
Close(m, c) ==
    LET told == Protect(m, c, Teardown)
    IN  IF Exists(c.assoc) THEN Retire(told) ELSE c

-----------------------------------------------------------------------------
(* The consoles and the network.                                             *)

Init ==
    /\ plan \in Plans
    /\ console = [m \in Consoles |-> NewConsole]
    /\ net = {}
    /\ up = [m \in Consoles |-> FALSE]
    /\ delivered = [m \in Consoles |-> [n \in 1 .. plan.packets |-> 0]]
    /\ accepted = [m \in Consoles |-> 0]
    /\ owed = [m \in Consoles |-> {}]
    /\ restarts = 0

Bodies(out) ==
    {out[i].body : i \in {j \in DOMAIN out : out[j].kind = "packet"}}

(* What a call leaves behind: its frames are in the network, and what the    *)
(* guest sent is no longer owed once it went out or was reported lost.       *)
Leave(m, c, others, more) ==
    /\ console' = [console EXCEPT ![m] = [c EXCEPT !.out = <<>>, !.room = 0,
                                                   !.lost = FALSE]]
    /\ net' = others \cup ToSet(c.out)
    /\ Cardinality(net') <= plan.capacity
    /\ owed' = [owed EXCEPT ![m] = IF c.lost THEN {}
                                   ELSE (@ \cup more) \ Bodies(c.out)]

WithRoom(m, room) == [console[m] EXCEPT !.room = room]

GuestConnects(m) ==
    /\ ~Exists(console[m].assoc)
    /\ \E room \in Rooms : Leave(m, Connect(m, WithRoom(m, room)), net, {})
    /\ UNCHANGED <<plan, up, delivered, accepted, restarts>>

GuestSends(m) ==
    /\ accepted[m] < plan.packets
    /\ \E room \in Rooms :
         LET c == Connect(m, WithRoom(m, room))
             body == accepted[m] + 1
         IN  /\ TakesPacket(c)
             /\ Leave(m, SendPacket(m, c, body), net, {body})
             /\ accepted' = [accepted EXCEPT ![m] = body]
    /\ UNCHANGED <<plan, up, delivered, restarts>>

GuestCloses(m) ==
    /\ plan.faulty
    /\ Exists(console[m].assoc)
    /\ \E room \in Rooms : Leave(m, Close(m, WithRoom(m, room)), net, {})
    /\ UNCHANGED <<plan, up, delivered, accepted, restarts>>

Arrives(m, again) ==
    /\ again => plan.faulty
    /\ \E x \in {y \in net : y.to = m}, room \in Rooms :
         Leave(m, Receive(m, WithRoom(m, room), x),
               IF again THEN net ELSE net \ {x}, {})
    /\ UNCHANGED <<plan, up, delivered, accepted, restarts>>

Loses ==
    /\ plan.faulty
    /\ \E x \in net : net' = net \ {x}
    /\ UNCHANGED <<plan, console, up, delivered, accepted, owed, restarts>>

Retried(m) ==
    /\ console[m].assoc.status = "Pending"
    /\ plan.faulty \/ net = {}
    /\ \E room \in Rooms : Leave(m, TickRetry(m, WithRoom(m, room)), net, {})
    /\ UNCHANGED <<plan, up, delivered, accepted, restarts>>

KeptAlive(m) ==
    /\ plan.faulty /\ Established(console[m].assoc)
    /\ \E room \in Rooms, due \in BOOLEAN :
         Leave(m, TickEstablished(m, WithRoom(m, room), due), net, {})
    /\ UNCHANGED <<plan, up, delivered, accepted, restarts>>

Paired ==
    /\ \A m \in Consoles : Established(console[m].assoc)
    /\ Keys(console[Low].assoc) = Keys(console[High].assoc)
    /\ console[Low].assoc.remote = console[High].assoc.gen

(* Nothing valid arrived for a minute.                                       *)
Idle(m) ==
    /\ Exists(console[m].assoc)
    /\ plan.faulty \/ (net = {} /\ Established(console[m].assoc) /\ ~Paired)
    /\ Leave(m, Retire(console[m]), net, {})
    /\ UNCHANGED <<plan, up, delivered, accepted, restarts>>

(* A console that restarts has lost everything but the time and its dice.    *)
Restart(m) ==
    /\ restarts < plan.restarts
    /\ restarts' = restarts + 1
    /\ console' = [console EXCEPT ![m].assoc = None, ![m].events = <<>>]
    /\ up' = [up EXCEPT ![m] = FALSE]
    /\ owed' = [owed EXCEPT ![m] = {}]
    /\ UNCHANGED <<plan, net, delivered, accepted>>

(* SystemLink Deliver: the owner takes all events.                           *)
Copies(events, n) ==
    Cardinality({i \in DOMAIN events : events[i] = Event("Datagram", n)})
Deliver(m) ==
    LET events == console[m].events
    IN  /\ events # <<>>
        /\ up' = [up EXCEPT ![m] = Last(events).type # "Retired"]
        /\ delivered' = [delivered EXCEPT ![m] =
                           [n \in DOMAIN @ |-> @[n] + Copies(events, n)]]
        /\ console' = [console EXCEPT ![m].events = <<>>]
        /\ UNCHANGED <<plan, net, accepted, owed, restarts>>

Next ==
    \/ Loses
    \/ \E m \in Consoles :
         \/ GuestConnects(m) \/ GuestSends(m) \/ GuestCloses(m)
         \/ Arrives(m, FALSE) \/ Arrives(m, TRUE)
         \/ Retried(m) \/ KeptAlive(m) \/ Idle(m)
         \/ Restart(m) \/ Deliver(m)

Spec == Init /\ [][Next]_vars

(* The titles connect again when they are not, the worker ticks, takes what  *)
(* arrives and tells the owner.                                              *)
FairSpec ==
    /\ Spec
    /\ \A m \in Consoles :
         /\ WF_vars(GuestConnects(m)) /\ WF_vars(Arrives(m, FALSE))
         /\ WF_vars(Retried(m)) /\ WF_vars(Idle(m)) /\ WF_vars(Deliver(m))

-----------------------------------------------------------------------------
(* Properties.                                                               *)

TypeOK ==
    /\ \A m \in Consoles :
         LET c == console[m]
         IN  /\ c.gens \in 0 .. plan.generations /\ c.clock \in Nat
             /\ c.assoc.status \in {"None", "Pending", "Established"}
             /\ {c.assoc.gen, c.assoc.remote} \subseteq 0 .. plan.generations
             /\ c.assoc.gen <= c.gens
             /\ c.out = <<>> /\ c.room = 0
    /\ \A x \in net : x.to \in Consoles
    /\ restarts \in 0 .. plan.restarts

(* No packet reaches the owner twice, whatever the network repeats, however  *)
(* often the consoles associate anew and however a simultaneous connect ends.*)
AtMostOnce ==
    \A m \in Consoles : \A n \in DOMAIN delivered[m] :
        delivered[m][n] + Copies(console[m].events, n) <= 1

(* What Send took is still queued, was sent, or went with an association the *)
(* owner is told of: in particular the side that yields in a simultaneous    *)
(* connect keeps what it has queued.                                         *)
OwedIsPending ==
    \A m \in Consoles : owed[m] \subseteq ToSet(console[m].assoc.pending)

(* Once its events are taken the owner knows whether the peer is connected,  *)
(* although the events of a dropped association are dropped with it.         *)
OwnerKnows ==
    \A m \in Consoles :
        console[m].events = <<>> => (up[m] <=> Established(console[m].assoc))

(* A retried or late response confirms an association that is established    *)
(* and never changes its keys, even when the peer has answered anew.         *)
NeverRekeyed ==
    [][\A m \in Consoles :
          LET s == console[m].assoc
              t == console'[m].assoc
          IN  (Established(s) /\ t.gen = s.gen) =>
                  Established(t) /\ Keys(t) = Keys(s)]_vars

(* Consoles whose titles go on connecting end up in one association with the *)
(* same keys, whoever asked first, when both ask at once and when one of     *)
(* them restarts, as long as the network does its part.                      *)
Meets == plan.faulty \/ <>[]Paired

=============================================================================
