------------------------- MODULE TcpStreamsProofs -------------------------
(* What the two ends of a connection keep, whatever the network does.        *)
EXTENDS TcpStreams, SequenceTheorems, FiniteSetTheorems, WellFoundedInduction,
        TLAPS

-----------------------------------------------------------------------------
(* Sequence numbers and their place in the stream of an end.                 *)

Numbers == 0 .. Modulus - 1
Start(e) == InitialSequence[e][1]
Offset(e, x) == Distance(Start(e), x)

(* The sizes, as the steps below use them.                                   *)
LEMMA ModulusHolds ==
    /\ Modulus \in Nat /\ Modulus >= 4 * Buffer /\ Modulus >= 4
    /\ Buffer \in Nat /\ Buffer >= 1 /\ Mss \in Nat /\ Mss >= 1
    /\ \E half \in Nat : Modulus = 2 * half
  <1>1. PICK m \in 2 * Buffer .. Modulus : Modulus = 2 * m
    BY SizesAssumption
  <1>2. Buffer \in Nat \ {0} /\ Mss \in Nat \ {0}
    BY SizesAssumption
  <1> QED BY <1>1, <1>2

(* Products of integers one apart differ by the factor at least.             *)
LEMMA ScaledUp ==
    ASSUME NEW m \in Nat, NEW a \in Int, NEW b \in Int, a >= b + 1
    PROVE  /\ m * a >= m * b + m
           /\ m * a \in Int /\ m * b \in Int
  <1>1. PICK d \in Nat : a = b + 1 + d
    <2> WITNESS a - b - 1 \in Nat
    <2> QED OBVIOUS
  <1>2. m * a = m * b + m + m * d
    BY <1>1
  <1>3. m * d >= 0
    BY <1>1
  <1> QED BY <1>2, <1>3

(* A remainder is unique.                                                    *)
LEMMA QuotientIs ==
    ASSUME NEW m \in Nat, NEW q \in Int, NEW k \in Int,
           NEW r \in 0 .. m - 1, NEW s \in 0 .. m - 1,
           m * k + r = m * q + s
    PROVE  r = s
  <1>1. CASE q = k
    BY <1>1
  <1>2. CASE q >= k + 1
    BY <1>2, ScaledUp
  <1>3. CASE k >= q + 1
    BY <1>3, ScaledUp
  <1> QED BY <1>1, <1>2, <1>3

(* Division with remainder.                                                  *)
LEMMA DivisionIs ==
    ASSUME NEW m \in Nat, m > 0, NEW x \in Int
    PROVE  \E q \in Int : \E s \in 0 .. m - 1 : x % m = s /\ x = m * q + s
  <1>1. /\ x \div m \in Int /\ x % m \in 0 .. m - 1
        /\ x = m * (x \div m) + (x % m)
    OBVIOUS
  <1> QED BY <1>1

(* The remainder, from a quotient that is given.                             *)
LEMMA RemainderIs ==
    ASSUME NEW k \in Int, NEW r \in Numbers, NEW x \in Int,
           x = Modulus * k + r
    PROVE  x % Modulus = r
  <1>m. Modulus \in Nat /\ Modulus > 0
    BY ModulusHolds
  <1>1. PICK q \in Int, s \in 0 .. Modulus - 1 :
          x % Modulus = s /\ x = Modulus * q + s
    BY <1>m, DivisionIs
  <1>2. r = s
    BY <1>1, <1>m, QuotientIs DEF Numbers
  <1> QED BY <1>1, <1>2

(* The distance from a number to another, without the modulus.               *)
LEMMA DistanceIs ==
    ASSUME NEW a \in Numbers, NEW b \in Numbers
    PROVE  /\ Distance(a, b) = IF b >= a THEN b - a ELSE b - a + Modulus
           /\ Distance(a, b) \in Numbers
  <1>m. Modulus \in Nat /\ Modulus >= 4
    BY ModulusHolds
  <1>1. CASE b >= a
    <2>1. b - a \in Numbers
      BY <1>1, <1>m DEF Numbers
    <2>2. b - a \in Int /\ b - a = Modulus * 0 + (b - a)
      BY <1>m DEF Numbers
    <2> QED BY <2>1, <2>2, <1>1, RemainderIs DEF Distance
  <1>2. CASE ~(b >= a)
    <2>1. b - a + Modulus \in Numbers
      BY <1>2, <1>m DEF Numbers
    <2>2. b - a \in Int /\ b - a = Modulus * (-1) + (b - a + Modulus)
      BY <1>m DEF Numbers
    <2>3. (b - a) % Modulus = b - a + Modulus
      BY <2>1, <2>2, RemainderIs
    <2> QED BY <2>1, <2>3, <1>2 DEF Distance
  <1> QED BY <1>1, <1>2

(* A number moved on, without the modulus.                                   *)
LEMMA PlusIs ==
    ASSUME NEW a \in Numbers, NEW n \in 0 .. Modulus
    PROVE  /\ Plus(a, n) = IF a + n < Modulus THEN a + n ELSE a + n - Modulus
           /\ Plus(a, n) \in Numbers
  <1>m. Modulus \in Nat /\ Modulus >= 4
    BY ModulusHolds
  <1>1. CASE a + n < Modulus
    <2>1. a + n \in Numbers
      BY <1>1, <1>m DEF Numbers
    <2>2. a + n \in Int /\ a + n = Modulus * 0 + (a + n)
      BY <1>m DEF Numbers
    <2> QED BY <2>1, <2>2, <1>1, RemainderIs DEF Plus
  <1>2. CASE ~(a + n < Modulus)
    <2>1. a + n - Modulus \in Numbers
      BY <1>2, <1>m DEF Numbers
    <2>2. a + n \in Int /\ a + n = Modulus * 1 + (a + n - Modulus)
      BY <1>m DEF Numbers
    <2>3. (a + n) % Modulus = a + n - Modulus
      BY <2>1, <2>2, RemainderIs
    <2> QED BY <2>1, <2>3, <1>2 DEF Plus
  <1> QED BY <1>1, <1>2

-----------------------------------------------------------------------------
(* The two ends.                                                             *)

LEMMA TwoEnds ==
    ASSUME NEW e \in Ends
    PROVE  /\ Peer(e) \in Ends /\ Peer(e) # e /\ Peer(Peer(e)) = e
           /\ Ends = {e, Peer(e)}
  <1>1. IsFiniteSet(Ends) /\ Cardinality(Ends) = 2
    BY EndsAssumption
  <1>2. IsFiniteSet(Ends \ {e}) /\ Cardinality(Ends \ {e}) = 1
    BY <1>1, FS_RemoveElement
  <1>3. PICK p : Ends \ {e} = {p}
    BY <1>2, FS_Singleton
  <1>4. Peer(e) = p
    BY <1>3 DEF Peer
  <1>5. Peer(p) = e
    BY <1>3 DEF Peer
  <1> QED BY <1>3, <1>4, <1>5

(* Every number of a connection is near the one it starts with.              *)
Near(e, x) == x \in Numbers /\ 2 * Offset(e, x) < Modulus

Starts(e) == Start(e) \in Numbers

(* An offset, without the modulus.                                           *)
LEMMA OffsetIs ==
    ASSUME NEW e, Starts(e), NEW x \in Numbers
    PROVE  /\ Offset(e, x) \in Numbers /\ Offset(e, x) \in Nat
           /\ Offset(e, x) = IF x >= Start(e) THEN x - Start(e)
                             ELSE x - Start(e) + Modulus
  <1>1. Start(e) \in Numbers /\ Modulus \in Nat
    BY ModulusHolds DEF Starts
  <1>2. /\ Distance(Start(e), x) = IF x >= Start(e) THEN x - Start(e)
                                   ELSE x - Start(e) + Modulus
        /\ Distance(Start(e), x) \in Numbers
    BY <1>1, DistanceIs
  <1> QED BY <1>1, <1>2 DEF Offset, Numbers

(* The stream starts at 0.                                                   *)
LEMMA OffsetOfStart ==
    ASSUME NEW e, Starts(e)
    PROVE  Offset(e, Start(e)) = 0 /\ Near(e, Start(e))
  BY OffsetIs, ModulusHolds DEF Starts, Near, Numbers

(* A number is known by its offset.                                          *)
LEMMA SameOffset ==
    ASSUME NEW e, Starts(e), NEW x \in Numbers, NEW y \in Numbers,
           Offset(e, x) = Offset(e, y)
    PROVE  x = y
  BY OffsetIs, ModulusHolds DEF Starts, Numbers

(* A number moved on has its offset moved on, as long as it does not wrap.   *)
LEMMA OffsetOfPlus ==
    ASSUME NEW e, Starts(e), NEW x \in Numbers, NEW n \in Nat,
           Offset(e, x) + n < Modulus
    PROVE  /\ Plus(x, n) \in Numbers
           /\ Offset(e, Plus(x, n)) = Offset(e, x) + n
  <1>m. Modulus \in Nat /\ Modulus >= 4
    BY ModulusHolds
  <1>1. Offset(e, x) \in Nat
        /\ Offset(e, x) = IF x >= Start(e) THEN x - Start(e)
                          ELSE x - Start(e) + Modulus
    BY OffsetIs
  <1>2. n \in 0 .. Modulus
    BY <1>1, <1>m
  <1>3. /\ Plus(x, n) = IF x + n < Modulus THEN x + n ELSE x + n - Modulus
        /\ Plus(x, n) \in Numbers
    BY <1>2, PlusIs
  <1>4. Offset(e, Plus(x, n)) = IF Plus(x, n) >= Start(e)
                                THEN Plus(x, n) - Start(e)
                                ELSE Plus(x, n) - Start(e) + Modulus
    BY <1>3, OffsetIs
  <1> QED BY <1>1, <1>3, <1>4, <1>m DEF Starts, Numbers

(* The distance of two numbers is that of their offsets,                     *)
LEMMA DistanceOf ==
    ASSUME NEW e, Starts(e), NEW x \in Numbers, NEW y \in Numbers,
           Offset(e, x) <= Offset(e, y)
    PROVE  Distance(x, y) = Offset(e, y) - Offset(e, x)
  <1>1. /\ Offset(e, x) = IF x >= Start(e) THEN x - Start(e)
                          ELSE x - Start(e) + Modulus
        /\ Offset(e, y) = IF y >= Start(e) THEN y - Start(e)
                          ELSE y - Start(e) + Modulus
    BY OffsetIs
  <1>2. Distance(x, y) = IF y >= x THEN y - x ELSE y - x + Modulus
    BY DistanceIs
  <1> QED BY <1>1, <1>2, ModulusHolds DEF Starts, Numbers

(* and backwards it goes around.                                             *)
LEMMA DistanceBack ==
    ASSUME NEW e, Starts(e), NEW x \in Numbers, NEW y \in Numbers,
           Offset(e, x) > Offset(e, y)
    PROVE  Distance(x, y) = Offset(e, y) - Offset(e, x) + Modulus
  <1>1. /\ Offset(e, x) = IF x >= Start(e) THEN x - Start(e)
                          ELSE x - Start(e) + Modulus
        /\ Offset(e, y) = IF y >= Start(e) THEN y - Start(e)
                          ELSE y - Start(e) + Modulus
    BY OffsetIs
  <1>2. Distance(x, y) = IF y >= x THEN y - x ELSE y - x + Modulus
    BY DistanceIs
  <1> QED BY <1>1, <1>2, ModulusHolds DEF Starts, Numbers

(* Of two numbers near the start, the comparison of the code (the sign of a  *)
(* 32-bit difference) is that of their offsets: what the bound on the length *)
(* of a stream is for.                                                       *)
LEMMA BeforeIs ==
    ASSUME NEW e, Starts(e), NEW x, NEW y, Near(e, x), Near(e, y)
    PROVE  Before(x, y) <=> Offset(e, x) < Offset(e, y)
  <1>m. Modulus \in Nat /\ Modulus >= 4
    BY ModulusHolds
  <1>1. Offset(e, x) \in Nat /\ Offset(e, y) \in Nat
    BY OffsetIs DEF Near
  <1>2. CASE Offset(e, x) < Offset(e, y)
    <2>1. Distance(y, x) = Offset(e, x) - Offset(e, y) + Modulus
      BY <1>2, <1>1, DistanceBack DEF Near
    <2> QED BY <2>1, <1>1, <1>2, <1>m DEF Before, Near
  <1>3. CASE ~(Offset(e, x) < Offset(e, y))
    <2>1. Distance(y, x) = Offset(e, x) - Offset(e, y)
      BY <1>3, <1>1, DistanceOf DEF Near
    <2> QED BY <2>1, <1>1, <1>3, <1>m DEF Before, Near
  <1> QED BY <1>2, <1>3

(* The later of two numbers has the greater offset.                          *)
LEMMA LaterIs ==
    ASSUME NEW e, Starts(e), NEW x, NEW y, Near(e, x), Near(e, y)
    PROVE  /\ Near(e, Later(x, y))
           /\ Offset(e, Later(x, y)) = Most(Offset(e, x), Offset(e, y))
  <1>1. Offset(e, x) \in Nat /\ Offset(e, y) \in Nat
    BY OffsetIs DEF Near
  <1>2. Before(x, y) <=> Offset(e, x) < Offset(e, y)
    BY BeforeIs
  <1> QED BY <1>1, <1>2 DEF Later, Most

(* The other comparison of the code, likewise.                               *)
LEMMA AtOrBeforeIs ==
    ASSUME NEW e, Starts(e), NEW x, NEW y, Near(e, x), Near(e, y)
    PROVE  AtOrBefore(x, y) <=> Offset(e, x) <= Offset(e, y)
  <1>1. Offset(e, x) \in Nat /\ Offset(e, y) \in Nat
    BY OffsetIs DEF Near
  <1>2. Before(x, y) <=> Offset(e, x) < Offset(e, y)
    BY BeforeIs
  <1>3. Offset(e, x) = Offset(e, y) => x = y
    BY SameOffset DEF Near
  <1> QED BY <1>1, <1>2, <1>3 DEF AtOrBefore

-----------------------------------------------------------------------------
(* What an end keeps of its connection.                                      *)

Bytes == Nat \X Nat
(* What a segment and a connection are made of.                              *)
Flags == {"SYN", "ACK", "FIN", "RST"}
Segments ==
    [seq : Numbers, ack : Numbers, flags : SUBSET Flags, wnd : Nat,
     data : Seq(Bytes)]
Pieces == [seq : Numbers, data : Seq(Bytes), fin : BOOLEAN]
States ==
    {"Closed", "SynSent", "SynReceived", "Established", "FinWait1", "FinWait2",
     "Closing", "TimeWait", "CloseWait", "LastAck"}
Failures == {"None", "Refused", "Reset", "TimedOut"}
Connections ==
    [state : States, failure : Failures, connected : BOOLEAN,
     active : BOOLEAN, iss : Numbers, irs : Numbers,
     una : Numbers, nxt : Numbers, max : Numbers, sseq : Numbers,
     send : Seq(Bytes), finq : BOOLEAN, wnd : Nat, wl1 : Numbers, wl2 : Numbers,
     cwnd : Nat, ssthresh : Nat, dups : Nat, retries : Nat, timer : BOOLEAN,
     rcv : Numbers, adv : Numbers, recv : Seq(Bytes), early : SUBSET Pieces,
     finr : BOOLEAN, acknow : BOOLEAN, out : SUBSET Segments]

(* A flag, where it counts as a number of the stream: a FIN takes one.       *)
Bit(b) == IF b THEN 1 ELSE 0

(* What the two guests did and the peer knows: the bytes that this end and   *)
(* its peer wrote and this end's guest read, whether the peer writes more,   *)
(* the offset up to which the peer sent, and up to which it has what this    *)
(* end sent.                                                                 *)
Contexts ==
    [mine : Nat, read : Nat, theirs : Nat, over : BOOLEAN, sent : Nat,
     known : Nat]
Context(e, x) ==
    /\ x \in Contexts
    /\ 2 * (x.mine + 2) < Modulus /\ 2 * (x.theirs + 2) < Modulus
    /\ x.sent <= x.theirs + 1 + Bit(x.over)
    /\ Starts(e) /\ Starts(Peer(e))

(* Data at a place of the stream of an end, with a FIN behind it (1) or not  *)
(* (0), when the end wrote w bytes, finished or not, and sent what is before *)
(* n.                                                                        *)
Carries(e, seq, data, fin, w, f, n) ==
    /\ Near(e, seq) /\ Offset(e, seq) >= 1
    /\ Offset(e, seq) + Len(data) + fin <= n
    /\ \A k \in 1 .. Len(data) : /\ data[k] = Tagged(1, Offset(e, seq) - 1 + k)
                                 /\ Offset(e, seq) - 1 + k <= w
    /\ fin = 1 => f /\ Offset(e, seq) + Len(data) = w + 1

(* What a segment of e holds of the stream of e: its SYN at the start, or a  *)
(* part of the bytes that were written.                                      *)
Content(e, s, w, f, n) ==
    IF "SYN" \in s.flags
    THEN s.seq = Start(e) /\ s.data = <<>> /\ "FIN" \notin s.flags /\ n >= 1
    ELSE Carries(e, s.seq, s.data, Bit("FIN" \in s.flags), w, f, n)

(* A segment acknowledges at most what is before n of the stream of e.       *)
Acks(e, s, n) ==
    "ACK" \in s.flags =>
        Near(e, s.ack) /\ Offset(e, s.ack) >= 1 /\ Offset(e, s.ack) <= n

(* A segment of e, whose peer is told that e has what is before k.           *)
Genuine(e, s, w, f, n, k) ==
    "RST" \notin s.flags => Content(e, s, w, f, n) /\ Acks(Peer(e), s, k)

(* How far the end ever sent, and how far it has the peer's stream; once it  *)
(* is closed, as far as it can be.                                           *)
SentOf(e, c, x) ==
    IF c.state = "Closed" THEN x.mine + 1 + Bit(c.finq) ELSE Offset(e, c.max)
KnownOf(e, c, x) ==
    CASE c.state = "Closed" -> x.sent
      [] c.state = "SynSent" -> 0
      [] OTHER -> Offset(Peer(e), c.rcv)

(* What waits for the guest is what the peer wrote after what the guest has  *)
(* read.                                                                     *)
Readable(c, x) ==
    /\ Len(c.recv) <= Buffer /\ x.read + Len(c.recv) <= x.theirs
    /\ \A k \in 1 .. Len(c.recv) : c.recv[k] = Tagged(1, x.read + k)

(* The send buffer holds the end of what was written, and una, nxt and max   *)
(* are in their order, within what was written and what the peer has.        *)
SendsRight(e, c, x) ==
    /\ c.iss = Start(e)
    /\ Near(e, c.una) /\ Near(e, c.nxt) /\ Near(e, c.max) /\ Near(e, c.sseq)
    /\ Len(c.send) <= x.mine
    /\ Offset(e, c.sseq) = 1 + x.mine - Len(c.send)
    /\ \A k \in 1 .. Len(c.send) :
         c.send[k] = Tagged(1, Offset(e, c.sseq) - 1 + k)
    /\ Offset(e, c.una) <= Offset(e, c.nxt)
    /\ Offset(e, c.nxt) <= Offset(e, c.max)
    /\ Offset(e, c.max) <= x.mine + 1 + Bit(c.finq)
    /\ Offset(e, c.una) <= x.known
    /\ Connecting(c) => /\ Offset(e, c.una) = 0
                        /\ Offset(e, c.nxt) = 1 /\ Offset(e, c.max) = 1
                        /\ x.mine = 0 /\ ~c.finq /\ ~c.connected
    /\ ~Connecting(c) => /\ Offset(e, c.sseq) <= Offset(e, c.una)
                         /\ c.connected /\ c.cwnd >= 1

(* rcv follows what was read and what waits to be read, and the early        *)
(* segments lie beyond it.                                                   *)
TakesRight(e, c, x) ==
    /\ c.irs = Start(Peer(e)) /\ Near(Peer(e), c.rcv)
    /\ Offset(Peer(e), c.rcv) = 1 + x.read + Len(c.recv) + Bit(c.finr)
    /\ Offset(Peer(e), c.rcv) <= x.sent
    /\ c.finr => x.over /\ x.read + Len(c.recv) = x.theirs
    /\ \A y \in c.early :
         /\ Carries(Peer(e), y.seq, y.data, Bit(y.fin), x.theirs, x.over, x.sent)
         /\ Offset(Peer(e), c.rcv) < Offset(Peer(e), y.seq)

(* Before the SYN of the peer nothing of it is there.                        *)
TakesNothing(c, x) ==
    x.read = 0 /\ c.recv = <<>> /\ c.early = {} /\ ~c.finr

(* What the handler has put out for the network tells the truth.             *)
PutsOut(e, c, x) ==
    \A s \in c.out :
        Genuine(e, s, x.mine, c.finq, SentOf(e, c, x), KnownOf(e, c, x))

(* The invariant of one end, in its context.                                 *)
Sound(e, c, x) ==
    /\ c \in Connections /\ Readable(c, x) /\ PutsOut(e, c, x)
    /\ c.state = "Closed" => ~c.timer
    /\ c.state # "Closed" => SendsRight(e, c, x)
    /\ c.state \notin {"Closed", "SynSent"} => TakesRight(e, c, x)
    /\ c.state = "SynSent" => TakesNothing(c, x)

(* What the guest may be told of the end of the peer's stream.               *)
EndKnown(c, x) ==
    (c.finr /\ c.connected /\ c.failure = "None") =>
        x.over /\ x.read + Len(c.recv) = x.theirs

(* What d has of c, which a call made of it.                                 *)
Follows(e, c, d, x) ==
    /\ d.finq = c.finq /\ (c.connected => d.connected)
    /\ SentOf(e, c, x) <= SentOf(e, d, x)
    /\ KnownOf(e, c, x) <= KnownOf(e, d, x)
    /\ d.state = "SynSent" => c.state = "SynSent"
    /\ c.state = "Closed" => d.state = "Closed"

(* Two connections that send and take the same.                              *)
SameIntake(c, d) ==
    /\ d.irs = c.irs /\ d.rcv = c.rcv /\ d.recv = c.recv /\ d.finr = c.finr
    /\ d.early = c.early
SameSending(c, d) ==
    /\ d.iss = c.iss /\ d.una = c.una /\ d.nxt = c.nxt /\ d.max = c.max
    /\ d.sseq = c.sseq /\ d.send = c.send /\ d.finq = c.finq
    /\ d.connected = c.connected /\ (c.cwnd >= 1 => d.cwnd >= 1)
Alike(c, d) ==
    /\ d.state = c.state /\ SameIntake(c, d) /\ SameSending(c, d)
    /\ d.failure = c.failure /\ d.active = c.active
    /\ (c.state = "Closed" /\ ~c.timer) => ~d.timer

(* An end sent no more than was written and its FIN, and has no more than    *)
(* the peer sent.                                                            *)
LEMMA BoundsHold ==
    ASSUME NEW e \in Ends, NEW x, Context(e, x), NEW c, Sound(e, c, x)
    PROVE  /\ SentOf(e, c, x) \in Nat /\ KnownOf(e, c, x) \in Nat
           /\ SentOf(e, c, x) <= x.mine + 1 + Bit(c.finq)
           /\ KnownOf(e, c, x) <= x.sent
  <1>1. x.mine \in Nat /\ x.sent \in Nat /\ Bit(c.finq) \in Nat
    BY DEF Context, Contexts, Bit
  <1>2. CASE c.state = "Closed"
    BY <1>1, <1>2 DEF SentOf, KnownOf
  <1>3. CASE c.state # "Closed"
    <2>1. c.max \in Numbers /\ Starts(e) /\ Offset(e, c.max) <= x.mine + 1 + Bit(c.finq)
      BY <1>3 DEF Sound, SendsRight, Near, Context
    <2>2. Offset(e, c.max) \in Nat
      BY <2>1, OffsetIs
    <2>3. SentOf(e, c, x) = Offset(e, c.max)
      BY <1>3 DEF SentOf
    <2>4. CASE c.state = "SynSent"
      BY <2>1, <2>2, <2>3, <2>4, <1>1 DEF KnownOf
    <2>5. CASE c.state # "SynSent"
      <3>1. c.rcv \in Numbers /\ Starts(Peer(e)) /\ Offset(Peer(e), c.rcv) <= x.sent
        BY <1>3, <2>5 DEF Sound, TakesRight, Near, Context
      <3>2. Offset(Peer(e), c.rcv) \in Nat
        BY <3>1, OffsetIs
      <3> QED BY <1>3, <2>1, <2>2, <2>3, <2>5, <3>1, <3>2 DEF KnownOf
    <2> QED BY <2>4, <2>5
  <1> QED BY <1>2, <1>3

(* A step that changes only timers, windows and what is put out leaves the   *)
(* end sound, if what it puts out tells the truth.                           *)
LEMMA AlikeSound ==
    ASSUME NEW e \in Ends, NEW x, Context(e, x), NEW c, Sound(e, c, x),
           NEW d \in Connections, Alike(c, d),
           \A s \in d.out \ c.out :
             Genuine(e, s, x.mine, c.finq, SentOf(e, c, x), KnownOf(e, c, x))
    PROVE  Sound(e, d, x) /\ Follows(e, c, d, x) /\ (EndKnown(c, x) => EndKnown(d, x))
  <1>1. SentOf(e, d, x) = SentOf(e, c, x) /\ KnownOf(e, d, x) = KnownOf(e, c, x)
    BY DEF Alike, SameIntake, SameSending, SentOf, KnownOf
  <1>2. PutsOut(e, d, x)
    BY <1>1 DEF Sound, PutsOut, Alike, SameSending
  <1>3. Readable(d, x) /\ (EndKnown(c, x) => EndKnown(d, x))
    BY DEF Sound, Alike, SameIntake, SameSending, Readable, EndKnown
  <1>4. c.state # "Closed" => SendsRight(e, d, x)
    BY DEF Sound, Alike, SameSending, SendsRight, Connecting
  <1>5. c.state \notin {"Closed", "SynSent"} => TakesRight(e, d, x)
    BY DEF Sound, Alike, SameIntake, TakesRight
  <1>6. c.state = "SynSent" => TakesNothing(d, x)
    BY DEF Sound, Alike, SameIntake, TakesNothing
  <1>7. SentOf(e, c, x) <= SentOf(e, d, x) /\ KnownOf(e, c, x) <= KnownOf(e, d, x)
    <2>1. SentOf(e, c, x) \in Int /\ KnownOf(e, c, x) \in Int
      BY BoundsHold
    <2> QED BY <1>1, <2>1
  <1>8. Follows(e, c, d, x)
    BY <1>7 DEF Follows, Alike, SameSending
  <1> QED BY <1>2, <1>3, <1>4, <1>5, <1>6, <1>8 DEF Sound, Alike

(* Two steps that follow are one.                                            *)
LEMMA FollowsOn ==
    ASSUME NEW e \in Ends, NEW x, Context(e, x), NEW b, NEW c, NEW d,
           Sound(e, b, x), Sound(e, c, x), Sound(e, d, x),
           Follows(e, b, c, x), Follows(e, c, d, x)
    PROVE  Follows(e, b, d, x)
  <1>1. \A k \in {b, c, d} : SentOf(e, k, x) \in Int /\ KnownOf(e, k, x) \in Int
    BY BoundsHold
  <1> QED BY <1>1 DEF Follows

(* What a call makes of a connection when it only sends.                     *)
SameStanding(c, d) ==
    /\ d.state = "Closed" <=> c.state = "Closed"
    /\ d.state = "SynSent" <=> c.state = "SynSent"
    /\ d.failure = c.failure /\ d.connected = c.connected /\ d.active = c.active
    /\ d.finq = c.finq
(* A step of a connection that keeps it sound and takes nothing from the     *)
(* peer.                                                                     *)
Onward(e, c, d, x) ==
    /\ Sound(e, d, x) /\ Follows(e, c, d, x)
    /\ SameIntake(c, d) /\ SameStanding(c, d)

(* No step is such a step,                                                   *)
LEMMA OnwardSelf ==
    ASSUME NEW e \in Ends, NEW x, Context(e, x), NEW c, Sound(e, c, x)
    PROVE  Onward(e, c, c, x)
  <1>1. SentOf(e, c, x) \in Int /\ KnownOf(e, c, x) \in Int
    BY BoundsHold
  <1> QED BY <1>1 DEF Onward, Follows, SameIntake, SameStanding

(* two of them are one,                                                      *)
LEMMA OnwardOn ==
    ASSUME NEW e \in Ends, NEW x, Context(e, x), NEW b, NEW c, NEW d,
           Sound(e, b, x), Onward(e, b, c, x), Onward(e, c, d, x)
    PROVE  Onward(e, b, d, x)
  <1>1. Follows(e, b, d, x)
    BY FollowsOn DEF Onward
  <1> QED BY <1>1 DEF Onward, SameIntake, SameStanding

(* and so is one that changes only timers, windows and what is put out.      *)
LEMMA AlikeOnward ==
    ASSUME NEW e \in Ends, NEW x, Context(e, x), NEW c, Sound(e, c, x),
           NEW d \in Connections, Alike(c, d),
           \A s \in d.out \ c.out :
             Genuine(e, s, x.mine, c.finq, SentOf(e, c, x), KnownOf(e, c, x))
    PROVE  Onward(e, c, d, x)
  BY AlikeSound DEF Onward, Alike, SameStanding, SameSending

(* A part of a sequence, byte by byte.                                       *)
LEMMA SubSeqIs ==
    ASSUME NEW S, NEW s \in Seq(S), NEW a \in Nat, NEW b \in Nat,
           a >= 1, b <= Len(s)
    PROVE  /\ SubSeq(s, a, b) \in Seq(S)
           /\ Len(SubSeq(s, a, b)) = IF a <= b THEN b - a + 1 ELSE 0
           /\ \A k \in 1 .. Len(SubSeq(s, a, b)) :
                SubSeq(s, a, b)[k] = s[a + k - 1]
  <1>1. CASE a <= b
    BY <1>1, SubSeqProperties
  <1>2. CASE ~(a <= b)
    BY <1>2, SubSeqProperties
  <1> QED BY <1>1, <1>2

(* The window is what the receive buffer has room for.                       *)
LEMMA WindowIs ==
    ASSUME NEW c \in Connections, Len(c.recv) <= Buffer
    PROVE  Window(c) \in Nat /\ Window(c) = Buffer - Len(c.recv)
  BY ModulusHolds DEF Window, Connections

(* Sequence numbers are naturals.                                            *)
LEMMA NumbersHold ==
    ASSUME NEW e, NEW x, Context(e, x)
    PROVE  0 \in Numbers /\ \A n \in Numbers : n \in Nat
  BY ModulusHolds DEF Numbers

(* What a segment is about, whatever it acknowledges.                        *)
LEMMA ContentOf ==
    ASSUME NEW e, NEW seq, NEW flags, NEW data, NEW fin, NEW w, NEW f,
           NEW to, "SYN" \notin flags, Bit("FIN" \in flags) = fin,
           Carries(e, seq, data, fin, w, f, to)
    PROVE  Content(e, Segment(seq, 0, flags, 0, data), w, f, to)
  <1>1. PICK s : s = Segment(seq, 0, flags, 0, data)
    OBVIOUS
  <1>2. s.flags = flags /\ s.seq = seq /\ s.data = data
    BY <1>1 DEF Segment
  <1>3. Carries(e, s.seq, s.data, Bit("FIN" \in s.flags), w, f, to)
    BY <1>2
  <1>4. Content(e, s, w, f, to)
    BY <1>2, <1>3 DEF Content
  <1> QED BY <1>1, <1>4

(* A step that puts out segments that tell the truth about what is sent      *)
(* before an offset, and changes nothing else that Sound is about.           *)
Adds(e, c, d, to, x) ==
    \E s \in Segments :
        /\ Genuine(e, s, x.mine, c.finq, to, KnownOf(e, c, x))
        /\ d \in Connections /\ Alike(c, d) /\ d.out = c.out \cup {s}

(* Connection::Emit puts out a segment with the end's own acknowledgement.   *)
LEMMA EmitIs ==
    ASSUME NEW e \in Ends, NEW x, Context(e, x), NEW c, Sound(e, c, x),
           c.state # "Closed", NEW seq \in Numbers, NEW flags \in SUBSET Flags,
           NEW data \in Seq(Bytes), NEW to \in Int,
           "ACK" \in flags => c.state # "SynSent",
           "RST" \notin flags =>
             Content(e, Segment(seq, 0, flags, 0, data), x.mine, c.finq, to)
    PROVE  Adds(e, c, Emit(c, seq, flags, data), to, x)
  <1> DEFINE wnd == IF flags = {"RST"} THEN 0 ELSE Window(c)
             s == Segment(seq, IF "ACK" \in flags THEN c.rcv ELSE 0, flags, wnd, data)
             d == Emit(c, seq, flags, data)
  <1>c. c \in Connections /\ Len(c.recv) <= Buffer /\ Window(c) \in Nat
        /\ Window(c) <= Buffer
    BY SMTT(30), WindowIs, ModulusHolds DEF Sound, Readable, Connections
  <1>w. wnd \in Nat /\ wnd <= Buffer
    BY <1>c, ModulusHolds
  <1>1. s \in Segments
    BY <1>c, <1>w, NumbersHold DEF Segments, Segment, Connections
  <1>2. c.rcv \in Numbers /\ Plus(c.rcv, wnd) \in Numbers
    BY <1>c, <1>w, ModulusHolds, PlusIs DEF Connections
  <1> HIDE DEF wnd
  <1>3. d = IF "ACK" \in flags
            THEN [c EXCEPT !.out = @ \cup {s}, !.adv = Plus(c.rcv, wnd),
                           !.acknow = FALSE]
            ELSE [c EXCEPT !.out = @ \cup {s}]
    BY DEF Emit, wnd
  <1>4. Genuine(e, s, x.mine, c.finq, to, KnownOf(e, c, x))
    <2>1. CASE "RST" \in flags
      BY <2>1 DEF Genuine, Segment
    <2>2. CASE "RST" \notin flags
      <3>1. Content(e, s, x.mine, c.finq, to)
        BY <2>2 DEF Content, Segment
      <3>2. CASE "ACK" \in flags
        <4>1. TakesRight(e, c, x) /\ KnownOf(e, c, x) = Offset(Peer(e), c.rcv)
          BY <3>2 DEF Sound, KnownOf
        <4>2. Near(Peer(e), c.rcv) /\ Offset(Peer(e), c.rcv) \in Nat
          BY <4>1, OffsetIs DEF TakesRight, Near, Context
        <4>3. Offset(Peer(e), c.rcv) >= 1
          <5>1. Len(c.recv) \in Nat /\ x.read \in Nat /\ Bit(c.finr) \in Nat
            BY <1>c DEF Context, Contexts, Bit, Connections
          <5> QED BY <4>1, <5>1 DEF TakesRight
        <4> QED BY <3>1, <3>2, <4>1, <4>2, <4>3 DEF Genuine, Acks, Segment
      <3> QED BY <3>1, <3>2 DEF Genuine, Acks, Segment
    <2> QED BY <2>1, <2>2
  <1> HIDE DEF s, d
  <1>5. CASE "ACK" \in flags
    <2>1. d \in Connections /\ Alike(c, d) /\ d.out = c.out \cup {s}
      BY ZenonT(60), <1>1, <1>2, <1>3, <1>5, <1>c DEF Connections, Alike, SameIntake,
           SameSending
    <2> QED BY <2>1, <1>1, <1>4 DEF d, Adds
  <1>6. CASE "ACK" \notin flags
    <2>1. d \in Connections /\ Alike(c, d) /\ d.out = c.out \cup {s}
      BY ZenonT(60), <1>1, <1>3, <1>6, <1>c DEF Connections, Alike, SameIntake,
           SameSending
    <2> QED BY <2>1, <1>1, <1>4 DEF d, Adds
  <1> QED BY <1>5, <1>6

(* An emission within what was already sent keeps the end sound.             *)
LEMMA EmitOnward ==
    ASSUME NEW e \in Ends, NEW x, Context(e, x), NEW c, Sound(e, c, x),
           c.state # "Closed", NEW seq \in Numbers, NEW flags \in SUBSET Flags,
           NEW data \in Seq(Bytes),
           "ACK" \in flags => c.state # "SynSent",
           "RST" \notin flags =>
             Content(e, Segment(seq, 0, flags, 0, data), x.mine, c.finq,
                     Offset(e, c.max))
    PROVE  /\ Onward(e, c, Emit(c, seq, flags, data), x)
           /\ Alike(c, Emit(c, seq, flags, data))
  <1>1. SentOf(e, c, x) = Offset(e, c.max) /\ SentOf(e, c, x) \in Int
    BY BoundsHold DEF SentOf
  <1>2. Adds(e, c, Emit(c, seq, flags, data), SentOf(e, c, x), x)
    BY <1>1, EmitIs
  <1> QED BY <1>2, AlikeOnward DEF Adds

(* The places in the stream of an end that is not closed.                    *)
LEMMA LiveHolds ==
    ASSUME NEW e \in Ends, NEW x, Context(e, x), NEW c, Sound(e, c, x),
           c.state # "Closed"
    PROVE  /\ c \in Connections /\ SendsRight(e, c, x)
           /\ x.mine \in Nat /\ Len(c.send) \in 0 .. x.mine
           /\ \A y \in {c.una, c.nxt, c.max, c.sseq} :
                Near(e, y) /\ y \in Numbers /\ Offset(e, y) \in Nat
           /\ Near(e, DataEnd(c)) /\ DataEnd(c) \in Numbers
           /\ Offset(e, DataEnd(c)) = x.mine + 1
           /\ Modulus \in Nat /\ 2 * (x.mine + 2) < Modulus
           /\ Bit(c.finq) \in {0, 1} /\ Starts(e)
  <1>1. c \in Connections /\ SendsRight(e, c, x) /\ Starts(e)
    BY DEF Sound, Context
  <1>2. x.mine \in Nat /\ Bit(c.finq) \in {0, 1} /\ 2 * (x.mine + 2) < Modulus
    BY DEF Context, Contexts, Bit
  <1>3. Len(c.send) \in 0 .. x.mine
    BY <1>1, <1>2 DEF Connections, SendsRight
  <1>4. \A y \in {c.una, c.nxt, c.max, c.sseq} :
          Near(e, y) /\ y \in Numbers /\ Offset(e, y) \in Nat
    BY <1>1, OffsetIs DEF SendsRight, Near
  <1>5. Offset(e, c.sseq) + Len(c.send) = x.mine + 1
    BY <1>1, <1>2, <1>3 DEF SendsRight
  <1>6. DataEnd(c) \in Numbers /\ Offset(e, DataEnd(c)) = x.mine + 1
    BY SMTT(30), <1>1, <1>2, <1>3, <1>4, <1>5, OffsetOfPlus, ModulusHolds DEF DataEnd
  <1> QED BY SMTT(30), <1>1, <1>2, <1>3, <1>4, <1>6, ModulusHolds DEF Near

(* Where byte k of a part of the stream lies.                                *)
LEMMA PlaceOfByte ==
    ASSUME NEW o \in Int, NEW s \in Int, NEW f \in Int, NEW k \in Int, f = s - o
    PROVE  o - 1 + (f + k) = s - 1 + k
  OBVIOUS

(* The bytes of the send buffer from a number on.                            *)
LEMMA BufferedBytes ==
    ASSUME NEW e \in Ends, NEW x, Context(e, x), NEW c, Sound(e, c, x),
           c.state # "Closed", NEW seq \in Numbers, Near(e, seq),
           Offset(e, c.sseq) <= Offset(e, seq), NEW n \in Nat,
           Offset(e, seq) + n <= x.mine + 1
    PROVE  LET first == Distance(c.sseq, seq)
               data == SubSeq(c.send, first + 1, first + n)
           IN  /\ first \in Nat /\ first = Offset(e, seq) - Offset(e, c.sseq)
               /\ data \in Seq(Bytes) /\ Len(data) = n
               /\ \A k \in 1 .. n : /\ data[k] = Tagged(1, Offset(e, seq) - 1 + k)
                                    /\ Offset(e, seq) - 1 + k <= x.mine
  <1> DEFINE first == Distance(c.sseq, seq)
             data == SubSeq(c.send, first + 1, first + n)
  <1>1. /\ SendsRight(e, c, x) /\ c \in Connections /\ Len(c.send) \in 0 .. x.mine
        /\ c.sseq \in Numbers /\ Offset(e, c.sseq) \in Nat /\ x.mine \in Nat
        /\ Starts(e)
    BY LiveHolds
  <1>2. Offset(e, seq) \in Nat
    BY <1>1, OffsetIs
  <1>3. first = Offset(e, seq) - Offset(e, c.sseq) /\ first \in Nat
    BY <1>1, <1>2, DistanceOf
  <1>4. Offset(e, c.sseq) = 1 + x.mine - Len(c.send)
    BY <1>1 DEF SendsRight
  <1>5. first + n <= Len(c.send)
    BY SMTT(30), <1>1, <1>2, <1>3, <1>4
  <1>6. c.send \in Seq(Bytes)
    BY <1>1 DEF Connections
  <1> HIDE DEF first
  <1>7. /\ data \in Seq(Bytes) /\ Len(data) = n
        /\ \A k \in 1 .. n : data[k] = c.send[first + k]
    <2>1. first + 1 \in Nat /\ first + n \in Nat /\ first + 1 >= 1
      BY <1>3
    <2>2. PICK a \in Nat, b \in Nat : a = first + 1 /\ b = first + n
      BY <2>1
    <2>3. data = SubSeq(c.send, a, b)
      BY <2>2
    <2>4. /\ data \in Seq(Bytes)
          /\ Len(data) = IF a <= b THEN b - a + 1 ELSE 0
          /\ \A k \in 1 .. Len(data) : data[k] = c.send[a + k - 1]
      BY SMTT(30), <2>1, <2>2, <2>3, <1>5, <1>6, SubSeqIs
    <2>5. Len(data) = n
      BY <2>2, <2>4, <1>3
    <2>6. \A k \in 1 .. n : a + k - 1 = first + k
      BY <1>3, <2>2
    <2> QED BY <2>4, <2>5, <2>6
  <1>8. ASSUME NEW k \in 1 .. n
        PROVE  /\ data[k] = Tagged(1, Offset(e, seq) - 1 + k)
               /\ Offset(e, seq) - 1 + k <= x.mine
    <2>1. first + k \in 1 .. Len(c.send)
      BY <1>1, <1>3, <1>5
    <2>2. c.send[first + k] = Tagged(1, Offset(e, c.sseq) - 1 + (first + k))
      BY <1>1, <2>1 DEF SendsRight
    <2>3. Offset(e, c.sseq) - 1 + (first + k) = Offset(e, seq) - 1 + k
      <3>1. Offset(e, c.sseq) \in Int /\ Offset(e, seq) \in Int /\ k \in Int
            /\ first \in Int
        BY <1>1, <1>2, <1>3
      <3> QED BY <3>1, <1>3, PlaceOfByte
    <2>4. Offset(e, seq) - 1 + k <= x.mine
      BY <1>1, <1>2
    <2> QED BY <1>7, <2>2, <2>3, <2>4
  <1> QED BY <1>3, <1>7, <1>8 DEF first

(* What told the truth does so still when more is sent and acknowledged.     *)
LEMMA GenuineGrows ==
    ASSUME NEW e \in Ends, NEW s, NEW w, NEW f, NEW m \in Int, NEW n \in Int,
           NEW k \in Int, NEW l \in Int, m <= n, k <= l,
           Starts(e), Starts(Peer(e)), s \in Segments,
           Genuine(e, s, w, f, m, k)
    PROVE  Genuine(e, s, w, f, n, l)
  <1>1. CASE "RST" \in s.flags
    BY <1>1 DEF Genuine
  <1>2. CASE "RST" \notin s.flags
    <2>1. Content(e, s, w, f, m) /\ Acks(Peer(e), s, k)
      BY <1>2 DEF Genuine
    <2>2. Content(e, s, w, f, n)
      <3>1. CASE "SYN" \in s.flags
        BY <2>1, <3>1 DEF Content
      <3>2. CASE "SYN" \notin s.flags
        <4>1. Carries(e, s.seq, s.data, Bit("FIN" \in s.flags), w, f, m)
          BY <2>1, <3>2 DEF Content
        <4>2. Offset(e, s.seq) \in Int /\ Len(s.data) \in Int
              /\ Bit("FIN" \in s.flags) \in Int
          BY <4>1, OffsetIs DEF Carries, Near, Segments, Bit
        <4> QED BY <4>1, <4>2, <3>2 DEF Content, Carries
      <3> QED BY <3>1, <3>2
    <2>3. Acks(Peer(e), s, l)
      <3>1. CASE "ACK" \in s.flags
        <4>1. Offset(Peer(e), s.ack) \in Int
          BY <2>1, <3>1, OffsetIs DEF Acks, Near
        <4> QED BY <4>1, <2>1 DEF Acks
      <3> QED BY <3>1 DEF Acks
    <2> QED BY <2>2, <2>3 DEF Genuine
  <1> QED BY <1>1, <1>2

(* A connection that sent more and took the same.                            *)
LEMMA StandsOnward ==
    ASSUME NEW e \in Ends, NEW x, Context(e, x), NEW c, Sound(e, c, x),
           c.state \notin {"Closed", "SynSent"},
           NEW d \in Connections, SameIntake(c, d),
           d.state \notin {"Closed", "SynSent"},
           d.failure = c.failure, d.connected = c.connected,
           d.active = c.active, d.finq = c.finq, SendsRight(e, d, x),
           Offset(e, c.max) <= Offset(e, d.max),
           \A s \in d.out \ c.out :
             Genuine(e, s, x.mine, d.finq, Offset(e, d.max), KnownOf(e, c, x))
    PROVE  Onward(e, c, d, x)
  <1>1. SentOf(e, d, x) = Offset(e, d.max) /\ SentOf(e, c, x) = Offset(e, c.max)
        /\ KnownOf(e, d, x) = KnownOf(e, c, x)
    BY DEF SentOf, KnownOf, SameIntake
  <1>2. SentOf(e, c, x) \in Int /\ KnownOf(e, c, x) \in Int
        /\ KnownOf(e, c, x) <= KnownOf(e, c, x)
    BY BoundsHold
  <1>3. Offset(e, d.max) \in Int /\ Starts(e) /\ Starts(Peer(e))
    BY OffsetIs DEF SendsRight, Near, Context
  <1>4. PutsOut(e, d, x)
    <2>1. ASSUME NEW s \in d.out, s \in c.out
          PROVE  Genuine(e, s, x.mine, d.finq, SentOf(e, d, x), KnownOf(e, d, x))
      <3>1. Genuine(e, s, x.mine, d.finq, SentOf(e, c, x), KnownOf(e, c, x))
            /\ s \in Segments
        BY <2>1 DEF Sound, PutsOut, Connections
      <3>2. SentOf(e, d, x) \in Int /\ SentOf(e, c, x) <= SentOf(e, d, x)
        BY <1>1, <1>3
      <3>3. Genuine(e, s, x.mine, d.finq, SentOf(e, d, x), KnownOf(e, c, x))
        BY <3>1, <3>2, <1>2, <1>3, GenuineGrows
      <3> QED BY <3>3, <1>1
    <2> QED BY <2>1, <1>1 DEF PutsOut
  <1>5. Readable(d, x) /\ TakesRight(e, d, x)
    BY DEF Sound, SameIntake, Readable, TakesRight
  <1>6. Sound(e, d, x)
    BY <1>4, <1>5 DEF Sound
  <1>7. Follows(e, c, d, x)
    BY <1>1, <1>2, <1>3 DEF Follows
  <1> QED BY <1>6, <1>7 DEF Onward, SameStanding

(* Where part i of a stretch cut into parts of m bytes starts.               *)
LEMMA PartStarts ==
    ASSUME NEW n \in Nat, n >= 1, NEW m \in Nat, m >= 1,
           NEW i \in 0 .. (n - 1) \div m
    PROVE  /\ i * m \in Nat /\ i * m <= n - 1 /\ i \in Nat
           /\ (i + 1) * m = i * m + m
  <1> DEFINE q == (n - 1) \div m
  <1>1. PICK r \in 0 .. m - 1 : n - 1 = m * q + r
    <2>1. n - 1 \in Int /\ m > 0
      OBVIOUS
    <2>2. (n - 1) % m \in 0 .. m - 1 /\ n - 1 = m * q + ((n - 1) % m)
      BY <2>1
    <2> QED BY <2>2
  <1>2. q \in Int
    OBVIOUS
  <1> HIDE DEF q
  <1>3. i \in Nat /\ i <= q
    BY <1>2 DEF q
  <1>4. CASE i = q
    BY <1>1, <1>2, <1>3, <1>4
  <1>5. CASE q >= i + 1
    <2>1. m * q >= m * i + m
      BY <1>2, <1>3, <1>5, ScaledUp
    <2> QED BY <2>1, <1>1, <1>2, <1>3
  <1> QED BY <1>2, <1>3, <1>4, <1>5

(* A part of the send buffer, as a segment carries it.                       *)
LEMMA CarriesBuffered ==
    ASSUME NEW e \in Ends, NEW x, Context(e, x), NEW c, Sound(e, c, x),
           c.state # "Closed", NEW seq \in Numbers, Near(e, seq),
           Offset(e, c.sseq) <= Offset(e, seq), NEW n \in Nat,
           Offset(e, seq) + n <= x.mine + 1,
           NEW fin \in {0, 1}, fin = 1 => c.finq /\ Offset(e, seq) + n = x.mine + 1,
           NEW to \in Nat, Offset(e, seq) + n + fin <= to,
           NEW data, data = SubSeq(c.send, Distance(c.sseq, seq) + 1,
                                   Distance(c.sseq, seq) + n)
    PROVE  Carries(e, seq, data, fin, x.mine, c.finq, to) /\ data \in Seq(Bytes)
  <1>1. /\ data \in Seq(Bytes) /\ Len(data) = n
        /\ \A k \in 1 .. n : /\ data[k] = Tagged(1, Offset(e, seq) - 1 + k)
                             /\ Offset(e, seq) - 1 + k <= x.mine
    BY BufferedBytes
  <1>2. Offset(e, seq) >= 1
    <2>1. Len(c.send) \in 0 .. x.mine /\ Offset(e, c.sseq) = 1 + x.mine - Len(c.send)
          /\ x.mine \in Nat /\ Starts(e)
      BY LiveHolds DEF SendsRight
    <2>2. Offset(e, c.sseq) >= 1
      BY <2>1
    <2>3. Offset(e, seq) \in Nat /\ Offset(e, c.sseq) \in Int
      BY OffsetIs, <2>1
    <2> QED BY <2>2, <2>3
  <1> QED BY <1>1, <1>2 DEF Carries

(* A connection that has put out more and moved nxt, max and adv.            *)
SendsMore(c, d, out, nxt, max, adv) ==
    d = [c EXCEPT !.out = out, !.nxt = nxt, !.max = max, !.adv = adv,
                  !.acknow = FALSE, !.timer = TRUE]

(* The fields of such a connection.                                          *)
LEMMA SendingShape ==
    ASSUME NEW c \in Connections, NEW out \in SUBSET Segments,
           NEW nxt \in Numbers, NEW max \in Numbers, NEW adv \in Numbers,
           NEW d, SendsMore(c, d, out, nxt, max, adv)
    PROVE  /\ d \in Connections /\ SameIntake(c, d) /\ d.state = c.state
           /\ d.failure = c.failure /\ d.connected = c.connected
           /\ d.active = c.active /\ d.finq = c.finq /\ d.iss = c.iss
           /\ d.una = c.una /\ d.sseq = c.sseq /\ d.send = c.send
           /\ d.nxt = nxt /\ d.max = max /\ d.cwnd = c.cwnd /\ d.out = out
  BY ZenonT(60) DEF Connections, SameIntake, SendsMore

(* Connection::Output sends data from nxt on, within what was written.       *)
LEMMA SendDataOnward ==
    ASSUME NEW e \in Ends, NEW x, Context(e, x), NEW c, Sound(e, c, x),
           Sending(c)
    PROVE  Onward(e, c, SendData(c), x) /\ SendData(c).state = c.state
  <1> DEFINE flight == Distance(c.una, c.nxt)
             limit == Least(c.wnd, c.cwnd)
             size == IF Before(c.nxt, DataEnd(c)) /\ limit > flight
                     THEN Least(Distance(c.nxt, DataEnd(c)), limit - flight)
                     ELSE 0
             first == Distance(c.sseq, c.nxt)
             Part(i) == Segment(Plus(c.nxt, i * Mss), c.rcv, {"ACK"}, Window(c),
                                SubSeq(c.send, first + i * Mss + 1,
                                       first + Least((i + 1) * Mss, size)))
             d == [c EXCEPT !.out = @ \cup {Part(i) : i \in 0 .. (size - 1) \div Mss},
                            !.nxt = Plus(@, size),
                            !.max = Later(@, Plus(c.nxt, size)),
                            !.adv = Plus(c.rcv, Window(c)),
                            !.acknow = FALSE, !.timer = TRUE]
  <1>0. SendData(c) = IF size = 0 THEN c ELSE d
    BY DEF SendData
  <1>s. c.state \in States \ {"Closed", "SynSent", "SynReceived"} /\ ~Connecting(c)
    BY DEF Sending, Connecting, States
  <1>l. /\ c \in Connections /\ SendsRight(e, c, x)
        /\ x.mine \in Nat /\ Len(c.send) \in 0 .. x.mine
        /\ \A y \in {c.una, c.nxt, c.max, c.sseq} :
             Near(e, y) /\ y \in Numbers /\ Offset(e, y) \in Nat
        /\ Near(e, DataEnd(c)) /\ DataEnd(c) \in Numbers
        /\ Offset(e, DataEnd(c)) = x.mine + 1
        /\ Modulus \in Nat /\ 2 * (x.mine + 2) < Modulus
        /\ Bit(c.finq) \in {0, 1} /\ Starts(e)
    BY <1>s, LiveHolds
  <1>w. Len(c.recv) \in Nat /\ Len(c.recv) <= Buffer /\ Window(c) \in 0 .. Modulus
        /\ Window(c) \in Nat
    <2>1. Len(c.recv) \in Nat /\ Len(c.recv) <= Buffer
      BY <1>l DEF Sound, Readable, Connections
    <2>2. Window(c) \in Nat /\ Window(c) = Buffer - Len(c.recv)
      BY <2>1, <1>l, WindowIs
    <2> QED BY <2>1, <2>2, ModulusHolds
  <1>m. Mss \in Nat /\ Mss >= 1
    BY ModulusHolds
  <1>n. Modulus \in Nat /\ 2 * (x.mine + 2) < Modulus
    BY <1>l
  <1>o. /\ Offset(e, c.sseq) <= Offset(e, c.una)
        /\ Offset(e, c.una) <= Offset(e, c.nxt)
        /\ Offset(e, c.nxt) <= Offset(e, c.max)
        /\ Offset(e, c.max) <= x.mine + 1 + Bit(c.finq)
        /\ Offset(e, c.sseq) <= Offset(e, c.nxt)
    <2>1. /\ Offset(e, c.sseq) <= Offset(e, c.una)
          /\ Offset(e, c.una) <= Offset(e, c.nxt)
          /\ Offset(e, c.nxt) <= Offset(e, c.max)
          /\ Offset(e, c.max) <= x.mine + 1 + Bit(c.finq)
      BY <1>l, <1>s DEF SendsRight
    <2> QED BY <2>1, <1>l
  <1>1. CASE size = 0
    BY <1>0, <1>1, OnwardSelf
  <1>2. CASE size # 0
    <2>1. Before(c.nxt, DataEnd(c)) /\ limit > flight
      BY <1>2
    <2>2. Offset(e, c.nxt) < Offset(e, DataEnd(c))
      BY <2>1, <1>l, BeforeIs
    <2>a. /\ c.nxt \in Numbers /\ c.una \in Numbers /\ c.sseq \in Numbers
          /\ Offset(e, c.nxt) \in Nat /\ Offset(e, c.una) \in Nat
          /\ Offset(e, c.sseq) \in Nat /\ Offset(e, c.max) \in Nat
          /\ Near(e, c.max) /\ x.mine \in Nat /\ Bit(c.finq) \in {0, 1}
          /\ DataEnd(c) \in Numbers /\ Offset(e, DataEnd(c)) = x.mine + 1
          /\ Starts(e)
      BY <1>l
    <2>3. Distance(c.nxt, DataEnd(c)) = x.mine + 1 - Offset(e, c.nxt)
      <3>1. Offset(e, c.nxt) <= Offset(e, DataEnd(c))
        BY <2>2, <2>a
      <3>2. Distance(c.nxt, DataEnd(c)) = Offset(e, DataEnd(c)) - Offset(e, c.nxt)
        BY ONLY <3>1, <2>a, DistanceOf
      <3> QED BY <3>2, <2>a
    <2>4. flight = Offset(e, c.nxt) - Offset(e, c.una) /\ flight \in Int
      <3>1. Distance(c.una, c.nxt) = Offset(e, c.nxt) - Offset(e, c.una)
        BY ONLY <1>o, <2>a, DistanceOf
      <3> QED BY <3>1, <2>a
    <2>5. limit \in Int
      BY <1>l DEF Connections, Least
    <2>6. size \in Nat /\ size >= 1 /\ Offset(e, c.nxt) + size <= x.mine + 1
      <3>1. size = Least(Distance(c.nxt, DataEnd(c)), limit - flight)
        BY <2>1
      <3> HIDE DEF size, limit, flight
      <3>2. Offset(e, c.nxt) \in Nat /\ x.mine \in Nat
            /\ x.mine + 1 - Offset(e, c.nxt) >= 1
        BY <2>2, <1>l
      <3>3. limit - flight \in Int /\ limit - flight >= 1
        BY <2>1, <2>4, <2>5
      <3> QED BY <3>1, <2>3, <3>2, <3>3 DEF Least
    <2> HIDE DEF flight, limit, size
    <2>7. Plus(c.nxt, size) \in Numbers
          /\ Offset(e, Plus(c.nxt, size)) = Offset(e, c.nxt) + size
      BY <2>6, <1>l, OffsetOfPlus
    <2>8. Near(e, Plus(c.nxt, size))
      BY SMTT(30), <2>6, <2>7, <1>l DEF Near
    <2>9. /\ Near(e, Later(c.max, Plus(c.nxt, size)))
          /\ Offset(e, Later(c.max, Plus(c.nxt, size)))
               = Most(Offset(e, c.max), Offset(e, c.nxt) + size)
      BY <2>7, <2>8, <1>l, LaterIs
    <2> DEFINE top == Offset(e, Later(c.max, Plus(c.nxt, size)))
    <2>10. /\ Offset(e, c.max) <= top /\ Offset(e, c.nxt) + size <= top
           /\ top <= x.mine + 1 + Bit(c.finq) /\ top \in Nat
      <3>1. top = Most(Offset(e, c.max), Offset(e, c.nxt) + size)
        BY <2>9
      <3> HIDE DEF top
      <3> QED BY <3>1, <2>6, <2>a, <1>o DEF Most
    <2> HIDE DEF top
    <2>p. ASSUME NEW i \in 0 .. (size - 1) \div Mss
          PROVE  /\ Part(i) \in Segments
                 /\ Genuine(e, Part(i), x.mine, c.finq, top, KnownOf(e, c, x))
      <3>1. /\ i * Mss \in Nat /\ i * Mss <= size - 1 /\ i \in Nat
            /\ (i + 1) * Mss = i * Mss + Mss
        BY <2>6, <1>m, PartStarts
      <3>2. PICK at \in Nat : at = i * Mss
        BY <3>1
      <3> DEFINE seq == Plus(c.nxt, at)
                 n == Least(at + Mss, size) - at
      <3>3. seq \in Numbers /\ Offset(e, seq) = Offset(e, c.nxt) + at
        <4>1. at < size /\ c.nxt \in Numbers /\ Offset(e, c.nxt) \in Nat
              /\ Starts(e)
          BY <3>1, <3>2, <2>6, <1>l
        <4>2. Offset(e, c.nxt) + at < Modulus
          BY SMTT(30), <4>1, <2>6, <1>l
        <4> QED BY <4>1, <4>2, OffsetOfPlus
      <3> HIDE DEF seq
      <3>4. n \in Nat /\ at + n <= size
        BY <3>1, <3>2, <2>6, <1>m DEF Least
      <3> HIDE DEF n
      <3>5. Near(e, seq) /\ Offset(e, c.sseq) <= Offset(e, seq)
            /\ Offset(e, seq) + n <= x.mine + 1
            /\ Offset(e, seq) + n + 0 <= top
        <4>1. Offset(e, c.nxt) \in Nat /\ at \in Nat /\ x.mine \in Nat
              /\ Offset(e, c.sseq) \in Nat /\ top \in Nat
          BY <1>l, <2>10
        <4>2. Offset(e, seq) + n <= x.mine + 1 /\ Offset(e, seq) + n <= top
              /\ Offset(e, c.sseq) <= Offset(e, seq)
          BY <3>3, <3>4, <2>6, <2>10, <1>o, <4>1
        <4>3. Near(e, seq)
          <5>1. Offset(e, seq) <= x.mine + 1 /\ Offset(e, seq) \in Nat
            BY <4>1, <4>2, <3>3, <3>4
          <5>2. 2 * Offset(e, seq) < Modulus
            BY <5>1, <4>1, <1>n
          <5> QED BY <5>2, <3>3 DEF Near
        <4>4. Offset(e, seq) \in Int /\ n \in Int
          BY <4>1, <3>3, <3>4
        <4> QED BY <4>2, <4>3, <4>4
      <3>6. Distance(c.sseq, seq) = first + at
        <4>1. Distance(c.sseq, seq) = Offset(e, seq) - Offset(e, c.sseq)
          BY <3>3, <3>5, <1>l, DistanceOf
        <4>2. first = Offset(e, c.nxt) - Offset(e, c.sseq)
          <5>1. Distance(c.sseq, c.nxt) = Offset(e, c.nxt) - Offset(e, c.sseq)
            BY ONLY <1>o, <2>a, DistanceOf
          <5> QED BY <5>1
        <4> QED BY <4>1, <4>2, <3>3, <1>l
      <3>f. first \in Int
        <4>1. Distance(c.sseq, c.nxt) = Offset(e, c.nxt) - Offset(e, c.sseq)
          BY ONLY <1>o, <2>a, DistanceOf
        <4> QED BY <4>1, <2>a
      <3> HIDE DEF first
      <3> DEFINE data == SubSeq(c.send, first + at + 1, first + at + n)
      <3>7. Carries(e, seq, data, 0, x.mine, c.finq, top) /\ data \in Seq(Bytes)
        <4>1. data = SubSeq(c.send, Distance(c.sseq, seq) + 1,
                            Distance(c.sseq, seq) + n)
          BY <3>6
        <4>2. 0 \in {0, 1} /\ top \in Nat /\ c.state # "Closed"
              /\ (0 = 1 => c.finq /\ Offset(e, seq) + n = x.mine + 1)
          BY <2>10, <1>s
        <4> HIDE DEF data
        <4> QED BY <4>1, <4>2, <3>3, <3>4, <3>5, CarriesBuffered
      <3>8. Part(i) = Segment(seq, c.rcv, {"ACK"}, Window(c), data)
        <4>1. first + at + n = first + Least((i + 1) * Mss, size)
          BY <3>1, <3>2, <3>f, <2>6, <1>m DEF Least, n
        <4> QED BY <4>1, <3>2 DEF seq
      <3> HIDE DEF data
      <3>9. Segment(seq, c.rcv, {"ACK"}, Window(c), data) \in Segments
        BY <3>3, <3>7, <1>l, <1>w DEF Segments, Segment, Flags, Connections
      <3>10. Near(Peer(e), c.rcv) /\ Offset(Peer(e), c.rcv) >= 1
             /\ KnownOf(e, c, x) = Offset(Peer(e), c.rcv)
             /\ Offset(Peer(e), c.rcv) \in Int
        <4>1. TakesRight(e, c, x)
          BY <1>s DEF Sound
        <4>2. x.read \in Nat /\ Bit(c.finr) \in Nat /\ Starts(Peer(e))
          BY DEF Context, Contexts, Bit
        <4>3. Offset(Peer(e), c.rcv) \in Int
          BY <4>1, <4>2, OffsetIs DEF TakesRight, Near
        <4>4. Offset(Peer(e), c.rcv) >= 1
          BY <4>1, <4>2, <1>w DEF TakesRight
        <4>5. c.state # "Closed" /\ c.state # "SynSent"
          BY <1>s
        <4>6. KnownOf(e, c, x) = Offset(Peer(e), c.rcv)
          BY <4>5 DEF KnownOf
        <4>7. Near(Peer(e), c.rcv)
          BY <4>1 DEF TakesRight
        <4> QED BY <4>3, <4>4, <4>6, <4>7
      <3>11. PICK s : s = Segment(seq, c.rcv, {"ACK"}, Window(c), data)
        OBVIOUS
      <3>12. s.flags = {"ACK"} /\ s.seq = seq /\ s.data = data /\ s.ack = c.rcv
        BY <3>11 DEF Segment
      <3>13. Genuine(e, s, x.mine, c.finq, top, KnownOf(e, c, x))
        <4>1. Bit("FIN" \in s.flags) = 0 /\ "SYN" \notin s.flags
          BY <3>12 DEF Bit
        <4>2. Carries(e, s.seq, s.data, Bit("FIN" \in s.flags), x.mine, c.finq, top)
          BY <3>7, <3>12, <4>1
        <4>3. Content(e, s, x.mine, c.finq, top)
          BY <4>1, <4>2 DEF Content
        <4>4. Acks(Peer(e), s, KnownOf(e, c, x))
          BY <3>10, <3>12 DEF Acks
        <4> QED BY <4>3, <4>4 DEF Genuine
      <3> HIDE DEF Part
      <3> QED BY <3>8, <3>9, <3>11, <3>13
    <2> DEFINE parts == {Part(i) : i \in 0 .. (size - 1) \div Mss}
    <2>11. parts \subseteq Segments
           /\ \A s \in parts : Genuine(e, s, x.mine, c.finq, top, KnownOf(e, c, x))
      BY <2>p
    <2> HIDE DEF parts, Part
    <2>12. SendData(c) = [c EXCEPT !.out = @ \cup parts, !.nxt = Plus(@, size),
                                   !.max = Later(@, Plus(c.nxt, size)),
                                   !.adv = Plus(c.rcv, Window(c)),
                                   !.acknow = FALSE, !.timer = TRUE]
      BY <1>0, <1>2 DEF parts
    <2>13. PICK g : g = SendData(c)
      OBVIOUS
    <2>14. Plus(c.rcv, Window(c)) \in Numbers
      BY <1>l, <1>w, PlusIs DEF Connections
    <2>15. /\ g \in Connections /\ SameIntake(c, g) /\ g.state = c.state
           /\ g.failure = c.failure /\ g.connected = c.connected
           /\ g.active = c.active /\ g.finq = c.finq /\ g.iss = c.iss
           /\ g.una = c.una /\ g.sseq = c.sseq /\ g.send = c.send
           /\ g.nxt = Plus(c.nxt, size) /\ g.max = Later(c.max, Plus(c.nxt, size))
           /\ g.cwnd = c.cwnd /\ g.out = c.out \cup parts
      <3>1. /\ Plus(c.nxt, size) \in Numbers /\ c.out \cup parts \in SUBSET Segments
            /\ Later(c.max, Plus(c.nxt, size)) \in Numbers /\ c \in Connections
        BY <2>7, <2>9, <2>11, <1>l DEF Near, Connections
      <3>2. SendsMore(c, g, c.out \cup parts, Plus(c.nxt, size),
                      Later(c.max, Plus(c.nxt, size)), Plus(c.rcv, Window(c)))
        BY <2>12, <2>13 DEF SendsMore
      <3> QED BY <3>1, <3>2, <2>14, SendingShape
    <2>16. SendsRight(e, g, x)
      BY <2>6, <2>7, <2>8, <2>9, <2>10, <2>15, <1>l, <1>s DEF SendsRight, Connecting, top
    <2>17. SentOf(e, g, x) = top /\ SentOf(e, c, x) = Offset(e, c.max)
           /\ KnownOf(e, g, x) = KnownOf(e, c, x)
      BY <2>15, <1>s DEF SentOf, KnownOf, SameIntake, top
    <2>18. Offset(e, g.max) = top /\ Offset(e, c.max) <= Offset(e, g.max)
      BY <2>10, <2>15 DEF top
    <2>19. \A s \in g.out \ c.out :
             Genuine(e, s, x.mine, g.finq, Offset(e, g.max), KnownOf(e, c, x))
      BY <2>11, <2>15, <2>18
    <2>20. c.state \notin {"Closed", "SynSent"} /\ g.state \notin {"Closed", "SynSent"}
      BY <2>15, <1>s
    <2>21. Onward(e, c, g, x)
      BY <2>15, <2>16, <2>18, <2>19, <2>20, StandsOnward
    <2> QED BY <2>21, <2>13, <2>15
  <1> QED BY <1>1, <1>2

(* The order of the numbers of an end that is established.                   *)
LEMMA OrderHolds ==
    ASSUME NEW e \in Ends, NEW x, Context(e, x), NEW c, Sound(e, c, x),
           c.state # "Closed", ~Connecting(c)
    PROVE  /\ Offset(e, c.sseq) >= 1
           /\ Offset(e, c.sseq) <= Offset(e, c.una)
           /\ Offset(e, c.una) <= Offset(e, c.nxt)
           /\ Offset(e, c.nxt) <= Offset(e, c.max)
           /\ Offset(e, c.max) <= x.mine + 1 + Bit(c.finq)
           /\ Offset(e, c.sseq) <= Offset(e, c.nxt)
           /\ c.state \notin {"Closed", "SynSent", "SynReceived"}
           /\ c.cwnd >= 1
  <1>1. SendsRight(e, c, x) /\ x.mine \in Nat /\ Len(c.send) \in 0 .. x.mine
        /\ \A y \in {c.una, c.nxt, c.max, c.sseq} : Offset(e, y) \in Nat
    BY LiveHolds
  <1>2. /\ Offset(e, c.sseq) <= Offset(e, c.una)
        /\ Offset(e, c.una) <= Offset(e, c.nxt)
        /\ Offset(e, c.nxt) <= Offset(e, c.max)
        /\ Offset(e, c.max) <= x.mine + 1 + Bit(c.finq)
        /\ c.cwnd >= 1
    BY <1>1 DEF SendsRight
  <1>3. Offset(e, c.sseq) >= 1
    BY <1>1 DEF SendsRight
  <1>4. c.state \notin {"Closed", "SynSent", "SynReceived"}
    BY DEF Connecting
  <1> QED BY <1>1, <1>2, <1>3, <1>4

(* A segment without data tells the truth wherever its number lies.          *)
LEMMA EmptyCarries ==
    ASSUME NEW e, NEW seq \in Numbers, Near(e, seq), Offset(e, seq) >= 1,
           Starts(e), NEW fin \in {0, 1}, NEW w \in Int, NEW f, NEW to \in Int,
           Offset(e, seq) + fin <= to, fin = 1 => f /\ Offset(e, seq) = w + 1
    PROVE  Carries(e, seq, <<>>, fin, w, f, to)
  <1>1. Offset(e, seq) \in Int
    BY OffsetIs
  <1>2. \A k \in 1 .. Len(<<>>) : FALSE
    OBVIOUS
  <1>3. /\ Offset(e, seq) + Len(<<>>) = Offset(e, seq)
        /\ Offset(e, seq) + Len(<<>>) + fin = Offset(e, seq) + fin
    BY <1>1
  <1> QED BY <1>2, <1>3 DEF Carries

(* The probe of a closed window only arms a timer.                           *)
LEMMA ArmProbeOnward ==
    ASSUME NEW e \in Ends, NEW x, Context(e, x), NEW c, Sound(e, c, x),
           c.state # "Closed"
    PROVE  Onward(e, c, ArmProbe(c), x) /\ ArmProbe(c).state = c.state
  <1>1. CASE ArmProbe(c) = c
    BY <1>1, OnwardSelf
  <1>2. CASE ArmProbe(c) # c
    <2>1. ArmProbe(c) = [c EXCEPT !.timer = TRUE]
      BY <1>2 DEF ArmProbe
    <2>2. PICK d : d = [c EXCEPT !.timer = TRUE]
      OBVIOUS
    <2>3. d \in Connections /\ Alike(c, d) /\ d.out = c.out
      BY <2>2 DEF Sound, Connections, Alike, SameIntake, SameSending
    <2>4. Onward(e, c, d, x)
      BY <2>3, AlikeOnward
    <2> QED BY <2>1, <2>2, <2>3, <2>4 DEF Alike
  <1> QED BY <1>1, <1>2

(* A pure acknowledgement keeps the end sound.                               *)
LEMMA SendAckOnward ==
    ASSUME NEW e \in Ends, NEW x, Context(e, x), NEW c, Sound(e, c, x)
    PROVE  Onward(e, c, SendAck(c), x) /\ SendAck(c).state = c.state
  <1>1. CASE c.acknow /\ Synchronized(c)
    <2>1. c.state # "Closed" /\ ~Connecting(c) /\ c.state # "SynSent"
      BY <1>1 DEF Synchronized, Connecting
    <2>2. c.nxt \in Numbers /\ Near(e, c.nxt) /\ Offset(e, c.nxt) \in Nat
          /\ Offset(e, c.max) \in Nat /\ x.mine \in Nat /\ Starts(e)
      BY <2>1, LiveHolds
    <2>3. Offset(e, c.nxt) >= 1 /\ Offset(e, c.nxt) <= Offset(e, c.max)
      <3>1. Offset(e, c.sseq) >= 1 /\ Offset(e, c.sseq) <= Offset(e, c.nxt)
            /\ Offset(e, c.nxt) <= Offset(e, c.max) /\ Offset(e, c.sseq) \in Nat
        BY <2>1, OrderHolds, LiveHolds
      <3> QED BY <3>1, <2>2
    <2>5. Carries(e, c.nxt, <<>>, 0, x.mine, c.finq, Offset(e, c.max))
      <3>1. Offset(e, c.nxt) + 0 <= Offset(e, c.max)
        BY <2>2, <2>3
      <3> QED BY <3>1, <2>2, <2>3, EmptyCarries
    <2>6. Bit("FIN" \in {"ACK"}) = 0 /\ "SYN" \notin {"ACK"}
      BY DEF Bit
    <2>7. Content(e, Segment(c.nxt, 0, {"ACK"}, 0, <<>>), x.mine, c.finq,
                  Offset(e, c.max))
      BY <2>5, <2>6, ContentOf
    <2>8. {"ACK"} \in SUBSET Flags /\ <<>> \in Seq(Bytes)
      BY DEF Flags
    <2>9. Onward(e, c, Emit(c, c.nxt, {"ACK"}, <<>>), x)
          /\ Alike(c, Emit(c, c.nxt, {"ACK"}, <<>>))
      BY <2>1, <2>2, <2>7, <2>8, EmitOnward
    <2>10. SendAck(c) = Emit(c, c.nxt, {"ACK"}, <<>>)
      BY <1>1 DEF SendAck
    <2> QED BY <2>9, <2>10 DEF Alike
  <1>2. CASE ~(c.acknow /\ Synchronized(c))
    BY <1>2, OnwardSelf DEF SendAck
  <1> QED BY <1>1, <1>2

(* The FIN goes out behind the last byte, and never before it.               *)
LEMMA SendFinOnward ==
    ASSUME NEW e \in Ends, NEW x, Context(e, x), NEW c, Sound(e, c, x),
           Sending(c)
    PROVE  /\ Onward(e, c, SendFin(c), x)
           /\ SendFin(c).state \notin {"Closed", "SynSent", "SynReceived"}
  <1>s. c.state \notin {"Closed", "SynSent", "SynReceived"} /\ ~Connecting(c)
    BY DEF Sending, Connecting
  <1>1. CASE ~(c.finq /\ c.nxt = DataEnd(c))
    BY <1>1, <1>s, OnwardSelf DEF SendFin
  <1>2. CASE c.finq /\ c.nxt = DataEnd(c)
    <2>1. /\ c.nxt \in Numbers /\ Near(e, c.nxt) /\ Starts(e)
          /\ Near(e, c.max) /\ c.max \in Numbers /\ Offset(e, c.max) \in Nat
          /\ x.mine \in Nat /\ Offset(e, c.nxt) = x.mine + 1
          /\ Modulus \in Nat /\ 2 * (x.mine + 2) < Modulus
          /\ c \in Connections /\ SendsRight(e, c, x)
      BY <1>s, <1>2, LiveHolds
    <2>2. Plus(c.nxt, 1) \in Numbers /\ Offset(e, Plus(c.nxt, 1)) = x.mine + 2
      <3>1. Offset(e, c.nxt) + 1 < Modulus /\ 1 \in Nat
        BY <2>1
      <3> QED BY <3>1, <2>1, OffsetOfPlus
    <2>3. Near(e, Plus(c.nxt, 1))
      BY <2>1, <2>2 DEF Near
    <2>4. Bit(c.finq) = 1
      BY <1>2 DEF Bit
    <2>5. Offset(e, c.max) <= x.mine + 2
      BY <2>1, <2>4 DEF SendsRight
    <2>6. /\ Near(e, Later(c.max, Plus(c.nxt, 1)))
          /\ Offset(e, Later(c.max, Plus(c.nxt, 1))) = x.mine + 2
      <3>1. Offset(e, Later(c.max, Plus(c.nxt, 1)))
              = Most(Offset(e, c.max), Offset(e, Plus(c.nxt, 1)))
            /\ Near(e, Later(c.max, Plus(c.nxt, 1)))
        BY <2>1, <2>3, LaterIs
      <3> QED BY <3>1, <2>1, <2>2, <2>5 DEF Most
    <2>7. Carries(e, c.nxt, <<>>, 1, x.mine, c.finq, x.mine + 2)
      <3>1. Offset(e, c.nxt) + 1 <= x.mine + 2 /\ Offset(e, c.nxt) >= 1
            /\ x.mine + 2 \in Int /\ x.mine \in Int
        BY <2>1
      <3> QED BY <3>1, <2>1, <1>2, EmptyCarries
    <2>8. Bit("FIN" \in {"FIN", "ACK"}) = 1 /\ "SYN" \notin {"FIN", "ACK"}
      BY DEF Bit
    <2>9. Content(e, Segment(c.nxt, 0, {"FIN", "ACK"}, 0, <<>>), x.mine, c.finq,
                  x.mine + 2)
      BY <2>7, <2>8, ContentOf
    <2>10. {"FIN", "ACK"} \in SUBSET Flags /\ <<>> \in Seq(Bytes)
           /\ x.mine + 2 \in Int
      BY <2>1 DEF Flags
    <2>t. PICK to \in Int : to = x.mine + 2
      BY <2>10
    <2>u. Content(e, Segment(c.nxt, 0, {"FIN", "ACK"}, 0, <<>>), x.mine, c.finq, to)
      BY <2>9, <2>t
    <2>v. Adds(e, c, Emit(c, c.nxt, {"FIN", "ACK"}, <<>>), to, x)
      BY <1>s, <2>1, <2>u, <2>10, EmitIs
    <2>12. PICK b : b = Emit(c, c.nxt, {"FIN", "ACK"}, <<>>)
      OBVIOUS
    <2>11. PICK s \in Segments :
             /\ Genuine(e, s, x.mine, c.finq, to, KnownOf(e, c, x))
             /\ b \in Connections /\ Alike(c, b) /\ b.out = c.out \cup {s}
      BY <2>v, <2>12 DEF Adds
    <2> DEFINE state == CASE b.state = "Established" -> "FinWait1"
                          [] b.state = "CloseWait" -> "LastAck"
                          [] OTHER -> b.state
    <2>13. /\ b \in Connections /\ Alike(c, b) /\ b.out = c.out \cup {s}
      BY <2>11
    <2>14. state \in States \ {"Closed", "SynSent", "SynReceived"}
      <3>1. b.state \in States \ {"Closed", "SynSent", "SynReceived"}
        BY <2>13, <1>s DEF Alike, Connections
      <3> QED BY <3>1 DEF States
    <2>15. b.nxt = c.nxt /\ b.max = c.max
      BY <2>13 DEF Alike, SameSending
    <2>16. SendFin(c) = [b EXCEPT !.nxt = Plus(c.nxt, 1),
                                  !.max = Later(c.max, Plus(c.nxt, 1)),
                                  !.timer = TRUE, !.state = state]
      BY <1>2, <2>12, <2>15 DEF SendFin
    <2> HIDE DEF state
    <2>17. PICK d : d = SendFin(c)
      OBVIOUS
    <2>18. /\ d \in Connections /\ SameIntake(b, d) /\ d.state = state
           /\ d.failure = b.failure /\ d.connected = b.connected
           /\ d.active = b.active /\ d.finq = b.finq /\ d.iss = b.iss
           /\ d.una = b.una /\ d.sseq = b.sseq /\ d.send = b.send
           /\ d.nxt = Plus(c.nxt, 1) /\ d.max = Later(c.max, Plus(c.nxt, 1))
           /\ d.cwnd = b.cwnd /\ d.out = b.out
      <3>1. Plus(c.nxt, 1) \in Numbers /\ Later(c.max, Plus(c.nxt, 1)) \in Numbers
            /\ state \in States
        BY <2>2, <2>6, <2>14 DEF Near
      <3>2. d = [b EXCEPT !.nxt = Plus(c.nxt, 1),
                          !.max = Later(c.max, Plus(c.nxt, 1)),
                          !.timer = TRUE, !.state = state]
        BY <2>16, <2>17
      <3>3. d \in Connections
        BY <3>1, <3>2, <2>13 DEF Connections
      <3> QED BY <3>2, <3>3, <2>13 DEF Connections, SameIntake
    <2>19. SameIntake(c, d) /\ d.failure = c.failure /\ d.connected = c.connected
           /\ d.active = c.active /\ d.finq = c.finq /\ d.iss = c.iss
           /\ d.una = c.una /\ d.sseq = c.sseq /\ d.send = c.send
           /\ (c.cwnd >= 1 => d.cwnd >= 1) /\ d.out = c.out \cup {s}
      BY <2>13, <2>18 DEF Alike, SameIntake, SameSending
    <2>20. ~Connecting(d) /\ d.state \notin {"Closed", "SynSent", "SynReceived"}
      BY <2>14, <2>18 DEF Connecting
    <2>21. SendsRight(e, d, x)
      <3>1. Offset(e, d.una) <= Offset(e, d.nxt)
        <4>1. Offset(e, c.una) <= Offset(e, c.nxt) /\ Offset(e, c.una) \in Nat
          BY <1>s, OrderHolds, LiveHolds
        <4> QED BY <4>1, <2>1, <2>2, <2>18, <2>19
      <3> QED BY <3>1, <1>s, <2>1, <2>2, <2>3, <2>4, <2>6, <2>18, <2>19, <2>20
              DEF SendsRight
    <2>22. Offset(e, c.max) <= Offset(e, d.max) /\ Offset(e, d.max) = x.mine + 2
      BY <2>5, <2>6, <2>18
    <2>23. Onward(e, c, d, x)
      BY <2>t, <2>11, <2>18, <2>19, <2>20, <2>21, <2>22, <1>s, StandsOnward
    <2> QED BY <2>17, <2>20, <2>23
  <1> QED BY <1>1, <1>2

(* Output as a whole keeps the end sound,                                    *)
LEMMA OutputOnward ==
    ASSUME NEW e \in Ends, NEW x, Context(e, x), NEW c, Sound(e, c, x)
    PROVE  Onward(e, c, Output(c), x)
  <1>1. CASE Sending(c)
    <2> DEFINE b == SendData(c)
               d == SendFin(b)
               f == ArmProbe(d)
    <2>1. Onward(e, c, b, x) /\ b.state = c.state /\ Sound(e, b, x)
      BY <1>1, SendDataOnward DEF Onward
    <2>2. Sending(b)
      BY <2>1, <1>1 DEF Sending
    <2> HIDE DEF b
    <2>3. Onward(e, b, d, x) /\ Sound(e, d, x)
      BY <2>1, <2>2, SendFinOnward DEF Onward
    <2>a. d.state # "Closed"
      BY <2>2, <2>3 DEF Onward, SameStanding, Sending
    <2> HIDE DEF d
    <2>4. Onward(e, d, f, x) /\ Sound(e, f, x)
      BY <2>3, <2>a, ArmProbeOnward DEF Onward
    <2> HIDE DEF f
    <2>5. Onward(e, f, SendAck(f), x)
      BY <2>4, SendAckOnward
    <2>6. Onward(e, c, d, x)
      BY <2>1, <2>3, OnwardOn
    <2>7. Onward(e, c, f, x)
      BY <2>6, <2>4, OnwardOn
    <2>8. Onward(e, c, SendAck(f), x)
      BY <2>7, <2>5, OnwardOn
    <2> QED BY <2>8, <1>1 DEF Output, f, d, b
  <1>2. CASE ~Sending(c)
    BY <1>2, SendAckOnward DEF Output
  <1> QED BY <1>1, <1>2

(* and so does an acknowledgement that is sent at once.                      *)
LEMMA AckNowOnward ==
    ASSUME NEW e \in Ends, NEW x, Context(e, x), NEW c, Sound(e, c, x)
    PROVE  Onward(e, c, AckNow(c), x)
  <1>1. PICK d : d = [c EXCEPT !.acknow = TRUE]
    OBVIOUS
  <1>2. d \in Connections /\ Alike(c, d) /\ d.out = c.out
    BY <1>1 DEF Sound, Connections, Alike, SameIntake, SameSending
  <1>3. Onward(e, c, d, x) /\ Sound(e, d, x)
    BY <1>2, AlikeOnward DEF Onward
  <1>4. Onward(e, d, Output(d), x)
    BY <1>3, OutputOnward
  <1>5. Onward(e, c, Output(d), x)
    BY <1>3, <1>4, OnwardOn
  <1> QED BY <1>1, <1>5 DEF AckNow

-----------------------------------------------------------------------------
(* Resending.                                                                *)

LEMMA ResendFits ==
    ASSUME NEW e \in Ends, NEW x, Context(e, x), NEW c, Sound(e, c, x),
           c.state # "Closed", ~Connecting(c)
    PROVE  /\ ResendSize(c) \in Nat /\ ResendLength(c) \in Nat
           /\ Offset(e, c.una) + ResendLength(c) <= Offset(e, c.max)
           /\ ResendLength(c) = ResendSize(c) + Bit(ResendFin(c))
           /\ Offset(e, c.una) + ResendSize(c) <= x.mine + 1 \/ ResendLength(c) = 0
           /\ ResendFin(c) => c.finq /\ Offset(e, c.una) + ResendSize(c) = x.mine + 1
  <1>1. /\ \A y \in {c.una, c.nxt, c.max, c.sseq} :
             Near(e, y) /\ y \in Numbers /\ Offset(e, y) \in Nat
        /\ Near(e, DataEnd(c)) /\ DataEnd(c) \in Numbers
        /\ Offset(e, DataEnd(c)) = x.mine + 1
        /\ Modulus \in Nat /\ 2 * (x.mine + 2) < Modulus /\ Starts(e)
        /\ x.mine \in Nat /\ Bit(c.finq) \in {0, 1}
    BY LiveHolds
  <1>2. Offset(e, c.una) <= Offset(e, c.max)
        /\ Offset(e, c.max) <= x.mine + 1 + Bit(c.finq)
    <2>1. Offset(e, c.una) <= Offset(e, c.nxt) /\ Offset(e, c.nxt) <= Offset(e, c.max)
          /\ Offset(e, c.max) <= x.mine + 1 + Bit(c.finq)
      BY OrderHolds
    <2> QED BY <2>1, <1>1
  <1>3. PICK u \in Nat, m \in Nat, s \in Nat :
          u = Offset(e, c.una) /\ m = Offset(e, c.max) /\ s = ResendSize(c)
          /\ u + s <= m /\ (s = 0 \/ u + s <= x.mine + 1)
    <2>1. CASE ~Unsettled(c)
      <3>1. ResendSize(c) = 0
        BY <2>1 DEF ResendSize
      <3> QED BY <3>1, <1>1, <1>2
    <2>2. CASE Unsettled(c)
      <3>1. Offset(e, c.una) < x.mine + 1
        BY <2>2, <1>1, BeforeIs DEF Unsettled
      <3>2. PICK y \in {DataEnd(c), c.max} :
              y = (IF Before(DataEnd(c), c.max) THEN DataEnd(c) ELSE c.max)
        OBVIOUS
      <3>3. Offset(e, y) <= Offset(e, c.max) /\ Offset(e, y) <= x.mine + 1
            /\ Offset(e, c.una) <= Offset(e, y)
            /\ y \in Numbers /\ Offset(e, y) \in Nat
        <4>1. Before(DataEnd(c), c.max) <=> Offset(e, DataEnd(c)) < Offset(e, c.max)
          BY <1>1, BeforeIs
        <4>2. CASE Before(DataEnd(c), c.max)
          BY <4>1, <4>2, <3>1, <3>2, <1>1, <1>2
        <4>3. CASE ~Before(DataEnd(c), c.max)
          BY <4>1, <4>3, <3>1, <3>2, <1>1, <1>2
        <4> QED BY <4>2, <4>3
      <3>4. Distance(c.una, y) = Offset(e, y) - Offset(e, c.una)
        BY <3>3, <1>1, DistanceOf
      <3>5. ResendSize(c) = Least(Mss, Distance(c.una, y))
        BY <2>2, <3>2 DEF ResendSize
      <3>6. Mss \in Nat /\ Distance(c.una, y) \in Nat
        BY <3>3, <3>4, <1>1, ModulusHolds
      <3>7. ResendSize(c) \in Nat /\ ResendSize(c) <= Distance(c.una, y)
        BY <3>5, <3>6 DEF Least
      <3> QED BY <3>3, <3>4, <3>7, <1>1
    <2> QED BY <2>1, <2>2
  <1>4. ResendLength(c) = s + Bit(ResendFin(c)) /\ Bit(ResendFin(c)) \in {0, 1}
    BY <1>3 DEF ResendLength, Bit
  <1>5. CASE ResendFin(c)
    <2>1. c.finq /\ Plus(c.una, s) = DataEnd(c) /\ Before(DataEnd(c), c.max)
      BY <1>3, <1>5 DEF ResendFin
    <2>2. x.mine + 1 < m
      BY <2>1, <1>1, <1>3, BeforeIs
    <2>3. c.una \in Numbers /\ u + s < Modulus
      BY <1>1, <1>2, <1>3
    <2>4. Offset(e, Plus(c.una, s)) = u + s
      BY <2>3, <1>1, <1>3, OffsetOfPlus
    <2>5. u + s = x.mine + 1
      BY <2>1, <2>4, <1>1
    <2>6. Bit(ResendFin(c)) = 1
      BY <1>5 DEF Bit
    <2> QED BY <2>1, <2>2, <2>5, <2>6, <1>1, <1>3, <1>4
  <1>6. CASE ~ResendFin(c)
    <2>1. Bit(ResendFin(c)) = 0
      BY <1>6 DEF Bit
    <2> QED BY <2>1, <1>1, <1>3, <1>4, <1>6
  <1> QED BY <1>5, <1>6

(* A segment sent again is a part of what was sent.                          *)
LEMMA ResendOnward ==
    ASSUME NEW e \in Ends, NEW x, Context(e, x), NEW c, Sound(e, c, x),
           c.state # "Closed", ~Connecting(c)
    PROVE  Onward(e, c, Resend(c), x) /\ Alike(c, Resend(c))
  <1>1. CASE ResendLength(c) = 0
    <2>1. Alike(c, c)
      BY DEF Alike, SameIntake, SameSending
    <2> QED BY <1>1, <2>1, OnwardSelf DEF Resend
  <1>2. CASE ResendLength(c) # 0
    <2>1. c.una \in Numbers /\ Near(e, c.una) /\ Offset(e, c.una) \in Nat
          /\ Offset(e, c.max) \in Nat /\ c \in Connections /\ x.mine \in Nat
          /\ c.state # "SynSent" /\ Offset(e, c.sseq) <= Offset(e, c.una)
      BY LiveHolds, OrderHolds
    <2>2. PICK size \in Nat : size = ResendSize(c)
      BY ResendFits
    <2>3. PICK fin \in {0, 1} : fin = Bit(ResendFin(c))
      BY DEF Bit
    <2>4. /\ Offset(e, c.una) + size <= x.mine + 1
          /\ fin = 1 => c.finq /\ Offset(e, c.una) + size = x.mine + 1
          /\ Offset(e, c.una) + size + fin <= Offset(e, c.max)
      <3>1. /\ ResendLength(c) \in Nat
            /\ Offset(e, c.una) + ResendLength(c) <= Offset(e, c.max)
            /\ ResendLength(c) = size + fin
            /\ Offset(e, c.una) + size <= x.mine + 1
            /\ ResendFin(c) => c.finq /\ Offset(e, c.una) + size = x.mine + 1
        BY <1>2, <2>2, <2>3, ResendFits
      <3>2. fin = 1 => ResendFin(c)
        BY <2>3 DEF Bit
      <3> QED BY <3>1, <3>2, <2>1
    <2>5. PICK data : data = SubSeq(c.send, Distance(c.sseq, c.una) + 1,
                                    Distance(c.sseq, c.una) + size)
      OBVIOUS
    <2>6. Carries(e, c.una, data, fin, x.mine, c.finq, Offset(e, c.max))
          /\ data \in Seq(Bytes)
      BY <2>1, <2>4, <2>5, CarriesBuffered
    <2>7. PICK flags : flags = {"ACK"} \cup (IF ResendFin(c) THEN {"FIN"} ELSE {})
      OBVIOUS
    <2>8. flags \in SUBSET Flags /\ "SYN" \notin flags /\ Bit("FIN" \in flags) = fin
      BY <2>3, <2>7 DEF Flags, Bit
    <2>9. Content(e, Segment(c.una, 0, flags, 0, data), x.mine, c.finq,
                  Offset(e, c.max))
      BY <2>6, <2>8, ContentOf
    <2>10. PICK b : b = Emit(c, c.una, flags, data)
      OBVIOUS
    <2>11. Onward(e, c, b, x) /\ Alike(c, b)
      BY <2>1, <2>6, <2>8, <2>9, <2>10, EmitOnward
    <2>12. PICK d : d = [b EXCEPT !.timer = TRUE]
      OBVIOUS
    <2>13. Resend(c) = d
      BY <1>2, <2>2, <2>5, <2>7, <2>10, <2>12 DEF Resend
    <2>14. d \in Connections /\ Alike(b, d) /\ d.out = b.out /\ Sound(e, b, x)
      BY ZenonT(60), <2>11, <2>12 DEF Onward, Sound, Connections, Alike, SameIntake, SameSending
    <2>15. Onward(e, b, d, x)
      BY <2>14, AlikeOnward
    <2>16. Onward(e, c, d, x)
      BY <2>11, <2>15, OnwardOn
    <2>17. Alike(c, d)
      BY <2>11, <2>14 DEF Alike, SameIntake, SameSending
    <2> QED BY <2>13, <2>16, <2>17
  <1> QED BY <1>1, <1>2

-----------------------------------------------------------------------------
(* The end of a connection.                                                  *)

(* What any call makes of a connection.                                      *)
Moves(e, c, d, x) ==
    /\ Sound(e, d, x) /\ Follows(e, c, d, x)
    /\ EndKnown(c, x) => EndKnown(d, x)

(* A step that takes nothing from the peer is a step.                        *)
LEMMA OnwardMoves ==
    ASSUME NEW e, NEW x, NEW c, NEW d, Onward(e, c, d, x)
    PROVE  Moves(e, c, d, x)
  BY DEF Onward, Moves, SameIntake, SameStanding, EndKnown

(* Standing still is a step,                                                 *)
LEMMA MovesSelf ==
    ASSUME NEW e \in Ends, NEW x, Context(e, x), NEW c, Sound(e, c, x)
    PROVE  Moves(e, c, c, x)
  BY OnwardSelf, OnwardMoves

(* and two steps are one.                                                    *)
LEMMA MovesOn ==
    ASSUME NEW e \in Ends, NEW x, Context(e, x), NEW b, NEW c, NEW d,
           Sound(e, b, x), Moves(e, b, c, x), Moves(e, c, d, x)
    PROVE  Moves(e, b, d, x)
  <1>1. Follows(e, b, d, x)
    BY FollowsOn DEF Moves
  <1> QED BY <1>1 DEF Moves

(* An end that is not closed tells the guest of the end of the stream only   *)
(* when all of it has come.                                                  *)
LEMMA LiveEndKnown ==
    ASSUME NEW e, NEW x, NEW c, Sound(e, c, x), c.state # "Closed"
    PROVE  EndKnown(c, x)
  BY DEF Sound, TakesRight, TakesNothing, EndKnown

(* A closed connection has what it put out and what is left to read.         *)
LEMMA ClosedSound ==
    ASSUME NEW e \in Ends, NEW x, Context(e, x), NEW c, Sound(e, c, x),
           NEW d \in Connections, d.state = "Closed", ~d.timer, d.finq = c.finq,
           d.connected = c.connected, d.finr = c.finr, d.out \subseteq c.out,
           d.recv \in {<<>>, c.recv}
    PROVE  Sound(e, d, x) /\ Follows(e, c, d, x)
  <1>1. SentOf(e, d, x) = x.mine + 1 + Bit(c.finq) /\ KnownOf(e, d, x) = x.sent
    BY DEF SentOf, KnownOf
  <1>2. /\ SentOf(e, c, x) \in Nat /\ KnownOf(e, c, x) \in Nat
        /\ SentOf(e, c, x) <= x.mine + 1 + Bit(c.finq)
        /\ KnownOf(e, c, x) <= x.sent
    BY BoundsHold
  <1>3. x.mine + 1 + Bit(c.finq) \in Int /\ x.sent \in Int /\ x.read \in Nat
        /\ x.theirs \in Nat /\ Starts(e) /\ Starts(Peer(e))
    BY DEF Context, Contexts, Bit
  <1>4. ASSUME NEW s \in d.out
        PROVE  Genuine(e, s, x.mine, d.finq, SentOf(e, d, x), KnownOf(e, d, x))
    <2>1. Genuine(e, s, x.mine, c.finq, SentOf(e, c, x), KnownOf(e, c, x))
          /\ s \in Segments
      BY DEF Sound, PutsOut, Connections
    <2>2. SentOf(e, d, x) \in Int /\ KnownOf(e, d, x) \in Int
          /\ SentOf(e, c, x) \in Int /\ KnownOf(e, c, x) \in Int
          /\ SentOf(e, c, x) <= SentOf(e, d, x) /\ KnownOf(e, c, x) <= KnownOf(e, d, x)
      BY <1>1, <1>2, <1>3
    <2>3. Genuine(e, s, x.mine, c.finq, SentOf(e, d, x), KnownOf(e, d, x))
      BY <2>1, <2>2, <1>3, GenuineGrows
    <2> QED BY <2>3
  <1>5. Readable(d, x)
    <2>1. CASE d.recv = c.recv
      BY <2>1 DEF Sound, Readable
    <2>2. CASE d.recv = <<>>
      <3>1. x.read <= x.theirs
        <4>1. Len(c.recv) \in Nat /\ x.read + Len(c.recv) <= x.theirs
          BY DEF Sound, Readable, Connections
        <4> QED BY <4>1, <1>3
      <3>2. Len(d.recv) = 0 /\ 0 <= Buffer
        BY <2>2, ModulusHolds
      <3> QED BY <3>1, <3>2, <1>3 DEF Readable
    <2> QED BY <2>1, <2>2
  <1>6. Sound(e, d, x)
    BY <1>4, <1>5 DEF Sound, PutsOut
  <1> QED BY <1>1, <1>2, <1>6 DEF Follows

(* The fields of a connection that has ended.                                *)
LEMMA EndedShape ==
    ASSUME NEW c \in Connections, NEW failure \in Failures
    PROVE  /\ Ended(c, failure) \in Connections
           /\ Ended(c, failure).state = "Closed"
           /\ Ended(c, failure).failure = failure
           /\ Ended(c, failure).connected = c.connected
           /\ Ended(c, failure).finq = c.finq /\ Ended(c, failure).finr = c.finr
           /\ Ended(c, failure).out = c.out /\ Ended(c, failure).recv = <<>>
           /\ ~Ended(c, failure).timer
  <1>1. Blank \in Connections /\ Blank.state = "Closed" /\ Blank.recv = <<>>
        /\ ~Blank.timer
    <2>1. 0 \in Numbers /\ <<>> \in Seq(Bytes) /\ {} \in SUBSET Segments
          /\ {} \in SUBSET Pieces /\ 0 \in Nat
      BY ModulusHolds DEF Numbers
    <2> QED BY <2>1 DEF Blank, Connections, States, Failures
  <1>2. PICK b : b = Blank
    OBVIOUS
  <1>3. PICK d : d = [b EXCEPT !.failure = failure, !.connected = c.connected,
                               !.finq = c.finq, !.finr = c.finr, !.out = c.out]
    OBVIOUS
  <1>4. d = Ended(c, failure)
    BY <1>2, <1>3 DEF Ended
  <1>5. d \in Connections
    BY ZenonT(60), <1>1, <1>2, <1>3 DEF Connections
  <1>6. b \in Connections /\ b.state = "Closed" /\ b.recv = <<>> /\ ~b.timer
    BY <1>1, <1>2
  <1>7. /\ d.state = b.state /\ d.recv = b.recv /\ d.failure = failure
        /\ d.timer = b.timer
        /\ d.connected = c.connected /\ d.finq = c.finq /\ d.finr = c.finr
        /\ d.out = c.out
    BY <1>3, <1>6 DEF Connections
  <1> QED BY <1>4, <1>5, <1>6, <1>7

(* Connection::Fail closes the end and leaves its guest nothing false.       *)
LEMMA FailMoves ==
    ASSUME NEW e \in Ends, NEW x, Context(e, x), NEW c, Sound(e, c, x),
           NEW failure \in Failures
    PROVE  /\ Sound(e, Fail(c, failure), x) /\ Follows(e, c, Fail(c, failure), x)
           /\ failure # "None" \/ ~c.connected => EndKnown(Fail(c, failure), x)
           /\ Fail(c, failure).state = "Closed"
  <1>1. PICK d : d = Fail(c, failure)
    OBVIOUS
  <1>2. /\ d \in Connections /\ d.state = "Closed" /\ d.failure = failure
        /\ d.connected = c.connected /\ d.finq = c.finq /\ d.finr = c.finr
        /\ d.out = c.out /\ d.recv = <<>> /\ ~d.timer
    BY <1>1, EndedShape DEF Fail, Sound
  <1>3. Sound(e, d, x) /\ Follows(e, c, d, x)
    BY <1>2, ClosedSound
  <1> QED BY <1>1, <1>2, <1>3 DEF EndKnown

(* The end of TIME-WAIT likewise.                                            *)
LEMMA LeaveMoves ==
    ASSUME NEW e \in Ends, NEW x, Context(e, x), NEW c, Sound(e, c, x)
    PROVE  Moves(e, c, Leave(c), x) /\ Leave(c).state = "Closed"
  <1>1. PICK b : b = Ended(c, c.failure)
    OBVIOUS
  <1>2. c \in Connections /\ c.failure \in Failures
    BY DEF Sound, Connections
  <1>3. /\ b \in Connections /\ b.state = "Closed" /\ b.failure = c.failure
        /\ b.connected = c.connected /\ b.finq = c.finq /\ b.finr = c.finr
        /\ b.out = c.out /\ ~b.timer
    BY <1>1, <1>2, EndedShape
  <1>4. PICK d : d = [b EXCEPT !.recv = c.recv]
    OBVIOUS
  <1>5. /\ d \in Connections /\ d.state = "Closed" /\ d.failure = c.failure
        /\ d.connected = c.connected /\ d.finq = c.finq /\ d.finr = c.finr
        /\ d.out = c.out /\ d.recv = c.recv /\ ~d.timer
    BY <1>2, <1>3, <1>4 DEF Connections
  <1>6. Sound(e, d, x) /\ Follows(e, c, d, x)
    BY <1>5, ClosedSound
  <1>7. d = Leave(c)
    BY <1>1, <1>4 DEF Leave
  <1> QED BY <1>5, <1>6, <1>7 DEF Moves, EndKnown

-----------------------------------------------------------------------------
(* Receiving an acknowledgement.                                             *)

(* A connection whose next step takes an acknowledgement: it is established, *)
(* and what it has of its handshake may still be unacknowledged.             *)
Poised(e, c, x) ==
    /\ c \in Connections /\ Readable(c, x) /\ PutsOut(e, c, x)
    /\ c.state \notin {"Closed", "SynSent", "SynReceived"}
    /\ TakesRight(e, c, x)
    /\ c.iss = Start(e)
    /\ Near(e, c.una) /\ Near(e, c.nxt) /\ Near(e, c.max) /\ Near(e, c.sseq)
    /\ Len(c.send) <= x.mine
    /\ Offset(e, c.sseq) = 1 + x.mine - Len(c.send)
    /\ \A k \in 1 .. Len(c.send) :
         c.send[k] = Tagged(1, Offset(e, c.sseq) - 1 + k)
    /\ Offset(e, c.nxt) <= Offset(e, c.max)
    /\ Offset(e, c.max) <= x.mine + 1 + Bit(c.finq)
    /\ c.connected /\ c.cwnd >= 1

(* An acknowledgement of something that was sent.                            *)
Acceptable(e, c, ack, x) ==
    /\ Near(e, ack) /\ Offset(e, ack) >= 1
    /\ Offset(e, ack) <= Offset(e, c.max) /\ Offset(e, ack) <= x.known

(* A sound end can take an acknowledgement.                                  *)
LEMMA SoundPoised ==
    ASSUME NEW e \in Ends, NEW x, Context(e, x), NEW c, Sound(e, c, x),
           c.state # "Closed", ~Connecting(c)
    PROVE  Poised(e, c, x)
  BY OrderHolds DEF Sound, SendsRight, Poised, Connecting

(* The growth of the congestion window is at least a byte.                   *)
LEMMA GrowthIs ==
    ASSUME NEW a \in Nat, NEW b \in Nat, b >= 1
    PROVE  Most(1, a \div b) \in Nat /\ Most(1, a \div b) >= 1
  <1>1. a \div b \in Int
    OBVIOUS
  <1> QED BY <1>1 DEF Most

(* A connection whose acknowledged part has moved on.                        *)
AdvanceTo(c, d, send, sseq, una, nxt, cwnd, timer) ==
    d = [c EXCEPT !.send = send, !.sseq = sseq, !.una = una, !.nxt = nxt,
                  !.dups = 0, !.retries = 0, !.cwnd = cwnd, !.timer = timer]

(* The fields of such a connection.                                          *)
LEMMA AdvanceShape ==
    ASSUME NEW c \in Connections, NEW send \in Seq(Bytes), NEW sseq \in Numbers,
           NEW una \in Numbers, NEW nxt \in Numbers, NEW cwnd \in Nat,
           NEW timer \in BOOLEAN, NEW d,
           AdvanceTo(c, d, send, sseq, una, nxt, cwnd, timer)
    PROVE  /\ d \in Connections /\ SameIntake(c, d) /\ d.state = c.state
           /\ d.failure = c.failure /\ d.connected = c.connected
           /\ d.active = c.active /\ d.finq = c.finq /\ d.iss = c.iss
           /\ d.una = una /\ d.sseq = sseq /\ d.send = send
           /\ d.nxt = nxt /\ d.max = c.max /\ d.cwnd = cwnd /\ d.out = c.out
  <1>1. d \in Connections
    BY ZenonT(60) DEF AdvanceTo, Connections
  <1> QED BY SMTT(30), <1>1 DEF AdvanceTo, Connections, SameIntake

(* An acknowledgement releases no more of the send buffer than it covers.    *)
LEMMA ReleasesFit ==
    ASSUME NEW e, Starts(e), NEW c \in Connections, NEW ack,
           Near(e, ack), Near(e, c.sseq), Offset(e, c.sseq) <= Offset(e, ack)
    PROVE  /\ Releases(c, ack) \in 0 .. Len(c.send)
           /\ Offset(e, c.sseq) + Releases(c, ack) <= Offset(e, ack)
  <1>1. Len(c.send) \in Nat /\ Offset(e, c.sseq) \in Nat /\ Offset(e, ack) \in Nat
        /\ ack \in Numbers /\ c.sseq \in Numbers
    BY OffsetIs DEF Connections, Near
  <1>2. CASE Before(c.sseq, ack)
    <2>1. Releases(c, ack) = Least(Distance(c.sseq, ack), Len(c.send))
      BY <1>2 DEF Releases
    <2>2. Distance(c.sseq, ack) = Offset(e, ack) - Offset(e, c.sseq)
      BY <1>1, DistanceOf
    <2> QED BY <2>1, <2>2, <1>1 DEF Least
  <1>3. CASE ~Before(c.sseq, ack)
    <2>1. Releases(c, ack) = 0
      BY <1>3 DEF Releases
    <2> QED BY <2>1, <1>1
  <1> QED BY <1>2, <1>3

(* A new acknowledgement moves una on and releases what it covers.           *)
LEMMA AdvanceOnward ==
    ASSUME NEW e \in Ends, NEW x, Context(e, x), NEW c, Poised(e, c, x),
           NEW ack, Acceptable(e, c, ack, x), Offset(e, c.sseq) <= Offset(e, ack)
    PROVE  Onward(e, c, Advance(c, ack), x) /\ Advance(c, ack).state = c.state
  <1>1. /\ c \in Connections /\ c.send \in Seq(Bytes) /\ Len(c.send) \in Nat
        /\ Starts(e) /\ x.mine \in Nat /\ ack \in Numbers /\ Near(e, ack)
        /\ Modulus \in Nat /\ 2 * (x.mine + 2) < Modulus
        /\ Len(c.send) <= x.mine
    <2>1. c \in Connections /\ Len(c.send) <= x.mine
      BY DEF Poised
    <2>2. c.send \in Seq(Bytes) /\ Len(c.send) \in Nat
      BY <2>1 DEF Connections
    <2>3. Starts(e) /\ x.mine \in Nat /\ 2 * (x.mine + 2) < Modulus
      BY DEF Context, Contexts
    <2>4. ack \in Numbers /\ Near(e, ack)
      BY DEF Acceptable, Near
    <2> QED BY <2>1, <2>2, <2>3, <2>4, ModulusHolds
  <1>2. \A y \in {c.una, c.nxt, c.max, c.sseq, ack} :
          y \in Numbers /\ Offset(e, y) \in Nat
    BY <1>1, OffsetIs DEF Poised, Near
  <1>3. PICK acked \in 0 .. Len(c.send) :
          acked = Releases(c, ack) /\ Offset(e, c.sseq) + acked <= Offset(e, ack)
    BY <1>1, ReleasesFit DEF Poised
  <1>4. Offset(e, c.sseq) = 1 + x.mine - Len(c.send)
    BY DEF Poised
  <1>5. PICK send : send = SubSeq(c.send, acked + 1, Len(c.send))
    OBVIOUS
  <1>6. /\ send \in Seq(Bytes) /\ Len(send) = Len(c.send) - acked
        /\ \A k \in 1 .. Len(send) : send[k] = c.send[acked + k]
    <2>1. PICK a \in Nat : a = acked + 1
      BY <1>1
    <2>2. /\ send \in Seq(Bytes)
          /\ Len(send) = IF a <= Len(c.send) THEN Len(c.send) - a + 1 ELSE 0
          /\ \A k \in 1 .. Len(send) : send[k] = c.send[a + k - 1]
      BY <2>1, <1>1, <1>5, SubSeqIs
    <2>3. \A k \in 1 .. Len(send) : a + k - 1 = acked + k
      BY <2>1, <2>2, <1>1
    <2> QED BY SMTT(30), <2>1, <2>2, <2>3, <1>1
  <1>7. PICK sseq \in Numbers : sseq = Plus(c.sseq, acked)
          /\ Offset(e, sseq) = Offset(e, c.sseq) + acked
    <2>1. Offset(e, c.sseq) + acked < Modulus /\ acked \in Nat
      BY SMTT(30), <1>1, <1>2, <1>4
    <2> QED BY <2>1, <1>1, <1>2, OffsetOfPlus
  <1>8. Near(e, sseq)
    BY <1>1, <1>2, <1>3, <1>4, <1>7 DEF Near
  <1>9. PICK nxt \in Numbers :
          /\ nxt = Later(c.nxt, ack) /\ Near(e, nxt)
          /\ Offset(e, nxt) <= Offset(e, c.max) /\ Offset(e, ack) <= Offset(e, nxt)
    <2>1. Near(e, c.nxt) /\ Near(e, ack) /\ Offset(e, c.nxt) <= Offset(e, c.max)
          /\ Offset(e, ack) <= Offset(e, c.max)
      BY DEF Poised, Acceptable
    <2>2. /\ Near(e, Later(c.nxt, ack))
          /\ Offset(e, Later(c.nxt, ack)) = Most(Offset(e, c.nxt), Offset(e, ack))
      BY <2>1, <1>1, LaterIs
    <2>3. Later(c.nxt, ack) \in Numbers
      BY <2>2 DEF Near
    <2> QED BY <2>1, <2>2, <2>3, <1>2 DEF Most
  <1>10. PICK growth \in Nat : growth >= 1
           /\ growth = (IF c.cwnd < c.ssthresh THEN Mss
                        ELSE Most(1, (Mss * Mss) \div c.cwnd))
    <2>1. Mss \in Nat /\ Mss >= 1 /\ Mss * Mss \in Nat /\ c.cwnd \in Nat /\ c.cwnd >= 1
      BY <1>1, ModulusHolds DEF Poised, Connections
    <2> QED BY <2>1, GrowthIs
  <1>11. PICK cwnd \in Nat : cwnd >= 1 /\ cwnd = Least(c.cwnd + growth, Buffer)
    <2>1. c.cwnd \in Nat /\ Buffer \in Nat /\ Buffer >= 1
      BY <1>1, ModulusHolds DEF Connections
    <2> QED BY <2>1, <1>10 DEF Least
  <1>12. PICK timer \in BOOLEAN : timer = (ack # c.max)
    OBVIOUS
  <1>13. PICK d : d = Advance(c, ack)
    OBVIOUS
  <1>14. AdvanceTo(c, d, send, sseq, ack, nxt, cwnd, timer)
    BY <1>3, <1>5, <1>7, <1>9, <1>10, <1>11, <1>12, <1>13 DEF Advance, AdvanceTo
  <1>15. /\ d \in Connections /\ SameIntake(c, d) /\ d.state = c.state
         /\ d.failure = c.failure /\ d.connected = c.connected
         /\ d.active = c.active /\ d.finq = c.finq /\ d.iss = c.iss
         /\ d.una = ack /\ d.sseq = sseq /\ d.send = send
         /\ d.nxt = nxt /\ d.max = c.max /\ d.cwnd = cwnd /\ d.out = c.out
    BY <1>1, <1>6, <1>14, AdvanceShape
  <1>16. ~Connecting(d) /\ d.state \notin {"Closed", "SynSent", "SynReceived"}
    BY <1>15 DEF Poised, Connecting
  <1>17. SendsRight(e, d, x)
    <2>1. Len(d.send) <= x.mine /\ Offset(e, d.sseq) = 1 + x.mine - Len(d.send)
      <3>1. Offset(e, sseq) = Offset(e, c.sseq) + acked /\ Len(send) = Len(c.send) - acked
            /\ acked \in Nat /\ acked <= Len(c.send)
        BY <1>1, <1>6, <1>7
      <3>2. Offset(e, c.sseq) = 1 + x.mine - Len(c.send) /\ Len(c.send) <= x.mine
        BY <1>1, <1>4
      <3>3. Len(send) <= x.mine /\ Offset(e, sseq) = 1 + x.mine - Len(send)
        BY SMTT(30), <3>1, <3>2, <1>1
      <3> QED BY <3>3, <1>15
    <2>2. ASSUME NEW k \in 1 .. Len(d.send)
          PROVE  d.send[k] = Tagged(1, Offset(e, d.sseq) - 1 + k)
      <3>1. acked + k \in 1 .. Len(c.send) /\ k \in Nat
        BY <1>1, <1>6, <1>15
      <3>2. c.send[acked + k] = Tagged(1, Offset(e, c.sseq) - 1 + (acked + k))
        BY <3>1 DEF Poised
      <3>3. Offset(e, c.sseq) - 1 + (acked + k) = Offset(e, d.sseq) - 1 + k
        BY <1>2, <1>7, <1>15, <3>1
      <3> QED BY <3>2, <3>3, <1>6, <1>15
    <2>3. Offset(e, d.sseq) <= Offset(e, d.una) /\ d.cwnd >= 1 /\ d.connected
      BY <1>3, <1>7, <1>11, <1>15 DEF Poised
    <2>4. /\ d.iss = Start(e) /\ Near(e, d.una) /\ Near(e, d.nxt)
          /\ Near(e, d.max) /\ Near(e, d.sseq)
          /\ Offset(e, d.una) <= Offset(e, d.nxt)
          /\ Offset(e, d.nxt) <= Offset(e, d.max)
          /\ Offset(e, d.max) <= x.mine + 1 + Bit(d.finq)
          /\ Offset(e, d.una) <= x.known
      BY <1>1, <1>8, <1>9, <1>15 DEF Poised, Acceptable
    <2> QED BY <2>1, <2>2, <2>3, <2>4, <1>16 DEF SendsRight
  <1>18. Sound(e, d, x)
    <2>1. SentOf(e, d, x) = SentOf(e, c, x) /\ KnownOf(e, d, x) = KnownOf(e, c, x)
      BY <1>15, <1>16 DEF SentOf, KnownOf, SameIntake
    <2>2. PutsOut(e, d, x)
      BY <2>1, <1>15 DEF Poised, PutsOut
    <2>3. Readable(d, x) /\ TakesRight(e, d, x)
      BY <1>15 DEF Poised, SameIntake, Readable, TakesRight
    <2> QED BY <2>2, <2>3, <1>15, <1>16, <1>17 DEF Sound
  <1>19. Follows(e, c, d, x)
    <2>1. SentOf(e, d, x) = SentOf(e, c, x) /\ KnownOf(e, d, x) = KnownOf(e, c, x)
      BY <1>15, <1>16 DEF SentOf, KnownOf, SameIntake
    <2>2. SentOf(e, d, x) \in Int /\ KnownOf(e, d, x) \in Int
      BY <1>18, BoundsHold
    <2> QED BY <2>1, <2>2, <1>15 DEF Follows
  <1>20. Onward(e, c, d, x)
    BY <1>15, <1>18, <1>19 DEF Onward, SameStanding
  <1> QED BY <1>13, <1>15, <1>20

(* An acknowledgement and a step after it are one step.                      *)
LEMMA PoisedOn ==
    ASSUME NEW e \in Ends, NEW x, Context(e, x), NEW b, NEW c, NEW d,
           Poised(e, b, x), Onward(e, b, c, x), Onward(e, c, d, x)
    PROVE  Onward(e, b, d, x)
  <1>1. SentOf(e, c, x) \in Int /\ KnownOf(e, c, x) \in Int
        /\ SentOf(e, d, x) \in Int /\ KnownOf(e, d, x) \in Int
    BY BoundsHold DEF Onward
  <1>2. Near(e, b.max) /\ Near(Peer(e), b.rcv) /\ Starts(e) /\ Starts(Peer(e))
        /\ b.state \notin {"Closed", "SynSent"}
    BY DEF Poised, TakesRight, Context
  <1>3. SentOf(e, b, x) \in Int /\ KnownOf(e, b, x) \in Int
    BY <1>2, OffsetIs DEF SentOf, KnownOf, Near
  <1>4. Follows(e, b, d, x)
    BY <1>1, <1>3 DEF Onward, Follows
  <1> QED BY <1>4 DEF Onward, SameIntake, SameStanding

(* A duplicate acknowledgement at most sends again.                          *)
LEMMA CountDuplicateOnward ==
    ASSUME NEW e \in Ends, NEW x, Context(e, x), NEW c, Sound(e, c, x),
           c.state # "Closed", ~Connecting(c)
    PROVE  /\ Onward(e, c, CountDuplicate(c), x)
           /\ CountDuplicate(c).state = c.state
  <1>1. c \in Connections /\ c.dups \in Nat
    BY DEF Sound, Connections
  <1>2. PICK dups \in Nat : dups = Least(c.dups + 1, DuplicateAcks + 1)
    <2>1. DuplicateAcks \in Nat
      BY SizesAssumption
    <2> QED BY <1>1, <2>1 DEF Least
  <1>3. PICK half \in Nat : half = Halved(c) /\ half >= 1
    <2>1. Mss \in Nat /\ Mss >= 1
      BY ModulusHolds
    <2>2. Distance(c.una, c.max) \in Nat
      <3>1. c.una \in Numbers /\ c.max \in Numbers
        BY <1>1 DEF Connections
      <3>2. Distance(c.una, c.max) \in Numbers
        BY <3>1, DistanceIs
      <3> QED BY <3>2, ModulusHolds DEF Numbers
    <2>3. Distance(c.una, c.max) \div 2 \in Int
      BY <2>2
    <2> QED BY <2>1, <2>3 DEF Halved, Most
  <1>4. CASE dups = DuplicateAcks
    <2>1. PICK d : d = [c EXCEPT !.dups = dups, !.ssthresh = half, !.cwnd = half]
      OBVIOUS
    <2>2. d \in Connections /\ Alike(c, d) /\ d.out = c.out
      BY ZenonT(60), <2>1, <1>1, <1>3 DEF Connections, Alike, SameIntake, SameSending
    <2>3. Onward(e, c, d, x) /\ Sound(e, d, x)
      BY <2>2, AlikeOnward DEF Onward
    <2>4. d.state # "Closed" /\ ~Connecting(d)
      BY <2>2 DEF Alike, Connecting
    <2>5. Onward(e, d, Resend(d), x) /\ Alike(d, Resend(d))
      BY <2>3, <2>4, ResendOnward
    <2>6. Onward(e, c, Resend(d), x)
      BY <2>3, <2>5, OnwardOn
    <2>7. CountDuplicate(c) = Resend(d)
      BY <1>2, <1>3, <1>4, <2>1 DEF CountDuplicate
    <2> QED BY <2>2, <2>5, <2>6, <2>7 DEF Alike
  <1>5. CASE dups # DuplicateAcks
    <2>1. PICK d : d = [c EXCEPT !.dups = dups]
      OBVIOUS
    <2>2. d \in Connections /\ Alike(c, d) /\ d.out = c.out
      BY <2>1, <1>1 DEF Connections, Alike, SameIntake, SameSending
    <2>3. Onward(e, c, d, x)
      BY <2>2, AlikeOnward
    <2>4. CountDuplicate(c) = d
      BY <1>2, <1>5, <2>1 DEF CountDuplicate
    <2> QED BY <2>2, <2>3, <2>4 DEF Alike
  <1> QED BY <1>4, <1>5

(* The window of a segment changes nothing else.                             *)
LEMMA TakeWindowOnward ==
    ASSUME NEW e \in Ends, NEW x, Context(e, x), NEW c, Sound(e, c, x),
           NEW s \in Segments
    PROVE  Onward(e, c, TakeWindow(c, s), x) /\ Alike(c, TakeWindow(c, s))
  <1>1. CASE ~IsLatest(c, s)
    <2>1. Alike(c, c)
      BY DEF Alike, SameIntake, SameSending
    <2> QED BY <1>1, <2>1, OnwardSelf DEF TakeWindow
  <1>2. CASE IsLatest(c, s)
    <2>1. PICK d : d = [c EXCEPT !.wnd = s.wnd, !.wl1 = s.seq, !.wl2 = s.ack]
      OBVIOUS
    <2>2. c \in Connections /\ s.wnd \in Nat /\ s.seq \in Numbers /\ s.ack \in Numbers
      BY DEF Sound, Segments
    <2>3. d \in Connections /\ Alike(c, d) /\ d.out = c.out
      BY <2>1, <2>2 DEF Connections, Alike, SameIntake, SameSending
    <2>4. Onward(e, c, d, x)
      BY <2>3, AlikeOnward
    <2> QED BY <1>2, <2>1, <2>3, <2>4 DEF TakeWindow
  <1> QED BY <1>1, <1>2

(* Going back to una when the window has closed keeps the order.             *)
LEMMA RewindOnward ==
    ASSUME NEW e \in Ends, NEW x, Context(e, x), NEW c, Sound(e, c, x),
           c.state # "Closed", ~Connecting(c)
    PROVE  Onward(e, c, Rewind(c), x) /\ Rewind(c).state = c.state
  <1>1. CASE ~(c.wnd = 0 /\ Unsettled(c))
    BY <1>1, OnwardSelf DEF Rewind
  <1>2. CASE c.wnd = 0 /\ Unsettled(c)
    <2>1. PICK d : d = [c EXCEPT !.nxt = c.una]
      OBVIOUS
    <2>2. c \in Connections /\ c.una \in Numbers /\ Offset(e, c.una) \in Nat
          /\ Offset(e, c.nxt) \in Nat /\ Offset(e, c.max) \in Nat
          /\ SendsRight(e, c, x)
      BY LiveHolds
    <2>3. Offset(e, c.una) <= Offset(e, c.max) /\ Offset(e, c.una) <= Offset(e, c.una)
      BY <2>2, OrderHolds
    <2>4. /\ d \in Connections /\ SameIntake(c, d) /\ d.state = c.state
          /\ d.failure = c.failure /\ d.connected = c.connected
          /\ d.active = c.active /\ d.finq = c.finq /\ d.iss = c.iss
          /\ d.una = c.una /\ d.sseq = c.sseq /\ d.send = c.send
          /\ d.nxt = c.una /\ d.max = c.max /\ d.cwnd = c.cwnd /\ d.out = c.out
      BY <2>1, <2>2 DEF Connections, SameIntake
    <2>5. ~Connecting(d) /\ d.state \notin {"Closed", "SynSent"}
          /\ c.state \notin {"Closed", "SynSent"}
      BY <2>4 DEF Connecting
    <2>6. SendsRight(e, d, x)
      BY <2>2, <2>3, <2>4, <2>5 DEF SendsRight
    <2>7. Offset(e, c.max) <= Offset(e, d.max)
      BY <2>2, <2>4
    <2>8. Onward(e, c, d, x)
      BY <2>4, <2>5, <2>6, <2>7, StandsOnward
    <2> QED BY <1>2, <2>1, <2>4, <2>8 DEF Rewind
  <1> QED BY <1>1, <1>2

(* A connection that has more of its handshake acknowledged, or is sound.    *)
Willing(e, c, x) ==
    Sound(e, c, x) \/ (Offset(e, c.una) = 0 /\ Offset(e, c.sseq) = 1)

(* Connection::Acknowledge as a whole.                                       *)
LEMMA AcknowledgeOnward ==
    ASSUME NEW e \in Ends, NEW x, Context(e, x), NEW c, Poised(e, c, x),
           Willing(e, c, x), NEW s \in Segments, Acceptable(e, c, s.ack, x)
    PROVE  /\ Onward(e, c, Acknowledge(c, s), x)
           /\ Acknowledge(c, s).state = c.state
  <1>1. /\ c.state \notin {"Closed", "SynSent", "SynReceived"} /\ ~Connecting(c)
        /\ Near(e, c.una) /\ Near(e, s.ack) /\ Near(e, c.sseq) /\ Starts(e)
        /\ c \in Connections
    BY DEF Poised, Connecting, Acceptable, Context
  <1>2. Offset(e, c.una) \in Nat /\ Offset(e, s.ack) \in Nat /\ Offset(e, c.sseq) \in Nat
    BY <1>1, OffsetIs DEF Near
  <1>3. Before(c.una, s.ack) <=> Offset(e, c.una) < Offset(e, s.ack)
    BY <1>1, BeforeIs
  <1>4. PICK b : b = (IF Before(c.una, s.ack) THEN Advance(c, s.ack)
                      ELSE IF IsDuplicate(c, s) THEN CountDuplicate(c) ELSE c)
    OBVIOUS
  <1>5. Onward(e, c, b, x) /\ b.state = c.state
    <2>1. CASE Before(c.una, s.ack)
      <3>1. Offset(e, c.sseq) <= Offset(e, s.ack)
        <4>1. CASE Sound(e, c, x)
          <5>1. Offset(e, c.sseq) <= Offset(e, c.una)
            BY <4>1, <1>1, OrderHolds
          <5> QED BY <5>1, <2>1, <1>2, <1>3
        <4>2. CASE Offset(e, c.una) = 0 /\ Offset(e, c.sseq) = 1
          BY <4>2, <1>2 DEF Acceptable
        <4> QED BY <4>1, <4>2 DEF Willing
      <3> QED BY <2>1, <3>1, <1>4, AdvanceOnward
    <2>2. CASE ~Before(c.una, s.ack)
      <3>1. Offset(e, c.una) # 0
        BY <2>2, <1>2, <1>3 DEF Acceptable
      <3>2. Sound(e, c, x)
        BY <3>1 DEF Willing
      <3> QED BY <2>2, <3>2, <1>1, <1>4, CountDuplicateOnward, OnwardSelf
    <2> QED BY <2>1, <2>2
  <1>6. b \in Connections /\ Sound(e, b, x) /\ b.retries \in Nat
    BY <1>5 DEF Onward, Sound, Connections
  <1>7. PICK d : d = [b EXCEPT !.retries = IF s.wnd = 0 THEN 0 ELSE @]
    OBVIOUS
  <1>8. PICK retries \in Nat : d = [b EXCEPT !.retries = retries]
    BY <1>6, <1>7
  <1>9. d \in Connections /\ Alike(b, d) /\ d.out = b.out
    BY <1>6, <1>8 DEF Connections, Alike, SameIntake, SameSending
  <1>10. Onward(e, b, d, x) /\ Sound(e, d, x) /\ d.state = c.state
    BY <1>5, <1>6, <1>9, AlikeOnward DEF Onward, Alike
  <1>11. PICK f : f = TakeWindow(d, s)
    OBVIOUS
  <1>12. Onward(e, d, f, x) /\ Sound(e, f, x) /\ f.state = c.state
    BY <1>10, <1>11, TakeWindowOnward DEF Onward, Alike
  <1>13. f.state # "Closed" /\ ~Connecting(f)
    BY <1>12, <1>1 DEF Connecting
  <1>14. Onward(e, f, Rewind(f), x) /\ Rewind(f).state = c.state
    BY <1>12, <1>13, RewindOnward
  <1>15. Onward(e, d, Rewind(f), x)
    BY <1>10, <1>12, <1>14, OnwardOn
  <1>16. Onward(e, b, Rewind(f), x)
    BY <1>6, <1>10, <1>15, OnwardOn
  <1>17. Onward(e, c, Rewind(f), x)
    BY <1>5, <1>16, PoisedOn
  <1>18. Acknowledge(c, s) = Rewind(f)
    BY <1>4, <1>7, <1>11 DEF Acknowledge
  <1> QED BY <1>14, <1>17, <1>18

(* A connection that only changes its state.                                 *)
LEMMA RestateOnward ==
    ASSUME NEW e \in Ends, NEW x, Context(e, x), NEW c, Sound(e, c, x),
           c.state # "Closed", ~Connecting(c),
           NEW state \in States \ {"Closed", "SynSent", "SynReceived"}
    PROVE  /\ Onward(e, c, [c EXCEPT !.state = state], x)
           /\ [c EXCEPT !.state = state].state = state
  <1>1. PICK d : d = [c EXCEPT !.state = state]
    OBVIOUS
  <1>2. c \in Connections /\ SendsRight(e, c, x) /\ Offset(e, c.max) \in Nat
    BY LiveHolds
  <1>3. /\ d \in Connections /\ SameIntake(c, d) /\ d.state = state
        /\ d.failure = c.failure /\ d.connected = c.connected
        /\ d.active = c.active /\ d.finq = c.finq /\ d.iss = c.iss
        /\ d.una = c.una /\ d.sseq = c.sseq /\ d.send = c.send
        /\ d.nxt = c.nxt /\ d.max = c.max /\ d.cwnd = c.cwnd /\ d.out = c.out
    BY <1>1, <1>2 DEF Connections, SameIntake
  <1>4. ~Connecting(d) /\ d.state \notin {"Closed", "SynSent"}
        /\ c.state \notin {"Closed", "SynSent"}
    BY <1>3 DEF Connecting
  <1>5. SendsRight(e, d, x)
    BY <1>2, <1>3, <1>4 DEF SendsRight
  <1>6. Offset(e, c.max) <= Offset(e, d.max)
    BY <1>2, <1>3
  <1>7. Onward(e, c, d, x)
    BY <1>3, <1>4, <1>5, <1>6, StandsOnward
  <1> QED BY <1>1, <1>3, <1>7

(* An acknowledged FIN changes the state, and closes an end that was in      *)
(* LAST-ACK.                                                                 *)
LEMMA FinTakenMoves ==
    ASSUME NEW e \in Ends, NEW x, Context(e, x), NEW c, Sound(e, c, x),
           c.state # "Closed", ~Connecting(c)
    PROVE  /\ Moves(e, c, FinTaken(c), x)
           /\ ~Connecting(FinTaken(c))
           /\ FinTaken(c).state # "Closed" =>
                Onward(e, c, FinTaken(c), x)
  <1>1. CASE FinTaken(c) = c
    BY <1>1, MovesSelf, OnwardSelf
  <1>2. CASE FinTaken(c) = Leave(c)
    BY <1>2, LeaveMoves DEF Connecting
  <1>3. CASE \E state \in {"FinWait2", "TimeWait"} :
               FinTaken(c) = [c EXCEPT !.state = state]
    <2>1. PICK state \in {"FinWait2", "TimeWait"} :
            FinTaken(c) = [c EXCEPT !.state = state]
      BY <1>3
    <2>2. state \in States \ {"Closed", "SynSent", "SynReceived"}
      BY <2>1 DEF States
    <2>3. PICK d : d = [c EXCEPT !.state = state]
      OBVIOUS
    <2>4. Onward(e, c, d, x) /\ d.state = state
      BY <2>2, <2>3, RestateOnward
    <2>5. Moves(e, c, d, x)
      BY <2>4, OnwardMoves
    <2>6. ~Connecting(d)
      BY <2>2, <2>4 DEF Connecting
    <2> QED BY <2>1, <2>3, <2>4, <2>5, <2>6
  <1>4. FinTaken(c) \in {c, Leave(c), [c EXCEPT !.state = "FinWait2"],
                         [c EXCEPT !.state = "TimeWait"]}
    BY DEF FinTaken
  <1> QED BY <1>1, <1>2, <1>3, <1>4

(* A connection that took more and sent the same.                            *)
LEMMA StandsTaking ==
    ASSUME NEW e \in Ends, NEW x, Context(e, x), NEW c, Sound(e, c, x),
           c.state # "Closed",
           NEW d \in Connections, SameSending(c, d), d.out = c.out,
           d.state \notin {"Closed", "SynSent"}, Connecting(c) <=> Connecting(d),
           Readable(d, x), TakesRight(e, d, x),
           KnownOf(e, c, x) <= Offset(Peer(e), d.rcv)
    PROVE  Moves(e, c, d, x)
  <1>1. SentOf(e, d, x) = SentOf(e, c, x) /\ KnownOf(e, d, x) = Offset(Peer(e), d.rcv)
    BY DEF SentOf, KnownOf, SameSending
  <1>2. SentOf(e, c, x) \in Int /\ KnownOf(e, c, x) \in Int
    BY BoundsHold
  <1>3. Offset(Peer(e), d.rcv) \in Int /\ Starts(e) /\ Starts(Peer(e))
    BY OffsetIs DEF TakesRight, Near, Context
  <1>4. PutsOut(e, d, x)
    <2>1. ASSUME NEW s \in d.out
          PROVE  Genuine(e, s, x.mine, d.finq, SentOf(e, d, x), KnownOf(e, d, x))
      <3>1. Genuine(e, s, x.mine, d.finq, SentOf(e, c, x), KnownOf(e, c, x))
            /\ s \in Segments
        BY DEF Sound, PutsOut, Connections, SameSending
      <3>2. KnownOf(e, d, x) \in Int /\ KnownOf(e, c, x) <= KnownOf(e, d, x)
            /\ SentOf(e, c, x) <= SentOf(e, c, x)
        BY <1>1, <1>2, <1>3
      <3>3. Genuine(e, s, x.mine, d.finq, SentOf(e, c, x), KnownOf(e, d, x))
        BY <3>1, <3>2, <1>2, <1>3, GenuineGrows
      <3> QED BY <3>3, <1>1
    <2> QED BY <2>1 DEF PutsOut
  <1>5. SendsRight(e, d, x)
    BY DEF Sound, SameSending, SendsRight
  <1>6. Sound(e, d, x)
    BY <1>4, <1>5 DEF Sound
  <1>7. Follows(e, c, d, x)
    BY <1>1, <1>2, <1>3 DEF Follows, SameSending
  <1>8. EndKnown(d, x)
    BY <1>6, LiveEndKnown
  <1> QED BY <1>6, <1>7, <1>8 DEF Moves

(* A handshake that ends, and the acknowledgement that ended it.             *)
LEMMA EstablishPoised ==
    ASSUME NEW e \in Ends, NEW x, Context(e, x), NEW c, Sound(e, c, x),
           c.state = "SynReceived", NEW s \in Segments
    PROVE  /\ Poised(e, Establish(c, s), x) /\ Willing(e, Establish(c, s), x)
           /\ Establish(c, s).state = "Established"
           /\ SameIntake(c, Establish(c, s))
           /\ Establish(c, s).max = c.max /\ Establish(c, s).finq = c.finq
           /\ Establish(c, s).una = c.una
  <1>1. c \in Connections /\ SendsRight(e, c, x) /\ TakesRight(e, c, x)
        /\ x.mine \in Nat /\ Len(c.send) \in 0 .. x.mine
        /\ Offset(e, c.sseq) \in Nat
    <2>1. c.state \notin {"Closed", "SynSent"}
      OBVIOUS
    <2> QED BY <2>1, LiveHolds DEF Sound
  <1>2. x.mine = 0 /\ ~c.finq /\ Offset(e, c.una) = 0 /\ Offset(e, c.nxt) = 1
        /\ Offset(e, c.max) = 1
    BY <1>1 DEF SendsRight, Connecting
  <1>3. Offset(e, c.sseq) = 1
    BY <1>1, <1>2 DEF SendsRight
  <1>4. PICK cwnd \in Nat : cwnd = Least(4 * Mss, Buffer) /\ cwnd >= 1
    BY ModulusHolds DEF Least
  <1>5. s.wnd \in Nat /\ s.seq \in Numbers /\ s.ack \in Numbers /\ Buffer \in Nat
    BY ModulusHolds DEF Segments
  <1>6. PICK d : d = [c EXCEPT !.state = "Established", !.connected = TRUE,
                               !.wnd = s.wnd, !.wl1 = s.seq, !.wl2 = s.ack,
                               !.cwnd = cwnd, !.ssthresh = Buffer,
                               !.retries = 0, !.timer = FALSE]
    OBVIOUS
  <1>7. d = Establish(c, s)
    BY <1>4, <1>6 DEF Establish
  <1>8. d \in Connections
    BY ZenonT(60), <1>1, <1>5, <1>6 DEF Connections, States
  <1>9. /\ SameIntake(c, d) /\ d.state = "Established" /\ d.connected
        /\ d.finq = c.finq /\ d.iss = c.iss
        /\ d.una = c.una /\ d.sseq = c.sseq /\ d.send = c.send
        /\ d.nxt = c.nxt /\ d.max = c.max /\ d.cwnd = cwnd /\ d.out = c.out
    BY <1>1, <1>6 DEF Connections, SameIntake
  <1>10. SentOf(e, d, x) = SentOf(e, c, x) /\ KnownOf(e, d, x) = KnownOf(e, c, x)
    BY <1>9 DEF SentOf, KnownOf, SameIntake
  <1>11. PutsOut(e, d, x) /\ Readable(d, x) /\ TakesRight(e, d, x)
    BY <1>1, <1>9, <1>10 DEF Sound, PutsOut, Readable, TakesRight, SameIntake
  <1>12. Poised(e, d, x)
    <2>1. Near(e, d.una) /\ Near(e, d.nxt) /\ Near(e, d.max) /\ Near(e, d.sseq)
          /\ Len(d.send) <= x.mine /\ d.iss = Start(e)
          /\ Offset(e, d.sseq) = 1 + x.mine - Len(d.send)
          /\ Offset(e, d.max) <= x.mine + 1 + Bit(d.finq)
          /\ Offset(e, d.nxt) <= Offset(e, d.max)
          /\ \A k \in 1 .. Len(d.send) :
               d.send[k] = Tagged(1, Offset(e, d.sseq) - 1 + k)
      BY ZenonT(60), <1>1, <1>9 DEF SendsRight
    <2>2. d.connected /\ d.cwnd >= 1
          /\ d.state \notin {"Closed", "SynSent", "SynReceived"}
      BY <1>4, <1>9
    <2> QED BY <2>1, <2>2, <1>8, <1>11 DEF Poised
  <1>13. Willing(e, d, x)
    BY <1>2, <1>3, <1>9 DEF Willing
  <1> QED BY <1>7, <1>9, <1>12, <1>13

(* The acknowledgement of the SYN establishes the end.                       *)
LEMMA EstablishedMoves ==
    ASSUME NEW e \in Ends, NEW x, Context(e, x), NEW c, Sound(e, c, x),
           c.state = "SynReceived", NEW s \in Segments,
           Acceptable(e, c, s.ack, x)
    PROVE  /\ Moves(e, c, Acknowledge(Establish(c, s), s), x)
           /\ SameIntake(c, Acknowledge(Establish(c, s), s))
           /\ Acknowledge(Establish(c, s), s).state = "Established"
  <1>1. PICK b : b = Establish(c, s)
    OBVIOUS
  <1>2. Poised(e, b, x) /\ Willing(e, b, x) /\ b.state = "Established"
        /\ SameIntake(c, b) /\ b.max = c.max /\ b.finq = c.finq
    BY <1>1, EstablishPoised
  <1>3. Acceptable(e, b, s.ack, x)
    BY <1>2 DEF Acceptable
  <1>4. PICK d : d = Acknowledge(b, s)
    OBVIOUS
  <1>5. Onward(e, b, d, x) /\ d.state = b.state
    BY <1>2, <1>3, <1>4, AcknowledgeOnward
  <1>6. Sound(e, d, x) /\ SameIntake(c, d) /\ d.state = "Established"
    BY <1>2, <1>5 DEF Onward, SameIntake
  <1>7. EndKnown(d, x)
    BY <1>6, LiveEndKnown
  <1>8. SentOf(e, b, x) = SentOf(e, c, x) /\ KnownOf(e, b, x) = KnownOf(e, c, x)
    BY <1>2 DEF SentOf, KnownOf, SameIntake
  <1>9. ~c.connected
    BY DEF Sound, SendsRight, Connecting
  <1>10. Follows(e, c, d, x)
    BY <1>2, <1>5, <1>6, <1>8, <1>9 DEF Onward, Follows
  <1> QED BY <1>1, <1>4, <1>6, <1>7, <1>10 DEF Moves

-----------------------------------------------------------------------------
(* Receiving data.                                                           *)

LEMMA LeastNumber ==
    ASSUME NEW T, T \subseteq Nat, T # {}
    PROVE  \E n \in T : \A m \in T : n <= m
  <1>1. PICK less : less = {ss \in Nat \X Nat : ss[1] < ss[2]}
    OBVIOUS
  <1>2. IsWellFoundedOn(less, Nat)
    BY <1>1, NatLessThanWellFounded DEF OpToRel
  <1>3. PICK n \in T : \A m \in T : <<m, n>> \notin less
    BY <1>2, WFMin
  <1>4. ASSUME NEW m \in T
        PROVE  n <= m
    <2>1. m \in Nat /\ n \in Nat
      OBVIOUS
    <2>2. ~(m < n)
      BY <1>1, <1>3, <2>1
    <2> QED BY <2>1, <2>2
  <1> QED BY <1>4

(* A connection that took data in order: what it keeps out of order may      *)
(* have become old.                                                          *)
TakesMost(e, c, x) ==
    /\ c.irs = Start(Peer(e)) /\ Near(Peer(e), c.rcv)
    /\ Offset(Peer(e), c.rcv) = 1 + x.read + Len(c.recv) + Bit(c.finr)
    /\ Offset(Peer(e), c.rcv) <= x.sent
    /\ c.finr => x.over /\ x.read + Len(c.recv) = x.theirs
    /\ \A y \in c.early :
         Carries(Peer(e), y.seq, y.data, Bit(y.fin), x.theirs, x.over, x.sent)
(* A step that takes more of the peer's stream and changes nothing of what   *)
(* is sent.                                                                  *)
Gathers(e, c, d, x) ==
    /\ d \in Connections /\ Readable(d, x) /\ TakesMost(e, d, x)
    /\ SameSending(c, d) /\ d.out = c.out /\ d.state = c.state
    /\ Offset(Peer(e), c.rcv) <= Offset(Peer(e), d.rcv)

(* The places in the peer's stream of what an end has.                       *)
LEMMA TakenHolds ==
    ASSUME NEW e \in Ends, NEW x, Context(e, x), NEW c \in Connections,
           Readable(c, x), TakesMost(e, c, x)
    PROVE  /\ c.rcv \in Numbers /\ Near(Peer(e), c.rcv) /\ Starts(Peer(e))
           /\ Offset(Peer(e), c.rcv) \in Nat /\ Offset(Peer(e), c.rcv) >= 1
           /\ x.read \in Nat /\ x.theirs \in Nat /\ x.sent \in Nat
           /\ Len(c.recv) \in Nat /\ c.recv \in Seq(Bytes)
           /\ x.read + Len(c.recv) <= x.theirs
           /\ x.sent <= x.theirs + 2 /\ 2 * (x.theirs + 2) < Modulus
           /\ Modulus \in Nat
           /\ Offset(Peer(e), c.rcv) <= x.theirs + 1 =>
                ~c.finr /\ Offset(Peer(e), c.rcv) = 1 + x.read + Len(c.recv)
           /\ Window(c) \in Nat /\ Window(c) = Buffer - Len(c.recv)
  <1>1. c.rcv \in Numbers /\ c.recv \in Seq(Bytes) /\ Len(c.recv) \in Nat
        /\ c.finr \in BOOLEAN
    BY DEF Connections
  <1>2. x.read \in Nat /\ x.theirs \in Nat /\ x.sent \in Nat /\ Starts(Peer(e))
        /\ 2 * (x.theirs + 2) < Modulus
    BY DEF Context, Contexts
  <1>3. x.sent <= x.theirs + 2
    <2>1. Bit(x.over) \in {0, 1} /\ x.sent <= x.theirs + 1 + Bit(x.over)
      BY DEF Context, Bit
    <2> QED BY <2>1, <1>2
  <1>4. Offset(Peer(e), c.rcv) \in Nat /\ Near(Peer(e), c.rcv)
    BY <1>1, <1>2, OffsetIs DEF TakesMost
  <1>5. /\ Offset(Peer(e), c.rcv) = 1 + x.read + Len(c.recv) + Bit(c.finr)
        /\ x.read + Len(c.recv) <= x.theirs
        /\ c.finr => x.read + Len(c.recv) = x.theirs
    BY DEF TakesMost, Readable
  <1>6. PICK o \in Nat, n \in Nat : o = Offset(Peer(e), c.rcv) /\ n = Len(c.recv)
    BY <1>1, <1>4
  <1>7. o >= 1 /\ (o <= x.theirs + 1 => ~c.finr /\ o = 1 + x.read + n)
    <2>1. CASE c.finr
      <3>1. Bit(c.finr) = 1
        BY <2>1 DEF Bit
      <3>2. o = 1 + x.read + n + 1 /\ x.read + n = x.theirs
        BY <2>1, <3>1, <1>2, <1>5, <1>6
      <3> QED BY <3>2, <1>2
    <2>2. CASE ~c.finr
      <3>1. Bit(c.finr) = 0
        BY <2>2 DEF Bit
      <3>2. o = 1 + x.read + n + 0
        BY <3>1, <1>2, <1>5, <1>6
      <3> QED BY <3>2, <2>2, <1>2
    <2> QED BY <2>1, <2>2
  <1>8. /\ Offset(Peer(e), c.rcv) >= 1
        /\ Offset(Peer(e), c.rcv) <= x.theirs + 1 =>
             ~c.finr /\ Offset(Peer(e), c.rcv) = 1 + x.read + Len(c.recv)
    BY <1>6, <1>7
  <1>9. Window(c) \in Nat /\ Window(c) = Buffer - Len(c.recv)
    BY WindowIs DEF Readable
  <1>10. Modulus \in Nat
    BY ModulusHolds
  <1> QED BY <1>1, <1>2, <1>3, <1>4, <1>5, <1>8, <1>9, <1>10

(* Data and the state that follows it.                                       *)
LEMMA GathersMoves ==
    ASSUME NEW e \in Ends, NEW x, Context(e, x), NEW c, Sound(e, c, x),
           c.state \notin {"Closed", "SynSent"}, NEW d \in Connections,
           SameSending(c, d), d.out = c.out, Readable(d, x), TakesMost(e, d, x),
           Offset(Peer(e), c.rcv) <= Offset(Peer(e), d.rcv),
           d.state \notin {"Closed", "SynSent"}, Connecting(c) <=> Connecting(d),
           \A y \in d.early : Offset(Peer(e), d.rcv) < Offset(Peer(e), y.seq)
    PROVE  Moves(e, c, d, x)
  <1>1. TakesRight(e, d, x)
    BY DEF TakesMost, TakesRight
  <1>2. KnownOf(e, c, x) = Offset(Peer(e), c.rcv)
    BY DEF KnownOf
  <1> QED BY <1>1, <1>2, StandsTaking

(* The FIN is taken only when all before it has come.                        *)
LEMMA ReceiveFinMoves ==
    ASSUME NEW e \in Ends, NEW x, Context(e, x), NEW c, Sound(e, c, x),
           c.state \notin {"Closed", "SynSent"}, ~Connecting(c), NEW d,
           Gathers(e, c, d, x), Offset(Peer(e), d.rcv) = x.theirs + 1, x.over,
           x.sent >= x.theirs + 2
    PROVE  /\ Moves(e, c, ReceiveFin(d), x)
           /\ ReceiveFin(d).state # "Closed" /\ ~Connecting(ReceiveFin(d))
  <1>1. d \in Connections /\ Readable(d, x) /\ TakesMost(e, d, x)
        /\ SameSending(c, d) /\ d.out = c.out /\ d.state = c.state
        /\ Offset(Peer(e), c.rcv) <= Offset(Peer(e), d.rcv)
    BY DEF Gathers
  <1>2. /\ d.rcv \in Numbers /\ Near(Peer(e), d.rcv) /\ Starts(Peer(e))
        /\ x.read \in Nat /\ x.theirs \in Nat /\ x.sent \in Nat
        /\ Len(d.recv) \in Nat /\ 2 * (x.theirs + 2) < Modulus
        /\ ~d.finr /\ x.read + Len(d.recv) = x.theirs /\ Modulus \in Nat
        /\ Offset(Peer(e), d.rcv) \in Nat
    <2>1. /\ d.rcv \in Numbers /\ Near(Peer(e), d.rcv) /\ Starts(Peer(e))
          /\ x.read \in Nat /\ x.theirs \in Nat /\ x.sent \in Nat
          /\ Len(d.recv) \in Nat /\ 2 * (x.theirs + 2) < Modulus
          /\ Modulus \in Nat /\ Offset(Peer(e), d.rcv) \in Nat
          /\ Offset(Peer(e), d.rcv) <= x.theirs + 1 =>
               ~d.finr /\ Offset(Peer(e), d.rcv) = 1 + x.read + Len(d.recv)
      BY <1>1, TakenHolds
    <2>2. ~d.finr /\ Offset(Peer(e), d.rcv) = 1 + x.read + Len(d.recv)
      BY <2>1
    <2>3. x.read + Len(d.recv) = x.theirs
      BY SMTT(30), <2>1, <2>2
    <2> QED BY <2>1, <2>2, <2>3
  <1>3. PICK rcv \in Numbers : rcv = Plus(d.rcv, 1)
          /\ Offset(Peer(e), rcv) = x.theirs + 2
    <2>1. Offset(Peer(e), d.rcv) + 1 < Modulus /\ 1 \in Nat
      BY <1>2
    <2> QED BY SMTT(30), <2>1, <1>2, OffsetOfPlus
  <1>4. Near(Peer(e), rcv)
    BY <1>2, <1>3 DEF Near
  <1>5. PICK b : b = [d EXCEPT !.rcv = rcv, !.finr = TRUE, !.acknow = TRUE,
                               !.early = {}]
    OBVIOUS
  <1>6. /\ b \in Connections /\ b.state = d.state /\ b.irs = d.irs
        /\ b.rcv = rcv /\ b.recv = d.recv /\ b.finr = TRUE /\ b.early = {}
        /\ b.out = d.out /\ SameSending(d, b)
    BY ZenonT(60), <1>1, <1>5 DEF Connections, SameSending
  <1>7. PICK f : f = ReceiveFin(d)
    OBVIOUS
  <1>8. f = b \/ \E state \in {"CloseWait", "TimeWait", "Closing"} :
                   f = [b EXCEPT !.state = state]
    BY <1>3, <1>5, <1>7 DEF ReceiveFin
  <1>9. /\ f \in Connections /\ f.irs = d.irs
        /\ f.rcv = rcv /\ f.recv = d.recv /\ f.finr = TRUE /\ f.early = {}
        /\ f.out = d.out /\ SameSending(d, f)
        /\ f.state \notin {"Closed", "SynSent"} /\ ~Connecting(f)
    <2>1. CASE f = b
      BY <2>1, <1>1, <1>6 DEF Connecting
    <2>2. ASSUME NEW state \in {"CloseWait", "TimeWait", "Closing"},
                 f = [b EXCEPT !.state = state]
          PROVE  /\ f \in Connections /\ f.irs = d.irs
                 /\ f.rcv = rcv /\ f.recv = d.recv /\ f.finr = TRUE /\ f.early = {}
                 /\ f.out = d.out /\ SameSending(d, f)
                 /\ f.state \notin {"Closed", "SynSent"} /\ ~Connecting(f)
      <3>1. state \in States
        BY DEF States
      <3>2. /\ f \in Connections /\ f.irs = b.irs /\ f.rcv = b.rcv
            /\ f.recv = b.recv /\ f.finr = b.finr /\ f.early = b.early
            /\ f.out = b.out /\ SameSending(b, f) /\ f.state = state
        BY ZenonT(60), <2>2, <3>1, <1>6 DEF Connections, SameSending
      <3>3. SameSending(d, f)
        BY <3>2, <1>6 DEF SameSending
      <3> QED BY <3>2, <3>3, <1>6 DEF Connecting
    <2> QED BY <2>1, <2>2, <1>8
  <1>10. SameSending(c, f) /\ f.out = c.out
    BY <1>1, <1>9 DEF SameSending
  <1>11. Readable(f, x)
    BY <1>1, <1>9 DEF Readable
  <1>12. TakesMost(e, f, x)
    <2>1. f.irs = Start(Peer(e)) /\ Near(Peer(e), f.rcv)
      BY <1>1, <1>4, <1>9 DEF TakesMost
    <2>2. Bit(f.finr) = 1
      BY <1>9 DEF Bit
    <2>3. Offset(Peer(e), f.rcv) = 1 + x.read + Len(f.recv) + Bit(f.finr)
          /\ x.read + Len(f.recv) = x.theirs
      BY <1>2, <1>3, <1>9, <2>2
    <2>4. Offset(Peer(e), f.rcv) <= x.sent
      BY <1>2, <1>3, <1>9
    <2> QED BY <2>1, <2>3, <2>4, <1>9 DEF TakesMost
  <1>13. Offset(Peer(e), c.rcv) <= Offset(Peer(e), f.rcv)
    <2>1. Offset(Peer(e), c.rcv) \in Int
      <3>1. TakesRight(e, c, x)
        BY DEF Sound
      <3> QED BY SMTT(30), <3>1, <1>2, OffsetIs DEF TakesRight, Near
    <2> QED BY <2>1, <1>1, <1>2, <1>3, <1>9
  <1>14. Moves(e, c, f, x)
    BY <1>9, <1>10, <1>11, <1>12, <1>13, GathersMoves
  <1> QED BY <1>7, <1>9, <1>14

(* The parts of JoinEarly.                                                   *)
Joins(c, d, rcv, more) ==
    d = [c EXCEPT !.recv = @ \o more, !.rcv = rcv,
                  !.early = {y \in @ : Before(rcv, y.seq)}]
(* What the early segments fill in behind rcv.                               *)
More(c) == [i \in 1 .. GapOf(c) |-> ByteAt(c, i - 1)]

(* Connection::Accept joins the early segments as far as they reach.         *)
LEMMA JoinEarlyIs ==
    ASSUME NEW c, NEW next,
           Joins(c, next, Plus(c.rcv, GapOf(c)), More(c))
    PROVE  JoinEarly(c) = IF NextIsFin(c, Plus(c.rcv, GapOf(c)))
                          THEN ReceiveFin(next) ELSE next
  BY DEF JoinEarly, Joins, More

(* Where an early segment lies from rcv on.                                  *)
LEMMA PlaceIs ==
    ASSUME NEW e, Starts(e), NEW c, NEW y, Near(e, c.rcv), Near(e, y.seq)
    PROVE  PlaceOf(c, y) = Offset(e, y.seq) - Offset(e, c.rcv)
  <1>1. Offset(e, c.rcv) \in Nat /\ Offset(e, y.seq) \in Nat
        /\ c.rcv \in Numbers /\ y.seq \in Numbers
    BY OffsetIs DEF Near
  <1>2. Before(c.rcv, y.seq) <=> Offset(e, c.rcv) < Offset(e, y.seq)
    BY BeforeIs
  <1>3. CASE Before(c.rcv, y.seq)
    <2>1. Distance(c.rcv, y.seq) = Offset(e, y.seq) - Offset(e, c.rcv)
      BY <1>1, <1>2, <1>3, DistanceOf
    <2> QED BY <2>1, <1>3 DEF PlaceOf
  <1>4. CASE ~Before(c.rcv, y.seq)
    <2>1. Distance(y.seq, c.rcv) = Offset(e, c.rcv) - Offset(e, y.seq)
      BY <1>1, <1>2, <1>4, DistanceOf
    <2>2. PlaceOf(c, y) = -Distance(y.seq, c.rcv)
      BY <1>4 DEF PlaceOf
    <2> QED BY <2>1, <2>2, <1>1
  <1> QED BY <1>3, <1>4

(* Every byte up to the first gap is in some early segment.                  *)
LEMMA GapIs ==
    ASSUME NEW c, Window(c) \in Nat
    PROVE  /\ GapOf(c) \in 0 .. Window(c)
           /\ \A i \in 0 .. GapOf(c) - 1 : HasAt(c, i) # {}
  <1>1. PICK window \in Nat : window = Window(c)
    OBVIOUS
  <1>2. PICK T : T = {n \in 0 .. window : n = window \/ HasAt(c, n) = {}}
    OBVIOUS
  <1>3. T \subseteq Nat /\ window \in T
    BY <1>1, <1>2
  <1>4. PICK n \in T : \A m \in T : n <= m
    BY <1>3, LeastNumber
  <1>5. n \in 0 .. window /\ (n = window \/ HasAt(c, n) = {})
    BY <1>2, <1>4
  <1>6. ASSUME NEW i \in 0 .. n - 1
        PROVE  HasAt(c, i) # {}
    <2>1. i \in 0 .. window /\ i < n /\ i # window
      BY <1>1, <1>5
    <2>2. i \notin T
      BY <2>1, <1>4, <1>5
    <2> QED BY <2>1, <2>2, <1>2
  <1>7. \E m \in 0 .. Window(c) : /\ \A i \in 0 .. m - 1 : HasAt(c, i) # {}
                                  /\ m = Window(c) \/ HasAt(c, m) = {}
    BY <1>1, <1>5, <1>6
  <1> QED BY <1>7 DEF GapOf

(* Whichever early segment a byte is taken from, it is the byte that was     *)
(* written there.                                                            *)
LEMMA JoinedByte ==
    ASSUME NEW e \in Ends, NEW x, Context(e, x), NEW c \in Connections,
           Readable(c, x), TakesMost(e, c, x), NEW i \in Nat, HasAt(c, i) # {}
    PROVE  /\ ByteAt(c, i) = Tagged(1, Offset(Peer(e), c.rcv) + i)
           /\ Offset(Peer(e), c.rcv) + i <= x.theirs
           /\ Offset(Peer(e), c.rcv) + i + 1 <= x.sent
  <1>1. PICK y : y = CHOOSE z \in HasAt(c, i) : TRUE
    OBVIOUS
  <1>2. y \in HasAt(c, i)
    BY <1>1
  <1>3. y \in c.early /\ i - PlaceOf(c, y) \in 0 .. Len(y.data) - 1
    BY <1>2 DEF HasAt
  <1>4. Carries(Peer(e), y.seq, y.data, Bit(y.fin), x.theirs, x.over, x.sent)
    BY <1>3 DEF TakesMost
  <1>5. y \in Pieces /\ Len(y.data) \in Nat /\ Bit(y.fin) \in {0, 1}
    BY <1>3 DEF Connections, Pieces, Bit
  <1>6. Near(Peer(e), y.seq) /\ Near(Peer(e), c.rcv) /\ Starts(Peer(e))
        /\ x.theirs \in Nat /\ x.sent \in Nat
    BY <1>4, TakenHolds DEF Carries
  <1>7. PICK o \in Nat, s \in Nat :
          o = Offset(Peer(e), c.rcv) /\ s = Offset(Peer(e), y.seq)
    BY <1>6, OffsetIs DEF Near
  <1>8. PlaceOf(c, y) = s - o
    BY <1>6, <1>7, PlaceIs
  <1>9. PICK k \in Nat : k = i - PlaceOf(c, y) + 1 /\ k \in 1 .. Len(y.data)
    BY <1>3, <1>5, <1>7, <1>8
  <1>10. s - 1 + k = o + i
    BY SMTT(30), <1>7, <1>8, <1>9
  <1>11. /\ y.data[k] = Tagged(1, s - 1 + k) /\ s - 1 + k <= x.theirs
         /\ s + Len(y.data) + Bit(y.fin) <= x.sent
    BY <1>4, <1>7, <1>9 DEF Carries
  <1>12. ByteAt(c, i) = y.data[k]
    BY <1>1, <1>9 DEF ByteAt
  <1>13. o + i + 1 <= x.sent
    <2>1. PICK n \in Nat, b \in Nat, m \in Nat :
            n = Len(y.data) /\ b = Bit(y.fin) /\ m = x.sent
      BY <1>5, <1>6
    <2>2. s + n + b <= m
      BY <2>1, <1>11
    <2>3. k <= n
      BY <2>1, <1>9
    <2>4. s + k <= m
      BY <2>2, <2>3
    <2>5. s + k = o + i + 1
      BY <1>10
    <2> QED BY <2>1, <2>4, <2>5
  <1> QED BY <1>7, <1>10, <1>11, <1>12, <1>13

(* A tagged byte is a byte.                                                  *)
LEMMA TaggedIs ==
    ASSUME NEW n \in Nat
    PROVE  Tagged(1, n) \in Bytes
  <1>1. <<1, n>> \in Nat \X Nat
    OBVIOUS
  <1> QED BY <1>1 DEF Tagged, Bytes

(* The fields of a connection with the early segments joined.                *)
LEMMA JoinedShape ==
    ASSUME NEW c \in Connections, NEW rcv \in Numbers,
           NEW more \in Seq(Bytes), NEW d, Joins(c, d, rcv, more)
    PROVE  /\ d \in Connections /\ SameSending(c, d) /\ d.out = c.out
           /\ d.state = c.state /\ d.irs = c.irs /\ d.finr = c.finr
           /\ d.rcv = rcv /\ d.recv = c.recv \o more
           /\ d.early \subseteq c.early
           /\ \A y \in d.early : Before(rcv, y.seq)
  <1>1. c.recv \in Seq(Bytes) /\ c.recv \o more \in Seq(Bytes)
    BY ConcatProperties DEF Connections
  <1>2. PICK recv \in Seq(Bytes) : recv = c.recv \o more
    BY <1>1
  <1>3. PICK early \in SUBSET Pieces : early = {y \in c.early : Before(rcv, y.seq)}
    <2>1. c.early \in SUBSET Pieces
      BY DEF Connections
    <2> QED BY <2>1
  <1>4. early \subseteq c.early
    BY <1>3
  <1>5. d = [c EXCEPT !.recv = recv, !.rcv = rcv, !.early = early]
    BY <1>2, <1>3 DEF Joins
  <1>6. d \in Connections
    <2>1. PICK b : b = [c EXCEPT !.recv = recv, !.rcv = rcv]
      OBVIOUS
    <2>2. b \in Connections
      BY <2>1 DEF Connections
    <2>3. d = [b EXCEPT !.early = early]
      BY <1>5, <2>1
    <2> QED BY <2>2, <2>3 DEF Connections
  <1> QED BY ZenonT(60), <1>2, <1>3, <1>4, <1>5, <1>6 DEF Connections, SameSending

(* More bytes in order, behind those that are there.                         *)
Continues(e, c, more, x) ==
    \A k \in 1 .. Len(more) :
        /\ more[k] = Tagged(1, Offset(Peer(e), c.rcv) - 1 + k)
        /\ Offset(Peer(e), c.rcv) - 1 + k <= x.theirs
(* A connection with more for its guest.                                     *)
LongerBy(c, d, more) ==
    /\ d \in Connections /\ SameSending(c, d) /\ d.out = c.out
    /\ d.state = c.state /\ d.irs = c.irs /\ d.finr = c.finr
    /\ d.rcv = Plus(c.rcv, Len(more)) /\ d.recv = c.recv \o more
    /\ d.early \subseteq c.early

(* Bytes that continue the stream and fit the window keep the buffer         *)
(* readable.                                                                 *)
LEMMA LongerReadable ==
    ASSUME NEW e \in Ends, NEW x, Context(e, x), NEW c \in Connections,
           Readable(c, x), TakesMost(e, c, x), NEW more \in Seq(Bytes),
           Len(more) <= Window(c), Continues(e, c, more, x),
           NEW d, d.recv = c.recv \o more
    PROVE  /\ Readable(d, x) /\ Len(d.recv) = Len(c.recv) + Len(more)
           /\ x.read + Len(c.recv) + Len(more) <= x.theirs
           /\ Len(more) > 0 => ~c.finr
  <1>1. /\ x.read \in Nat /\ x.theirs \in Nat
        /\ Offset(Peer(e), c.rcv) \in Nat
        /\ Len(c.recv) \in Nat /\ c.recv \in Seq(Bytes)
        /\ x.read + Len(c.recv) <= x.theirs
        /\ Offset(Peer(e), c.rcv) <= x.theirs + 1 =>
             ~c.finr /\ Offset(Peer(e), c.rcv) = 1 + x.read + Len(c.recv)
        /\ Window(c) = Buffer - Len(c.recv)
    BY TakenHolds
  <1>2. PICK n \in Nat, m \in Nat, o \in Nat, r \in Nat, t \in Nat :
          /\ n = Len(c.recv) /\ m = Len(more) /\ o = Offset(Peer(e), c.rcv)
          /\ r = x.read /\ t = x.theirs
    BY <1>1, LenProperties
  <1>3. /\ c.recv \o more \in Seq(Bytes) /\ Len(c.recv \o more) = n + m
        /\ \A k \in 1 .. n + m : (c.recv \o more)[k] =
                                   IF k <= n THEN c.recv[k] ELSE more[k - n]
    BY <1>1, <1>2, ConcatProperties
  <1>4. \A k \in 1 .. m : more[k] = Tagged(1, o - 1 + k) /\ o - 1 + k <= t
    BY <1>2 DEF Continues
  <1>5. m > 0 => ~c.finr /\ o = 1 + r + n /\ r + n + m <= t
    <2>1. ASSUME m > 0
          PROVE  ~c.finr /\ o = 1 + r + n /\ r + n + m <= t
      <3>1. o - 1 + 1 <= t /\ o - 1 + m <= t
        <4>1. 1 \in 1 .. m /\ m \in 1 .. m
          BY <2>1
        <4> QED BY <4>1, <1>4
      <3>2. o <= t + 1
        BY <3>1
      <3>3. ~c.finr /\ o = 1 + r + n
        BY <3>2, <1>1, <1>2
      <3> QED BY <3>1, <3>3
    <2> QED BY <2>1
  <1>6. r + n + m <= t
    <2>1. r + n <= t
      BY <1>1, <1>2
    <2> QED BY <2>1, <1>5
  <1>7. n + m <= Buffer
    BY <1>1, <1>2, ModulusHolds
  <1>8. ASSUME NEW k \in 1 .. n + m
        PROVE  (c.recv \o more)[k] = Tagged(1, r + k)
    <2>1. CASE k <= n
      <3>1. c.recv[k] = Tagged(1, r + k)
        BY <2>1, <1>2 DEF Readable
      <3> QED BY <3>1, <2>1, <1>3
    <2>2. CASE ~(k <= n)
      <3>1. k - n \in 1 .. m /\ m > 0
        BY <2>2
      <3>2. more[k - n] = Tagged(1, o - 1 + (k - n))
        BY <3>1, <1>4
      <3>3. o - 1 + (k - n) = r + k
        BY <3>1, <1>5
      <3> QED BY <3>2, <3>3, <2>2, <1>3
    <2> QED BY <2>1, <2>2
  <1>9. Len(d.recv) = n + m
    BY <1>3
  <1>10. Readable(d, x)
    <2>1. Len(d.recv) <= Buffer /\ x.read + Len(d.recv) <= x.theirs
      BY SMTT(30), <1>2, <1>6, <1>7, <1>9
    <2>2. \A k \in 1 .. Len(d.recv) : d.recv[k] = Tagged(1, x.read + k)
      BY <1>2, <1>8, <1>9
    <2> QED BY <2>1, <2>2 DEF Readable
  <1> QED BY <1>2, <1>5, <1>6, <1>9, <1>10

(* What a connection gathers when bytes come that follow those it has.       *)
LEMMA GathersMore ==
    ASSUME NEW e \in Ends, NEW x, Context(e, x), NEW c, Sound(e, c, x),
           c.state \notin {"Closed", "SynSent"}, NEW d, Gathers(e, c, d, x),
           NEW more \in Seq(Bytes), Len(more) <= Window(d),
           Continues(e, d, more, x),
           Offset(Peer(e), d.rcv) + Len(more) <= x.sent,
           NEW f, LongerBy(d, f, more)
    PROVE  /\ Gathers(e, c, f, x)
           /\ Offset(Peer(e), f.rcv) = Offset(Peer(e), d.rcv) + Len(more)
  <1>1. d \in Connections /\ Readable(d, x) /\ TakesMost(e, d, x)
        /\ SameSending(c, d) /\ d.out = c.out /\ d.state = c.state
        /\ Offset(Peer(e), c.rcv) <= Offset(Peer(e), d.rcv)
    BY DEF Gathers
  <1>f. /\ f \in Connections /\ SameSending(d, f) /\ f.out = d.out
        /\ f.state = d.state /\ f.irs = d.irs /\ f.finr = d.finr
        /\ f.rcv = Plus(d.rcv, Len(more)) /\ f.recv = d.recv \o more
        /\ f.early \subseteq d.early
    BY DEF LongerBy
  <1>2. /\ d.rcv \in Numbers /\ Starts(Peer(e)) /\ x.sent \in Nat
        /\ Offset(Peer(e), d.rcv) \in Nat /\ x.theirs \in Nat /\ x.read \in Nat
        /\ x.sent <= x.theirs + 2 /\ 2 * (x.theirs + 2) < Modulus
        /\ Modulus \in Nat /\ Len(d.recv) \in Nat
    BY <1>1, TakenHolds
  <1>3. /\ Readable(f, x) /\ Len(f.recv) = Len(d.recv) + Len(more)
        /\ x.read + Len(d.recv) + Len(more) <= x.theirs
        /\ Len(more) > 0 => ~d.finr
    BY <1>1, <1>f, LongerReadable
  <1>4. PICK m \in Nat, o \in Nat, n \in Nat :
          m = Len(more) /\ o = Offset(Peer(e), d.rcv) /\ n = Len(d.recv)
    BY <1>2, LenProperties
  <1>5. Offset(Peer(e), f.rcv) = o + m /\ f.rcv \in Numbers
    <2>1. o + m < Modulus
      BY <1>2, <1>4
    <2>2. Plus(d.rcv, m) \in Numbers /\ Offset(Peer(e), Plus(d.rcv, m)) = o + m
      BY <2>1, <1>2, <1>4, OffsetOfPlus
    <2> QED BY <2>2, <1>4, <1>f
  <1>6. Near(Peer(e), f.rcv)
    BY SMTT(30), <1>2, <1>4, <1>5 DEF Near
  <1>7. PICK b \in {0, 1} : b = Bit(d.finr) /\ b = Bit(f.finr)
    BY <1>f DEF Bit
  <1>8. o = 1 + x.read + n + b
    BY <1>1, <1>4, <1>7 DEF TakesMost
  <1>9. Offset(Peer(e), f.rcv) = 1 + x.read + Len(f.recv) + Bit(f.finr)
    <2>1. Len(f.recv) = n + m /\ Bit(f.finr) = b
      BY <1>3, <1>4, <1>7
    <2>2. o + m = 1 + x.read + (n + m) + b
      BY SMTT(30), <1>2, <1>8
    <2> QED BY <2>1, <2>2, <1>5
  <1>10. f.finr => x.over /\ x.read + Len(f.recv) = x.theirs
    <2>1. ASSUME f.finr
          PROVE  x.over /\ x.read + Len(f.recv) = x.theirs
      <3>1. m = 0
        BY <2>1, <1>3, <1>4, <1>f
      <3>2. Len(f.recv) = Len(d.recv)
        BY <3>1, <1>3, <1>4
      <3> QED BY <2>1, <3>2, <1>1, <1>f DEF TakesMost
    <2> QED BY <2>1
  <1>11. Offset(Peer(e), f.rcv) <= x.sent
    BY <1>4, <1>5
  <1>12. TakesMost(e, f, x)
    BY <1>1, <1>6, <1>9, <1>10, <1>11, <1>f DEF TakesMost
  <1>13. SameSending(c, f) /\ f.out = c.out /\ f.state = c.state
    BY <1>1, <1>f DEF SameSending
  <1>14. Offset(Peer(e), c.rcv) <= Offset(Peer(e), f.rcv)
    <2>1. TakesRight(e, c, x)
      BY DEF Sound
    <2>2. Offset(Peer(e), c.rcv) \in Nat
      BY <2>1, <1>2, OffsetIs DEF TakesRight, Near
    <2> QED BY <2>2, <1>1, <1>4, <1>5
  <1> QED BY <1>3, <1>4, <1>5, <1>12, <1>13, <1>14, <1>f DEF Gathers

LEMMA JoinEarlyMoves ==
    ASSUME NEW e \in Ends, NEW x, Context(e, x), NEW c, Sound(e, c, x),
           c.state \notin {"Closed", "SynSent"}, ~Connecting(c), NEW d,
           Gathers(e, c, d, x)
    PROVE  Moves(e, c, JoinEarly(d), x)
  <1>1. d \in Connections /\ Readable(d, x) /\ TakesMost(e, d, x)
        /\ SameSending(c, d) /\ d.out = c.out /\ d.state = c.state
        /\ Offset(Peer(e), c.rcv) <= Offset(Peer(e), d.rcv)
    BY DEF Gathers
  <1>2. /\ d.rcv \in Numbers /\ Starts(Peer(e)) /\ x.sent \in Nat
        /\ Offset(Peer(e), d.rcv) \in Nat /\ x.theirs \in Nat
        /\ x.sent <= x.theirs + 2 /\ 2 * (x.theirs + 2) < Modulus
        /\ Modulus \in Nat /\ Window(d) \in Nat
    BY <1>1, TakenHolds
  <1>3. PICK gap \in Nat, o \in Nat :
          gap = GapOf(d) /\ gap <= Window(d) /\ o = Offset(Peer(e), d.rcv)
          /\ \A i \in 0 .. gap - 1 : HasAt(d, i) # {}
    <2>1. GapOf(d) \in 0 .. Window(d)
          /\ \A i \in 0 .. GapOf(d) - 1 : HasAt(d, i) # {}
      BY <1>2, GapIs
    <2>2. GapOf(d) \in Nat /\ GapOf(d) <= Window(d)
      BY <2>1, <1>2
    <2>3. PICK g \in Nat : g = GapOf(d)
      BY <2>2
    <2>4. PICK o \in Nat : o = Offset(Peer(e), d.rcv)
      BY <1>2
    <2> QED BY <2>1, <2>2, <2>3, <2>4
  <1>4. ASSUME NEW i \in 0 .. gap - 1
        PROVE  ByteAt(d, i) = Tagged(1, o + i) /\ o + i <= x.theirs
               /\ o + i + 1 <= x.sent
    BY <1>1, <1>3, JoinedByte
  <1>5. PICK more : more = [i \in 1 .. gap |-> ByteAt(d, i - 1)]
    OBVIOUS
  <1>6. ASSUME NEW k \in 1 .. gap
        PROVE  more[k] = Tagged(1, o - 1 + k) /\ o - 1 + k <= x.theirs
               /\ o + k <= x.sent
    <2>1. PICK i \in 0 .. gap - 1 : i = k - 1
      OBVIOUS
    <2>2. o + i = o - 1 + k /\ o + i + 1 = o + k
      BY <2>1
    <2>3. more[k] = ByteAt(d, i)
      BY <1>5, <2>1
    <2> QED BY <2>2, <2>3, <1>4
  <1>7. more \in Seq(Bytes) /\ Len(more) = gap
    <2>1. \A k \in 1 .. gap : more[k] \in Bytes
      <3>1. \A k \in 1 .. gap : o - 1 + k \in Nat
        <4>1. o >= 1
          BY <1>1, <1>3, TakenHolds
        <4> QED BY <4>1
      <3> QED BY <3>1, <1>6, TaggedIs
    <2>2. more \in [1 .. gap -> Bytes]
      BY <1>5, <2>1
    <2> QED BY <2>2
  <1>8. PICK rcv \in Numbers : rcv = Plus(d.rcv, gap)
    <2>1. gap = 0 \/ o + gap <= x.sent
      BY <1>6
    <2>2. o + gap < Modulus
      <3>1. o <= x.sent
        BY <1>1, <1>3 DEF TakesMost
      <3> QED BY <3>1, <2>1, <1>2
    <2> QED BY <2>2, <1>2, <1>3, OffsetOfPlus
  <1>9. PICK next : Joins(d, next, rcv, more)
    BY DEF Joins
  <1>10. /\ next \in Connections /\ SameSending(d, next) /\ next.out = d.out
         /\ next.state = d.state /\ next.irs = d.irs /\ next.finr = d.finr
         /\ next.rcv = rcv /\ next.recv = d.recv \o more
         /\ next.early \subseteq d.early
         /\ \A y \in next.early : Before(rcv, y.seq)
    BY <1>1, <1>7, <1>9, JoinedShape
  <1>11. o + gap <= x.sent
    <2>1. CASE gap = 0
      BY <2>1, <1>1, <1>3 DEF TakesMost
    <2>2. CASE gap # 0
      <3>1. gap \in 1 .. gap
        BY <2>2
      <3> QED BY <3>1, <1>6
    <2> QED BY <2>1, <2>2
  <1>12. Gathers(e, c, next, x) /\ Offset(Peer(e), next.rcv) = o + gap
    <2>1. Continues(e, d, more, x)
      BY <1>3, <1>6, <1>7 DEF Continues
    <2>2. Len(more) <= Window(d) /\ LongerBy(d, next, more)
      BY <1>3, <1>7, <1>8, <1>10 DEF LongerBy
    <2>3. Offset(Peer(e), d.rcv) + Len(more) <= x.sent
      BY <1>3, <1>7, <1>11
    <2>4. /\ Gathers(e, c, next, x)
          /\ Offset(Peer(e), next.rcv) = Offset(Peer(e), d.rcv) + Len(more)
      BY <2>1, <2>2, <2>3, <1>7, GathersMore
    <2> QED BY <2>4, <1>3, <1>7
  <1>13. JoinEarly(d) = IF NextIsFin(d, rcv) THEN ReceiveFin(next) ELSE next
    <2>1. Joins(d, next, Plus(d.rcv, GapOf(d)), More(d))
      BY <1>3, <1>5, <1>8, <1>9 DEF More
    <2>2. JoinEarly(d) = IF NextIsFin(d, Plus(d.rcv, GapOf(d)))
                         THEN ReceiveFin(next) ELSE next
      BY <2>1, JoinEarlyIs
    <2> QED BY <2>2, <1>3, <1>8
  <1>14. CASE NextIsFin(d, rcv)
    <2>1. PICK y \in d.early : y.fin /\ Plus(y.seq, Len(y.data)) = rcv
      BY <1>14 DEF NextIsFin
    <2>2. Bit(y.fin) = 1
      BY <2>1 DEF Bit
    <2>3. Carries(Peer(e), y.seq, y.data, 1, x.theirs, x.over, x.sent)
      BY <1>1, <2>2 DEF TakesMost
    <2>4. y.seq \in Numbers /\ Len(y.data) \in Nat
      BY <1>1 DEF Connections, Pieces
    <2>5. Offset(Peer(e), y.seq) \in Nat
      BY <2>4, <1>2, OffsetIs
    <2>6. x.over /\ Offset(Peer(e), y.seq) + Len(y.data) = x.theirs + 1
          /\ Offset(Peer(e), y.seq) + Len(y.data) + 1 <= x.sent
      BY <2>3 DEF Carries
    <2>7. Offset(Peer(e), rcv) = x.theirs + 1
      <3>1. Offset(Peer(e), y.seq) + Len(y.data) < Modulus
        BY <2>5, <2>6, <1>2
      <3>2. Offset(Peer(e), Plus(y.seq, Len(y.data)))
              = Offset(Peer(e), y.seq) + Len(y.data)
        BY <3>1, <2>4, <1>2, OffsetOfPlus
      <3> QED BY <3>2, <2>1, <2>6
    <2>8. x.sent >= x.theirs + 2
      BY <2>4, <2>5, <2>6, <1>2
    <2>9. Moves(e, c, ReceiveFin(next), x)
      BY <2>6, <2>7, <2>8, <1>10, <1>12, ReceiveFinMoves
    <2> QED BY <2>9, <1>13, <1>14
  <1>15. CASE ~NextIsFin(d, rcv)
    <2>1. ASSUME NEW y \in next.early
          PROVE  Offset(Peer(e), next.rcv) < Offset(Peer(e), y.seq)
      <3>1. y \in d.early /\ Before(next.rcv, y.seq)
        BY <1>10
      <3>2. Near(Peer(e), y.seq)
        BY <3>1, <1>1 DEF TakesMost, Carries
      <3>3. Near(Peer(e), next.rcv)
        BY <1>12 DEF Gathers, TakesMost
      <3> QED BY <3>1, <3>2, <3>3, <1>2, BeforeIs
    <2>2. Readable(next, x) /\ TakesMost(e, next, x) /\ SameSending(c, next)
          /\ next.out = c.out /\ next.state = c.state
          /\ Offset(Peer(e), c.rcv) <= Offset(Peer(e), next.rcv)
      BY <1>12 DEF Gathers
    <2>3. Connecting(c) <=> Connecting(next)
      BY <2>2 DEF Connecting
    <2>4. Moves(e, c, next, x)
      BY <2>1, <2>2, <2>3, <1>10, GathersMoves
    <2> QED BY <2>4, <1>13, <1>15
  <1> QED BY <1>14, <1>15

(* Data and a FIN of the peer's, inside the window.                          *)
Arrived(e, c, t, x) ==
    /\ t \in Segments
    /\ Carries(Peer(e), t.seq, t.data, Bit("FIN" \in t.flags), x.theirs, x.over,
               x.sent)
    /\ Offset(Peer(e), c.rcv) <= Offset(Peer(e), t.seq)
Fits(e, c, t, x) ==
    /\ Arrived(e, c, t, x)
    /\ Offset(Peer(e), t.seq) + Len(t.data) <= Offset(Peer(e), c.rcv) + Window(c)

LEMMA AcceptMoves ==
    ASSUME NEW e \in Ends, NEW x, Context(e, x), NEW c, Sound(e, c, x),
           c.state \notin {"Closed", "SynSent"}, ~Connecting(c), NEW t,
           Fits(e, c, t, x)
    PROVE  Moves(e, c, Accept(c, t), x)
  <1>1. c \in Connections /\ Readable(c, x) /\ TakesRight(e, c, x)
    BY DEF Sound
  <1>2. TakesMost(e, c, x)
    BY <1>1 DEF TakesRight, TakesMost
  <1>3. /\ c.rcv \in Numbers /\ Near(Peer(e), c.rcv) /\ Starts(Peer(e))
        /\ Offset(Peer(e), c.rcv) \in Nat /\ x.theirs \in Nat /\ x.sent \in Nat
        /\ Window(c) \in Nat /\ 2 * (x.theirs + 2) < Modulus /\ Modulus \in Nat
    BY <1>1, <1>2, TakenHolds
  <1>4. /\ t \in Segments /\ t.seq \in Numbers /\ t.data \in Seq(Bytes)
        /\ Len(t.data) \in Nat
        /\ Carries(Peer(e), t.seq, t.data, Bit("FIN" \in t.flags), x.theirs,
                   x.over, x.sent)
        /\ Offset(Peer(e), c.rcv) <= Offset(Peer(e), t.seq)
        /\ Offset(Peer(e), t.seq) + Len(t.data)
             <= Offset(Peer(e), c.rcv) + Window(c)
    BY DEF Fits, Arrived, Segments
  <1>5. PICK fin \in BOOLEAN : fin = ("FIN" \in t.flags)
    <2>1. ("FIN" \in t.flags) \in BOOLEAN
      OBVIOUS
    <2> QED BY <2>1, Zenon
  <1>6. PICK b \in {0, 1} : b = Bit(fin) /\ b = Bit("FIN" \in t.flags)
        /\ (b = 1 <=> fin)
    <2>1. CASE fin
      <3>1. Bit(fin) = 1
        BY <2>1 DEF Bit
      <3> QED BY <3>1, <2>1, <1>5
    <2>2. CASE ~fin
      <3>1. Bit(fin) = 0
        BY <2>2 DEF Bit
      <3> QED BY <3>1, <2>2, <1>5
    <2> QED BY <2>1, <2>2
  <1>7. Offset(Peer(e), t.seq) \in Nat
    BY <1>3, <1>4, OffsetIs
  <1>8. CASE t.seq # c.rcv
    <2>1. Offset(Peer(e), c.rcv) < Offset(Peer(e), t.seq)
      <3>1. Offset(Peer(e), c.rcv) # Offset(Peer(e), t.seq)
        BY <1>3, <1>4, <1>8, SameOffset
      <3> QED BY <3>1, <1>3, <1>4, <1>7
    <2>2. PICK piece \in Pieces :
            piece = [seq |-> t.seq, data |-> t.data, fin |-> fin]
      BY <1>4 DEF Pieces
    <2>3. Carries(Peer(e), piece.seq, piece.data, Bit(piece.fin), x.theirs,
                  x.over, x.sent)
      BY <1>4, <1>6, <2>2
    <2>4. PICK early \in SUBSET Pieces :
            /\ early \in {c.early, c.early \cup {piece}}
            /\ Accept(c, t) = c
                 \/ Accept(c, t) = [c EXCEPT !.acknow = TRUE, !.early = early]
      <3>1. c.early \in SUBSET Pieces /\ c.early \cup {piece} \in SUBSET Pieces
        BY <1>1 DEF Connections
      <3>2. PICK early : early = IF Cardinality(c.early) < EarlyLimit
                                 THEN c.early \cup {piece} ELSE c.early
        OBVIOUS
      <3>3. Accept(c, t) = c
              \/ Accept(c, t) = [c EXCEPT !.acknow = TRUE, !.early = early]
        BY <3>2, <2>2, <1>5, <1>8 DEF Accept
      <3> QED BY <3>1, <3>2, <3>3
    <2>5. PICK d : d = [c EXCEPT !.acknow = TRUE, !.early = early]
      OBVIOUS
    <2>6. /\ d \in Connections /\ SameSending(c, d) /\ d.out = c.out
          /\ d.state = c.state /\ d.irs = c.irs /\ d.finr = c.finr
          /\ d.rcv = c.rcv /\ d.recv = c.recv /\ d.early = early
      BY <1>1, <2>5 DEF Connections, SameSending
    <2>7. \A y \in early :
            /\ Carries(Peer(e), y.seq, y.data, Bit(y.fin), x.theirs, x.over, x.sent)
            /\ Offset(Peer(e), c.rcv) < Offset(Peer(e), y.seq)
      <3>1. ASSUME NEW y \in early
            PROVE  /\ Carries(Peer(e), y.seq, y.data, Bit(y.fin), x.theirs,
                              x.over, x.sent)
                   /\ Offset(Peer(e), c.rcv) < Offset(Peer(e), y.seq)
        <4>1. CASE y \in c.early
          BY <4>1, <1>1 DEF TakesRight
        <4>2. CASE y = piece
          BY <4>2, <2>1, <2>2, <2>3
        <4> QED BY <4>1, <4>2, <2>4
      <3> QED BY <3>1
    <2>8. Readable(d, x) /\ TakesRight(e, d, x)
      BY <1>1, <2>6, <2>7 DEF Readable, TakesRight
    <2>9. KnownOf(e, c, x) <= Offset(Peer(e), d.rcv)
      BY <2>6, <1>3 DEF KnownOf
    <2>10. d.state \notin {"Closed", "SynSent"} /\ (Connecting(c) <=> Connecting(d))
      BY <2>6 DEF Connecting
    <2>11. Moves(e, c, d, x)
      BY <2>6, <2>8, <2>9, <2>10, StandsTaking
    <2>12. Moves(e, c, c, x)
      BY MovesSelf
    <2> QED BY <2>4, <2>5, <2>11, <2>12
  <1>9. CASE t.seq = c.rcv
    <2>1. PICK o \in Nat, n \in Nat :
            o = Offset(Peer(e), c.rcv) /\ n = Len(t.data) /\ n <= Window(c)
            /\ o + n + b <= x.sent
      <3>1. Offset(Peer(e), t.seq) + Len(t.data) + b <= x.sent
        BY <1>4, <1>6 DEF Carries
      <3> QED BY <3>1, <1>3, <1>4, <1>9
    <2>2. PICK rcv \in Numbers : rcv = Plus(c.rcv, n)
      <3>1. o + n < Modulus
        <4>1. x.sent <= x.theirs + 2
          BY <1>1, <1>2, TakenHolds
        <4>2. o + n <= x.sent
          BY SMTT(30), <2>1, <1>3
        <4> QED BY <4>1, <4>2, <1>3
      <3> QED BY <3>1, <2>1, <1>3, OffsetOfPlus
    <2>3. PICK recv \in Seq(Bytes) : recv = c.recv \o t.data
      BY <1>1, <1>4, ConcatProperties DEF Connections
    <2>4. PICK acknow \in BOOLEAN : acknow = (c.acknow \/ t.data # <<>>)
      OBVIOUS
    <2>5. PICK d : d = [c EXCEPT !.recv = recv, !.rcv = rcv, !.acknow = acknow]
      OBVIOUS
    <2>6. /\ d \in Connections /\ SameSending(c, d) /\ d.out = c.out
          /\ d.state = c.state /\ d.irs = c.irs /\ d.finr = c.finr
          /\ d.rcv = rcv /\ d.recv = recv /\ d.early = c.early
      BY ZenonT(60), <1>1, <2>5 DEF Connections, SameSending
    <2>7. Gathers(e, c, c, x)
      BY <1>1, <1>2, <1>3 DEF Gathers, SameSending
    <2>8. Gathers(e, c, d, x) /\ Offset(Peer(e), d.rcv) = o + n
      <3>1. Continues(e, c, t.data, x)
        BY <1>4, <1>9 DEF Carries, Continues
      <3>2. Len(t.data) <= Window(c) /\ LongerBy(c, d, t.data)
        BY <2>1, <2>2, <2>3, <2>6 DEF LongerBy
      <3>3. Offset(Peer(e), c.rcv) + Len(t.data) <= x.sent
        BY SMTT(30), <2>1, <1>3
      <3>4. /\ Gathers(e, c, d, x)
            /\ Offset(Peer(e), d.rcv) = Offset(Peer(e), c.rcv) + Len(t.data)
        BY <3>1, <3>2, <3>3, <2>7, <1>4, GathersMore
      <3> QED BY <3>4, <2>1
    <2>9. CASE fin
      <3>1. Accept(c, t) = ReceiveFin(d)
        BY <2>1, <2>2, <2>3, <2>4, <2>5, <2>9, <1>5, <1>9 DEF Accept
      <3>2. b = 1
        BY <2>9, <1>6
      <3>3. x.over /\ Offset(Peer(e), t.seq) + Len(t.data) = x.theirs + 1
        BY <3>2, <1>4, <1>6 DEF Carries
      <3>4. Offset(Peer(e), d.rcv) = x.theirs + 1 /\ x.sent >= x.theirs + 2
        BY <3>2, <3>3, <2>1, <2>8, <1>3, <1>9
      <3>5. Moves(e, c, ReceiveFin(d), x)
        BY <3>3, <3>4, <2>8, ReceiveFinMoves
      <3> QED BY <3>1, <3>5
    <2>10. CASE ~fin
      <3>1. Accept(c, t) = JoinEarly(d)
        BY <2>1, <2>2, <2>3, <2>4, <2>5, <2>10, <1>5, <1>9 DEF Accept
      <3>2. Moves(e, c, JoinEarly(d), x)
        BY <2>8, JoinEarlyMoves
      <3> QED BY <3>1, <3>2
    <2> QED BY <2>9, <2>10
  <1> QED BY <1>8, <1>9

-----------------------------------------------------------------------------
(* What trimming leaves of a segment.                                        *)

(* A segment of the peer's.                                                  *)
Comes(e, s, x) ==
    s \in Segments /\ Genuine(Peer(e), s, x.theirs, x.over, x.sent, x.known)

(* What trimming leaves alone.                                               *)
SameAck(s, t) ==
    /\ t.ack = s.ack /\ t.wnd = s.wnd
    /\ "ACK" \in t.flags <=> "ACK" \in s.flags
    /\ "RST" \in t.flags <=> "RST" \in s.flags

LEMMA ComesHolds ==
    ASSUME NEW e \in Ends, NEW x, Context(e, x), NEW s, Comes(e, s, x),
           "RST" \notin s.flags
    PROVE  /\ s \in Segments /\ s.seq \in Numbers /\ s.ack \in Numbers
           /\ s.data \in Seq(Bytes) /\ Len(s.data) \in Nat
           /\ Content(Peer(e), s, x.theirs, x.over, x.sent)
           /\ Acks(e, s, x.known) /\ x.sent \in Nat /\ x.theirs \in Nat
           /\ Starts(Peer(e))
  <1>1. s \in Segments /\ Content(Peer(e), s, x.theirs, x.over, x.sent)
        /\ Acks(Peer(Peer(e)), s, x.known)
    BY DEF Comes, Genuine
  <1>2. Peer(Peer(e)) = e
    BY TwoEnds
  <1> QED BY <1>1, <1>2 DEF Segments, Context, Contexts

Trimmed(s, t, seq, data, less) ==
    t = [s EXCEPT !.seq = seq, !.data = data, !.flags = @ \ less]

LEMMA TrimShape ==
    ASSUME NEW s \in Segments, NEW seq \in Numbers, NEW data \in Seq(Bytes),
           NEW less, "ACK" \notin less, "RST" \notin less,
           NEW t, Trimmed(s, t, seq, data, less)
    PROVE  /\ t \in Segments /\ t.seq = seq /\ t.data = data
           /\ t.flags = s.flags \ less /\ SameAck(s, t)
  BY DEF Segments, SameAck, Trimmed

LEMMA TrimOldKeeps ==
    ASSUME NEW c, NEW s \in Segments
    PROVE  /\ "RST" \in TrimOld(c, s).flags <=> "RST" \in s.flags
           /\ TrimOld(c, s).ack = s.ack
           /\ "ACK" \in TrimOld(c, s).flags <=> "ACK" \in s.flags
  BY DEF TrimOld, Segments

LEMMA TrimOldArrived ==
    ASSUME NEW e \in Ends, NEW x, Context(e, x), NEW c \in Connections,
           Readable(c, x), TakesMost(e, c, x), NEW s, Comes(e, s, x),
           "RST" \notin s.flags
    PROVE  /\ Arrived(e, c, TrimOld(c, s), x) /\ SameAck(s, TrimOld(c, s))
           /\ "SYN" \notin TrimOld(c, s).flags
  <1>1. /\ s \in Segments /\ s.seq \in Numbers /\ s.ack \in Numbers
        /\ s.data \in Seq(Bytes) /\ Len(s.data) \in Nat
        /\ Content(Peer(e), s, x.theirs, x.over, x.sent)
        /\ x.sent \in Nat /\ x.theirs \in Nat
    BY ComesHolds
  <1>2. /\ c.rcv \in Numbers /\ Near(Peer(e), c.rcv) /\ Starts(Peer(e))
        /\ Offset(Peer(e), c.rcv) \in Nat /\ Offset(Peer(e), c.rcv) >= 1
    BY TakenHolds
  <1>3. Offset(Peer(e), c.rcv) <= x.sent
    BY DEF TakesMost
  <1>4. PICK o \in Nat, so \in Nat, n \in Nat :
          o = Offset(Peer(e), c.rcv) /\ so = Offset(Peer(e), s.seq)
          /\ n = Len(s.data) /\ o >= 1 /\ o <= x.sent
    BY <1>1, <1>2, <1>3, OffsetIs
  <1>5. PICK t : t = TrimOld(c, s)
    OBVIOUS
  <1>6. ASSUME NEW f \in SUBSET Flags, "FIN" \notin f
        PROVE  Carries(Peer(e), c.rcv, <<>>, Bit("FIN" \in f), x.theirs, x.over,
                       x.sent)
    <2>1. Bit("FIN" \in f) = 0
      BY <1>6 DEF Bit
    <2>2. 0 \in {0, 1} /\ Offset(Peer(e), c.rcv) + 0 <= x.sent
          /\ x.theirs \in Int /\ x.sent \in Int
      BY <1>1, <1>2, <1>3
    <2>3. Carries(Peer(e), c.rcv, <<>>, 0, x.theirs, x.over, x.sent)
      BY <2>2, <1>2, EmptyCarries
    <2> QED BY <2>1, <2>3
  <1>7. CASE "SYN" \in s.flags
    <2>1. s.seq = Start(Peer(e)) /\ s.data = <<>> /\ "FIN" \notin s.flags
      BY <1>1, <1>7 DEF Content
    <2>2. so = 0 /\ Near(Peer(e), s.seq)
      BY <2>1, <1>2, <1>4, OffsetOfStart
    <2>3. IsOld(c, s)
      BY <2>2, <1>2, <1>4, BeforeIs DEF IsOld
    <2>4. Distance(s.seq, c.rcv) = o
      BY <2>2, <1>1, <1>2, <1>4, DistanceOf
    <2>5. PICK old \in Nat : old = OldBytes(c, s) /\ old = o - 1
      BY <2>4, <1>4, <1>7 DEF OldBytes
    <2>6. PICK less : less = (IF old > Len(s.data) THEN {"SYN", "FIN"} ELSE {"SYN"})
      OBVIOUS
    <2>7. SubSeq(s.data, old + 1, Len(s.data)) = <<>>
      BY <2>1, <2>5, SubSeqEmpty
    <2>8. Trimmed(s, t, c.rcv, <<>>, less)
      BY <2>3, <2>5, <2>6, <2>7, <1>5 DEF TrimOld, Trimmed
    <2>9. <<>> \in Seq(Bytes) /\ "ACK" \notin less /\ "RST" \notin less
          /\ "SYN" \in less
      BY <2>6
    <2>10. /\ t \in Segments /\ t.seq = c.rcv /\ t.data = <<>>
           /\ t.flags = s.flags \ less /\ SameAck(s, t)
      BY <2>8, <2>9, <1>1, <1>2, TrimShape
    <2>11. t.flags \in SUBSET Flags /\ "FIN" \notin t.flags
      BY <2>1, <2>10 DEF Segments
    <2>12. Carries(Peer(e), t.seq, t.data, Bit("FIN" \in t.flags), x.theirs,
                   x.over, x.sent)
      BY <2>10, <2>11, <1>6
    <2>13. Offset(Peer(e), c.rcv) <= Offset(Peer(e), t.seq)
      BY <2>10, <1>2
    <2> QED BY <2>9, <2>10, <2>12, <2>13, <1>5 DEF Arrived
  <1>8. CASE "SYN" \notin s.flags
    <2>1. Carries(Peer(e), s.seq, s.data, Bit("FIN" \in s.flags), x.theirs,
                  x.over, x.sent)
      BY <1>1, <1>8 DEF Content
    <2>2. Near(Peer(e), s.seq)
      BY <2>1 DEF Carries
    <2>3. IsOld(c, s) <=> so < o
      BY SMTT(30), <2>2, <1>2, <1>4, BeforeIs DEF IsOld
    <2>4. CASE ~IsOld(c, s)
      <3>1. t = s
        BY <2>4, <1>5 DEF TrimOld
      <3>2. Offset(Peer(e), c.rcv) <= Offset(Peer(e), s.seq)
        BY <2>3, <2>4, <1>4
      <3> QED BY <3>1, <3>2, <2>1, <1>1, <1>5, <1>8 DEF Arrived, SameAck
    <2>5. CASE IsOld(c, s)
      <3>1. Distance(s.seq, c.rcv) = o - so /\ so < o
        BY <2>3, <2>5, <1>1, <1>2, <1>4, DistanceOf
      <3>2. PICK old \in Nat : old = OldBytes(c, s) /\ old = o - so /\ old >= 1
        BY <3>1, <1>4, <1>8 DEF OldBytes
      <3>3. PICK less : less = (IF old > n THEN {"SYN", "FIN"} ELSE {"SYN"})
        OBVIOUS
      <3>4. PICK first \in Nat : first = old + 1
        OBVIOUS
      <3>5. PICK data : data = SubSeq(s.data, first, n)
        OBVIOUS
      <3>6. /\ data \in Seq(Bytes)
            /\ Len(data) = IF first <= n THEN n - first + 1 ELSE 0
            /\ \A k \in 1 .. Len(data) : data[k] = s.data[first + k - 1]
        BY <3>4, <3>5, <1>1, <1>4, SubSeqIs
      <3>7. Trimmed(s, t, c.rcv, data, less)
        BY <2>5, <3>2, <3>3, <3>4, <3>5, <1>4, <1>5 DEF TrimOld, Trimmed
      <3>8. "ACK" \notin less /\ "RST" \notin less /\ "SYN" \in less
        BY <3>3
      <3>9. /\ t \in Segments /\ t.seq = c.rcv /\ t.data = data
            /\ t.flags = s.flags \ less /\ SameAck(s, t)
        BY <3>6, <3>7, <3>8, <1>1, <1>2, TrimShape
      <3>10. Carries(Peer(e), t.seq, t.data, Bit("FIN" \in t.flags), x.theirs,
                     x.over, x.sent)
        <4>1. CASE old > n
          <5>1. Len(data) = 0
            BY <4>1, <3>4, <3>6
          <5>2. data = <<>>
            BY <5>1, <3>6, EmptySeq
          <5>3. t.flags \in SUBSET Flags /\ "FIN" \notin t.flags
            BY <4>1, <3>3, <3>9 DEF Segments
          <5> QED BY <5>2, <5>3, <3>9, <1>6
        <4>2. CASE ~(old > n)
          <5>1. Len(data) = n - old
            BY <4>2, <3>4, <3>6
          <5>2. ("FIN" \in t.flags) <=> ("FIN" \in s.flags)
            BY <4>2, <3>3, <3>9
          <5>3. PICK b \in {0, 1} :
                  b = Bit("FIN" \in t.flags) /\ b = Bit("FIN" \in s.flags)
            BY <5>2 DEF Bit
          <5>4. /\ so + n + b <= x.sent
                /\ \A k \in 1 .. n : /\ s.data[k] = Tagged(1, so - 1 + k)
                                     /\ so - 1 + k <= x.theirs
                /\ b = 1 => x.over /\ so + n = x.theirs + 1
            BY <2>1, <5>3, <1>4 DEF Carries
          <5>5. ASSUME NEW k \in 1 .. Len(data)
                PROVE  /\ data[k] = Tagged(1, o - 1 + k) /\ o - 1 + k <= x.theirs
            <6>1. PICK j \in 1 .. n : j = first + k - 1 /\ j = old + k
              BY <5>1, <3>2, <3>4
            <6>2. so - 1 + j = o - 1 + k
              BY <6>1, <3>2
            <6> QED BY <6>1, <6>2, <5>4, <3>6
          <5>6. o + Len(data) = so + n
            BY <5>1, <3>2
          <5>7. Carries(Peer(e), c.rcv, data, b, x.theirs, x.over, x.sent)
            BY <5>4, <5>5, <5>6, <1>2, <1>4 DEF Carries
          <5> QED BY <5>3, <5>7, <3>9
        <4> QED BY <4>1, <4>2
      <3>11. Offset(Peer(e), c.rcv) <= Offset(Peer(e), t.seq)
        BY <3>9, <1>2
      <3> QED BY <3>8, <3>9, <3>10, <3>11, <1>5 DEF Arrived
    <2> QED BY <2>4, <2>5
  <1> QED BY <1>7, <1>8

LEMMA TrimWindowFits ==
    ASSUME NEW e \in Ends, NEW x, Context(e, x), NEW c \in Connections,
           Readable(c, x), TakesMost(e, c, x), NEW t, Arrived(e, c, t, x),
           "SYN" \notin t.flags, ~IsOutside(c, t)
    PROVE  /\ Fits(e, c, TrimWindow(c, t), x) /\ SameAck(t, TrimWindow(c, t))
           /\ "SYN" \notin TrimWindow(c, t).flags
  <1>1. /\ t \in Segments /\ t.seq \in Numbers /\ t.data \in Seq(Bytes)
        /\ Len(t.data) \in Nat
        /\ Carries(Peer(e), t.seq, t.data, Bit("FIN" \in t.flags), x.theirs,
                   x.over, x.sent)
        /\ Offset(Peer(e), c.rcv) <= Offset(Peer(e), t.seq)
    BY DEF Arrived, Segments
  <1>2. /\ c.rcv \in Numbers /\ Starts(Peer(e)) /\ Offset(Peer(e), c.rcv) \in Nat
        /\ Window(c) \in Nat /\ x.sent \in Nat /\ x.theirs \in Nat
    BY TakenHolds
  <1>3. PICK o \in Nat, so \in Nat, n \in Nat, w \in Nat :
          o = Offset(Peer(e), c.rcv) /\ so = Offset(Peer(e), t.seq)
          /\ n = Len(t.data) /\ w = Window(c) /\ o <= so
    BY <1>1, <1>2, OffsetIs
  <1>4. Distance(c.rcv, t.seq) = so - o
    BY <1>1, <1>2, <1>3, DistanceOf
  <1>5. so - o < w \/ (n = 0 /\ so = o)
    <2>1. Distance(c.rcv, t.seq) < Window(c) \/ (t.data = <<>> /\ t.seq = c.rcv)
      <3>1. Distance(c.rcv, t.seq) \in Int
        BY <1>3, <1>4
      <3> QED BY <3>1, <1>2 DEF IsOutside
    <2>2. t.data = <<>> => n = 0
      BY <1>3
    <2> QED BY <2>1, <2>2, <1>3, <1>4
  <1>6. PICK room \in Int : room = w - (so - o)
    OBVIOUS
  <1>7. PICK u : u = TrimWindow(c, t)
    BY SMTT(30)
  <1>8. CASE n <= room
    <2>1. u = t
      BY <1>3, <1>4, <1>6, <1>7, <1>8 DEF TrimWindow
    <2>2. Offset(Peer(e), t.seq) + Len(t.data) <= Offset(Peer(e), c.rcv) + Window(c)
      BY SMTT(30), <1>3, <1>6, <1>8
    <2> QED BY <2>1, <2>2, <1>7 DEF Fits, SameAck
  <1>9. CASE ~(n <= room)
    <2>1. room >= 1 /\ room < n /\ room \in Nat
      BY <1>5, <1>6, <1>9
    <2>2. PICK data : data = SubSeq(t.data, 1, room)
      OBVIOUS
    <2>3. /\ data \in Seq(Bytes) /\ Len(data) = room
          /\ \A k \in 1 .. room : data[k] = t.data[k]
      <3>1. 1 \in Nat /\ 1 >= 1 /\ room <= Len(t.data)
        BY <2>1, <1>3
      <3>2. /\ data \in Seq(Bytes)
            /\ Len(data) = IF 1 <= room THEN room - 1 + 1 ELSE 0
            /\ \A k \in 1 .. Len(data) : data[k] = t.data[1 + k - 1]
        BY <3>1, <2>1, <2>2, <1>1, SubSeqIs
      <3> QED BY <3>2, <2>1
    <2>4. PICK less : less = {"FIN"}
      OBVIOUS
    <2>5. Trimmed(t, u, t.seq, data, less)
      <3>1. u = [t EXCEPT !.data = data, !.flags = @ \ less]
        BY <2>2, <2>4, <1>3, <1>4, <1>6, <1>7, <1>9 DEF TrimWindow
      <3> QED BY <3>1, <1>1 DEF Segments, Trimmed
    <2>6. /\ u \in Segments /\ u.seq = t.seq /\ u.data = data
          /\ u.flags = t.flags \ less /\ SameAck(t, u)
      <3>1. "ACK" \notin less /\ "RST" \notin less
        BY <2>4
      <3> QED BY <3>1, <2>3, <2>5, <1>1, TrimShape
    <2>7. Bit("FIN" \in u.flags) = 0 /\ "SYN" \notin u.flags
      BY <2>4, <2>6 DEF Bit
    <2>8. PICK b \in {0, 1} : b = Bit("FIN" \in t.flags)
      BY DEF Bit
    <2>9. /\ so + n + b <= x.sent /\ Near(Peer(e), t.seq) /\ so >= 1
          /\ \A k \in 1 .. n : /\ t.data[k] = Tagged(1, so - 1 + k)
                               /\ so - 1 + k <= x.theirs
      BY <2>8, <1>1, <1>3 DEF Carries
    <2>10. so + room + 0 <= x.sent
      BY <2>1, <2>9, <1>2
    <2>11. \A k \in 1 .. room : /\ data[k] = Tagged(1, so - 1 + k)
                                /\ so - 1 + k <= x.theirs
      <3>1. \A k \in 1 .. room : k \in 1 .. n
        BY <2>1
      <3> QED BY <3>1, <2>3, <2>9
    <2>12. Carries(Peer(e), t.seq, data, 0, x.theirs, x.over, x.sent)
      BY <2>3, <2>9, <2>10, <2>11, <1>3 DEF Carries
    <2>13. Offset(Peer(e), u.seq) + Len(u.data)
             <= Offset(Peer(e), c.rcv) + Window(c)
      BY <2>3, <2>6, <1>3, <1>6
    <2>14. Arrived(e, c, u, x)
      BY <2>6, <2>7, <2>12, <1>1 DEF Arrived
    <2> QED BY <2>6, <2>7, <2>13, <2>14, <1>7 DEF Fits
  <1> QED BY <1>8, <1>9

Bared(t, u) == u = [t EXCEPT !.data = <<>>, !.flags = @ \ {"FIN", "SYN"}]

(* A segment bared of its data and its FIN fits.                             *)
LEMMA BareFits ==
    ASSUME NEW e \in Ends, NEW x, Context(e, x), NEW c \in Connections,
           Readable(c, x), TakesMost(e, c, x), NEW t \in Segments,
           t.seq = c.rcv, NEW u, Bared(t, u)
    PROVE  Fits(e, c, u, x) /\ SameAck(t, u) /\ "SYN" \notin u.flags
  <1>1. /\ c.rcv \in Numbers /\ Starts(Peer(e)) /\ Offset(Peer(e), c.rcv) \in Nat
        /\ Window(c) \in Nat /\ x.sent \in Nat /\ x.theirs \in Nat
        /\ Near(Peer(e), c.rcv) /\ Offset(Peer(e), c.rcv) >= 1
    BY TakenHolds
  <1>2. PICK less : less = {"FIN", "SYN"}
    OBVIOUS
  <1>3. Trimmed(t, u, c.rcv, <<>>, less)
    BY <1>2 DEF Segments, Trimmed, Bared
  <1>4. <<>> \in Seq(Bytes) /\ "ACK" \notin less /\ "RST" \notin less
    BY <1>2
  <1>5. /\ u \in Segments /\ u.seq = c.rcv /\ u.data = <<>>
        /\ u.flags = t.flags \ less /\ SameAck(t, u)
    BY <1>1, <1>3, <1>4, TrimShape
  <1>6. Bit("FIN" \in u.flags) = 0 /\ "SYN" \notin u.flags
    BY <1>2, <1>5 DEF Bit
  <1>7. Offset(Peer(e), c.rcv) + 0 <= x.sent
    BY <1>1 DEF TakesMost
  <1>8. Carries(Peer(e), u.seq, u.data, 0, x.theirs, x.over, x.sent)
    <2>1. 0 \in {0, 1} /\ x.theirs \in Int /\ x.sent \in Int
      BY <1>1
    <2> QED BY <2>1, <1>1, <1>5, <1>7, EmptyCarries
  <1>9. Offset(Peer(e), u.seq) + Len(u.data) <= Offset(Peer(e), c.rcv) + Window(c)
    <2>1. Len(u.data) = 0
      BY <1>5
    <2> QED BY <2>1, <1>1, <1>5
  <1> QED BY <1>1, <1>5, <1>6, <1>8, <1>9 DEF Fits, Arrived

-----------------------------------------------------------------------------
(* Input.                                                                    *)

LEMMA SameFits ==
    ASSUME NEW e, NEW x, NEW c, NEW d, NEW t, SameIntake(c, d), Fits(e, c, t, x)
    PROVE  Fits(e, d, t, x)
  BY DEF SameIntake, Fits, Arrived, Window

(* What InputAck makes of a connection that took the acknowledgement.        *)
Taking(c, t, s) ==
    CASE c.state = "Closed" -> c
      [] c.state \in {"Established", "FinWait1", "FinWait2"} ->
           Output(Accept(c, t))
      [] c.state = "TimeWait" /\ "FIN" \in s.flags -> AckNow(c)
      [] OTHER -> Output(c)

(* An acknowledgement of no more than was sent is taken.                     *)
LEMMA InputAckIs ==
    ASSUME NEW c, NEW t, NEW s, ~Before(c.max, t.ack)
    PROVE  InputAck(c, t, s) = Taking(FinTaken(Acknowledge(c, t)), t, s)
  BY DEF InputAck, Taking

(* The data and the FIN of a trimmed segment are taken,                      *)
LEMMA TakingMoves ==
    ASSUME NEW e \in Ends, NEW x, Context(e, x), NEW c, Sound(e, c, x),
           c.state # "Closed", ~Connecting(c), NEW t, Fits(e, c, t, x), NEW s
    PROVE  Moves(e, c, Taking(FinTaken(c), t, s), x)
  <1>1. PICK d : d = FinTaken(c)
    OBVIOUS
  <1>2. /\ Moves(e, c, d, x) /\ ~Connecting(d) /\ Sound(e, d, x)
        /\ d.state # "Closed" => Onward(e, c, d, x)
    BY <1>1, FinTakenMoves DEF Moves
  <1>3. CASE d.state = "Closed"
    BY <1>1, <1>2, <1>3 DEF Taking
  <1>4. CASE d.state \in {"Established", "FinWait1", "FinWait2"}
    <2>1. Fits(e, d, t, x)
      BY <1>2, <1>4, SameFits DEF Onward
    <2>2. PICK f : f = Accept(d, t)
      OBVIOUS
    <2>3. Moves(e, d, f, x) /\ Sound(e, f, x)
      BY <2>1, <2>2, <1>2, <1>4, AcceptMoves DEF Moves
    <2>4. Moves(e, f, Output(f), x)
      BY <2>3, OutputOnward, OnwardMoves
    <2>5. Moves(e, d, Output(f), x)
      BY <2>3, <2>4, <1>2, MovesOn
    <2>6. Moves(e, c, Output(f), x)
      BY <2>5, <1>2, MovesOn
    <2> QED BY <2>2, <2>6, <1>1, <1>4 DEF Taking
  <1>5. CASE d.state = "TimeWait" /\ "FIN" \in s.flags
    <2>1. Moves(e, d, AckNow(d), x)
      BY <1>2, AckNowOnward, OnwardMoves
    <2>2. Moves(e, c, AckNow(d), x)
      BY <2>1, <1>2, MovesOn
    <2> QED BY <2>2, <1>1, <1>5 DEF Taking
  <1>6. CASE /\ d.state \notin {"Closed", "Established", "FinWait1", "FinWait2"}
             /\ ~(d.state = "TimeWait" /\ "FIN" \in s.flags)
    <2>1. Moves(e, d, Output(d), x)
      BY <1>2, OutputOnward, OnwardMoves
    <2>2. Moves(e, c, Output(d), x)
      BY <2>1, <1>2, MovesOn
    <2>3. Taking(d, t, s) = Output(d)
      BY <1>6 DEF Taking
    <2> QED BY <2>2, <2>3, <1>1
  <1> QED BY <1>3, <1>4, <1>5, <1>6

(* An acknowledgement that is not past what was sent.                        *)
LEMMA AcksAcceptable ==
    ASSUME NEW e \in Ends, NEW x, Context(e, x), NEW c, NEW t,
           Near(e, c.max), Acks(e, t, x.known), "ACK" \in t.flags,
           ~Before(c.max, t.ack)
    PROVE  Acceptable(e, c, t.ack, x)
  <1>1. Near(e, t.ack) /\ Offset(e, t.ack) >= 1 /\ Offset(e, t.ack) <= x.known
        /\ Starts(e)
    BY DEF Acks, Context
  <1>2. Before(c.max, t.ack) <=> Offset(e, c.max) < Offset(e, t.ack)
    BY <1>1, BeforeIs
  <1>3. Offset(e, c.max) \in Nat /\ Offset(e, t.ack) \in Nat
    BY <1>1, OffsetIs DEF Near
  <1> QED BY <1>1, <1>2, <1>3 DEF Acceptable

(* after its acknowledgement.                                                *)
LEMMA InputAckMoves ==
    ASSUME NEW e \in Ends, NEW x, Context(e, x), NEW c, Sound(e, c, x),
           c.state # "Closed", ~Connecting(c), NEW t, Fits(e, c, t, x),
           Acks(e, t, x.known), "ACK" \in t.flags, NEW s
    PROVE  Moves(e, c, InputAck(c, t, s), x)
  <1>1. CASE Before(c.max, t.ack)
    <2>1. Moves(e, c, AckNow(c), x)
      BY AckNowOnward, OnwardMoves
    <2> QED BY <2>1, <1>1 DEF InputAck
  <1>2. CASE ~Before(c.max, t.ack)
    <2>1. Near(e, c.max)
      BY LiveHolds
    <2>2. Acceptable(e, c, t.ack, x)
      BY <2>1, <1>2, AcksAcceptable
    <2>3. Poised(e, c, x) /\ Willing(e, c, x) /\ t \in Segments
      BY SoundPoised DEF Willing, Fits, Arrived
    <2>4. PICK d : d = Acknowledge(c, t)
      OBVIOUS
    <2>5. Onward(e, c, d, x) /\ d.state = c.state
      BY <2>2, <2>3, <2>4, AcknowledgeOnward
    <2>6. Moves(e, c, d, x) /\ Sound(e, d, x) /\ SameIntake(c, d)
      BY <2>5, OnwardMoves DEF Onward
    <2>7. Fits(e, d, t, x)
      BY <2>6, SameFits
    <2>8. d.state # "Closed" /\ ~Connecting(d)
      BY <2>5 DEF Connecting
    <2>9. Moves(e, d, Taking(FinTaken(d), t, s), x)
      BY <2>6, <2>7, <2>8, TakingMoves
    <2>10. Moves(e, c, Taking(FinTaken(d), t, s), x)
      BY <2>6, <2>9, MovesOn
    <2> QED BY <2>4, <2>10, <1>2, InputAckIs
  <1> QED BY <1>1, <1>2

(* What remains of a segment once it is trimmed to the window.               *)
LEMMA InputTrimmedMoves ==
    ASSUME NEW e \in Ends, NEW x, Context(e, x), NEW c, Sound(e, c, x),
           c.state \notin {"Closed", "SynSent"}, NEW t, NEW s,
           "RST" \in t.flags
             \/ (Fits(e, c, t, x) /\ "SYN" \notin t.flags /\ Acks(e, t, x.known))
    PROVE  Moves(e, c, InputTrimmed(c, t, s), x)
  <1>1. CASE "RST" \in t.flags
    <2>1. PICK failure \in Failures :
            /\ failure = (CASE c.connected -> "Reset"
                            [] ~c.connected /\ c.active -> "Refused"
                            [] OTHER -> "None")
            /\ failure # "None" \/ ~c.connected
      <3>1. PICK failure : failure = (CASE c.connected -> "Reset"
                                        [] ~c.connected /\ c.active -> "Refused"
                                        [] OTHER -> "None")
        OBVIOUS
      <3>2. CASE c.connected
        BY <3>1, <3>2 DEF Failures
      <3>3. CASE ~c.connected /\ c.active
        BY <3>1, <3>3 DEF Failures
      <3>4. CASE ~c.connected /\ ~c.active
        BY <3>1, <3>4 DEF Failures
      <3> QED BY <3>1, <3>2, <3>3, <3>4
    <2>2. Moves(e, c, Fail(c, failure), x)
      BY <2>1, FailMoves DEF Moves
    <2>3. Moves(e, c, c, x)
      BY MovesSelf
    <2>4. InputTrimmed(c, t, s) = IF IsOld(c, s) THEN c ELSE Fail(c, failure)
      BY <2>1, <1>1 DEF InputTrimmed
    <2> QED BY <2>2, <2>3, <2>4
  <1>2. CASE "RST" \notin t.flags
    <2>1. Fits(e, c, t, x) /\ "SYN" \notin t.flags /\ Acks(e, t, x.known)
      BY <1>2
    <2>2. CASE "ACK" \notin t.flags
      <3>1. t.flags \cap {"RST", "SYN", "ACK"} = {}
        BY <2>1, <2>2, <1>2
      <3>2. InputTrimmed(c, t, s) = c
        BY <3>1, <2>1, <1>2 DEF InputTrimmed
      <3> QED BY <3>2, MovesSelf
    <2>3. CASE "ACK" \in t.flags
      <3>1. t.flags \cap {"RST", "SYN", "ACK"} # {}
        BY <2>3
      <3>2. InputTrimmed(c, t, s) =
              IF c.state # "SynReceived" THEN InputAck(c, t, s)
              ELSE IF IsForeign(c, t)
                   THEN Emit(c, t.ack, {"RST"}, <<>>)
                   ELSE InputAck(Establish(c, t), t, s)
        BY <3>1, <2>1, <1>2 DEF InputTrimmed
      <3>3. CASE c.state # "SynReceived"
        <4>1. c.state # "Closed" /\ ~Connecting(c)
          BY <3>3 DEF Connecting
        <4>2. Moves(e, c, InputAck(c, t, s), x)
          BY <4>1, <2>1, <2>3, InputAckMoves
        <4> QED BY <4>2, <3>2, <3>3
      <3>4. CASE c.state = "SynReceived" /\ IsForeign(c, t)
        <4>1. t.ack \in Numbers
          BY <2>1 DEF Fits, Arrived, Segments
        <4>2. {"RST"} \in SUBSET Flags /\ <<>> \in Seq(Bytes) /\ "ACK" \notin {"RST"}
              /\ "RST" \in {"RST"}
          BY DEF Flags
        <4>3. Onward(e, c, Emit(c, t.ack, {"RST"}, <<>>), x)
          BY <4>1, <4>2, <3>4, EmitOnward
        <4>4. Moves(e, c, Emit(c, t.ack, {"RST"}, <<>>), x)
          BY <4>3, OnwardMoves
        <4> QED BY <4>4, <3>2, <3>4
      <3>5. CASE c.state = "SynReceived" /\ ~IsForeign(c, t)
        <4>1. PICK b : b = Establish(c, t)
          OBVIOUS
        <4>2. t \in Segments
          BY <2>1 DEF Fits, Arrived
        <4>3. b.max = c.max
          BY <4>1, <4>2, <3>5, EstablishPoised
        <4>4. ~Before(c.max, t.ack)
          BY <3>5 DEF IsForeign
        <4>5. Acceptable(e, c, t.ack, x)
          <5>1. Near(e, c.max)
            BY <3>5, LiveHolds
          <5> QED BY <5>1, <4>4, <2>1, <2>3, AcksAcceptable
        <4>6. PICK d : d = Acknowledge(b, t)
          OBVIOUS
        <4>7. Moves(e, c, d, x) /\ SameIntake(c, d) /\ d.state = "Established"
          BY <4>1, <4>2, <4>5, <4>6, <3>5, EstablishedMoves
        <4>8. Fits(e, d, t, x) /\ Sound(e, d, x) /\ ~Connecting(d)
          BY <4>7, <2>1, SameFits DEF Moves, Connecting
        <4>9. Moves(e, d, Taking(FinTaken(d), t, s), x)
          BY <4>7, <4>8, TakingMoves
        <4>10. Moves(e, c, Taking(FinTaken(d), t, s), x)
          BY <4>7, <4>9, MovesOn
        <4>11. InputAck(b, t, s) = Taking(FinTaken(d), t, s)
          BY <4>3, <4>4, <4>6, InputAckIs
        <4> QED BY <4>1, <4>10, <4>11, <3>2, <3>5
      <3> QED BY <3>3, <3>4, <3>5
    <2> QED BY <2>2, <2>3
  <1> QED BY <1>1, <1>2

(* A segment that comes to an end past SYN-SENT.                             *)
LEMMA InputOtherMoves ==
    ASSUME NEW e \in Ends, NEW x, Context(e, x), NEW c, Sound(e, c, x),
           c.state \notin {"Closed", "SynSent"}, NEW s, Comes(e, s, x)
    PROVE  Moves(e, c, InputOther(c, s), x)
  <1>1. PICK t : t = TrimOld(c, s)
    OBVIOUS
  <1>2. PICK acknow \in BOOLEAN : acknow = (c.acknow \/ IsRepeat(c, s))
    OBVIOUS
  <1>3. PICK noted : noted = [c EXCEPT !.acknow = acknow]
    OBVIOUS
  <1>4. noted \in Connections /\ Alike(c, noted) /\ noted.out = c.out
    BY <1>3 DEF Sound, Connections, Alike, SameIntake, SameSending
  <1>5. Onward(e, c, noted, x) /\ Sound(e, noted, x) /\ noted.state = c.state
    BY <1>4, AlikeOnward DEF Onward, Alike
  <1>6. PICK told : told = IF "RST" \in t.flags THEN noted ELSE AckNow(noted)
    OBVIOUS
  <1>7. Onward(e, noted, told, x)
    BY <1>5, <1>6, AckNowOnward, OnwardSelf
  <1>8. Onward(e, c, told, x) /\ Sound(e, told, x)
    BY <1>5, <1>7, OnwardOn DEF Onward
  <1>9. noted.state \notin {"Closed", "SynSent"}
        /\ told.state \notin {"Closed", "SynSent"}
    BY <1>5, <1>7 DEF Onward, SameStanding
  <1>10. PICK u : u = TrimWindow(c, t)
    OBVIOUS
  <1>11. PICK bare : Bared(t, bare)
    BY DEF Bared
  <1>12. InputOther(c, s) =
           IF ~IsOutside(c, t) THEN InputTrimmed(noted, u, s)
           ELSE IF t.seq # c.rcv \/ "ACK" \notin t.flags THEN told
           ELSE InputTrimmed(told, bare, s)
    BY <1>1, <1>2, <1>3, <1>6, <1>10, <1>11 DEF InputOther, Bared
  <1>13. s \in Segments
    BY DEF Comes
  <1>14. CASE "RST" \in s.flags
    <2>1. "RST" \in t.flags
      BY <1>1, <1>13, <1>14, TrimOldKeeps
    <2>2. "RST" \in u.flags
      BY <2>1, <1>10 DEF TrimWindow
    <2>3. "RST" \in bare.flags
      BY <2>1, <1>11 DEF Bared
    <2>4. Moves(e, noted, InputTrimmed(noted, u, s), x)
      BY <2>2, <1>5, <1>9, InputTrimmedMoves
    <2>5. Moves(e, told, InputTrimmed(told, bare, s), x)
      BY <2>3, <1>8, <1>9, InputTrimmedMoves
    <2>6. Moves(e, c, InputTrimmed(noted, u, s), x)
      BY <2>4, <1>5, OnwardMoves, MovesOn
    <2>7. Moves(e, c, told, x)
      BY <1>8, OnwardMoves
    <2>8. Moves(e, c, InputTrimmed(told, bare, s), x)
      BY <2>5, <2>7, <1>8, MovesOn
    <2> QED BY <2>6, <2>7, <2>8, <1>12
  <1>15. CASE "RST" \notin s.flags
    <2>1. c \in Connections /\ Readable(c, x) /\ TakesMost(e, c, x)
      BY DEF Sound, TakesRight, TakesMost
    <2>2. Arrived(e, c, t, x) /\ SameAck(s, t) /\ "SYN" \notin t.flags
      BY <2>1, <1>1, <1>15, TrimOldArrived
    <2>3. Acks(e, s, x.known)
      BY <1>15, ComesHolds
    <2>4. Moves(e, c, told, x)
      BY <1>8, OnwardMoves
    <2>5. CASE ~IsOutside(c, t)
      <3>1. Fits(e, c, u, x) /\ SameAck(t, u) /\ "SYN" \notin u.flags
        BY <2>1, <2>2, <2>5, <1>10, TrimWindowFits
      <3>2. Acks(e, u, x.known)
        BY <3>1, <2>2, <2>3 DEF Acks, SameAck
      <3>3. Fits(e, noted, u, x)
        BY <3>1, <1>4, SameFits DEF Alike
      <3>4. Moves(e, noted, InputTrimmed(noted, u, s), x)
        BY <3>1, <3>2, <3>3, <1>5, <1>9, InputTrimmedMoves
      <3>5. Moves(e, c, InputTrimmed(noted, u, s), x)
        BY <3>4, <1>5, OnwardMoves, MovesOn
      <3> QED BY <3>5, <2>5, <1>12
    <2>6. CASE IsOutside(c, t) /\ (t.seq # c.rcv \/ "ACK" \notin t.flags)
      BY <2>4, <2>6, <1>12
    <2>7. CASE IsOutside(c, t) /\ t.seq = c.rcv /\ "ACK" \in t.flags
      <3>1. t \in Segments
        BY <2>2 DEF Arrived
      <3>2. Fits(e, c, bare, x) /\ SameAck(t, bare) /\ "SYN" \notin bare.flags
        BY <3>1, <2>1, <2>7, <1>11, BareFits
      <3>3. Acks(e, bare, x.known)
        BY <3>2, <2>2, <2>3 DEF Acks, SameAck
      <3>4. Fits(e, told, bare, x)
        BY <3>2, <1>8, SameFits DEF Onward
      <3>5. Moves(e, told, InputTrimmed(told, bare, s), x)
        BY <3>2, <3>3, <3>4, <1>8, <1>9, InputTrimmedMoves
      <3>6. Moves(e, c, InputTrimmed(told, bare, s), x)
        BY <3>5, <2>4, <1>8, MovesOn
      <3> QED BY <3>6, <2>7, <1>12
    <2> QED BY <2>5, <2>6, <2>7
  <1> QED BY <1>14, <1>15


-----------------------------------------------------------------------------
(* A segment that comes.                                                     *)

(* The SYN of the peer, taken while the own one is not acknowledged.         *)
Meets(c, b, s, rcv) ==
    b = [c EXCEPT !.irs = s.seq, !.rcv = rcv, !.state = "SynReceived"]

(* The fields of an end that has seen the peer's SYN.                        *)
LEMMA MeetsShape ==
    ASSUME NEW c \in Connections, NEW s \in Segments, NEW rcv \in Numbers,
           NEW b, Meets(c, b, s, rcv)
    PROVE  /\ b \in Connections /\ SameSending(c, b) /\ b.out = c.out
           /\ b.state = "SynReceived" /\ b.irs = s.seq /\ b.rcv = rcv
           /\ b.recv = c.recv /\ b.early = c.early /\ b.finr = c.finr
  <1>1. PICK seq \in Numbers : seq = s.seq
    BY DEF Segments
  <1>2. PICK state \in States : state = "SynReceived"
    BY DEF States
  <1>3. b = [c EXCEPT !.irs = seq, !.rcv = rcv, !.state = state]
    BY <1>1, <1>2 DEF Meets
  <1> QED BY ZenonT(60), <1>1, <1>2, <1>3 DEF Connections, SameSending

(* The SYN of the peer tells where its stream starts.                        *)
LEMMA MeetsMoves ==
    ASSUME NEW e \in Ends, NEW x, Context(e, x), NEW c, Sound(e, c, x),
           c.state = "SynSent", NEW s, Comes(e, s, x), "RST" \notin s.flags,
           "SYN" \in s.flags, NEW b, Meets(c, b, s, Plus(s.seq, 1))
    PROVE  Moves(e, c, b, x) /\ b.state = "SynReceived"
  <1>1. c \in Connections /\ Readable(c, x) /\ TakesNothing(c, x)
    BY DEF Sound
  <1>2. s \in Segments /\ s.seq \in Numbers /\ s.seq = Start(Peer(e))
        /\ x.sent >= 1 /\ x.sent \in Nat /\ Starts(Peer(e))
    BY ComesHolds DEF Content
  <1>3. Modulus \in Nat /\ Modulus >= 4
    BY ModulusHolds
  <1>4. Offset(Peer(e), s.seq) = 0
    BY <1>2, OffsetOfStart
  <1>5. PICK rcv : rcv = Plus(s.seq, 1)
    OBVIOUS
  <1>6. rcv \in Numbers /\ Offset(Peer(e), rcv) = 1
    BY <1>2, <1>3, <1>4, <1>5, OffsetOfPlus
  <1>7. /\ b \in Connections /\ SameSending(c, b) /\ b.out = c.out
        /\ b.state = "SynReceived" /\ b.irs = s.seq /\ b.rcv = rcv
        /\ b.recv = c.recv /\ b.early = c.early /\ b.finr = c.finr
    BY <1>1, <1>2, <1>5, <1>6, MeetsShape
  <1>8. Readable(b, x)
    BY <1>1, <1>7 DEF Readable
  <1>9. TakesRight(e, b, x)
    <2>1. b.irs = Start(Peer(e)) /\ Near(Peer(e), b.rcv)
      BY <1>2, <1>3, <1>6, <1>7 DEF Near
    <2>2. x.read = 0 /\ b.recv = <<>> /\ b.early = {} /\ ~b.finr
      BY <1>1, <1>7 DEF TakesNothing
    <2>3. Len(b.recv) = 0 /\ Bit(b.finr) = 0
      BY <2>2 DEF Bit
    <2>4. Offset(Peer(e), b.rcv) = 1 + x.read + Len(b.recv) + Bit(b.finr)
      BY <2>2, <2>3, <1>6, <1>7
    <2>5. Offset(Peer(e), b.rcv) <= x.sent
      BY <1>2, <1>6, <1>7
    <2> QED BY <2>1, <2>2, <2>4, <2>5 DEF TakesRight
  <1>10. KnownOf(e, c, x) = 0
    BY DEF KnownOf
  <1>11. KnownOf(e, c, x) <= Offset(Peer(e), b.rcv)
    BY <1>10, <1>6, <1>7
  <1>12. Connecting(c) /\ Connecting(b) /\ b.state \notin {"Closed", "SynSent"}
         /\ c.state # "Closed"
    BY <1>7 DEF Connecting
  <1>13. Connecting(c) <=> Connecting(b)
    BY <1>12
  <1>14. Moves(e, c, b, x)
    BY <1>7, <1>8, <1>9, <1>11, <1>12, <1>13, StandsTaking
  <1> QED BY <1>7, <1>14

(* A SYN that acknowledges the one that came.                                *)
LEMMA SynAckOnward ==
    ASSUME NEW e \in Ends, NEW x, Context(e, x), NEW c, Sound(e, c, x),
           c.state = "SynReceived"
    PROVE  Onward(e, c, Emit(c, c.iss, {"SYN", "ACK"}, <<>>), x)
  <1>1. c.iss = Start(e) /\ Offset(e, c.max) = 1 /\ c.iss \in Numbers
    BY DEF Sound, SendsRight, Connecting, Connections
  <1>2. {"SYN", "ACK"} \in SUBSET Flags /\ <<>> \in Seq(Bytes)
    BY DEF Flags
  <1>3. Content(e, Segment(c.iss, 0, {"SYN", "ACK"}, 0, <<>>), x.mine, c.finq,
                Offset(e, c.max))
    BY <1>1 DEF Content, Segment
  <1> QED BY <1>1, <1>2, <1>3, EmitOnward

(* A segment that comes to an end in SYN-SENT.                               *)
LEMMA InputSynSentMoves ==
    ASSUME NEW e \in Ends, NEW x, Context(e, x), NEW c, Sound(e, c, x),
           c.state = "SynSent", NEW s, Comes(e, s, x)
    PROVE  Moves(e, c, InputSynSent(c, s), x)
  <1>1. s \in Segments /\ s.ack \in Numbers
    BY DEF Comes, Segments
  <1>2. Moves(e, c, c, x)
    BY MovesSelf
  <1>3. PICK b : b = [c EXCEPT !.irs = s.seq, !.rcv = Plus(s.seq, 1),
                               !.state = "SynReceived"]
    OBVIOUS
  <1>4. CASE "ACK" \in s.flags
              /\ (AtOrBefore(s.ack, c.iss) \/ Before(c.max, s.ack))
    <2>1. {"RST"} \in SUBSET Flags /\ <<>> \in Seq(Bytes) /\ "ACK" \notin {"RST"}
          /\ "RST" \in {"RST"} /\ c.state # "Closed"
      BY DEF Flags
    <2>2. Onward(e, c, Emit(c, s.ack, {"RST"}, <<>>), x)
      BY <2>1, <1>1, EmitOnward
    <2>3. Moves(e, c, Emit(c, s.ack, {"RST"}, <<>>), x)
      BY <2>2, OnwardMoves
    <2> QED BY <2>3, <1>2, <1>4 DEF InputSynSent
  <1>5. CASE /\ ~("ACK" \in s.flags
                    /\ (AtOrBefore(s.ack, c.iss) \/ Before(c.max, s.ack)))
             /\ "RST" \in s.flags
    <2>1. InputSynSent(c, s) = IF "ACK" \in s.flags THEN Fail(c, "Refused") ELSE c
      BY <1>5 DEF InputSynSent
    <2>2. "Refused" \in Failures /\ "Refused" # "None"
      BY DEF Failures
    <2>3. Moves(e, c, Fail(c, "Refused"), x)
      BY <2>2, FailMoves DEF Moves
    <2> QED BY <2>1, <2>3, <1>2
  <1>6. CASE /\ ~("ACK" \in s.flags
                    /\ (AtOrBefore(s.ack, c.iss) \/ Before(c.max, s.ack)))
             /\ "RST" \notin s.flags /\ "SYN" \notin s.flags
    <2>1. s.flags \cap {"RST", "SYN"} = {}
      BY <1>6
    <2>2. InputSynSent(c, s) = c
      BY <2>1, <1>6 DEF InputSynSent
    <2> QED BY <2>2, <1>2
  <1>7. CASE /\ ~("ACK" \in s.flags
                    /\ (AtOrBefore(s.ack, c.iss) \/ Before(c.max, s.ack)))
             /\ "RST" \notin s.flags /\ "SYN" \in s.flags
    <2>1. Moves(e, c, b, x) /\ b.state = "SynReceived" /\ Sound(e, b, x)
      <3>1. Meets(c, b, s, Plus(s.seq, 1))
        BY <1>3 DEF Meets
      <3> QED BY <3>1, <1>7, MeetsMoves DEF Moves
    <2>2. s.flags \cap {"RST", "SYN"} # {}
      BY <1>7
    <2>3. CASE "ACK" \notin s.flags
      <3>1. s.flags \cap {"RST", "SYN", "ACK"} = {"SYN"}
        BY <1>7, <2>3
      <3>2. b.iss = c.iss
        BY <1>3
      <3>3. b = [[c EXCEPT !.irs = s.seq, !.rcv = Plus(s.seq, 1)]
                   EXCEPT !.state = "SynReceived"]
        BY <1>3
      <3>4. InputSynSent(c, s) = Emit(b, b.iss, {"SYN", "ACK"}, <<>>)
        BY <3>1, <3>2, <3>3, <2>2, <2>3, <1>7 DEF InputSynSent
      <3>5. Moves(e, b, Emit(b, b.iss, {"SYN", "ACK"}, <<>>), x)
        BY <2>1, SynAckOnward, OnwardMoves
      <3>6. Moves(e, c, Emit(b, b.iss, {"SYN", "ACK"}, <<>>), x)
        BY <2>1, <3>5, MovesOn
      <3> QED BY <3>4, <3>6
    <2>4. CASE "ACK" \in s.flags
      <3>1. ~Before(c.max, s.ack) /\ Acks(e, s, x.known) /\ Near(e, b.max)
            /\ b.max = c.max
        <4>1. b.state # "Closed"
          BY <2>1
        <4>2. Near(e, b.max)
          BY <4>1, <2>1, LiveHolds
        <4> QED BY <4>2, <1>3, <1>7, <2>4, ComesHolds
      <3>2. Acceptable(e, b, s.ack, x)
        BY <3>1, <2>4, AcksAcceptable
      <3>3. PICK d : d = Acknowledge(Establish(b, s), s)
        OBVIOUS
      <3>4. Moves(e, b, d, x)
        BY <3>2, <3>3, <2>1, <1>1, EstablishedMoves
      <3>5. Moves(e, c, d, x) /\ Sound(e, d, x) /\ d \in Connections
        BY <3>4, <2>1, MovesOn DEF Moves, Sound
      <3>6. PICK f : f = [d EXCEPT !.acknow = TRUE]
        OBVIOUS
      <3>7. f \in Connections /\ Alike(d, f) /\ f.out = d.out
        BY <3>5, <3>6 DEF Connections, Alike, SameIntake, SameSending
      <3>8. Onward(e, d, f, x)
        BY <3>5, <3>7, AlikeOnward
      <3>9. Moves(e, c, f, x)
        BY <3>5, <3>8, OnwardMoves, MovesOn
      <3>10. Establish([c EXCEPT !.irs = s.seq, !.rcv = Plus(s.seq, 1)], s)
               = Establish(b, s)
        BY <1>3 DEF Establish
      <3>11. s.flags \cap {"RST", "SYN", "ACK"} # {"SYN"}
        BY <2>4
      <3>12. InputSynSent(c, s) = f
        BY <3>3, <3>6, <3>10, <3>11, <2>2, <2>4, <1>7 DEF InputSynSent
      <3> QED BY <3>9, <3>12
    <2> QED BY <2>3, <2>4
  <1> QED BY <1>4, <1>5, <1>6, <1>7

(* Connection::Input as a whole, for every segment that may come.            *)
LEMMA InputMoves ==
    ASSUME NEW e \in Ends, NEW x, Context(e, x), NEW c, Sound(e, c, x),
           NEW s, Comes(e, s, x)
    PROVE  Moves(e, c, Input(c, s), x)
  <1>1. CASE c.state = "Closed"
    BY <1>1, MovesSelf DEF Input
  <1>2. CASE c.state = "SynSent"
    <2>1. PICK d : d = InputSynSent(c, s)
      OBVIOUS
    <2>2. Moves(e, c, d, x) /\ Sound(e, d, x)
      BY <2>1, <1>2, InputSynSentMoves DEF Moves
    <2>3. Moves(e, d, Output(d), x)
      BY <2>2, OutputOnward, OnwardMoves
    <2>4. Moves(e, c, Output(d), x)
      BY <2>2, <2>3, MovesOn
    <2> QED BY <2>1, <2>4, <1>2 DEF Input
  <1>3. CASE c.state = "SynReceived" /\ s.flags \cap {"SYN", "ACK"} = {"SYN"}
               /\ s.seq = c.irs
    <2>1. Moves(e, c, Emit(c, c.iss, {"SYN", "ACK"}, <<>>), x)
      BY <1>3, SynAckOnward, OnwardMoves
    <2> QED BY <2>1, <1>3 DEF Input
  <1>4. CASE c.state \notin {"Closed", "SynSent"}
               /\ ~(c.state = "SynReceived" /\ s.flags \cap {"SYN", "ACK"} = {"SYN"}
                      /\ s.seq = c.irs)
    <2>1. Input(c, s) = InputOther(c, s)
      BY SMTT(30), <1>4 DEF Input
    <2> QED BY <2>1, <1>4, InputOtherMoves
  <1> QED BY <1>1, <1>2, <1>3, <1>4

-----------------------------------------------------------------------------
(* A timer that expires.                                                     *)

LEMMA ProbeOnward ==
    ASSUME NEW e \in Ends, NEW x, Context(e, x), NEW c, Sound(e, c, x),
           c.state # "Closed", ~Connecting(c), Unsettled(c), NEW d,
           d = [Emit(c, c.una, {"ACK"}, <<c.send[Distance(c.sseq, c.una) + 1]>>)
                  EXCEPT !.nxt = c.una, !.max = Later(@, Plus(c.una, 1))]
    PROVE  Onward(e, c, d, x)
  <1>1. /\ c \in Connections /\ SendsRight(e, c, x) /\ Starts(e)
        /\ Near(e, c.una) /\ c.una \in Numbers /\ Offset(e, c.una) \in Nat
        /\ Near(e, c.max) /\ c.max \in Numbers /\ Offset(e, c.max) \in Nat
        /\ Near(e, DataEnd(c)) /\ Offset(e, DataEnd(c)) = x.mine + 1
        /\ Offset(e, c.sseq) \in Nat /\ x.mine \in Nat
        /\ Len(c.send) \in 0 .. x.mine
        /\ Modulus \in Nat /\ 2 * (x.mine + 2) < Modulus
        /\ Bit(c.finq) \in {0, 1}
    BY LiveHolds
  <1>2. /\ Offset(e, c.sseq) <= Offset(e, c.una) /\ Offset(e, c.sseq) >= 1
        /\ Offset(e, c.una) <= Offset(e, c.max)
        /\ Offset(e, c.max) <= x.mine + 1 + Bit(c.finq)
        /\ c.state \notin {"Closed", "SynSent", "SynReceived"}
    <2>1. /\ Offset(e, c.sseq) <= Offset(e, c.una) /\ Offset(e, c.sseq) >= 1
          /\ Offset(e, c.una) <= Offset(e, c.nxt)
          /\ Offset(e, c.nxt) <= Offset(e, c.max)
          /\ Offset(e, c.max) <= x.mine + 1 + Bit(c.finq)
          /\ c.state \notin {"Closed", "SynSent", "SynReceived"}
      BY OrderHolds
    <2>2. Offset(e, c.nxt) \in Nat
      BY LiveHolds
    <2> QED BY <2>1, <2>2, <1>1
  <1>3. Before(c.una, DataEnd(c)) <=> Offset(e, c.una) < Offset(e, DataEnd(c))
    BY <1>1, BeforeIs
  <1>4. Offset(e, c.una) + 1 <= x.mine + 1
    BY <1>1, <1>3 DEF Unsettled
  <1>5. PICK first \in Nat : first = Distance(c.sseq, c.una)
              /\ first = Offset(e, c.una) - Offset(e, c.sseq)
    <2>1. c.sseq \in Numbers
      BY <1>1 DEF Connections
    <2>2. Distance(c.sseq, c.una) = Offset(e, c.una) - Offset(e, c.sseq)
      BY <1>1, <1>2, <2>1, DistanceOf
    <2> QED BY <1>1, <1>2, <2>2
  <1>6. Offset(e, c.sseq) = 1 + x.mine - Len(c.send)
    BY <1>1 DEF SendsRight
  <1>7. first + 1 <= Len(c.send) /\ first + 1 \in 1 .. Len(c.send)
    <2>1. PICK una \in Nat : una = Offset(e, c.una)
      BY <1>1
    <2>2. PICK sseq \in Nat : sseq = Offset(e, c.sseq)
      BY <1>1
    <2>3. PICK len \in Nat : len = Len(c.send)
      BY <1>1
    <2>4. sseq = 1 + x.mine - len /\ una + 1 <= x.mine + 1 /\ first = una - sseq
      BY <2>1, <2>2, <2>3, <1>4, <1>5, <1>6
    <2>m. PICK mine \in Nat : mine = x.mine
      BY <1>1
    <2>5. first + 1 <= len
      BY <2>4, <2>m
    <2> QED BY <2>3, <2>5
  <1>8. PICK data : data = <<c.send[first + 1]>>
    OBVIOUS
  <1>9. data = SubSeq(c.send, first + 1, first + 1)
    <2>1. c.send \in Seq(Bytes)
      BY <1>1 DEF Connections
    <2>2. PICK n \in Nat : n = first + 1
      OBVIOUS
    <2>3. n >= 1 /\ n <= Len(c.send)
      BY <1>7, <2>2
    <2>4. SubSeq(c.send, n, n) = <<c.send[n]>>
      <3>1. PICK sub : sub = SubSeq(c.send, n, n)
        OBVIOUS
      <3>2. sub \in Seq(Bytes) /\ Len(sub) = IF n <= n THEN n - n + 1 ELSE 0
        BY <2>1, <2>3, <3>1, SubSeqIs
      <3>a. \A k \in 1 .. Len(sub) : sub[k] = c.send[n + k - 1]
        BY <2>1, <2>3, <3>1, SubSeqIs
      <3>3. Len(sub) = 1
        BY <3>2
      <3>4. sub[1] = c.send[n + 1 - 1]
        BY <3>a, <3>3
      <3>5. sub[1] = c.send[n]
        BY <3>4
      <3>6. sub = <<sub[1]>>
        BY <3>2, <3>3
      <3> QED BY <3>1, <3>5, <3>6
    <2> QED BY <1>8, <2>2, <2>4
  <1>10. PICK to \in Nat : to = Offset(e, c.una) + 1
    BY <1>1
  <1>11. Carries(e, c.una, data, 0, x.mine, c.finq, to) /\ data \in Seq(Bytes)
    <2>1. PICK fin \in {0, 1} : fin = 0
      OBVIOUS
    <2>2. PICK n \in Nat : n = 1
      OBVIOUS
    <2>3. Offset(e, c.una) + n + fin <= to /\ Offset(e, c.una) + n <= x.mine + 1
      BY <2>1, <2>2, <1>10, <1>1, <1>4
    <2>4. fin = 1 => c.finq /\ Offset(e, c.una) + n = x.mine + 1
      BY <2>1
    <2>5. data = SubSeq(c.send, Distance(c.sseq, c.una) + 1,
                        Distance(c.sseq, c.una) + n)
      BY <2>2, <1>5, <1>9
    <2>6. Carries(e, c.una, data, fin, x.mine, c.finq, to) /\ data \in Seq(Bytes)
      BY ZenonT(60), <2>3, <2>4, <2>5, <1>1, <1>2, CarriesBuffered
    <2> QED BY <2>1, <2>6
  <1>12. PICK flags : flags = {"ACK"}
    OBVIOUS
  <1>a. "SYN" \notin flags /\ Bit("FIN" \in flags) = 0 /\ flags \in SUBSET Flags
    BY <1>12 DEF Bit, Flags
  <1>13. Content(e, Segment(c.una, 0, flags, 0, data), x.mine, c.finq, to)
    BY <1>11, <1>a, ContentOf
  <1>14. PICK b : b = Emit(c, c.una, flags, data)
    OBVIOUS
  <1>15. Adds(e, c, b, to, x)
    <2>1. c.state # "Closed" /\ c.state # "SynSent" /\ to \in Int
      BY <1>2, <1>10
    <2> QED BY <2>1, <1>1, <1>11, <1>a, <1>13, <1>14, EmitIs
  <1>16. PICK s \in Segments :
           /\ Genuine(e, s, x.mine, c.finq, to, KnownOf(e, c, x))
           /\ b \in Connections /\ Alike(c, b) /\ b.out = c.out \cup {s}
    BY <1>15 DEF Adds
  <1>17. b \in Connections /\ Alike(c, b) /\ b.out = c.out \cup {s}
         /\ b.max = c.max
    BY <1>16 DEF Alike, SameSending
  <1>18. PICK max : max = Later(c.max, Plus(c.una, 1))
    OBVIOUS
  <1>19. Plus(c.una, 1) \in Numbers /\ Offset(e, Plus(c.una, 1)) = Offset(e, c.una) + 1
    <2>1. Offset(e, c.una) + 1 < Modulus /\ 1 \in Nat
      BY <1>1, <1>4
    <2> QED BY SMTT(30), <2>1, <1>1, OffsetOfPlus
  <1>20. Near(e, Plus(c.una, 1))
    BY SMTT(30), <1>1, <1>4, <1>19 DEF Near
  <1>21. Near(e, max) /\ max \in Numbers
         /\ Offset(e, max) = Most(Offset(e, c.max), Offset(e, c.una) + 1)
    BY <1>1, <1>18, <1>19, <1>20, LaterIs DEF Near
  <1>22. /\ Offset(e, max) \in Nat /\ Offset(e, c.max) <= Offset(e, max)
         /\ to <= Offset(e, max) /\ Offset(e, c.una) <= Offset(e, max)
         /\ Offset(e, max) <= x.mine + 1 + Bit(c.finq)
    BY <1>1, <1>2, <1>4, <1>10, <1>21 DEF Most
  <1>23. d = [b EXCEPT !.nxt = c.una, !.max = max]
    BY <1>5, <1>8, <1>12, <1>14, <1>17, <1>18
  <1>24. /\ d \in Connections /\ SameIntake(b, d) /\ d.state = b.state
         /\ d.failure = b.failure /\ d.connected = b.connected
         /\ d.active = b.active /\ d.finq = b.finq /\ d.iss = b.iss
         /\ d.una = b.una /\ d.sseq = b.sseq /\ d.send = b.send
         /\ d.nxt = c.una /\ d.max = max /\ d.cwnd = b.cwnd /\ d.out = b.out
    <2>1. PICK una \in Numbers : una = c.una
      BY <1>1
    <2>2. max \in Numbers /\ b \in Connections
      BY <1>17, <1>21
    <2>3. PICK a : a = [b EXCEPT !.nxt = una]
      OBVIOUS
    <2>4. /\ a \in Connections /\ SameIntake(b, a) /\ a.state = b.state
          /\ a.failure = b.failure /\ a.connected = b.connected
          /\ a.active = b.active /\ a.finq = b.finq /\ a.iss = b.iss
          /\ a.una = b.una /\ a.sseq = b.sseq /\ a.send = b.send
          /\ a.nxt = una /\ a.cwnd = b.cwnd /\ a.out = b.out
      BY ZenonT(60), <2>1, <2>2, <2>3 DEF Connections, SameIntake
    <2>5. d = [a EXCEPT !.max = max]
      BY <2>1, <2>3, <1>23
    <2>6. /\ d \in Connections /\ SameIntake(a, d) /\ d.state = a.state
          /\ d.failure = a.failure /\ d.connected = a.connected
          /\ d.active = a.active /\ d.finq = a.finq /\ d.iss = a.iss
          /\ d.una = a.una /\ d.sseq = a.sseq /\ d.send = a.send
          /\ d.nxt = a.nxt /\ d.max = max /\ d.cwnd = a.cwnd /\ d.out = a.out
      BY ZenonT(60), <2>2, <2>4, <2>5 DEF Connections, SameIntake
    <2> QED BY <2>1, <2>4, <2>6 DEF SameIntake
  <1>25. SameIntake(c, d) /\ d.state = c.state /\ d.failure = c.failure
         /\ d.connected = c.connected /\ d.active = c.active
         /\ d.finq = c.finq /\ d.iss = c.iss
         /\ d.una = c.una /\ d.sseq = c.sseq /\ d.send = c.send
         /\ (c.cwnd >= 1 => d.cwnd >= 1) /\ d.out = c.out \cup {s}
    BY <1>17, <1>24 DEF Alike, SameIntake, SameSending
  <1>26. ~Connecting(d) /\ d.state \notin {"Closed", "SynSent"}
    BY <1>25 DEF Connecting
  <1>27. SendsRight(e, d, x)
    <2>1. d.una = c.una /\ d.nxt = c.una /\ d.max = max /\ d.sseq = c.sseq
          /\ d.send = c.send /\ d.iss = c.iss /\ d.finq = c.finq
          /\ d.connected = c.connected /\ (c.cwnd >= 1 => d.cwnd >= 1)
      BY <1>24, <1>25
    <2>2. SendsRight(e, c, x) /\ ~Connecting(c)
      BY <1>1
    <2>3. Near(e, max) /\ Offset(e, c.una) <= Offset(e, max)
          /\ Offset(e, max) <= x.mine + 1 + Bit(c.finq)
          /\ Offset(e, c.una) <= Offset(e, c.una)
      BY <1>1, <1>21, <1>22
    <2> QED BY <2>1, <2>2, <2>3, <1>26 DEF SendsRight
  <1>28. Starts(Peer(e)) /\ KnownOf(e, c, x) \in Int
         /\ KnownOf(e, c, x) <= KnownOf(e, c, x)
    BY BoundsHold DEF Context
  <1>29. Genuine(e, s, x.mine, d.finq, Offset(e, d.max), KnownOf(e, c, x))
    <2>1. Genuine(e, s, x.mine, c.finq, Offset(e, max), KnownOf(e, c, x))
      BY <1>1, <1>10, <1>16, <1>22, <1>28, GenuineGrows
    <2> QED BY <2>1, <1>24, <1>25
  <1>30. \A z \in d.out \ c.out :
           Genuine(e, z, x.mine, d.finq, Offset(e, d.max), KnownOf(e, c, x))
    BY <1>25, <1>29
  <1> QED BY <1>2, <1>22, <1>24, <1>25, <1>26, <1>27, <1>30, StandsOnward

(* After a timeout nxt goes back to what is sent again.                      *)
LEMMA GoBackOnward ==
    ASSUME NEW e \in Ends, NEW x, Context(e, x), NEW c, Sound(e, c, x),
           c.state # "Closed", ~Connecting(c), NEW d,
           d = [Resend(c) EXCEPT !.nxt = Plus(c.una, ResendLength(c))]
    PROVE  Onward(e, c, d, x)
  <1>1. PICK b : b = Resend(c)
    OBVIOUS
  <1>2. Onward(e, c, b, x) /\ Alike(c, b) /\ Sound(e, b, x)
    BY <1>1, ResendOnward DEF Onward
  <1>3. b.state # "Closed" /\ ~Connecting(b) /\ b.una = c.una /\ b.max = c.max
    BY <1>2 DEF Alike, SameSending, Connecting
  <1>4. /\ b \in Connections /\ SendsRight(e, b, x) /\ Starts(e)
        /\ Near(e, b.una) /\ b.una \in Numbers /\ Offset(e, b.una) \in Nat
        /\ Near(e, b.max) /\ Offset(e, b.max) \in Nat /\ Modulus \in Nat
    BY <1>2, <1>3, LiveHolds
  <1>5. PICK n \in Nat : n = ResendLength(c) /\ Offset(e, b.una) + n <= Offset(e, b.max)
    BY <1>3, ResendFits
  <1>6. PICK nxt : nxt = Plus(b.una, n)
    OBVIOUS
  <1>7. nxt \in Numbers /\ Offset(e, nxt) = Offset(e, b.una) + n
    <2>1. Offset(e, b.max) < Modulus
      BY <1>4 DEF Near
    <2>2. Offset(e, b.una) + n < Modulus
      BY <2>1, <1>4, <1>5
    <2> QED BY <2>2, <1>4, <1>6, OffsetOfPlus
  <1>8. Near(e, nxt)
    BY <1>4, <1>5, <1>7 DEF Near
  <1>9. d = [b EXCEPT !.nxt = nxt]
    BY <1>1, <1>3, <1>5, <1>6
  <1>10. /\ d \in Connections /\ SameIntake(b, d) /\ d.state = b.state
         /\ d.failure = b.failure /\ d.connected = b.connected
         /\ d.active = b.active /\ d.finq = b.finq /\ d.iss = b.iss
         /\ d.una = b.una /\ d.sseq = b.sseq /\ d.send = b.send
         /\ d.nxt = nxt /\ d.max = b.max /\ d.cwnd = b.cwnd /\ d.out = b.out
    BY ZenonT(60), <1>4, <1>7, <1>9 DEF Connections, SameIntake
  <1>11. ~Connecting(d) /\ d.state \notin {"Closed", "SynSent"}
         /\ b.state \notin {"Closed", "SynSent"}
    BY <1>3, <1>10 DEF Connecting
  <1>12. Offset(e, d.una) <= Offset(e, d.nxt) /\ Offset(e, d.nxt) <= Offset(e, d.max)
         /\ Offset(e, b.max) <= Offset(e, d.max)
    BY <1>4, <1>5, <1>7, <1>10
  <1>13. SendsRight(e, d, x)
    BY <1>3, <1>4, <1>8, <1>10, <1>11, <1>12 DEF SendsRight
  <1>14. \A z \in d.out \ b.out :
           Genuine(e, z, x.mine, d.finq, Offset(e, d.max), KnownOf(e, b, x))
    BY <1>10
  <1>15. Onward(e, b, d, x)
    BY <1>2, <1>10, <1>11, <1>12, <1>13, <1>14, StandsOnward
  <1> QED BY <1>2, <1>15, OnwardOn

(* A retry keeps the end sound,                                              *)
LEMMA RetryOnward ==
    ASSUME NEW e \in Ends, NEW x, Context(e, x), NEW c, Sound(e, c, x),
           c.state # "Closed"
    PROVE  Onward(e, c, Retry(c), x)
  <1>1. c \in Connections /\ c.retries \in Nat
    BY DEF Sound, Connections
  <1>2. PICK again : again = [c EXCEPT !.retries = c.retries + 1]
    OBVIOUS
  <1>3. again \in Connections /\ Alike(c, again) /\ again.out = c.out
    <2>1. PICK n \in Nat : n = c.retries + 1
      BY <1>1
    <2>2. again = [c EXCEPT !.retries = n]
      BY <1>2, <2>1
    <2> QED BY <2>1, <2>2, <1>1 DEF Connections, Alike, SameIntake, SameSending
  <1>4. Onward(e, c, again, x) /\ Sound(e, again, x)
    BY <1>3, AlikeOnward DEF Onward
  <1>5. /\ again.state = c.state /\ again.iss = c.iss /\ again.una = c.una
        /\ again.max = c.max /\ again.sseq = c.sseq /\ again.send = c.send
        /\ again.finq = c.finq /\ again.wnd = c.wnd
    BY <1>2, <1>3 DEF Alike, SameSending
  <1>6. CASE c.state = "SynSent"
    <2>1. again.iss = Start(e) /\ Offset(e, again.max) = 1 /\ again.iss \in Numbers
      BY <1>3, <1>4, <1>5, <1>6 DEF Sound, SendsRight, Connecting, Connections
    <2>2. {"SYN"} \in SUBSET Flags /\ <<>> \in Seq(Bytes) /\ "ACK" \notin {"SYN"}
      BY DEF Flags
    <2>3. Content(e, Segment(again.iss, 0, {"SYN"}, 0, <<>>), again.iss, again.finq,
                  Offset(e, again.max))
      BY <2>1 DEF Content, Segment
    <2>4. Content(e, Segment(again.iss, 0, {"SYN"}, 0, <<>>), x.mine, again.finq,
                  Offset(e, again.max))
      BY <2>1 DEF Content, Segment
    <2>5. Onward(e, again, Emit(again, again.iss, {"SYN"}, <<>>), x)
      BY <2>1, <2>2, <2>4, <1>4, <1>5, EmitOnward
    <2>6. Onward(e, c, Emit(again, again.iss, {"SYN"}, <<>>), x)
      BY <2>5, <1>4, OnwardOn
    <2>7. Retry(c) = Emit(again, again.iss, {"SYN"}, <<>>)
      <3>1. Connecting(c) /\ ~Probing(c)
        BY <1>6 DEF Connecting, Probing
      <3> QED BY <3>1, <1>2, <1>5, <1>6 DEF Retry
    <2> QED BY <2>6, <2>7
  <1>7. CASE c.state = "SynReceived"
    <2>1. Onward(e, again, Emit(again, again.iss, {"SYN", "ACK"}, <<>>), x)
      BY <1>4, <1>5, <1>7, SynAckOnward
    <2>2. Onward(e, c, Emit(again, again.iss, {"SYN", "ACK"}, <<>>), x)
      BY <2>1, <1>4, OnwardOn
    <2>3. Retry(c) = Emit(again, again.iss, {"SYN", "ACK"}, <<>>)
      <3>1. Connecting(c) /\ ~Probing(c)
        BY <1>7 DEF Connecting, Probing
      <3> QED BY <3>1, <1>2, <1>5, <1>7 DEF Retry
    <2> QED BY <2>2, <2>3
  <1>8. CASE Probing(c)
    <2>1. ~Connecting(again) /\ Unsettled(again) /\ again.state # "Closed"
      BY <1>5, <1>8 DEF Probing, Connecting, Unsettled, DataEnd
    <2>2. PICK d : d = [Emit(again, again.una, {"ACK"},
                             <<again.send[Distance(again.sseq, again.una) + 1]>>)
                          EXCEPT !.nxt = again.una,
                                 !.max = Later(@, Plus(again.una, 1))]
      OBVIOUS
    <2>3. Onward(e, again, d, x)
      BY <2>1, <2>2, <1>4, ProbeOnward
    <2>4. Retry(c) = d
      BY <2>2, <1>2, <1>5, <1>8 DEF Retry, Probing
    <2> QED BY <2>3, <2>4, <1>4, OnwardOn
  <1>9. CASE ~Connecting(c) /\ ~Probing(c)
    <2>1. PICK half \in Nat : half = Halved(c)
      <3>1. Mss \in Nat
        BY ModulusHolds
      <3>2. c.una \in Numbers /\ c.max \in Numbers
        BY <1>1 DEF Connections
      <3>3. Distance(c.una, c.max) \in Nat
        <4>1. Distance(c.una, c.max) \in Numbers
          BY <3>2, DistanceIs
        <4> QED BY <4>1, ModulusHolds DEF Numbers
      <3>4. Distance(c.una, c.max) \div 2 \in Int
        BY <3>3
      <3> QED BY <3>1, <3>4 DEF Halved, Most
    <2>2. PICK b : b = [again EXCEPT !.ssthresh = half, !.cwnd = Mss, !.dups = 0]
      OBVIOUS
    <2>3. Mss \in Nat /\ Mss >= 1
      BY ModulusHolds
    <2>4. b \in Connections /\ Alike(again, b) /\ b.out = again.out
      BY ZenonT(60), <1>3, <2>1, <2>2, <2>3 DEF Connections, Alike, SameIntake, SameSending
    <2>5. Onward(e, again, b, x) /\ Sound(e, b, x)
      BY <2>4, <1>4, AlikeOnward DEF Onward
    <2>6. b.state = c.state /\ b.una = c.una /\ b.sseq = c.sseq
          /\ b.send = c.send /\ b.finq = c.finq /\ b.max = c.max
      BY <2>4, <1>5 DEF Alike, SameSending
    <2>7. ResendLength(c) = ResendLength(b)
      BY <2>6 DEF ResendLength, ResendSize, ResendFin, Unsettled, DataEnd
    <2>8. PICK d : d = [Resend(b) EXCEPT !.nxt = Plus(b.una, ResendLength(b))]
      OBVIOUS
    <2>9. b.state # "Closed" /\ ~Connecting(b)
      BY <2>6, <1>9 DEF Connecting
    <2>10. Onward(e, b, d, x)
      BY <2>5, <2>8, <2>9, GoBackOnward
    <2>11. Onward(e, again, d, x)
      BY <2>5, <2>10, <1>4, OnwardOn
    <2>12. Retry(c) = d
      BY <1>2, <1>9, <2>1, <2>2, <2>6, <2>7, <2>8 DEF Retry
    <2> QED BY <2>11, <2>12, <1>4, OnwardOn
  <1> QED BY <1>6, <1>7, <1>8, <1>9 DEF Connecting

(* and so does Connection::Tick, which may also give up.                     *)
LEMMA TickMoves ==
    ASSUME NEW e \in Ends, NEW x, Context(e, x), NEW c, Sound(e, c, x),
           c.state # "Closed"
    PROVE  Moves(e, c, Tick(c), x)
  <1>1. CASE c.state = "TimeWait"
    BY <1>1, LeaveMoves DEF Tick
  <1>2. CASE c.state # "TimeWait" /\ ~Outstanding(c)
    <2>1. PICK d : d = [c EXCEPT !.timer = FALSE]
      OBVIOUS
    <2>2. d \in Connections /\ Alike(c, d) /\ d.out = c.out
      BY ZenonT(60), <2>1 DEF Sound, Connections, Alike, SameIntake, SameSending
    <2>3. Moves(e, c, d, x)
      BY <2>2, AlikeOnward, OnwardMoves
    <2> QED BY <2>1, <2>3, <1>2 DEF Tick
  <1>3. CASE c.state # "TimeWait" /\ Outstanding(c)
    <2>1. Tick(c) = IF c.retries = (IF Connecting(c) THEN SynRetries ELSE Retries)
                    THEN Fail(c, "TimedOut") ELSE Retry(c)
      BY <1>3 DEF Tick
    <2>2. Moves(e, c, Retry(c), x)
      BY RetryOnward, OnwardMoves
    <2>3. "TimedOut" \in Failures /\ "TimedOut" # "None"
      BY DEF Failures
    <2>4. Moves(e, c, Fail(c, "TimedOut"), x)
      BY <2>3, FailMoves DEF Moves
    <2> QED BY <2>1, <2>2, <2>4
  <1> QED BY <1>1, <1>2, <1>3

-----------------------------------------------------------------------------
(* What the owner calls.                                                     *)

(* The guest of an aborted connection is told nothing any more.              *)
LEMMA AbortFollows ==
    ASSUME NEW e \in Ends, NEW x, Context(e, x), NEW c, Sound(e, c, x)
    PROVE  /\ Sound(e, Abort(c), x) /\ Follows(e, c, Abort(c), x)
           /\ Abort(c).state = "Closed"
  <1>1. "None" \in Failures
    BY DEF Failures
  <1>2. CASE c.state = "Closed"
    BY <1>2, MovesSelf DEF Moves, Abort
  <1>3. CASE c.state = "SynSent"
    BY <1>1, <1>3, FailMoves DEF Abort
  <1>4. CASE c.state \notin {"Closed", "SynSent"}
    <2>1. PICK seq \in Numbers : seq = IF c.wnd = 0 THEN c.nxt ELSE c.max
      BY DEF Sound, Connections
    <2>2. {"RST"} \in SUBSET Flags /\ <<>> \in Seq(Bytes) /\ "ACK" \notin {"RST"}
          /\ "RST" \in {"RST"}
      BY DEF Flags
    <2>3. PICK b : b = Emit(c, seq, {"RST"}, <<>>)
      OBVIOUS
    <2>4. Onward(e, c, b, x) /\ Sound(e, b, x)
      BY <2>1, <2>2, <2>3, <1>4, EmitOnward DEF Onward
    <2>5. Sound(e, Fail(b, "None"), x) /\ Follows(e, b, Fail(b, "None"), x)
          /\ Fail(b, "None").state = "Closed"
      BY <2>4, <1>1, FailMoves
    <2>6. Follows(e, c, b, x)
      BY <2>4 DEF Onward
    <2>7. Follows(e, c, Fail(b, "None"), x)
      BY <2>4, <2>5, <2>6, FollowsOn
    <2>8. Abort(c) = Fail(b, "None")
      BY <2>1, <2>3, <1>4 DEF Abort
    <2> QED BY <2>5, <2>7, <2>8
  <1> QED BY <1>2, <1>3, <1>4

(* Connection::Detach closes the end.                                        *)
LEMMA DetachMoves ==
    ASSUME NEW e \in Ends, NEW x, Context(e, x), NEW c, Sound(e, c, x)
    PROVE  /\ Moves(e, c, Detach(c), x) /\ Detach(c).state = "Closed"
           /\ c.state # "Closed" => Detach(c).out = {}
  <1>1. CASE c.state = "Closed"
    BY <1>1, MovesSelf DEF Detach
  <1>2. CASE c.state # "Closed" /\ c.finr
    <2>1. PICK b : b = Fail(c, "None")
      OBVIOUS
    <2>2. c \in Connections /\ c.recv \in Seq(Bytes) /\ "None" \in Failures
          /\ {} \in SUBSET Segments
      BY DEF Sound, Connections, Failures
    <2>3. /\ b \in Connections /\ b.state = "Closed" /\ b.connected = c.connected
          /\ b.finq = c.finq /\ b.finr = c.finr /\ b.out = c.out /\ ~b.timer
      BY <2>1, <2>2, EndedShape DEF Fail
    <2>4. PICK d : d = [b EXCEPT !.recv = c.recv, !.out = {}]
      OBVIOUS
    <2>5. /\ d \in Connections /\ d.state = "Closed" /\ d.connected = c.connected
          /\ d.finq = c.finq /\ d.finr = c.finr /\ d.out = {} /\ d.recv = c.recv /\ ~d.timer
      BY ZenonT(60), <2>2, <2>3, <2>4 DEF Connections
    <2>6. Sound(e, d, x) /\ Follows(e, c, d, x)
      BY <2>5, ClosedSound
    <2>7. c.state # "SynSent"
      BY <1>2 DEF Sound, TakesNothing
    <2>8. x.over /\ x.read + Len(c.recv) = x.theirs
      BY <2>7, <1>2 DEF Sound, TakesRight
    <2>9. EndKnown(d, x)
      BY <2>5, <2>8 DEF EndKnown
    <2>10. Detach(c) = d
      BY <1>2, <2>1, <2>4 DEF Detach
    <2> QED BY <2>5, <2>6, <2>9, <2>10 DEF Moves
  <1>3. CASE c.state # "Closed" /\ ~c.finr
    <2>1. PICK b : b = Fail(c, "Reset")
      OBVIOUS
    <2>2. c \in Connections /\ "Reset" \in Failures /\ {} \in SUBSET Segments
      BY DEF Sound, Failures
    <2>3. /\ b \in Connections /\ b.state = "Closed" /\ b.connected = c.connected
          /\ b.finq = c.finq /\ b.finr = c.finr /\ b.out = c.out /\ b.recv = <<>> /\ ~b.timer
          /\ b.failure = "Reset"
      BY <2>1, <2>2, EndedShape DEF Fail
    <2>4. PICK d : d = [b EXCEPT !.out = {}]
      OBVIOUS
    <2>5. /\ d \in Connections /\ d.state = "Closed" /\ d.connected = c.connected
          /\ d.finq = c.finq /\ d.finr = c.finr /\ d.out = {} /\ d.recv = <<>> /\ ~d.timer
          /\ d.failure = "Reset"
      BY ZenonT(60), <2>2, <2>3, <2>4 DEF Connections
    <2>6. Sound(e, d, x) /\ Follows(e, c, d, x)
      BY <2>5, ClosedSound
    <2>7. EndKnown(d, x)
      BY <2>5 DEF EndKnown
    <2>8. Detach(c) = d
      BY <1>3, <2>1, <2>4 DEF Detach
    <2> QED BY <2>5, <2>6, <2>7, <2>8 DEF Moves
  <1> QED BY <1>1, <1>2, <1>3

(* A call that comes with something the guest did, which its context tells.  *)
Passes(e, c, x, d, y) ==
    /\ Sound(e, d, y)
    /\ SentOf(e, c, x) <= SentOf(e, d, y) /\ KnownOf(e, c, x) <= KnownOf(e, d, y)
    /\ c.finq => d.finq
    /\ EndKnown(c, x) => EndKnown(d, y)

(* A step of the connection is a step that passes, in the same context.      *)
LEMMA MovesPasses ==
    ASSUME NEW e, NEW x, NEW c, NEW d, Moves(e, c, d, x)
    PROVE  Passes(e, c, x, d, x) /\ d.finq = c.finq
  BY DEF Moves, Follows, Passes

(* A call of the guest and a step of the connection after it are one.        *)
LEMMA PassesOn ==
    ASSUME NEW e \in Ends, NEW x, Context(e, x), NEW y, Context(e, y),
           NEW b, Sound(e, b, x), NEW c, Passes(e, b, x, c, y),
           NEW d, Moves(e, c, d, y)
    PROVE  Passes(e, b, x, d, y) /\ d.finq = c.finq
  <1>1. /\ SentOf(e, b, x) \in Int /\ KnownOf(e, b, x) \in Int
        /\ SentOf(e, c, y) \in Int /\ KnownOf(e, c, y) \in Int
        /\ SentOf(e, d, y) \in Int /\ KnownOf(e, d, y) \in Int
    BY BoundsHold DEF Passes, Moves
  <1>2. /\ SentOf(e, b, x) <= SentOf(e, c, y) /\ SentOf(e, c, y) <= SentOf(e, d, y)
        /\ KnownOf(e, b, x) <= KnownOf(e, c, y)
        /\ KnownOf(e, c, y) <= KnownOf(e, d, y)
    BY DEF Passes, Moves, Follows
  <1>3. SentOf(e, b, x) <= SentOf(e, d, y) /\ KnownOf(e, b, x) <= KnownOf(e, d, y)
    BY <1>1, <1>2
  <1> QED BY <1>3 DEF Passes, Moves, Follows

(* A segment stays genuine when its end writes more, unless it finished.     *)
LEMMA GenuineOn ==
    ASSUME NEW e \in Ends, NEW s, NEW w \in Nat, NEW v \in Nat, NEW f, NEW g,
           w <= v, f => g /\ v = w,
           NEW m \in Int, NEW n \in Int, NEW k \in Int, NEW l \in Int,
           m <= n, k <= l, Starts(e), Starts(Peer(e)), s \in Segments,
           Genuine(e, s, w, f, m, k)
    PROVE  Genuine(e, s, v, g, n, l)
  <1>1. Genuine(e, s, w, f, n, l)
    BY GenuineGrows
  <1>2. CASE "RST" \in s.flags
    BY <1>2 DEF Genuine
  <1>3. CASE "RST" \notin s.flags /\ "SYN" \in s.flags
    BY <1>1, <1>3 DEF Genuine, Content
  <1>4. CASE "RST" \notin s.flags /\ "SYN" \notin s.flags
    <2>1. Carries(e, s.seq, s.data, Bit("FIN" \in s.flags), w, f, n)
      BY <1>1, <1>4 DEF Genuine, Content
    <2>2. Offset(e, s.seq) \in Nat /\ Len(s.data) \in Nat
      BY <2>1, OffsetIs DEF Carries, Near, Segments
    <2>3. ASSUME NEW j \in 1 .. Len(s.data)
          PROVE  s.data[j] = Tagged(1, Offset(e, s.seq) - 1 + j)
                 /\ Offset(e, s.seq) - 1 + j <= v
      <3>1. s.data[j] = Tagged(1, Offset(e, s.seq) - 1 + j)
            /\ Offset(e, s.seq) - 1 + j <= w
        BY <2>1 DEF Carries
      <3>2. PICK o \in Nat : o = Offset(e, s.seq)
        BY <2>2
      <3>3. o - 1 + j <= v
        BY <3>1, <3>2, <2>2
      <3> QED BY <3>1, <3>2, <3>3
    <2>4. Bit("FIN" \in s.flags) = 1 => g /\ Offset(e, s.seq) + Len(s.data) = v + 1
      BY <2>1 DEF Carries
    <2>5. Carries(e, s.seq, s.data, Bit("FIN" \in s.flags), v, g, n)
      BY <2>1, <2>3, <2>4 DEF Carries
    <2> QED BY <2>5, <1>1, <1>4 DEF Genuine, Content
  <1> QED BY <1>2, <1>3, <1>4

(* What was put out tells the truth when more is written.                    *)
LEMMA PutsOutOn ==
    ASSUME NEW e \in Ends, NEW x, Context(e, x), NEW y, Context(e, y),
           x.mine <= y.mine, NEW c, Sound(e, c, x), NEW d, d.out = c.out,
           c.finq => d.finq /\ y.mine = x.mine,
           NEW m \in Int, NEW k \in Int, m = SentOf(e, d, y), k = KnownOf(e, d, y),
           SentOf(e, c, x) <= m, KnownOf(e, c, x) <= k
    PROVE  PutsOut(e, d, y)
  <1>1. SentOf(e, c, x) \in Int /\ KnownOf(e, c, x) \in Int
    BY BoundsHold
  <1>2. x.mine \in Nat /\ y.mine \in Nat /\ Starts(e) /\ Starts(Peer(e))
    BY DEF Context, Contexts
  <1>3. ASSUME NEW s \in d.out
        PROVE  Genuine(e, s, y.mine, d.finq, m, k)
    <2>1. s \in Segments
          /\ Genuine(e, s, x.mine, c.finq, SentOf(e, c, x), KnownOf(e, c, x))
      BY DEF Sound, PutsOut, Connections
    <2>2. PICK f : f = c.finq
      OBVIOUS
    <2>3. PICK g : g = d.finq
      OBVIOUS
    <2>4. PICK w \in Nat : w = x.mine
      BY <1>2
    <2>5. PICK v \in Nat : v = y.mine
      BY <1>2
    <2>6. w <= v
      BY <2>4, <2>5
    <2>7. f => g /\ v = w
      BY <2>2, <2>3, <2>4, <2>5
    <2>8. Genuine(e, s, w, f, SentOf(e, c, x), KnownOf(e, c, x))
      BY <2>1, <2>2, <2>4
    <2>a. PICK n \in Int : n = SentOf(e, c, x)
      BY <1>1
    <2>b. PICK l \in Int : l = KnownOf(e, c, x)
      BY <1>1
    <2>c. n <= m /\ l <= k /\ Genuine(e, s, w, f, n, l)
      BY <2>8, <2>a, <2>b
    <2>9. Genuine(e, s, v, g, m, k)
      BY ZenonT(60), <2>1, <2>6, <2>7, <2>c, <1>2, GenuineOn
    <2> QED BY <2>3, <2>5, <2>9
  <1> QED BY <1>3 DEF PutsOut

(* A shutdown only marks the end of what is written.                         *)
LEMMA FinishPasses ==
    ASSUME NEW e \in Ends, NEW x, Context(e, x), NEW c, Sound(e, c, x),
           ~Connecting(c)
    PROVE  Passes(e, c, x, Finish(c), x)
  <1>1. CASE c.finq \/ c.state \in {"Closed", "SynSent"}
    BY <1>1, MovesSelf, MovesPasses DEF Finish
  <1>2. CASE ~(c.finq \/ c.state \in {"Closed", "SynSent"})
    <2>1. PICK d : d = [c EXCEPT !.finq = TRUE]
      OBVIOUS
    <2>2. /\ d \in Connections /\ SameIntake(c, d) /\ d.state = c.state
          /\ d.connected = c.connected /\ d.finq /\ d.iss = c.iss
          /\ d.una = c.una /\ d.sseq = c.sseq /\ d.send = c.send
          /\ d.nxt = c.nxt /\ d.max = c.max /\ d.cwnd = c.cwnd /\ d.out = c.out
      BY <2>1 DEF Sound, Connections, SameIntake
    <2>3. SentOf(e, d, x) = SentOf(e, c, x) /\ KnownOf(e, d, x) = KnownOf(e, c, x)
      BY <1>2, <2>2 DEF SentOf, KnownOf, SameIntake
    <2>4. SentOf(e, c, x) \in Int /\ KnownOf(e, c, x) \in Int /\ x.mine \in Nat
      BY BoundsHold DEF Context, Contexts
    <2>5. PutsOut(e, d, x)
      <3>1. x.mine <= x.mine /\ SentOf(e, c, x) <= SentOf(e, c, x)
            /\ KnownOf(e, c, x) <= KnownOf(e, c, x)
        BY <2>4
      <3> QED BY <3>1, <2>2, <2>3, <2>4, <1>2, PutsOutOn
    <2>6. SendsRight(e, d, x)
      <3>1. SendsRight(e, c, x) /\ Offset(e, c.max) \in Nat
        BY <1>2, LiveHolds
      <3>2. Offset(e, d.max) <= x.mine + 1 + Bit(d.finq)
        <4>1. Offset(e, c.max) <= x.mine + 1 + Bit(c.finq)
          BY <3>1 DEF SendsRight
        <4>2. Bit(c.finq) = 0 /\ Bit(d.finq) = 1
          BY <1>2, <2>2 DEF Bit
        <4> QED BY <4>1, <4>2, <3>1, <2>2, <2>4
      <3>3. ~Connecting(d) /\ ~Connecting(c)
        BY <2>2 DEF Connecting
      <3> QED BY <3>1, <3>2, <3>3, <2>2 DEF SendsRight
    <2>7. Sound(e, d, x)
      BY <1>2, <2>2, <2>5, <2>6 DEF Sound, Readable, TakesRight, SameIntake
    <2>8. d.state # "Closed"
      BY <1>2, <2>2
    <2>9. EndKnown(d, x)
      BY <2>7, <2>8, LiveEndKnown
    <2>10. Passes(e, c, x, d, x)
      BY <2>2, <2>3, <2>4, <2>7, <2>9 DEF Passes
    <2>11. Moves(e, d, Output(d), x)
      BY <2>7, OutputOnward, OnwardMoves
    <2>12. Passes(e, c, x, Output(d), x)
      BY <2>10, <2>11, PassesOn
    <2> QED BY <1>2, <2>1, <2>12 DEF Finish
  <1> QED BY <1>1, <1>2

(* What is written goes behind what is in the send buffer.                   *)
Writes(x, y, data) ==
    /\ y = [x EXCEPT !.mine = x.mine + Len(data)]
    /\ data \in Seq(Bytes)
    /\ \A k \in 1 .. Len(data) : data[k] = Tagged(1, x.mine + k)

(* A send buffer that holds the end of what was written.                     *)
Buffers(e, c, y, send) ==
    /\ send \in Seq(Bytes) /\ Len(send) <= y.mine
    /\ Offset(e, c.sseq) = 1 + y.mine - Len(send)
    /\ \A k \in 1 .. Len(send) :
         send[k] = Tagged(1, Offset(e, c.sseq) - 1 + k)

(* Written bytes go behind those in the buffer.                              *)
LEMMA WriteBuffers ==
    ASSUME NEW e \in Ends, NEW x, Context(e, x), NEW c, Sound(e, c, x),
           c.state # "Closed", NEW y, NEW data, Writes(x, y, data),
           NEW send, send = c.send \o data
    PROVE  Buffers(e, c, y, send)
  <1>1. c.send \in Seq(Bytes) /\ SendsRight(e, c, x) /\ x.mine \in Nat
        /\ Len(c.send) \in 0 .. x.mine /\ Offset(e, c.sseq) \in Nat
    BY LiveHolds DEF Connections
  <1>2. data \in Seq(Bytes) /\ x \in Contexts
    BY DEF Writes, Context
  <1>3. PICK n \in Nat : n = Len(data)
    BY <1>2
  <1>4. y.mine = x.mine + n
    BY <1>2, <1>3 DEF Writes, Contexts
  <1>5. PICK len \in Nat : len = Len(c.send) /\ len <= x.mine
    BY <1>1
  <1>6. send \in Seq(Bytes) /\ Len(send) = len + n
        /\ \A k \in 1 .. len + n :
             send[k] = IF k <= len THEN c.send[k] ELSE data[k - len]
    BY <1>1, <1>2, <1>3, <1>5, ConcatProperties
  <1>7. PICK o \in Nat : o = Offset(e, c.sseq)
    BY <1>1
  <1>8. o = 1 + x.mine - len
    BY <1>1, <1>5, <1>7 DEF SendsRight
  <1>9. Len(send) <= y.mine /\ o = 1 + y.mine - Len(send)
    BY <1>1, <1>4, <1>5, <1>6, <1>8
  <1>10. ASSUME NEW k \in 1 .. Len(send)
         PROVE  send[k] = Tagged(1, o - 1 + k)
    <2>1. k \in 1 .. len + n
      BY <1>6
    <2>2. CASE k <= len
      <3>1. k \in 1 .. Len(c.send)
        BY <2>1, <2>2, <1>5
      <3>2. c.send[k] = Tagged(1, Offset(e, c.sseq) - 1 + k)
        BY <3>1, <1>1 DEF SendsRight
      <3> QED BY <3>2, <2>1, <2>2, <1>6, <1>7
    <2>3. CASE ~(k <= len)
      <3>1. k - len \in 1 .. Len(data)
        BY <2>1, <2>3, <1>3
      <3>2. data[k - len] = Tagged(1, x.mine + (k - len))
        BY <3>1 DEF Writes
      <3>3. x.mine + (k - len) = o - 1 + k
        BY <1>1, <1>8, <2>1
      <3> QED BY <3>2, <3>3, <2>1, <2>3, <1>6
    <2> QED BY <2>2, <2>3
  <1>11. \A k \in 1 .. Len(send) :
           send[k] = Tagged(1, Offset(e, c.sseq) - 1 + k)
    BY <1>7, <1>10
  <1> QED BY <1>6, <1>7, <1>9, <1>11 DEF Buffers

(* Connection::Write, with the output it makes.                              *)
LEMMA WritePasses ==
    ASSUME NEW e \in Ends, NEW x, Context(e, x), NEW c, Sound(e, c, x),
           c.state # "Closed", ~Connecting(c), ~c.finq,
           NEW y, Context(e, y), NEW data, Writes(x, y, data)
    PROVE  Passes(e, c, x, Write(c, data), y) /\ Write(c, data).finq = c.finq
  <1>1. PICK send : send = c.send \o data
    OBVIOUS
  <1>2. /\ send \in Seq(Bytes) /\ Len(send) <= y.mine
        /\ Offset(e, c.sseq) = 1 + y.mine - Len(send)
        /\ \A k \in 1 .. Len(send) :
             send[k] = Tagged(1, Offset(e, c.sseq) - 1 + k)
    <2>1. Buffers(e, c, y, send)
      BY <1>1, WriteBuffers
    <2> QED BY <2>1 DEF Buffers
  <1>3. x \in Contexts /\ data \in Seq(Bytes)
    BY DEF Context, Writes
  <1>4. PICK n \in Nat : n = Len(data)
    BY <1>3
  <1>5. y = [x EXCEPT !.mine = x.mine + n]
    BY <1>4 DEF Writes
  <1>6. /\ y.mine = x.mine + n /\ y.read = x.read /\ y.theirs = x.theirs
        /\ y.over = x.over /\ y.sent = x.sent /\ y.known = x.known
        /\ x.mine \in Nat
    BY <1>3, <1>5 DEF Contexts
  <1>7. x.mine <= y.mine
    BY <1>6
  <1>8. PICK d : d = [c EXCEPT !.send = send]
    OBVIOUS
  <1>9. /\ d \in Connections /\ SameIntake(c, d) /\ d.state = c.state
        /\ d.connected = c.connected /\ d.finq = c.finq /\ d.iss = c.iss
        /\ d.una = c.una /\ d.sseq = c.sseq /\ d.send = send
        /\ d.nxt = c.nxt /\ d.max = c.max /\ d.cwnd = c.cwnd /\ d.out = c.out
    BY <1>2, <1>8 DEF Sound, Connections, SameIntake
  <1>10. SentOf(e, d, y) = SentOf(e, c, x) /\ KnownOf(e, d, y) = KnownOf(e, c, x)
    BY <1>6, <1>9 DEF SentOf, KnownOf, SameIntake
  <1>11. SentOf(e, c, x) \in Int /\ KnownOf(e, c, x) \in Int
         /\ SentOf(e, c, x) <= SentOf(e, c, x)
         /\ KnownOf(e, c, x) <= KnownOf(e, c, x)
    BY BoundsHold
  <1>12. PutsOut(e, d, y)
    BY <1>7, <1>9, <1>10, <1>11, PutsOutOn
  <1>13. SendsRight(e, d, y)
    <2>1. SendsRight(e, c, x) /\ Offset(e, c.max) \in Nat
      BY LiveHolds
    <2>2. Offset(e, d.max) <= y.mine + 1 + Bit(d.finq)
      <3>1. Offset(e, c.max) <= x.mine + 1 + Bit(c.finq) /\ Bit(c.finq) \in Nat
        BY <2>1 DEF SendsRight, Bit
      <3> QED BY <3>1, <2>1, <1>6, <1>9
    <2>3. ~Connecting(d) /\ ~Connecting(c)
      BY <1>9 DEF Connecting
    <2> QED BY <2>1, <2>2, <2>3, <1>2, <1>6, <1>9 DEF SendsRight
  <1>14. Sound(e, d, y)
    <2>1. c.state \notin {"Closed", "SynSent"}
      BY DEF Connecting
    <2>2. Readable(c, x) /\ TakesRight(e, c, x)
      BY <2>1 DEF Sound
    <2>3. Readable(d, y)
      BY <2>2, <1>6, <1>9 DEF Readable, SameIntake
    <2>4. TakesRight(e, d, y)
      BY <2>2, <1>6, <1>9 DEF TakesRight, SameIntake
    <2> QED BY <2>1, <2>3, <2>4, <1>9, <1>12, <1>13 DEF Sound
  <1>15. EndKnown(d, y)
    BY <1>9, <1>14, LiveEndKnown
  <1>16. Passes(e, c, x, d, y)
    BY <1>9, <1>10, <1>11, <1>14, <1>15 DEF Passes
  <1>17. Moves(e, d, Output(d), y)
    BY <1>14, OutputOnward, OnwardMoves
  <1>18. Passes(e, c, x, Output(d), y) /\ Output(d).finq = d.finq
    BY <1>16, <1>17, PassesOn
  <1> QED BY <1>1, <1>8, <1>9, <1>18 DEF Write

(* What is read leaves the receive buffer.                                   *)
Reads(x, y, n) == y = [x EXCEPT !.read = x.read + n]

(* What is read is the front of what waits; what is left continues it.       *)
LEMMA ReadReadable ==
    ASSUME NEW e \in Ends, NEW x, Context(e, x), NEW c \in Connections,
           Readable(c, x), NEW n \in 1 .. Len(c.recv), NEW y, Reads(x, y, n),
           NEW d, d.recv = SubSeq(c.recv, n + 1, Len(c.recv))
    PROVE  /\ d.recv \in Seq(Bytes) /\ Len(d.recv) = Len(c.recv) - n
           /\ Readable(d, y) /\ y.read = x.read + n
           /\ \A k \in 1 .. n : c.recv[k] = Tagged(1, x.read + k)
  <1>1. c.recv \in Seq(Bytes) /\ x \in Contexts /\ Buffer \in Nat
    BY ModulusHolds DEF Connections, Context
  <1>2. PICK len \in Nat : len = Len(c.recv)
    BY <1>1
  <1>3. n \in Nat /\ n >= 1 /\ n <= len
    BY <1>2
  <1>4. x.read \in Nat /\ y.read = x.read + n /\ y.theirs = x.theirs
        /\ x.theirs \in Nat
    BY <1>1 DEF Reads, Contexts
  <1>5. PICK from \in Nat : from = n + 1
    BY <1>3
  <1>6. PICK recv : recv = d.recv
    OBVIOUS
  <1>7. recv = SubSeq(c.recv, from, len) /\ from >= 1 /\ len <= Len(c.recv)
    BY <1>2, <1>3, <1>5, <1>6
  <1>8. recv \in Seq(Bytes)
        /\ Len(recv) = IF from <= len THEN len - from + 1 ELSE 0
    BY <1>1, <1>7, SubSeqIs
  <1>9. \A k \in 1 .. Len(recv) : recv[k] = c.recv[from + k - 1]
    BY <1>1, <1>7, SubSeqIs
  <1>10. Len(recv) = len - n
    BY <1>3, <1>5, <1>8
  <1>11. len <= Buffer /\ x.read + len <= x.theirs
         /\ \A k \in 1 .. len : c.recv[k] = Tagged(1, x.read + k)
    BY <1>2 DEF Readable
  <1>12. Len(recv) <= Buffer /\ y.read + Len(recv) <= y.theirs
    BY <1>1, <1>3, <1>4, <1>10, <1>11
  <1>13. ASSUME NEW k \in 1 .. Len(recv)
         PROVE  recv[k] = Tagged(1, y.read + k)
    <2>1. from + k - 1 \in 1 .. len /\ from + k - 1 = n + k
      BY <1>3, <1>5, <1>10
    <2>2. c.recv[from + k - 1] = Tagged(1, x.read + (from + k - 1))
      BY <2>1, <1>11
    <2>3. x.read + (from + k - 1) = y.read + k
      BY <2>1, <1>3, <1>4, <1>5, <1>10
    <2> QED BY <2>2, <2>3, <1>9
  <1>14. Readable(d, y)
    BY <1>6, <1>12, <1>13 DEF Readable
  <1>15. \A k \in 1 .. n : c.recv[k] = Tagged(1, x.read + k)
    BY <1>3, <1>11
  <1> QED BY <1>2, <1>4, <1>6, <1>8, <1>10, <1>14, <1>15

(* Connection::Read, with the acknowledgement of a window that opens.        *)
LEMMA ReadPasses ==
    ASSUME NEW e \in Ends, NEW x, Context(e, x), NEW c, Sound(e, c, x),
           NEW n \in 1 .. Len(c.recv), NEW y, Context(e, y), Reads(x, y, n)
    PROVE  Passes(e, c, x, Read(c, n), y) /\ Read(c, n).finq = c.finq
  <1>1. PICK d : d = [c EXCEPT !.recv = SubSeq(c.recv, n + 1, Len(c.recv))]
    OBVIOUS
  <1>2. c \in Connections /\ Readable(c, x) /\ x \in Contexts
    BY DEF Sound, Context
  <1>3. d.recv = SubSeq(c.recv, n + 1, Len(c.recv))
    BY <1>1, <1>2 DEF Connections
  <1>4. d.recv \in Seq(Bytes) /\ Len(d.recv) = Len(c.recv) - n
        /\ Readable(d, y) /\ y.read = x.read + n
    BY SMTT(30), <1>2, <1>3, ReadReadable
  <1>5. PICK recv \in Seq(Bytes) : recv = d.recv
    BY <1>4
  <1>6. d = [c EXCEPT !.recv = recv]
    BY <1>1, <1>3, <1>5
  <1>7. /\ d \in Connections /\ SameSending(c, d) /\ d.state = c.state
        /\ d.out = c.out /\ d.failure = c.failure /\ d.timer = c.timer
        /\ d.irs = c.irs /\ d.rcv = c.rcv /\ d.finr = c.finr /\ d.early = c.early
    BY SMTT(30), <1>2, <1>5, <1>6 DEF Connections, SameSending
  <1>8. /\ y.mine = x.mine /\ y.theirs = x.theirs /\ y.over = x.over
        /\ y.sent = x.sent /\ y.known = x.known /\ x.read \in Nat /\ x.mine \in Nat
    BY <1>2 DEF Reads, Contexts
  <1>9. SentOf(e, d, y) = SentOf(e, c, x) /\ KnownOf(e, d, y) = KnownOf(e, c, x)
    BY <1>7, <1>8 DEF SentOf, KnownOf, SameSending
  <1>10. SentOf(e, c, x) \in Int /\ KnownOf(e, c, x) \in Int
         /\ SentOf(e, c, x) <= SentOf(e, c, x)
         /\ KnownOf(e, c, x) <= KnownOf(e, c, x) /\ x.mine <= y.mine
    BY <1>8, BoundsHold
  <1>11. PutsOut(e, d, y)
    BY <1>7, <1>8, <1>9, <1>10, PutsOutOn DEF SameSending
  <1>12. x.read + Len(c.recv) = y.read + Len(d.recv)
    <2>1. PICK len \in Nat : len = Len(c.recv)
      BY <1>2 DEF Connections
    <2>2. n \in Nat
      BY <2>1
    <2> QED BY <2>1, <2>2, <1>4, <1>8
  <1>13. c.state # "Closed" => SendsRight(e, d, y)
    <2>1. Connecting(d) <=> Connecting(c)
      BY <1>7 DEF Connecting
    <2> QED BY <2>1, <1>7, <1>8 DEF Sound, SendsRight, SameSending
  <1>14. c.state # "SynSent"
    <2>1. CASE c.recv = <<>>
      BY <2>1
    <2>2. CASE c.recv # <<>>
      BY <2>2 DEF Sound, TakesNothing
    <2> QED BY <2>1, <2>2
  <1>15. c.state \notin {"Closed", "SynSent"} => TakesRight(e, d, y)
    <2>1. ASSUME c.state \notin {"Closed", "SynSent"}
          PROVE  TakesRight(e, d, y)
      <3>1. TakesRight(e, c, x)
        BY <2>1 DEF Sound
      <3>a. PICK len \in Nat : len = Len(c.recv)
        BY <1>2 DEF Connections
      <3>b. PICK bit \in Nat : bit = Bit(c.finr)
        BY DEF Bit
      <3>c. PICK read \in Nat : read = x.read
        BY <1>8
      <3>2. PICK z \in Int : z = read + len
        OBVIOUS
      <3>3. Offset(Peer(e), c.rcv) = 1 + z + Bit(c.finr)
        <4>1. Offset(Peer(e), c.rcv) = 1 + x.read + Len(c.recv) + Bit(c.finr)
          BY <3>1 DEF TakesRight
        <4>2. 1 + read + len + bit = 1 + z + bit
          BY <3>2
        <4> QED BY <4>1, <4>2, <3>a, <3>b, <3>c
      <3>4. Offset(Peer(e), d.rcv) = 1 + y.read + Len(d.recv) + Bit(d.finr)
        <4>1. y.read \in Nat /\ Len(d.recv) \in Nat /\ Bit(d.finr) \in Nat
          <5>1. n \in Nat
            BY <1>2 DEF Connections
          <5> QED BY <5>1, <1>4, <1>8 DEF Bit
        <4>2. z = y.read + Len(d.recv)
          <5>1. z = x.read + Len(c.recv)
            BY <3>2, <3>a, <3>c
          <5> QED BY <5>1, <1>12
        <4>3. Offset(Peer(e), d.rcv) = 1 + z + Bit(d.finr)
          BY <3>3, <1>7
        <4>4. PICK r \in Nat : r = y.read
          BY <4>1
        <4>5. PICK l \in Nat : l = Len(d.recv)
          BY <4>1
        <4>6. PICK b \in Nat : b = Bit(d.finr)
          BY <4>1
        <4>7. 1 + (r + l) + b = 1 + r + l + b
          OBVIOUS
        <4>8. Offset(Peer(e), d.rcv) = 1 + z + b /\ z = r + l
          BY <4>2, <4>3, <4>4, <4>5, <4>6
        <4> QED BY <4>4, <4>5, <4>6, <4>7, <4>8
      <3>5. d.finr => y.over /\ y.read + Len(d.recv) = y.theirs
        BY <3>1, <1>7, <1>8, <1>12 DEF TakesRight
      <3> QED BY <3>1, <3>4, <3>5, <1>7, <1>8 DEF TakesRight
    <2> QED BY <2>1
  <1>16. Sound(e, d, y)
    BY <1>4, <1>7, <1>11, <1>13, <1>14, <1>15 DEF Sound
  <1>17. EndKnown(c, x) => EndKnown(d, y)
    BY <1>7, <1>8, <1>12 DEF EndKnown, SameSending
  <1>18. Passes(e, c, x, d, y)
    BY <1>7, <1>9, <1>10, <1>16, <1>17 DEF Passes, SameSending
  <1>19. Moves(e, d, AckNow(d), y) /\ Moves(e, d, d, y)
    BY <1>16, AckNowOnward, OnwardMoves, MovesSelf
  <1>20. /\ Passes(e, c, x, AckNow(d), y) /\ AckNow(d).finq = d.finq
         /\ Passes(e, c, x, d, y)
    BY <1>18, <1>19, PassesOn
  <1>21. d.finq = c.finq
    BY <1>7 DEF SameSending
  <1>22. Read(c, n) \in {AckNow(d), d}
    BY <1>1 DEF Read
  <1> QED BY <1>20, <1>21, <1>22

-----------------------------------------------------------------------------
(* A connection that starts.                                                 *)

Begins(c, iss, active) ==
    c = [Fresh("SynSent", iss) EXCEPT !.active = active]

(* The fields of a connection that has just begun.                           *)
LEMMA BeginsShape ==
    ASSUME NEW iss \in Numbers, NEW active \in BOOLEAN, NEW c,
           Begins(c, iss, active)
    PROVE  /\ c \in Connections /\ c.state = "SynSent" /\ c.iss = iss
           /\ c.una = iss /\ c.nxt = Plus(iss, 1) /\ c.max = Plus(iss, 1)
           /\ c.sseq = Plus(iss, 1) /\ c.send = <<>> /\ ~c.finq /\ ~c.connected
           /\ c.recv = <<>> /\ c.early = {} /\ ~c.finr /\ c.out = {}
  <1>1. Modulus \in Nat /\ Modulus >= 4
    BY ModulusHolds
  <1>2. PICK next : next = Plus(iss, 1)
    OBVIOUS
  <1>3. next \in Numbers
    <2>1. 1 \in 0 .. Modulus
      BY <1>1
    <2> QED BY <2>1, <1>2, PlusIs
  <1>4. 0 \in Numbers /\ <<>> \in Seq(Bytes) /\ {} \in SUBSET Segments
        /\ {} \in SUBSET Pieces /\ 0 \in Nat /\ Len(<<>>) = 0
    BY <1>1 DEF Numbers
  <1>5. c = [state |-> "SynSent", failure |-> "None", connected |-> FALSE,
             active |-> active, iss |-> iss, irs |-> 0,
             una |-> iss, nxt |-> next, max |-> next, sseq |-> next,
             send |-> <<>>, finq |-> FALSE, wnd |-> 0, wl1 |-> 0, wl2 |-> 0,
             cwnd |-> 0, ssthresh |-> 0, dups |-> 0, retries |-> 0,
             timer |-> TRUE, rcv |-> 0, adv |-> 0, recv |-> <<>>, early |-> {},
             finr |-> FALSE, acknow |-> FALSE, out |-> {}]
    BY ZenonT(60), <1>2 DEF Begins, Fresh, Blank
  <1>6. c \in Connections
    BY <1>3, <1>4, <1>5 DEF Connections, States, Failures
  <1> QED BY <1>2, <1>5, <1>6

(* A connection that has just begun is sound.                                *)
LEMMA BeginsSound ==
    ASSUME NEW e \in Ends, NEW x, Context(e, x), x.mine = 0, x.read = 0,
           NEW active \in BOOLEAN, NEW c, Begins(c, Start(e), active)
    PROVE  Sound(e, c, x) /\ c.state = "SynSent" /\ ~c.finq
  <1>1. Start(e) \in Numbers /\ Starts(e) /\ x \in Contexts
    BY DEF Context, Starts
  <1>2. /\ c \in Connections /\ c.state = "SynSent" /\ c.iss = Start(e)
        /\ c.una = Start(e) /\ c.nxt = Plus(Start(e), 1)
        /\ c.max = Plus(Start(e), 1)
        /\ c.sseq = Plus(Start(e), 1) /\ c.send = <<>> /\ ~c.finq /\ ~c.connected
        /\ c.recv = <<>> /\ c.early = {} /\ ~c.finr /\ c.out = {}
    BY <1>1, BeginsShape
  <1>3. Modulus \in Nat /\ Modulus >= 4 /\ Buffer \in Nat
    BY ModulusHolds
  <1>4. Offset(e, Start(e)) = 0 /\ Near(e, Start(e))
    BY <1>1, OffsetOfStart
  <1>5. Plus(Start(e), 1) \in Numbers /\ Offset(e, Plus(Start(e), 1)) = 1
    <2>1. Offset(e, Start(e)) + 1 < Modulus /\ 1 \in Nat
      BY <1>3, <1>4
    <2>2. Plus(Start(e), 1) \in Numbers
          /\ Offset(e, Plus(Start(e), 1)) = Offset(e, Start(e)) + 1
      BY <2>1, <1>1, OffsetOfPlus
    <2> QED BY <2>2, <1>4
  <1>6. Near(e, Plus(Start(e), 1))
    BY <1>3, <1>5 DEF Near
  <1>7. x.theirs \in Nat /\ x.known \in Nat /\ Len(<<>>) = 0 /\ Bit(c.finq) = 0
    BY <1>1, <1>2 DEF Contexts, Bit
  <1>8. Readable(c, x)
    BY <1>2, <1>3, <1>7 DEF Readable
  <1>9. PutsOut(e, c, x)
    BY <1>2 DEF PutsOut
  <1>10. Connecting(c)
    BY <1>2 DEF Connecting
  <1>11. SendsRight(e, c, x)
    BY <1>2, <1>4, <1>5, <1>6, <1>7, <1>10 DEF SendsRight
  <1>12. TakesNothing(c, x)
    BY <1>2 DEF TakesNothing
  <1> QED BY <1>2, <1>8, <1>9, <1>11, <1>12 DEF Sound

(* Connection::Open sends a SYN,                                             *)
LEMMA OpenSound ==
    ASSUME NEW e \in Ends, NEW x, Context(e, x), x.mine = 0, x.read = 0
    PROVE  /\ Sound(e, Open(Start(e)), x) /\ ~Open(Start(e)).finq
           /\ Open(Start(e)).state # "Closed"
  <1>1. PICK active \in BOOLEAN : active = TRUE
    OBVIOUS
  <1>2. PICK c : Begins(c, Start(e), active)
    BY DEF Begins
  <1>3. Sound(e, c, x) /\ c.state = "SynSent" /\ ~c.finq
    BY <1>2, BeginsSound
  <1>4. c.iss = Start(e) /\ Offset(e, c.max) = 1 /\ c.iss \in Numbers
    BY <1>3 DEF Sound, SendsRight, Connecting, Connections
  <1>5. {"SYN"} \in SUBSET Flags /\ <<>> \in Seq(Bytes) /\ "ACK" \notin {"SYN"}
    BY DEF Flags
  <1>6. Content(e, Segment(c.iss, 0, {"SYN"}, 0, <<>>), x.mine, c.finq,
                Offset(e, c.max))
    BY <1>4 DEF Content, Segment
  <1>7. Onward(e, c, Emit(c, c.iss, {"SYN"}, <<>>), x)
    BY <1>3, <1>4, <1>5, <1>6, EmitOnward
  <1>8. Open(Start(e)) = Emit(c, c.iss, {"SYN"}, <<>>)
    BY <1>1, <1>2, <1>4 DEF Open, Begins
  <1> QED BY <1>3, <1>7, <1>8 DEF Onward, Follows, SameStanding

(* and the answer to a SYN its own SYN and an acknowledgement.               *)
LEMMA AnswerSound ==
    ASSUME NEW e \in Ends, NEW x, Context(e, x), x.mine = 0, x.read = 0,
           NEW s, Comes(e, s, x), IsSyn(s)
    PROVE  /\ Sound(e, Answer(s, Start(e)), x) /\ ~Answer(s, Start(e)).finq
           /\ Answer(s, Start(e)).state # "Closed"
  <1>1. PICK active \in BOOLEAN : active = FALSE
    OBVIOUS
  <1>2. PICK c : Begins(c, Start(e), active)
    BY DEF Begins
  <1>3. Sound(e, c, x) /\ c.state = "SynSent" /\ ~c.finq
    BY <1>2, BeginsSound
  <1>4. "SYN" \in s.flags /\ "RST" \notin s.flags
    <2>1. "SYN" \in s.flags \cap {"SYN", "ACK", "RST"}
          /\ "RST" \notin s.flags \cap {"SYN", "ACK", "RST"}
      BY DEF IsSyn
    <2> QED BY <2>1
  <1>5. PICK b : Meets(c, b, s, Plus(s.seq, 1))
    BY DEF Meets
  <1>6. Moves(e, c, b, x) /\ b.state = "SynReceived"
    BY <1>3, <1>4, <1>5, MeetsMoves
  <1>7. Sound(e, b, x) /\ ~b.finq
    BY <1>3, <1>6 DEF Moves, Follows
  <1>8. Onward(e, b, Emit(b, b.iss, {"SYN", "ACK"}, <<>>), x)
    BY <1>6, <1>7, SynAckOnward
  <1>9. c.iss = Start(e)
    BY <1>3 DEF Sound, SendsRight
  <1>10. b.iss = Start(e)
    BY <1>5, <1>9 DEF Meets
  <1>11. b = [Fresh("SynReceived", Start(e)) EXCEPT !.irs = s.seq,
                                                    !.rcv = Plus(s.seq, 1)]
    <2>1. PICK next : next = Plus(Start(e), 1)
      OBVIOUS
    <2>2. PICK rcv : rcv = Plus(s.seq, 1)
      OBVIOUS
    <2>3. PICK seq : seq = s.seq
      OBVIOUS
    <2>4. c = [state |-> "SynSent", failure |-> "None", connected |-> FALSE,
               active |-> FALSE, iss |-> Start(e), irs |-> 0,
               una |-> Start(e), nxt |-> next, max |-> next, sseq |-> next,
               send |-> <<>>, finq |-> FALSE, wnd |-> 0, wl1 |-> 0, wl2 |-> 0,
               cwnd |-> 0, ssthresh |-> 0, dups |-> 0, retries |-> 0,
               timer |-> TRUE, rcv |-> 0, adv |-> 0, recv |-> <<>>, early |-> {},
               finr |-> FALSE, acknow |-> FALSE, out |-> {}]
      BY ZenonT(60), <2>1, <1>1, <1>2 DEF Begins, Fresh, Blank
    <2>5. b = [state |-> "SynReceived", failure |-> "None", connected |-> FALSE,
               active |-> FALSE, iss |-> Start(e), irs |-> seq,
               una |-> Start(e), nxt |-> next, max |-> next, sseq |-> next,
               send |-> <<>>, finq |-> FALSE, wnd |-> 0, wl1 |-> 0, wl2 |-> 0,
               cwnd |-> 0, ssthresh |-> 0, dups |-> 0, retries |-> 0,
               timer |-> TRUE, rcv |-> rcv, adv |-> 0, recv |-> <<>>,
               early |-> {}, finr |-> FALSE, acknow |-> FALSE, out |-> {}]
      BY ZenonT(60), <2>2, <2>3, <2>4, <1>5 DEF Meets
    <2>a. PICK f : f = Fresh("SynReceived", Start(e))
      OBVIOUS
    <2>b. f = [state |-> "SynReceived", failure |-> "None", connected |-> FALSE,
               active |-> FALSE, iss |-> Start(e), irs |-> 0,
               una |-> Start(e), nxt |-> next, max |-> next, sseq |-> next,
               send |-> <<>>, finq |-> FALSE, wnd |-> 0, wl1 |-> 0, wl2 |-> 0,
               cwnd |-> 0, ssthresh |-> 0, dups |-> 0, retries |-> 0,
               timer |-> TRUE, rcv |-> 0, adv |-> 0, recv |-> <<>>, early |-> {},
               finr |-> FALSE, acknow |-> FALSE, out |-> {}]
      BY ZenonT(60), <2>1, <2>a DEF Fresh, Blank
    <2>c. PICK g : g = [f EXCEPT !.irs = seq, !.rcv = rcv]
      OBVIOUS
    <2>6. g
            = [state |-> "SynReceived", failure |-> "None", connected |-> FALSE,
               active |-> FALSE, iss |-> Start(e), irs |-> seq,
               una |-> Start(e), nxt |-> next, max |-> next, sseq |-> next,
               send |-> <<>>, finq |-> FALSE, wnd |-> 0, wl1 |-> 0, wl2 |-> 0,
               cwnd |-> 0, ssthresh |-> 0, dups |-> 0, retries |-> 0,
               timer |-> TRUE, rcv |-> rcv, adv |-> 0, recv |-> <<>>,
               early |-> {}, finr |-> FALSE, acknow |-> FALSE, out |-> {}]
      BY ZenonT(60), <2>b, <2>c
    <2> QED BY <2>2, <2>3, <2>5, <2>6, <2>a, <2>c
  <1>12. Answer(s, Start(e)) = Emit(b, b.iss, {"SYN", "ACK"}, <<>>)
    BY <1>10, <1>11 DEF Answer
  <1> QED BY <1>6, <1>7, <1>8, <1>12 DEF Onward, Follows, SameStanding

-----------------------------------------------------------------------------
(* What an end keeps while its peer does something.                          *)

Wider(x, y) ==
    /\ x.theirs <= y.theirs /\ x.sent <= y.sent /\ x.known <= y.known
    /\ x.over => y.over /\ y.theirs = x.theirs
(* A context in which the peer has done more.                                *)
Grows(x, y) == y.mine = x.mine /\ y.read = x.read /\ Wider(x, y)

(* What an end carries it carries still when more is written, finished or    *)
(* sent;                                                                     *)
LEMMA CarriesOn ==
    ASSUME NEW e, Starts(e), NEW seq \in Numbers, NEW data \in Seq(Bytes),
           NEW fin \in {0, 1}, NEW w \in Nat, NEW v \in Nat, NEW f, NEW g,
           w <= v, f => g /\ v = w, NEW m \in Int, NEW n \in Int, m <= n,
           Carries(e, seq, data, fin, w, f, m)
    PROVE  Carries(e, seq, data, fin, v, g, n)
  <1>1. PICK o \in Nat : o = Offset(e, seq)
    BY OffsetIs
  <1>2. PICK len \in Nat : len = Len(data)
    OBVIOUS
  <1>3. /\ Near(e, seq) /\ o >= 1 /\ o + len + fin <= m
        /\ \A k \in 1 .. len : data[k] = Tagged(1, o - 1 + k) /\ o - 1 + k <= w
        /\ fin = 1 => f /\ o + len = w + 1
    BY <1>1, <1>2 DEF Carries
  <1>4. o + len + fin <= n
    BY <1>3
  <1>5. \A k \in 1 .. len : data[k] = Tagged(1, o - 1 + k) /\ o - 1 + k <= v
    <2>1. ASSUME NEW k \in 1 .. len
          PROVE  data[k] = Tagged(1, o - 1 + k) /\ o - 1 + k <= v
      <3>1. data[k] = Tagged(1, o - 1 + k) /\ o - 1 + k <= w
        BY <1>3
      <3> QED BY <3>1
    <2> QED BY <2>1
  <1>6. fin = 1 => g /\ o + len = v + 1
    BY <1>3
  <1> QED BY <1>1, <1>2, <1>3, <1>4, <1>5, <1>6 DEF Carries

(* a segment that may come may come still;                                   *)
LEMMA ComesOn ==
    ASSUME NEW e \in Ends, NEW x, Context(e, x), NEW y, Context(e, y),
           Wider(x, y), NEW s, Comes(e, s, x)
    PROVE  Comes(e, s, y)
  <1>1. Peer(e) \in Ends /\ Starts(Peer(e)) /\ Starts(Peer(Peer(e)))
    BY TwoEnds DEF Context
  <1>2. s \in Segments
        /\ Genuine(Peer(e), s, x.theirs, x.over, x.sent, x.known)
    BY DEF Comes
  <1>3. PICK w \in Nat : w = x.theirs
    BY DEF Context, Contexts
  <1>4. PICK v \in Nat : v = y.theirs
    BY DEF Context, Contexts
  <1>5. PICK f : f = x.over
    OBVIOUS
  <1>6. PICK g : g = y.over
    OBVIOUS
  <1>7. PICK m \in Nat, k \in Nat : m = x.sent /\ k = x.known
    BY DEF Context, Contexts
  <1>8. PICK n \in Nat, l \in Nat : n = y.sent /\ l = y.known
    BY DEF Context, Contexts
  <1>9. w <= v /\ m <= n /\ k <= l
    BY <1>3, <1>4, <1>7, <1>8 DEF Wider
  <1>10. f => g /\ v = w
    BY <1>3, <1>4, <1>5, <1>6 DEF Wider
  <1>11. Genuine(Peer(e), s, w, f, m, k)
    BY <1>2, <1>3, <1>5, <1>7
  <1>12. m \in Int /\ n \in Int /\ k \in Int /\ l \in Int
    OBVIOUS
  <1>13. Genuine(Peer(e), s, v, g, n, l)
    BY <1>1, <1>2, <1>9, <1>10, <1>11, <1>12, GenuineOn
  <1> QED BY <1>2, <1>4, <1>6, <1>8, <1>13 DEF Comes

(* and so for the early segments.                                            *)
LEMMA EarlyOn ==
    ASSUME NEW e \in Ends, NEW x, Context(e, x), NEW y, Context(e, y),
           Wider(x, y), NEW piece \in Pieces,
           Carries(Peer(e), piece.seq, piece.data, Bit(piece.fin), x.theirs,
                   x.over, x.sent)
    PROVE  Carries(Peer(e), piece.seq, piece.data, Bit(piece.fin), y.theirs,
                   y.over, y.sent)
  <1>1. Starts(Peer(e)) /\ piece.seq \in Numbers /\ piece.data \in Seq(Bytes)
    BY DEF Context, Pieces
  <1>2. PICK fin \in {0, 1} : fin = Bit(piece.fin)
    BY DEF Bit
  <1>3. PICK w \in Nat : w = x.theirs
    BY DEF Context, Contexts
  <1>4. PICK v \in Nat : v = y.theirs
    BY DEF Context, Contexts
  <1>5. PICK f : f = x.over
    OBVIOUS
  <1>6. PICK g : g = y.over
    OBVIOUS
  <1>7. PICK m \in Int : m = x.sent
    BY DEF Context, Contexts
  <1>8. PICK n \in Int : n = y.sent
    BY DEF Context, Contexts
  <1>9. w <= v /\ m <= n
    BY <1>3, <1>4, <1>7, <1>8 DEF Wider
  <1>10. f => g /\ v = w
    BY <1>3, <1>4, <1>5, <1>6 DEF Wider
  <1>11. Carries(Peer(e), piece.seq, piece.data, fin, w, f, m)
    BY <1>2, <1>3, <1>5, <1>7
  <1>12. Carries(Peer(e), piece.seq, piece.data, fin, v, g, n)
    BY <1>1, <1>9, <1>10, <1>11, CarriesOn
  <1> QED BY <1>2, <1>4, <1>6, <1>8, <1>12

(* An end stays sound while its peer does more.                              *)
LEMMA GrowsPasses ==
    ASSUME NEW e \in Ends, NEW x, Context(e, x), NEW y, Context(e, y),
           Grows(x, y), NEW c, Sound(e, c, x)
    PROVE  Passes(e, c, x, c, y)
  <1>1. /\ y.mine = x.mine /\ y.read = x.read /\ Wider(x, y)
        /\ x.theirs <= y.theirs /\ x.sent <= y.sent /\ x.known <= y.known
        /\ x.over => y.over /\ y.theirs = x.theirs
    BY DEF Grows, Wider
  <1>2. /\ x.mine \in Nat /\ x.read \in Nat /\ x.theirs \in Nat /\ x.sent \in Nat
        /\ x.known \in Nat /\ y.theirs \in Nat /\ y.sent \in Nat /\ y.known \in Nat
    BY DEF Context, Contexts
  <1>3. c \in Connections
    BY DEF Sound
  <1>4. SentOf(e, c, y) = SentOf(e, c, x)
    BY <1>1 DEF SentOf
  <1>5. SentOf(e, c, x) \in Int /\ KnownOf(e, c, x) \in Int
    BY BoundsHold
  <1>6. KnownOf(e, c, x) <= KnownOf(e, c, y) /\ KnownOf(e, c, y) \in Int
    <2>1. CASE c.state = "Closed"
      BY <2>1, <1>1, <1>2 DEF KnownOf
    <2>2. CASE c.state # "Closed"
      <3>1. KnownOf(e, c, y) = KnownOf(e, c, x)
        BY <2>2 DEF KnownOf
      <3> QED BY <3>1, <1>5
    <2> QED BY <2>1, <2>2
  <1>7. PutsOut(e, c, y)
    <2>1. PICK m \in Int : m = SentOf(e, c, y)
      BY <1>4, <1>5
    <2>2. PICK k \in Int : k = KnownOf(e, c, y)
      BY <1>6
    <2>3. x.mine <= y.mine /\ SentOf(e, c, x) <= m /\ KnownOf(e, c, x) <= k
      BY <2>1, <2>2, <1>1, <1>2, <1>4, <1>5, <1>6
    <2>4. c.finq => c.finq /\ y.mine = x.mine
      BY <1>1
    <2> QED BY <2>1, <2>2, <2>3, <2>4, PutsOutOn
  <1>8. Readable(c, y)
    <2>1. PICK len \in Nat : len = Len(c.recv)
      BY <1>3 DEF Connections
    <2>2. Readable(c, x)
      BY DEF Sound
    <2>3. x.read + len <= y.theirs
      BY <2>1, <2>2, <1>1, <1>2 DEF Readable
    <2> QED BY <2>1, <2>2, <2>3, <1>1 DEF Readable
  <1>9. c.state # "Closed" => SendsRight(e, c, y)
    <2>1. ASSUME c.state # "Closed"
          PROVE  SendsRight(e, c, y)
      <3>1. SendsRight(e, c, x) /\ Offset(e, c.una) \in Nat
        BY <2>1, LiveHolds
      <3>2. Offset(e, c.una) <= y.known
        <4>1. Offset(e, c.una) <= x.known
          BY <3>1 DEF SendsRight
        <4> QED BY <4>1, <3>1, <1>1, <1>2
      <3> QED BY <3>1, <3>2, <1>1 DEF SendsRight
    <2> QED BY <2>1
  <1>10. c.state \notin {"Closed", "SynSent"} => TakesRight(e, c, y)
    <2>1. ASSUME c.state \notin {"Closed", "SynSent"}
          PROVE  TakesRight(e, c, y)
      <3>1. TakesRight(e, c, x)
        BY <2>1 DEF Sound
      <3>2. Offset(Peer(e), c.rcv) \in Nat
        BY <3>1, OffsetIs DEF TakesRight, Near, Context
      <3>3. Offset(Peer(e), c.rcv) <= y.sent
        <4>1. Offset(Peer(e), c.rcv) <= x.sent
          BY <3>1 DEF TakesRight
        <4> QED BY <4>1, <3>2, <1>1, <1>2
      <3>4. c.finr => y.over /\ y.read + Len(c.recv) = y.theirs
        BY <3>1, <1>1 DEF TakesRight
      <3>5. \A z \in c.early :
              /\ Carries(Peer(e), z.seq, z.data, Bit(z.fin), y.theirs, y.over, y.sent)
              /\ Offset(Peer(e), c.rcv) < Offset(Peer(e), z.seq)
        <4>1. ASSUME NEW z \in c.early
              PROVE  /\ Carries(Peer(e), z.seq, z.data, Bit(z.fin), y.theirs,
                                y.over, y.sent)
                     /\ Offset(Peer(e), c.rcv) < Offset(Peer(e), z.seq)
          <5>1. z \in Pieces
            BY <1>3 DEF Connections
          <5>2. /\ Carries(Peer(e), z.seq, z.data, Bit(z.fin), x.theirs, x.over,
                           x.sent)
                /\ Offset(Peer(e), c.rcv) < Offset(Peer(e), z.seq)
            BY <3>1 DEF TakesRight
          <5> QED BY <5>1, <5>2, <1>1, EarlyOn
        <4> QED BY <4>1
      <3> QED BY <3>1, <3>3, <3>4, <3>5, <1>1 DEF TakesRight
    <2> QED BY <2>1
  <1>11. c.state = "SynSent" => TakesNothing(c, y)
    BY <1>1 DEF Sound, TakesNothing
  <1>12. Sound(e, c, y)
    BY <1>3, <1>7, <1>8, <1>9, <1>10, <1>11 DEF Sound
  <1>13. EndKnown(c, x) => EndKnown(c, y)
    BY <1>1 DEF EndKnown
  <1> QED BY <1>4, <1>5, <1>6, <1>12, <1>13 DEF Passes

(* What was put out is sent.                                                 *)
Emptied(c, d) == d = [c EXCEPT !.out = {}]

(* Handing over what was put out leaves the end sound.                       *)
LEMMA EmptiedSound ==
    ASSUME NEW e \in Ends, NEW x, NEW c, Sound(e, c, x), NEW d, Emptied(c, d)
    PROVE  /\ Sound(e, d, x) /\ d.out = {} /\ (EndKnown(c, x) => EndKnown(d, x))
           /\ d.state = c.state /\ d.max = c.max /\ d.rcv = c.rcv /\ d.finq = c.finq
           /\ d.recv = c.recv /\ d.finr = c.finr /\ d.connected = c.connected
           /\ d.failure = c.failure /\ d \in Connections
           /\ d.timer = c.timer
  <1>1. {} \in SUBSET Segments /\ c \in Connections
    BY DEF Sound
  <1>2. /\ d \in Connections /\ d.out = {} /\ SameIntake(c, d) /\ SameSending(c, d)
        /\ d.state = c.state /\ d.failure = c.failure /\ d.timer = c.timer
    BY <1>1 DEF Emptied, Connections, SameIntake, SameSending
  <1>3. PutsOut(e, d, x)
    BY <1>2 DEF PutsOut
  <1>4. Readable(d, x)
    BY <1>2 DEF Sound, Readable, SameIntake
  <1>5. Connecting(c) <=> Connecting(d)
    BY <1>2 DEF Connecting
  <1>6. c.state # "Closed" => SendsRight(e, d, x)
    BY <1>2, <1>5 DEF Sound, SendsRight, SameSending
  <1>7. c.state \notin {"Closed", "SynSent"} => TakesRight(e, d, x)
    BY <1>2 DEF Sound, TakesRight, SameIntake
  <1>8. c.state = "SynSent" => TakesNothing(d, x)
    BY <1>2 DEF Sound, TakesNothing, SameIntake
  <1>9. Sound(e, d, x)
    BY <1>2, <1>3, <1>4, <1>6, <1>7, <1>8 DEF Sound
  <1> QED BY <1>2, <1>9 DEF EndKnown, SameIntake, SameSending

-----------------------------------------------------------------------------
(* The two ends together, where each opens once.                             *)

(* What an end sent, and what it has of its peer's stream.                   *)
SentBy(e) ==
    IF opens[e] = 0 THEN 0
    ELSE IF conn[e].state = "Closed" THEN written[e] + 1 + Bit(conn[e].finq)
    ELSE Offset(e, conn[e].max)
HeldBy(e) ==
    IF opens[e] = 0 \/ conn[e].state = "SynSent" THEN 0
    ELSE IF conn[e].state = "Closed" THEN SentBy(Peer(e))
    ELSE Offset(Peer(e), conn[e].rcv)

(* The context of an end, from the state of both.                            *)
ContextOf(e) ==
    [mine |-> written[e], read |-> Len(taken[e][1]),
     theirs |-> written[Peer(e)], over |-> conn[Peer(e)].finq,
     sent |-> SentBy(Peer(e)), known |-> HeldBy(Peer(e))]

(* What the guests' part of the state, and the network's, are made of.       *)
Outcomes == {"open", "end", "error"}
GuestTyped ==
    /\ plan \in Plans
    /\ closed \in [Ends -> BOOLEAN] /\ opens \in [Ends -> {0, 1}]
    /\ written \in [Ends -> Nat] /\ \A e \in Ends : written[e] <= plan.total[e]
    /\ taken \in [Ends -> [1 .. MaxOpens -> Seq(Bytes)]]
    /\ outcome \in [Ends -> Outcomes]
NetTyped ==
    conn \in [Ends -> Connections] /\ net \in [Ends -> SUBSET Segments]

(* An end not yet opened; what a guest has read is the front of what was     *)
(* written.                                                                  *)
Unopened(e) ==
    /\ conn[e] = Blank /\ written[e] = 0 /\ ~closed[e] /\ outcome[e] = "open"
ReadRight(e) ==
    /\ Len(taken[e][1]) <= written[Peer(e)]
    /\ \A k \in 1 .. Len(taken[e][1]) : taken[e][1][k] = Tagged(1, k)
(* One end and all that is under way to it.                                  *)
EndKept(e) ==
    /\ Sound(e, conn[e], ContextOf(e)) /\ conn[e].out = {}
    /\ opens[e] = 0 => Unopened(e) /\ taken[e][1] = <<>>
    /\ ReadRight(e)
    /\ \A s \in net[e] : Comes(e, s, ContextOf(e))
    /\ ~closed[e] => EndKnown(conn[e], ContextOf(e))

(* The invariant of the two ends together.                                   *)
Kept ==
    /\ OpenOnce /\ GuestTyped /\ NetTyped
    /\ \A e \in Ends : EndKept(e)

(* Plans that open no end twice leave room for the numbers.                  *)
LEMMA PlanHolds ==
    ASSUME NEW e \in Ends, OpenOnce, plan \in Plans
    PROVE  /\ Starts(e) /\ 1 \in 1 .. MaxOpens /\ plan.opens[e] = 1
           /\ plan.total[e] \in Nat /\ 2 * (plan.total[e] + 2) < Modulus
           /\ plan.total \in [Ends -> 0 .. Modulus \div 2 - 3]
  <1>1. plan.opens \in [Ends -> 1 .. MaxOpens]
        /\ plan.total \in [Ends -> 0 .. Modulus \div 2 - 3]
    BY EndsAssumption
  <1>2. plan.opens[e] = 1 /\ plan.opens[e] \in 1 .. MaxOpens
    BY <1>1 DEF OpenOnce
  <1>3. InitialSequence[e][1] \in 0 .. Modulus - 1
    BY <1>2, EndsAssumption
  <1>4. PICK half \in Nat : Modulus = 2 * half
    BY ModulusHolds
  <1>5. Modulus \div 2 = half
    BY <1>4
  <1>6. plan.total[e] \in 0 .. half - 3
    BY <1>1, <1>5
  <1>7. plan.total[e] \in Nat /\ 2 * (plan.total[e] + 2) < Modulus
    BY <1>4, <1>6
  <1> QED BY <1>1, <1>2, <1>3, <1>7 DEF Starts, Start, Numbers

(* What an end sent is at most what was written and its FIN.                 *)
LEMMA SentByIs ==
    ASSUME NEW e \in Ends, NEW x, Context(e, x), x.mine = written[e],
           Sound(e, conn[e], x), opens[e] \in {0, 1}
    PROVE  /\ SentBy(e) \in Nat /\ SentBy(e) <= written[e] + 1 + Bit(conn[e].finq)
           /\ opens[e] = 1 => SentBy(e) = SentOf(e, conn[e], x)
  <1>1. SentOf(e, conn[e], x) \in Nat
        /\ SentOf(e, conn[e], x) <= x.mine + 1 + Bit(conn[e].finq)
    BY BoundsHold
  <1>2. CASE opens[e] = 0
    <2>1. SentBy(e) = 0
      BY <1>2 DEF SentBy
    <2>2. x.mine \in Nat /\ Bit(conn[e].finq) \in Nat
      BY DEF Context, Contexts, Bit
    <2>3. 0 <= x.mine + 1 + Bit(conn[e].finq)
      BY <2>2
    <2> QED BY <2>1, <2>3, <1>2
  <1>3. CASE opens[e] = 1
    <2>1. SentBy(e) = SentOf(e, conn[e], x)
      BY <1>3 DEF SentBy, SentOf
    <2> QED BY <2>1, <1>1, <1>3
  <1> QED BY <1>2, <1>3

(* The numbers that the context of an end consists of.                       *)
LEMMA SentByBounds ==
    ASSUME Kept, NEW e \in Ends
    PROVE  SentBy(e) \in Nat /\ SentBy(e) <= written[e] + 1 + Bit(conn[e].finq)
  <1>1. /\ Sound(e, conn[e], ContextOf(e)) /\ written[e] \in Nat
        /\ opens[e] \in {0, 1} /\ Starts(e)
    BY PlanHolds DEF Kept, EndKept, GuestTyped
  <1>2. Bit(conn[e].finq) \in {0, 1} /\ ContextOf(e).mine = written[e]
    BY DEF Bit, ContextOf
  <1>3. CASE opens[e] = 0
    <2>1. SentBy(e) = 0
      BY <1>3 DEF SentBy
    <2> QED BY <2>1, <1>1, <1>2
  <1>4. CASE opens[e] = 1 /\ conn[e].state = "Closed"
    <2>1. SentBy(e) = written[e] + 1 + Bit(conn[e].finq)
      BY <1>4 DEF SentBy
    <2> QED BY <2>1, <1>1, <1>2
  <1>5. CASE opens[e] = 1 /\ conn[e].state # "Closed"
    <2>1. SentBy(e) = Offset(e, conn[e].max)
      BY <1>5 DEF SentBy
    <2>2. Near(e, conn[e].max)
          /\ Offset(e, conn[e].max) <= written[e] + 1 + Bit(conn[e].finq)
      BY <1>1, <1>2, <1>5 DEF Sound, SendsRight
    <2>3. Offset(e, conn[e].max) \in Nat
      BY <2>2, <1>1, OffsetIs DEF Near
    <2> QED BY <2>1, <2>2, <2>3
  <1> QED BY <1>1, <1>3, <1>4, <1>5

(* What an end has of the stream is a natural number.                        *)
LEMMA HeldByBounds ==
    ASSUME Kept, NEW e \in Ends
    PROVE  HeldBy(e) \in Nat
  <1>1. Peer(e) \in Ends /\ Sound(e, conn[e], ContextOf(e)) /\ Starts(Peer(e))
    BY TwoEnds, PlanHolds DEF Kept, EndKept, GuestTyped
  <1>2. SentBy(Peer(e)) \in Nat
    BY <1>1, SentByBounds
  <1>3. CASE opens[e] = 0 \/ conn[e].state = "SynSent"
    BY <1>3 DEF HeldBy
  <1>4. CASE opens[e] # 0 /\ conn[e].state = "Closed"
    BY <1>2, <1>4 DEF HeldBy
  <1>5. CASE opens[e] # 0 /\ conn[e].state \notin {"Closed", "SynSent"}
    <2>1. Near(Peer(e), conn[e].rcv)
      BY <1>1, <1>5 DEF Sound, TakesRight
    <2>2. Offset(Peer(e), conn[e].rcv) \in Nat
      BY <2>1, <1>1, OffsetIs DEF Near
    <2> QED BY <2>2, <1>5 DEF HeldBy
  <1> QED BY <1>3, <1>4, <1>5

(* The invariant makes the context of each end one.                          *)
LEMMA ContextHolds ==
    ASSUME Kept, NEW e \in Ends
    PROVE  Context(e, ContextOf(e)) /\ Context(Peer(e), ContextOf(Peer(e)))
           /\ Peer(e) \in Ends /\ Peer(Peer(e)) = e
  <1>1. ASSUME NEW q \in Ends
        PROVE  Context(q, ContextOf(q))
    <2>1. Peer(q) \in Ends /\ Starts(q) /\ Starts(Peer(q))
      BY TwoEnds, PlanHolds DEF Kept, GuestTyped
    <2>2. ASSUME NEW r \in Ends
          PROVE  written[r] \in Nat /\ 2 * (written[r] + 2) < Modulus
      <3>1. plan.total[r] \in Nat /\ 2 * (plan.total[r] + 2) < Modulus
            /\ written[r] \in Nat /\ written[r] <= plan.total[r]
        BY PlanHolds DEF Kept, GuestTyped
      <3> QED BY <3>1, ModulusHolds
    <2>3. Len(taken[q][1]) \in Nat
      <3>1. taken[q][1] \in Seq(Bytes)
        BY PlanHolds DEF Kept, GuestTyped
      <3> QED BY <3>1
    <2>4. SentBy(Peer(q)) \in Nat /\ HeldBy(Peer(q)) \in Nat
          /\ SentBy(Peer(q)) <= written[Peer(q)] + 1 + Bit(conn[Peer(q)].finq)
      BY <2>1, SentByBounds, HeldByBounds
    <2>5. conn[Peer(q)].finq \in BOOLEAN
      BY <2>1 DEF Kept, NetTyped, Connections
    <2>6. ContextOf(q) \in Contexts
      BY <2>1, <2>2, <2>3, <2>4, <2>5 DEF ContextOf, Contexts
    <2> QED BY <2>1, <2>2, <2>4, <2>6 DEF Context, ContextOf
  <1> QED BY <1>1, TwoEnds

(* What an end makes of its connection, with what its guest did.             *)
Acts(e, f, z) ==
    /\ Context(e, z) /\ Sound(e, f, z)
    /\ z.theirs = written[Peer(e)] /\ z.over = conn[Peer(e)].finq
    /\ z.sent = SentBy(Peer(e)) /\ z.known = HeldBy(Peer(e))
    /\ written[e] <= z.mine
    /\ SentBy(e) <= SentOf(e, f, z) /\ HeldBy(e) <= KnownOf(e, f, z)
    /\ conn[e].finq => f.finq /\ z.mine = written[e]

(* The step of the end that does so, and what it sends.                      *)
Becomes(e, f, z) ==
    /\ Emptied(f, conn'[e]) /\ conn'[Peer(e)] = conn[Peer(e)]
    /\ net'[e] \subseteq net[e]
    /\ net'[Peer(e)] \subseteq net[Peer(e)] \cup f.out
    /\ opens'[e] = 1 /\ opens'[Peer(e)] = opens[Peer(e)]
    /\ written'[e] = z.mine /\ written'[Peer(e)] = written[Peer(e)]
    /\ Len(taken'[e][1]) = z.read /\ taken'[Peer(e)] = taken[Peer(e)]
    /\ closed'[Peer(e)] = closed[Peer(e)] /\ outcome'[Peer(e)] = outcome[Peer(e)]
    /\ ~closed'[e] => EndKnown(f, z)

(* A step of one end moves its own numbers on and leaves those of the peer.  *)
LEMMA StepNumbers ==
    ASSUME Kept, NEW e \in Ends, NEW f, NEW z, Acts(e, f, z), Becomes(e, f, z)
    PROVE  /\ SentBy(e)' = SentOf(e, f, z) /\ SentBy(Peer(e))' = SentBy(Peer(e))
           /\ HeldBy(e)' = KnownOf(e, f, z) /\ HeldBy(Peer(e)) <= HeldBy(Peer(e))'
           /\ HeldBy(Peer(e))' \in Nat
           /\ SentOf(e, f, z) \in Nat /\ KnownOf(e, f, z) \in Nat
           /\ SentOf(e, f, z) <= z.mine + 1 + Bit(f.finq)
  <1>1. Peer(e) \in Ends /\ Peer(Peer(e)) = e
    BY TwoEnds
  <1>2. PICK p \in Ends : p = Peer(e) /\ Peer(p) = e
    BY <1>1
  <1>3. /\ conn'[e].state = f.state /\ conn'[e].max = f.max
        /\ conn'[e].finq = f.finq /\ conn'[e].rcv = f.rcv
    BY EmptiedSound DEF Acts, Becomes
  <1>4. conn'[p] = conn[p] /\ opens'[e] = 1 /\ opens'[p] = opens[p]
        /\ written'[e] = z.mine /\ written'[p] = written[p]
    BY <1>2 DEF Becomes
  <1>5. SentBy(e)' = SentOf(e, f, z)
    BY <1>3, <1>4 DEF SentBy, SentOf
  <1>6. SentBy(p)' = SentBy(p)
    BY <1>4 DEF SentBy
  <1>7. SentBy(p) = z.sent
    BY <1>2 DEF Acts
  <1>8. HeldBy(e)' = KnownOf(e, f, z)
    <2>1. HeldBy(e)' =
            IF opens'[e] = 0 \/ conn'[e].state = "SynSent" THEN 0
            ELSE IF conn'[e].state = "Closed" THEN SentBy(p)'
            ELSE Offset(p, conn'[e].rcv)
      BY <1>2 DEF HeldBy, Offset, Start
    <2>2. KnownOf(e, f, z) =
            IF f.state = "SynSent" THEN 0
            ELSE IF f.state = "Closed" THEN z.sent
            ELSE Offset(p, f.rcv)
      BY <1>2 DEF KnownOf
    <2> QED BY <2>1, <2>2, <1>3, <1>4, <1>6, <1>7
  <1>9. /\ SentOf(e, f, z) \in Nat /\ KnownOf(e, f, z) \in Nat
        /\ SentOf(e, f, z) <= z.mine + 1 + Bit(f.finq)
    BY BoundsHold DEF Acts
  <1>10. HeldBy(p)' \in Nat /\ HeldBy(p) <= HeldBy(p)'
    <2>1. HeldBy(p)' =
            IF opens'[p] = 0 \/ conn'[p].state = "SynSent" THEN 0
            ELSE IF conn'[p].state = "Closed" THEN SentBy(e)'
            ELSE Offset(e, conn'[p].rcv)
      BY <1>2 DEF HeldBy, Offset, Start
    <2>2. HeldBy(p) =
            IF opens[p] = 0 \/ conn[p].state = "SynSent" THEN 0
            ELSE IF conn[p].state = "Closed" THEN SentBy(e)
            ELSE Offset(e, conn[p].rcv)
      BY <1>2 DEF HeldBy
    <2>3. HeldBy(p) \in Nat /\ SentBy(e) \in Nat
      BY <1>2, HeldByBounds, SentByBounds
    <2>4. SentBy(e) <= SentOf(e, f, z)
      BY DEF Acts
    <2> QED BY <2>1, <2>2, <2>3, <2>4, <1>4, <1>5, <1>9
  <1> QED BY <1>2, <1>5, <1>6, <1>8, <1>9, <1>10

(* A step of one end is, for the peer, a context that grows.                 *)
LEMMA StepContexts ==
    ASSUME Kept, NEW e \in Ends, NEW f, NEW z, Acts(e, f, z), Becomes(e, f, z)
    PROVE  /\ Context(e, ContextOf(e)') /\ Grows(z, ContextOf(e)')
           /\ Context(Peer(e), ContextOf(Peer(e))')
           /\ Grows(ContextOf(Peer(e)), ContextOf(Peer(e))')
           /\ Wider(ContextOf(e), ContextOf(e)')
           /\ ContextOf(Peer(e))'.theirs = z.mine
           /\ ContextOf(Peer(e))'.over = f.finq
           /\ ContextOf(Peer(e))'.sent = SentOf(e, f, z)
           /\ ContextOf(Peer(e))'.known = KnownOf(e, f, z)
  <1>1. PICK p \in Ends : p = Peer(e) /\ Peer(p) = e
    BY TwoEnds
  <1>2. /\ SentBy(e)' = SentOf(e, f, z) /\ SentBy(p)' = SentBy(p)
        /\ HeldBy(e)' = KnownOf(e, f, z) /\ HeldBy(p) <= HeldBy(p)'
        /\ HeldBy(p)' \in Nat
        /\ SentOf(e, f, z) \in Nat /\ KnownOf(e, f, z) \in Nat
        /\ SentOf(e, f, z) <= z.mine + 1 + Bit(f.finq)
    BY <1>1, StepNumbers
  <1>3. conn'[e].finq = f.finq
    BY EmptiedSound DEF Acts, Becomes
  <1>4. /\ conn'[p] = conn[p] /\ written'[e] = z.mine /\ written'[p] = written[p]
        /\ Len(taken'[e][1]) = z.read /\ taken'[p] = taken[p]
    BY <1>1 DEF Becomes
  <1>5. ContextOf(e)' = [mine |-> z.mine, read |-> z.read, theirs |-> written[p],
                         over |-> conn[p].finq, sent |-> SentBy(p),
                         known |-> HeldBy(p)']
    <2>1. ContextOf(e)' = [mine |-> written'[e], read |-> Len(taken'[e][1]),
                           theirs |-> written'[p], over |-> conn'[p].finq,
                           sent |-> SentBy(p)', known |-> HeldBy(p)']
      BY <1>1 DEF ContextOf, SentBy, HeldBy, Offset, Start
    <2> QED BY <2>1, <1>2, <1>4
  <1>6. ContextOf(p)' = [mine |-> written[p], read |-> Len(taken[p][1]),
                         theirs |-> z.mine, over |-> f.finq,
                         sent |-> SentOf(e, f, z), known |-> KnownOf(e, f, z)]
    <2>1. ContextOf(p)' = [mine |-> written'[p], read |-> Len(taken'[p][1]),
                           theirs |-> written'[e], over |-> conn'[e].finq,
                           sent |-> SentBy(e)', known |-> HeldBy(e)']
      BY <1>1 DEF ContextOf, SentBy, HeldBy, Offset, Start
    <2> QED BY <2>1, <1>2, <1>3, <1>4
  <1>7. ContextOf(p) = [mine |-> written[p], read |-> Len(taken[p][1]),
                        theirs |-> written[e], over |-> conn[e].finq,
                        sent |-> SentBy(e), known |-> HeldBy(e)]
    BY <1>1 DEF ContextOf
  <1>8. ContextOf(e) = [mine |-> written[e], read |-> Len(taken[e][1]),
                        theirs |-> written[p], over |-> conn[p].finq,
                        sent |-> SentBy(p), known |-> HeldBy(p)]
    BY <1>1 DEF ContextOf
  <1>9. /\ z \in Contexts /\ Context(e, z) /\ f.finq \in BOOLEAN
        /\ z.theirs = written[p] /\ z.over = conn[p].finq /\ z.sent = SentBy(p)
        /\ z.known = HeldBy(p) /\ written[e] <= z.mine
        /\ SentBy(e) <= SentOf(e, f, z) /\ HeldBy(e) <= KnownOf(e, f, z)
        /\ conn[e].finq => f.finq /\ z.mine = written[e]
    BY <1>1 DEF Acts, Context, Sound, Connections
  <1>10. Context(p, ContextOf(p)) /\ ContextOf(p) \in Contexts
    BY <1>1, ContextHolds DEF Context
  <1>11. ContextOf(e)' \in Contexts
    BY <1>2, <1>5, <1>9 DEF Contexts
  <1>12. Context(e, ContextOf(e)')
    BY <1>5, <1>9, <1>11 DEF Context
  <1>13. ContextOf(p)' \in Contexts
    BY <1>2, <1>6, <1>7, <1>9, <1>10 DEF Contexts
  <1>14. Context(p, ContextOf(p)')
    <2>1. 2 * (ContextOf(p)'.mine + 2) < Modulus
      BY <1>6, <1>7, <1>10 DEF Context
    <2>2. 2 * (ContextOf(p)'.theirs + 2) < Modulus
      BY <1>6, <1>9 DEF Context
    <2>3. ContextOf(p)'.sent <= ContextOf(p)'.theirs + 1 + Bit(ContextOf(p)'.over)
      BY <1>2, <1>6
    <2>4. Starts(p) /\ Starts(Peer(p))
      BY <1>10 DEF Context
    <2> QED BY <2>1, <2>2, <2>3, <2>4, <1>13 DEF Context
  <1>15. SentBy(p) \in Nat /\ HeldBy(p) \in Nat /\ written[p] \in Nat
    BY SentByBounds, HeldByBounds DEF Kept, GuestTyped
  <1>16. Grows(z, ContextOf(e)')
    BY <1>2, <1>5, <1>9, <1>15 DEF Grows, Wider
  <1>17. Wider(ContextOf(e), ContextOf(e)')
    BY <1>2, <1>5, <1>8, <1>15 DEF Wider
  <1>18. Grows(ContextOf(p), ContextOf(p)')
    BY <1>6, <1>7, <1>9 DEF Grows, Wider
  <1> QED BY <1>1, <1>6, <1>12, <1>14, <1>16, <1>17, <1>18

(* A step of one end keeps both.                                             *)
LEMMA EndSteps ==
    ASSUME Kept, NEW e \in Ends, NEW f, NEW z, Acts(e, f, z), Becomes(e, f, z),
           ReadRight(e)'
    PROVE  \A q \in Ends : EndKept(q)'
  <1>1. PICK p \in Ends : p = Peer(e) /\ Peer(p) = e /\ Ends = {e, p}
    BY TwoEnds
  <1>2. PICK x : x = ContextOf(e)'
    OBVIOUS
  <1>3. PICK y : y = ContextOf(p)'
    OBVIOUS
  <1>4. /\ Context(e, x) /\ Grows(z, x) /\ Context(p, y)
        /\ Grows(ContextOf(p), y) /\ Wider(ContextOf(e), x)
        /\ y.theirs = z.mine /\ y.over = f.finq
        /\ y.sent = SentOf(e, f, z) /\ y.known = KnownOf(e, f, z)
    BY <1>1, <1>2, <1>3, StepContexts
  <1>5. Context(e, ContextOf(e)) /\ Context(p, ContextOf(p))
    BY <1>1, ContextHolds
  <1>6. EndKept(e) /\ EndKept(p)
    BY DEF Kept
  <1>7. Context(e, z) /\ Sound(e, f, z)
    BY DEF Acts
  <1>8. EndKept(e)'
    <2>1. Passes(e, f, z, f, x)
      BY <1>4, <1>7, GrowsPasses
    <2>2. Sound(e, f, x) /\ (EndKnown(f, z) => EndKnown(f, x))
      BY <2>1 DEF Passes
    <2>3. Emptied(f, conn'[e])
      BY DEF Becomes
    <2>4. Sound(e, conn'[e], x) /\ conn'[e].out = {}
          /\ (EndKnown(f, x) => EndKnown(conn'[e], x))
      BY <2>2, <2>3, EmptiedSound
    <2>5. ~closed'[e] => EndKnown(conn'[e], x)
      BY <2>2, <2>4 DEF Becomes
    <2>6. \A s \in net'[e] : Comes(e, s, x)
      <3>1. ASSUME NEW s \in net'[e]
            PROVE  Comes(e, s, x)
        <4>1. s \in net[e]
          BY DEF Becomes
        <4>2. Comes(e, s, ContextOf(e))
          BY <4>1, <1>6 DEF EndKept
        <4> QED BY <4>2, <1>4, <1>5, ComesOn
      <3> QED BY <3>1
    <2>7. opens'[e] = 1
      BY DEF Becomes
    <2>8. Sound(e, conn'[e], ContextOf(e)')
          /\ (~closed'[e] => EndKnown(conn'[e], ContextOf(e)'))
          /\ \A s \in net'[e] : Comes(e, s, ContextOf(e)')
      BY <2>4, <2>5, <2>6, <1>2
    <2> QED BY <2>4, <2>7, <2>8 DEF EndKept, Sound, Comes, EndKnown, SendsRight,
            TakesRight, PutsOut, SentOf, KnownOf, Genuine, Content, Acks, Carries,
            Near, Offset, Start
  <1>9. EndKept(p)'
    <2>1. /\ conn'[p] = conn[p] /\ opens'[p] = opens[p]
          /\ written'[p] = written[p] /\ taken'[p] = taken[p]
          /\ closed'[p] = closed[p] /\ outcome'[p] = outcome[p]
          /\ written'[e] = z.mine
      BY <1>1 DEF Becomes
    <2>2. Passes(p, conn[p], ContextOf(p), conn[p], y)
      BY <1>4, <1>5, <1>6, GrowsPasses DEF EndKept
    <2>3. Sound(p, conn'[p], y) /\ conn'[p].out = {}
          /\ (~closed'[p] => EndKnown(conn'[p], y))
      BY <2>1, <2>2, <1>6 DEF Passes, EndKept
    <2>4. \A s \in net'[p] : Comes(p, s, y)
      <3>1. ASSUME NEW s \in net'[p]
            PROVE  Comes(p, s, y)
        <4>1. s \in net[p] \/ s \in f.out
          BY <1>1 DEF Becomes
        <4>2. CASE s \in net[p]
          <5>1. Comes(p, s, ContextOf(p)) /\ Wider(ContextOf(p), y)
            BY <4>2, <1>4, <1>6 DEF EndKept, Grows
          <5> QED BY <5>1, <1>4, <1>5, ComesOn
        <4>3. CASE s \in f.out
          <5>1. Genuine(e, s, z.mine, f.finq, SentOf(e, f, z), KnownOf(e, f, z))
                /\ s \in Segments
            BY <4>3, <1>7 DEF Sound, PutsOut, Connections
          <5> QED BY <5>1, <1>1, <1>4 DEF Comes
        <4> QED BY <4>1, <4>2, <4>3
      <3> QED BY <3>1
    <2>5. opens'[p] = 0 => Unopened(p)' /\ taken'[p][1] = <<>>
      BY <2>1, <1>6 DEF EndKept, Unopened
    <2>6. ReadRight(p)'
      <3>1. Len(taken[p][1]) <= written[e]
            /\ \A k \in 1 .. Len(taken[p][1]) : taken[p][1][k] = Tagged(1, k)
        BY <1>1, <1>6 DEF EndKept, ReadRight
      <3>2. Len(taken[p][1]) <= z.mine
        <4>1. Context(p, ContextOf(p)) /\ ContextOf(p).read = Len(taken[p][1])
          BY <1>5 DEF ContextOf
        <4>2. Len(taken[p][1]) \in Nat /\ written[e] \in Nat /\ z.mine \in Nat
          BY <4>1, <1>7 DEF Context, Contexts, Kept, GuestTyped
        <4>3. written[e] <= z.mine
          BY DEF Acts
        <4> QED BY <3>1, <4>2, <4>3
      <3> QED BY <3>1, <3>2, <2>1, <1>1 DEF ReadRight, Tagged
    <2>7. Sound(p, conn'[p], ContextOf(p)')
          /\ (~closed'[p] => EndKnown(conn'[p], ContextOf(p)'))
          /\ \A s \in net'[p] : Comes(p, s, ContextOf(p)')
      BY <2>3, <2>4, <1>3
    <2> QED BY <2>3, <2>5, <2>6, <2>7 DEF EndKept
  <1> QED BY <1>1, <1>8, <1>9

-----------------------------------------------------------------------------
(* The steps of the ends.                                                    *)

LEMMA FlushedMoves ==
    ASSUME NEW e \in Ends, NEW z, Context(e, z), NEW d, Sound(e, d, z),
           ~closed'[e] => EndKnown(d, z), NEW g, g = Flushed(e, d)
    PROVE  /\ Sound(e, g, z) /\ Follows(e, d, g, z)
           /\ ~closed'[e] => EndKnown(g, z)
  <1>1. CASE closed'[e] /\ d.recv # <<>>
    <2>1. g = Abort(d)
      BY <1>1 DEF Flushed
    <2> QED BY <2>1, <1>1, AbortFollows
  <1>2. CASE ~(closed'[e] /\ d.recv # <<>>)
    <2>1. g = d
      BY <1>2 DEF Flushed
    <2>2. Follows(e, d, d, z)
      BY OnwardSelf DEF Onward
    <2> QED BY <2>1, <2>2
  <1> QED BY <1>1, <1>2

(* What the guest of an end did, in the words of its context.                *)
GuestSteps(e, z) ==
    /\ plan' = plan /\ GuestTyped'
    /\ opens'[e] = 1 /\ opens'[Peer(e)] = opens[Peer(e)]
    /\ written'[e] = z.mine /\ written'[Peer(e)] = written[Peer(e)]
    /\ Len(taken'[e][1]) = z.read /\ taken'[Peer(e)] = taken[Peer(e)]
    /\ closed'[Peer(e)] = closed[Peer(e)] /\ outcome'[Peer(e)] = outcome[Peer(e)]
    /\ ReadRight(e)'

(* What the network may have lost.                                           *)
Remains(others) ==
    /\ others \in [Ends -> SUBSET Segments]
    /\ \A q \in Ends : others[q] \subseteq net[q]

(* Post adds to what is under way to the peer and no more.                   *)
LEMMA PostIs ==
    ASSUME NEW e \in Ends, NEW segments \in SUBSET Segments, NEW others,
           Kept, Remains(others), Post(e, segments, others)
    PROVE  /\ net' \in [Ends -> SUBSET Segments] /\ net'[e] \subseteq net[e]
           /\ net'[Peer(e)] \subseteq net[Peer(e)] \cup segments
  <1>1. PICK p \in Ends : p = Peer(e) /\ p # e /\ Ends = {e, p}
    BY TwoEnds
  <1>2. PICK kept \in SUBSET segments :
          net' = [others EXCEPT ![p] = @ \cup kept]
    BY <1>1 DEF Post
  <1>3. net' = [others EXCEPT ![p] = others[p] \cup kept]
        /\ others \in [Ends -> SUBSET Segments]
    BY <1>1, <1>2 DEF Remains
  <1>4. kept \in SUBSET Segments
    BY <1>2
  <1>5. net' \in [Ends -> SUBSET Segments] /\ net'[e] = others[e]
        /\ net'[p] = others[p] \cup kept
    BY <1>1, <1>3, <1>4
  <1>6. others[e] \subseteq net[e] /\ others[p] \subseteq net[p]
    BY DEF Remains
  <1> QED BY <1>1, <1>2, <1>5, <1>6

(* A step of one end and the delivery of what it put out keep the two ends.  *)
LEMMA PostKept ==
    ASSUME Kept, NEW e \in Ends, NEW f, NEW z, Acts(e, f, z), GuestSteps(e, z),
           NEW others, Remains(others), Post(e, f.out, others),
           Emptied(f, conn'[e]), conn' = [conn EXCEPT ![e] = conn'[e]],
           ~closed'[e] => EndKnown(f, z)
    PROVE  /\ Kept' /\ conn'[e].finq = f.finq
           /\ conn'[Peer(e)] = conn[Peer(e)]
  <1>1. PICK p \in Ends : p = Peer(e) /\ p # e
    BY TwoEnds
  <1>2. f \in Connections /\ f.out \in SUBSET Segments
    BY DEF Acts, Sound, Connections
  <1>3. conn'[e] \in Connections /\ conn'[e].finq = f.finq
    BY EmptiedSound DEF Acts
  <1>4. conn \in [Ends -> Connections]
    BY DEF Kept, NetTyped
  <1>5. conn'[p] = conn[p] /\ conn' \in [Ends -> Connections]
    BY <1>1, <1>3, <1>4
  <1>6. /\ net' \in [Ends -> SUBSET Segments] /\ net'[e] \subseteq net[e]
        /\ net'[Peer(e)] \subseteq net[Peer(e)] \cup f.out
    BY <1>2, PostIs
  <1>7. Becomes(e, f, z)
    BY <1>1, <1>5, <1>6 DEF Becomes, GuestSteps
  <1>8. \A q \in Ends : EndKept(q)'
    BY <1>7, EndSteps DEF GuestSteps
  <1>9. OpenOnce'
    BY DEF Kept, OpenOnce, GuestSteps
  <1>10. NetTyped' /\ GuestTyped'
    BY <1>5, <1>6 DEF NetTyped, GuestSteps
  <1> QED BY <1>1, <1>3, <1>5, <1>8, <1>9, <1>10 DEF Kept

(* The same for Settle, which also resets the connection of a closed socket  *)
(* for which data still comes.                                               *)
LEMMA SettleKept ==
    ASSUME Kept, NEW e \in Ends, NEW d, NEW z, Acts(e, d, z), GuestSteps(e, z),
           NEW others, Remains(others), Settle(e, d, others),
           ~closed'[e] => EndKnown(d, z)
    PROVE  /\ Kept' /\ conn'[e].finq = d.finq
           /\ conn'[Peer(e)] = conn[Peer(e)]
  <1>1. PICK g : g = Flushed(e, d)
    OBVIOUS
  <1>2. conn' = [conn EXCEPT ![e] = [g EXCEPT !.out = {}]]
        /\ Post(e, g.out, others)
    BY <1>1 DEF Settle
  <1>3. Context(e, z) /\ Sound(e, d, z)
    BY DEF Acts
  <1>4. Sound(e, g, z) /\ Follows(e, d, g, z) /\ (~closed'[e] => EndKnown(g, z))
    BY <1>1, <1>3, FlushedMoves
  <1>5. Acts(e, g, z)
    <2>1. /\ SentOf(e, d, z) \in Int /\ KnownOf(e, d, z) \in Int
          /\ SentOf(e, g, z) \in Int /\ KnownOf(e, g, z) \in Int
      BY <1>3, <1>4, BoundsHold
    <2>2. SentOf(e, d, z) <= SentOf(e, g, z) /\ KnownOf(e, d, z) <= KnownOf(e, g, z)
          /\ g.finq = d.finq
      BY <1>4 DEF Follows
    <2>3. SentBy(e) \in Int /\ HeldBy(e) \in Int
      BY SentByBounds, HeldByBounds
    <2>4. SentBy(e) <= SentOf(e, d, z) /\ HeldBy(e) <= KnownOf(e, d, z)
      BY DEF Acts
    <2>5. SentBy(e) <= SentOf(e, g, z) /\ HeldBy(e) <= KnownOf(e, g, z)
      BY <2>1, <2>2, <2>3, <2>4
    <2> QED BY <1>4, <2>2, <2>5 DEF Acts
  <1>6. PICK h : Emptied(g, h)
    BY DEF Emptied
  <1>7. conn' = [conn EXCEPT ![e] = h] /\ conn \in [Ends -> Connections]
    BY <1>2, <1>6 DEF Emptied, Kept, NetTyped
  <1>8. conn'[e] = h
    BY <1>7
  <1>9. Emptied(g, conn'[e]) /\ conn' = [conn EXCEPT ![e] = conn'[e]]
    BY <1>6, <1>7, <1>8
  <1>10. Kept' /\ conn'[e].finq = g.finq /\ conn'[Peer(e)] = conn[Peer(e)]
    BY <1>2, <1>4, <1>5, <1>9, PostKept
  <1> QED BY <1>4, <1>10 DEF Follows

(* A step that changes nothing of the ends but what the guest was told.      *)
Refuses(s) == "RST" \in s.flags /\ s \in Segments

(* Losing, repeating or reordering what is under way keeps the two ends.     *)
LEMMA NetKept ==
    ASSUME Kept, UNCHANGED <<plan, conn, closed, opens, written, taken>>,
           outcome' \in [Ends -> Outcomes],
           \A q \in Ends : opens[q] = 0 => outcome'[q] = outcome[q],
           net' \in [Ends -> SUBSET Segments],
           \A q \in Ends : \A s \in net'[q] : s \in net[q] \/ Refuses(s)
    PROVE  Kept'
  <1>1. ASSUME NEW q \in Ends
        PROVE  EndKept(q)'
    <2>1. EndKept(q)
      BY DEF Kept
    <2>2. PICK x : x = ContextOf(q)
      OBVIOUS
    <2>3. ContextOf(q)' = x
      BY <2>2 DEF ContextOf, SentBy, HeldBy, Offset, Start
    <2>4. Sound(q, conn[q], x) /\ conn[q].out = {}
          /\ (~closed[q] => EndKnown(conn[q], x))
          /\ \A s \in net[q] : Comes(q, s, x)
      BY <2>1, <2>2 DEF EndKept
    <2>5. \A s \in net'[q] : Comes(q, s, x)
      <3>1. ASSUME NEW s \in net'[q]
            PROVE  Comes(q, s, x)
        <4>1. CASE s \in net[q]
          BY <2>4, <4>1
        <4>2. CASE Refuses(s)
          BY <4>2 DEF Refuses, Comes, Genuine
        <4> QED BY <4>1, <4>2
      <3> QED BY <3>1
    <2>6. Sound(q, conn'[q], ContextOf(q)')
          /\ (~closed'[q] => EndKnown(conn'[q], ContextOf(q)'))
          /\ \A s \in net'[q] : Comes(q, s, ContextOf(q)')
      BY <2>3, <2>4, <2>5
    <2>7. ReadRight(q)'
      BY <2>1 DEF EndKept, ReadRight
    <2>8. opens'[q] = 0 => Unopened(q)' /\ taken'[q][1] = <<>>
      BY <2>1 DEF EndKept, Unopened
    <2> QED BY <2>4, <2>6, <2>7, <2>8 DEF EndKept
  <1>2. OpenOnce' /\ GuestTyped' /\ NetTyped'
    BY DEF Kept, OpenOnce, GuestTyped, NetTyped
  <1> QED BY <1>1, <1>2 DEF Kept

(* An end that has a connection, or had one, opened it.                      *)
LEMMA OpenedHolds ==
    ASSUME Kept, NEW e \in Ends
    PROVE  /\ opens[e] \in {0, 1}
           /\ conn[e].state # "Closed" => opens[e] = 1
           /\ conn[e].connected \/ conn[e].active \/ closed[e] => opens[e] = 1
           /\ opens[e] = 1 =>
                /\ SentBy(e) = SentOf(e, conn[e], ContextOf(e))
                /\ HeldBy(e) = KnownOf(e, conn[e], ContextOf(e))
           /\ opens[e] = 0 =>
                /\ SentBy(e) = 0 /\ HeldBy(e) = 0 /\ written[e] = 0
                /\ conn[e] = Blank /\ taken[e][1] = <<>>
                /\ outcome[e] = "open" /\ ~conn[e].finq
  <1>1. opens[e] \in {0, 1} /\ EndKept(e)
    BY DEF Kept, GuestTyped
  <1>2. ASSUME opens[e] = 0
        PROVE  /\ conn[e].state = "Closed" /\ ~closed[e]
               /\ ~conn[e].connected /\ ~conn[e].active
               /\ SentBy(e) = 0 /\ HeldBy(e) = 0 /\ written[e] = 0
               /\ conn[e] = Blank /\ taken[e][1] = <<>>
               /\ outcome[e] = "open" /\ ~conn[e].finq
    <2>1. Unopened(e) /\ taken[e][1] = <<>>
      BY <1>1, <1>2 DEF EndKept
    <2>2. Blank.state = "Closed" /\ ~Blank.connected /\ ~Blank.active /\ ~Blank.finq
      BY DEF Blank
    <2> QED BY <1>2, <2>1, <2>2 DEF Unopened, SentBy, HeldBy
  <1>3. ASSUME opens[e] = 1
        PROVE  /\ SentBy(e) = SentOf(e, conn[e], ContextOf(e))
               /\ HeldBy(e) = KnownOf(e, conn[e], ContextOf(e))
    <2>1. ContextOf(e).mine = written[e] /\ ContextOf(e).sent = SentBy(Peer(e))
      BY DEF ContextOf
    <2>2. SentBy(e) = SentOf(e, conn[e], ContextOf(e))
      BY <1>3, <2>1 DEF SentBy, SentOf
    <2>3. HeldBy(e) = KnownOf(e, conn[e], ContextOf(e))
      BY <1>3, <2>1 DEF HeldBy, KnownOf
    <2> QED BY <2>2, <2>3
  <1> QED BY <1>1, <1>2, <1>3

(* A call of an end whose guest does nothing that its context tells.         *)
Calls(e) ==
    /\ UNCHANGED guest /\ closed' \in [Ends -> BOOLEAN]
    /\ closed'[Peer(e)] = closed[Peer(e)]

(* A call that the guest has made leaves what it wrote and read.             *)
LEMMA CallsGuest ==
    ASSUME Kept, NEW e \in Ends, opens[e] = 1, Calls(e)
    PROVE  GuestSteps(e, ContextOf(e))
  <1>1. plan' = plan /\ opens' = opens /\ written' = written /\ taken' = taken
        /\ outcome' = outcome
    BY DEF Calls, guest
  <1>2. GuestTyped'
    BY <1>1 DEF GuestTyped, Kept, Calls
  <1>3. ReadRight(e)'
    BY <1>1 DEF ReadRight, Kept, EndKept
  <1>4. ContextOf(e).mine = written[e] /\ ContextOf(e).read = Len(taken[e][1])
    BY DEF ContextOf
  <1> QED BY <1>1, <1>2, <1>3, <1>4 DEF GuestSteps, Calls

(* A sound step of a connection is a step of its end.                        *)
LEMMA FollowsActs ==
    ASSUME Kept, NEW e \in Ends, opens[e] = 1,
           NEW d, Sound(e, d, ContextOf(e)), conn[e].finq => d.finq,
           SentOf(e, conn[e], ContextOf(e)) <= SentOf(e, d, ContextOf(e)),
           KnownOf(e, conn[e], ContextOf(e)) <= KnownOf(e, d, ContextOf(e))
    PROVE  Acts(e, d, ContextOf(e))
  <1>1. SentBy(e) = SentOf(e, conn[e], ContextOf(e))
        /\ HeldBy(e) = KnownOf(e, conn[e], ContextOf(e))
    BY OpenedHolds
  <1>2. /\ ContextOf(e).mine = written[e] /\ ContextOf(e).theirs = written[Peer(e)]
        /\ ContextOf(e).over = conn[Peer(e)].finq
        /\ ContextOf(e).sent = SentBy(Peer(e)) /\ ContextOf(e).known = HeldBy(Peer(e))
    BY DEF ContextOf
  <1>3. written[e] \in Nat
    BY DEF Kept, GuestTyped
  <1> QED BY <1>1, <1>2, <1>3, ContextHolds DEF Acts

(* A call of the guest on its connection keeps the two ends.                 *)
LEMMA CallKept ==
    ASSUME Kept, NEW e \in Ends, opens[e] = 1, Calls(e), NEW d,
           Passes(e, conn[e], ContextOf(e), d, ContextOf(e)),
           NEW others, Remains(others), Settle(e, d, others),
           ~closed'[e] => ~closed[e]
    PROVE  /\ Kept' /\ conn'[e].finq = d.finq
           /\ conn'[Peer(e)] = conn[Peer(e)]
  <1>1. PICK x : x = ContextOf(e)
    OBVIOUS
  <1>2. Acts(e, d, x)
    BY <1>1, FollowsActs DEF Passes
  <1>3. GuestSteps(e, x)
    BY <1>1, CallsGuest
  <1>4. ~closed'[e] => EndKnown(d, x)
    BY <1>1 DEF Passes, Kept, EndKept
  <1> QED BY <1>2, <1>3, <1>4, SettleKept

(* An abort keeps the two ends.                                              *)
LEMMA SettledAbort ==
    ASSUME Kept, NEW e \in Ends, opens[e] = 1, Calls(e), closed'[e],
           NEW others, Remains(others), Settle(e, Abort(conn[e]), others)
    PROVE  /\ Kept' /\ conn'[e].finq = conn[e].finq
           /\ conn'[Peer(e)] = conn[Peer(e)]
  <1>1. PICK x : x = ContextOf(e)
    OBVIOUS
  <1>2. PICK d : d = Abort(conn[e])
    OBVIOUS
  <1>3. Context(e, x) /\ Sound(e, conn[e], x)
    BY <1>1, ContextHolds DEF Kept, EndKept
  <1>4. Sound(e, d, x) /\ Follows(e, conn[e], d, x)
    BY <1>2, <1>3, AbortFollows
  <1>5. Acts(e, d, x)
    BY <1>1, <1>4, FollowsActs DEF Follows
  <1>6. GuestSteps(e, x)
    BY <1>1, CallsGuest
  <1>7. Kept' /\ conn'[e].finq = d.finq /\ conn'[Peer(e)] = conn[Peer(e)]
    BY <1>2, <1>5, <1>6, SettleKept
  <1> QED BY <1>4, <1>7 DEF Follows

-----------------------------------------------------------------------------
(* One lemma for each action.                                                *)

RemainsNet ==
    /\ Remains(net)
    /\ \A e \in Ends : \A s : Remains([net EXCEPT ![e] = @ \ {s}])

(* What is under way may remain.                                             *)
LEMMA NetRemains ==
    ASSUME Kept
    PROVE  RemainsNet
  <1>1. net \in [Ends -> SUBSET Segments]
    BY DEF Kept, NetTyped
  <1>2. ASSUME NEW e \in Ends, NEW s
        PROVE  Remains([net EXCEPT ![e] = @ \ {s}])
    <2>1. PICK others : others = [net EXCEPT ![e] = net[e] \ {s}]
      OBVIOUS
    <2>2. net[e] \ {s} \in SUBSET Segments
      BY <1>1
    <2>3. others \in [Ends -> SUBSET Segments]
      BY <1>1, <2>1, <2>2
    <2>4. \A q \in Ends : others[q] \subseteq net[q]
      BY <1>1, <2>1
    <2> QED BY <2>1, <2>3, <2>4 DEF Remains
  <1> QED BY <1>1, <1>2 DEF Remains, RemainsNet

(* What a step of one end leaves to the guest to see of the connections.     *)
Silent(e) ==
    /\ conn'[e].finq = conn[e].finq /\ conn'[Peer(e)] = conn[Peer(e)]
    /\ UNCHANGED guest

(* A step of a connection that no guest called keeps the two ends.           *)
LEMMA MovesKept ==
    ASSUME Kept, NEW e \in Ends, opens[e] = 1, UNCHANGED closed, UNCHANGED guest,
           NEW d, Moves(e, conn[e], d, ContextOf(e)),
           NEW others, Remains(others), Settle(e, d, others)
    PROVE  Kept' /\ Silent(e)
  <1>1. Passes(e, conn[e], ContextOf(e), d, ContextOf(e)) /\ d.finq = conn[e].finq
    BY MovesPasses
  <1>2. Calls(e)
    BY DEF Calls, Kept, GuestTyped
  <1>3. Kept' /\ conn'[e].finq = d.finq /\ conn'[Peer(e)] = conn[Peer(e)]
    BY <1>1, <1>2, CallKept
  <1> QED BY <1>1, <1>3 DEF Silent

(* A segment that finds its connection,                                      *)
LEMMA ToConnectionKept ==
    ASSUME Kept, NEW e \in Ends, NEW s \in net[e], NEW rest, Remains(rest),
           ToConnection(e, s, rest)
    PROVE  Kept' /\ Silent(e)
  <1>1. conn[e].state # "Closed"
    BY DEF ToConnection, Replaceable
  <1>2. opens[e] = 1
    BY <1>1, OpenedHolds
  <1>3. Sound(e, conn[e], ContextOf(e)) /\ Comes(e, s, ContextOf(e))
    BY DEF Kept, EndKept
  <1>4. Moves(e, conn[e], Input(conn[e], s), ContextOf(e))
    BY <1>3, ContextHolds, InputMoves
  <1>5. PICK d : d = Input(conn[e], s)
    OBVIOUS
  <1>6. Settle(e, d, rest) /\ UNCHANGED closed /\ UNCHANGED guest
    BY <1>5 DEF ToConnection
  <1> QED BY <1>2, <1>4, <1>5, <1>6, MovesKept

(* a tick of the clock,                                                      *)
LEMMA TickStreamsKept ==
    ASSUME Kept, NEW e \in Ends, TickStreams(e)
    PROVE  Kept' /\ Silent(e)
  <1>1. Sound(e, conn[e], ContextOf(e)) /\ opens[e] \in {0, 1}
    BY OpenedHolds DEF Kept, EndKept
  <1>2. opens[e] = 1 /\ conn[e].state # "Closed"
    <2>1. ASSUME conn[e].state = "Closed"
          PROVE  FALSE
      BY <2>1, <1>1 DEF TickStreams, CanTick, Sound
    <2> QED BY <2>1, OpenedHolds
  <1>3. Moves(e, conn[e], Tick(conn[e]), ContextOf(e))
    BY <1>1, <1>2, ContextHolds, TickMoves
  <1>4. PICK d : d = Tick(conn[e])
    OBVIOUS
  <1>5. Settle(e, d, net) /\ UNCHANGED closed /\ UNCHANGED guest
    BY <1>4 DEF TickStreams, Call
  <1>6. Remains(net)
    BY NetRemains DEF RemainsNet
  <1> QED BY <1>2, <1>3, <1>4, <1>5, <1>6, MovesKept

(* an association that is gone,                                              *)
LEMMA RetireKept ==
    ASSUME Kept, NEW e \in Ends, Retire(e)
    PROVE  Kept' /\ Silent(e)
  <1>1. Sound(e, conn[e], ContextOf(e))
    BY DEF Kept, EndKept
  <1>2. opens[e] = 1
    BY OpenedHolds DEF Retire
  <1>3. Moves(e, conn[e], Detach(conn[e]), ContextOf(e))
    BY <1>1, ContextHolds, DetachMoves
  <1>4. PICK d : d = Detach(conn[e])
    OBVIOUS
  <1>5. Settle(e, d, net) /\ UNCHANGED closed /\ UNCHANGED guest
    BY <1>4 DEF Retire, Call
  <1>6. Remains(net)
    BY NetRemains DEF RemainsNet
  <1> QED BY <1>2, <1>3, <1>4, <1>5, <1>6, MovesKept

(* an orphaned connection aborted,                                           *)
LEMMA OrphanKept ==
    ASSUME Kept, NEW e \in Ends, Orphan(e)
    PROVE  Kept' /\ Silent(e)
  <1>1. opens[e] = 1 /\ closed[e] /\ UNCHANGED closed /\ UNCHANGED guest
        /\ Settle(e, Abort(conn[e]), net)
    BY OpenedHolds DEF Orphan, Orphaned, Call
  <1>2. Calls(e) /\ closed'[e]
    BY <1>1 DEF Calls, Kept, GuestTyped
  <1>3. Remains(net)
    BY NetRemains DEF RemainsNet
  <1> QED BY <1>1, <1>2, <1>3, SettledAbort DEF Silent

(* a segment that finds no connection and is refused,                        *)
LEMMA ToNobodyKept ==
    ASSUME Kept, NEW e \in Ends, NEW s \in net[e], NEW rest, Remains(rest),
           ToNobody(e, s, rest)
    PROVE  Kept' /\ Silent(e)
  <1>1. PICK x : x = ContextOf(e)
    OBVIOUS
  <1>2. PICK p \in Ends : p = Peer(e) /\ p # e /\ Ends = {e, p}
    BY TwoEnds
  <1>3. Context(e, x) /\ Sound(e, conn[e], x) /\ s \in Segments /\ Comes(e, s, x)
    BY <1>1, ContextHolds DEF Kept, EndKept, Comes
  <1>4. ASSUME NEW r \in Refusal(s)
        PROVE  Refuses(r)
    <2>1. Starts(Peer(e)) /\ s.seq \in Numbers /\ s.ack \in Numbers
          /\ s.flags \in SUBSET Flags /\ s.data \in Seq(Bytes)
      BY <1>3 DEF Context, Segments
    <2>2. Cardinality(s.flags \cap {"SYN", "FIN"}) \in Nat
      <3>1. IsFiniteSet({"SYN"} \cup {"FIN"})
        BY FS_Singleton, FS_Union
      <3>2. s.flags \cap {"SYN", "FIN"} \subseteq {"SYN"} \cup {"FIN"}
        OBVIOUS
      <3> QED BY <3>1, <3>2, FS_Subset, FS_CardinalityType
    <2>3. SeqLength(s) \in Int
      BY <2>1, <2>2 DEF SeqLength
    <2>4. Plus(s.seq, SeqLength(s)) \in Numbers
      <3>1. PICK n \in Int : n = s.seq + SeqLength(s)
        BY <2>1, <2>3 DEF Numbers
      <3>2. Modulus \in Nat /\ Modulus > 0
        BY ModulusHolds
      <3>3. n % Modulus \in 0 .. Modulus - 1
        BY <3>1, <3>2, DivisionIs
      <3> QED BY <3>1, <3>3 DEF Plus, Numbers
    <2>5. 0 \in Numbers
      BY ModulusHolds DEF Numbers
    <2>6. {"RST"} \in SUBSET Flags /\ {"RST", "ACK"} \in SUBSET Flags
          /\ <<>> \in Seq(Bytes)
      BY DEF Flags
    <2>7. PICK ack \in Numbers : ack = Plus(s.seq, SeqLength(s))
      BY <2>4
    <2>8. \/ r = Segment(s.ack, 0, {"RST"}, 0, <<>>)
          \/ r = Segment(0, ack, {"RST", "ACK"}, 0, <<>>)
      BY <1>4, <2>7 DEF Refusal
    <2>9. ASSUME NEW seq \in Numbers, NEW n \in Numbers, NEW flags \in SUBSET Flags,
                 "RST" \in flags, NEW data \in Seq(Bytes), NEW wnd \in Nat,
                 r = Segment(seq, n, flags, wnd, data)
          PROVE  Refuses(r)
      BY <2>9 DEF Refuses, Segment, Segments
    <2>10. PICK wnd \in Nat : wnd = 0
      OBVIOUS
    <2>11. PICK no \in Numbers : no = 0
      BY <2>5
    <2>12. PICK data \in Seq(Bytes) : data = <<>>
      BY <2>6
    <2>13. PICK rst \in SUBSET Flags : rst = {"RST"}
      BY <2>6
    <2>14. PICK both \in SUBSET Flags : both = {"RST", "ACK"}
      BY <2>6
    <2>15. \/ r = Segment(s.ack, no, rst, wnd, data)
           \/ r = Segment(no, ack, both, wnd, data)
      BY <2>8, <2>10, <2>11, <2>12, <2>13, <2>14
    <2>16. "RST" \in rst /\ "RST" \in both
      BY <2>13, <2>14
    <2> QED BY <2>1, <2>9, <2>15, <2>16
  <1>5. /\ conn' = [conn EXCEPT ![e] = Detach(conn[e])]
        /\ Post(e, Refusal(s), rest) /\ UNCHANGED closed /\ UNCHANGED guest
    BY DEF ToNobody
  <1>6. conn \in [Ends -> Connections] /\ net \in [Ends -> SUBSET Segments]
    BY DEF Kept, NetTyped
  <1>7. Refusal(s) \in SUBSET Segments
    BY <1>4 DEF Refuses
  <1>8. CASE conn[e].state = "Closed"
    <2>1. conn' = conn
      BY <1>5, <1>6, <1>8 DEF Detach
    <2>2. /\ net' \in [Ends -> SUBSET Segments] /\ net'[e] \subseteq net[e]
          /\ net'[p] \subseteq net[p] \cup Refusal(s)
      BY <1>2, <1>5, <1>7, PostIs
    <2>3. \A q \in Ends : \A r \in net'[q] : r \in net[q] \/ Refuses(r)
      BY <1>2, <1>4, <2>2
    <2>4. UNCHANGED <<plan, conn, closed, opens, written, taken>>
          /\ outcome' = outcome /\ outcome' \in [Ends -> Outcomes]
      BY <1>5, <2>1 DEF guest, Kept, GuestTyped
    <2>5. Kept'
      BY <2>2, <2>3, <2>4, NetKept
    <2> QED BY <2>1, <2>5, <1>5 DEF Silent
  <1>9. CASE conn[e].state # "Closed"
    <2>1. PICK d : d = Detach(conn[e])
      OBVIOUS
    <2>2. Moves(e, conn[e], d, x) /\ d.state = "Closed" /\ d.out = {}
          /\ d \in Connections
      BY <1>3, <1>9, <2>1, DetachMoves DEF Moves, Sound
    <2>3. PICK out \in SUBSET Segments : out = Refusal(s)
      BY <1>7
    <2>4. PICK f : f = [d EXCEPT !.out = out]
      OBVIOUS
    <2>5. f \in Connections /\ Alike(d, f) /\ f.out = out /\ f.finq = d.finq
      BY <2>2, <2>4 DEF Connections, Alike, SameIntake, SameSending
    <2>6. \A r \in f.out \ d.out :
            Genuine(e, r, x.mine, d.finq, SentOf(e, d, x), KnownOf(e, d, x))
      BY <1>4, <2>3, <2>5 DEF Refuses, Genuine
    <2>7. Sound(e, f, x) /\ Follows(e, d, f, x)
          /\ (EndKnown(d, x) => EndKnown(f, x))
      BY <1>3, <2>2, <2>5, <2>6, AlikeSound DEF Moves
    <2>8. Moves(e, conn[e], f, x)
      BY <1>3, <2>2, <2>7, MovesOn DEF Moves
    <2>9. opens[e] = 1
      BY <1>9, OpenedHolds
    <2>10. Passes(e, conn[e], x, f, x) /\ f.finq = conn[e].finq
      BY <2>8, MovesPasses
    <2>11. Acts(e, f, x)
      BY <1>1, <2>9, <2>10, FollowsActs DEF Passes
    <2>12. GuestSteps(e, x)
      <3>1. closed \in [Ends -> BOOLEAN]
        BY DEF Kept, GuestTyped
      <3>2. Calls(e)
        BY <3>1, <1>5 DEF Calls
      <3> QED BY <3>2, <1>1, <2>9, CallsGuest
    <2>13. Emptied(f, d)
      <3>1. [f EXCEPT !.out = {}] = d
        BY <2>2, <2>4 DEF Connections
      <3> QED BY <3>1 DEF Emptied
    <2>14. conn'[e] = d /\ conn' = [conn EXCEPT ![e] = conn'[e]]
      BY <1>5, <1>6, <2>1
    <2>15. ~closed'[e] => EndKnown(f, x)
      BY <1>1, <1>5, <2>10 DEF Passes, Kept, EndKept
    <2>16. Post(e, f.out, rest)
      BY <1>5, <2>3, <2>5
    <2>17. Emptied(f, conn'[e])
      BY <2>13, <2>14
    <2>18. Kept' /\ conn'[e].finq = f.finq /\ conn'[Peer(e)] = conn[Peer(e)]
      BY <2>11, <2>12, <2>14, <2>15, <2>16, <2>17, PostKept
    <2> QED BY <2>10, <2>18, <1>5 DEF Silent
  <1> QED BY <1>8, <1>9

(* a segment lost,                                                           *)
LEMMA LoseKept ==
    ASSUME Kept, NEW e \in Ends, Lose(e)
    PROVE  Kept' /\ Silent(e)
  <1>1. PICK s \in net[e] : net' = [net EXCEPT ![e] = net[e] \ {s}]
    BY DEF Lose
  <1>2. net \in [Ends -> SUBSET Segments]
    BY DEF Kept, NetTyped
  <1>3. net' \in [Ends -> SUBSET Segments] /\ \A q \in Ends : net'[q] \subseteq net[q]
    <2>1. net[e] \ {s} \in SUBSET Segments /\ net[e] \ {s} \subseteq net[e]
      BY <1>2
    <2> QED BY <1>1, <1>2, <2>1
  <1>4. UNCHANGED <<plan, conn, closed, opens, written, taken>>
        /\ outcome' = outcome /\ outcome' \in [Ends -> Outcomes]
    BY DEF Lose, guest, Kept, GuestTyped
  <1>5. Kept'
    BY <1>3, <1>4, NetKept
  <1> QED BY <1>4, <1>5 DEF Silent, Lose

(* The next part of the guest's calls.                                       *)
LEMMA ShutdownKept ==
    ASSUME Kept, NEW e \in Ends, Shutdown(e)
    PROVE  /\ Kept' /\ conn'[Peer(e)] = conn[Peer(e)] /\ UNCHANGED guest
           /\ conn[e].finq => conn'[e].finq
           /\ conn'[e].finq \in BOOLEAN
  <1>1. PICK x : x = ContextOf(e)
    OBVIOUS
  <1>2. PICK d : d = Finish(conn[e])
    OBVIOUS
  <1>3. /\ conn[e].connected /\ opens[e] = 1 /\ UNCHANGED closed
        /\ UNCHANGED guest /\ Settle(e, d, net)
    BY <1>2, OpenedHolds DEF Shutdown, Connected, Call
  <1>4. Context(e, x) /\ Sound(e, conn[e], x)
    BY <1>1, ContextHolds DEF Kept, EndKept
  <1>5. ~Connecting(conn[e])
    BY <1>3, <1>4 DEF Sound, SendsRight, Connecting
  <1>6. Passes(e, conn[e], x, d, x)
    BY <1>2, <1>4, <1>5, FinishPasses
  <1>7. Calls(e)
    BY <1>3 DEF Calls, Kept, GuestTyped
  <1>8. Remains(net)
    BY NetRemains DEF RemainsNet
  <1>9. Kept' /\ conn'[e].finq = d.finq /\ conn'[Peer(e)] = conn[Peer(e)]
    BY <1>1, <1>3, <1>6, <1>7, <1>8, CallKept
  <1> QED BY <1>3, <1>6, <1>9 DEF Passes, Sound, Connections

(* a socket closed,                                                          *)
LEMMA CloseKept ==
    ASSUME Kept, NEW e \in Ends, NEW abort \in BOOLEAN, Close(e, abort)
    PROVE  /\ Kept' /\ conn'[Peer(e)] = conn[Peer(e)] /\ UNCHANGED guest
           /\ conn[e].finq => conn'[e].finq
           /\ conn'[e].finq \in BOOLEAN
  <1>1. PICK x : x = ContextOf(e)
    OBVIOUS
  <1>2. PICK p \in Ends : p = Peer(e) /\ p # e
    BY TwoEnds
  <1>3. closed \in [Ends -> BOOLEAN] /\ closed' = [closed EXCEPT ![e] = TRUE]
        /\ UNCHANGED guest
    BY DEF Close, Kept, GuestTyped
  <1>4. Calls(e) /\ closed'[e]
    BY <1>2, <1>3 DEF Calls
  <1>5. opens[e] = 1
    BY OpenedHolds DEF Close
  <1>6. Context(e, x) /\ Sound(e, conn[e], x)
    BY <1>1, ContextHolds DEF Kept, EndKept
  <1>7. Remains(net)
    BY NetRemains DEF RemainsNet
  <1>8. PICK reset \in BOOLEAN :
          reset <=> (abort \/ conn[e].recv # <<>> \/ Connecting(conn[e]))
    OBVIOUS
  <1>9. Settle(e, IF reset THEN Abort(conn[e]) ELSE Finish(conn[e]), net)
    BY <1>8 DEF Close
  <1>10. conn[e].finq \in BOOLEAN
    BY <1>6 DEF Sound, Connections
  <1>11. CASE reset
    <2>1. Settle(e, Abort(conn[e]), net)
      BY <1>9, <1>11
    <2>2. Kept' /\ conn'[e].finq = conn[e].finq /\ conn'[Peer(e)] = conn[Peer(e)]
      BY <2>1, <1>4, <1>5, <1>7, SettledAbort
    <2> QED BY <2>2, <1>3, <1>10
  <1>12. CASE ~reset
    <2>1. PICK d : d = Finish(conn[e])
      OBVIOUS
    <2>2. Passes(e, conn[e], x, d, x)
      BY <2>1, <1>6, <1>8, <1>12, FinishPasses
    <2>3. Settle(e, d, net)
      BY <2>1, <1>9, <1>12
    <2>4. Kept' /\ conn'[e].finq = d.finq /\ conn'[Peer(e)] = conn[Peer(e)]
      BY <2>2, <2>3, <1>1, <1>4, <1>5, <1>7, CallKept
    <2> QED BY <2>2, <2>4, <1>3 DEF Passes, Sound, Connections
  <1> QED BY <1>11, <1>12

-----------------------------------------------------------------------------
(* Connections that start.                                                   *)

LEMMA BeginHolds ==
    ASSUME Kept, NEW e \in Ends, Begin(e)
    PROVE  /\ opens[e] = 0 /\ conn[e] = Blank /\ opens'[e] = 1
           /\ GuestSteps(e, ContextOf(e))
           /\ ContextOf(e).mine = 0 /\ ContextOf(e).read = 0
           /\ closed' = closed /\ UNCHANGED <<plan, taken, written, outcome>>
           /\ InitialSequence[e][opens'[e]] = Start(e)
           /\ SentBy(e) = 0 /\ HeldBy(e) = 0 /\ ~conn[e].finq
  <1>1. PICK p \in Ends : p = Peer(e) /\ p # e
    BY TwoEnds
  <1>2. plan.opens[e] = 1 /\ opens \in [Ends -> {0, 1}]
    BY PlanHolds DEF Kept, GuestTyped
  <1>3. opens[e] = 0
    BY <1>2 DEF Begin
  <1>4. opens' = [opens EXCEPT ![e] = 1]
    BY <1>2, <1>3 DEF Begin
  <1>5. opens'[e] = 1 /\ opens'[p] = opens[p] /\ opens' \in [Ends -> {0, 1}]
    BY <1>1, <1>2, <1>4
  <1>6. conn[e] = Blank /\ written[e] = 0 /\ ~closed[e] /\ outcome[e] = "open"
        /\ taken[e][1] = <<>> /\ ReadRight(e)
    BY <1>3 DEF Kept, EndKept, Unopened
  <1>7. closed \in [Ends -> BOOLEAN] /\ written \in [Ends -> Nat]
        /\ outcome \in [Ends -> Outcomes]
    BY DEF Kept, GuestTyped
  <1>8. closed' = closed
    <2>1. closed' = [closed EXCEPT ![e] = FALSE] /\ closed[e] = FALSE
      BY <1>6, <1>7 DEF Begin
    <2> QED BY <2>1, <1>7
  <1>9. written' = written
    <2>1. written' = [written EXCEPT ![e] = 0]
      BY DEF Begin
    <2> QED BY <2>1, <1>6, <1>7
  <1>10. outcome' = outcome
    <2>1. outcome' = [outcome EXCEPT ![e] = "open"]
      BY DEF Begin
    <2> QED BY <2>1, <1>6, <1>7
  <1>11. plan' = plan /\ taken' = taken
    BY DEF Begin
  <1>12. GuestTyped'
    BY <1>5, <1>8, <1>9, <1>10, <1>11 DEF GuestTyped, Kept
  <1>13. ReadRight(e)'
    BY <1>6, <1>9, <1>11 DEF ReadRight
  <1>14. ContextOf(e).mine = written[e] /\ ContextOf(e).read = Len(taken[e][1])
    BY DEF ContextOf
  <1>15. GuestSteps(e, ContextOf(e))
    BY <1>1, <1>5, <1>8, <1>9, <1>10, <1>11, <1>12, <1>13, <1>14 DEF GuestSteps
  <1>16. ContextOf(e).mine = 0 /\ ContextOf(e).read = 0
    BY <1>6, <1>14
  <1>17. InitialSequence[e][opens'[e]] = Start(e)
    BY <1>5 DEF Start
  <1>18. SentBy(e) = 0 /\ HeldBy(e) = 0 /\ ~conn[e].finq
    BY <1>3, OpenedHolds
  <1> QED BY <1>3, <1>5, <1>6, <1>8, <1>9, <1>10, <1>11, <1>15, <1>16, <1>17, <1>18

(* a connection begun,                                                       *)
LEMMA BegunKept ==
    ASSUME Kept, NEW e \in Ends, Begin(e), NEW d, Sound(e, d, ContextOf(e)), ~d.finq,
           d.state # "Closed", NEW others, Remains(others), Settle(e, d, others)
    PROVE  /\ Kept' /\ conn'[e].finq = conn[e].finq
           /\ conn'[Peer(e)] = conn[Peer(e)]
           /\ UNCHANGED <<plan, taken, written, outcome>>
  <1>1. PICK x : x = ContextOf(e)
    OBVIOUS
  <1>2. /\ GuestSteps(e, x) /\ SentBy(e) = 0 /\ HeldBy(e) = 0 /\ ~conn[e].finq
        /\ UNCHANGED <<plan, taken, written, outcome>>
    BY <1>1, BeginHolds
  <1>3. Context(e, x) /\ Sound(e, d, x)
    BY <1>1, ContextHolds
  <1>4. SentOf(e, d, x) \in Nat /\ KnownOf(e, d, x) \in Nat
    BY <1>3, BoundsHold
  <1>5. SentBy(e) <= SentOf(e, d, x) /\ HeldBy(e) <= KnownOf(e, d, x)
    BY <1>2, <1>4
  <1>6. /\ x.mine = written[e] /\ x.theirs = written[Peer(e)]
        /\ x.over = conn[Peer(e)].finq
        /\ x.sent = SentBy(Peer(e)) /\ x.known = HeldBy(Peer(e))
    BY <1>1 DEF ContextOf
  <1>7. written[e] \in Nat
    BY DEF Kept, GuestTyped
  <1>8. Acts(e, d, x)
    BY <1>2, <1>3, <1>5, <1>6, <1>7 DEF Acts
  <1>9. EndKnown(d, x)
    BY <1>3, LiveEndKnown
  <1>10. Kept' /\ conn'[e].finq = d.finq /\ conn'[Peer(e)] = conn[Peer(e)]
    BY <1>2, <1>8, <1>9, SettleKept
  <1>11. d.finq \in BOOLEAN /\ conn[e].finq \in BOOLEAN
    BY <1>3 DEF Sound, Connections, Kept, NetTyped
  <1> QED BY <1>2, <1>10, <1>11

(* by a connect                                                              *)
LEMMA ConnectKept ==
    ASSUME Kept, NEW e \in Ends, Connect(e)
    PROVE  /\ Kept' /\ conn'[e].finq = conn[e].finq
           /\ conn'[Peer(e)] = conn[Peer(e)]
           /\ UNCHANGED <<plan, taken, written, outcome>>
  <1>1. Begin(e)
    BY DEF Connect
  <1>2. conn[e] = Blank /\ InitialSequence[e][opens'[e]] = Start(e)
        /\ ContextOf(e).mine = 0 /\ ContextOf(e).read = 0
    BY <1>1, BeginHolds
  <1>3. PICK d : d = Open(Start(e))
    OBVIOUS
  <1>4. Sound(e, d, ContextOf(e)) /\ ~d.finq /\ d.state # "Closed"
    BY <1>2, <1>3, ContextHolds, OpenSound
  <1>5. Abort(conn[e]).out = {}
    BY <1>2 DEF Abort, Blank
  <1>6. Settle(e, [d EXCEPT !.out = @ \cup {}], net)
    BY <1>2, <1>3, <1>5 DEF Connect
  <1>7. [d EXCEPT !.out = @ \cup {}] = d
    <2>1. d \in Connections
      BY <1>4 DEF Sound
    <2>2. d.out \cup {} = d.out
      OBVIOUS
    <2> QED BY <2>1, <2>2 DEF Connections
  <1>8. Settle(e, d, net) /\ Remains(net)
    BY <1>6, <1>7, NetRemains DEF RemainsNet
  <1> QED BY <1>1, <1>4, <1>8, BegunKept

(* or by a SYN that finds a listener,                                        *)
LEMMA ToListenerKept ==
    ASSUME Kept, NEW e \in Ends, NEW s \in net[e], NEW rest, Remains(rest),
           ToListener(e, s, rest)
    PROVE  /\ Kept' /\ conn'[e].finq = conn[e].finq
           /\ conn'[Peer(e)] = conn[Peer(e)]
           /\ UNCHANGED <<plan, taken, written, outcome>>
  <1>1. Begin(e) /\ IsSyn(s)
    BY DEF ToListener
  <1>2. InitialSequence[e][opens'[e]] = Start(e)
        /\ ContextOf(e).mine = 0 /\ ContextOf(e).read = 0
    BY <1>1, BeginHolds
  <1>3. PICK d : d = Answer(s, Start(e))
    OBVIOUS
  <1>4. Comes(e, s, ContextOf(e))
    BY DEF Kept, EndKept
  <1>5. Sound(e, d, ContextOf(e)) /\ ~d.finq /\ d.state # "Closed"
    BY <1>1, <1>2, <1>3, <1>4, ContextHolds, AnswerSound
  <1>6. Settle(e, d, rest)
    BY <1>2, <1>3 DEF ToListener
  <1> QED BY <1>1, <1>5, <1>6, BegunKept

-----------------------------------------------------------------------------
(* What the guest writes and reads.                                          *)

LEMMA SendKept ==
    ASSUME Kept, NEW e \in Ends, Send(e)
    PROVE  /\ Kept' /\ conn'[e].finq = conn[e].finq /\ ~conn[e].finq
           /\ conn'[Peer(e)] = conn[Peer(e)]
           /\ UNCHANGED <<plan, opens, taken, outcome>>
           /\ \E n \in Nat \ {0} : written' = [written EXCEPT ![e] = written[e] + n]
  <1>1. PICK n \in 1 .. Least(Writable(conn[e]), plan.total[e] - written[e]) :
          /\ written' = [written EXCEPT ![e] = written[e] + n]
          /\ Call(e, Write(conn[e], [k \in 1 .. n |->
                                       Tagged(opens[e], written[e] + k)]))
    BY DEF Send
  <1>2. conn[e].connected /\ UNCHANGED <<plan, opens, taken, outcome>>
    BY DEF Send, Connected
  <1>3. opens[e] = 1
    BY <1>2, OpenedHolds
  <1>4. PICK p \in Ends : p = Peer(e) /\ p # e
    BY TwoEnds
  <1>5. PICK x : x = ContextOf(e)
    OBVIOUS
  <1>6. Context(e, x) /\ Sound(e, conn[e], x) /\ EndKept(e)
    BY <1>5, ContextHolds DEF Kept, EndKept
  <1>7. /\ plan.total[e] \in Nat /\ 2 * (plan.total[e] + 2) < Modulus
        /\ written \in [Ends -> Nat] /\ Modulus \in Nat
        /\ \A q \in Ends : written[q] <= plan.total[q] /\ plan.total[q] \in Nat
    BY PlanHolds, ModulusHolds DEF Kept, GuestTyped
  <1>8. Writable(conn[e]) \in Int
    <2>1. conn[e].send \in Seq(Bytes)
      BY <1>6 DEF Sound, Connections
    <2> QED BY <2>1, ModulusHolds DEF Writable
  <1>9. n \in Nat /\ n >= 1 /\ n <= Writable(conn[e]) /\ written[e] + n <= plan.total[e]
    <2>1. PICK room \in Int : room = Writable(conn[e])
      BY <1>8
    <2>2. PICK more \in Int : more = plan.total[e] - written[e]
      BY <1>7
    <2>3. Least(room, more) \in Int /\ Least(room, more) <= room
          /\ Least(room, more) <= more
      BY DEF Least
    <2>4. n \in 1 .. Least(room, more)
      BY <2>1, <2>2
    <2>5. n \in Nat /\ n >= 1 /\ n <= room /\ n <= more
      BY <2>3, <2>4
    <2> QED BY <2>1, <2>2, <2>5, <1>7
  <1>10. Writable(conn[e]) # 0
    BY <1>8, <1>9
  <1>11. ~conn[e].finq /\ conn[e].state # "Closed" /\ ~Connecting(conn[e])
    <2>1. ~conn[e].finq /\ (Connecting(conn[e])
                              \/ conn[e].state \in {"Established", "CloseWait"})
      BY <1>10 DEF Writable
    <2>2. conn[e].state # "Closed"
      BY <2>1 DEF Connecting
    <2>3. ~Connecting(conn[e])
      BY <2>2, <1>2, <1>6 DEF Sound, SendsRight
    <2> QED BY <2>1, <2>2, <2>3
  <1>12. PICK data : data = [k \in 1 .. n |-> Tagged(opens[e], written[e] + k)]
    OBVIOUS
  <1>13. data \in Seq(Bytes) /\ Len(data) = n
         /\ \A k \in 1 .. Len(data) : data[k] = Tagged(1, written[e] + k)
    <2>1. \A k \in 1 .. n : Tagged(opens[e], written[e] + k) \in Bytes
      BY <1>3, <1>7, <1>9 DEF Tagged, Bytes
    <2>2. data \in [1 .. n -> Bytes]
      BY <2>1, <1>12
    <2>3. data \in Seq(Bytes) /\ Len(data) = n
      BY <2>2, <1>9
    <2> QED BY <2>3, <1>3, <1>12
  <1>14. PICK m \in Nat : m = written[e] + n
    BY <1>7, <1>9
  <1>15. PICK z : z = [x EXCEPT !.mine = m]
    OBVIOUS
  <1>16. x = [mine |-> written[e], read |-> Len(taken[e][1]),
              theirs |-> written[p], over |-> conn[p].finq,
              sent |-> SentBy(p), known |-> HeldBy(p)]
    BY <1>4, <1>5 DEF ContextOf
  <1>17. z = [mine |-> m, read |-> Len(taken[e][1]),
              theirs |-> written[p], over |-> conn[p].finq,
              sent |-> SentBy(p), known |-> HeldBy(p)]
    BY <1>15, <1>16
  <1>18. z \in Contexts /\ x.mine = written[e]
    BY <1>6, <1>15, <1>16 DEF Context, Contexts
  <1>19. Context(e, z)
    <2>1. 2 * (m + 2) < Modulus
      BY <1>7, <1>9, <1>14
    <2> QED BY <2>1, <1>6, <1>16, <1>17, <1>18 DEF Context
  <1>20. Writes(x, z, data)
    BY <1>13, <1>14, <1>15, <1>18 DEF Writes
  <1>21. PICK d : d = Write(conn[e], data)
    OBVIOUS
  <1>22. Passes(e, conn[e], x, d, z) /\ d.finq = conn[e].finq
    BY <1>6, <1>11, <1>19, <1>20, <1>21, WritePasses
  <1>23. Acts(e, d, z)
    <2>1. SentBy(e) = SentOf(e, conn[e], x) /\ HeldBy(e) = KnownOf(e, conn[e], x)
      BY <1>3, <1>5, OpenedHolds
    <2>2. written[e] <= z.mine
      BY <1>7, <1>9, <1>14, <1>17
    <2>3. SentBy(e) <= SentOf(e, d, z) /\ HeldBy(e) <= KnownOf(e, d, z)
      BY <2>1, <1>22 DEF Passes
    <2> QED BY <2>2, <2>3, <1>4, <1>11, <1>17, <1>19, <1>22 DEF Acts, Passes
  <1>24. closed' = closed /\ Settle(e, d, net)
    BY <1>1, <1>12, <1>21 DEF Call
  <1>25. written' = [written EXCEPT ![e] = m]
    BY <1>1, <1>14
  <1>26. written' \in [Ends -> Nat] /\ written'[e] = m /\ written'[p] = written[p]
    BY <1>4, <1>7, <1>25
  <1>27. GuestTyped'
    <2>1. \A q \in Ends : written'[q] <= plan.total[q]
      BY <1>7, <1>9, <1>14, <1>25
    <2> QED BY <2>1, <1>2, <1>24, <1>26 DEF GuestTyped, Kept
  <1>28. ReadRight(e)'
    BY <1>2, <1>4, <1>6, <1>26 DEF ReadRight, EndKept
  <1>29. z.mine = m /\ z.read = Len(taken[e][1])
    BY <1>17
  <1>30. GuestSteps(e, z)
    BY <1>2, <1>3, <1>4, <1>24, <1>26, <1>27, <1>28, <1>29 DEF GuestSteps
  <1>31. ~closed'[e] => EndKnown(d, z)
    BY <1>5, <1>6, <1>22, <1>24 DEF Passes, EndKept
  <1>32. Kept' /\ conn'[e].finq = d.finq /\ conn'[Peer(e)] = conn[Peer(e)]
    BY <1>23, <1>24, <1>30, <1>31, NetRemains, SettleKept DEF RemainsNet
  <1>33. n \in Nat \ {0}
    BY <1>9
  <1> QED BY <1>1, <1>2, <1>11, <1>22, <1>32, <1>33

(* What a read adds to what the guest read before.                           *)
LEMMA ReadMore ==
    ASSUME NEW old \in Seq(Bytes), NEW recv \in Seq(Bytes), NEW n \in 1 .. Len(recv),
           \A k \in 1 .. Len(old) : old[k] = Tagged(1, k),
           \A k \in 1 .. n : recv[k] = Tagged(1, Len(old) + k),
           NEW new, new = old \o SubSeq(recv, 1, n)
    PROVE  /\ new \in Seq(Bytes) /\ Len(new) = Len(old) + n
           /\ \A k \in 1 .. Len(new) : new[k] = Tagged(1, k)
  <1>1. PICK some : some = SubSeq(recv, 1, n)
    OBVIOUS
  <1>2. PICK len \in Nat : len = Len(old)
    OBVIOUS
  <1>3. /\ some \in Seq(Bytes) /\ Len(some) = n /\ n \in Nat
        /\ \A k \in 1 .. n : some[k] = recv[k]
    BY <1>1
  <1>4. new \in Seq(Bytes) /\ Len(new) = len + n
    BY <1>1, <1>2, <1>3
  <1>5. ASSUME NEW k \in 1 .. len + n
        PROVE  new[k] = Tagged(1, k)
    <2>1. CASE k <= len
      <3>1. new[k] = old[k] /\ k \in 1 .. len
        BY <2>1, <1>1, <1>2, <1>3
      <3> QED BY <3>1, <1>2
    <2>2. CASE ~(k <= len)
      <3>1. PICK j \in 1 .. n : k = len + j
        <4>1. k - len \in 1 .. n
          BY <2>2, <1>3
        <4> QED BY <4>1
      <3>2. new[k] = some[j]
        BY <3>1, <2>2, <1>1, <1>2, <1>3
      <3>3. some[j] = recv[j] /\ recv[j] = Tagged(1, len + j)
        BY <3>1, <1>2, <1>3
      <3> QED BY <3>1, <3>2, <3>3
    <2> QED BY <2>1, <2>2
  <1> QED BY <1>2, <1>4, <1>5

(* bytes read                                                                *)
LEMMA ReceiveKept ==
    ASSUME Kept, NEW e \in Ends, Receive(e)
    PROVE  /\ Kept' /\ conn'[e].finq = conn[e].finq
           /\ conn'[Peer(e)] = conn[Peer(e)]
           /\ UNCHANGED <<plan, opens, written, outcome>> /\ outcome[e] = "open"
           /\ taken'[Peer(e)] = taken[Peer(e)]
           /\ Len(taken[e][1]) \in Nat /\ Len(taken'[e][1]) > Len(taken[e][1])
  <1>1. PICK n \in 1 .. Len(conn[e].recv) :
          /\ taken' = [taken EXCEPT ![e][opens[e]] = @ \o SubSeq(conn[e].recv, 1, n)]
          /\ Call(e, Read(conn[e], n))
    BY DEF Receive
  <1>2. conn[e].connected /\ UNCHANGED <<plan, opens, written, outcome>>
        /\ outcome[e] = "open"
    BY DEF Receive, Connected
  <1>3. opens[e] = 1
    BY <1>2, OpenedHolds
  <1>4. PICK p \in Ends : p = Peer(e) /\ p # e
    BY TwoEnds
  <1>5. PICK x : x = ContextOf(e)
    OBVIOUS
  <1>6. Context(e, x) /\ Sound(e, conn[e], x) /\ EndKept(e)
        /\ conn[e] \in Connections /\ Readable(conn[e], x)
    BY <1>5, ContextHolds DEF Kept, EndKept, Sound
  <1>7. conn[e].recv \in Seq(Bytes) /\ n \in Nat /\ n >= 1
    BY <1>6 DEF Connections
  <1>8. taken \in [Ends -> [1 .. MaxOpens -> Seq(Bytes)]] /\ 1 \in 1 .. MaxOpens
        /\ plan \in Plans
    BY PlanHolds DEF Kept, GuestTyped
  <1>9. PICK old \in Seq(Bytes) : old = taken[e][1]
    BY <1>8
  <1>10. PICK new : new = old \o SubSeq(conn[e].recv, 1, n)
    OBVIOUS
  <1>11. x = [mine |-> written[e], read |-> Len(old),
              theirs |-> written[p], over |-> conn[p].finq,
              sent |-> SentBy(p), known |-> HeldBy(p)]
    BY <1>4, <1>5, <1>9 DEF ContextOf
  <1>12. PICK z : z = [x EXCEPT !.read = x.read + n]
    OBVIOUS
  <1>13. PICK m \in Nat : m = Len(old) + n
    BY <1>7
  <1>14. z = [mine |-> written[e], read |-> m,
              theirs |-> written[p], over |-> conn[p].finq,
              sent |-> SentBy(p), known |-> HeldBy(p)]
    BY <1>11, <1>12, <1>13
  <1>15. z \in Contexts
    BY <1>6, <1>11, <1>13, <1>14 DEF Context, Contexts
  <1>16. Context(e, z)
    BY <1>6, <1>11, <1>14, <1>15 DEF Context
  <1>17. Reads(x, z, n)
    BY <1>12 DEF Reads
  <1>18. PICK d : d = Read(conn[e], n)
    OBVIOUS
  <1>19. Passes(e, conn[e], x, d, z) /\ d.finq = conn[e].finq
    BY <1>6, <1>16, <1>17, <1>18, ReadPasses
  <1>20. \A k \in 1 .. n : conn[e].recv[k] = Tagged(1, Len(old) + k)
    <2>1. PICK left : left = [conn[e] EXCEPT !.recv = SubSeq(conn[e].recv, n + 1,
                                                            Len(conn[e].recv))]
      OBVIOUS
    <2>2. left.recv = SubSeq(conn[e].recv, n + 1, Len(conn[e].recv))
      BY <2>1, <1>6 DEF Connections
    <2>3. \A k \in 1 .. n : conn[e].recv[k] = Tagged(1, x.read + k)
      BY SMTT(30), <2>2, <1>6, <1>17, ReadReadable
    <2>4. x.read = Len(old)
      BY <1>11
    <2> QED BY <2>3, <2>4
  <1>21. \A k \in 1 .. Len(old) : old[k] = Tagged(1, k)
    BY <1>6, <1>9 DEF EndKept, ReadRight
  <1>22. /\ new \in Seq(Bytes) /\ Len(new) = Len(old) + n
         /\ \A k \in 1 .. Len(new) : new[k] = Tagged(1, k)
    <2>1. PICK recv \in Seq(Bytes) : recv = conn[e].recv
      BY <1>7
    <2>2. n \in 1 .. Len(recv) /\ new = old \o SubSeq(recv, 1, n)
      BY <2>1, <1>10
    <2>3. \A k \in 1 .. n : recv[k] = Tagged(1, Len(old) + k)
      BY <2>1, <1>20
    <2> QED BY <2>2, <2>3, <1>21, ReadMore
  <1>23. taken' = [taken EXCEPT ![e] = [taken[e] EXCEPT ![1] = new]]
    BY <1>1, <1>3, <1>9, <1>10
  <1>24. /\ taken' \in [Ends -> [1 .. MaxOpens -> Seq(Bytes)]]
         /\ taken'[e][1] = new /\ taken'[p] = taken[p]
    <2>1. PICK reads : reads = [taken[e] EXCEPT ![1] = new]
      OBVIOUS
    <2>2. reads \in [1 .. MaxOpens -> Seq(Bytes)] /\ reads[1] = new
      BY <2>1, <1>8, <1>22
    <2>3. taken' = [taken EXCEPT ![e] = reads]
      BY <2>1, <1>23
    <2> QED BY <2>2, <2>3, <1>4, <1>8
  <1>25. Len(new) <= written[p]
    <2>1. x.read + Len(conn[e].recv) <= x.theirs
      BY <1>6 DEF Readable
    <2>2. PICK len \in Nat : len = Len(conn[e].recv)
      BY <1>7
    <2>3. n <= len
      BY <2>2
    <2>4. Len(old) + len <= written[p] /\ written[p] \in Nat /\ Len(old) \in Nat
      BY <2>1, <2>2, <1>11 DEF Kept, GuestTyped
    <2> QED BY <2>3, <2>4, <1>7, <1>22
  <1>26. closed' = closed /\ Settle(e, d, net)
    BY <1>1, <1>18 DEF Call
  <1>27. GuestTyped'
    BY <1>2, <1>24, <1>26 DEF GuestTyped, Kept
  <1>28. ReadRight(e)'
    BY <1>2, <1>4, <1>22, <1>24, <1>25 DEF ReadRight
  <1>29. z.mine = written[e] /\ z.read = Len(new)
    BY <1>13, <1>14, <1>22
  <1>30. GuestSteps(e, z)
    BY <1>2, <1>3, <1>4, <1>24, <1>26, <1>27, <1>28, <1>29 DEF GuestSteps
  <1>31. Acts(e, d, z)
    <2>1. SentBy(e) = SentOf(e, conn[e], x) /\ HeldBy(e) = KnownOf(e, conn[e], x)
      BY <1>3, <1>5, OpenedHolds
    <2>2. written[e] \in Nat
      BY DEF Kept, GuestTyped
    <2>3. SentBy(e) <= SentOf(e, d, z) /\ HeldBy(e) <= KnownOf(e, d, z)
      BY <2>1, <1>19 DEF Passes
    <2> QED BY <2>2, <2>3, <1>4, <1>14, <1>16, <1>19 DEF Acts, Passes
  <1>32. ~closed'[e] => EndKnown(d, z)
    BY <1>5, <1>6, <1>19, <1>26 DEF Passes, EndKept
  <1>33. Kept' /\ conn'[e].finq = d.finq /\ conn'[Peer(e)] = conn[Peer(e)]
    BY <1>26, <1>30, <1>31, <1>32, NetRemains, SettleKept DEF RemainsNet
  <1>34. Len(taken[e][1]) \in Nat /\ Len(taken'[e][1]) > Len(taken[e][1])
    <2>1. PICK len \in Nat : len = Len(old)
      OBVIOUS
    <2>2. Len(taken'[e][1]) = len + n /\ Len(taken[e][1]) = len
      BY <2>1, <1>9, <1>22, <1>24
    <2> QED BY <2>1, <2>2, <1>7
  <1> QED BY <1>2, <1>4, <1>19, <1>24, <1>33, <1>34

(* and a read that finds none: each keeps the two ends.                      *)
LEMMA ReceiveNothingKept ==
    ASSUME Kept, NEW e \in Ends, ReceiveNothing(e)
    PROVE  Kept'
  <1>1. UNCHANGED <<plan, conn, closed, net, opens, written, taken>>
        /\ conn[e].connected
    BY DEF ReceiveNothing, Connected
  <1>2. PICK said \in Outcomes : outcome' = [outcome EXCEPT ![e] = said]
    <2>1. PICK end \in Outcomes : end = IF conn[e].finr THEN "end" ELSE "error"
      BY DEF Outcomes
    <2>2. PICK error \in Outcomes : error = "error"
      BY DEF Outcomes
    <2>3. \/ outcome' = [outcome EXCEPT ![e] = error]
          \/ outcome' = [outcome EXCEPT ![e] = end]
      BY <2>1, <2>2 DEF ReceiveNothing
    <2> QED BY <2>3
  <1>3. outcome \in [Ends -> Outcomes] /\ net \in [Ends -> SUBSET Segments]
    BY DEF Kept, GuestTyped, NetTyped
  <1>4. opens[e] = 1
    BY <1>1, OpenedHolds
  <1>5. outcome' \in [Ends -> Outcomes]
        /\ \A q \in Ends : opens[q] = 0 => outcome'[q] = outcome[q]
    <2>1. outcome' \in [Ends -> Outcomes] /\ \A q \in Ends : q # e => outcome'[q] = outcome[q]
      BY <1>2, <1>3
    <2> QED BY <2>1, <1>4
  <1>6. net' \in [Ends -> SUBSET Segments]
        /\ \A q \in Ends : \A s \in net'[q] : s \in net[q] \/ Refuses(s)
    BY <1>1, <1>3
  <1> QED BY <1>1, <1>5, <1>6, NetKept

-----------------------------------------------------------------------------
(* The contract of the stream.                                               *)

Finished == [e \in Ends |-> conn[e].finq]
(* What the guests have read of the one connection.                          *)
FirstTaken == [e \in Ends |-> taken[e][1]]

(* Of two sequences of the bytes as they were written, the shorter is a      *)
(* prefix of the longer.                                                     *)
LEMMA TaggedPrefix ==
    ASSUME NEW s \in Seq(Bytes), NEW t \in Seq(Bytes), Len(s) <= Len(t),
           \A k \in 1 .. Len(s) : s[k] = Tagged(1, k),
           \A k \in 1 .. Len(t) : t[k] = Tagged(1, k)
    PROVE  /\ IsPrefix(s, t) /\ (Len(s) < Len(t) => IsStrictPrefix(s, t))
           /\ Len(s) = Len(t) => s = t
  <1>1. PICK m \in Nat : m = Len(s)
    OBVIOUS
  <1>2. PICK n \in Nat : n = Len(t)
    OBVIOUS
  <1>3. PICK a : a = SubSeq(s, 1, m)
    OBVIOUS
  <1>4. PICK b : b = SubSeq(t, 1, m)
    OBVIOUS
  <1>5. /\ a \in Seq(Bytes) /\ Len(a) = m /\ \A k \in 1 .. m : a[k] = s[k]
        /\ b \in Seq(Bytes) /\ Len(b) = m /\ \A k \in 1 .. m : b[k] = t[k]
    BY <1>1, <1>2, <1>3, <1>4
  <1>6. a = b
    <2>1. \A k \in 1 .. m : a[k] = b[k]
      BY <1>1, <1>2, <1>5
    <2> QED BY <2>1, <1>5, SeqEqual
  <1>7. IsPrefix(s, t)
    BY <1>1, <1>3, <1>4, <1>6 DEF IsPrefix
  <1>8. Len(s) < Len(t) => s # t
    BY <1>1, <1>2
  <1>9. Len(s) = Len(t) => s = t
    <2>1. ASSUME Len(s) = Len(t)
          PROVE  s = t
      <3>1. \A k \in 1 .. Len(s) : s[k] = t[k]
        BY <2>1
      <3> QED BY <2>1, <3>1, SeqEqual
    <2> QED BY <2>1
  <1> QED BY <1>7, <1>8, <1>9 DEF IsStrictPrefix

(* What the writer's stream is.                                              *)
LEMMA StreamIs ==
    ASSUME NEW n \in Nat, NEW stream, stream = [k \in 1 .. n |-> ByteOf(0, k)]
    PROVE  /\ stream \in Seq(Bytes) /\ Len(stream) = n
           /\ \A k \in 1 .. Len(stream) : stream[k] = Tagged(1, k)
  <1>1. \A k \in 1 .. n : Tagged(1, k) \in Bytes
    BY DEF Tagged, Bytes
  <1>2. stream = [k \in 1 .. n |-> Tagged(1, k)]
    BY DEF ByteOf
  <1>3. stream \in [1 .. n -> Bytes]
    BY <1>1, <1>2
  <1>4. stream \in Seq(Bytes) /\ Len(stream) = n
    BY <1>3
  <1> QED BY <1>2, <1>4

(* The steps of the contract, in the words of the two ends.                  *)
Quiet ==
    /\ written' = written /\ FirstTaken' = FirstTaken
    /\ Finished' = Finished /\ outcome' = outcome
Writing(e, n) ==
    /\ ~Finished[e] /\ n \in Nat \ {0}
    /\ written' = [written EXCEPT ![e] = written[e] + n]
    /\ FirstTaken' = FirstTaken /\ Finished' = Finished /\ outcome' = outcome
Finishing(e) ==
    /\ Finished' = [Finished EXCEPT ![e] = TRUE]
    /\ written' = written /\ FirstTaken' = FirstTaken /\ outcome' = outcome
Reading(e) ==
    /\ outcome[e] = "open"
    /\ IsStrictPrefix(FirstTaken[e], FirstTaken'[e])
    /\ IsPrefix(FirstTaken'[e], [k \in 1 .. written[Peer(e)] |-> ByteOf(Peer(e), k)])
    /\ FirstTaken' = [FirstTaken EXCEPT ![e] = FirstTaken'[e]]
    /\ written' = written /\ Finished' = Finished /\ outcome' = outcome
ReadingNothing(e, said) ==
    /\ outcome[e] = "open"
    /\ outcome' = [outcome EXCEPT ![e] = said]
    /\ written' = written /\ FirstTaken' = FirstTaken /\ Finished' = Finished
    /\ \/ said = "error"
       \/ /\ said = "end" /\ Finished[Peer(e)]
          /\ FirstTaken[e] = [k \in 1 .. written[Peer(e)] |-> ByteOf(Peer(e), k)]

(* A step of the contract, or none.                                          *)
Promises == [Contract!Next]_(Contract!streamVars)

(* Where each end opens once, the refinement mapping is the state itself.    *)
LEMMA MappedIs ==
    ASSUME OpenOnce, OpenOnce'
    PROVE  /\ Once(written, 0) = written /\ Once(written, 0)' = written'
           /\ Once(FirstTaken, <<>>) = FirstTaken
           /\ Once(FirstTaken, <<>>)' = FirstTaken'
           /\ Once(Finished, FALSE) = Finished
           /\ Once(Finished, FALSE)' = Finished'
           /\ Once(outcome, "open") = outcome
           /\ Once(outcome, "open")' = outcome'
  BY DEF Once

(* What the guests see nothing of is no step of the contract;                *)
LEMMA QuietPromises ==
    ASSUME OpenOnce, OpenOnce', Quiet
    PROVE  Promises
  BY MappedIs DEF Promises, Contract!streamVars, Quiet, Finished, FirstTaken

(* a write is its Write;                                                     *)
LEMMA WritingPromises ==
    ASSUME OpenOnce, OpenOnce', NEW e \in Ends, written \in [Ends -> Nat],
           NEW n, Writing(e, n)
    PROVE  Promises
  <1>1. n \in 1 .. written'[e] - written[e]
    BY DEF Writing
  <1>2. Contract!Write(e, n)
    BY MappedIs DEF Contract!Write, Writing, Finished, FirstTaken
  <1>3. n \in 1 .. Once(written, 0)'[e] - Once(written, 0)[e]
    BY <1>1, MappedIs
  <1>4. Contract!Next
    BY <1>2, <1>3 DEF Contract!Next
  <1> QED BY <1>4 DEF Promises

(* a shutdown or a close its Finish;                                         *)
LEMMA FinishingPromises ==
    ASSUME OpenOnce, OpenOnce', NEW e \in Ends, Finishing(e)
    PROVE  Promises
  <1>1. Contract!Finish(e)
    BY MappedIs DEF Contract!Finish, Finishing, Finished, FirstTaken
  <1>2. Contract!Next
    BY <1>1 DEF Contract!Next
  <1> QED BY <1>2 DEF Promises

(* a read that returns bytes its Read;                                       *)
LEMMA ReadingPromises ==
    ASSUME OpenOnce, OpenOnce', NEW e \in Ends, Reading(e)
    PROVE  Promises
  <1>1. Contract!Read(e)
    <2>1. Once(outcome, "open")[e] = "open"
      BY MappedIs DEF Reading
    <2>2. IsStrictPrefix(Once(FirstTaken, <<>>)[e], Once(FirstTaken, <<>>)'[e])
      BY MappedIs DEF Reading
    <2>3. IsPrefix(Once(FirstTaken, <<>>)'[e],
                   [k \in 1 .. Once(written, 0)[Peer(e)] |-> ByteOf(Peer(e), k)])
      BY MappedIs DEF Reading
    <2>4. Once(FirstTaken, <<>>)'
            = [Once(FirstTaken, <<>>) EXCEPT ![e] = Once(FirstTaken, <<>>)'[e]]
      BY MappedIs DEF Reading
    <2>5. /\ Once(written, 0)' = Once(written, 0)
          /\ Once(Finished, FALSE)' = Once(Finished, FALSE)
          /\ Once(outcome, "open")' = Once(outcome, "open")
      BY MappedIs DEF Reading
    <2>6. \A s, t : /\ Contract!IsPrefix(s, t) = IsPrefix(s, t)
                    /\ Contract!IsStrictPrefix(s, t) = IsStrictPrefix(s, t)
      BY DEF Contract!IsPrefix, Contract!IsStrictPrefix, IsPrefix, IsStrictPrefix
    <2> QED BY <2>1, <2>2, <2>3, <2>4, <2>5, <2>6 DEF Contract!Read,
            Contract!Stream, Finished, FirstTaken
  <1>2. Contract!Next
    BY <1>1 DEF Contract!Next
  <1> QED BY <1>2 DEF Promises

(* a read that returns none its end or its error.                            *)
LEMMA ReadingNothingPromises ==
    ASSUME OpenOnce, OpenOnce', NEW e \in Ends, NEW said, ReadingNothing(e, said)
    PROVE  Promises
  <1>1. CASE said = "error"
    <2>1. Contract!ReadError(e)
      BY <1>1, MappedIs DEF Contract!ReadError, ReadingNothing, Finished, FirstTaken
    <2>2. Contract!Next
      BY <2>1 DEF Contract!Next
    <2> QED BY <2>2 DEF Promises
  <1>2. CASE said # "error"
    <2>1. Contract!ReadEnd(e)
      BY <1>2, MappedIs DEF Contract!ReadEnd, Contract!Stream, ReadingNothing,
         Finished, FirstTaken
    <2>2. Contract!Next
      BY <2>1 DEF Contract!Next
    <2> QED BY <2>2 DEF Promises
  <1> QED BY <1>1, <1>2

(* A step that leaves what the guests see of the connections alone.          *)
LEMMA SilentPromises ==
    ASSUME Kept, Kept', NEW e \in Ends, conn'[e].finq = conn[e].finq,
           conn'[Peer(e)] = conn[Peer(e)], UNCHANGED <<taken, written, outcome>>
    PROVE  Promises
  <1>1. Ends = {e, Peer(e)}
    BY TwoEnds
  <1>2. Finished' = Finished
    BY <1>1 DEF Finished
  <1>3. Quiet
    BY <1>2 DEF Quiet, FirstTaken
  <1>4. OpenOnce /\ OpenOnce'
    BY DEF Kept
  <1> QED BY <1>3, <1>4, QuietPromises

(* A step that may finish the stream of an end.                              *)
LEMMA ClosingPromises ==
    ASSUME Kept, Kept', NEW e \in Ends, conn[e].finq => conn'[e].finq,
           conn'[e].finq \in BOOLEAN, conn'[Peer(e)] = conn[Peer(e)],
           UNCHANGED <<taken, written, outcome>>
    PROVE  Promises
  <1>1. Ends = {e, Peer(e)}
    BY TwoEnds
  <1>2. OpenOnce /\ OpenOnce' /\ conn[e].finq \in BOOLEAN
    BY DEF Kept, NetTyped, Connections
  <1>3. CASE conn'[e].finq = conn[e].finq
    BY <1>3, SilentPromises
  <1>4. CASE conn'[e].finq # conn[e].finq
    <2>1. conn'[e].finq = TRUE
      BY <1>2, <1>4
    <2>2. Finished' = [Finished EXCEPT ![e] = TRUE]
      BY <1>1, <2>1 DEF Finished
    <2>3. Finishing(e)
      BY <2>2 DEF Finishing, FirstTaken
    <2> QED BY <2>3, <1>2, FinishingPromises
  <1> QED BY <1>3, <1>4

(* The calls of the code, one by one.                                        *)
LEMMA SendPromises ==
    ASSUME Kept, NEW e \in Ends, Send(e)
    PROVE  Kept' /\ Promises
  <1>1. /\ Kept' /\ conn'[e].finq = conn[e].finq /\ ~conn[e].finq
        /\ conn'[Peer(e)] = conn[Peer(e)] /\ UNCHANGED <<taken, outcome>>
    BY SendKept
  <1>2. PICK n \in Nat \ {0} : written' = [written EXCEPT ![e] = written[e] + n]
    BY SendKept
  <1>3. Ends = {e, Peer(e)}
    BY TwoEnds
  <1>4. Finished' = Finished /\ ~Finished[e] /\ FirstTaken' = FirstTaken
    BY <1>1, <1>3 DEF Finished, FirstTaken
  <1>5. Writing(e, n)
    BY <1>1, <1>2, <1>4 DEF Writing
  <1>6. OpenOnce /\ OpenOnce' /\ written \in [Ends -> Nat]
    BY <1>1 DEF Kept, GuestTyped
  <1> QED BY <1>1, <1>5, <1>6, WritingPromises

(* A read is of bytes that were written and not yet read.                    *)
LEMMA ReceivePromises ==
    ASSUME Kept, NEW e \in Ends, Receive(e)
    PROVE  Kept' /\ Promises
  <1>1. /\ Kept' /\ conn'[e].finq = conn[e].finq
        /\ conn'[Peer(e)] = conn[Peer(e)]
        /\ UNCHANGED <<written, outcome>> /\ outcome[e] = "open"
        /\ taken'[Peer(e)] = taken[Peer(e)]
        /\ Len(taken[e][1]) \in Nat /\ Len(taken'[e][1]) > Len(taken[e][1])
    BY ReceiveKept
  <1>2. Ends = {e, Peer(e)} /\ Peer(e) \in Ends
    BY TwoEnds
  <1>3. Finished' = Finished
    BY <1>1, <1>2 DEF Finished
  <1>4. PICK n \in Nat : n = written[Peer(e)]
    BY <1>2 DEF Kept, GuestTyped
  <1>5. PICK old \in Seq(Bytes) : old = taken[e][1]
    BY PlanHolds DEF Kept, GuestTyped
  <1>6. PICK new \in Seq(Bytes) : new = taken'[e][1]
    <2>1. GuestTyped' /\ OpenOnce' /\ MaxOpens' = MaxOpens
      BY <1>1 DEF Kept
    <2>2. taken' \in [Ends -> [1 .. MaxOpens -> Seq(Bytes)]]
      BY <2>1 DEF GuestTyped
    <2>3. 1 \in 1 .. MaxOpens
      BY PlanHolds DEF Kept, GuestTyped
    <2> QED BY <2>2, <2>3
  <1>7. /\ \A k \in 1 .. Len(old) : old[k] = Tagged(1, k)
        /\ Len(new) <= n /\ \A k \in 1 .. Len(new) : new[k] = Tagged(1, k)
    <2>1. ReadRight(e) /\ ReadRight(e)'
      BY <1>1 DEF Kept, EndKept
    <2>2. \A k \in 1 .. Len(old) : old[k] = Tagged(1, k)
      BY <2>1, <1>5 DEF ReadRight
    <2>3. Len(new) <= n /\ \A k \in 1 .. Len(new) : new[k] = Tagged(1, k)
      BY <2>1, <1>1, <1>4, <1>6 DEF ReadRight
    <2> QED BY <2>2, <2>3
  <1>8. PICK stream : stream = [k \in 1 .. n |-> ByteOf(Peer(e), k)]
    OBVIOUS
  <1>9. /\ stream \in Seq(Bytes) /\ Len(stream) = n
        /\ \A k \in 1 .. Len(stream) : stream[k] = Tagged(1, k)
    BY <1>8, StreamIs DEF ByteOf
  <1>10. IsPrefix(new, stream)
    BY <1>7, <1>9, TaggedPrefix
  <1>11. Len(old) < Len(new) /\ Len(old) <= Len(new)
    BY <1>1, <1>5, <1>6
  <1>12. IsStrictPrefix(old, new)
    BY <1>7, <1>11, TaggedPrefix
  <1>13. FirstTaken[e] = old /\ FirstTaken'[e] = new
    BY <1>5, <1>6 DEF FirstTaken
  <1>14. FirstTaken' = [FirstTaken EXCEPT ![e] = FirstTaken'[e]]
    BY <1>1, <1>2 DEF FirstTaken
  <1>15. Reading(e)
    BY <1>1, <1>3, <1>4, <1>8, <1>10, <1>12, <1>13, <1>14 DEF Reading
  <1>16. OpenOnce /\ OpenOnce'
    BY <1>1 DEF Kept
  <1> QED BY <1>1, <1>15, <1>16, ReadingPromises

(* A guest is told of the end only when all was read.                        *)
LEMMA ReceiveNothingPromises ==
    ASSUME Kept, NEW e \in Ends, ReceiveNothing(e)
    PROVE  Kept' /\ Promises
  <1>1. Kept' /\ OpenOnce /\ OpenOnce'
    BY ReceiveNothingKept DEF Kept
  <1>2. /\ UNCHANGED <<conn, written, taken>> /\ outcome[e] = "open"
        /\ conn[e].connected /\ ~closed[e]
    BY DEF ReceiveNothing, Connected
  <1>3. written' = written /\ FirstTaken' = FirstTaken /\ Finished' = Finished
    BY <1>2 DEF FirstTaken, Finished
  <1>4. CASE outcome' = [outcome EXCEPT ![e] = "error"]
    <2>1. ReadingNothing(e, "error")
      BY <1>2, <1>3, <1>4 DEF ReadingNothing
    <2> QED BY <2>1, <1>1, ReadingNothingPromises
  <1>5. CASE outcome' # [outcome EXCEPT ![e] = "error"]
    <2>1. /\ conn[e].failure = "None" /\ conn[e].recv = <<>> /\ conn[e].finr
          /\ outcome' = [outcome EXCEPT ![e] = "end"]
      BY <1>5 DEF ReceiveNothing
    <2>2. EndKept(e) /\ Peer(e) \in Ends
      BY TwoEnds DEF Kept
    <2>3. PICK x : x = ContextOf(e)
      OBVIOUS
    <2>4. EndKnown(conn[e], x)
      BY <1>2, <2>2, <2>3 DEF EndKept
    <2>5. x.over /\ x.read + Len(conn[e].recv) = x.theirs
      BY <1>2, <2>1, <2>4 DEF EndKnown
    <2>6. x.over = conn[Peer(e)].finq /\ x.read = Len(taken[e][1])
          /\ x.theirs = written[Peer(e)]
      BY <2>3 DEF ContextOf
    <2>7. PICK n \in Nat : n = written[Peer(e)]
      BY <2>2 DEF Kept, GuestTyped
    <2>8. PICK read \in Seq(Bytes) : read = taken[e][1]
      BY PlanHolds DEF Kept, GuestTyped
    <2>9. Len(read) = n
      BY <2>1, <2>5, <2>6, <2>7, <2>8
    <2>10. \A k \in 1 .. Len(read) : read[k] = Tagged(1, k)
      BY <2>2, <2>8 DEF EndKept, ReadRight
    <2>11. PICK stream : stream = [k \in 1 .. n |-> ByteOf(Peer(e), k)]
      OBVIOUS
    <2>12. /\ stream \in Seq(Bytes) /\ Len(stream) = n
           /\ \A k \in 1 .. Len(stream) : stream[k] = Tagged(1, k)
      BY <2>11, StreamIs DEF ByteOf
    <2>13. read = stream
      <3>1. Len(read) <= Len(stream) /\ Len(read) = Len(stream)
        BY <2>9, <2>12
      <3> QED BY <3>1, <2>10, <2>12, TaggedPrefix
    <2>14. FirstTaken[e] = stream /\ Finished[Peer(e)]
      BY <2>2, <2>5, <2>6, <2>8, <2>13 DEF FirstTaken, Finished
    <2>15. ReadingNothing(e, "end")
      BY <1>2, <1>3, <2>1, <2>7, <2>11, <2>14 DEF ReadingNothing
    <2> QED BY <2>15, <1>1, ReadingNothingPromises
  <1> QED BY <1>4, <1>5

(* A segment that comes is nothing the guests see.                           *)
LEMMA InputPromises ==
    ASSUME Kept, NEW e \in Ends, NEW s \in net[e], NEW rest, Remains(rest),
           TcpInput(e, s, rest)
    PROVE  Kept' /\ Promises
  <1>1. CASE ToConnection(e, s, rest)
    <2>1. Kept' /\ Silent(e)
      BY <1>1, ToConnectionKept
    <2> QED BY <2>1, SilentPromises DEF Silent, guest
  <1>2. CASE ToListener(e, s, rest)
    BY <1>2, ToListenerKept, SilentPromises
  <1>3. CASE ToNobody(e, s, rest)
    <2>1. Kept' /\ Silent(e)
      BY <1>3, ToNobodyKept
    <2> QED BY <2>1, SilentPromises DEF Silent, guest
  <1> QED BY <1>1, <1>2, <1>3 DEF TcpInput

(* Every step keeps the two ends and keeps the contract.                     *)
LEMMA StepPromises ==
    ASSUME Kept, Next
    PROVE  Kept' /\ Promises
  <1>1. PICK e \in Ends :
          \/ Connect(e) \/ Deliver(e) \/ Repeat(e) \/ Lose(e)
          \/ TickStreams(e) \/ Send(e) \/ Receive(e) \/ ReceiveNothing(e)
          \/ Shutdown(e) \/ (\E abort \in BOOLEAN : Close(e, abort))
          \/ Orphan(e) \/ Retire(e)
    BY DEF Next
  <1>2. RemainsNet
    BY NetRemains
  <1>3. CASE Connect(e)
    BY <1>3, ConnectKept, SilentPromises
  <1>4. CASE Deliver(e)
    <2>1. PICK s \in net[e] : TcpInput(e, s, [net EXCEPT ![e] = @ \ {s}])
      BY <1>4 DEF Deliver
    <2> QED BY <2>1, <1>2, InputPromises DEF RemainsNet
  <1>5. CASE Repeat(e)
    <2>1. PICK s \in net[e] : TcpInput(e, s, net)
      BY <1>5 DEF Repeat
    <2> QED BY <2>1, <1>2, InputPromises DEF RemainsNet
  <1>6. CASE Lose(e) \/ TickStreams(e) \/ Orphan(e) \/ Retire(e)
    <2>1. Kept' /\ Silent(e)
      BY <1>6, LoseKept, TickStreamsKept, OrphanKept, RetireKept
    <2> QED BY <2>1, SilentPromises DEF Silent, guest
  <1>7. CASE Send(e)
    BY <1>7, SendPromises
  <1>8. CASE Receive(e)
    BY <1>8, ReceivePromises
  <1>9. CASE ReceiveNothing(e)
    BY <1>9, ReceiveNothingPromises
  <1>10. CASE Shutdown(e)
    BY <1>10, ShutdownKept, ClosingPromises DEF guest
  <1>11. CASE \E abort \in BOOLEAN : Close(e, abort)
    <2>1. PICK abort \in BOOLEAN : Close(e, abort)
      BY <1>11
    <2> QED BY <2>1, CloseKept, ClosingPromises DEF guest
  <1> QED BY <1>1, <1>3, <1>4, <1>5, <1>6, <1>7, <1>8, <1>9, <1>10, <1>11

(* The plan is fixed.                                                        *)
LEMMA PlanStays ==
    ASSUME [Next]_vars
    PROVE  plan' = plan
  <1>1. CASE UNCHANGED vars
    BY <1>1 DEF vars
  <1>2. CASE Next
    <2>1. PICK e \in Ends :
            \/ Connect(e) \/ Deliver(e) \/ Repeat(e) \/ Lose(e)
            \/ TickStreams(e) \/ Send(e) \/ Receive(e) \/ ReceiveNothing(e)
            \/ Shutdown(e) \/ (\E abort \in BOOLEAN : Close(e, abort))
            \/ Orphan(e) \/ Retire(e)
      BY <1>2 DEF Next
    <2>2. CASE Deliver(e) \/ Repeat(e)
      BY <2>2 DEF Deliver, Repeat, TcpInput, ToConnection, ToListener, ToNobody,
         Begin, guest
    <2>3. CASE ~(Deliver(e) \/ Repeat(e))
      BY <2>1, <2>3 DEF Connect, Begin, Lose, TickStreams, Send, Receive,
         ReceiveNothing, Shutdown, Close, Orphan, Retire, guest
    <2> QED BY <2>2, <2>3
  <1> QED BY <1>1, <1>2

(* What holds from the start: where every end opens once, both are kept.     *)
KeptOnce == OpenOnce => Kept

(* A connection that does not exist is sound.                                *)
LEMMA BlankSound ==
    ASSUME NEW e \in Ends, NEW x, Context(e, x), x.read = 0
    PROVE  Sound(e, Blank, x) /\ Blank.out = {} /\ EndKnown(Blank, x)
           /\ Blank \in Connections
  <1>1. 0 \in Numbers /\ <<>> \in Seq(Bytes) /\ {} \in SUBSET Segments
        /\ {} \in SUBSET Pieces /\ 0 \in Nat
    BY ModulusHolds DEF Numbers
  <1>2. PICK b : b = Blank
    OBVIOUS
  <1>3. b \in Connections /\ b.state = "Closed" /\ ~b.timer /\ b.out = {}
        /\ b.recv = <<>> /\ ~b.finr
    BY <1>1, <1>2 DEF Blank, Connections, States, Failures
  <1>4. Readable(b, x)
    BY <1>3, ModulusHolds DEF Readable, Context, Contexts
  <1>5. Sound(e, b, x) /\ EndKnown(b, x)
    BY <1>3, <1>4 DEF Sound, PutsOut, EndKnown
  <1> QED BY <1>2, <1>3, <1>5

(* The initial states are kept.                                              *)
LEMMA InitKept ==
    ASSUME Init, OpenOnce
    PROVE  Kept
  <1>1. /\ plan \in Plans /\ conn = [e \in Ends |-> Blank]
        /\ closed = [e \in Ends |-> FALSE] /\ net = [e \in Ends |-> {}]
        /\ opens = [e \in Ends |-> 0] /\ written = [e \in Ends |-> 0]
        /\ taken = [e \in Ends |-> [n \in 1 .. MaxOpens |-> <<>>]]
        /\ outcome = [e \in Ends |-> "open"]
    BY DEF Init
  <1>2. GuestTyped
    <2>1. \A e \in Ends : plan.total[e] \in Nat
      BY <1>1, PlanHolds
    <2>2. <<>> \in Seq(Bytes)
      OBVIOUS
    <2>3. "open" \in Outcomes
      BY DEF Outcomes
    <2>4. \A e \in Ends : written[e] = 0 /\ written[e] <= plan.total[e]
      BY <2>1, <1>1
    <2>5. written \in [Ends -> Nat] /\ opens \in [Ends -> {0, 1}]
          /\ closed \in [Ends -> BOOLEAN] /\ outcome \in [Ends -> Outcomes]
      BY <2>3, <1>1
    <2>6. taken \in [Ends -> [1 .. MaxOpens -> Seq(Bytes)]]
      BY <2>2, <1>1
    <2> QED BY <2>4, <2>5, <2>6, <1>1 DEF GuestTyped
  <1>3. ASSUME NEW e \in Ends
        PROVE  EndKept(e) /\ Blank \in Connections
    <2>1. PICK p \in Ends : p = Peer(e)
      BY TwoEnds
    <2>2. SentBy(p) = 0 /\ HeldBy(p) = 0
      BY <2>1, <1>1 DEF SentBy, HeldBy
    <2>3. taken[e][1] = <<>>
      BY <1>1, PlanHolds
    <2>4. PICK x : x = ContextOf(e)
      OBVIOUS
    <2>5. x = [mine |-> 0, read |-> 0, theirs |-> 0, over |-> FALSE,
               sent |-> 0, known |-> 0]
      <3>1. conn[p].finq = FALSE
        BY <1>1 DEF Blank
      <3> QED BY <3>1, <2>1, <2>2, <2>3, <2>4, <1>1 DEF ContextOf
    <2>6. x \in Contexts
      BY <2>5 DEF Contexts
    <2>7. Starts(e) /\ Starts(Peer(e))
      BY <2>1, <1>1, PlanHolds
    <2>8. Modulus \in Nat /\ 4 < Modulus
      <3>1. plan.total[e] \in Nat /\ 2 * (plan.total[e] + 2) < Modulus
        BY <1>1, PlanHolds
      <3>2. Modulus \in Nat
        BY ModulusHolds
      <3> QED BY <3>1, <3>2
    <2>9. Context(e, x)
      BY <2>5, <2>6, <2>7, <2>8 DEF Context, Bit
    <2>10. Sound(e, Blank, x) /\ Blank.out = {} /\ EndKnown(Blank, x)
           /\ Blank \in Connections
      BY <2>5, <2>9, BlankSound
    <2>11. conn[e] = Blank /\ written[e] = 0 /\ ~closed[e] /\ outcome[e] = "open"
           /\ net[e] = {} /\ written[Peer(e)] = 0
      BY <2>1, <1>1
    <2>12. ReadRight(e)
      BY <2>3, <2>11 DEF ReadRight
    <2>13. Unopened(e)
      BY <2>11 DEF Unopened
    <2> QED BY <2>3, <2>4, <2>10, <2>11, <2>12, <2>13 DEF EndKept
  <1>4. NetTyped
    BY <1>1, <1>3 DEF NetTyped
  <1> QED BY <1>2, <1>3, <1>4 DEF Kept

(* And so is every step, where each end opens once.                          *)
LEMMA KeptSteps ==
    ASSUME KeptOnce, [Next]_vars
    PROVE  KeptOnce' /\ Promises
  <1>1. plan' = plan
    BY PlanStays
  <1>2. OpenOnce' <=> OpenOnce
    BY <1>1 DEF OpenOnce
  <1>3. CASE ~OpenOnce
    <2>1. Promises
      BY <1>2, <1>3 DEF Promises, Contract!streamVars, Once
    <2> QED BY <2>1, <1>2, <1>3 DEF KeptOnce
  <1>4. CASE OpenOnce /\ Next
    BY <1>4, StepPromises DEF KeptOnce
  <1>5. CASE OpenOnce /\ UNCHANGED vars
    <2>1. Kept
      BY <1>5 DEF KeptOnce
    <2>2. UNCHANGED <<plan, conn, closed, opens, written, taken, outcome, net>>
      BY <1>5 DEF vars
    <2>3. Kept'
      BY <2>1, <2>2, NetKept DEF Kept, GuestTyped, NetTyped
    <2>4. Quiet
      BY <2>2 DEF Quiet, Finished, FirstTaken
    <2> QED BY <2>3, <2>4, <1>2, <1>5, QuietPromises DEF KeptOnce
  <1> QED BY <1>3, <1>4, <1>5

(* Where every end opens once, the two ends are kept: each knows of its      *)
(* connection what the other's state says, and every segment on its way is   *)
(* of the two streams.                                                       *)
THEOREM EndsKept == Spec => []KeptOnce
  <1>1. Init => KeptOnce
    BY InitKept DEF KeptOnce
  <1>2. KeptOnce /\ [Next]_vars => KeptOnce'
    BY KeptSteps
  <1> QED BY <1>1, <1>2, PTL DEF Spec

(* What a guest reads is what the other wrote, in order and once, and it is  *)
(* told of the end only after the last byte: net/xnet_tcp.cc keeps the       *)
(* contract of the socket calls over a network that loses, repeats and       *)
(* reorders segments.                                                        *)
THEOREM StreamIsKept == Spec => StreamKept
  <1>1. Init => Contract!Init
    <2>1. ASSUME Init
          PROVE  Contract!Init
      <3>1. CASE OpenOnce
        <4>1. \A e \in Ends : taken[e][1] = <<>>
          BY <2>1, <3>1, InitKept DEF Kept, EndKept, Init
        <4>2. \A e \in Ends : conn[e].finq = FALSE
          BY <2>1 DEF Init, Blank
        <4>3. FirstTaken = [e \in Ends |-> <<>>]
          BY <4>1 DEF FirstTaken
        <4>4. Finished = [e \in Ends |-> FALSE]
          BY <4>2 DEF Finished
        <4> QED BY <4>3, <4>4, <2>1, <3>1 DEF Contract!Init, Once, FirstTaken,
                Finished, Init
      <3>2. CASE ~OpenOnce
        BY <3>2 DEF Contract!Init, Once
      <3> QED BY <3>1, <3>2
    <2> QED BY <2>1
  <1>2. KeptOnce /\ [Next]_vars => [Contract!Next]_(Contract!streamVars)
    BY KeptSteps DEF Promises
  <1> QED BY <1>1, <1>2, EndsKept, PTL DEF Spec, StreamKept, Contract!Spec

(* What left the send buffer is what the other end has.                      *)
LEMMA KeptReleases ==
    ASSUME Kept
    PROVE  ReleasedIsReceived
  <1>1. ASSUME NEW e \in Ends, NEW p \in Ends, p = Peer(e),
               conn[e].state # "Closed", conn[p].state # "Closed"
        PROVE  written[e] - Len(conn[e].send) <= Len(Received(p, opens[p]))
    <2>1. Peer(p) = e
      BY <1>1, TwoEnds
    <2>2. EndKept(e) /\ EndKept(p)
      BY DEF Kept
    <2>3. opens[e] = 1 /\ opens[p] = 1
      BY <1>1, OpenedHolds
    <2>4. PICK x : x = ContextOf(e)
      OBVIOUS
    <2>5. PICK y : y = ContextOf(p)
      OBVIOUS
    <2>6. SendsRight(e, conn[e], x) /\ conn[e] \in Connections
      BY <1>1, <2>2, <2>4 DEF EndKept, Sound
    <2>7. x.mine = written[e] /\ x.known = HeldBy(p)
          /\ y.read = Len(taken[p][1]) /\ y.theirs = written[e]
      BY <1>1, <2>1, <2>4, <2>5 DEF ContextOf
    <2>8. PICK w \in Nat : w = written[e]
      BY DEF Kept, GuestTyped
    <2>9. PICK send \in Nat : send = Len(conn[e].send)
      BY <2>6 DEF Connections
    <2>10. taken[p][1] \in Seq(Bytes) /\ conn[p].recv \in Seq(Bytes)
           /\ conn[p] \in Connections
      BY PlanHolds DEF Kept, GuestTyped, NetTyped, Connections
    <2>11. PICK read \in Nat : read = Len(taken[p][1])
      BY <2>10
    <2>12. PICK recv \in Nat : recv = Len(conn[p].recv)
      BY <2>10
    <2>13. Len(Received(p, opens[p])) = read + recv
      <3>1. Received(p, opens[p]) = taken[p][1] \o conn[p].recv
        BY <2>3 DEF Received
      <3> QED BY <3>1, <2>10, <2>11, <2>12
    <2>14. Starts(e)
      BY PlanHolds DEF Kept, GuestTyped
    <2>15. PICK sseq \in Nat : sseq = Offset(e, conn[e].sseq)
      BY <2>6, <2>14, OffsetIs DEF Connections
    <2>16. PICK una \in Nat : una = Offset(e, conn[e].una)
      BY <2>6, <2>14, OffsetIs DEF Connections
    <2>17. CASE Connecting(conn[e])
      <3>1. w = 0
        BY <2>6, <2>7, <2>8, <2>17 DEF SendsRight
      <3> QED BY <3>1, <2>8, <2>9, <2>13
    <2>18. CASE ~Connecting(conn[e])
      <3>1. sseq = 1 + w - send
        BY <2>6, <2>7, <2>8, <2>9, <2>15 DEF SendsRight
      <3>2. sseq <= una
        BY <2>6, <2>15, <2>16, <2>18 DEF SendsRight
      <3>3. una <= HeldBy(p)
        BY <2>6, <2>7, <2>16 DEF SendsRight
      <3>4. CASE conn[p].state = "SynSent"
        <4>1. HeldBy(p) = 0
          BY <3>4 DEF HeldBy
        <4> QED BY <4>1, <3>1, <3>2, <3>3, <2>8, <2>9, <2>13
      <3>5. CASE conn[p].state # "SynSent"
        <4>1. HeldBy(p) = Offset(e, conn[p].rcv)
          BY <3>5, <1>1, <2>1, <2>3 DEF HeldBy
        <4>2. TakesRight(p, conn[p], y)
          BY <3>5, <1>1, <2>2, <2>5 DEF EndKept, Sound
        <4>3. PICK rcv \in Nat : rcv = Offset(e, conn[p].rcv)
          BY <2>10, <2>14, OffsetIs DEF Connections
        <4>4. PICK bit \in Nat : bit = Bit(conn[p].finr)
          BY DEF Bit
        <4>5. rcv = 1 + read + recv + bit
          BY <4>2, <4>3, <4>4, <2>1, <2>7, <2>11, <2>12 DEF TakesRight
        <4>6. CASE conn[p].finr
          <5>1. read + recv = w
            BY <4>2, <4>6, <2>7, <2>8, <2>11, <2>12 DEF TakesRight
          <5> QED BY <5>1, <2>8, <2>9, <2>13
        <4>7. CASE ~conn[p].finr
          <5>1. bit = 0
            BY <4>4, <4>7 DEF Bit
          <5> QED BY <5>1, <4>1, <4>3, <4>5, <3>1, <3>2, <3>3, <2>8, <2>9, <2>13
        <4> QED BY <4>6, <4>7
      <3> QED BY <3>4, <3>5
    <2> QED BY <2>17, <2>18
  <1> QED BY <1>1, TwoEnds DEF ReleasedIsReceived

(* A byte leaves the send buffer only once the other end has it, so that an  *)
(* acknowledgement, however late or repeated, never releases what was only   *)
(* sent: Connection::Acknowledge of net/xnet_tcp.cc.                         *)
THEOREM ReleasedWasReceived == Spec => []ReleasedIsReceived
  <1>1. KeptOnce => ReleasedIsReceived
    BY KeptReleases DEF KeptOnce, ReleasedIsReceived
  <1> QED BY <1>1, EndsKept, PTL

(* An end that opens once never holds more than its buffer for its guest,    *)
(* whatever arrives, in whatever order: Connection::Accept and Input of      *)
(* net/xnet_tcp.cc trim it to the window.                                    *)
THEOREM ReceivedFits == Spec => [](OpenOnce => ReceiveFits)
  <1>1. KeptOnce => (OpenOnce => ReceiveFits)
    BY DEF KeptOnce, Kept, EndKept, Sound, Readable, ReceiveFits
  <1> QED BY <1>1, EndsKept, PTL
=============================================================================
