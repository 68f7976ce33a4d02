--------------------------- MODULE TcpConnection ---------------------------
(* One end of a TCP connection between two consoles of the System Link:      *)
(* the class Connection of net/xnet_tcp.  The owner serializes the calls     *)
(* (TcpStreams), so each operation is an operator from a connection to the   *)
(* connection it leaves behind, with the segments it sends in "out".         *)
(*                                                                           *)
(* Time is abstracted: a timer is armed or not, and an armed one may expire  *)
(* at any moment, so the round-trip estimate that sets it is left out.       *)
(* PSH and the MSS option are left out too, as every peer announces the same *)
(* MSS.  Sequence numbers keep their modular arithmetic, with a modulus that *)
(* is a constant (2^32 in the code).                                         *)
EXTENDS Integers, Sequences, FiniteSets

CONSTANTS
    Modulus,        \* sequence numbers are taken modulo this, 2^32
    Buffer,         \* kBufferSize
    Mss,            \* kSecureMss
    SynRetries,     \* kSynRetries
    Retries,        \* kRetries
    DuplicateAcks,  \* kDuplicateAcks
    EarlyLimit      \* kEarlyLimit

ASSUME SizesAssumption ==
    /\ {Buffer, Mss, DuplicateAcks, EarlyLimit} \subseteq Nat \ {0}
    /\ {SynRetries, Retries} \subseteq Nat
    /\ Modulus \in {2 * m : m \in 2 * Buffer .. Modulus}

Least(a, b) == IF a < b THEN a ELSE b
Most(a, b) == IF a > b THEN a ELSE b

-----------------------------------------------------------------------------
(* Sequence numbers.                                                         *)

Plus(a, n) == (a + n) % Modulus
Distance(from, to) == (to - from) % Modulus
Before(a, b) == 2 * Distance(b, a) >= Modulus
AtOrBefore(a, b) == a = b \/ Before(a, b)
Later(a, b) == IF Before(a, b) THEN b ELSE a

(* A byte is whatever the writer wrote; a segment carries some in a row.     *)
SeqLength(s) == Len(s.data) + Cardinality(s.flags \cap {"SYN", "FIN"})

Segment(seq, ack, flags, wnd, data) ==
    [seq |-> seq, ack |-> ack, flags |-> flags, wnd |-> wnd, data |-> data]

(* What answers a segment that no connection takes.                          *)
Refusal(s) ==
    CASE "RST" \in s.flags -> {}
      [] "RST" \notin s.flags /\ "ACK" \in s.flags ->
           {Segment(s.ack, 0, {"RST"}, 0, <<>>)}
      [] OTHER ->
           {Segment(0, Plus(s.seq, SeqLength(s)), {"RST", "ACK"}, 0, <<>>)}

-----------------------------------------------------------------------------
(* The state of one end.                                                     *)

Connecting(c) == c.state \in {"SynSent", "SynReceived"}
Synchronized(c) == c.state # "Closed" /\ ~Connecting(c)
Sending(c) == c.state \in {"Established", "CloseWait", "FinWait1", "Closing",
                           "LastAck"}
Window(c) == Buffer - Len(c.recv)
DataEnd(c) == Plus(c.sseq, Len(c.send))
FinAcknowledged(c) == c.finq /\ c.una = Plus(DataEnd(c), 1)
Unsettled(c) == Before(c.una, DataEnd(c))

Writable(c) ==
    IF c.finq \/ ~(Connecting(c) \/ c.state \in {"Established", "CloseWait"})
    THEN 0
    ELSE Buffer - Len(c.send)

Blank ==
    [state |-> "Closed", failure |-> "None", connected |-> FALSE,
     active |-> FALSE, iss |-> 0, irs |-> 0,
     una |-> 0, nxt |-> 0, max |-> 0, sseq |-> 0, send |-> <<>>,
     finq |-> FALSE, wnd |-> 0, wl1 |-> 0, wl2 |-> 0,
     cwnd |-> 0, ssthresh |-> 0, dups |-> 0, retries |-> 0, timer |-> FALSE,
     rcv |-> 0, adv |-> 0, recv |-> <<>>, early |-> {}, finr |-> FALSE,
     acknow |-> FALSE, out |-> {}]

(* Once closed, only what the guest can still read matters.                  *)
Ended(c, failure) ==
    [Blank EXCEPT !.failure = failure, !.connected = c.connected,
                  !.finq = c.finq, !.finr = c.finr, !.out = c.out]
Fail(c, failure) == Ended(c, failure)
Leave(c) == [Ended(c, c.failure) EXCEPT !.recv = c.recv]

(* Emit: a segment with an ACK tells the peer the window and settles the     *)
(* acknowledgement that was due.                                             *)
Emit(c, seq, flags, data) ==
    LET wnd == IF flags = {"RST"} THEN 0 ELSE Window(c)
        sent == {Segment(seq, IF "ACK" \in flags THEN c.rcv ELSE 0, flags,
                         wnd, data)}
    IN  IF "ACK" \in flags
        THEN [c EXCEPT !.out = @ \cup sent, !.adv = Plus(c.rcv, wnd),
                       !.acknow = FALSE]
        ELSE [c EXCEPT !.out = @ \cup sent]

Fresh(state, iss) ==
    [Blank EXCEPT !.state = state, !.iss = iss, !.una = iss,
                  !.nxt = Plus(iss, 1), !.max = Plus(iss, 1),
                  !.sseq = Plus(iss, 1), !.timer = TRUE]
Open(iss) == Emit([Fresh("SynSent", iss) EXCEPT !.active = TRUE],
                  iss, {"SYN"}, <<>>)
Answer(syn, iss) ==
    Emit([Fresh("SynReceived", iss) EXCEPT !.irs = syn.seq,
                                           !.rcv = Plus(syn.seq, 1)],
         iss, {"SYN", "ACK"}, <<>>)

-----------------------------------------------------------------------------
(* Sending.                                                                  *)

(* What fits the peer's window and the congestion window, one MSS at a time. *)
SendData(c) ==
    LET flight == Distance(c.una, c.nxt)
        limit == Least(c.wnd, c.cwnd)
        size == IF Before(c.nxt, DataEnd(c)) /\ limit > flight
                THEN Least(Distance(c.nxt, DataEnd(c)), limit - flight)
                ELSE 0
        first == Distance(c.sseq, c.nxt)
        Part(i) == Segment(Plus(c.nxt, i * Mss), c.rcv, {"ACK"}, Window(c),
                           SubSeq(c.send, first + i * Mss + 1,
                                  first + Least((i + 1) * Mss, size)))
    IN  IF size = 0
        THEN c
        ELSE [c EXCEPT !.out = @ \cup {Part(i) : i \in 0 .. (size - 1) \div Mss},
                       !.nxt = Plus(@, size),
                       !.max = Later(@, Plus(c.nxt, size)),
                       !.adv = Plus(c.rcv, Window(c)),
                       !.acknow = FALSE, !.timer = TRUE]

SendFin(c) ==
    IF c.finq /\ c.nxt = DataEnd(c)
    THEN [Emit(c, c.nxt, {"FIN", "ACK"}, <<>>) EXCEPT
             !.nxt = Plus(@, 1), !.max = Later(@, Plus(c.nxt, 1)),
             !.timer = TRUE,
             !.state = CASE @ = "Established" -> "FinWait1"
                         [] @ = "CloseWait" -> "LastAck"
                         [] OTHER -> @]
    ELSE c

(* A peer that closed its window is probed.  Mutant: is waited for.          *)
ArmNothing(c) == c
ArmProbe(c) ==
    IF c.wnd = 0 /\ Unsettled(c) THEN [c EXCEPT !.timer = TRUE] ELSE c

SendAck(c) ==
    IF c.acknow /\ Synchronized(c) THEN Emit(c, c.nxt, {"ACK"}, <<>>) ELSE c

Output(c) == SendAck(IF Sending(c) THEN ArmProbe(SendFin(SendData(c))) ELSE c)

AckNow(c) == Output([c EXCEPT !.acknow = TRUE])

(* The first segment not acknowledged, and how much it takes: the bytes that *)
(* went out before, and the FIN if it went out after them.                   *)
ResendSize(c) ==
    IF Unsettled(c)
    THEN Least(Mss, Distance(c.una, IF Before(DataEnd(c), c.max)
                                    THEN DataEnd(c) ELSE c.max))
    ELSE 0
ResendFin(c) ==
    c.finq /\ Plus(c.una, ResendSize(c)) = DataEnd(c) /\ Before(DataEnd(c), c.max)
ResendLength(c) == ResendSize(c) + (IF ResendFin(c) THEN 1 ELSE 0)
Resend(c) ==
    LET first == Distance(c.sseq, c.una)
    IN  IF ResendLength(c) = 0
        THEN c
        ELSE [Emit(c, c.una, {"ACK"} \cup (IF ResendFin(c) THEN {"FIN"} ELSE {}),
                   SubSeq(c.send, first + 1, first + ResendSize(c)))
              EXCEPT !.timer = TRUE]

-----------------------------------------------------------------------------
(* Receiving an acknowledgement.                                             *)

Establish(c, s) ==
    [c EXCEPT !.state = "Established", !.connected = TRUE, !.wnd = s.wnd,
              !.wl1 = s.seq, !.wl2 = s.ack, !.cwnd = Least(4 * Mss, Buffer),
              !.ssthresh = Buffer, !.retries = 0, !.timer = FALSE]

(* How much of the send buffer an acknowledgement releases.  Mutant: what    *)
(* was sent.                                                                 *)
ReleasesSent(c, ack) == Least(Distance(c.sseq, c.nxt), Len(c.send))
Releases(c, ack) ==
    IF Before(c.sseq, ack) THEN Least(Distance(c.sseq, ack), Len(c.send)) ELSE 0

(* New data is acknowledged.  A congestion window larger than any window the *)
(* peer can announce is the same as one as large.                            *)
Advance(c, ack) ==
    LET acked == Releases(c, ack)
        growth == IF c.cwnd < c.ssthresh THEN Mss
                  ELSE Most(1, (Mss * Mss) \div c.cwnd)
    IN  [c EXCEPT !.send = SubSeq(@, acked + 1, Len(@)),
                  !.sseq = Plus(@, acked), !.una = ack,
                  !.nxt = Later(@, ack), !.dups = 0, !.retries = 0,
                  !.cwnd = Least(@ + growth, Buffer),
                  !.timer = ack # c.max]

IsDuplicate(c, s) ==
    /\ s.ack = c.una /\ c.una # c.max
    /\ s.wnd # 0 /\ s.wnd = c.wnd
    /\ s.data = <<>> /\ s.flags \cap {"SYN", "FIN"} = {}

Halved(c) == Most(Distance(c.una, c.max) \div 2, 2 * Mss)

(* The one that makes DuplicateAcks of them resends the missing segment; the *)
(* code counts on, to no effect.                                             *)
CountDuplicate(c) ==
    LET dups == Least(c.dups + 1, DuplicateAcks + 1)
    IN  IF dups = DuplicateAcks
        THEN Resend([c EXCEPT !.dups = dups, !.ssthresh = Halved(c),
                              !.cwnd = Halved(c)])
        ELSE [c EXCEPT !.dups = dups]

(* The window of the latest segment counts.  Mutant: of any segment.         *)
IsAnySegment(c, s) == TRUE
IsLatest(c, s) ==
    Before(c.wl1, s.seq) \/ (c.wl1 = s.seq /\ AtOrBefore(c.wl2, s.ack))
TakeWindow(c, s) ==
    IF IsLatest(c, s)
    THEN [c EXCEPT !.wnd = s.wnd, !.wl1 = s.seq, !.wl2 = s.ack]
    ELSE c

Rewind(c) == IF c.wnd = 0 /\ Unsettled(c) THEN [c EXCEPT !.nxt = c.una] ELSE c

(* Acknowledge, when the segment acknowledges nothing that was never sent.   *)
Acknowledge(c, s) ==
    LET counted == IF Before(c.una, s.ack) THEN Advance(c, s.ack)
                   ELSE IF IsDuplicate(c, s) THEN CountDuplicate(c) ELSE c
        probed == [counted EXCEPT !.retries = IF s.wnd = 0 THEN 0 ELSE @]
    IN  Rewind(TakeWindow(probed, s))

FinTaken(c) ==
    IF ~FinAcknowledged(c) THEN c
    ELSE CASE c.state = "FinWait1" -> [c EXCEPT !.state = "FinWait2"]
           [] c.state = "Closing" -> [c EXCEPT !.state = "TimeWait"]
           [] c.state = "LastAck" -> Leave(c)
           [] OTHER -> c

-----------------------------------------------------------------------------
(* Receiving data.                                                           *)

ReceiveFin(c) ==
    LET taken == [c EXCEPT !.rcv = Plus(@, 1), !.finr = TRUE, !.acknow = TRUE,
                           !.early = {}]
    IN  CASE c.state = "Established" -> [taken EXCEPT !.state = "CloseWait"]
          [] c.state = "FinWait2" \/ (c.state = "FinWait1" /\ FinAcknowledged(c)) ->
               [taken EXCEPT !.state = "TimeWait"]
          [] c.state = "FinWait1" /\ ~FinAcknowledged(c) ->
               [taken EXCEPT !.state = "Closing"]
          [] OTHER -> taken

(* Mutant: the FIN counts before what it follows has come.                   *)
AnyFin(c, rcv) == \E e \in c.early : e.fin
NextIsFin(c, rcv) == \E e \in c.early : e.fin /\ Plus(e.seq, Len(e.data)) = rcv

(* What was kept out of order and now joins what came in order: the bytes up *)
(* to the first gap, and the FIN behind them.                                *)
PlaceOf(c, e) ==
    IF Before(c.rcv, e.seq) THEN Distance(c.rcv, e.seq)
    ELSE -Distance(e.seq, c.rcv)
HasAt(c, i) == {e \in c.early : i - PlaceOf(c, e) \in 0 .. Len(e.data) - 1}
ByteAt(c, i) ==
    LET e == CHOOSE e \in HasAt(c, i) : TRUE
    IN  e.data[i - PlaceOf(c, e) + 1]
GapOf(c) ==
    CHOOSE n \in 0 .. Window(c) :
        /\ \A i \in 0 .. n - 1 : HasAt(c, i) # {}
        /\ n = Window(c) \/ HasAt(c, n) = {}
JoinEarly(c) ==
    LET gap == GapOf(c)
        rcv == Plus(c.rcv, gap)
        next == [c EXCEPT !.recv = @ \o [i \in 1 .. gap |-> ByteAt(c, i - 1)],
                          !.rcv = rcv,
                          !.early = {e \in @ : Before(rcv, e.seq)}]
    IN  IF NextIsFin(c, rcv)
        THEN ReceiveFin(next)
        ELSE next

Accept(c, s) ==
    LET fin == "FIN" \in s.flags
        early == [seq |-> s.seq, data |-> s.data, fin |-> fin]
        taken == [c EXCEPT !.recv = @ \o s.data, !.rcv = Plus(@, Len(s.data)),
                           !.acknow = @ \/ s.data # <<>>]
    IN  CASE s.seq # c.rcv /\ s.data = <<>> /\ ~fin -> c
          [] s.seq # c.rcv /\ (s.data # <<>> \/ fin) ->
               [c EXCEPT !.acknow = TRUE,
                         !.early = IF Cardinality(@) < EarlyLimit
                                   THEN @ \cup {early} ELSE @]
          [] s.seq = c.rcv /\ fin -> ReceiveFin(taken)
          [] OTHER -> JoinEarly(taken)

-----------------------------------------------------------------------------
(* Input: a segment of this connection arrives.                              *)

InputSynSent(c, s) ==
    LET started == [c EXCEPT !.irs = s.seq, !.rcv = Plus(s.seq, 1)]
    IN  IF /\ "ACK" \in s.flags
           /\ AtOrBefore(s.ack, c.iss) \/ Before(c.max, s.ack)
        THEN IF "RST" \in s.flags THEN c ELSE Emit(c, s.ack, {"RST"}, <<>>)
        ELSE CASE "RST" \in s.flags ->
                    IF "ACK" \in s.flags THEN Fail(c, "Refused") ELSE c
               [] s.flags \cap {"RST", "SYN"} = {} -> c
               [] s.flags \cap {"RST", "SYN", "ACK"} = {"SYN"} ->
                    Emit([started EXCEPT !.state = "SynReceived"],
                         c.iss, {"SYN", "ACK"}, <<>>)
               [] OTHER -> [Acknowledge(Establish(started, s), s)
                              EXCEPT !.acknow = TRUE]

(* Drops what arrived already and keeps the acknowledgement.                 *)
IsOld(c, s) == Before(s.seq, c.rcv)
OldBytes(c, s) ==
    Distance(s.seq, c.rcv) - (IF "SYN" \in s.flags THEN 1 ELSE 0)
TrimOld(c, s) ==
    IF ~IsOld(c, s) THEN s
    ELSE [s EXCEPT !.seq = c.rcv,
                   !.data = SubSeq(@, OldBytes(c, s) + 1, Len(@)),
                   !.flags = @ \ (IF OldBytes(c, s) > Len(s.data)
                                  THEN {"SYN", "FIN"} ELSE {"SYN"})]

(* A repeat with nothing new in it: the peer missed an acknowledgement.      *)
IsRepeat(c, s) ==
    /\ IsOld(c, s) /\ SeqLength(s) > 0 /\ "RST" \notin s.flags
    /\ OldBytes(c, s) >= Len(s.data)
    /\ "FIN" \notin TrimOld(c, s).flags

(* Nothing of it is inside the window.  An empty segment or a bare FIN fits  *)
(* a closed window at its edge.                                              *)
IsOutside(c, t) ==
    /\ Distance(c.rcv, t.seq) >= Window(c)
    /\ t.data # <<>> \/ "SYN" \in t.flags \/ t.seq # c.rcv

TrimWindow(c, t) ==
    LET room == Window(c) - Distance(c.rcv, t.seq)
    IN  IF Len(t.data) <= room THEN t
        ELSE [t EXCEPT !.data = SubSeq(@, 1, room), !.flags = @ \ {"FIN"}]

(* The acknowledgement of a segment, and what it carries.  A FIN that comes  *)
(* again in TIME_WAIT means that its acknowledgement was lost.               *)
InputAck(c, t, s) ==
    LET acked == FinTaken(Acknowledge(c, t))
    IN  IF Before(c.max, t.ack) THEN AckNow(c)
        ELSE CASE acked.state = "Closed" -> acked
               [] acked.state \in {"Established", "FinWait1", "FinWait2"} ->
                    Output(Accept(acked, t))
               [] acked.state = "TimeWait" /\ "FIN" \in s.flags -> AckNow(acked)
               [] OTHER -> Output(acked)

(* Whether a segment does not acknowledge the SYN this end sent, so that it  *)
(* is of an earlier connection.  Mutant: not asked.                          *)
IsTrusted(c, t) == FALSE
IsForeign(c, t) == AtOrBefore(t.ack, c.una) \/ Before(c.max, t.ack)

(* "s" is the segment as it came and "t" what trimming left of it.           *)
InputTrimmed(c, t, s) ==
    CASE "RST" \in t.flags ->
           IF IsOld(c, s) THEN c
           ELSE Fail(c, CASE c.connected -> "Reset"
                          [] ~c.connected /\ c.active -> "Refused"
                          [] OTHER -> "None")
      [] "RST" \notin t.flags /\ "SYN" \in t.flags -> AckNow(c)
      [] t.flags \cap {"RST", "SYN", "ACK"} = {} -> c
      [] OTHER ->
           IF c.state # "SynReceived" THEN InputAck(c, t, s)
           ELSE IF IsForeign(c, t)
                THEN Emit(c, t.ack, {"RST"}, <<>>)
                ELSE InputAck(Establish(c, t), t, s)

InputOther(c, s) ==
    LET t == TrimOld(c, s)
        noted == [c EXCEPT !.acknow = @ \/ IsRepeat(c, s)]
        told == IF "RST" \in t.flags THEN noted ELSE AckNow(noted)
    IN  IF ~IsOutside(c, t) THEN InputTrimmed(noted, TrimWindow(c, t), s)
        ELSE IF t.seq # c.rcv \/ "ACK" \notin t.flags THEN told
        ELSE InputTrimmed(told, [t EXCEPT !.data = <<>>,
                                          !.flags = @ \ {"FIN", "SYN"}], s)

Input(c, s) ==
    CASE c.state = "Closed" -> c
      [] c.state = "SynSent" -> Output(InputSynSent(c, s))
      [] c.state = "SynReceived" /\ s.flags \cap {"SYN", "ACK"} = {"SYN"}
                                 /\ s.seq = c.irs ->
           Emit(c, c.iss, {"SYN", "ACK"}, <<>>)
      [] OTHER -> InputOther(c, s)

-----------------------------------------------------------------------------
(* Tick: a timer that is armed expires.                                      *)

Probing(c) == ~Connecting(c) /\ c.wnd = 0 /\ Unsettled(c)
Outstanding(c) == Connecting(c) \/ Probing(c) \/ c.una # c.max
CanTick(c) == c.state = "TimeWait" \/ c.timer

Retry(c) ==
    LET again == [c EXCEPT !.retries = @ + 1]
        first == Distance(c.sseq, c.una) + 1
        resent == Resend([again EXCEPT !.ssthresh = Halved(c), !.cwnd = Mss,
                                       !.dups = 0])
    IN  CASE Connecting(c) ->
               Emit(again, c.iss, IF c.state = "SynSent" THEN {"SYN"}
                                  ELSE {"SYN", "ACK"}, <<>>)
          [] Probing(c) ->
               [Emit(again, c.una, {"ACK"}, <<c.send[first]>>) EXCEPT
                    !.nxt = c.una, !.max = Later(@, Plus(c.una, 1))]
          [] OTHER -> [resent EXCEPT !.nxt = Plus(c.una, ResendLength(c))]

Tick(c) ==
    CASE c.state = "TimeWait" -> Leave(c)
      [] c.state # "TimeWait" /\ ~Outstanding(c) -> [c EXCEPT !.timer = FALSE]
      [] OTHER ->
           IF c.retries = (IF Connecting(c) THEN SynRetries ELSE Retries)
           THEN Fail(c, "TimedOut")
           ELSE Retry(c)

-----------------------------------------------------------------------------
(* What the owner calls.                                                     *)

Write(c, data) == Output([c EXCEPT !.send = @ \o data])

(* A read that frees enough of the window tells the peer.                    *)
Read(c, n) ==
    LET left == [c EXCEPT !.recv = SubSeq(@, n + 1, Len(@))]
        grown == Distance(c.adv, Plus(c.rcv, Window(left)))
    IN  IF /\ Synchronized(c) /\ ~c.finr
           /\ grown >= Least(Mss, Buffer \div 2)
        THEN AckNow(left)
        ELSE left

Finish(c) ==
    IF c.finq \/ c.state \in {"Closed", "SynSent"} THEN c
    ELSE Output([c EXCEPT !.finq = TRUE])

Abort(c) ==
    CASE c.state = "Closed" -> c
      [] c.state = "SynSent" -> Fail(c, "None")
      [] OTHER -> Fail(Emit(c, IF c.wnd = 0 THEN c.nxt ELSE c.max,
                            {"RST"}, <<>>), "None")

(* The peer is gone: what arrived up to its FIN stays readable.              *)
Detach(c) ==
    CASE c.state = "Closed" -> c
      [] c.state # "Closed" /\ c.finr ->
           [Fail(c, "None") EXCEPT !.recv = c.recv, !.out = {}]
      [] OTHER -> [Fail(c, "Reset") EXCEPT !.out = {}]

=============================================================================
