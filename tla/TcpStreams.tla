----------------------------- MODULE TcpStreams -----------------------------
(* The two ends of a connection and the network between them, which loses,   *)
(* repeats and reorders segments.  Each end is owned by the streams of       *)
(* net/system_link.cc: they route a segment to the connection or to a        *)
(* listener, call the connection for the guest, and send what it put out.    *)
(* Every such step runs under the System Link's mutex, so it is one action.  *)
EXTENDS TcpConnection, SequencesExt

CONSTANTS
    Ends,                \* the two ends
    Openers,             \* the ends whose guest connects
    Listeners,           \* the ends whose guest listens
    InitialSequence,     \* what an end draws for each of its connections; the
                         \* draws of 32 random bits are taken to be far apart
    MaxOpens,            \* connections an end starts (bound)
    Capacity,            \* segments on their way to an end (bound); the
                         \* network drops what is more
    Plans                \* what guests and network may do, of which a behaviour
                         \* picks one:
                         \*   opens    per end, the connections it starts,
                         \*   total    per end, the bytes its guest writes; no two
                         \*            numbers of a connection are half of the
                         \*            Modulus apart,
                         \*   calls    per end, its guest's other calls, and
                         \*            "retire", the loss of the association,
                         \*   repeats  segments arrive more than once

ASSUME EndsAssumption ==
    /\ IsFiniteSet(Ends) /\ Cardinality(Ends) = 2
    /\ Openers \cup Listeners \subseteq Ends
    /\ InitialSequence \in [Ends -> [1 .. MaxOpens -> 0 .. Modulus - 1]]
    /\ Plans \subseteq
         [opens : [Ends -> 1 .. MaxOpens], total : [Ends -> 0 .. Modulus \div 2 - 3],
          calls : [Ends -> SUBSET {"shutdown", "close", "abort", "retire"}],
          repeats : BOOLEAN]

VARIABLES
    plan,           \* which of Plans
    conn,           \* the Connection of each end
    closed,         \* the guest closed its socket
    net,            \* the segments on their way to an end
    opens,          \* connections an end started so far
    written,        \* bytes the guest wrote on this connection
    taken,          \* what the guest read on each connection, in order
    outcome         \* what the last read said: "open", "end" or "error"

vars == <<plan, conn, closed, net, opens, written, taken, outcome>>
guest == <<plan, opens, written, taken, outcome>>

Peer(e) == CHOOSE p \in Ends : p # e

(* The k-th byte an end writes on its n-th connection.                       *)
Tagged(n, k) == <<n, k>>

Init ==
    /\ plan \in Plans
    /\ conn = [e \in Ends |-> Blank]
    /\ closed = [e \in Ends |-> FALSE]
    /\ net = [e \in Ends |-> {}]
    /\ opens = [e \in Ends |-> 0]
    /\ written = [e \in Ends |-> 0]
    /\ taken = [e \in Ends |-> [n \in 1 .. MaxOpens |-> <<>>]]
    /\ outcome = [e \in Ends |-> "open"]

(* FlushStreams: nobody reads a closed socket, so data that still arrives    *)
(* resets its connection; then what the connection put out is sent.          *)
Flushed(e, c) == IF closed'[e] /\ c.recv # <<>> THEN Abort(c) ELSE c

Post(e, segments, others) ==
    \E kept \in SUBSET segments :
        /\ Cardinality(kept \cup others[Peer(e)]) <= Capacity
        /\ kept = segments
             \/ Cardinality(segments \cup others[Peer(e)]) > Capacity
        /\ net' = [others EXCEPT ![Peer(e)] = @ \cup kept]

Settle(e, c, others) ==
    LET flushed == Flushed(e, c)
    IN  /\ conn' = [conn EXCEPT ![e] = [flushed EXCEPT !.out = {}]]
        /\ Post(e, flushed.out, others)

Call(e, c) == UNCHANGED closed /\ Settle(e, c, net)

-----------------------------------------------------------------------------
(* A new connection.                                                         *)

Begin(e) ==
    /\ opens[e] < plan.opens[e]
    /\ opens' = [opens EXCEPT ![e] = @ + 1] /\ UNCHANGED <<plan, taken>>
    /\ closed' = [closed EXCEPT ![e] = FALSE]
    /\ written' = [written EXCEPT ![e] = 0]
    /\ outcome' = [outcome EXCEPT ![e] = "open"]

(* Stream::Connect replaces the connection a closed socket is still          *)
(* finishing on these ports.                                                 *)
Connect(e) ==
    /\ e \in Openers
    /\ conn[e].state = "Closed" \/ closed[e]
    /\ Begin(e)
    /\ LET fresh == Open(InitialSequence[e][opens'[e]])
       IN  Settle(e, [fresh EXCEPT !.out = @ \cup Abort(conn[e]).out], net)

IsSyn(s) == s.flags \cap {"SYN", "ACK", "RST"} = {"SYN"}
Listening(e) == e \in Listeners /\ opens[e] < plan.opens[e]

(* TcpInput: to its connection, to a listener, or refused.  A new connection *)
(* may take the place of one that waits out TIME_WAIT.                       *)
Replaceable(e, s) ==
    conn[e].state = "Closed" \/ (conn[e].state = "TimeWait" /\ IsSyn(s))

ToConnection(e, s, rest) ==
    /\ ~Replaceable(e, s)
    /\ UNCHANGED <<closed, guest>>
    /\ Settle(e, Input(conn[e], s), rest)

ToListener(e, s, rest) ==
    /\ Replaceable(e, s) /\ IsSyn(s) /\ Listening(e)
    /\ Begin(e)
    /\ Settle(e, Answer(s, InitialSequence[e][opens'[e]]), rest)

ToNobody(e, s, rest) ==
    /\ Replaceable(e, s) /\ ~(IsSyn(s) /\ Listening(e))
    /\ conn' = [conn EXCEPT ![e] = Detach(@)]
    /\ Post(e, Refusal(s), rest)
    /\ UNCHANGED <<closed, guest>>

TcpInput(e, s, rest) ==
    ToConnection(e, s, rest) \/ ToListener(e, s, rest) \/ ToNobody(e, s, rest)

-----------------------------------------------------------------------------
(* The network.                                                              *)

Deliver(e) ==
    \E s \in net[e] : TcpInput(e, s, [net EXCEPT ![e] = @ \ {s}])

Repeat(e) ==
    /\ plan.repeats
    /\ \E s \in net[e] : TcpInput(e, s, net)

Lose(e) ==
    /\ \E s \in net[e] : net' = [net EXCEPT ![e] = @ \ {s}]
    /\ UNCHANGED <<conn, closed, guest>>

-----------------------------------------------------------------------------
(* The clock and the guest.                                                  *)

TickStreams(e) ==
    /\ CanTick(conn[e])
    /\ Call(e, Tick(conn[e])) /\ UNCHANGED guest

(* Usable: the guest has the stream and its handshake is over.               *)
Connected(e) == conn[e].connected /\ ~closed[e]

(* Stream::Send writes as much as there is room for.                         *)
Send(e) ==
    /\ Connected(e)
    /\ \E n \in 1 .. Least(Writable(conn[e]), plan.total[e] - written[e]) :
         /\ written' = [written EXCEPT ![e] = @ + n]
         /\ Call(e, Write(conn[e], [k \in 1 .. n |->
                                      Tagged(opens[e], written[e] + k)]))
    /\ UNCHANGED <<plan, opens, taken, outcome>>

(* Stream::Receive: a failure first, then the data, then the end.            *)
Receive(e) ==
    /\ Connected(e) /\ outcome[e] = "open" /\ conn[e].failure = "None"
    /\ \E n \in {1, Len(conn[e].recv)} \cap 1 .. Len(conn[e].recv) :
         /\ taken' = [taken EXCEPT ![e][opens[e]] = @ \o SubSeq(conn[e].recv, 1, n)]
         /\ Call(e, Read(conn[e], n))
    /\ UNCHANGED <<plan, opens, written, outcome>>

ReceiveNothing(e) ==
    /\ Connected(e) /\ outcome[e] = "open"
    /\ \/ /\ conn[e].failure # "None"
          /\ outcome' = [outcome EXCEPT ![e] = "error"]
       \/ /\ conn[e].failure = "None" /\ conn[e].recv = <<>>
          /\ conn[e].finr \/ conn[e].state = "Closed"
          /\ outcome' = [outcome EXCEPT ![e] = IF conn[e].finr THEN "end"
                                               ELSE "error"]
    /\ UNCHANGED <<plan, conn, closed, net, opens, written, taken>>

(* Stream::Shutdown of the sending side.                                     *)
Shutdown(e) ==
    /\ "shutdown" \in plan.calls[e]
    /\ Connected(e) /\ ~conn[e].finq
    /\ Call(e, Finish(conn[e])) /\ UNCHANGED guest

(* Stream::Close: a reset when the guest asks for one, when data is left to  *)
(* read, or when there is no connection yet.                                 *)
Close(e, abort) ==
    /\ (IF abort THEN "abort" ELSE "close") \in plan.calls[e]
    /\ ~closed[e] /\ (conn[e].active \/ conn[e].connected)
    /\ closed' = [closed EXCEPT ![e] = TRUE]
    /\ LET reset == abort \/ conn[e].recv # <<>> \/ Connecting(conn[e])
       IN  Settle(e, IF reset THEN Abort(conn[e]) ELSE Finish(conn[e]), net)
    /\ UNCHANGED guest

(* FlushStreams: a closed socket's connection that does not end is reset.    *)
(* Mutant: but for one whose FIN is acknowledged.                            *)
OrphanedHalf(e) ==
    closed[e] /\ conn[e].state \notin {"Closed", "TimeWait", "FinWait2"}
Orphaned(e) == closed[e] /\ conn[e].state \notin {"Closed", "TimeWait"}

Orphan(e) ==
    /\ Orphaned(e)
    /\ Call(e, Abort(conn[e])) /\ UNCHANGED guest

(* Retire: the association is gone and nothing reaches the peer any more.    *)
Retire(e) ==
    /\ "retire" \in plan.calls[e]
    /\ conn[e].state # "Closed"
    /\ Call(e, Detach(conn[e])) /\ UNCHANGED guest

Next ==
    \E e \in Ends :
        \/ Connect(e) \/ Deliver(e) \/ Repeat(e) \/ Lose(e)
        \/ TickStreams(e) \/ Send(e) \/ Receive(e) \/ ReceiveNothing(e)
        \/ Shutdown(e) \/ (\E abort \in BOOLEAN : Close(e, abort))
        \/ Orphan(e) \/ Retire(e)

Spec == Init /\ [][Next]_vars

(* The System Link's worker ticks the streams and takes what arrives; the    *)
(* guests read what there is.  Nothing is assumed of the network.            *)
FairSpec ==
    /\ Spec
    /\ \A e \in Ends : /\ WF_vars(TickStreams(e))
                       /\ WF_vars(Receive(e)) /\ WF_vars(ReceiveNothing(e))
                       /\ WF_vars(Orphan(e))

(* Properties.                                                               *)

ByteOf(e, k) == Tagged(1, k)

(* The contract of the stream: what is read is what was written, and the end *)
(* comes after the last byte.  Where the ends open connections anew the      *)
(* contract is not told of them, and OneWriter says what holds.              *)
OpenOnce == \A e \in Ends : plan.opens[e] = 1
Once(f, blank) == IF OpenOnce THEN f ELSE [e \in Ends |-> blank]
Contract == INSTANCE ReliableStream
              WITH Byte <- ByteOf,
                   written <- Once(written, 0),
                   taken <- Once([e \in Ends |-> taken[e][1]], <<>>),
                   finished <- Once([e \in Ends |-> conn[e].finq], FALSE),
                   outcome <- Once(outcome, "open")
StreamKept == Contract!Spec

Received(e, n) == taken[e][n] \o (IF n = opens[e] THEN conn[e].recv ELSE <<>>)

(* Whatever a connection received is one connection's bytes from the first   *)
(* one on, and no two connections receive the same: segments of an earlier   *)
(* connection on the same ports, repeated or late, never end up in a later   *)
(* one, nor make one of their own.                                           *)
OneWriter ==
    \A e \in Ends :
        \E writer \in [1 .. opens[e] -> 1 .. opens[Peer(e)]] \cup {<<>>} :
            \A n \in {m \in 1 .. opens[e] : Received(e, m) # <<>>} :
                /\ n \in DOMAIN writer
                /\ \A k \in 1 .. Len(Received(e, n)) :
                     Received(e, n)[k] = Tagged(writer[n], k)
                /\ \A m \in 1 .. n - 1 :
                     Received(e, m) # <<>> => writer[m] # writer[n]

(* A byte leaves the send buffer only once the other end has it (said of     *)
(* ends that open once, so that the two are of one connection).              *)
ReleasedIsReceived ==
    \A e \in Ends :
        LET p == Peer(e)
        IN  (OpenOnce /\ conn[e].state # "Closed" /\ conn[p].state # "Closed") =>
               written[e] - Len(conn[e].send) <= Len(Received(p, opens[p]))

(* The receive buffer never overflows, whatever comes beyond the window, in   *)
(* whatever order: Accept joins early segments only as far as they fit.       *)
ReceiveFits == \A e \in Ends : Len(conn[e].recv) <= Buffer

(* And nothing but the byte of a probe and the FIN goes past the window the   *)
(* other end announced while that end sends nothing of its own.  When it      *)
(* does, an older segment sent again carries a newer acknowledgement, which   *)
(* moves una, but not the window (IsLatest): the edge moves past the one      *)
(* announced, and the other end trims what exceeds its buffer.                *)
WindowKept ==
    /\ ReceiveFits
    /\ \A e \in Ends :
         LET p == Peer(e)
         IN  (/\ OpenOnce /\ Synchronized(conn[e]) /\ Synchronized(conn[p])
              /\ written[p] = 0 /\ ~conn[p].finq) =>
                ~Before(Plus(conn[p].adv, 1), conn[e].max)

(* What is written does not stay in the send buffer for good: it is          *)
(* acknowledged or the connection ends, whatever the network does.           *)
SendSettles == \A e \in Ends : []<>(conn[e].send = <<>>)

(* A connection ends after its guest has closed the socket.                  *)
CloseEnds == \A e \in Ends : closed[e] ~> conn[e].state = "Closed"

=============================================================================
