---------------------------- MODULE MCTcpStreams ----------------------------
EXTENDS TcpStreams

CONSTANTS A, B

Both(a, b) == (A :> a) @@ (B :> b)
Plan(n, total, calls, repeats) ==
    [opens |-> n, total |-> total, calls |-> calls, repeats |-> repeats]

(* One stream, of which one end or both finish sending.                      *)
Streaming == {Plan(Both(1, 1), Both(3, 0), Both({"shutdown"}, {}), FALSE)}

(* A second connection on the ports of the first, whose segments are still   *)
(* under way.                                                                *)
Reopening ==
    {Plan(Both(1, 2), Both(1, 0), Both({}, {"retire"}), TRUE),
     Plan(Both(2, 1), Both(1, 0), Both({"retire"}, {}), TRUE)}

StreamsAndReopens == Streaming \cup Reopening

(* One end closes its socket.                                                *)
Closing == {Plan(Both(1, 1), Both(2, 0), Both({"close"}, {}), FALSE)}

(* Near the wrap of the sequence numbers, and far from the earlier ones.     *)
MCInitialSequence ==
    LET apart == Modulus \div 4
    IN  (A :> [n \in 1 .. MaxOpens |-> (Modulus - 2 + (n - 1) * apart) % Modulus])
     @@ (B :> [n \in 1 .. MaxOpens |-> (Modulus - 3 + (n - 1) * apart) % Modulus])

=============================================================================
