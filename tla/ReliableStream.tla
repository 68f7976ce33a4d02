---------------------------- MODULE ReliableStream ----------------------------
(* What a connection promises to the guests at its two ends, whatever the    *)
(* network between them loses, repeats or reorders: each end reads what the  *)
(* other wrote, from the first byte on, in order, nothing twice; it is told  *)
(* that there is no more only when there is no more; and it reads nothing    *)
(* after that, or after an error.  This is the contract of the socket calls  *)
(* on a stream (net/system_link.cc), and says nothing of how it is kept.     *)
EXTENDS Naturals, Sequences, SequencesExt

CONSTANTS
    Ends,           \* the two ends
    Peer(_),        \* the other end
    Byte(_, _)      \* the k-th byte an end writes

VARIABLES
    written,        \* per end, how many bytes its guest wrote
    taken,          \* per end, the bytes its guest read, in order
    finished,       \* per end, its guest will write no more
    outcome         \* per end, what its guest was told last: "open" while it
                    \* may read, "end" after the last byte, or "error"

streamVars == <<written, taken, finished, outcome>>

Stream(e) == [k \in 1 .. written[e] |-> Byte(e, k)]

Init ==
    /\ written = [e \in Ends |-> 0]
    /\ taken = [e \in Ends |-> <<>>]
    /\ finished = [e \in Ends |-> FALSE]
    /\ outcome = [e \in Ends |-> "open"]

Write(e, n) ==
    /\ ~finished[e]
    /\ written' = [written EXCEPT ![e] = @ + n]
    /\ UNCHANGED <<taken, finished, outcome>>

Finish(e) ==
    /\ finished' = [finished EXCEPT ![e] = TRUE]
    /\ UNCHANGED <<written, taken, outcome>>

Read(e) ==
    /\ outcome[e] = "open"
    /\ IsStrictPrefix(taken[e], taken'[e]) /\ IsPrefix(taken'[e], Stream(Peer(e)))
    /\ taken' = [taken EXCEPT ![e] = taken'[e]]
    /\ UNCHANGED <<written, finished, outcome>>

ReadEnd(e) ==
    /\ outcome[e] = "open"
    /\ finished[Peer(e)] /\ taken[e] = Stream(Peer(e))
    /\ outcome' = [outcome EXCEPT ![e] = "end"]
    /\ UNCHANGED <<written, taken, finished>>

ReadError(e) ==
    /\ outcome[e] = "open"
    /\ outcome' = [outcome EXCEPT ![e] = "error"]
    /\ UNCHANGED <<written, taken, finished>>

Next ==
    \E e \in Ends :
        \/ \E n \in 1 .. written'[e] - written[e] : Write(e, n)
        \/ Finish(e) \/ Read(e) \/ ReadEnd(e) \/ ReadError(e)

Spec == Init /\ [][Next]_streamVars

=============================================================================
