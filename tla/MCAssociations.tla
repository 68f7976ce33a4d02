--------------------------- MODULE MCAssociations ---------------------------
EXTENDS Associations

Plan(faulty, generations, sequence, packets, most, capacity) ==
    [faulty |-> faulty, generations |-> generations, sequence |-> sequence,
     packets |-> packets, restarts |-> most, capacity |-> capacity]

(* Titles that connect, send and close, on a network that repeats and loses. *)
Sending == Plan(TRUE, 2, 2, 1, 0, 1)
(* Requests and answers that overtake each other.                            *)
Asking == Plan(TRUE, 2, 2, 0, 0, 2)
(* A console that restarts.                                                  *)
Restarting == Plan(FALSE, 6, 6, 0, 1, 3)

AllPlans == {Sending, Asking, Restarting}

=============================================================================
