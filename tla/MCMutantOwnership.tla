------------------------- MODULE MCMutantOwnership -------------------------
(***************************************************************************)
(* Small instances of mutant ownership for TLC.                            *)
(***************************************************************************)
EXTENDS MutantOwnership, TLC

CONSTANTS t1, t2, t3

(* Threads that exit are alike, and so are those that never end, as long   *)
(* as the victims are among neither.                                       *)
Symmetry ==
  {f @@ g : f \in Permutations(Leavers),
            g \in Permutations(Threads \ (Leavers \cup Victims))}

=============================================================================
