------------------------- MODULE MCCooperativeWait -------------------------
(***************************************************************************)
(* Small instances of the waits for TLC.                                   *)
(***************************************************************************)
EXTENDS CooperativeWait

CONSTANTS t1, t2, s1, s2

=============================================================================
