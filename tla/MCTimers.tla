------------------------------ MODULE MCTimers ------------------------------
(* Small instances of the timers for TLC.                                    *)
EXTENDS Timers

CONSTANTS t1, t2, c1, c2

Plan(timers, settings, callers, calls, intervals, disarms) ==
    [timers |-> timers, settings |-> settings, callers |-> callers,
     calls |-> calls, intervals |-> intervals, disarms |-> disarms]

(* Two threads set and cancel a timer object, one sets and cancels a KTIMER  *)
(* and one sets two timers that recur.                                       *)
Contended == Plan({t1}, 2, {c1, c2}, "Nt", {0, 1}, TRUE)
Kernels == Plan({t1}, 2, {c1}, "Ke", {0, 1}, FALSE)
Several == Plan({t1, t2}, 1, {c1}, "Nt", {1}, FALSE)

AllPlans == {Contended, Kernels, Several}

=============================================================================
