---------------------------- MODULE MCIoWorkers ----------------------------
(***************************************************************************)
(* Small instances of the I/O workers for TLC.                             *)
(***************************************************************************)
EXTENDS IoWorkers

CONSTANTS t1, t2, f1, w1, w2, sw, e1, e2

Plan(callers, posters, concurrent, alerts, ends, pool) ==
  [callers |-> callers, posters |-> posters, concurrent |-> concurrent,
   alerts |-> alerts, ends |-> ends, pool |-> pool]

(* Requests of two threads on one file, which they also cancel.            *)
Requesting == Plan({t1}, {t1, t2}, {f1}, FALSE, TRUE, {w1})
(* Synchronous calls of two threads, for the serial worker or for the pool.*)
Serially   == Plan({t1, t2}, {}, {}, TRUE, TRUE, {})
Together   == Plan({t1, t2}, {}, {f1}, TRUE, FALSE, {w1, w2})

AllPlans == {Requesting, Serially, Together}

=============================================================================
