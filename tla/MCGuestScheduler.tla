-------------------------- MODULE MCGuestScheduler --------------------------
(***************************************************************************)
(* Small instances of the guest scheduler for TLC.                         *)
(***************************************************************************)
EXTENDS GuestSchedulerProperties, TLC

CONSTANTS c1, c2, t1, t2, k1, k2, o1

OnFirstCpu == Threads \X {c1} \X Levels
OneAbove   == {<<t1, c1, 1>>, <<t2, c1, 0>>}

Plan(calls, guestOps) == [calls |-> calls, guestOps |-> guestOps]

(* On one CPU: threads suspended and resumed, also by themselves, while    *)
(* their priorities change; and gated waiters, signalers and background    *)
(* windows.                                                                *)
Suspending == Plan({"setpriority", "suspend", "resume", "createSuspended"},
                   {"yield", "suspendself", "resumeself"})
Signaling  == Plan({"signal", "wakeall", "background"}, {"wait", "delay", "poll"})

(* On two CPUs: threads moved between them, and threads that end, crash or *)
(* are terminated until a shutdown.                                        *)
Moving == Plan({"setcpu", "resume", "suspend"}, {"yield"})
Ending == Plan({"createSuspended", "terminate", "shutdown"},
               {"wait", "exit", "exitYield", "fence", "crash"})

(* A spinner above a waiter that is signaled and terminated.               *)
Spinning == Plan({"signal", "terminate", "createSuspended"}, {"wait", "yield"})

(* Two plans of which the code does not keep what its comments say.        *)
Reviving     == Plan({"resume", "suspend"}, {"exit"})
ResumingSelf == Plan({"setcpu", "suspend"}, {"yield", "resumeself"})

OneCpu     == {Suspending, Signaling}
TwoCpus    == {Moving, Ending}
Spinner    == {Spinning}
Zombie     == {Reviving}
SelfResumes == {ResumingSelf}

Symmetry == Permutations(Threads) \cup Permutations(Callers) \cup Permutations(Objects)

=============================================================================
