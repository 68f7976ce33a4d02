SPECIFICATION Spec

CONSTANTS
  c1 = c1
  c2 = c2
  t1 = t1
  t2 = t2
  k1 = k1
  k2 = k2
  o1 = o1
  None = None
  Cpus = {c1}
  Threads = {t1, t2}
  Callers = {k1, k2}
  Objects = {o1}
  Starts <- OnFirstCpu
  MaxLevel = 1
  BackgroundLevels = {0}
  BackgroundCpus = {c1}
  MaxSuspend = 1
  Plans <- OneCpu

SYMMETRY Symmetry
CHECK_DEADLOCK FALSE

INVARIANTS
  SummaryExact
  InOnePlace
  NotStranded
  NoLostSignal
  NoLostWork
