SPECIFICATION Spec

CONSTANTS
  c1 = c1
  c2 = c2
  t1 = t1
  t2 = t2
  k1 = k1
  k2 = k2
  o1 = o1
  None = None
  Cpus = {c1, c2}
  Threads = {t1, t2}
  Callers = {k1}
  Objects = {o1}
  Starts <- OnFirstCpu
  MaxLevel = 0
  BackgroundLevels = {}
  BackgroundCpus = {}
  MaxSuspend = 1
  Plans <- TwoCpus

SYMMETRY Symmetry
CHECK_DEADLOCK FALSE

INVARIANTS
  OneOwner
  YielderIsQueued
  ReclaimedIsGone
  NotStranded
  ShutdownReclaims
