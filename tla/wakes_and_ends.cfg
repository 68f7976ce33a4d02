SPECIFICATION SpinnerSpec

CONSTANTS
  c1 = c1
  c2 = c2
  t1 = t1
  t2 = t2
  k1 = k1
  k2 = k2
  o1 = o1
  None = None
  Cpus = {c1}
  Threads = {t1, t2}
  Callers = {k1}
  Objects = {o1}
  Starts <- OneAbove
  MaxLevel = 1
  BackgroundLevels = {0}
  BackgroundCpus = {}
  MaxSuspend = 1
  Plans <- Spinner

CHECK_DEADLOCK FALSE

PROPERTIES
  SignaledIsReadied
  TerminatedIsReclaimed
  QueuedIsDispatched
