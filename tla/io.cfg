SPECIFICATION FairSpec

CONSTANTS
  t1 = t1
  t2 = t2
  f1 = f1
  w1 = w1
  w2 = w2
  sw = sw
  e1 = e1
  e2 = e2
  Threads = {t1, t2}
  Files = {f1}
  Workers = {w1, w2}
  Serial = sw
  Events = {e1, e2}
  MaxPosts = 1
  Plans <- AllPlans
  None = None

CHECK_DEADLOCK FALSE

INVARIANTS
  OneRunnerPerFile
  FrameOutlivesCall
  NoCallHeldUp

PROPERTIES
  CallsComplete
  ShutdownEnds
