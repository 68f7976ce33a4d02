SPECIFICATION FairSpec

CONSTANTS
  t1 = t1
  t2 = t2
  s1 = s1
  s2 = s2
  Kinds = {"semaphore", "autoEvent", "manualEvent"}
  Limit = 1
  Initial = {0}
  Threads = {t1, t2}
  Multi = {t2}
  Impatient = {t1}
  Victims = {t2}
  Signalers = {s1, s2}
  Ops = {"release", "set", "reset", "pulse", "write"}

CHECK_DEADLOCK FALSE

INVARIANTS
  Conserved
  NoStealing
  NothingMissed
  NoPulseMissed

PROPERTIES
  FrontIsServed
