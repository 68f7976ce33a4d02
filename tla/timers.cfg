SPECIFICATION FairSpec

CONSTANTS
  t1 = t1
  t2 = t2
  c1 = c1
  c2 = c2
  None = None
  Timers = {t1, t2}
  Threads = {c1, c2}
  MaxSettings = 2
  MaxClock = 2
  Delays = {0, 1}
  RingSize = 1
  Plans <- AllPlans

CHECK_DEADLOCK FALSE

INVARIANTS
  ExpiryIsCurrent

PROPERTIES
  TimersFire
