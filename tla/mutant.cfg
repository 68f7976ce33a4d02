SPECIFICATION Spec

CONSTANTS
  t1 = t1
  t2 = t2
  t3 = t3
  Threads = {t1, t2, t3}
  Leavers = {t2, t3}
  Victims = {t1}
  MaxDepth = 2
  Guests = {{}, {"pointer", "reinit"}}
  None = None

SYMMETRY Symmetry
CHECK_DEADLOCK FALSE

INVARIANTS
  OneToken
  HoldersOwn
  AbandonmentReported
  NeverLost
