SPECIFICATION FairSpec

CONSTANTS
  low = low
  high = high
  Low = low
  High = high
  Retries = 1
  Window = 2
  Ahead = 3
  LowModulus = 4
  PendingLimit = 2
  Rooms = {1}
  Plans <- AllPlans

CHECK_DEADLOCK FALSE

INVARIANTS
  AtMostOnce
  OwedIsPending
  OwnerKnows

PROPERTIES
  NeverRekeyed
  Meets
