SPECIFICATION FairSpec

CONSTANTS
  a = a
  b = b
  A = a
  B = b
  Ends = {a, b}
  Openers = {a}
  Listeners = {b}
  InitialSequence <- MCInitialSequence
  Modulus = 16
  Buffer = 1
  Mss = 1
  SynRetries = 0
  Retries = 1
  DuplicateAcks = 1
  EarlyLimit = 2
  Plans <- Closing
  MaxOpens = 1
  Capacity = 1

CHECK_DEADLOCK FALSE

PROPERTIES
  SendSettles
  CloseEnds
