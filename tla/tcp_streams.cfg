SPECIFICATION Spec

CONSTANTS
  a = a
  b = b
  A = a
  B = b
  Ends = {a, b}
  Openers = {a}
  Listeners = {b}
  InitialSequence <- MCInitialSequence
  Modulus = 16
  Buffer = 2
  Mss = 2
  SynRetries = 0
  Retries = 1
  DuplicateAcks = 1
  EarlyLimit = 2
  Plans <- StreamsAndReopens
  MaxOpens = 2
  Capacity = 2

CHECK_DEADLOCK FALSE

INVARIANTS
  OneWriter
  ReleasedIsReceived
  WindowKept

PROPERTIES
  StreamKept
