SPECIFICATION RuntimeSpec
CONSTANTS
  w1 = w1
  w2 = w2
  w3 = w3
  w4 = w4
  NoWriter = NoWriter
  Writers <- MCWriters
  MaxAttempts = 2
  MaxCrashes = 1
  c1 = c1
  c2 = c2
  Callers <- MCCallers
  MaxFailures = 1
  MaxRaises = 1
  Calls <- TwoCalls
  Kind <- KindOfCall
  Events <- TwoEvents
  Publishers <- TwoPublishers
  Batch <- BatchOf
  Silent <- SecondIsSilent
  p1 = p1
  p2 = p2
  e1 = e1
  e2 = e2
  QueueLimit = 2
  Retries = 1
  KeysKept = 128
  OutcomesKept = 32
INVARIANTS
  SaveIsCurrent
  AnswerIsFresh
  ShutdownIsQuiet
  
PROPERTIES
  ImplementsAtomicUpdate
  EveryRequestAnswered
  EverythingReturns
CHECK_DEADLOCK FALSE
