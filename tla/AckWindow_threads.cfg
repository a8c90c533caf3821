SPECIFICATION Spec
CONSTANTS
  Logs <- MixedLogs
  W = 8
  MaxLSN = 2
  Nothing = Nothing
  Handlers = {h1, h2}
  MaxRead = 2
  MaxAcks = 2
  MaxUnacked = 2
  FailedArrives = TRUE
  MaxForgotten = 1
  MaxCrashes = 1
CONSTRAINT AcksInOrder
SYMMETRY Symmetry
INVARIANTS
  RangesAreAcked
  CheckpointCoversOnlyAcked
  EndsAreKnown
  UnackedWaitsForResend
  UnackedCountIsExact
  WindowKeepsUp
CHECK_DEADLOCK FALSE
