SPECIFICATION Spec
CONSTANTS
  Logs <- SingleRecords
  W = 8
  MaxLSN = 2
  Nothing = Nothing
  Handlers = {h1}
  MaxRead = 1
  MaxAcks = 1
  MaxUnacked = 2
  FailedArrives = FALSE
  MaxForgotten = 1
  MaxCrashes = 0
INVARIANT ResendIsRetried
