SPECIFICATION Spec
CONSTANTS
  Null = Null
  Text = Text
  num_threads = 3
  Nodes = {0, 1}
  Replies <- MCReplies
  Constraints <- MCConstraints
  TTLs = {0, 1}
  MAX_FETCHES = 0
  MaxTime = 1
  MaxQueries = 2
  MaxCalls = 3
INVARIANTS
  TypeOK
  NoRowLost
  FailuresAreReported
  AnswerIsFresh
  EverythingIsFetchedOnce
CHECK_DEADLOCK FALSE
