SPECIFICATION Spec
CONSTANTS
  Threads = {t1, t2}
  Nobody = Nobody
  Ids = {1, 2, 3}
  Buffers = {1, 2, 3}
  Client <- MCClient
  Jobs <- MCJobs
  StartTree <- MCStartTree
  LogIds = {1, 2}
  checkpointDir = "ckp"
  maxTries = 2
  MaxEvents = 6
SYMMETRY Symmetry
CHECK_DEADLOCK FALSE
INVARIANTS
  BufferOutlivesCallback
  OutcomeIsOwn
  CreatedIsVisible
  
  AckedIsStored
