SPECIFICATION FairSpec
CONSTANTS
  m1 = m1
  m2 = m2
  p1 = p1
  consumer = consumer
  MemberIds = {m1, m2}
  Protocols = {p1}
  ProtocolTypes = {consumer}
  None = None
  MaxRequests = 4
  MaxCrashes = 1
PROPERTY JoinIsAnswered
CHECK_DEADLOCK FALSE
