SPECIFICATION Spec
CONSTANTS
  m1 = m1
  m2 = m2
  p1 = p1
  p2 = p2
  consumer = consumer
  MemberIds = {m1, m2}
  Protocols = {p1, p2}
  ProtocolTypes = {consumer}
  None = None
  MaxRequests = 3
  MaxCrashes = 0
SYMMETRY Symmetry
INVARIANT VotingNeverThrows
CHECK_DEADLOCK FALSE
