SPECIFICATION Spec
CONSTANTS
  m1 = m1
  m2 = m2
  m3 = m3
  p1 = p1
  p2 = p2
  consumer = consumer
  MemberIds = {m1, m2, m3}
  Protocols = {p1, p2}
  ProtocolTypes = {consumer}
  None = None
  MaxRequests = 4
  MaxCrashes = 1
SYMMETRY Symmetry
INVARIANT LeaderIsMember
INVARIANT TimersMatchState
INVARIANT ParkedAreMembers
INVARIANT OneLeaderPerGeneration
INVARIANT AssignmentsOfOneGeneration
INVARIANT StableIsStored
INVARIANT CommittedIsStored
INVARIANT SupportedByEachMember
INVARIANT StableIsWatched
PROPERTY Lifecycle
CHECK_DEADLOCK FALSE
