SPECIFICATION FairSpec
CONSTANTS
  Nodes = {n1, n2}
  Gone = {}
  unhealthy_node_limit = 0
  Writers = {w1}
  Absent = Absent
  MaxOutages = 2
  MaxWrites = 2
  MaxFaults = 1
INVARIANTS
  NoFalseAlarm
  
  DumpsInOrder
  NothingLostQuietly
 
