SPECIFICATION Spec
CONSTANTS
  Nodes = {n1, n2, n3}
  Gone = {n4}
  unhealthy_node_limit = 1
  Writers = {w1}
  Absent = Absent
  MaxOutages = 1
  MaxWrites = 1
  MaxFaults = 1
INVARIANT UnreachableIsUnhealthy
