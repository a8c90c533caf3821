CONSTANTS
  Threads = {t1, t2}
  Keys = {k1, k2}
  Dead = Dead
  Absent = Absent
  Nobody = Nobody
  Gauges = {0, 2}
  MaxOps = 3
SPECIFICATION Spec
INVARIANT AccountedOnce
INVARIANT ErasedKeyStaysGone
INVARIANT OwnerOutlivesThreads
