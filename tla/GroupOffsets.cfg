SPECIFICATION Spec
CONSTANTS
  Absent = Absent
  Topics = {ta, tb}
  Offsets = {1, 2}
  MaxPartitions = 2
  MaxLogs = 2
  MaxCommits = 2
  MaxCrashes = 1
  MaxFaults = 1
INVARIANTS
  StoredOffsetsSurvive
  LoadedAnswersCommitted
  VisibleIsDurable
PROPERTY StoredIsLoaded
