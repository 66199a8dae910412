SPECIFICATION Spec
CONSTANTS
  i1 = i1
  i2 = i2
  t1 = t1
  t2 = t2
  Instances = {i1, i2}
  Server = i1
  Tables = {1, 2}
  Altered = 1
  Versions = {1, 2, 3}
  MaxCrashes = 1
  Threads = {t1, t2}
  Limit = 2
  Results <- SomeResults
  Threshold = 2
  MaxRequests = 2
  MaxNow = 1
INVARIANTS  EpisodeKept ReadyMeansMigrated
PROPERTIES BecomesReady
CHECK_DEADLOCK FALSE
