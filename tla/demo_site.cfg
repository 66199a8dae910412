SPECIFICATION Spec
CONSTANTS
  t1 = t1
  t2 = t2
  b1 = b1
  NBoxes = 2
  MaxOrgs = 4
  Interval = 1
  MaxNow = 1
  MaxFaults = 1
  Windows = {t1, t2}
  MaxActors = 2
  Browsers = {b1}
  Lifetime = 1
  MaxLive = 1
INVARIANTS SandboxesHold
PROPERTIES DeletedWhenDue SyncedWhenDue
CHECK_DEADLOCK FALSE
