SPECIFICATION FairSpec
CONSTANTS
  Jobs = {"worker", "web"}
  Worker = "worker"
  MaxIds = 2
  MaxGrants = 2
  ForeignKeys = TRUE
  MaxCrashes = 1
INVARIANTS RowsOfOneMailbox 
 
CHECK_DEADLOCK FALSE
