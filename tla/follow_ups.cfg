SPECIFICATION FairSpec
CONSTANTS
  mail = mail
  junk = junk
  Mails = {mail, junk}
  Spam = {junk}
  Body <- Texts
  Reply <- Replies
  Syncs = {"worker", "web"}
  Worker = "worker"
  Limit = 1
  PageSize = 1
  ForeignKeys = TRUE
  Today0 <- Starts
  MaxDays = 1
  MaxConns = 2
  MaxRows = 4
  MaxCalls = 1
  MaxCrashes = 1
INVARIANTS ListIsTrue
PROPERTIES LateIsShown KeepsTheList PromisesGetListed
CHECK_DEADLOCK FALSE
