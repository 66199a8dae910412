SPECIFICATION FairSpec
CONSTANTS
  Messages = {m1}
  Decision <- ReplyAll
  SenderRole <- OneRole
  EscalateTo <- LegalTeam
  Reviewers = {v1}
  Syncers = {"worker"}
  Worker = "worker"
  Ids = {1, 2, 3, 4}
  Draft = "draft"
  Edits = {"edit"}
  Faults = {"refused", "lost"}
  MAX_SEND_RETRIES = 1
  MIN_DECISIONS = 1
  MaxCrashes = 1
INVARIANTS ProposedOnce
PROPERTIES DecidedOnce FailedSendsResolve
