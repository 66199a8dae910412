SPECIFICATION Spec
CONSTANTS
  Messages = {m1}
  Decision <- ReplyAll
  SenderRole <- OneRole
  EscalateTo <- LegalTeam
  Reviewers = {v1, v2}
  Syncers = {"worker"}
  Worker = "worker"
  Ids = {1, 2, 3, 4}
  Draft = "draft"
  Edits = {"edit"}
  Faults = {"refused"}
  MAX_SEND_RETRIES = 1
  MIN_DECISIONS = 2
  MaxCrashes = 0
SYMMETRY ReviewerSymmetry
INVARIANTS HumanGate RecordedTextWasSent SentPromiseIsOwed
