SPECIFICATION Spec
CONSTANTS
  c1 = c1
  c2 = c2
  e1 = e1
  e2 = e2
  p1 = p1
  p2 = p2
  Clients = {c1, c2}
  Emails = {e1}
  Passwords = {p1}
  Random = Random
  MaxId = 2
  MaxNow = 2
  SessionTtl = 2
  ResetTtl = 1
  StateTtl = 1
  ConnectTtl = 1
  FormTtl = 1
  MaxTokens = 1
SYMMETRY Symmetry
INVARIANTS AccountsHold
PROPERTIES ActsWithinSession ConnectsWhoAsked PasswordByProof
CHECK_DEADLOCK FALSE
