SPECIFICATION FairSpec
CONSTANTS
  Syncs = {s1, s2}
  Messages = {m1}
  None = None
  Authored = {m1}
  Limit = 2
  Costs = {2}
  MaxCost = 2
  MaxFaults = 1
INVARIANTS MonthBounded PaidOnce DirtyUntilSaved
PROPERTIES HeldDespiteBudget
