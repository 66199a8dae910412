SPECIFICATION AgentSpec
CONSTANTS
  t1 = t1
  t2 = t2
  Threads = {t1, t2}
  Mails = {1, 2, 3}
  Facts <- ScenarioFacts
  Interval = 2
  MaxEntries = 1
  Menu <- ModelMenu
  Setups <- SomeSetups
  MaxSteps <- StepsAsked
  SharedSteps = 1
  MaxRuns = 2
INVARIANTS DecisionsHold InboxIsWorked
PROPERTIES RunsEnd
CHECK_DEADLOCK FALSE
