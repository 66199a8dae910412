SPECIFICATION EnvSpec
CONSTANTS
  p1 = p1
  p2 = p2
  Players = {p1, p2}
  Mails = {1, 2}
  Facts <- ScenarioFacts
  Cost <- ActionCosts
  Budget = 3
  Menu <- AgentMenu
  MaxSteps = 5
  MaxResets = 1
 
PROPERTIES  EpisodeEnds
CHECK_DEADLOCK FALSE
