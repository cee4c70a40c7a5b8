SPECIFICATION ProjectSpec
CONSTANTS
  a = a
  b = b
  c = c
  d = d
  e1 = e1
  e2 = e2
  api = api
  config = config
  None = None
  Torn = Torn
  Stories = {a, b, c, d}
  Epics = {e1, e2}
  EpicOf <- MCEpicOf
  DependsOn <- MCDependsOn
  Rank <- MCRank
  NeedsRealApi = {d}
  Produces <- MCProduces
  Window = 2
  RunBudget = 5
  AttemptBudget = 2
  Cap = 3
  MaxCost = 1
  MaxRework = 1
  MaxSessions = 3
  Legacy = TRUE
INVARIANTS
  BudgetsAreDurable
  TrendIsHeeded
  StopsOnEvidence
PROPERTIES
  SavedStaysSaved
CHECK_DEADLOCK FALSE
