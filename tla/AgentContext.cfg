CONSTANTS
  Skills = {"lazy", "own"}
  Shipped <- MCShipped
  DependsOn <- MCDependsOn
  MaxOps = 2
  Files = {"app", "lib"}
  TypesOnly = {}
  Sections = 1
  KeepFirst = 2
  KeepLast = 1
  NodeMax = 1
  ChainMax = 4
  SlideMax = 1
  SkillBudget = 2
  Intents = {"login"}
  TestRuns <- MCTestRuns
  RawReports <- MCRawReports
  Code0 <- MCCode
  TurnKinds <- MCTurnKinds
  Contracts <- MCContracts
  Machines <- MCMachines
  Modes = {"patch"}
  Docs = {"as-is/ARCHITECTURE.md"}
  Frontend = {"app"}
  Backend = {"lib"}
  Plain = {"app", "lib"}
  Genes = {"late"}
  EveryContract = 2
  EveryRules = 3
  MaxPasses = 1
  MaxCalls = 3
  MaxCompactions = 2
  MaxStories = 2
SPECIFICATION ContextSpec
CHECK_DEADLOCK FALSE
INVARIANTS
  BuiltinsSurvive
  EndsVerbatim
PROPERTIES
  PreservesDependents
