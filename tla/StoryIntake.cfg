CONSTANTS
  Ideas <- MCIdeas
  Reports = 1
  Messages <- MCMessages
  Holdable <- MCHoldable
  Waved <- MCWaved
  MaxWip = 1
  IterationBudget = 12
  RequiredChecks = {"test"}
  HasCoverage = FALSE
  OldTests = {40}
  MaxExtra = 1
  Restartable <- MCRestartable
  Breakable <- MCBreakable
  MaxTasks = 2
SPECIFICATION IntakeSpec
CHECK_DEADLOCK FALSE
INVARIANTS
  PlannedWritersApart
  SubtasksNeverStuck
PROPERTIES
  
  PlanDrains
