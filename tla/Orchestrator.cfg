SPECIFICATION Spec
CONSTANTS
  a = a
  b = b
  c = c
  d = d
  NoStory = NoStory
  Story <- MCStory
  DependsOn <- MCDependsOn
  Rank <- MCRank
  AttemptBudget <- MCAttemptBudget
  RunBudget = 21
  Backlog = {"todo", "ready", "blocked", "escalated", "done"}
INVARIANTS
  DoneThroughChain
  EscalationEarned
  GateHolds
  DecisionsInBudget
  CompleteLeavesOnlyCycles
PROPERTIES
  ImplementsLifecycle
