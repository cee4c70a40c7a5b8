SPECIFICATION FairSpec
CONSTANTS
  a = a
  b = b
  c = c
  d = d
  e = e
  NoStory = NoStory
  Story <- MCStory
  DependsOn <- MCDependsOn
  Class <- MCClass
  Epic <- MCEpic
  Rank <- MCRank
  Overlap <- MCOverlap
  RunBudget = 4
  MaxCalls = 3
INVARIANTS
  WritersDisjoint
  StartsWithinBudget
PROPERTIES
  NeverRestarted
  CallSettles
\* a call that hangs is CallSettles's to find
CHECK_DEADLOCK FALSE
