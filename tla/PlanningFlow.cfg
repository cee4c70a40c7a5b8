SPECIFICATION FairSpec
CONSTANTS
  N = 4
  HasSkill <- MCHasSkill
  Request = {r1, r2}
  Operator = Operator
  MaxRewrites = 1
  MayReset = TRUE
INVARIANTS
  DoneMeansPassed
  PriorDocsAreEarlier
PROPERTIES
  AuthorsAreAnswered
