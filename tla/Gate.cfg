SPECIFICATION FairSpec
CONSTANTS
  r1 = r1
  r2 = r2
  r3 = r3
  ci = ci
  Run = {r1, r2, ci}
  InCI = {ci}
  CiOverride = TRUE
  Ceiling = 1
  IOFaults = TRUE
  Crashes = TRUE
INVARIANTS
  OpenIsOwned
PROPERTIES
  GateCloses
