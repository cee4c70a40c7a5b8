SPECIFICATION Spec
CONSTANTS
  s1 = s1
  s2 = s2
  w1 = w1
  w2 = w2
  live = live
  fake = fake
  env = env
  None = None
  Slots = {s1, s2}
  Workers = {w1, w2}
  Providers = {live, fake, env}
  BootOrder <- MCBoot
  ApiKeyed = {live}
  Routing <- MCRouting
  Overrides <- MCOverrides
  Parsed <- MCParsed
  Agents = {"developer", "debugger"}
  TaskClasses = {"patch", "review"}
  TotalCalls = 3
  TotalTokens = 4
  MaxWorkers = 2
  MaxUsage = 2
  Models <- MCModels
  RouterTasks <- MCTasks
  Complexities = {1, 3}
  Lambdas = {0, 1, 2}
  TierOf <- MCTiers
  Failures = {0, 2}
  Policy <- MCPolicy
SYMMETRY Perms
INVARIANTS
  OvershootBounded
  RouterIsMonotone
PROPERTIES
  KilledStaysSilent
CHECK_DEADLOCK FALSE
