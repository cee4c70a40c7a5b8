SPECIFICATION Spec
CONSTANTS
  harness = harness
  console = console
  s1 = s1
  s2 = s2
  t1 = t1
  t2 = t2
  None = None
  Harness = harness
  Console = console
  Stories = {s1}
  Targets = {t1}
  MaxLines = 3
INVARIANTS
  EventsHaveParents
  TraceTellsDisk
CHECK_DEADLOCK FALSE
