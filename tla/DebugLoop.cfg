SPECIFICATION Spec
CONSTANTS
  s1 = s1
  s2 = s2
  s3 = s3
  s4 = s4
  NoSignal = NoSignal
  Signal = {s1, s2, s3, s4}
  Overlap <- MCOverlap
  MaxAttempts = 3
  MaxGenes = 2
  MaxLoops = 5
INVARIANTS
  Selective
  FailuresAreCounted
  FirstOrTurnedAway
  AnswerFitsAttempts
\* no loop begins after the last of the bound
CHECK_DEADLOCK FALSE
