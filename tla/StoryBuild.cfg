CONSTANTS
  src = src
  lib = lib
  check = check
  old = old
  new = new
  unit = unit
  regression = regression
  Files <- MCFiles
  SecretFiles = {}
  ProtectedFiles = {}
  EscapingFiles = {}
  Symbols <- MCSymbols
  SeedTree <- MCSeedTree
  WriteSet <- MCWriteSet
  TestFiles <- MCTestFiles
  Needs <- MCNeeds
  Contracts <- MCContracts
  MaxAttempts = 3
  MaxCorrections = 2
SPECIFICATION Spec
CHECK_DEADLOCK FALSE
INVARIANTS
  FailsClean
  
