CONSTANTS
  c1 = c1
  c2 = c2
  inSet = inSet
  outside = outside
  credential = credential
  story = story
  test = test
  otherName = otherName
  Calls <- MCCalls
  Files <- MCFiles
  SecretFiles = {credential}
  ProtectedFiles = {}
  EscapingFiles = {}
  WriteSet = {inSet}
  Lanes = {"driver", "sdk"}
  PriorTests <- MCPriorTests
  PreTask <- MCPreTask
  QuotedFiles = {credential}
  OtherName = otherName
SPECIFICATION ProviderSpec
CHECK_DEADLOCK FALSE
INVARIANTS
  
  EventsTellTheRun
PROPERTIES
  RunSettles
