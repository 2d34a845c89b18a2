SPECIFICATION FairSpec
CONSTANTS
  Slots = 4
  MaxRec = 3
  Start = 1
  BufCap = 4
  MaxFaults = 1
  MinValid = 2
  MaxSkip = 3
  Outputs <- MCOutputs
INVARIANTS NoHole RecoveryComplete CookedLog
PROPERTIES AckedWritten TailfFollows
CHECK_DEADLOCK FALSE
