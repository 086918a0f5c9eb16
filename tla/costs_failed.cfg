SPECIFICATION Spec
CONSTANTS
  t1 = t1
  t2 = t2
  x = x
  y = y
  Size = 2
  Ttns <- OneTtn
  Codes <- TwoCodes
  MeladSheets <- Sheets
  ImaxiPrice = 5
  Manual = 9
  MaxRate = 2
  BatchSize = 1
  MaxDisturbances = 1
  MaxFaults = 1
INVARIANT FailedWriteKeepsCosts
