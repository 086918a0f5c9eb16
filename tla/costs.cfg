SPECIFICATION FairSpec
CONSTANTS
  t1 = t1
  t2 = t2
  x = x
  y = y
  Size = 2
  Ttns <- TwoTtns
  Codes <- TwoCodes
  MeladSheets <- Sheets
  ImaxiPrice = 5
  Manual = 9
  MaxRate = 2
  BatchSize = 1
  MaxDisturbances = 2
  MaxFaults = 1
INVARIANTS TypeOK FilledCostsHaveOrigin JournaledCostsWereWritten
PROPERTIES ManualCostsUntouched CostsFitTheirParcel CostsSettle
