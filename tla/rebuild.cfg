SPECIFICATION FairSpec
CONSTANTS
  p = p
  q = q
  r = r
  Keys <- TwoKeys
  Items <- FiveLines
  Prepaid <- Second
  MaxDay = 1
  MaxDisturbances = 1
  MaxFaults = 1
INVARIANTS TypeOK KeptRowsSurvive CheckedOrdersAreWhole RebuildStaysSound
PROPERTIES RatesKept UpdatesHitTheirRow RefusedOrdersLeave
