SPECIFICATION Spec
CONSTANTS
  p = p
  q = q
  r = r
  Keys <- TwoKeys
  Items <- ThreeLines
  Prepaid <- None
  MaxDay = 1
  MaxDisturbances = 1
  MaxFaults = 1
PROPERTY RatesSurviveRebuilds
