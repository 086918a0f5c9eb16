SPECIFICATION Spec
CONSTANTS
  p1 = p1
  p2 = p2
  c1 = c1
  c2 = c2
  Parts <- TwoParts
  Cards <- TwoCards
  MaxFee = 2
  DetailLimit = 1
  BatchSize = 1
  MaxDisturbances = 1
  MaxFaults = 1
INVARIANTS TypeOK ReconciledIsJournaled
PROPERTIES KnownFeesSurvive UnresolvedOnlyIfAsked LabelsJournaledFirst
SYMMETRY Symmetry
