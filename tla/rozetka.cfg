SPECIFICATION Spec
CONSTANTS
  r1 = r1
  r2 = r2
  Orders <- TwoOrders
  PageSize = 1
  MaxMoves = 2
  MaxFlaws = 2
  MaxFaults = 1
INVARIANTS TypeOK BestOfAll LostOnlyByDrift
SYMMETRY Symmetry
