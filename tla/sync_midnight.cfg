SPECIFICATION Spec
CONSTANTS
  o1 = o1
  o2 = o2
  prom = prom
  rozetka = rozetka
  Orders <- OneOrder
  Sources <- OneSource
  SourceOf <- FromProm
  Exact <- OneOrder
  Pinned <- Nothing
  SupplierPrepaid <- Nothing
  Contradicted <- Nothing
  CashOnDelivery <- Nothing
  Malformed <- Nothing
  MaxAge = 1
  MaxDay = 1
  MaxDisturbances = 3
  MaxFaults = 0
PROPERTY NotesGoOnlyWithRefusals
