SPECIFICATION Spec
CONSTANTS
  o1 = o1
  o2 = o2
  prom = prom
  rozetka = rozetka
  Orders <- TwoOrders
  Sources <- TwoSources
  SourceOf <- OneEach
  Exact <- First
  Pinned <- Second
  SupplierPrepaid <- TwoOrders
  Contradicted <- First
  CashOnDelivery <- First
  Malformed <- First
  MaxAge = 1
  MaxDay = 1
  MaxDisturbances = 1
  MaxFaults = 1
INVARIANT BackupCoversSheet
PROPERTIES RowsDeletedOnlyWhenRefused ImplementsLedger
