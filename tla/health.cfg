SPECIFICATION FairSpec
CONSTANTS
  Threshold = 3
  PageSize = 3
  MaxFailures = 4
  MaxOutages = 2
  MaxDisturbances = 4
  MaxFaults = 2
INVARIANTS TypeOK OneAlertPerPage StaleAlertOnlyAfterFault
PROPERTIES AlertOnlyAfterThreshold AlertIsRaised
