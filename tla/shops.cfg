SPECIFICATION FairShopsSpec
CONSTANTS
  Ids <- FourIds
  Top = 5
  Bare <- OneBare
  PageSize = 2
  MaxChanges = 2
  MaxRetries = 1
  Orders = {a, b, c, d}
  Limit = 2
  MaxNow = 2
  MaxEdits = 2
INVARIANTS BothTypeOK UnmodifiedAreFetched MissedOnlyByDrift
PROPERTIES BothFetchesEnd
