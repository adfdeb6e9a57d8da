SPECIFICATION FairSpec
CONSTANTS
  Clients = {c1, c2}
  Orgs = {o1, o2}
  FirstOrg = o1
  Files <- MCFiles
  MaxChoices = 3
  MaxSaves = 2
  MaxDeletes = 1
  MaxFaults = 1
INVARIANTS SettledPreviewIsCurrent ReimportHasNothingLeft SuccessMeansSaved
PROPERTIES DeletedRowsStayDeleted SaveEnds
CHECK_DEADLOCK FALSE
