SPECIFICATION BooksSpec
CONSTANTS
  Requests = {r1, r2}
  Items = {"rent"}
  Files <- MCFiles
  Names = {"cash"}
  MaxAccounts = 1
  MaxWrites = 3
  MaxAborts = 1
  Tabs = {p1, p2}
  Nobody = Nobody
  Resources = {"transactions", "budgets", "accounts"}
  Labels = {"food", "rent", "fuel"}
  Contents = {1, 2}
  Typed <- MCTyped
  FirstRows <- MCFirstRows
  DateOf <- MCDateOf
  MaxListed = 1
  MaxRowIds = 2
  MaxClicks = 2
  MaxLosses = 1
  Homes <- MCHomes
  Additions <- MCAdditions
  Now = 2
  NoCategory = "none"
  Other = "other"
  ListLimit = 4
  NotRead = NotRead
  MaxHomeEdits = 2
  Sheets <- MCSheets
  NoResult = NoResult
  Failed = Failed
INVARIANTS TypeOK DuplicatesBounded OwnWritesShown DashboardAdds ReadAsMeant
PROPERTIES ImportPassesOnlyStored ImportEnds UntouchedFieldKept
CHECK_DEADLOCK FALSE
