SPECIFICATION OfficeSpec
CONSTANTS
  t1 = t1
  t2 = t2
  a1 = a1
  a2 = a2
  p1 = p1
  p2 = p2
  Requests = {r1, r2}
  Txs = {t1, t2}
  LineKinds <- MCLineKinds
  Keys = {"full", "bare"}
  NoAddress = {"bare"}
  Files <- MCFiles
  Entries <- MCEntries
  None = None
  FirstParties <- MCFirst
  MaxParties = 3
  MaxActions = 2
  MaxImports = 1
  Operators <- MCOperators
  DeskLines <- MCDeskLines
  FirstPeople <- MCFirstPeople
  MaxPeople = 1
  NoLink = NoLink
  AnyCategory = "__all__"
  NotKept = NotKept
  MaxSent = 2
  MaxRenders = 1
  Accounts = {a1, a2, a3}
  Handlers = {h1, h2}
  FirstAdmins = {a1, a2}
  MaxRequests = 4
  Slugs <- MCSlugs
  Pages <- MCPages
  PL_CATEGORIES <- MCCategories
  Loan = "loan"
  Liabilities = {"payable"}
  Balances <- MCBalances
  Imports <- MCImports
  FirstTables <- MCTables
  PerPage = 5
  TargetCount = 1
  MaxChanges = 1
  MaxLoads = 2
INVARIANTS PageAgrees OwnWorkShown
PROPERTIES UnfitOnlyByEdit DeletionsTakeOnlyNew DuplicatesOnlyByOverlap ImportLinksAsFiled RolesGivenByAdmins LastAdminFallsOnlyToSelfOrStale EventuallyCurrent
CHECK_DEADLOCK FALSE
