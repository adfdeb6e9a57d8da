SPECIFICATION MCSpec
CONSTANTS
  t1 = t1
  t2 = t2
  t3 = t3
  d1 = d1
  c1 = c1
  Tx = {t1, t2, t3}
  Lines <- MCLines
  Sections <- MCSections
  Donors = {d1}
  Counterparts = {c1}
  Complete = {d1, c1}
  NoParty = NoParty
  Books <- MCBooks
  DonationThreshold = 2
  RoutineThreshold = 4
  PoliticalThreshold = 2
  MaxEdits = 1
  b1 = b1
  b2 = b2
  Years = {2024, 2025}
  NoId = NoId
  Browsers = {b1, b2}
  Nobody = Nobody
  Texts = {"a"}
  FirstProfiles <- MCFirst
  MaxInputs = 2
  MaxRenders = 2
SYMMETRY MCSymmetry
INVARIANTS FlagsMatchForms FileReconciles DonorListedWhole DetailsSuffice NobodyDropped KeptIsCurrent
PROPERTIES ExportReportsUnedited FiledAsShown
CHECK_DEADLOCK FALSE
