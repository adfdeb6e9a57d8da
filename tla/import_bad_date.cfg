SPECIFICATION Spec
CONSTANTS
  Clients = {c1}
  Orgs = {o1}
  FirstOrg = o1
  Files <- MCBadDates
  MaxChoices = 1
  MaxSaves = 1
  MaxDeletes = 0
  MaxFaults = 0
INVARIANT InvalidNeverStored
CHECK_DEADLOCK FALSE
