SPECIFICATION Spec
CONSTANTS
  Requests = {r1, r2}
  Emails = {a, b}
  Passwords = {x}
  MaxUsers = 2
  MaxSessions = 2
  MaxSalts = 2
  MaxRestarts = 0
SYMMETRY Symmetry
INVARIANTS IInv SessionDekIsUsersDek
PROPERTIES LastUserFallsOnlyToStaleDelete ImplementsCustody
CHECK_DEADLOCK FALSE
