SPECIFICATION Spec
CONSTANTS
  Requests = {r1, r2}
  Emails = {a}
  Passwords = {x}
  MaxUsers = 1
  MaxSessions = 1
  MaxSalts = 1
  MaxRestarts = 0
SYMMETRY Symmetry
INVARIANT EveryUserRecoverable
CHECK_DEADLOCK FALSE
