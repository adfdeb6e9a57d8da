SPECIFICATION Spec
CONSTANTS
  Requests = {r1, r2}
  Emails = {a}
  Passwords = {x, y}
  MaxUsers = 1
  MaxSessions = 2
  MaxSalts = 3
  MaxRestarts = 1
SYMMETRY Symmetry
INVARIANTS VaultConsistent RecordsReadable
PROPERTIES LogoutIsFinal StaleSessionStaysRefused
CHECK_DEADLOCK FALSE
