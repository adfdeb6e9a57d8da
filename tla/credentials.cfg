SPECIFICATION Spec
CONSTANTS
  Requests = {r1, r2}
  Emails = {a, b}
  InitialEmail = a
  Passwords = {x, y}
  InitialPassword = x
  MaxUsers = 2
  MaxSecrets = 2
  MaxRestarts = 1
SYMMETRY Symmetry
INVARIANTS FlagMeansInitialPassword
PROPERTIES LoginLostOnlyToStaleEnable
CHECK_DEADLOCK FALSE
