SPECIFICATION AccountsSpec
CONSTANTS
  Name = {a, b, c}
  Fingerprint = {f}
  Identity = {i}
  Key = {k}
  MachineName = {"default", "office"}
  Owned = a
  Admin = admin
  Worker = {1, 2}
  Twins = TRUE
  Manned = FALSE
  MaxJobs = 3
  MaxCrash = 0
CHECK_DEADLOCK FALSE
INVARIANT OneAccountPerMachine
