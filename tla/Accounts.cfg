SPECIFICATION MCSpec
CONSTANTS
  Name = {a, b}
  Fingerprint = {f}
  Identity = {i}
  Key = {k}
  MachineName = {"default", "office"}
  Owned = a
  Admin = admin
  Worker = {1, 2}
  Twins = FALSE
  Manned = TRUE
  MaxJobs = 3
  MaxCrash = 1
  Account = {a, b}
  Opener = {1, 2}
  Self = {"alice.laptop"}
  Plain = {"ops", "alice.bob.laptop"}
  Issued = {"alice.new"}
  MaxOpens = 3
  Source = {s1, s2, s3}
  PerIPMax = 2
  Span = 2
  MaxIPs = 2
  MaxClock = 4
  Req = {1, 2}
  MaxVer = 3
  MaxStep = 2
  Unsound = {"revoke"}
INVARIANTS HeirsStartClean TokensSurvive RateHolds GrantsDieWithPassword
PROPERTIES OwnersOnly BoundNeedsItsCode
CHECK_DEADLOCK FALSE
