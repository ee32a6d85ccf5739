SPECIFICATION MCSpec
CONSTANTS
  MirrorName = {n1, n2}
  Opener = {o1, o2}
  MaxMirrors = 1
  MaxStarts = 3
  MaxSweeps = 1
  Att = {a1, a2}
  Kept = 1
  Queue = 1
  Size = {2}
  MaxOutput = 3
  MaxTurns = 3
  Link = {c1, c2}
  MaxTag = 2
  MaxCrashes = 1
  Buffer = 2
  BackoffInit = 1
  BackoffMax = 3
  MaxEvents = 4
  MaxReports = 3
  MaxDials = 3
INVARIANTS MirrorsInOrder StreamUnbroken NobodyMissesIt FeedInOrder
CHECK_DEADLOCK FALSE
