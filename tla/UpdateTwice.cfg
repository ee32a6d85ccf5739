INIT UpdateInit
NEXT UpdateNext
CONSTANTS
  Link = {c1, c2}
  MaxTag = 2
  MaxCrashes = 0
INVARIANT AlwaysAProgram
CHECK_DEADLOCK FALSE
