SPECIFICATION MCSpec
CONSTANTS
  Commands <- MCCommands
  Stdins <- MCStdins
  Op = {o1, o2}
  Path = {"a"}
  Real = {"work", "token", "TOKEN", "key", "KEY"}
  Spells <- MCSpells
  DeniedText = {"token"}
  Guarded = {"key"}
  Folds = TRUE
  MaxChanges = 2
  User = {u1, u2}
  Conn = {1, 2, 3}
  MaxBreaks = 1
  Caller = {1, 2}
  Keep = 1
  Backlog = 1
  MaxOut = 1
  MaxJob = 1
  Reader = {r1, r2}
  BufferSize = 2
  MaxChunk = 3
  MaxBytes = 5
INVARIANTS SilentOnlyIfHarmless TouchedIsJudged NoConnLost ResultIsWhole TerminalLosesNothing
CHECK_DEADLOCK FALSE
