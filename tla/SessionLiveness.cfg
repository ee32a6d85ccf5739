\* A slow session whose process writes more than its buffer holds, beside a
\* terminal whose client reads and may leave.
SPECIFICATION FairSpec
CONSTANTS
    Session = {s1, s2}
    Pty = {s2}
    Slow = {s1}
    Typing = {}
    Leaving = {s2}
    MaxSessions = 2
    BufLen = 1
    QueueLen = 1
    NetLen = 1
    MaxOut <- WritesMore
    MaxIn = 0
    Failures = FALSE
PROPERTIES EndIsTold NothingIsLeft
\* Every session has run.
CHECK_DEADLOCK FALSE
