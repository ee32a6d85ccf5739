\* A client that does not read; the network does not fail.
SPECIFICATION Spec
CONSTANTS
    Session = {s1, s2}
    Pty = {}
    Slow = {s1}
    Typing = {}
    Leaving = {}
    MaxSessions = 2
    BufLen = 1
    QueueLen = 1
    NetLen = 2
    MaxOut <- WritesMore
    MaxIn = 0
    Failures = FALSE
INVARIANT OnlyItsOwnSession
\* Every session has run.
CHECK_DEADLOCK FALSE
