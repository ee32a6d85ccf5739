\* A command that ends at once, before its handler waits.
SPECIFICATION Spec
CONSTANTS
    Session = {s1}
    Pty = {}
    Slow = {}
    Typing = {}
    Leaving = {}
    MaxSessions = 2
    BufLen = 1
    QueueLen = 1
    NetLen = 2
    MaxOut <- WritesMore
    MaxIn = 0
    Failures = FALSE
INVARIANT EndedIsNotUnready
\* Every session has run.
CHECK_DEADLOCK FALSE
