\* A client that does not read and stays connected.
SPECIFICATION FairSpec
CONSTANTS
    Session = {s1}
    Pty = {}
    Slow = {s1}
    Typing = {}
    Leaving = {}
    MaxSessions = 2
    BufLen = 1
    QueueLen = 1
    NetLen = 2
    MaxOut <- WritesMore
    MaxIn = 0
    Failures = FALSE
PROPERTY StalledIsKilled
\* Every session has run.
CHECK_DEADLOCK FALSE
