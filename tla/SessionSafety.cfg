\* Two sessions and one place in the server's table; one process writes, its
\* client types, closes and leaves; the network may fail.
SPECIFICATION Spec
CONSTANTS
    Session = {s1, s2}
    Pty = {}
    Slow = {s1}
    Typing = {s1}
    Leaving = {s1}
    MaxSessions = 1
    BufLen = 1
    QueueLen = 1
    NetLen = 2
    MaxOut <- WritesTwo
    MaxIn = 1
    Failures = TRUE
INVARIANTS OwnCodeMeansComplete EofMeansComplete RunningIsReachable
\* Every session has run.
CHECK_DEADLOCK FALSE
