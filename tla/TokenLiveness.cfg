\* One refresh request, any two disturbances of any kind: the machine comes
\* back online, and a revoked connection is shut.
SPECIFICATION FairSpec
CONSTANTS
    Token = {1, 2, 3}
    NoTok = 0
    Request = {r1}
    Conn = {1, 2, 3, 4, 5, 6}
    NoConn = 0
    FaultKinds = {"loss", "crash", "writeFail", "regen", "toggle"}
    MaxFault = 2
PROPERTIES SelfHeals RevocationTakesEffect
\* The connections are used up: the bound stops the system, not the code.
CHECK_DEADLOCK FALSE
