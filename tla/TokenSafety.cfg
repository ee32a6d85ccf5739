\* Two refresh requests may overlap; any two disturbances of any kind.
SPECIFICATION Spec
CONSTANTS
    Token = {1, 2, 3}
    NoTok = 0
    Request = {r1, r2}
    Conn = {1, 2}
    NoConn = 0
    FaultKinds = {"loss", "crash", "writeFail", "regen", "toggle"}
    MaxFault = 2
SYMMETRY Symmetry
INVARIANTS TypeOK FormalWasWritten RetiredStaysRetired LiveIsRegistered
    CalmFileIsGood
\* The connections are used up: the bound stops the system, not the code.
CHECK_DEADLOCK FALSE
