\* A rotation that times out is tried again, as the user guide advises.
SPECIFICATION Spec
CONSTANTS
    Token = {1, 2, 3, 4}
    NoTok = 0
    Request = {r1, r2}
    Conn = {1, 2}
    NoConn = 0
    FaultKinds = {"crash", "writeFail"}
    MaxFault = 2
SYMMETRY Symmetry
INVARIANT AgentHoldsGoodToken
CHECK_DEADLOCK FALSE
