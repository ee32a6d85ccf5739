\* One rotation, and the network fails; with {"toggle"} for FaultKinds the
\* account is disabled and enabled again.
SPECIFICATION Spec
CONSTANTS
    Token = {1, 2, 3, 4}
    NoTok = 0
    Request = {r1}
    Conn = {1, 2}
    NoConn = 0
    FaultKinds = {"loss"}
    MaxFault = 2
SYMMETRY Symmetry
INVARIANT AgentHoldsGoodToken
CHECK_DEADLOCK FALSE
