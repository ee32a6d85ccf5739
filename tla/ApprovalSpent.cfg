\* Three calls of one session on the llm channel, no time passes.
SPECIFICATION Spec
CONSTANTS
    Call = {c1, c2, c3}
    Operator = {o1}
    Id = {1, 2, 3, 4}
    NoId = 0
    Channel = {"llm"}
    TTL = 1
    MaxTime = 1
INVARIANT NoMarkUnderTombstone
CHECK_DEADLOCK FALSE
