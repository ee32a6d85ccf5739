\* Two calls at once on each of the three channels, two people answering.
SPECIFICATION FairSpec
CONSTANTS
    Call = {c1, c2}
    Operator = {o1, o2}
    Id = {1, 2, 3}
    NoId = 0
    Channel = {"llm", "elicit", "local"}
    TTL = 1
    MaxTime = 2
INVARIANT TablesMatchAudit
PROPERTIES ImplementsGrants CallReturns
\* The numbers are used up: the bound stops the system, not the code.
CHECK_DEADLOCK FALSE
