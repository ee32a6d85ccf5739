------------------------------ MODULE ConnCap ------------------------------
(***************************************************************************)
(* The limit on open connections (internal/server/limits.go): a place is   *)
(* taken when a connection is accepted and given back when it is closed,   *)
(* by whoever closes it first, at any moment.                              *)
(***************************************************************************)
EXTENDS Integers, FiniteSets

CONSTANTS
    Peer,           \* connections, each from one address
    From,           \* its address
    MaxTotal, MaxPerIP      \* 0: no limit

ASSUME CapAssumption == DOMAIN From = Peer /\ IsFiniteSet(Peer) /\ {MaxTotal, MaxPerIP} \subseteq Nat

VARIABLES
    total,          \* connCap.total
    perIP,          \* connCap.perIP
    conn            \* "none", "open", "closed" by one side, handler still there

capvars == <<total, perIP, conn>>
Addr == {From[p] : p \in Peer}

CapInit == /\ total = 0 /\ perIP = [i \in Addr |-> 0]
           /\ conn = [p \in Peer |-> "none"]

acquire(i) == /\ MaxTotal > 0 => total < MaxTotal
              /\ MaxPerIP > 0 => perIP[i] < MaxPerIP

\* connCap.Accept: refused connections are closed at once.
Accept(p) ==
    /\ conn[p] = "none" /\ acquire(From[p])
    /\ total' = total + 1 /\ perIP' = [perIP EXCEPT ![From[p]] = @ + 1]
    /\ conn' = [conn EXCEPT ![p] = "open"]

\* Mutant of PlacesMatchConnections: every Close gives a place back.
releasesAlways(p) == TRUE
\* cappedConn.Close: sync.Once
releases(p) == conn[p] = "open"

release(p) ==
    IF releases(p)
      THEN /\ total' = IF total > 0 THEN total - 1 ELSE 0
           /\ perIP' = [perIP EXCEPT ![From[p]] = IF @ - 1 <= 0 THEN 0 ELSE @ - 1]
      ELSE UNCHANGED <<total, perIP>>

\* The client goes, a timeout fires or the server shuts the port, and the
\* handler closes once more when it notices.
CloseConn(p) ==
    /\ conn[p] \in {"open", "closed"} /\ release(p)
    /\ conn' = [conn EXCEPT ![p] = IF @ = "open" THEN "closed" ELSE "none"]

CapNext == \E p \in Peer : Accept(p) \/ CloseConn(p)
CapSpec == CapInit /\ [][CapNext]_capvars

\* The places taken are the connections that are open, in total and per
\* address, and stay within both limits, however connections end.
PlacesMatchConnections ==
    LET open == {p \in Peer : conn[p] = "open"} IN
    /\ total = Cardinality(open)
    /\ \A i \in Addr : perIP[i] = Cardinality({p \in open : From[p] = i})
    /\ MaxTotal > 0 => total <= MaxTotal
    /\ MaxPerIP > 0 => \A i \in Addr : perIP[i] <= MaxPerIP

=============================================================================
