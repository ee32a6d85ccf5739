--------------------------- MODULE RegisterLimit ---------------------------
(* The limit of registrations per address (server/register.go): a sliding   *)
(* window in memory, with a bound on the number of addresses it remembers.  *)
EXTENDS Integers, FiniteSets

CONSTANTS
    Source,         \* addresses
    PerIPMax,       \* registrations an address has within Span ticks
    Span,
    MaxIPs,         \* addresses remembered
    MaxClock        \* bound

ASSUME RegisterLimitAssumption ==
    {PerIPMax, Span, MaxIPs} \subseteq Nat \ {0} /\ MaxClock \in Nat

VARIABLES hits, clock,
          granted   \* history: when each address was let through

rvars == <<hits, clock, granted>>

RLInit ==
    hits = [s \in {} |-> {}] /\ clock = 0 /\ granted = [s \in Source |-> {}]

\* The times kept for an address, those of one tick numbered apart.
Fresh(v) == {h \in v : h.at > clock - Span}
WithNow(v) == v \cup {[at |-> clock, nth |-> Cardinality({h \in v : h.at = clock})]}

\* Mutant of RateHolds: a full table forgets who has a place left.
SweepSpent ==
    [s \in {x \in DOMAIN hits : Cardinality(Fresh(hits[x])) >= PerIPMax} |-> Fresh(hits[s])]
\* A full table is cleaned of what is out of the window.
Sweep ==
    [s \in {x \in DOMAIN hits : Fresh(hits[x]) # {}} |-> Fresh(hits[s])]

Set(h, s, v) == [x \in DOMAIN h \cup {s} |-> IF x = s THEN v ELSE h[x]]

\* registerRL.allow: a newcomer who finds the table full of others is refused;
\* so is one who has had his share.
allow(s) ==
    LET full  == Cardinality(DOMAIN hits) >= MaxIPs
        table == IF full THEN Sweep ELSE hits
        room  == full /\ s \notin DOMAIN table => Cardinality(DOMAIN table) < MaxIPs
        keep  == IF s \in DOMAIN table THEN Fresh(table[s]) ELSE {}
        ok    == room /\ Cardinality(keep) < PerIPMax
    IN  /\ hits' = IF ~ room THEN table
                   ELSE Set(table, s, IF ok THEN WithNow(keep) ELSE keep)
        /\ granted' = IF ok THEN [granted EXCEPT ![s] = WithNow(Fresh(@))] ELSE granted
        /\ UNCHANGED clock

RLTick ==
    /\ clock < MaxClock /\ clock' = clock + 1
    /\ UNCHANGED <<hits, granted>>

RLNext == RLTick \/ \E s \in Source : allow(s)

\* Within any Span ticks an address registers at most PerIPMax times, however
\* often the table overflows and is cleaned, and the table stays within bounds.
RateHolds ==
    /\ \A s \in Source : Cardinality(granted[s]) <= PerIPMax
    /\ Cardinality(DOMAIN hits) <= MaxIPs
=============================================================================
