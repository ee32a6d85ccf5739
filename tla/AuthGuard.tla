----------------------------- MODULE AuthGuard -----------------------------
(***************************************************************************)
(* The server's login limiter (internal/server/authguard.go): four tables  *)
(* of recent failures, by account and address, by account, by address, and *)
(* by address for the endpoints anybody may call.  One mutex covers all    *)
(* four, so every method is one step.  Time is counted in ticks.           *)
(***************************************************************************)
EXTENDS Integers, FiniteSets, Functions

CONSTANTS
    Account, IP,
    Threshold,      \* authGuard.threshold, for an account from an address
    UserThreshold,  \* authGuard.userThreshold
    IpThreshold,    \* authGuard.ipThreshold
    AnonThreshold,  \* authGuard.anonThreshold
    Base,           \* authGuard.base, the first lock
    Window,         \* authGuard.window
    MaxLock,        \* authGuard.maxLock
    MaxEntries,     \* authGuard.maxEntries, per table
    SweepEvery,     \* a minute: the least time between two sweeps
    MaxClock        \* bound: the last tick

ASSUME GuardAssumption ==
    /\ {Threshold, UserThreshold, IpThreshold, AnonThreshold} \subseteq Nat \ {0}
    /\ {Base, MaxLock, MaxEntries, SweepEvery} \subseteq Nat \ {0}
    /\ Window \in Nat /\ MaxClock \in Nat

VARIABLES
    now,            \* time.Now()
    entries,        \* authGuard.entries, userEntries, ipEntries, anonEntries:
    userEntries,    \* functions on the keys they hold
    ipEntries,
    anonEntries,
    lastSweep

tables == <<entries, userEntries, ipEntries, anonEntries, lastSweep>>

Time == 0 .. MaxClock
authEntry == [fails : Nat \ {0}, lastFail : Time, lockedTill : Int]
Pair == Account \X IP

GuardTypeOK ==
    /\ now \in Time /\ lastSweep \in Time
    /\ DOMAIN entries \subseteq Pair /\ DOMAIN userEntries \subseteq Account
    /\ DOMAIN ipEntries \subseteq IP /\ DOMAIN anonEntries \subseteq IP
    /\ \A m \in {entries, userEntries, ipEntries, anonEntries} :
          \A k \in DOMAIN m : m[k] \in authEntry

GuardInit ==
    /\ now = 0 /\ lastSweep = 0
    /\ entries = <<>> /\ userEntries = <<>>
    /\ ipEntries = <<>> /\ anonEntries = <<>>

-----------------------------------------------------------------------------
Locked(m, k) == k \in DOMAIN m /\ now <= m[k].lockedTill

\* Mutant of UnderLockNobodyJoins: the lock on the account as a whole is not
\* looked at.
allowedPairOnly(u, i) == ~ Locked(entries, <<u, i>>) /\ ~ Locked(ipEntries, i)

allowed(u, i) ==
    ~ (Locked(entries, <<u, i>>) \/ Locked(userEntries, u) \/ Locked(ipEntries, i))
ipAllowed(i)     == ~ Locked(ipEntries, i)
ipAllowedAnon(i) == ~ Locked(anonEntries, i)

\* authGuard.failLocked: a count that has rested longer than the window
\* starts again, and with it the length of the next lock.
Doubled(n, thr) == LET d == IF n - thr > 6 THEN 6 ELSE n - thr
                       b == Base * 2^d
                   IN  IF b > MaxLock THEN MaxLock ELSE b

failLocked(m, k, thr) ==
    LET old  == IF k \in DOMAIN m /\ now - m[k].lastFail <= Window
                   THEN m[k] ELSE [fails |-> 0, lastFail |-> 0, lockedTill |-> -1]
        n    == old.fails + 1
        till == IF n >= thr /\ now > old.lockedTill
                   THEN now + Doubled(n, thr) ELSE old.lockedTill
    IN  [j \in DOMAIN m \cup {k} |->
            IF j = k THEN [fails |-> n, lastFail |-> now, lockedTill |-> till]
            ELSE m[j]]

Stale(e) == now > e.lockedTill /\ now - e.lastFail > Window
sweepMap(m) == Restrict(m, {k \in DOMAIN m : ~ Stale(m[k])})

\* authGuard.budgetLocked and evictLocked, the tables that may come out: a
\* table at its limit is swept, and the entry that failed longest ago goes,
\* locked or not.  A table never holds more than the limit, so one is enough.
Budgeted(m) ==
    IF Cardinality(DOMAIN m) < MaxEntries THEN {m}
    ELSE LET s == sweepMap(m)
         IN  IF Cardinality(DOMAIN s) < MaxEntries THEN {s}
             ELSE {Restrict(s, DOMAIN s \ {k}) :
                     k \in {j \in DOMAIN s :
                              \A i \in DOMAIN s : s[j].lastFail <= s[i].lastFail}}

\* The end of fail, failIP and failIPAnon: the limits, then the sweep, which
\* is due once a minute.
Settle(p, u, i, a) ==
    LET due == now - lastSweep >= SweepEvery
        S(m) == IF due THEN sweepMap(m) ELSE m
    IN  /\ \E pp \in Budgeted(p), uu \in Budgeted(u),
              ii \in Budgeted(i), aa \in Budgeted(a) :
              /\ entries' = S(pp) /\ userEntries' = S(uu)
              /\ ipEntries' = S(ii) /\ anonEntries' = S(aa)
        /\ lastSweep' = IF due THEN now ELSE lastSweep

fail(u, i) == Settle(failLocked(entries, <<u, i>>, Threshold),
                     failLocked(userEntries, u, UserThreshold),
                     failLocked(ipEntries, i, IpThreshold), anonEntries)
failIP(i) == Settle(entries, userEntries,
                    failLocked(ipEntries, i, IpThreshold), anonEntries)

failIPAnon(i) == Settle(entries, userEntries, ipEntries,
                        failLocked(anonEntries, i, AnonThreshold))

\* Mutant of OnlyAFullProofForgives: a login forgives the address as well.
passAll(u, i) ==
    /\ entries' = Restrict(entries, DOMAIN entries \ {<<u, i>>})
    /\ userEntries' = Restrict(userEntries, DOMAIN userEntries \ {u})
    /\ ipEntries' = Restrict(ipEntries, DOMAIN ipEntries \ {i})
    /\ UNCHANGED <<anonEntries, lastSweep>>

pass(u, i) ==
    /\ entries' = Restrict(entries, DOMAIN entries \ {<<u, i>>})
    /\ userEntries' = Restrict(userEntries, DOMAIN userEntries \ {u})
    /\ UNCHANGED <<ipEntries, anonEntries, lastSweep>>

\* The anonymous caller: a wrong X-Admin-Token or X-Agent-Token on /status
\* (internal/server/status.go, statusReport).
StatusDenied(i) ==
    /\ ipAllowedAnon(i) /\ failIPAnon(i)
    /\ UNCHANGED now

=============================================================================
