------------------------------- MODULE Grants -------------------------------
(***************************************************************************)
(* What the approval step promises for one request of one client session,  *)
(* whichever channel carries the question: every authorization number      *)
(* (the "ap-..." of the audit log) is asked for once, gets at most one     *)
(* verdict, and lets the operation run at most once; only a granted number *)
(* can become the session's standing permission, under which later calls   *)
(* run without a question.                                                 *)
(***************************************************************************)
CONSTANTS
    Id,         \* authorization numbers
    NoId        \* not one of them

VARIABLES
    asked,      \* numbers with an MCP-ASK
    verdict,    \* what became of each
    runs,       \* how often an operation has run under each
    standing    \* the number behind "do not ask again", or NoId

grants == <<asked, verdict, runs, standing>>

Init ==
    /\ asked = {} /\ standing = NoId
    /\ verdict = [i \in Id |-> "open"]
    /\ runs = [i \in Id |-> 0]

Ask(i) ==
    /\ i \notin asked
    /\ asked' = asked \cup {i}
    /\ UNCHANGED <<verdict, runs, standing>>

Settle(i, v) ==
    /\ i \in asked /\ verdict[i] = "open"
    /\ verdict' = [verdict EXCEPT ![i] = v]
    /\ UNCHANGED <<asked, runs, standing>>

RunUnder(i) ==
    /\ verdict[i] = "granted" /\ runs[i] = 0
    /\ runs' = [runs EXCEPT ![i] = 1]
    /\ UNCHANGED <<asked, verdict, standing>>

Stand(i) ==
    /\ verdict[i] = "granted"
    /\ standing' = i
    /\ UNCHANGED <<asked, verdict, runs>>

Forget ==
    /\ standing' = NoId
    /\ UNCHANGED <<asked, verdict, runs>>

Next ==
    \/ Forget
    \/ \E i \in Id :
        Ask(i) \/ Settle(i, "granted") \/ Settle(i, "refused")
            \/ RunUnder(i) \/ Stand(i)

Spec == Init /\ [][Next]_grants
=============================================================================
