------------------------------ MODULE MCLogin ------------------------------
(* The ways into the server.  The logins, the flow by identity provider and *)
(* the limit on connections share no variable: each behaviour moves one of  *)
(* them, chosen at the start, and the others rest in their initial state.   *)
EXTENDS Login, OAuthFlow, ConnCap

CONSTANTS i, j, x, m1
VARIABLE part

MCHome  == [z \in Actor |-> IF z = x THEN i ELSE j]
MCBound == [p \in Person |-> m1]
MCFrom  == [p \in Peer |-> IF p = 1 THEN j ELSE i]

MCInit == /\ LoginInit /\ OAuthInit /\ CapInit
          /\ part \in {"login", "oauth", "cap"}
          \* the accounts' second factors are the logins' alone
          /\ part # "login" => \A a \in Account : acct[a].totp = 0
MCNext ==
    /\ UNCHANGED part
    /\ \/ part = "login" /\ LoginNext /\ UNCHANGED <<ovars, capvars>>
       \/ part = "oauth" /\ OAuthNext /\ UNCHANGED <<vars, capvars>>
       \/ part = "cap"   /\ CapNext /\ UNCHANGED <<vars, ovars>>
MCSpec == MCInit /\ [][MCNext]_<<vars, ovars, capvars, part>>
=============================================================================
