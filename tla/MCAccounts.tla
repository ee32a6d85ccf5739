----------------------------- MODULE MCAccounts -----------------------------
(* The account database in use, its upgrade, the limit on registrations     *)
(* before it, and the changes an owner makes of his own; they share no      *)
(* variable, and a behaviour moves one of them.                             *)
EXTENDS Accounts, Upgrade, RegisterLimit, SelfService

VARIABLE part

MCInit == /\ AccountsInit /\ UpgradeInit /\ RLInit /\ SelfInit
          /\ part \in {"accounts", "upgrade", "limit", "self"}
MCNext ==
    /\ UNCHANGED part
    /\ \/ part = "accounts" /\ AccountsNext /\ UNCHANGED <<uvars, rvars, svars>>
       \/ part = "upgrade"  /\ UpgradeNext /\ UNCHANGED <<avars, rvars, svars>>
       \/ part = "limit"    /\ RLNext /\ UNCHANGED <<avars, uvars, svars>>
       \/ part = "self"     /\ SelfNext /\ UNCHANGED <<avars, uvars, rvars>>
MCSpec == MCInit /\ [][MCNext]_<<avars, uvars, rvars, svars, part>>
=============================================================================
