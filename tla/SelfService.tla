---------------------------- MODULE SelfService ----------------------------
(***************************************************************************)
(* What an account's owner changes by himself, and what is asked of him    *)
(* first: over HTTP with an agent's token (passwd.go, totp_enroll.go,      *)
(* sshkey.go), in an SSH session (mgmt.go), or at the server's console     *)
(* (user totp, confirmOwner).  The factors are looked at, asked for and    *)
(* changed in separate steps, while other requests do the same.            *)
(* One account; its passwords and authenticators are versions, 0 for none. *)
(***************************************************************************)
EXTENDS Integers, Sequences, FiniteSets

CONSTANTS
    Req,            \* requests under way
    MaxVer,         \* bound: versions made, and what administrators do
    MaxStep,        \* bound: TOTP time steps
    Unsound         \* statements the store may refuse

ASSUME SelfAssumption == {MaxVer, MaxStep} \subseteq Nat

VARIABLES
    cred,           \* users: password_hash, totp_secret_enc, totp_last_step,
                    \* disabled, oauth_only
    sshGrants,      \* ssh_grants of the account's machines, each a number
    req, ver, step

svars == <<cred, sshGrants, req, ver, step>>

Http  == {"passwd", "begin", "confirm", "remove", "key"}
Ssh   == {"@passwd", "@totp", "@remove", "@key"}
Kind  == Http \cup Ssh \cup {"console"}

Idle == [kind |-> "none", pc |-> "idle", tries |-> 0, had |-> 0, shown |-> 0,
         pw |-> FALSE, old |-> {}, told |-> FALSE]

SelfInit ==
    /\ cred = [pw |-> 1, totp |-> 0, last |-> 0, disabled |-> FALSE, oauthOnly |-> FALSE]
    /\ sshGrants = {1} /\ req = [r \in Req |-> Idle] /\ ver = 1 /\ step = 1

Rested == UNCHANGED <<cred, sshGrants, ver, step>>
Move(r, pc) == req' = [req EXCEPT ![r].pc = pc]
Refuse(r) == req' = [req EXCEPT ![r] = Idle]
In(r, pc, kinds) == req[r].pc = pc /\ req[r].kind \in kinds
Bound == cred.totp # 0

\* A request comes in; a session has logged in before.  had is history.
Ask(r, k) ==
    /\ req[r] = Idle /\ \A q \in Req : q < r => req[q] # Idle    \* they are alike
    /\ k \in Ssh => ~ cred.disabled
    /\ req' = [req EXCEPT ![r] = [Idle EXCEPT !.kind = k, !.had = cred.totp,
                !.pc = CASE k \in Http -> "password" [] k \in Ssh -> "gate"
                         [] OTHER -> "enroll"]]
    /\ Rested

\* totpCaller: the token, the address and the limits let it through, or the
\* password does not.
totpCaller(r) ==
    /\ In(r, "password", Http)
    /\ \/ Refuse(r)
       \/ ~ cred.disabled /\ req' = [req EXCEPT ![r].pc = "oauth", ![r].pw = TRUE]
    /\ Rested

\* ... and an account for which passwords do not count is sent away.  The key,
\* password and removal requests then ask whether a code is missing.
Counted(r) ==
    /\ In(r, "oauth", Http)
    /\ IF cred.oauthOnly THEN Refuse(r) ELSE Move(r, "bound")
    /\ Rested

\* store.VerifyTOTP: a code of this authenticator, newer than the last.
VerifyTOTP(r) ==
    /\ Bound /\ step > cred.last
    /\ cred' = [cred EXCEPT !.last = step]
    /\ req' = [req EXCEPT ![r].pc = "act", ![r].shown = cred.totp]
    /\ UNCHANGED <<sshGrants, ver, step>>

\* Mutant of BoundNeedsItsCode: who shows no code is let through.
BoundIfCode(r) == req[r].pc = "none"
\* totpBound: who has an authenticator must show a code of it.
MustShow(r) == Bound

totpBound(r) ==
    /\ In(r, "bound", Http \ {"begin"})
    /\ \/ ~ MustShow(r) /\ Move(r, "act") /\ Rested
       \/ MustShow(r) /\ Refuse(r) /\ Rested         \* no code, or a wrong one
       \/ MustShow(r) /\ VerifyTOTP(r)

\* handleTOTPBegin checks the code without using it up, and hands out a new
\* secret, which is kept nowhere.
handleTOTPBegin(r) ==
    /\ In(r, "bound", {"begin"}) /\ Refuse(r) /\ Rested

\* handleMgmt: a session that came by password, and a code when there is an
\* authenticator, three tries.
mgmtReverifyTOTP(r) ==
    /\ In(r, "gate", Ssh)
    /\ LET next == IF req[r].kind = "@passwd" THEN "password"
                   ELSE IF req[r].kind = "@totp" THEN "enroll" ELSE "act" IN
       \/ ~ Bound /\ req' = [req EXCEPT ![r].pc = next, ![r].tries = 0] /\ Rested
       \/ /\ Bound /\ step > cred.last
          /\ cred' = [cred EXCEPT !.last = step]
          /\ req' = [req EXCEPT ![r].pc = next, ![r].tries = 0, ![r].shown = cred.totp]
          /\ UNCHANGED <<sshGrants, ver, step>>
       \/ /\ Bound /\ Rested
          /\ IF req[r].tries = 2 THEN Refuse(r)
             ELSE req' = [req EXCEPT ![r].tries = @ + 1]

\* mgmtPasswd asks for the old password again, three tries.
OldPassword(r) ==
    /\ In(r, "password", {"@passwd"}) /\ Rested
    /\ \/ ~ cred.disabled /\ req' = [req EXCEPT ![r].pc = "act", ![r].pw = TRUE]
       \/ IF req[r].tries = 2 THEN Refuse(r)
          ELSE req' = [req EXCEPT ![r].tries = @ + 1]

\* A new secret, and a code of it; the confirmation comes when it comes.
Confirmed(r) ==
    /\ In(r, "enroll", {"@totp", "console"}) /\ Rested
    /\ Refuse(r) \/ Move(r, "act")

\* EnrollTOTP: its first code is used up with it.
EnrollTOTP(r) ==
    /\ In(r, "act", {"confirm", "@totp", "console"})
    /\ \/ ver < MaxVer /\ ver' = ver + 1
          /\ cred' = [cred EXCEPT !.totp = ver', !.last = step]
       \/ UNCHANGED <<ver, cred>>               \* the code of the new secret is wrong
    /\ Refuse(r) /\ UNCHANGED <<sshGrants, step>>

RemoveTOTP(r) ==
    /\ In(r, "act", {"remove", "@remove"})
    /\ cred' = [cred EXCEPT !.totp = 0, !.last = 0]
    /\ Refuse(r) /\ UNCHANGED <<sshGrants, ver, step>>

\* The keys are the module Accounts'.
ChangeKeys(r) == In(r, "act", {"key", "@key"}) /\ Refuse(r) /\ Rested

\* Mutant of GrantsDieWithPassword: the old grants go first.
RevokeFirst == <<"revoke", "set">>
\* handlePasswd and mgmtPasswd: the password, then the grants.
PasswdOrder == <<"set", "revoke">>
NextPc(p) == IF PasswdOrder[1] = p THEN PasswdOrder[2] ELSE "answer"

Changing(r) == req[r].kind \in {"passwd", "@passwd"}
BeginPasswd(r) == Changing(r) /\ req[r].pc = "act" /\ Move(r, PasswdOrder[1]) /\ Rested

\* old is history: the grants there are when the password changes.
SetPassword(r) ==
    /\ Changing(r) /\ req[r].pc = "set"
    /\ \/ Refuse(r) /\ UNCHANGED <<cred, ver>>          \* no password to accept
       \/ /\ ver < MaxVer /\ ver' = ver + 1 /\ cred' = [cred EXCEPT !.pw = ver']
          /\ req' = [req EXCEPT ![r].pc = NextPc("set"), ![r].old = sshGrants]
    /\ UNCHANGED <<sshGrants, step>>

\* A refused statement is logged; the answer is the same.
RevokeSSHGrants(r) ==
    /\ Changing(r) /\ req[r].pc = "revoke"
    /\ \/ /\ sshGrants' = {}
          /\ req' = [req EXCEPT ![r].pc = NextPc("revoke"), ![r].told = TRUE]
       \/ /\ "revoke" \in Unsound /\ Move(r, NextPc("revoke")) /\ UNCHANGED sshGrants
    /\ UNCHANGED <<cred, ver, step>>

AnswerPasswd(r) == Changing(r) /\ req[r].pc = "answer" /\ Refuse(r) /\ Rested

-----------------------------------------------------------------------------
(* Others.                                                                 *)

\* user set: a new password leaves the grants alone.
AdminPassword ==
    /\ ver < MaxVer /\ ver' = ver + 1 /\ cred' = [cred EXCEPT !.pw = ver']
    /\ UNCHANGED <<sshGrants, req, step>>
AdminFlags ==
    /\ \E d, o \in BOOLEAN : cred' = [cred EXCEPT !.disabled = d, !.oauthOnly = o]
    /\ cred' # cred /\ ver < MaxVer /\ ver' = ver + 1     \* bound
    /\ UNCHANGED <<sshGrants, req, step>>
AdminRemovesTOTP ==
    /\ cred' = [cred EXCEPT !.totp = 0, !.last = 0] /\ Bound
    /\ ver < MaxVer /\ ver' = ver + 1     \* bound
    /\ UNCHANGED <<sshGrants, req, step>>
\* An OAuth login ends with a grant.
NewGrant ==
    /\ ver < MaxVer /\ ver' = ver + 1 /\ sshGrants' = sshGrants \cup {ver'}
    /\ UNCHANGED <<cred, req, step>>
TotpTick == step < MaxStep /\ step' = step + 1 /\ UNCHANGED <<cred, sshGrants, req, ver>>

SelfNext ==
    \/ \E r \in Req :
          \/ \E k \in Kind : Ask(r, k)
          \/ totpCaller(r) \/ Counted(r) \/ totpBound(r) \/ handleTOTPBegin(r)
          \/ mgmtReverifyTOTP(r) \/ OldPassword(r) \/ Confirmed(r)
          \/ EnrollTOTP(r) \/ RemoveTOTP(r) \/ ChangeKeys(r)
          \/ BeginPasswd(r) \/ SetPassword(r) \/ RevokeSSHGrants(r) \/ AnswerPasswd(r)
    \/ AdminPassword \/ AdminFlags \/ AdminRemovesTOTP \/ NewGrant \/ TotpTick

-----------------------------------------------------------------------------
(* Properties.                                                             *)

\* Who changes a factor of an account that has had its authenticator since
\* before the request, has shown a code of it in that request, whatever other
\* requests do between the look, the code and the change; and the password
\* over HTTP and to change the password.  The console is the administrator's.
BoundNeedsItsCode ==
    [][\A r \in Req :
          /\ req[r].kind # "console" /\ req'[r] # req[r]
          /\ <<cred.pw, cred.totp>>' # <<cred.pw, cred.totp>>
          => /\ req[r].had # 0 /\ req[r].had = cred.totp => req[r].shown = cred.totp
             /\ req[r].kind \in Http \cup {"@passwd"} => req[r].pw]_svars

\* When a change of password is answered, the grants there were when it was
\* made are gone, unless the store refused to delete them.
GrantsDieWithPassword ==
    \A r \in Req : req[r].pc = "answer" /\ req[r].told => req[r].old \cap sshGrants = {}

\* What @passwd answers: that the grants are gone.  Not so when the statement
\* is refused.
ToldIsTrue ==
    \A r \in Req : req[r].pc = "answer" => req[r].old \cap sshGrants = {}

\* What the confirmation says of itself: an authenticator is replaced only by
\* who shows a code of it.  Not so for one enrolled while another request, which
\* found none, was waiting for its code.
RebindNeedsOldCode ==
    [][\A r \in Req :
          /\ req[r].kind \notin {"none", "console"} /\ req'[r] # req[r]
          /\ cred.totp # 0 /\ cred'.totp # cred.totp
          => req[r].shown = cred.totp]_svars
=============================================================================
