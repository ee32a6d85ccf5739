------------------------------- MODULE Login -------------------------------
(***************************************************************************)
(* Everybody who proves who he is to the server: SSH connections (password,*)
(* keyboard-interactive, public key, a one-time grant), the questions a    *)
(* session asks again (management commands, an idle terminal), and the     *)
(* HTTP endpoints that take an account's password.  They share the limiter *)
(* (AuthGuard), the accounts' second factor and the grants, and interleave *)
(* at every bcrypt, every database statement and every prompt.             *)
(***************************************************************************)
EXTENDS AuthGuard

CONSTANTS
    Actor,          \* SSH connections, and requests to HTTP endpoints that
                    \* check a password
    Home,           \* the address each of them comes from
    Grant,          \* grants issued during the run
    GrantTTL, GrantUses,
    Tries,          \* codes a session may type before it is turned away (3)
    Drift,          \* bound: steps an authenticator may be ahead, from 0 to 2
    MaxGuess,       \* bound: attempts begun
    MaxAdmin        \* bound: changes an administrator or the owner makes

ASSUME LoginAssumption ==
    /\ Account # {} /\ Home \in [Actor -> IP]
    /\ {GrantTTL, GrantUses, Tries} \subseteq Nat \ {0}
    /\ Drift \subseteq 0 .. 2 /\ {MaxGuess, MaxAdmin} \subseteq Nat

None == "none"

VARIABLES
    acct,       \* users: disabled, oauth_only, second factor, its last step
    grant,      \* ssh_grants
    who,        \* each connection or request
    guesses,    \* bound: attempts begun
    changes,    \* bound: changes made to accounts
    spent,      \* history: codes that were accepted, and that were again
    usedUp,     \* history: how often each grant was accepted
    earned      \* history: failures that count, by account and by address

vars == <<now, tables, acct, grant, who, guesses, changes, spent, usedUp,
          earned>>
guard == <<now, tables>>
hist == <<spent, usedUp, earned>>

Step == 0 .. MaxClock + 2
AccountRec == [disabled : BOOLEAN, oauthOnly : BOOLEAN, totp : Nat, lastStep : Step]
GrantRec == [state : {"none", "live", "gone"}, acct : Account,
             left : 0 .. GrantUses, till : 0 .. MaxClock + GrantTTL]
Kind == {"password", "kbd", "http", "mgmt", "passwd", "idle"}
WhoRec == [pc : {"idle", "compare", "row", "taken", "burn", "code", "stepRead", "in"},
           kind : Kind, acct : Account, mark : {None, "publickey", "grant"},
           proved : SUBSET {"password", "code", "grant", "key"},
           grant : Grant \cup {None}, key : Nat, step : Step, tries : 0 .. Tries]

LoginTypeOK ==
    /\ GuardTypeOK
    /\ acct \in [Account -> AccountRec] /\ grant \in [Grant -> GrantRec]
    /\ who \in [Actor -> WhoRec]
    /\ guesses \in 0 .. MaxGuess /\ changes \in 0 .. MaxAdmin

Nobody(x) == [pc |-> "idle", kind |-> "password",
              acct |-> CHOOSE a \in Account : TRUE, mark |-> None, proved |-> {},
              grant |-> None, key |-> 0, step |-> 0, tries |-> 0]
\* What is left of an attempt when it is over
Rest(w) == [w EXCEPT !.grant = None, !.step = 0, !.tries = 0]
Again(x) == [Nobody(x) EXCEPT !.mark = who[x].mark]

\* key counts the authenticators an account has had, 0 for none.
LoginInit ==
    /\ GuardInit
    /\ \E bound \in SUBSET Account :
          acct = [a \in Account |-> [disabled |-> FALSE, oauthOnly |-> FALSE,
                                     totp |-> IF a \in bound THEN 1 ELSE 0,
                                     lastStep |-> 0]]
    /\ grant \in [Grant -> {[state |-> "none", acct |-> a, left |-> 0, till |-> 0] :
                              a \in Account}]
    /\ who = [x \in Actor |-> Nobody(x)]
    /\ guesses = 0 /\ changes = 0
    /\ spent = [once |-> {}, again |-> {}] /\ usedUp = [g \in Grant |-> 0]
    /\ earned = [acct |-> [a \in Account |-> 0], ip |-> [i \in IP |-> 0]]

-----------------------------------------------------------------------------
(* An attempt.  A failed one leaves the connection free to try again.      *)

\* The connection is closed, or a request comes without the code that is
\* needed (totpBound), while the server waits for an answer: nothing is
\* counted.  What is being compared is compared to the end.
Leave(x) ==
    /\ who[x].pc \in {"idle", "code", "in"} /\ who' = [who EXCEPT ![x] = Nobody(x)]
    /\ who' # who
    /\ UNCHANGED <<guard, acct, grant, guesses, changes, hist>>

blame(x) ==
    /\ fail(who[x].acct, Home[x])
    /\ earned' = [earned EXCEPT !.acct[who[x].acct] = @ + 1, !.ip[Home[x]] = @ + 1]

\* Mutant of LocksAreEarned: the name that was typed pays as well.
blameName(x) ==
    fail(who[x].acct, Home[x]) /\ earned' = [earned EXCEPT !.ip[Home[x]] = @ + 1]
blameIP(x) == failIP(Home[x]) /\ earned' = [earned EXCEPT !.ip[Home[x]] = @ + 1]

\* verifyPassword and the endpoints: nothing is compared under a lock.
Begin(x, a, k, g) ==
    /\ who[x].pc = "idle" /\ guesses < MaxGuess
    /\ k \in {"password", "kbd", "http"} /\ (k = "http" => who[x].mark = None)
    /\ g # None => grant[g].state # "none" /\ grant[g].acct = a /\ k # "http"
    /\ ~ (k = "password" /\ acct[a].totp # 0 /\ g = None)
    /\ allowed(a, Home[x])
    /\ who' = [who EXCEPT ![x].pc = "compare", ![x].acct = a, ![x].kind = k,
                          ![x].grant = g, ![x].key = acct[a].totp, ![x].proved = {}]
    /\ guesses' = guesses + 1
    /\ UNCHANGED <<guard, acct, grant, changes, hist>>

\* The password method on an account with a second factor: whatever was
\* typed, the address pays for it and the account does not.
Burn(x, a) ==
    /\ \/ who[x].pc = "idle" /\ acct[a].totp # 0 /\ guesses < MaxGuess
       \/ who[x].pc = "burn" /\ a = who[x].acct
    /\ ipAllowed(Home[x])
    /\ blameIP(x)
    /\ guesses' = IF who[x].pc = "idle" THEN guesses + 1 ELSE guesses
    /\ who' = [who EXCEPT ![x] = Again(x)]
    /\ UNCHANGED <<now, acct, grant, changes, spent, usedUp>>

Refused(x) ==   \* sshAuthOK, the branch a locked address takes
    /\ who[x].pc = "burn" /\ ~ ipAllowed(Home[x])
    /\ who' = [who EXCEPT ![x] = Again(x)]
    /\ UNCHANGED <<guard, acct, grant, guesses, changes, hist>>

Fail(x) ==
    /\ blame(x)
    /\ who' = [who EXCEPT ![x] =
                 IF @.kind = "password" /\ @.key # 0
                   THEN [Rest(@) EXCEPT !.pc = "burn"] ELSE Again(x)]
    /\ UNCHANGED <<now, acct, grant, guesses, changes, spent, usedUp>>

\* Everything the login asked for has been shown: the counts of this account
\* and of this account from here are forgotten.
Pass(x, proof) ==
    LET w == Rest(who[x]) IN
    /\ pass(w.acct, Home[x])
    /\ who' = [who EXCEPT ![x] =
                 [w EXCEPT !.pc = IF w.kind = "http" THEN "idle" ELSE "in",
                           !.kind = IF w.kind = "mgmt" THEN "mgmt" ELSE "password",
                           !.proved = w.proved \cup {proof},
                           !.mark = IF proof = "grant" THEN "grant" ELSE w.mark]]
    /\ UNCHANGED now

\* Mutant of OnlyAFullProofForgives: the counts go as soon as the password is
\* right, before the code is asked for.
CompareEarlyPass(x, right) ==
    LET a == who[x].acct IN
    /\ who[x].pc = "compare" /\ who[x].grant = None
    /\ IF ~ right \/ acct[a].disabled \/ acct[a].oauthOnly THEN Fail(x)
       ELSE /\ pass(a, Home[x])
            /\ who' = [who EXCEPT ![x].pc = IF acct[a].totp = 0 THEN "in" ELSE "code",
                                  ![x].proved = {"password"}]
            /\ UNCHANGED <<now, acct, grant, guesses, changes, hist>>

\* The password, then what the account allows by now.
Compare(x, right) ==
    LET a == who[x].acct IN
    /\ who[x].pc = "compare" /\ who[x].grant = None
    /\ IF ~ right \/ acct[a].disabled \/ acct[a].oauthOnly THEN Fail(x)
       ELSE /\ IF who[x].kind = "password" \/ acct[a].totp = 0 THEN Pass(x, "password")
               ELSE /\ who' = [who EXCEPT ![x].pc = "code", ![x].tries = 1,
                                          ![x].proved = {"password"}]
                    /\ UNCHANGED guard
            /\ UNCHANGED <<acct, grant, guesses, changes, hist>>

-----------------------------------------------------------------------------
(* One-time grants (accounts/oauth.go, UseSSHGrant).                       *)

Live(g) == grant[g].state = "live" /\ grant[g].left > 0 /\ now <= grant[g].till

\* The row is read, its date and count looked at, its hash compared.  A grant
\* that is not there is compared as a password, and is none.
ReadGrant(x) ==
    LET g == who[x].grant IN
    /\ who[x].pc = "compare" /\ g # None
    /\ IF Live(g) THEN /\ who' = [who EXCEPT ![x].pc = "row"]
                       /\ UNCHANGED <<guard, acct, grant, guesses, changes, hist>>
       ELSE Fail(x)

\* Mutant of GrantWithinUses: the count is taken from the row as it was read.
TakeBlind(g) == TRUE
\* The conditional UPDATE, and the rows it affected.
Takeable(g) == grant[g].state = "live" /\ grant[g].left > 0 /\ now < grant[g].till

TakeGrant(x) ==
    LET g == who[x].grant IN
    /\ who[x].pc = "row"
    /\ IF Takeable(g)
         THEN /\ grant' = [grant EXCEPT ![g].left = IF @ > 0 THEN @ - 1 ELSE 0]
              /\ usedUp' = [usedUp EXCEPT ![g] = @ + 1]
              /\ who' = [who EXCEPT ![x].pc = "taken"]
              /\ UNCHANGED <<guard, acct, guesses, changes, spent, earned>>
         ELSE Fail(x)

\* The account is looked at again after the grant has been used up.
GrantPasses(x) ==
    /\ who[x].pc = "taken"
    /\ IF acct[who[x].acct].disabled THEN Fail(x)
       ELSE /\ Pass(x, "grant")
            /\ UNCHANGED <<acct, grant, guesses, changes, hist>>

IssueGrant(g) ==    \* CreateSSHGrant
    /\ grant[g].state = "none" /\ guesses = 0     \* bound: before the first login
    /\ ~ acct[grant[g].acct].disabled
    /\ grant' = [grant EXCEPT ![g].state = "live", ![g].left = GrantUses,
                              ![g].till = now + GrantTTL]
    /\ UNCHANGED <<guard, acct, who, guesses, changes, hist>>

-----------------------------------------------------------------------------
(* The second factor (totp.go; accounts/totp.go, VerifyTOTP).  A tick is a *)
(* time step, and the step of tick t is t + 1.                             *)

\* The codes of the previous, the present and the next step, if not older
\* than the last one accepted.
Code(a) == {c \in {now + d : d \in Drift} : c > acct[a].lastStep}

ReadStep(x, c) ==
    LET a == who[x].acct IN
    /\ who[x].pc = "code" /\ who[x].kind # "passwd"
    /\ acct[a].totp # 0 /\ c \in Code(a)
    /\ who' = [who EXCEPT ![x].pc = "stepRead", ![x].step = c, ![x].key = acct[a].totp]
    /\ UNCHANGED <<guard, acct, grant, guesses, changes, hist>>

\* Mutant of TotpOnce: the step is written whatever is there.
ConsumeBlind(a, c) == TRUE
Consumes(a, c) == acct[a].lastStep < c

\* A code that is wrong, or that another login has used in between.  A login
\* has one try, a session Tries of them; an idle terminal is not counted by
\* the limiter.
WrongCode(x) ==
    LET w == who[x]  session == w.kind \in {"mgmt", "passwd", "idle"} IN
    /\ who' = [who EXCEPT ![x] =
                 IF w.tries > 1
                   THEN [w EXCEPT !.pc = "code", !.step = 0, !.tries = @ - 1]
                 ELSE IF session THEN [Rest(w) EXCEPT !.pc = "in", !.kind = "password"]
                 ELSE Again(x)]
    /\ IF w.kind = "idle" THEN UNCHANGED <<guard, earned>>
       ELSE blame(x) /\ UNCHANGED now
    /\ UNCHANGED <<acct, grant, guesses, changes, spent, usedUp>>

BadCode(x) == who[x].pc = "code" /\ who[x].kind # "passwd" /\ WrongCode(x)

Spent(code) == [once |-> spent.once \cup {code}, again |-> spent.again \cup ({code} \cap spent.once)]

ConsumeStep(x) ==
    LET w == who[x]  a == w.acct IN
    /\ w.pc = "stepRead"
    /\ IF Consumes(a, w.step)
         THEN /\ acct' = [acct EXCEPT ![a].lastStep = w.step]
              /\ spent' = IF w.key = acct[a].totp THEN Spent(<<a, w.key, w.step>>) ELSE spent
              /\ IF w.kind = "idle"
                   THEN /\ who' = [who EXCEPT ![x] = [Rest(w) EXCEPT !.pc = "in", !.kind = "password"]]
                        /\ UNCHANGED guard
                   ELSE Pass(x, "code")
              /\ UNCHANGED <<grant, guesses, changes, usedUp, earned>>
         ELSE WrongCode(x)

-----------------------------------------------------------------------------
(* A session that is asked again.                                          *)

\* handleMgmt and mgmtReverifyTOTP, for a login that was neither by key nor
\* by grant.  A session that is turned away ends, its
\* connection does not.
AskMgmt(x) ==
    /\ who[x].pc = "in" /\ who[x].mark = None /\ guesses < MaxGuess
    /\ acct[who[x].acct].totp # 0 /\ allowed(who[x].acct, Home[x])
    /\ guesses' = guesses + 1
    /\ who' = [who EXCEPT ![x].pc = "code", ![x].kind = "mgmt", ![x].tries = Tries]
    /\ UNCHANGED <<guard, acct, grant, changes, hist>>

\* mgmtPasswd: the old password once more, up to Tries times.
AskPasswd(x) ==
    /\ who[x].pc = "in" /\ who[x].mark = None /\ guesses < MaxGuess
    /\ allowed(who[x].acct, Home[x])
    /\ acct[who[x].acct].totp # 0 => who[x].kind = "mgmt" \* after mgmtReverifyTOTP
    /\ guesses' = guesses + 1
    /\ who' = [who EXCEPT ![x].pc = "code", ![x].kind = "passwd", ![x].tries = Tries]
    /\ UNCHANGED <<guard, acct, grant, changes, hist>>

OldPassword(x, right) ==
    /\ who[x].pc = "code" /\ who[x].kind = "passwd"
    /\ IF right /\ ~ acct[who[x].acct].disabled
         THEN Pass(x, "password") /\ UNCHANGED <<acct, grant, guesses, changes, hist>>
         ELSE WrongCode(x)

\* idleGate and reverifyTOTP, on a terminal left alone longer than IdleVerify;
\* not for a login by key.
AskIdle(x) ==
    /\ who[x].pc = "in" /\ who[x].mark # "publickey"
    /\ acct[who[x].acct].totp # 0 /\ guesses < MaxGuess
    /\ guesses' = guesses + 1
    /\ who' = [who EXCEPT ![x].pc = "code", ![x].kind = "idle", ![x].tries = Tries]
    /\ UNCHANGED <<guard, acct, grant, changes, hist>>

\* handlePublicKey: the key is accepted, and the mark set, when the client
\* offers it; it may then not sign.
OfferKey(x, a, signs) ==
    /\ who[x].pc = "idle"
    /\ ~ acct[a].oauthOnly /\ ~ acct[a].disabled
    /\ signs \/ who[x].mark = None
    /\ who' = [who EXCEPT ![x].mark = "publickey",
                          ![x].acct = IF signs THEN a ELSE @,
                          ![x].proved = IF signs THEN {"key"} ELSE @,
                          ![x].pc = IF signs THEN "in" ELSE "idle"]
    /\ UNCHANGED <<guard, acct, grant, guesses, changes, hist>>

-----------------------------------------------------------------------------
(* Changes to accounts while others log in.  Bound: only those that meet   *)
(* somebody half way; the others come to a different initial state.        *)

Met(a) == changes < MaxAdmin /\ \E x \in Actor : who[x].acct = a /\ who[x].pc # "idle"

Change(a, r) ==
    /\ Met(a) /\ changes' = changes + 1
    /\ acct' = [acct EXCEPT ![a] = r]
    /\ UNCHANGED <<guard, grant, who, guesses, hist>>

SetDisabled(a)  == ~ acct[a].disabled /\ Change(a, [acct[a] EXCEPT !.disabled = TRUE])
SetOAuthOnly(a) == ~ acct[a].oauthOnly /\ Change(a, [acct[a] EXCEPT !.oauthOnly = TRUE])
\* EnrollTOTP with a new secret; c is the step that confirmed it.
EnrollTOTP(a, c) ==
    /\ c \in {now + d : d \in Drift} \ {0}
    /\ Change(a, [acct[a] EXCEPT !.totp = @ + 1, !.lastStep = c])
\* RevokeSSHGrants, when the password is changed
RevokeSSHGrants(a) ==
    /\ Met(a) /\ changes' = changes + 1
    /\ grant' = [g \in Grant |-> IF grant[g].acct = a /\ grant[g].state = "live"
                                   THEN [grant[g] EXCEPT !.state = "gone"] ELSE grant[g]]
    /\ UNCHANGED <<guard, acct, who, guesses, hist>>

Tick ==
    /\ now < MaxClock /\ now' = now + 1
    /\ UNCHANGED <<tables, acct, grant, who, guesses, changes, hist>>

Status(i) ==
    /\ guesses < MaxGuess /\ guesses' = guesses + 1
    /\ StatusDenied(i)
    /\ UNCHANGED <<acct, grant, who, changes, hist>>

LoginNext ==
    \/ \E x \in Actor : AskIdle(x) \/ AskMgmt(x) \/ AskPasswd(x)
    \/ \E x \in Actor, a \in Account, s \in BOOLEAN : OfferKey(x, a, s)
    \/ \E x \in Actor, a \in Account, k \in Kind, g \in Grant \cup {None} :
          Begin(x, a, k, g)
    \/ \E x \in Actor, a \in Account : Burn(x, a)
    \/ \E x \in Actor : Refused(x) \/ ReadGrant(x) \/ TakeGrant(x) \/ GrantPasses(x)
                        \/ BadCode(x) \/ Leave(x) \/ ConsumeStep(x)
    \/ \E x \in Actor, right \in BOOLEAN : Compare(x, right) \/ OldPassword(x, right)
    \/ \E x \in Actor, c \in Step : ReadStep(x, c)
    \/ \E g \in Grant : IssueGrant(g)
    \/ \E a \in Account : SetDisabled(a) \/ SetOAuthOnly(a) \/ RevokeSSHGrants(a)
    \/ \E a \in Account, c \in Step : EnrollTOTP(a, c)
    \/ \E i \in IP : Status(i)
    \/ Tick

LoginSpec == LoginInit /\ [][LoginNext]_vars

-----------------------------------------------------------------------------
(* Properties.                                                             *)

\* Whoever has got past the limiter and still has something to compare
\* against account a.
UnderWay(a) == {x \in Actor : /\ who[x].acct = a /\ who[x].kind # "idle"
                              /\ who[x].pc \in {"compare", "row", "code", "stepRead"}}

\* Logins by password, by code and by grant, the management prompts and the
\* HTTP endpoints all stop at one lock: while an account is locked as a whole,
\* or for an address, the guesses at it can only run out.
UnderLockNobodyJoins ==
    [][\A a \in Account, x \in Actor :
          /\ \/ Locked(userEntries, a) \/ Locked(ipEntries, Home[x])
             \/ Locked(entries, <<a, Home[x]>>)
          /\ x \in UnderWay(a)'
          => x \in UnderWay(a)]_vars

\* An account is locked by failures at that account and an address by
\* failures from there: neither a name typed into the wrong method nor the
\* endpoints open to anybody lock a login.
LocksAreEarned ==
    /\ \A a \in DOMAIN userEntries :
          /\ userEntries[a].fails <= earned.acct[a]
          /\ Locked(userEntries, a) => earned.acct[a] >= UserThreshold
    /\ \A p \in DOMAIN entries :
          Locked(entries, p) => earned.acct[p[1]] >= Threshold
    /\ \A i \in DOMAIN ipEntries :
          /\ ipEntries[i].fails <= earned.ip[i]
          /\ Locked(ipEntries, i) => earned.ip[i] >= IpThreshold

\* A recent count that need not make room for others
Recent(m, k) == /\ k \in DOMAIN m /\ now - m[k].lastFail <= Window
                /\ Cardinality(DOMAIN m) < MaxEntries - 1
Stands(m, n, k) == /\ k \in DOMAIN n /\ n[k].fails >= m[k].fails
                   /\ n[k].lockedTill >= m[k].lockedTill

\* Somebody has just shown everything account a asks for.
FullProof(a) ==
    \E x \in Actor :
       /\ who[x].acct = a /\ who'[x] # who[x]
       /\ LET p == who'[x].proved IN
          \/ "grant" \in p
          \/ "password" \in p /\ ("code" \in p \/ who[x].key = 0 \/ acct[a].totp = 0)

\* The failures of the last Window, and the locks they earned, are forgotten
\* only by a login that went through to the end, and those of an address by
\* nothing: a password alone does not buy new guesses at the code.
OnlyAFullProofForgives ==
    [][/\ \A i \in IP : Recent(ipEntries, i) => Stands(ipEntries, ipEntries', i)
       /\ \A a \in Account :
             Recent(userEntries, a) => Stands(userEntries, userEntries', a) \/ FullProof(a)
       /\ \A p \in Pair :
             Recent(entries, p) => Stands(entries, entries', p) \/ FullProof(p[1])]_vars

\* A lock that stands is ended by nobody's failure.  Not so: when the lock is
\* longer than the window, as the fifth is, a guess begun before it and
\* finished late starts a new count, and the lock goes with the old one.
LockStands ==
    [][\A a \in Account :
          Locked(userEntries, a)
          /\ userEntries' # userEntries /\ a \in DOMAIN userEntries'
          => userEntries'[a].lockedTill >= userEntries[a].lockedTill]_vars

\* One code is accepted once, by whichever of two logins, management commands
\* or idle terminals present it at the same moment, as long as its
\* authenticator is the one that is bound.
TotpOnce == spent.again = {}

\* A grant opens at most GrantUses logins, however many present it at once.
GrantWithinUses == \A g \in Grant : usedUp[g] <= GrantUses

=============================================================================
