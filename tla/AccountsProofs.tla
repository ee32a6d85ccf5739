--------------------------- MODULE AccountsProofs ---------------------------
(***************************************************************************)
(* Theorems about the account database: what an owner changes of his own   *)
(* (SelfService), the upgrade of an old database (Upgrade), the tables in  *)
(* use (Accounts), the limit on registrations (RegisterLimit).  They hold  *)
(* for any number of requests, accounts, processes, workers, jobs,         *)
(* restarts and addresses.                                                 *)
(***************************************************************************)
EXTENDS Accounts, Upgrade, SelfService, RegisterLimit, FiniteSetTheorems, TLAPS

-----------------------------------------------------------------------------
(* SelfService.                                                            *)

SelfSpec == SelfInit /\ [][SelfNext]_svars

Credentials == [pw : Nat, totp : Nat, last : Int, disabled : BOOLEAN,
                oauthOnly : BOOLEAN]
Request == [kind : Kind \cup {"none"},
            pc : {"idle", "password", "gate", "enroll", "oauth", "bound", "act",
                  "set", "revoke", "answer"},
            tries : Int, had : Nat, shown : Nat, pw : BOOLEAN, old : SUBSET Nat,
            told : BOOLEAN]

SelfTypes ==
    /\ cred \in Credentials /\ req \in [Req -> Request]
    /\ sshGrants \subseteq Nat /\ ver \in Nat /\ step \in Nat

\* Versions are numbered as they are made: what was seen earlier is not newer.
Numbered ==
    /\ cred.totp <= ver /\ \A g \in sshGrants : g <= ver
    /\ \A r \in Req : req[r].had <= ver /\ \A g \in req[r].old : g <= ver

\* Past the point where the code of the authenticator was asked for ...
Passed(r) == \/ req[r].pc \in {"act", "set"}
             \/ req[r].kind \in Ssh /\ req[r].pc \in {"password", "enroll"}
\* ... one that was there before the request and still is has been shown.
CodeInv(r) ==
    req[r].kind # "console" /\ Passed(r) /\ req[r].had # 0 /\ req[r].had = cred.totp
      => req[r].shown = cred.totp

PasswordInv(r) ==
    \/ req[r].pw
    \/ /\ req[r].kind \in Http => req[r].pc \notin {"oauth", "bound", "act", "set"}
       /\ req[r].kind = "@passwd" => req[r].pc \notin {"act", "set"}

ToldInv(r) ==
    req[r].told => req[r].pc = "answer" /\ req[r].old \cap sshGrants = {}

SelfInv == /\ SelfTypes /\ Numbered
           /\ \A r \in Req : CodeInv(r) /\ PasswordInv(r) /\ ToldInv(r)

\* What others do to what a request rests on: versions grow, an authenticator
\* goes or is a new one, grants go or are new ones.
Ages ==
    /\ ver' \in Nat /\ ver' >= ver
    /\ cred'.totp = cred.totp \/ cred'.totp = 0 \/ cred'.totp > ver
    /\ \A g \in sshGrants' : g \in sshGrants \/ g > ver

LEMMA RequestAges ==
    ASSUME SelfInv, NEW r \in Req, req'[r] = req[r], Ages
    PROVE  CodeInv(r)' /\ PasswordInv(r)' /\ ToldInv(r)'
<1>1. /\ req[r].had <= ver /\ req[r].had \in Nat /\ cred.totp \in Nat /\ ver \in Nat
      /\ \A g \in req[r].old : g <= ver /\ g \in Nat
      /\ CodeInv(r) /\ PasswordInv(r) /\ ToldInv(r)
  BY DEF SelfInv, SelfTypes, Numbered, Request, Credentials
<1>2. CodeInv(r)'
  <2>1. Passed(r)' = Passed(r)
    BY DEF Passed
  <2> QED BY <1>1, <2>1 DEF CodeInv, Ages
<1>3. PasswordInv(r)'
  BY <1>1 DEF PasswordInv
<1>4. ToldInv(r)'
  BY <1>1 DEF ToldInv, Ages
<1> QED BY <1>2, <1>3, <1>4

\* A step of one request.
LEMMA RequestSteps ==
    ASSUME SelfInv, NEW r \in Req, NEW a \in Request, req' = [req EXCEPT ![r] = a],
           Ages, step' = step, cred' \in Credentials, sshGrants' \subseteq Nat,
           cred'.totp <= ver', \A g \in sshGrants' : g <= ver',
           a.had <= ver, \A g \in a.old : g <= ver,
           CodeInv(r)', PasswordInv(r)', ToldInv(r)'
    PROVE  SelfInv'
<1>1. SelfTypes'
  BY DEF SelfInv, SelfTypes, Ages
<1>2. Numbered'
  <2>1. \A x \in Req : req'[x] = IF x = r THEN a ELSE req[x]
    BY DEF SelfInv, SelfTypes
  <2>2. \A x \in Req : req'[x].had <= ver /\ \A g \in req'[x].old : g <= ver
    BY <2>1 DEF SelfInv, Numbered
  <2>3. \A x \in Req : req'[x].had \in Nat /\ \A g \in req'[x].old : g \in Nat
    BY <1>1 DEF SelfTypes, Request
  <2>4. \A n \in Nat : n <= ver => n <= ver'
    BY DEF Ages, SelfInv, SelfTypes
  <2> QED BY <2>2, <2>3, <2>4 DEF Numbered
<1>3. ASSUME NEW x \in Req, x # r
      PROVE  CodeInv(x)' /\ PasswordInv(x)' /\ ToldInv(x)'
  <2>1. req'[x] = req[x]
    BY <1>3 DEF SelfInv, SelfTypes
  <2> QED BY <2>1, RequestAges
<1> QED BY <1>1, <1>2, <1>3 DEF SelfInv

LEMMA SelfFacts ==
    ASSUME SelfInv, NEW r \in Req
    PROVE  /\ cred \in Credentials /\ req \in [Req -> Request] /\ req[r] \in Request
           /\ cred.totp <= ver /\ cred.totp \in Nat /\ ver \in Nat /\ step \in Nat
           /\ req[r].had <= ver /\ sshGrants \subseteq Nat
           /\ \A g \in sshGrants : g <= ver
           /\ \A g \in req[r].old : g <= ver
           /\ CodeInv(r) /\ PasswordInv(r) /\ ToldInv(r)
BY DEF SelfInv, SelfTypes, Numbered, Credentials

\* Changes of an account's credentials.
LEMMA CredTotp ==
    ASSUME cred \in Credentials, NEW t \in Nat, NEW l \in Int,
           cred' = [cred EXCEPT !.totp = t, !.last = l]
    PROVE  cred' \in Credentials /\ cred'.totp = t
BY DEF Credentials

LEMMA CredPassword ==
    ASSUME cred \in Credentials, NEW p \in Nat, cred' = [cred EXCEPT !.pw = p]
    PROVE  cred' \in Credentials /\ cred'.totp = cred.totp
BY DEF Credentials

LEMMA CredFlags ==
    ASSUME cred \in Credentials, NEW d \in BOOLEAN, NEW o \in BOOLEAN,
           cred' = [cred EXCEPT !.disabled = d, !.oauthOnly = o]
    PROVE  cred' \in Credentials /\ cred'.totp = cred.totp
BY DEF Credentials

LEMMA CredDropped ==
    ASSUME cred \in Credentials, cred' = [cred EXCEPT !.totp = 0, !.last = 0]
    PROVE  cred' \in Credentials /\ cred'.totp = 0
<1>1. PICK t \in Nat, l \in Int : t = 0 /\ l = 0
  OBVIOUS
<1>2. cred' = [cred EXCEPT !.totp = t, !.last = l]
  BY <1>1
<1>3. cred' \in Credentials /\ cred'.totp = t
  BY <1>2 DEF Credentials
<1> QED BY <1>1, <1>3

LEMMA IdleFacts ==
    Idle \in Request /\ Idle.kind = "none" /\ Idle.pc = "idle" /\ Idle.had = 0
    /\ Idle.old = {} /\ ~Idle.told /\ ~Idle.pw /\ Idle.tries = 0 /\ Idle.shown = 0
BY DEF Idle, Request

\* A request that is over.
LEMMA RefuseStep ==
    ASSUME SelfInv, NEW r \in Req, Refuse(r), Ages, step' = step,
           cred' \in Credentials, sshGrants' \subseteq Nat,
           cred'.totp <= ver', \A g \in sshGrants' : g <= ver'
    PROVE  SelfInv'
<1>1. req' = [req EXCEPT ![r] = Idle] /\ req'[r] = Idle
  BY SelfFacts DEF Refuse
<1>2. CodeInv(r)' /\ PasswordInv(r)' /\ ToldInv(r)'
  BY <1>1, IdleFacts DEF CodeInv, Passed, PasswordInv, ToldInv, Http
<1>3. Idle.had <= ver /\ \A g \in Idle.old : g <= ver
  BY SelfFacts, IdleFacts
<1> QED BY <1>1, <1>2, <1>3, IdleFacts, RequestSteps

\* A request that goes on while nothing else changes.
LEMMA RestedFacts ==
    ASSUME SelfInv, NEW r \in Req, Rested
    PROVE  /\ Ages /\ step' = step /\ cred' = cred /\ sshGrants' = sshGrants /\ ver' = ver
           /\ cred' \in Credentials /\ sshGrants' \subseteq Nat
           /\ cred'.totp <= ver' /\ \A g \in sshGrants' : g <= ver'
BY SelfFacts DEF Rested, Ages

\* A request moves on to pc and nothing else changes.
LEMMA MoveStep ==
    ASSUME SelfInv, NEW r \in Req, NEW pc, Move(r, pc), Rested,
           pc \in {"enroll", "oauth", "bound", "act", "set", "answer"},
           [req[r] EXCEPT !.pc = pc] \in Request, ~req[r].told,
           CodeInv(r)', PasswordInv(r)'
    PROVE  SelfInv'
<1> DEFINE a == [req[r] EXCEPT !.pc = pc]
<1>1. req' = [req EXCEPT ![r] = a] /\ req'[r] = a
  BY SelfFacts DEF Move
<1>2. a.had = req[r].had /\ a.old = req[r].old /\ a.told = req[r].told
  BY SelfFacts DEF Request
<1>3. ToldInv(r)'
  BY <1>1, <1>2 DEF ToldInv
<1>4. a.had <= ver /\ \A g \in a.old : g <= ver
  BY <1>2, SelfFacts
<1>5. a \in Request
  OBVIOUS
<1> HIDE DEF a
<1> QED BY <1>1, <1>3, <1>4, <1>5, RestedFacts, RequestSteps

LEMMA AskStep ==
    ASSUME SelfInv, NEW r \in Req, NEW k \in Kind, Ask(r, k)
    PROVE  SelfInv'
<1> DEFINE a == [Idle EXCEPT !.kind = k, !.had = cred.totp,
                !.pc = CASE k \in Http -> "password" [] k \in Ssh -> "gate"
                         [] OTHER -> "enroll"]
<1>1. req' = [req EXCEPT ![r] = a] /\ Rested /\ req'[r] = a
  BY SelfFacts DEF Ask
<1>2. /\ a.kind = k /\ a.had = cred.totp /\ a.old = {} /\ ~a.told
      /\ a.pc \in {"password", "gate", "enroll"}
      /\ k \in Http => a.pc = "password"
      /\ k \in Ssh => a.pc = "gate"
  BY DEF Idle, Http, Ssh
<1>3. a \in Request
  <2> DEFINE p == CASE k \in Http -> "password" [] k \in Ssh -> "gate"
                    [] OTHER -> "enroll"
  <2>1. p \in {"password", "gate", "enroll"}
    OBVIOUS
  <2> HIDE DEF p
  <2>2. [Idle EXCEPT !.kind = k, !.had = cred.totp, !.pc = p] \in Request
    <3>1. cred.totp \in Nat
      BY SelfFacts
    <3> QED BY <2>1, <3>1, IdleFacts DEF Request
  <2> QED BY <2>2 DEF p
<1>4. k = "console" \/ k \in Http \/ k \in Ssh
  BY DEF Kind
<1>5. k \in Ssh => k \notin Http
  BY DEF Ssh, Http
<1> HIDE DEF a
<1>6. CodeInv(r)'
  BY <1>1, <1>2, <1>4, <1>5 DEF CodeInv, Passed
<1>7. PasswordInv(r)' /\ ToldInv(r)'
  BY <1>1, <1>2, <1>4, <1>5 DEF PasswordInv, ToldInv
<1>8. a.had <= ver /\ \A g \in a.old : g <= ver
  BY <1>2, SelfFacts
<1> QED BY <1>1, <1>3, <1>6, <1>7, <1>8, RestedFacts, RequestSteps

LEMMA totpCallerStep ==
    ASSUME SelfInv, NEW r \in Req, totpCaller(r)
    PROVE  SelfInv'
<1>1. Rested /\ In(r, "password", Http)
  BY DEF totpCaller
<1>2. CASE Refuse(r)
  BY <1>1, <1>2, RestedFacts, RefuseStep
<1>3. CASE req' = [req EXCEPT ![r].pc = "oauth", ![r].pw = TRUE]
  <2> DEFINE a == [req[r] EXCEPT !.pc = "oauth", !.pw = TRUE]
  <2>1. req' = [req EXCEPT ![r] = a] /\ req'[r] = a
    BY <1>3, SelfFacts
  <2>2. /\ a \in Request /\ a.had = req[r].had /\ a.old = req[r].old
        /\ a.told = req[r].told /\ a.pc = "oauth" /\ a.pw /\ a.kind = req[r].kind
    BY SelfFacts DEF Request
  <2> HIDE DEF a
  <2>3. CodeInv(r)' /\ PasswordInv(r)'
    BY <2>1, <2>2 DEF CodeInv, Passed, PasswordInv
  <2>4. ToldInv(r)'
    BY <2>1, <2>2, <1>1, SelfFacts DEF ToldInv, In
  <2> QED BY <2>1, <2>2, <2>3, <2>4, <1>1, SelfFacts, RestedFacts, RequestSteps
<1> QED BY <1>2, <1>3 DEF totpCaller

LEMMA CountedStep ==
    ASSUME SelfInv, NEW r \in Req, Counted(r)
    PROVE  SelfInv'
<1>1. Rested /\ In(r, "oauth", Http)
  BY DEF Counted
<1>2. CASE Refuse(r)
  BY <1>1, <1>2, RestedFacts, RefuseStep
<1>3. CASE Move(r, "bound")
  <2>1. /\ [req[r] EXCEPT !.pc = "bound"] \in Request /\ ~req[r].told
        /\ req'[r] = [req[r] EXCEPT !.pc = "bound"]
    BY <1>1, <1>3, SelfFacts DEF Request, Move, In, ToldInv
  <2>2. req'[r].pc = "bound" /\ req'[r].kind = req[r].kind /\ req'[r].pw = req[r].pw
    BY <2>1, SelfFacts DEF Request
  <2>3. req[r].pw
    BY <1>1, SelfFacts DEF In, PasswordInv
  <2>4. CodeInv(r)' /\ PasswordInv(r)'
    BY <2>2, <2>3 DEF CodeInv, Passed, PasswordInv
  <2> QED BY <2>1, <2>4, <1>1, <1>3, MoveStep
<1> QED BY <1>2, <1>3 DEF Counted

LEMMA totpBoundStep ==
    ASSUME SelfInv, NEW r \in Req, totpBound(r)
    PROVE  SelfInv'
<1>1. In(r, "bound", Http) /\ req[r].pw /\ ~req[r].told
  BY SelfFacts DEF totpBound, In, PasswordInv, ToldInv
<1>2. CASE Refuse(r) /\ Rested
  BY <1>2, RestedFacts, RefuseStep
<1>3. CASE ~ MustShow(r) /\ Move(r, "act") /\ Rested
  <2>1. /\ [req[r] EXCEPT !.pc = "act"] \in Request
        /\ req'[r] = [req[r] EXCEPT !.pc = "act"]
    BY <1>3, SelfFacts DEF Request, Move
  <2>2. req'[r].pw = req[r].pw /\ req'[r].had = req[r].had
    BY <2>1, SelfFacts DEF Request
  <2>3. cred'.totp = 0
    BY <1>3, SelfFacts DEF MustShow, Bound, Rested
  <2>4. CodeInv(r)' /\ PasswordInv(r)'
    BY <2>2, <2>3, <1>1 DEF CodeInv, PasswordInv
  <2> QED BY <2>1, <2>4, <1>1, <1>3, MoveStep
<1>4. CASE VerifyTOTP(r)
  <2> DEFINE a == [req[r] EXCEPT !.pc = "act", !.shown = cred.totp]
  <2>1. req' = [req EXCEPT ![r] = a] /\ req'[r] = a
    BY <1>4, SelfFacts DEF VerifyTOTP
  <2>2. /\ a \in Request /\ a.had = req[r].had /\ a.old = req[r].old
        /\ a.told = req[r].told /\ a.pc = "act" /\ a.pw = req[r].pw
        /\ a.shown = cred.totp
    BY SelfFacts DEF Request
  <2>3. /\ cred' = [cred EXCEPT !.last = step] /\ sshGrants' = sshGrants
        /\ ver' = ver /\ step' = step
    BY <1>4 DEF VerifyTOTP
  <2>4. /\ cred' \in Credentials /\ cred'.totp = cred.totp /\ Ages
        /\ sshGrants' \subseteq Nat /\ \A g \in sshGrants' : g <= ver'
        /\ cred'.totp <= ver'
    BY <2>3, SelfFacts DEF Credentials, Ages
  <2> HIDE DEF a
  <2>5. CodeInv(r)' /\ PasswordInv(r)' /\ ToldInv(r)'
    BY <2>1, <2>2, <2>4, <1>1 DEF CodeInv, PasswordInv, ToldInv
  <2> QED BY <2>1, <2>2, <2>3, <2>4, <2>5, SelfFacts, RequestSteps
<1> QED BY <1>2, <1>3, <1>4 DEF totpBound

LEMMA mgmtReverifyStep ==
    ASSUME SelfInv, NEW r \in Req, mgmtReverifyTOTP(r)
    PROVE  SelfInv'
<1> DEFINE next == IF req[r].kind = "@passwd" THEN "password"
                   ELSE IF req[r].kind = "@totp" THEN "enroll" ELSE "act"
<1>1. /\ In(r, "gate", Ssh) /\ ~req[r].told /\ req[r].kind \notin Http
      /\ next \in {"password", "enroll", "act"} /\ (req[r].kind = "@passwd" => next = "password")
  BY SelfFacts DEF mgmtReverifyTOTP, In, ToldInv, Ssh, Http
<1>0. next \in {"password", "enroll", "act"}
  OBVIOUS
<1> HIDE DEF next
<1>2. CASE ~ Bound /\ req' = [req EXCEPT ![r].pc = next, ![r].tries = 0] /\ Rested
  <2> DEFINE a == [req[r] EXCEPT !.pc = next, !.tries = 0]
  <2>1. req' = [req EXCEPT ![r] = a] /\ req'[r] = a
    BY <1>2, SelfFacts
  <2>2. /\ a \in Request /\ a.had = req[r].had /\ a.old = req[r].old
        /\ a.told = req[r].told /\ a.pc = next /\ a.kind = req[r].kind
    <3>1. PICK n \in Int : n = 0
      OBVIOUS
    <3>2. a = [req[r] EXCEPT !.pc = next, !.tries = n] /\ req[r] \in Request
      BY <3>1, SelfFacts
    <3> HIDE DEF a
    <3> QED BY <1>0, <3>2 DEF Request
  <2>3. cred'.totp = 0
    BY <1>2, SelfFacts DEF Bound, Rested
  <2> HIDE DEF a
  <2>4. CodeInv(r)' /\ PasswordInv(r)' /\ ToldInv(r)'
    BY <2>1, <2>2, <2>3, <1>1 DEF CodeInv, PasswordInv, ToldInv
  <2> QED BY <2>1, <2>2, <2>4, <1>2, SelfFacts, RestedFacts, RequestSteps
<1>3. CASE /\ cred' = [cred EXCEPT !.last = step]
           /\ req' = [req EXCEPT ![r].pc = next, ![r].tries = 0, ![r].shown = cred.totp]
           /\ UNCHANGED <<sshGrants, ver, step>>
  <2> DEFINE a == [req[r] EXCEPT !.pc = next, !.tries = 0, !.shown = cred.totp]
  <2>1. req' = [req EXCEPT ![r] = a] /\ req'[r] = a
    BY <1>3, SelfFacts
  <2>2. /\ a \in Request /\ a.had = req[r].had /\ a.old = req[r].old
        /\ a.told = req[r].told /\ a.pc = next /\ a.kind = req[r].kind
        /\ a.shown = cred.totp
    <3>1. PICK n \in Int : n = 0
      OBVIOUS
    <3>2. /\ a = [req[r] EXCEPT !.pc = next, !.tries = n, !.shown = cred.totp]
          /\ req[r] \in Request /\ cred.totp \in Nat
      BY <3>1, SelfFacts
    <3> HIDE DEF a
    <3> QED BY <1>0, <3>2 DEF Request
  <2>4. /\ cred' \in Credentials /\ cred'.totp = cred.totp /\ Ages
        /\ sshGrants' \subseteq Nat /\ \A g \in sshGrants' : g <= ver'
        /\ cred'.totp <= ver'
    BY <1>3, SelfFacts DEF Credentials, Ages
  <2> HIDE DEF a
  <2>5. CodeInv(r)' /\ PasswordInv(r)' /\ ToldInv(r)'
    BY <2>1, <2>2, <2>4, <1>1 DEF CodeInv, PasswordInv, ToldInv
  <2> QED BY <2>1, <2>2, <1>3, <2>4, <2>5, SelfFacts, RequestSteps
<1>4. CASE Rested /\ Refuse(r)
  BY <1>4, RestedFacts, RefuseStep
<1>5. CASE Rested /\ req' = [req EXCEPT ![r].tries = @ + 1]
  <2> DEFINE a == [req[r] EXCEPT !.tries = @ + 1]
  <2>1. req' = [req EXCEPT ![r] = a] /\ req'[r] = a
    BY <1>5, SelfFacts
  <2>2. /\ a \in Request /\ a.had = req[r].had /\ a.old = req[r].old
        /\ a.told = req[r].told /\ a.pc = req[r].pc /\ a.kind = req[r].kind
    BY SelfFacts DEF Request
  <2> HIDE DEF a
  <2>4. CodeInv(r)' /\ PasswordInv(r)' /\ ToldInv(r)'
    BY <2>1, <2>2, <1>1 DEF CodeInv, Passed, PasswordInv, ToldInv, In
  <2> QED BY <2>1, <2>2, <2>4, <1>5, SelfFacts, RestedFacts, RequestSteps
<1> QED BY <1>2, <1>3, <1>4, <1>5 DEF mgmtReverifyTOTP, next

LEMMA OldPasswordStep ==
    ASSUME SelfInv, NEW r \in Req, OldPassword(r)
    PROVE  SelfInv'
<1>1. /\ Rested /\ In(r, "password", {"@passwd"}) /\ ~req[r].told
      /\ req[r].kind \in Ssh /\ req[r].kind \notin Http /\ Passed(r)
  BY SelfFacts DEF OldPassword, In, ToldInv, Ssh, Http, Passed
<1>2. CASE Refuse(r)
  BY <1>1, <1>2, RestedFacts, RefuseStep
<1>3. CASE req' = [req EXCEPT ![r].pc = "act", ![r].pw = TRUE]
  <2> DEFINE a == [req[r] EXCEPT !.pc = "act", !.pw = TRUE]
  <2>1. req' = [req EXCEPT ![r] = a] /\ req'[r] = a
    BY <1>3, SelfFacts
  <2>2. /\ a \in Request /\ a.had = req[r].had /\ a.old = req[r].old
        /\ a.told = req[r].told /\ a.pc = "act" /\ a.pw /\ a.kind = req[r].kind
        /\ a.shown = req[r].shown
    BY SelfFacts DEF Request
  <2> HIDE DEF a
  <2>3. CodeInv(r)' /\ PasswordInv(r)' /\ ToldInv(r)'
    BY <2>1, <2>2, <1>1, SelfFacts, RestedFacts DEF CodeInv, PasswordInv, ToldInv
  <2> QED BY <2>1, <2>2, <2>3, <1>1, SelfFacts, RestedFacts, RequestSteps
<1>4. CASE req' = [req EXCEPT ![r].tries = @ + 1]
  <2> DEFINE a == [req[r] EXCEPT !.tries = @ + 1]
  <2>1. req' = [req EXCEPT ![r] = a] /\ req'[r] = a
    BY <1>4, SelfFacts
  <2>2. /\ a \in Request /\ a.had = req[r].had /\ a.old = req[r].old
        /\ a.told = req[r].told /\ a.pc = req[r].pc /\ a.kind = req[r].kind
        /\ a.shown = req[r].shown /\ a.pw = req[r].pw
    BY SelfFacts DEF Request
  <2> HIDE DEF a
  <2>3. CodeInv(r)' /\ PasswordInv(r)' /\ ToldInv(r)'
    BY <2>1, <2>2, <1>1, SelfFacts, RestedFacts DEF CodeInv, PasswordInv, ToldInv, Passed
  <2> QED BY <2>1, <2>2, <2>3, <1>1, SelfFacts, RestedFacts, RequestSteps
<1> QED BY <1>2, <1>3, <1>4 DEF OldPassword

LEMMA ConfirmedStep ==
    ASSUME SelfInv, NEW r \in Req, Confirmed(r)
    PROVE  SelfInv'
<1>1. /\ Rested /\ In(r, "enroll", {"@totp", "console"}) /\ ~req[r].told
      /\ req[r].kind \notin Http /\ req[r].kind # "@passwd"
      /\ req[r].kind # "console" => Passed(r)
  BY SelfFacts DEF Confirmed, In, ToldInv, Http, Passed, Ssh
<1>2. CASE Refuse(r)
  BY <1>1, <1>2, RestedFacts, RefuseStep
<1>3. CASE Move(r, "act")
  <2>1. /\ [req[r] EXCEPT !.pc = "act"] \in Request
        /\ req'[r] = [req[r] EXCEPT !.pc = "act"]
    BY <1>3, SelfFacts DEF Request, Move
  <2>2. /\ req'[r].kind = req[r].kind /\ req'[r].had = req[r].had
        /\ req'[r].shown = req[r].shown
    BY <2>1, SelfFacts DEF Request
  <2>3. CodeInv(r)' /\ PasswordInv(r)'
    BY <2>2, <1>1, SelfFacts, RestedFacts DEF CodeInv, PasswordInv
  <2> QED BY <2>1, <2>3, <1>1, <1>3, MoveStep
<1> QED BY <1>2, <1>3 DEF Confirmed

LEMMA EnrollStep ==
    ASSUME SelfInv, NEW r \in Req, EnrollTOTP(r)
    PROVE  SelfInv'
<1>1. Refuse(r) /\ sshGrants' = sshGrants /\ step' = step
  BY DEF EnrollTOTP
<1>2. CASE ver' = ver + 1 /\ cred' = [cred EXCEPT !.totp = ver', !.last = step]
  <2>0. /\ ver' \in Nat /\ ver' > ver
    BY <1>2, SelfFacts
  <2>1. /\ cred' \in Credentials /\ cred'.totp = ver'
    <3>1. cred \in Credentials /\ step \in Int
      BY SelfFacts
    <3> QED BY <3>1, <1>2, <2>0, CredTotp
  <2>2. Ages /\ sshGrants' \subseteq Nat /\ \A g \in sshGrants' : g <= ver'
    BY <2>0, <2>1, <1>1, <1>2, SelfFacts DEF Ages
  <2> QED BY <2>0, <2>1, <2>2, <1>1, RefuseStep
<1>3. CASE UNCHANGED <<ver, cred>>
  BY <1>1, <1>3, RestedFacts, RefuseStep DEF Rested
<1> QED BY <1>2, <1>3 DEF EnrollTOTP

LEMMA RemoveStep ==
    ASSUME SelfInv, NEW r \in Req, RemoveTOTP(r)
    PROVE  SelfInv'
<1>1. /\ Refuse(r) /\ sshGrants' = sshGrants /\ step' = step /\ ver' = ver
      /\ cred' = [cred EXCEPT !.totp = 0, !.last = 0]
  BY DEF RemoveTOTP
<1>2. cred' \in Credentials /\ cred'.totp = 0
  BY <1>1, SelfFacts, CredDropped
<1>3. Ages /\ sshGrants' \subseteq Nat /\ cred'.totp <= ver' /\ \A g \in sshGrants' : g <= ver'
  BY <1>1, <1>2, SelfFacts DEF Ages
<1> QED BY <1>1, <1>2, <1>3, RefuseStep

LEMMA BeginPasswdStep ==
    ASSUME SelfInv, NEW r \in Req, BeginPasswd(r)
    PROVE  SelfInv'
<1>1. /\ req[r].pc = "act" /\ Move(r, "set") /\ Rested /\ ~req[r].told
      /\ Passed(r) /\ req[r].kind \in {"passwd", "@passwd"}
  BY SelfFacts DEF BeginPasswd, PasswdOrder, ToldInv, Passed, Changing
<1>2. /\ [req[r] EXCEPT !.pc = "set"] \in Request
      /\ req'[r] = [req[r] EXCEPT !.pc = "set"]
  BY <1>1, SelfFacts DEF Request, Move
<1>3. /\ req'[r].kind = req[r].kind /\ req'[r].had = req[r].had
      /\ req'[r].shown = req[r].shown /\ req'[r].pw = req[r].pw
  BY <1>2, SelfFacts DEF Request
<1>4. CodeInv(r)' /\ PasswordInv(r)'
  BY <1>3, <1>1, SelfFacts, RestedFacts DEF CodeInv, PasswordInv
<1> QED BY <1>1, <1>2, <1>4, MoveStep

LEMMA SetPasswordStep ==
    ASSUME SelfInv, NEW r \in Req, SetPassword(r)
    PROVE  SelfInv'
<1>1. req[r].pc = "set" /\ sshGrants' = sshGrants /\ step' = step /\ ~req[r].told
  BY SelfFacts DEF SetPassword, ToldInv
<1>2. CASE Refuse(r) /\ UNCHANGED <<cred, ver>>
  BY <1>1, <1>2, RestedFacts, RefuseStep DEF Rested
<1>3. CASE /\ ver' = ver + 1 /\ cred' = [cred EXCEPT !.pw = ver']
           /\ req' = [req EXCEPT ![r].pc = NextPc("set"), ![r].old = sshGrants]
  <2> DEFINE a == [req[r] EXCEPT !.pc = "revoke", !.old = sshGrants]
  <2>1. req' = [req EXCEPT ![r] = a] /\ req'[r] = a
    BY <1>3, SelfFacts DEF NextPc, PasswdOrder
  <2>2. /\ a \in Request /\ a.had = req[r].had /\ a.old = sshGrants
        /\ ~a.told /\ a.pc = "revoke" /\ a.kind = req[r].kind
    BY <1>1, SelfFacts DEF Request
  <2>3. /\ ver' \in Nat /\ ver' > ver /\ cred' \in Credentials /\ cred'.totp = cred.totp
    BY <1>3, SelfFacts DEF Credentials
  <2>4. /\ Ages /\ sshGrants' \subseteq Nat /\ cred'.totp <= ver'
        /\ \A g \in sshGrants' : g <= ver'
    BY <2>3, <1>1, <1>3, SelfFacts DEF Ages
  <2> HIDE DEF a
  <2>5. CodeInv(r)' /\ PasswordInv(r)' /\ ToldInv(r)'
    BY <2>1, <2>2 DEF CodeInv, Passed, PasswordInv, ToldInv
  <2> QED BY <2>1, <2>2, <2>3, <2>4, <2>5, <1>1, SelfFacts, RequestSteps
<1> QED BY <1>2, <1>3 DEF SetPassword

LEMMA RevokeStep ==
    ASSUME SelfInv, NEW r \in Req, RevokeSSHGrants(r)
    PROVE  SelfInv'
<1>1. /\ req[r].pc = "revoke" /\ cred' = cred /\ ver' = ver /\ step' = step
      /\ ~req[r].told
  BY SelfFacts DEF RevokeSSHGrants, ToldInv
<1>2. CASE /\ sshGrants' = {}
           /\ req' = [req EXCEPT ![r].pc = NextPc("revoke"), ![r].told = TRUE]
  <2> DEFINE a == [req[r] EXCEPT !.pc = "answer", !.told = TRUE]
  <2>1. req' = [req EXCEPT ![r] = a] /\ req'[r] = a
    BY <1>2, SelfFacts DEF NextPc, PasswdOrder
  <2>2. /\ a \in Request /\ a.had = req[r].had /\ a.old = req[r].old
        /\ a.pc = "answer" /\ a.kind = req[r].kind
    BY SelfFacts DEF Request
  <2>4. /\ Ages /\ sshGrants' \subseteq Nat /\ cred'.totp <= ver'
        /\ cred' \in Credentials /\ \A g \in sshGrants' : g <= ver'
    BY <1>1, <1>2, SelfFacts DEF Ages
  <2> HIDE DEF a
  <2>5. CodeInv(r)' /\ PasswordInv(r)' /\ ToldInv(r)'
    BY <2>1, <2>2, <1>2 DEF CodeInv, Passed, PasswordInv, ToldInv
  <2> QED BY <2>1, <2>2, <2>4, <2>5, <1>1, SelfFacts, RequestSteps
<1>3. CASE Move(r, NextPc("revoke")) /\ sshGrants' = sshGrants
  <2>1. Rested /\ Move(r, "answer")
    BY <1>1, <1>3 DEF Rested, NextPc, PasswdOrder
  <2>2. /\ [req[r] EXCEPT !.pc = "answer"] \in Request
        /\ req'[r] = [req[r] EXCEPT !.pc = "answer"]
    BY <2>1, SelfFacts DEF Request, Move
  <2>3. req'[r].pc = "answer"
    BY <2>2, SelfFacts DEF Request
  <2>4. CodeInv(r)' /\ PasswordInv(r)'
    BY <2>3 DEF CodeInv, PasswordInv, Passed
  <2> QED BY <2>1, <2>2, <2>4, <1>1, MoveStep
<1> QED BY <1>2, <1>3 DEF RevokeSSHGrants

\* What is not a step of a request.
LEMMA OthersStep ==
    ASSUME SelfInv,
           AdminPassword \/ AdminFlags \/ AdminRemovesTOTP \/ NewGrant \/ TotpTick
    PROVE  SelfInv'
<1>1. req' = req
  BY DEF AdminPassword, AdminFlags, AdminRemovesTOTP, NewGrant, TotpTick
<1>2. cred \in Credentials /\ ver \in Nat /\ step \in Nat /\ sshGrants \subseteq Nat
      /\ cred.totp \in Nat /\ cred.totp <= ver /\ \A g \in sshGrants : g <= ver
  BY DEF SelfInv, SelfTypes, Numbered, Credentials
<1>3. /\ ver' \in Nat /\ (ver' = ver \/ ver' = ver + 1) /\ ver' >= ver /\ step' \in Nat
  <2>1. ver' = ver \/ ver' = ver + 1
    BY DEF AdminPassword, AdminFlags, AdminRemovesTOTP, NewGrant, TotpTick
  <2>2. step' = step \/ step' = step + 1
    BY DEF AdminPassword, AdminFlags, AdminRemovesTOTP, NewGrant, TotpTick
  <2> QED BY <1>2, <2>1, <2>2
<1>4. cred' \in Credentials /\ (cred'.totp = cred.totp \/ cred'.totp = 0)
  <2>1. CASE AdminPassword
    BY <2>1, <1>2, <1>3, CredPassword DEF AdminPassword
  <2>2. CASE AdminFlags
    BY <2>2, <1>2, CredFlags DEF AdminFlags
  <2>3. CASE AdminRemovesTOTP
    BY <2>3, <1>2, CredDropped DEF AdminRemovesTOTP
  <2>4. CASE NewGrant \/ TotpTick
    BY <2>4, <1>2 DEF NewGrant, TotpTick
  <2> QED BY <2>1, <2>2, <2>3, <2>4
<1>5. \A g \in sshGrants' : g \in sshGrants \/ (g > ver /\ g \in Nat /\ g <= ver')
  <2>1. sshGrants' = sshGrants \/ (ver' = ver + 1 /\ sshGrants' = sshGrants \cup {ver'})
    BY DEF AdminPassword, AdminFlags, AdminRemovesTOTP, NewGrant, TotpTick
  <2> QED BY <2>1, <1>2, <1>3
<1>6. Ages
  BY <1>3, <1>4, <1>5 DEF Ages
<1>7. SelfTypes'
  BY <1>1, <1>3, <1>4, <1>5 DEF SelfTypes, SelfInv
<1>8. Numbered'
  <2>2. \A n \in Nat : n <= ver => n <= ver'
    BY <1>2, <1>3
  <2>1. cred'.totp <= ver'
    BY <1>2, <1>3, <1>4
  <2>4. \A g \in sshGrants' : g <= ver'
    BY <1>2, <1>5, <2>2
  <2>3. \A r \in Req : req[r].had \in Nat /\ req[r].old \subseteq Nat
    BY DEF SelfInv, SelfTypes, Request
  <2> QED BY <1>1, <2>1, <2>2, <2>3, <2>4 DEF Numbered, SelfInv
<1>9. \A r \in Req : CodeInv(r)' /\ PasswordInv(r)' /\ ToldInv(r)'
  BY <1>1, <1>6, RequestAges
<1> QED BY <1>7, <1>8, <1>9 DEF SelfInv

LEMMA SelfStep ==
    ASSUME SelfInv, [SelfNext]_svars
    PROVE  SelfInv'
<1>1. CASE UNCHANGED svars
  <2>1. cred' = cred /\ sshGrants' = sshGrants /\ req' = req /\ ver' = ver /\ step' = step
    BY <1>1 DEF svars
  <2> QED BY <2>1 DEF SelfInv, SelfTypes, Numbered, CodeInv, Passed, PasswordInv, ToldInv
<1>2. ASSUME NEW r \in Req,
             \/ \E k \in Kind : Ask(r, k)
             \/ totpCaller(r) \/ Counted(r) \/ totpBound(r) \/ handleTOTPBegin(r)
             \/ mgmtReverifyTOTP(r) \/ OldPassword(r) \/ Confirmed(r)
             \/ EnrollTOTP(r) \/ RemoveTOTP(r) \/ ChangeKeys(r)
             \/ BeginPasswd(r) \/ SetPassword(r) \/ RevokeSSHGrants(r) \/ AnswerPasswd(r)
      PROVE  SelfInv'
  <2>1. CASE handleTOTPBegin(r) \/ ChangeKeys(r) \/ AnswerPasswd(r)
    <3>1. Refuse(r) /\ Rested
      BY <2>1 DEF handleTOTPBegin, ChangeKeys, AnswerPasswd
    <3> QED BY <3>1, RestedFacts, RefuseStep
  <2> QED BY <1>2, <2>1, AskStep, totpCallerStep, CountedStep, totpBoundStep,
             mgmtReverifyStep, OldPasswordStep, ConfirmedStep, EnrollStep, RemoveStep,
             BeginPasswdStep, SetPasswordStep, RevokeStep
<1> QED BY <1>1, <1>2, OthersStep DEF SelfNext

\* Whatever requests are under way at once, and whatever administrators do: a
\* request that is past the question for a code has shown one of the
\* authenticator that was there before it, if that one is still there
\* (totpBound, mgmtReverifyTOTP); past the question for the password, the
\* password; and the answer after a sweep of the grants is about grants that
\* are gone.
THEOREM SelfInvariant == SelfSpec => []SelfInv
<1>1. SelfInit => SelfInv
  <2> SUFFICES ASSUME SelfInit PROVE SelfInv
    OBVIOUS
  <2>1. SelfTypes
    BY IdleFacts DEF SelfInit, SelfTypes, Credentials
  <2>2. Numbered
    BY IdleFacts DEF SelfInit, Numbered
  <2>3. ASSUME NEW r \in Req PROVE CodeInv(r) /\ PasswordInv(r) /\ ToldInv(r)
    <3>1. req[r] = Idle
      BY DEF SelfInit
    <3> QED BY <3>1, IdleFacts DEF CodeInv, Passed, PasswordInv, ToldInv, Http
  <2> QED BY <2>1, <2>2, <2>3 DEF SelfInv
<1> QED BY <1>1, SelfStep, PTL DEF SelfSpec

\* When handlePasswd or mgmtPasswd answers that the password is changed and its
\* statement was not refused, no grant of before the change is left, for any
\* number of requests, logins and administrators at once.
THEOREM GrantsDie == SelfSpec => []GrantsDieWithPassword
<1>1. SelfInv => GrantsDieWithPassword
  BY DEF SelfInv, ToldInv, GrantsDieWithPassword
<1> QED BY <1>1, SelfInvariant, PTL

\* A step that changes the password or the authenticator is one of a request that
\* has shown what it was asked for.
LEMMA ChangesAreEarned ==
    ASSUME SelfInv, [SelfNext]_svars, NEW r \in Req,
           req[r].kind # "console", req'[r] # req[r],
           <<cred.pw, cred.totp>>' # <<cred.pw, cred.totp>>
    PROVE  /\ req[r].had # 0 /\ req[r].had = cred.totp => req[r].shown = cred.totp
           /\ req[r].kind \in Http \cup {"@passwd"} => req[r].pw
<1>1. SelfNext /\ req' # req
  BY DEF svars
<1>2. ~(AdminPassword \/ AdminFlags \/ AdminRemovesTOTP \/ NewGrant \/ TotpTick)
  BY <1>1 DEF AdminPassword, AdminFlags, AdminRemovesTOTP, NewGrant, TotpTick
<1>3. cred' # [cred EXCEPT !.last = step] /\ cred' # cred
  <2>1. [cred EXCEPT !.last = step].pw = cred.pw /\ [cred EXCEPT !.last = step].totp = cred.totp
    BY SelfFacts DEF Credentials
  <2> QED BY <2>1
<1>4. PICK q \in Req : EnrollTOTP(q) \/ RemoveTOTP(q) \/ SetPassword(q)
  BY <1>1, <1>2, <1>3 DEF SelfNext, Ask, totpCaller, Counted, totpBound, handleTOTPBegin,
     mgmtReverifyTOTP, OldPassword, Confirmed, ChangeKeys, BeginPasswd, RevokeSSHGrants,
     AnswerPasswd, Rested, VerifyTOTP
<1>5. q = r
  BY <1>4, SelfFacts DEF EnrollTOTP, RemoveTOTP, SetPassword, Refuse
<1>6. req[r].pc \in {"act", "set"}
  BY <1>4, <1>5 DEF EnrollTOTP, RemoveTOTP, SetPassword, In
<1>7. req[r].kind \in Http \cup {"@passwd"} => req[r].pw
  BY <1>6, SelfFacts DEF PasswordInv
<1> QED BY <1>6, <1>7, SelfFacts DEF CodeInv, Passed

\* No step of any request changes the password or the authenticator without a
\* code of the one that was there before the request and still is, nor, over
\* HTTP and for @passwd, without the password (totpBound, mgmtReverifyTOTP,
\* mgmtPasswd).
THEOREM BoundNeedsCode == SelfSpec => BoundNeedsItsCode
<1>1. ASSUME SelfInv, [SelfNext]_svars
      PROVE  [\A r \in Req :
          /\ req[r].kind # "console" /\ req'[r] # req[r]
          /\ <<cred.pw, cred.totp>>' # <<cred.pw, cred.totp>>
          => /\ req[r].had # 0 /\ req[r].had = cred.totp => req[r].shown = cred.totp
             /\ req[r].kind \in Http \cup {"@passwd"} => req[r].pw]_svars
  BY <1>1, ChangesAreEarned
<1> QED BY <1>1, SelfInvariant, PTL DEF SelfSpec, BoundNeedsItsCode

-----------------------------------------------------------------------------
(* Upgrade.                                                                *)

UpgradeSpec == UpgradeInit /\ [][UpgradeNext]_uvars

Clients == Self \cup Plain \cup Issued
OpenerState ==
    [pc : {"shut", "keys", "machines", "move", "had", "columns", "backfill", "write", "open"},
     had : BOOLEAN, todo : SUBSET (Clients \ Plain)]

UpgradeTypes ==
    /\ opener \in [Opener -> OpenerState]
    /\ owned \in [DOMAIN owned -> BOOLEAN] /\ Self \cup Plain \subseteq DOMAIN owned

\* The tokens are where the tables say they are.
TokensWhere ==
    \/ "users.token_enc" \in columns /\ \A a \in Account : token[a] = {"users"}
    \/ "users.token_enc" \notin columns /\ \A a \in Account : token[a] = {"machines"}

\* What an opening has behind it is done, by whichever process.
OpenerInv(o) ==
    /\ opener[o].pc \notin {"shut", "keys"} => "users.ssh_pubkeys" \in columns
    /\ opener[o].pc \in {"had", "columns", "backfill", "write", "open"}
         => "users.token_enc" \notin columns
    /\ opener[o].pc \in {"backfill", "write", "open"}
         => \A n \in DOMAIN Later : Later[n] \in columns

UpgradeInv ==
    /\ UpgradeTypes /\ TokensWhere
    /\ \A o \in Opener : OpenerInv(o)
    /\ \A c \in Plain : ~ owned[c]

LEMMA ShutFacts == Shut \in OpenerState /\ Shut.pc = "shut"
BY DEF Shut, OpenerState

\* An opener's state moves on, no column but the tokens' goes, and that one not
\* while the tokens are in it.
LEMMA OpenerStep ==
    ASSUME UpgradeInv, NEW o \in Opener, NEW a \in OpenerState,
           opener' = [opener EXCEPT ![o] = a], OpenerInv(o)',
           columns \ {"users.token_enc"} \subseteq columns',
           "users.token_enc" \notin columns => "users.token_enc" \notin columns',
           TokensWhere', owned' = owned
    PROVE  UpgradeInv'
<1>1. UpgradeTypes'
  BY DEF UpgradeInv, UpgradeTypes
<1>2. ASSUME NEW x \in Opener, x # o PROVE OpenerInv(x)'
  <2>1. opener'[x] = opener[x] /\ OpenerInv(x)
    BY <1>2 DEF UpgradeInv, UpgradeTypes
  <2>2. \A n \in DOMAIN Later : Later[n] # "users.token_enc"
    BY DEF Later
  <2> QED BY <2>1, <2>2 DEF OpenerInv
<1> QED BY <1>1, <1>2 DEF UpgradeInv

\* Steps that move one opener's pc.
LEMMA PcStep ==
    ASSUME UpgradeInv, NEW o \in Opener, NEW a \in OpenerState,
           opener' = [opener EXCEPT ![o] = a],
           token' = token, columns' = columns, owned' = owned,
           a.pc = "shut" \/ a.pc = "keys" \/ OpenerInv(o)'
    PROVE  UpgradeInv'
<1>1. opener'[o] = a
  BY DEF UpgradeInv, UpgradeTypes
<1>2. OpenerInv(o)'
  BY <1>1 DEF OpenerInv
<1>3. TokensWhere'
  BY DEF UpgradeInv, TokensWhere
<1> QED BY <1>2, <1>3, OpenerStep

LEMMA UpgradeFacts ==
    ASSUME UpgradeInv, NEW o \in Opener
    PROVE  /\ opener \in [Opener -> OpenerState] /\ opener[o] \in OpenerState
           /\ OpenerInv(o) /\ TokensWhere /\ UpgradeTypes
           /\ \A c \in Plain : ~ owned[c]
BY DEF UpgradeInv, UpgradeTypes

LEMMA EnsureStep ==
    ASSUME UpgradeInv, NEW o \in Opener,
           \/ ensureColumn(o, "keys", "machines", <<"users.ssh_pubkeys">>)
           \/ ensureColumn(o, "columns", "backfill", Later)
    PROVE  UpgradeInv'
<1>1. token' = token /\ owned' = owned
  BY DEF ensureColumn
<1>2. CASE opener' = opener /\ \E c \in New : columns' = columns \cup {c}
  <2>1. PICK c \in New : columns' = columns \cup {c}
    BY <1>2
  <2>2. c # "users.token_enc"
    BY DEF New, Later
  <2>3. TokensWhere'
    BY <1>1, <2>1, <2>2, UpgradeFacts DEF TokensWhere
  <2>4. OpenerInv(o)'
    BY <1>2, <2>1, <2>2, UpgradeFacts DEF OpenerInv
  <2>5. opener' = [opener EXCEPT ![o] = opener[o]]
    BY <1>2, UpgradeFacts
  <2> QED BY <1>1, <2>1, <2>2, <2>3, <2>4, <2>5, UpgradeFacts, OpenerStep
<1>3. CASE /\ opener[o].pc = "keys" /\ Step(o, "keys", "machines") /\ columns' = columns
           /\ "users.ssh_pubkeys" \in columns
  <2> DEFINE a == [opener[o] EXCEPT !.pc = "machines"]
  <2>1. opener' = [opener EXCEPT ![o] = a] /\ opener'[o] = a
    BY <1>3, UpgradeFacts DEF Step
  <2>2. a \in OpenerState /\ a.pc = "machines"
    BY UpgradeFacts DEF OpenerState
  <2> HIDE DEF a
  <2>3. OpenerInv(o)'
    BY <1>3, <2>1, <2>2 DEF OpenerInv
  <2> QED BY <1>1, <1>3, <2>1, <2>2, <2>3, PcStep
<1>4. CASE /\ opener[o].pc = "columns" /\ Step(o, "columns", "backfill") /\ columns' = columns
           /\ \A n \in DOMAIN Later : Later[n] \in columns
  <2> DEFINE a == [opener[o] EXCEPT !.pc = "backfill"]
  <2>1. opener' = [opener EXCEPT ![o] = a] /\ opener'[o] = a
    BY <1>4, UpgradeFacts DEF Step
  <2>2. a \in OpenerState /\ a.pc = "backfill"
    BY UpgradeFacts DEF OpenerState
  <2> HIDE DEF a
  <2>3. OpenerInv(o)'
    BY <1>4, <2>1, <2>2, UpgradeFacts DEF OpenerInv
  <2> QED BY <1>1, <1>4, <2>1, <2>2, <2>3, PcStep
<1>5. CASE ensureColumn(o, "keys", "machines", <<"users.ssh_pubkeys">>)
  <2> DEFINE cols == <<"users.ssh_pubkeys">>
  <2>1. 1 \in DOMAIN cols /\ cols[1] = "users.ssh_pubkeys"
    OBVIOUS
  <2>2. \A n \in DOMAIN cols : cols[n] \in New
    BY DEF New
  <2> HIDE DEF cols
  <2> QED BY <1>2, <1>3, <1>5, <2>1, <2>2 DEF ensureColumn, cols
<1>6. CASE ensureColumn(o, "columns", "backfill", Later)
  <2>1. \A n \in DOMAIN Later : Later[n] \in New
    BY DEF New
  <2> QED BY <1>2, <1>4, <1>6, <2>1 DEF ensureColumn
<1> QED BY <1>5, <1>6

LEMMA MigrateStep ==
    ASSUME UpgradeInv, NEW o \in Opener, migrateMachines(o)
    PROVE  UpgradeInv'
<1>1. opener[o].pc = "move" /\ owned' = owned /\ "users.ssh_pubkeys" \in columns
  BY UpgradeFacts DEF migrateMachines, OpenerInv
<1>2. CASE "users.token_enc" \in columns
  <2> DEFINE a == [opener[o] EXCEPT !.pc = "had"]
  <2>1. /\ opener' = [opener EXCEPT ![o] = a] /\ opener'[o] = a
        /\ columns' = columns \ {"users.token_enc"} /\ token' = Moved
    BY <1>2, UpgradeFacts DEF Step, migrateMachines
  <2>2. a \in OpenerState /\ a.pc = "had"
    BY UpgradeFacts DEF OpenerState
  <2> HIDE DEF a
  <2>3. OpenerInv(o)'
    BY <1>1, <2>1, <2>2 DEF OpenerInv
  <2>4. TokensWhere'
    BY <2>1 DEF TokensWhere, Moved
  <2> QED BY <1>1, <2>1, <2>2, <2>3, <2>4, OpenerStep
<1>3. CASE "users.token_enc" \notin columns
  BY <1>1, <1>3, PcStep, ShutFacts DEF migrateMachines
<1> QED BY <1>2, <1>3

LEMMA SetOwnerStep ==
    ASSUME UpgradeInv, NEW o \in Opener, NEW c, SetOwner(o, c)
    PROVE  UpgradeInv'
<1> DEFINE a == [opener[o] EXCEPT !.todo = @ \ {c}]
<1>1. /\ opener' = [opener EXCEPT ![o] = a] /\ c \in opener[o].todo
      /\ owned' = [owned EXCEPT ![c] = TRUE] /\ columns' = columns /\ token' = token
  BY UpgradeFacts DEF SetOwner
<1>2. /\ a \in OpenerState /\ a.pc = opener[o].pc /\ c \notin Plain
  BY <1>1, UpgradeFacts DEF OpenerState
<1> HIDE DEF a
<1>3. UpgradeTypes'
  BY <1>1, <1>2, UpgradeFacts DEF UpgradeTypes
<1>4. \A x \in Plain : ~ owned'[x]
  BY <1>1, <1>2, UpgradeFacts DEF UpgradeTypes
<1>5. \A x \in Opener : OpenerInv(x)'
  <2>1. \A x \in Opener : opener'[x].pc = opener[x].pc
    BY <1>1, <1>2, UpgradeFacts
  <2> QED BY <1>1, <2>1 DEF UpgradeInv, OpenerInv
<1>6. TokensWhere'
  BY <1>1, UpgradeFacts DEF TokensWhere
<1> QED BY <1>3, <1>4, <1>5, <1>6 DEF UpgradeInv

LEMMA IssueStep ==
    ASSUME UpgradeInv, NEW o \in Opener, Issue(o)
    PROVE  UpgradeInv'
<1>1. PICK c \in Issued \ DOMAIN owned :
          owned' = [x \in DOMAIN owned \cup {c} |-> IF x = c THEN FALSE ELSE owned[x]]
  BY DEF Issue
<1>2. token' = token /\ columns' = columns /\ opener' = opener
  BY DEF Issue
<1>3. UpgradeTypes'
  BY <1>1, <1>2, UpgradeFacts DEF UpgradeTypes
<1>4. \A x \in Plain : ~ owned'[x]
  BY <1>1, UpgradeFacts DEF UpgradeTypes
<1> QED BY <1>2, <1>3, <1>4 DEF UpgradeInv, OpenerInv, TokensWhere

LEMMA UpgradeStep ==
    ASSUME UpgradeInv, [UpgradeNext]_uvars
    PROVE  UpgradeInv'
<1>1. CASE UNCHANGED uvars
  <2>1. token' = token /\ columns' = columns /\ owned' = owned /\ opener' = opener
    BY <1>1 DEF uvars
  <2> QED BY <2>1 DEF UpgradeInv, UpgradeTypes, TokensWhere, OpenerInv
<1>2. ASSUME NEW o \in Opener, Open(o) \/ Stop(o)
      PROVE  UpgradeInv'
  <2> DEFINE a == [opener[o] EXCEPT !.pc = "keys"]
  <2>1. token' = token /\ columns' = columns /\ owned' = owned
    BY <1>2 DEF Open, Stop
  <2>2. opener' = [opener EXCEPT ![o] = a] \/ opener' = [opener EXCEPT ![o] = Shut]
    BY <1>2, UpgradeFacts DEF Open, Stop, Step
  <2>3. a \in OpenerState /\ a.pc = "keys"
    BY UpgradeFacts DEF OpenerState
  <2> QED BY <2>1, <2>2, <2>3, ShutFacts, PcStep
<1>3. ASSUME NEW o \in Opener, hasTokens(o) \/ Opened(o)
      PROVE  UpgradeInv'
  <2>1. token' = token /\ columns' = columns /\ owned' = owned
    BY <1>3 DEF hasTokens, Opened
  <2>2. PICK p \in {"move", "had", "open"} : opener' = [opener EXCEPT ![o].pc = p]
    BY <1>3 DEF hasTokens, Opened, Step
  <2> DEFINE a == [opener[o] EXCEPT !.pc = p]
  <2>3. opener' = [opener EXCEPT ![o] = a] /\ opener'[o] = a
    BY <2>2, UpgradeFacts
  <2>4. a \in OpenerState /\ a.pc = p
    BY UpgradeFacts DEF OpenerState
  <2>5. opener'[o].pc = p
    BY <2>3, <2>4
  <2>6. OpenerInv(o)'
    <3>1. CASE hasTokens(o)
      <4>1. opener[o].pc = "machines" /\ p = IF "users.token_enc" \in columns THEN "move" ELSE "had"
        BY <3>1, <2>5, UpgradeFacts DEF hasTokens, Step, OpenerState
      <4> QED BY <4>1, <2>1, <2>5, UpgradeFacts DEF OpenerInv
    <3>2. CASE Opened(o)
      <4>1. opener[o].pc = "write" /\ p = "open"
        BY <3>2, <2>5, UpgradeFacts DEF Opened, Step, OpenerState
      <4> QED BY <4>1, <2>1, <2>5, UpgradeFacts DEF OpenerInv
    <3> QED BY <1>3, <3>1, <3>2
  <2> HIDE DEF a
  <2> QED BY <2>1, <2>3, <2>4, <2>6, PcStep
<1>4. ASSUME NEW o \in Opener, Had(o)
      PROVE  UpgradeInv'
  <2> DEFINE h == "mcp_clients.owner" \in columns
             a == [opener[o] EXCEPT !.pc = "columns", !.had = h]
  <2>1. /\ token' = token /\ columns' = columns /\ owned' = owned /\ opener[o].pc = "had"
        /\ opener' = [opener EXCEPT ![o] = a] /\ opener'[o] = a
    BY <1>4, UpgradeFacts DEF Had
  <2>0. h \in BOOLEAN
    OBVIOUS
  <2> HIDE DEF h
  <2>2. a \in OpenerState /\ a.pc = "columns"
    BY <2>0, UpgradeFacts DEF OpenerState
  <2> HIDE DEF a
  <2>3. OpenerInv(o)'
    BY <2>1, <2>2, UpgradeFacts DEF OpenerInv
  <2> QED BY <2>1, <2>2, <2>3, PcStep
<1>5. ASSUME NEW o \in Opener, ReadUnowned(o)
      PROVE  UpgradeInv'
  <2> DEFINE t == IF opener[o].had THEN {}
                      ELSE {c \in DOMAIN owned : ~ owned[c] /\ Unambiguous(c)}
             a == [opener[o] EXCEPT !.pc = "write", !.todo = t]
  <2>1. /\ token' = token /\ columns' = columns /\ owned' = owned /\ opener[o].pc = "backfill"
        /\ opener' = [opener EXCEPT ![o] = a] /\ opener'[o] = a
    BY <1>5, UpgradeFacts DEF ReadUnowned
  <2>0. t \subseteq Clients \ Plain
    BY UpgradeAssumption DEF Unambiguous, Clients
  <2> HIDE DEF t
  <2>2. a \in OpenerState /\ a.pc = "write"
    BY <2>0, UpgradeFacts DEF OpenerState
  <2> HIDE DEF a
  <2>3. OpenerInv(o)'
    BY <2>1, <2>2, UpgradeFacts DEF OpenerInv
  <2> QED BY <2>1, <2>2, <2>3, PcStep
<1> QED BY <1>1, <1>2, <1>3, <1>4, <1>5, EnsureStep, MigrateStep, SetOwnerStep, IssueStep
        DEF UpgradeNext

\* However many processes open the old database at once, and wherever each of
\* them is stopped: the tokens are in the table that the columns name, what an
\* opening has behind it stays done, and no client is on a list to be given away
\* whose name does not tell its owner (Store.Open and what it calls).
THEOREM UpgradeInvariant == UpgradeSpec => []UpgradeInv
<1>1. UpgradeInit => UpgradeInv
  <2> SUFFICES ASSUME UpgradeInit PROVE UpgradeInv
    OBVIOUS
  <2>1. UpgradeTypes
    BY ShutFacts DEF UpgradeInit, UpgradeTypes
  <2>2. TokensWhere
    BY DEF UpgradeInit, TokensWhere
  <2>3. \A o \in Opener : OpenerInv(o)
    BY ShutFacts DEF UpgradeInit, OpenerInv
  <2> QED BY <2>1, <2>2, <2>3 DEF UpgradeInv, UpgradeInit
<1> QED BY <1>1, UpgradeStep, PTL DEF UpgradeSpec

\* No opening, cut short or not, loses an account's token or has it twice; who
\* has the store open finds it complete; no client changes hands unasked.
THEOREM UpgradeKeepsTokens == UpgradeSpec => []TokensSurvive
<1>1. UpgradeInv => TokensSurvive
  <2> SUFFICES ASSUME UpgradeInv PROVE TokensSurvive
    OBVIOUS
  <2>1. Cardinality({"users"}) = 1 /\ Cardinality({"machines"}) = 1
    BY FS_Singleton
  <2>2. \A a \in Account : Cardinality(token[a]) = 1
    BY <2>1 DEF UpgradeInv, TokensWhere
  <2>3. ASSUME NEW o \in Opener, opener[o].pc = "open"
        PROVE  /\ New \subseteq columns /\ "users.token_enc" \notin columns
               /\ \A a \in Account : token[a] = {"machines"}
    <3>1. OpenerInv(o) /\ TokensWhere
      BY DEF UpgradeInv
    <3> QED BY <2>3, <3>1 DEF OpenerInv, TokensWhere, New
  <2> QED BY <2>2, <2>3 DEF UpgradeInv, TokensSurvive
<1> QED BY <1>1, UpgradeInvariant, PTL

-----------------------------------------------------------------------------
(* Accounts.                                                               *)

Word == MachineName \cup Key \cup Identity
AJob == [op : Op, pc : {"look", "bind", "add", "release", "custom", "insert",
                        "drop", "get", "act"},
         by : Int, u : Name \cup {Admin}, to : Name \cup {Admin}, key : Word,
         fp : Fingerprint \cup {AnyFp}, seen : SUBSET Word, mine : BOOLEAN]
Holder == [by : Int, keys : SUBSET Word]
ARow == [kind : {"machine", "fp", "identity", "grant"}, by : Int,
         user : Name \cup {Admin}, key : Word \cup Fingerprint \cup {AnyFp},
         late : BOOLEAN]

AccountTypes ==
    /\ users \in [DOMAIN users -> Holder] /\ DOMAIN users \subseteq Name \cup {Admin}
    /\ rows \subseteq ARow
    /\ job \in [Worker -> AJob \cup {None}]
    /\ jobs \in Int

\* A registration that has bound a fingerprint and not yet made its account,
\* nor released the fingerprint again.
HoldsFp(j, r) ==
    /\ j.op = "register" /\ j.pc \in {"add", "release"} /\ j.mine
    /\ j.by = r.by /\ j.u = r.user /\ j.fp = r.key
Pending(r) == r.kind = "fp" /\ \E w \in Worker : HoldsFp(job[w], r)
Matched(r) == Has(r.user) /\ users[r.user].by = r.by

\* A row belongs to who has the account, or a request was half way through, or
\* is.
RowInv(r) == r.late \/ Matched(r) \/ Pending(r)
HeirsInv == AccountTypes /\ \A r \in rows : RowInv(r)

LEMMA NoneFacts == None \notin AJob /\ None.op = "none"
<1>1. None.op = "none"
  BY DEF None
<1>2. \A j \in AJob : j.op # "none"
  BY DEF AJob, Op
<1> QED BY <1>1, <1>2

LEMMA JobFacts ==
    ASSUME HeirsInv, NEW w \in Worker
    PROVE  /\ job \in [Worker -> AJob \cup {None}] /\ jobs \in Int
           /\ (job[w] \in AJob \/ job[w] = None)
           /\ (job[w].op \in Op => job[w] \in AJob)
           /\ users \in [DOMAIN users -> Holder] /\ DOMAIN users \subseteq Name \cup {Admin}
           /\ rows \subseteq ARow /\ \A r \in rows : RowInv(r)
<1>1. "none" \notin Op
  BY DEF Op
<1> QED BY <1>1, NoneFacts DEF HeirsInv, AccountTypes

LEMMA GotoFacts ==
    ASSUME NEW j \in AJob,
           NEW p \in {"look", "bind", "add", "release", "custom", "insert",
                        "drop", "get", "act"}
    PROVE  /\ [j EXCEPT !.pc = p] \in AJob /\ [j EXCEPT !.pc = p].pc = p
           /\ [j EXCEPT !.pc = p].op = j.op /\ [j EXCEPT !.pc = p].by = j.by
           /\ [j EXCEPT !.pc = p].u = j.u /\ [j EXCEPT !.pc = p].fp = j.fp
           /\ [j EXCEPT !.pc = p].mine = j.mine
BY DEF AJob

\* The holders of names keep them.
SameHolders ==
    /\ users' \in [DOMAIN users' -> Holder] /\ DOMAIN users' \subseteq Name \cup {Admin}
    /\ \A u \in DOMAIN users : u \in DOMAIN users' /\ users'[u].by = users[u].by

\* A step of a job that holds no fingerprint and leaves no row behind.
LEMMA QuietJob ==
    ASSUME HeirsInv, NEW w \in Worker, NEW a \in AJob \cup {None},
           job' = [job EXCEPT ![w] = a],
           ~(job[w].op = "register" /\ job[w].pc \in {"add", "release"} /\ job[w].mine),
           SameHolders, rows' \subseteq rows, jobs' \in Int
    PROVE  HeirsInv'
<1>1. AccountTypes'
  BY DEF HeirsInv, AccountTypes, SameHolders
<1>2. ASSUME NEW r \in rows' PROVE RowInv(r)'
  <2>1. RowInv(r)
    BY DEF HeirsInv
  <2>2. Matched(r) => Matched(r)'
    BY DEF Matched, Has, SameHolders
  <2>3. ASSUME Pending(r) PROVE Pending(r)'
    <3>1. PICK v \in Worker : HoldsFp(job[v], r)
      BY <2>3 DEF Pending
    <3>2. v # w
      BY <3>1 DEF HoldsFp
    <3>3. job'[v] = job[v]
      BY <3>2 DEF HeirsInv, AccountTypes
    <3> QED BY <2>3, <3>1, <3>3 DEF Pending, HoldsFp
  <2> QED BY <2>1, <2>2, <2>3 DEF RowInv
<1> QED BY <1>1, <1>2 DEF HeirsInv

\* A step of no job.
LEMMA QuietCommand ==
    ASSUME HeirsInv, job' = job, jobs' \in Int, AccountTypes',
           \A r \in rows' : \/ r \in rows /\ (Matched(r) => Matched(r)')
                            \/ Matched(r)'
    PROVE  HeirsInv'
<1>1. ASSUME NEW r \in rows' PROVE RowInv(r)'
  <2>1. CASE Matched(r)'
    BY <2>1 DEF RowInv
  <2>2. CASE r \in rows /\ (Matched(r) => Matched(r)')
    <3>1. RowInv(r)
      BY <2>2 DEF HeirsInv
    <3>2. Pending(r) => Pending(r)'
      BY DEF Pending, HoldsFp
    <3> QED BY <2>2, <3>1, <3>2 DEF RowInv
  <2> QED BY <2>1, <2>2
<1> QED BY <1>1 DEF HeirsInv

LEMMA SameUsers ==
    ASSUME HeirsInv, users' = users
    PROVE  SameHolders
BY DEF HeirsInv, AccountTypes, SameHolders

LEMMA BeginStep ==
    ASSUME HeirsInv, NEW w \in Worker, NEW op \in Op,
           NEW pc \in {"look", "insert", "custom", "act", "get"},
           NEW u \in Name \cup {Admin}, NEW by \in Int, NEW to \in Name \cup {Admin},
           NEW key \in Word, NEW fp \in Fingerprint \cup {AnyFp},
           Begun(w, op, pc, u, by, to, key, fp)
    PROVE  HeirsInv'
<1> DEFINE a == [op |-> op, pc |-> pc, by |-> by, u |-> u, to |-> to,
                  key |-> key, fp |-> fp, seen |-> {}, mine |-> FALSE]
<1>1. a \in AJob
  BY DEF AJob
<1>2. /\ job' = [job EXCEPT ![w] = a] /\ users' = users /\ rows' = rows
      /\ jobs' = jobs + 1 /\ job[w] = None
  BY DEF Begun
<1>3. jobs' \in Int
  BY <1>2, JobFacts
<1>4. ~(job[w].op = "register")
  BY <1>2, NoneFacts
<1> HIDE DEF a
<1> QED BY <1>1, <1>2, <1>3, <1>4, SameUsers, QuietJob

LEMMA BeginsStep ==
    ASSUME HeirsInv, NEW w \in Worker, Begins(w)
    PROVE  HeirsInv'
<1>1. "default" \in Word /\ AnyFp \in Fingerprint \cup {AnyFp} /\ jobs \in Int /\ jobs + 1 \in Int
      /\ MachineName \subseteq Word /\ Key \subseteq Word /\ Identity \subseteq Word
  BY AccountsAssumption, JobFacts DEF Word
<1>2. {"register", "join", "machine", "addkey", "rmkey", "identity", "grant",
       "self", "hand", "rename", "release"} \subseteq Op
  BY DEF Op
<1>3. \A u \in DOMAIN users : users[u].by \in Int
  BY JobFacts DEF Holder
<1>4. \A r \in rows : r.by \in Int /\ r.user \in Name \cup {Admin}
  BY JobFacts DEF ARow
<1>5. ASSUME NEW u \in Name, NEW f \in Fingerprint, NEW m \in MachineName,
             handleRegister(w, u, f, m) \/ handleMachineRegister(w, u, f, m)
      PROVE  HeirsInv'
  <2>1. PICK by \in Int, op \in {"register", "join"} : Begun(w, op, "look", u, by, u, m, f)
    BY <1>5, <1>1, <1>3 DEF handleRegister, handleMachineRegister, Has
  <2> QED BY <2>1, <1>1, <1>2, BeginStep
<1>6. ASSUME NEW u \in Name, NEW op \in {"machine", "identity", "grant", "self", "addkey", "rmkey"},
             NEW pc \in {"look", "insert", "custom", "act", "get"}, NEW k \in Word,
             ForOwner(w, op, pc, u, k)
      PROVE  HeirsInv'
  <2>1. users[u].by \in Int /\ Begun(w, op, pc, u, users[u].by, u, k, AnyFp)
    BY <1>6, <1>3 DEF ForOwner, Has
  <2> QED BY <2>1, <1>1, <1>2, BeginStep
<1>7. ASSUME NEW u \in Name, NEW v \in Name, userRename(w, u, v)
      PROVE  HeirsInv'
  <2>1. users[u].by \in Int /\ Begun(w, "rename", "act", u, users[u].by, v, "default", AnyFp)
    BY <1>7, <1>3 DEF userRename, Has
  <2> QED BY <2>1, <1>1, <1>2, BeginStep
<1>8. ASSUME NEW f \in Fingerprint, fingerprintRelease(w, f)
      PROVE  HeirsInv'
  <2>1. PICK r \in rows : Begun(w, "release", "act", r.user, r.by, r.user, "default", f)
    BY <1>8 DEF fingerprintRelease
  <2> QED BY <2>1, <1>1, <1>2, <1>4, BeginStep
<1>9. ASSUME NEW c \in Name \cup {Admin}, NEW to \in Name \cup {Admin}, mcpSetOwner(w, c, to)
      PROVE  HeirsInv'
  <2>1. Begun(w, "hand", "act", c, 0, to, "default", AnyFp) /\ 0 \in Int
    BY <1>9 DEF mcpSetOwner
  <2> QED BY <2>1, <1>1, <1>2, BeginStep
<1>10. CASE \E u \in Name, m \in MachineName : machineAdd(w, u, m)
  BY <1>10, <1>1, <1>6 DEF machineAdd
<1>11. CASE \E u \in Name, i \in Identity : identityBind(w, u, i)
  BY <1>11, <1>1, <1>6 DEF identityBind
<1>12. CASE \E u \in Name : oauthGrant(w, u) \/ mgmtMCP(w, u)
  BY <1>12, <1>1, <1>6 DEF oauthGrant, mgmtMCP
<1>13. CASE \E u \in Name, k \in Key, op \in Op : sshkey(w, u, op, k)
  BY <1>13, <1>1, <1>6 DEF sshkey
<1> QED BY <1>5, <1>7, <1>8, <1>9, <1>10, <1>11, <1>12, <1>13 DEF Begins

\* Jobs that only look, or that act on other tables.
LEMMA LooksStep ==
    ASSUME HeirsInv, NEW w \in Worker,
           \/ Look(w) \/ JoinLook(w) \/ JoinGet(w) \/ RegenMachineToken(w)
           \/ AddMachineLook(w) \/ ReadKeys(w) \/ MCPOwned(w) \/ MCPSetOwner(w)
    PROVE  HeirsInv'
<1>1. users' = users /\ rows' = rows /\ jobs' = jobs
  BY DEF Look, JoinLook, JoinGet, RegenMachineToken, AddMachineLook, ReadKeys, MCPOwned, MCPSetOwner
<1>2. job[w].op \in Op /\ job[w].pc \notin {"add", "release"}
  BY DEF Look, JoinLook, JoinGet, RegenMachineToken, AddMachineLook, ReadKeys, MCPOwned,
         MCPSetOwner, At, Op
<1>3. job[w] \in AJob /\ jobs \in Int /\ job \in [Worker -> AJob \cup {None}]
  BY <1>2, JobFacts
<1>4. \/ job' = [job EXCEPT ![w] = None]
      \/ \E p \in {"bind", "get", "act", "custom", "insert"} : job' = [job EXCEPT ![w].pc = p]
      \/ ReadKeys(w) /\ Has(job[w].u)
         /\ job' = [job EXCEPT ![w].pc = "act", ![w].seen = users[job[w].u].keys]
  BY DEF Look, JoinLook, JoinGet, RegenMachineToken, AddMachineLook, ReadKeys, MCPOwned,
         MCPSetOwner, Finish, Goto
<1>5. CASE job' = [job EXCEPT ![w] = None]
  BY <1>1, <1>2, <1>3, <1>5, SameUsers, QuietJob
<1>6. CASE \E p \in {"bind", "get", "act", "custom", "insert"} : job' = [job EXCEPT ![w].pc = p]
  <2>1. PICK p \in {"bind", "get", "act", "custom", "insert"} : job' = [job EXCEPT ![w].pc = p]
    BY <1>6
  <2> DEFINE a == [job[w] EXCEPT !.pc = p]
  <2>2. job' = [job EXCEPT ![w] = a]
    BY <2>1, <1>3
  <2>3. a \in AJob
    BY <1>3, GotoFacts
  <2> HIDE DEF a
  <2> QED BY <1>1, <1>2, <1>3, <2>2, <2>3, SameUsers, QuietJob
<1>7. CASE /\ Has(job[w].u)
           /\ job' = [job EXCEPT ![w].pc = "act", ![w].seen = users[job[w].u].keys]
  <2> DEFINE k == users[job[w].u].keys
             a == [job[w] EXCEPT !.pc = "act", !.seen = k]
  <2>1. job' = [job EXCEPT ![w] = a]
    BY <1>3, <1>7
  <2>2. k \in SUBSET Word
    BY <1>7, JobFacts DEF Has, Holder
  <2> HIDE DEF k
  <2>3. a \in AJob
    BY <1>3, <2>2 DEF AJob
  <2> HIDE DEF a
  <2> QED BY <1>1, <1>2, <1>3, <2>1, <2>3, SameUsers, QuietJob
<1> QED BY <1>4, <1>5, <1>6, <1>7

\* Jobs that take rows away, or write keys.
LEMMA DropsStep ==
    ASSUME HeirsInv, NEW w \in Worker,
           DropDefault(w) \/ ForceRelease(w) \/ WriteKeys(w)
    PROVE  HeirsInv'
<1>1. /\ rows' \subseteq rows /\ jobs' = jobs /\ jobs \in Int
      /\ job' = [job EXCEPT ![w] = None] /\ job[w].op \in Op
      /\ job[w].pc \notin {"add", "release"}
  BY JobFacts DEF DropDefault, ForceRelease, WriteKeys, Finish, At, Op
<1>2. SameHolders
  <2>1. CASE DropDefault(w) \/ ForceRelease(w)
    BY <2>1, SameUsers DEF DropDefault, ForceRelease
  <2>2. CASE WriteKeys(w)
    <3> DEFINE j == job[w]
               k == IF j.op = "addkey" THEN j.seen \cup {j.key} ELSE j.seen \ {j.key}
               b == [users[j.u] EXCEPT !.keys = k]
    <3>1. users' = IF ~ Has(j.u) THEN users ELSE [users EXCEPT ![j.u].keys = k]
      BY <2>2 DEF WriteKeys
    <3>2. k \in SUBSET Word
      <4>1. j.seen \subseteq Word /\ j.key \in Word
        BY <1>1, JobFacts DEF AJob
      <4> QED BY <4>1
    <3> HIDE DEF k
    <3>3. CASE Has(j.u)
      <4>1. users[j.u] \in Holder
        BY <3>3, JobFacts DEF Has
      <4>2. b \in Holder /\ b.by = users[j.u].by
        BY <3>2, <4>1 DEF Holder
      <4>3. users' = [users EXCEPT ![j.u] = b]
        BY <3>1, <3>3, JobFacts DEF Has
      <4> HIDE DEF b, j
      <4> QED BY <4>2, <4>3, JobFacts DEF SameHolders
    <3>4. CASE ~Has(j.u)
      BY <3>1, <3>4, SameUsers
    <3> QED BY <3>3, <3>4
  <2> QED BY <2>1, <2>2
<1> QED BY <1>1, <1>2, QuietJob

LEMMA NewRowFacts ==
    ASSUME HeirsInv, NEW j \in AJob, NEW kind \in {"machine", "fp", "identity", "grant"},
           NEW key \in Word \cup Fingerprint \cup {AnyFp}
    PROVE  LET r == NewRow(j, kind, key) IN
           /\ r \in ARow /\ r.by = j.by /\ r.user = j.u /\ r.kind = kind /\ r.key = key
           /\ r.late \/ Matched(r) \/ (j.op = "register" /\ j.pc # "insert" /\ ~Has(j.u))
<1> DEFINE l == IF Has(j.u) THEN users[j.u].by # j.by
                ELSE j.op # "register" \/ j.pc = "insert"
           r == NewRow(j, kind, key)
<1>1. l \in BOOLEAN
  OBVIOUS
<1>2. r = [kind |-> kind, by |-> j.by, user |-> j.u, key |-> key, late |-> l]
  BY DEF NewRow
<1>3. l \/ (Has(j.u) /\ users[j.u].by = j.by)
      \/ (j.op = "register" /\ j.pc # "insert" /\ ~Has(j.u))
  OBVIOUS
<1> HIDE DEF l, r
<1>4. r \in ARow /\ r.by = j.by /\ r.user = j.u /\ r.kind = kind /\ r.key = key /\ r.late = l
  BY <1>1, <1>2 DEF ARow, AJob
<1>5. r.late \/ Matched(r) \/ (j.op = "register" /\ j.pc # "insert" /\ ~Has(j.u))
  BY <1>3, <1>4 DEF Matched
<1> QED BY <1>4, <1>5 DEF r

\* A job leaves a row, for who has the account or late.
LEMMA LeavesRow ==
    ASSUME HeirsInv, NEW w \in Worker, NEW a \in AJob \cup {None}, NEW r \in ARow,
           job' = [job EXCEPT ![w] = a],
           ~(job[w].op = "register" /\ job[w].pc \in {"add", "release"} /\ job[w].mine),
           users' = users, jobs' = jobs, rows' \subseteq rows \cup {r},
           r.late \/ Matched(r) \/ (r.kind = "fp" /\ HoldsFp(a, r))
    PROVE  HeirsInv'
<1>1. AccountTypes'
  BY DEF HeirsInv, AccountTypes
<1>2. ASSUME NEW x \in rows' PROVE RowInv(x)'
  <2>1. Matched(x) => Matched(x)'
    BY DEF Matched, Has
  <2>2. CASE x \in rows
    <3>1. RowInv(x)
      BY <2>2 DEF HeirsInv
    <3>2. ASSUME Pending(x) PROVE Pending(x)'
      <4>1. PICK v \in Worker : HoldsFp(job[v], x)
        BY <3>2 DEF Pending
      <4>2. v # w
        BY <4>1 DEF HoldsFp
      <4>3. job'[v] = job[v]
        BY <4>2 DEF HeirsInv, AccountTypes
      <4> QED BY <3>2, <4>1, <4>3 DEF Pending, HoldsFp
    <3> QED BY <2>1, <3>1, <3>2 DEF RowInv
  <2>3. CASE x = r
    <3>1. job'[w] = a
      BY DEF HeirsInv, AccountTypes
    <3> QED BY <2>1, <2>3, <3>1 DEF RowInv, Pending, HoldsFp
  <2> QED BY <2>2, <2>3
<1> QED BY <1>1, <1>2 DEF HeirsInv

LEMMA AddMachineStep ==
    ASSUME HeirsInv, NEW w \in Worker, AddMachine(w) \/ WriteRow(w)
    PROVE  HeirsInv'
<1>1. /\ job[w].op \in Op /\ job[w].pc = "insert" /\ users' = users /\ jobs' = jobs
  BY DEF AddMachine, WriteRow, Op
<1>2. job[w] \in AJob /\ job \in [Worker -> AJob \cup {None}] /\ job[w].key \in Word
  BY <1>1, JobFacts DEF AJob
<1>3. PICK kind \in {"machine", "identity", "grant"} :
        rows' \subseteq rows \cup {NewRow(job[w], kind, job[w].key)}
  BY DEF AddMachine, WriteRow
<1>4. PICK a \in AJob \cup {None} : job' = [job EXCEPT ![w] = a]
  <2>1. job' = [job EXCEPT ![w] = None] \/ job' = [job EXCEPT ![w].pc = "drop"]
    BY DEF AddMachine, WriteRow, Goto, Finish
  <2>2. [job[w] EXCEPT !.pc = "drop"] \in AJob
    BY <1>2, GotoFacts
  <2>3. [job EXCEPT ![w].pc = "drop"] = [job EXCEPT ![w] = [job[w] EXCEPT !.pc = "drop"]]
    BY <1>2
  <2> QED BY <2>1, <2>2, <2>3
<1> DEFINE r == NewRow(job[w], kind, job[w].key)
<1>5. r \in ARow /\ (r.late \/ Matched(r))
  BY <1>1, <1>2, NewRowFacts
<1> HIDE DEF r
<1>6. rows' \subseteq rows \cup {r}
  BY <1>3 DEF r
<1> QED BY <1>1, <1>4, <1>5, <1>6, LeavesRow

LEMMA BindStep ==
    ASSUME HeirsInv, NEW w \in Worker, BindFingerprint(w)
    PROVE  HeirsInv'
<1>1. /\ job[w].op \in {"register", "join"} /\ job[w].pc = "bind" /\ users' = users
      /\ jobs' = jobs /\ jobs \in Int
  BY JobFacts DEF BindFingerprint
<1>2. /\ job[w] \in AJob /\ job \in [Worker -> AJob \cup {None}]
      /\ job[w].fp \in Fingerprint \cup {AnyFp}
  BY <1>1, JobFacts DEF AJob, Op
<1> DEFINE next == IF job[w].op = "join" THEN "get" ELSE "add"
<1>0. next \in {"get", "add"} /\ (job[w].op = "register" => next = "add")
  OBVIOUS
<1>3. CASE /\ rows' = rows \cup {NewRow(job[w], "fp", job[w].fp)}
           /\ job' = [job EXCEPT ![w].mine = TRUE, ![w].pc = next]
  <2> HIDE DEF next
  <2> DEFINE a == [job[w] EXCEPT !.mine = TRUE, !.pc = next]
             r == NewRow(job[w], "fp", job[w].fp)
  <2>1. job' = [job EXCEPT ![w] = a]
    BY <1>2, <1>3
  <2>2. /\ a \in AJob /\ a.op = job[w].op /\ a.pc = next /\ a.mine /\ a.by = job[w].by
        /\ a.u = job[w].u /\ a.fp = job[w].fp
    BY <1>0, <1>2 DEF AJob
  <2>3. /\ r \in ARow /\ r.by = job[w].by /\ r.user = job[w].u /\ r.kind = "fp"
        /\ r.key = job[w].fp /\ (r.late \/ Matched(r) \/ job[w].op = "register")
    BY <1>1, <1>2, NewRowFacts
  <2>4. rows' \subseteq rows \cup {r}
    BY <1>3
  <2> HIDE DEF a, r
  <2>5. r.late \/ Matched(r) \/ (r.kind = "fp" /\ HoldsFp(a, r))
    BY <1>0, <2>2, <2>3 DEF HoldsFp
  <2> QED BY <1>1, <2>1, <2>2, <2>3, <2>4, <2>5, LeavesRow
<1>4. CASE rows' = rows /\ job' = [job EXCEPT ![w].pc = next]
  <2> HIDE DEF next
  <2> DEFINE a == [job[w] EXCEPT !.pc = next]
  <2>1. job' = [job EXCEPT ![w] = a]
    BY <1>2, <1>4
  <2>2. a \in AJob
    BY <1>0, <1>2, GotoFacts
  <2> HIDE DEF a
  <2> QED BY <1>1, <1>4, <2>1, <2>2, SameUsers, QuietJob
<1>5. CASE rows' = rows /\ job' = [job EXCEPT ![w] = None]
  BY <1>1, <1>5, SameUsers, QuietJob
<1> QED BY <1>3, <1>4, <1>5 DEF BindFingerprint, Goto, Finish

LEMMA AddStep ==
    ASSUME HeirsInv, NEW w \in Worker, NEW ok \in BOOLEAN, Add(w, ok)
    PROVE  HeirsInv'
<1> DEFINE j == job[w]
<1>1. /\ j.op = "register" /\ j.pc = "add" /\ j.op \in Op /\ jobs' = jobs
      /\ j \in AJob /\ jobs \in Int /\ job \in [Worker -> AJob \cup {None}]
  <2>1. j.op = "register" /\ j.pc = "add" /\ jobs' = jobs
    BY DEF Add, At
  <2> QED BY <2>1, JobFacts DEF Op
<1>2. CASE /\ ~ Has(j.u) /\ RowOf("machine", j.u, "default") = {}
           /\ users' = Put(users, j.u, [by |-> j.by, keys |-> {}])
           /\ rows' = rows \cup {NewRow(j, "machine", "default")}
           /\ \/ job' = [job EXCEPT ![w] = None]
              \/ job' = [job EXCEPT ![w].pc = "custom"]
  <2>1. PICK a \in AJob \cup {None} : job' = [job EXCEPT ![w] = a]
    <3>1. [job[w] EXCEPT !.pc = "custom"] \in AJob
      BY <1>1, GotoFacts
    <3>2. [job EXCEPT ![w].pc = "custom"] = [job EXCEPT ![w] = [job[w] EXCEPT !.pc = "custom"]]
      BY <1>1
    <3> QED BY <1>2, <3>1, <3>2
  <2> DEFINE r == NewRow(j, "machine", "default")
             h == [by |-> j.by, keys |-> {}]
  <2>2. /\ r \in ARow /\ r.by = j.by /\ r.user = j.u
    <3>1. "default" \in Word
      BY AccountsAssumption DEF Word
    <3> QED BY <1>1, <3>1, NewRowFacts
  <2>3. j.by \in Int /\ j.u \in Name \cup {Admin}
    BY <1>1 DEF AJob
  <2>4. h \in Holder /\ h.by = j.by
    BY <2>3 DEF Holder
  <2> HIDE DEF r, h
  <2>5. /\ DOMAIN users' = DOMAIN users \cup {j.u}
        /\ \A x \in DOMAIN users : users'[x] = users[x]
        /\ users'[j.u] = h /\ users' \in [DOMAIN users' -> Holder]
    <3>1. users' = Put(users, j.u, h)
      BY <1>2 DEF h
    <3>2. users \in [DOMAIN users -> Holder] /\ j.u \notin DOMAIN users
      BY <1>2, JobFacts DEF Has
    <3>3. users' = [y \in (DOMAIN users) \cup {j.u} |-> IF y = j.u THEN h ELSE users[y]]
      BY <3>1 DEF Put
    <3>4. h \in Holder
      BY <2>4
    <3> HIDE DEF j
    <3> QED BY <3>2, <3>3, <3>4
  <2>6. rows' = rows \cup {r}
    BY <1>2 DEF r
  <2>7. AccountTypes'
    BY <1>1, <2>1, <2>2, <2>3, <2>5, <2>6, JobFacts DEF AccountTypes
  <2>8. ASSUME NEW x \in rows' PROVE RowInv(x)'
    <3>1. Matched(x) => Matched(x)'
      BY <2>5 DEF Matched, Has
    <3>2. CASE x = r
      <4>1. Matched(x)'
        BY <3>2, <2>2, <2>4, <2>5 DEF Matched, Has
      <4> QED BY <4>1 DEF RowInv
    <3>3. CASE x \in rows
      <4>1. RowInv(x)
        BY <3>3 DEF HeirsInv
      <4>2. ASSUME Pending(x) PROVE Pending(x)' \/ Matched(x)'
        <5>1. PICK v \in Worker : HoldsFp(job[v], x)
          BY <4>2 DEF Pending
        <5>2. CASE v = w
          BY <5>1, <5>2, <2>4, <2>5 DEF HoldsFp, Matched, Has
        <5>3. CASE v # w
          <6>1. job'[v] = job[v]
            BY <5>3, <1>1, <2>1
          <6> QED BY <4>2, <5>1, <6>1 DEF Pending, HoldsFp
        <5> QED BY <5>2, <5>3
      <4> QED BY <3>1, <4>1, <4>2 DEF RowInv
    <3> QED BY <3>2, <3>3, <2>6
  <2> QED BY <2>7, <2>8 DEF HeirsInv
<1>3. CASE /\ j.mine /\ job' = [job EXCEPT ![w].pc = "release"]
           /\ users' = users /\ rows' = rows
  <2> DEFINE a == [job[w] EXCEPT !.pc = "release"]
  <2>1. job' = [job EXCEPT ![w] = a] /\ job'[w] = a
    BY <1>1, <1>3
  <2>2. /\ a \in AJob /\ a.pc = "release" /\ a.op = j.op /\ a.by = j.by
        /\ a.u = j.u /\ a.fp = j.fp /\ a.mine = j.mine
    BY <1>1, GotoFacts
  <2> HIDE DEF a
  <2>3. AccountTypes'
    BY <1>1, <1>3, <2>1, <2>2, JobFacts DEF AccountTypes
  <2>4. ASSUME NEW x \in rows PROVE RowInv(x)'
    <3>1. RowInv(x) /\ (Matched(x) => Matched(x)')
      BY <1>3 DEF HeirsInv, Matched, Has
    <3>2. ASSUME Pending(x) PROVE Pending(x)'
      <4>1. PICK v \in Worker : HoldsFp(job[v], x)
        BY <3>2 DEF Pending
      <4>2. HoldsFp(job'[v], x)
        <5>1. CASE v = w
          BY <4>1, <5>1, <2>1, <2>2, <1>3 DEF HoldsFp
        <5>2. CASE v # w
          <6>1. job'[v] = job[v]
            BY <5>2, <2>1, <1>1
          <6> QED BY <4>1, <6>1
        <5> QED BY <5>1, <5>2
      <4> QED BY <3>2, <4>2 DEF Pending, HoldsFp
    <3> QED BY <3>1, <3>2 DEF RowInv
  <2> QED BY <1>3, <2>3, <2>4 DEF HeirsInv
<1>4. CASE ~j.mine /\ job' = [job EXCEPT ![w] = None] /\ users' = users /\ rows' = rows
  BY <1>1, <1>4, SameUsers, QuietJob
<1> QED BY <1>2, <1>3, <1>4 DEF Add, Goto, Finish

LEMMA ReleaseStep ==
    ASSUME HeirsInv, NEW w \in Worker, ReleaseFingerprint(w)
    PROVE  HeirsInv'
<1>1. /\ job[w].op = "register" /\ job[w].op \in Op /\ users' = users /\ jobs' = jobs
      /\ rows' = rows \ RowOf("fp", job[w].u, job[w].fp)
      /\ job' = [job EXCEPT ![w] = None]
  BY DEF ReleaseFingerprint, At, Op, Finish
<1>2. AccountTypes'
  BY <1>1, JobFacts DEF AccountTypes
<1>3. ASSUME NEW x \in rows' PROVE RowInv(x)'
  <2>1. RowInv(x) /\ (Matched(x) => Matched(x)')
    BY <1>1 DEF HeirsInv, Matched, Has
  <2>2. ASSUME Pending(x) PROVE Pending(x)'
    <3>1. PICK v \in Worker : HoldsFp(job[v], x)
      BY <2>2 DEF Pending
    <3>2. v # w
      BY <3>1, <2>2, <1>1 DEF HoldsFp, RowOf, Pending
    <3>3. job'[v] = job[v]
      BY <3>2, <1>1, JobFacts
    <3> QED BY <2>2, <3>1, <3>3 DEF Pending, HoldsFp
  <2> QED BY <2>1, <2>2 DEF RowInv
<1> QED BY <1>2, <1>3 DEF HeirsInv

\* Rows go along with a name.
LEMMA RenamedFacts ==
    ASSUME HeirsInv, NEW x \in rows, NEW u \in DOMAIN users, NEW v \in Name \cup {Admin}
    PROVE  LET y == Renamed(x, u, v) IN
           /\ y \in ARow /\ y.by = x.by /\ y.kind = x.kind /\ y.key = x.key
           /\ x.user # u => y = x
           /\ x.user = u => /\ y.user = v
                            /\ y.late \/ x.by = users[u].by
<1> DEFINE l == x.late \/ x.by # users[u].by
           y == Renamed(x, u, v)
<1>1. x \in ARow
  BY DEF HeirsInv, AccountTypes
<1>2. l \in BOOLEAN
  BY <1>1 DEF ARow
<1>3. CASE x.user = u
  <2>1. y = [x EXCEPT !.user = v, !.late = l]
    BY <1>3 DEF Renamed
  <2>2. l \/ x.by = users[u].by
    OBVIOUS
  <2> HIDE DEF l, y
  <2>3. /\ y \in ARow /\ y.by = x.by /\ y.kind = x.kind /\ y.key = x.key
        /\ y.user = v /\ y.late = l
    BY <1>1, <1>2, <2>1 DEF ARow
  <2> QED BY <1>3, <2>2, <2>3 DEF y
<1>4. CASE x.user # u
  BY <1>1, <1>4 DEF Renamed
<1> QED BY <1>3, <1>4

LEMMA RenameStep ==
    ASSUME HeirsInv, NEW w \in Worker, Rename(w)
    PROVE  HeirsInv'
<1> DEFINE u == job[w].u
           v == job[w].to
<1>1. /\ job[w].op = "rename" /\ job[w].op \in Op /\ jobs' = jobs
      /\ job' = [job EXCEPT ![w] = None]
  BY DEF Rename, At, Op, Finish
<1>2. /\ u \in Name \cup {Admin} /\ v \in Name \cup {Admin}
  BY <1>1, JobFacts DEF AJob
<1>3. CASE users' = users /\ rows' = rows
  BY <1>1, <1>3, JobFacts, SameUsers, QuietJob
<1>4. CASE /\ Has(u) /\ ~ Has(v)
           /\ users' = [x \in (DOMAIN users \ {u}) \cup {v} |->
                             IF x = v THEN users[u] ELSE users[x]]
           /\ rows' = {Renamed(r, u, v) : r \in rows}
  <2> HIDE DEF u, v
  <2>1. u # v /\ u \in DOMAIN users /\ v \notin DOMAIN users
    BY <1>4 DEF Has
  <2>2. /\ DOMAIN users' = (DOMAIN users \ {u}) \cup {v} /\ users'[v] = users[u]
        /\ \A x \in DOMAIN users \ {u} : users'[x] = users[x]
    BY <1>4, <2>1
  <2>3. users' \in [DOMAIN users' -> Holder]
    BY <1>4, <2>1, JobFacts
  <2>4. rows' \subseteq ARow
    BY <1>2, <1>4, <2>1, RenamedFacts
  <2>5. AccountTypes'
    BY <1>1, <1>2, <2>2, <2>3, <2>4, JobFacts DEF AccountTypes
  <2>6. ASSUME NEW y \in rows' PROVE RowInv(y)'
    <3>1. PICK x \in rows : y = Renamed(x, u, v)
      BY <1>4
    <3>2. /\ y \in ARow /\ y.by = x.by /\ y.kind = x.kind /\ y.key = x.key
          /\ x.user # u => y = x
          /\ x.user = u => /\ y.user = v
                           /\ y.late \/ x.by = users[u].by
      BY <1>2, <2>1, <3>1, RenamedFacts
    <3>3. CASE x.user = u
      BY <2>2, <3>2, <3>3 DEF RowInv, Matched, Has
    <3>4. CASE x.user # u
      <4>1. y = x /\ RowInv(x)
        BY <3>2, <3>4 DEF HeirsInv
      <4>2. Matched(x) => Matched(x)'
        BY <2>1, <2>2, <3>4 DEF Matched, Has
      <4>3. ASSUME Pending(x) PROVE Pending(x)'
        <5>1. PICK z \in Worker : HoldsFp(job[z], x)
          BY <4>3 DEF Pending
        <5>2. z # w
          BY <5>1, <1>1 DEF HoldsFp
        <5>3. job'[z] = job[z]
          BY <5>2, <1>1, JobFacts
        <5> QED BY <4>3, <5>1, <5>3 DEF Pending, HoldsFp
      <4> QED BY <4>1, <4>2, <4>3 DEF RowInv
    <3> QED BY <3>3, <3>4
  <2> QED BY <2>5, <2>6 DEF HeirsInv
<1> QED BY <1>3, <1>4 DEF Rename

LEMMA CrashStep ==
    ASSUME HeirsInv, Crash
    PROVE  HeirsInv'
<1>1. /\ users' = users /\ jobs' = jobs /\ job' = [w \in Worker |-> None]
      /\ rows' = {[r EXCEPT !.late = @ \/ UnderWayBy(r.by)] : r \in rows}
  BY DEF Crash
<1>2. AccountTypes /\ \A r \in rows : RowInv(r)
  BY DEF HeirsInv
<1>3. ASSUME NEW y \in rows' PROVE y \in ARow /\ RowInv(y)'
  <2>1. PICK x \in rows : y = [x EXCEPT !.late = x.late \/ UnderWayBy(x.by)]
    BY <1>1
  <2> DEFINE l == x.late \/ UnderWayBy(x.by)
  <2>2. x \in ARow /\ l \in BOOLEAN
    BY <1>2 DEF AccountTypes, ARow
  <2>3. Pending(x) => l
    <3>1. ASSUME NEW w \in Worker, HoldsFp(job[w], x) PROVE job[w] # None /\ job[w].by = x.by
      BY <3>1, NoneFacts DEF HoldsFp
    <3> QED BY <3>1 DEF Pending, UnderWayBy
  <2>4. l \/ Matched(x)
    BY <2>3, <1>2 DEF RowInv
  <2>5. y = [x EXCEPT !.late = l]
    BY <2>1
  <2> HIDE DEF l
  <2>6. y \in ARow /\ y.late = l /\ y.by = x.by /\ y.user = x.user
    BY <2>2, <2>5 DEF ARow
  <2>7. Matched(x) => Matched(y)'
    BY <1>1, <2>6 DEF Matched, Has
  <2> QED BY <2>4, <2>6, <2>7 DEF RowInv
<1>4. AccountTypes'
  BY <1>1, <1>2, <1>3 DEF AccountTypes
<1> QED BY <1>3, <1>4 DEF HeirsInv

LEMMA AdminStep ==
    ASSUME HeirsInv,
           \/ \E u \in Name : AddUser(u) \/ Remove(u) \/ ClearSSHKeys(u)
           \/ \E u \in Name, m \in MachineName : RemoveMachine(u, m)
           \/ \E i \in Identity : UnbindOAuthIdentity(i)
           \/ \E c \in Name \cup {Admin} : MCPAdd(c) \/ MCPRemove(c) \/ MCPRegenToken(c)
    PROVE  HeirsInv'
<1>1. job' = job /\ jobs' = jobs + 1 /\ jobs' \in Int
  <2>1. jobs \in Int
    BY DEF HeirsInv, AccountTypes
  <2>2. Command
    BY DEF AddUser, Remove, ClearSSHKeys, RemoveMachine, UnbindOAuthIdentity, MCPAdd,
       MCPRemove, MCPRegenToken
  <2>3. jobs' = jobs + 1 /\ job' = job
    BY <2>2 DEF Command
  <2> QED BY <2>1, <2>3
<1>2. AccountTypes /\ \A r \in rows : RowInv(r)
  BY DEF HeirsInv
<1>3. ASSUME NEW u \in Name, AddUser(u) PROVE HeirsInv'
  <2>0. PICK n \in Int : n = jobs + 1
    BY <1>1
  <2> DEFINE h == [by |-> n, keys |-> {}]
             r == [kind |-> "machine", by |-> n, user |-> u,
                           key |-> "default", late |-> FALSE]
  <2>1. /\ users' = Put(users, u, h) /\ rows' = rows \cup {r} /\ ~Has(u)
    BY <1>3, <2>0 DEF AddUser
  <2>2. "default" \in Word
    BY AccountsAssumption DEF Word
  <2>3. /\ h \in Holder /\ h.by = n
        /\ r \in ARow /\ r.by = n /\ r.user = u
    BY <2>2 DEF Holder, ARow
  <2> HIDE DEF h, r
  <2>4. /\ DOMAIN users' = DOMAIN users \cup {u} /\ users'[u] = h
        /\ \A x \in DOMAIN users : users'[x] = users[x]
        /\ users' \in [DOMAIN users' -> Holder]
    <3>1. users \in [DOMAIN users -> Holder] /\ u \notin DOMAIN users
      BY <1>2, <2>1 DEF Has, AccountTypes
    <3>2. users' = [y \in (DOMAIN users) \cup {u} |-> IF y = u THEN h ELSE users[y]]
      BY <2>1 DEF Put
    <3>3. h \in Holder
      BY <2>3
    <3> QED BY <3>1, <3>2, <3>3
  <2>5. AccountTypes'
    BY <1>1, <1>2, <2>1, <2>3, <2>4 DEF AccountTypes
  <2>6. \A x \in rows : Matched(x) => Matched(x)'
    BY <2>4 DEF Matched, Has
  <2>7. Matched(r)'
    BY <2>3, <2>4 DEF Matched, Has
  <2> QED BY <1>1, <2>1, <2>5, <2>6, <2>7, QuietCommand
<1>4. ASSUME NEW u \in Name, Remove(u) PROVE HeirsInv'
  <2>1. /\ users' = [v \in DOMAIN users \ {u} |-> users[v]]
        /\ rows' = {r \in rows : r.user # u}
    BY <1>4 DEF Remove, Left
  <2>2. AccountTypes'
    BY <1>1, <1>2, <2>1 DEF AccountTypes
  <2>3. \A r \in rows' : r \in rows /\ (Matched(r) => Matched(r)')
    BY <2>1 DEF Matched, Has
  <2> QED BY <1>1, <2>2, <2>3, QuietCommand
<1>5. ASSUME NEW u \in Name, ClearSSHKeys(u) PROVE HeirsInv'
  <2>1. users[u] \in Holder /\ {} \in SUBSET Word /\ u \in DOMAIN users
    BY <1>5, <1>2 DEF ClearSSHKeys, Has, AccountTypes
  <2> DEFINE b == [users[u] EXCEPT !.keys = {}]
  <2>2. b \in Holder /\ b.by = users[u].by
    BY <2>1 DEF Holder
  <2>3. users' = [users EXCEPT ![u] = b] /\ rows' = rows
    BY <1>5, <1>2 DEF ClearSSHKeys, AccountTypes
  <2> HIDE DEF b
  <2>4. AccountTypes'
    BY <1>1, <1>2, <2>2, <2>3 DEF AccountTypes
  <2>5. \A r \in rows : Matched(r) => Matched(r)'
    BY <1>2, <2>1, <2>2, <2>3 DEF Matched, Has, AccountTypes
  <2> QED BY <1>1, <2>3, <2>4, <2>5, QuietCommand
<1>6. ASSUME users' = users, rows' \subseteq rows PROVE HeirsInv'
  <2>1. AccountTypes'
    BY <1>1, <1>2, <1>6 DEF AccountTypes
  <2>2. \A r \in rows' : r \in rows /\ (Matched(r) => Matched(r)')
    BY <1>6 DEF Matched, Has
  <2> QED BY <1>1, <2>1, <2>2, QuietCommand
<1>7. CASE \E u \in Name, m \in MachineName : RemoveMachine(u, m)
  BY <1>6, <1>7 DEF RemoveMachine
<1>8. CASE \E i \in Identity : UnbindOAuthIdentity(i)
  BY <1>6, <1>8 DEF UnbindOAuthIdentity
<1>9. CASE \E c \in Name \cup {Admin} : MCPAdd(c) \/ MCPRemove(c) \/ MCPRegenToken(c)
  BY <1>6, <1>9 DEF MCPAdd, MCPRemove, MCPRegenToken
<1> QED BY <1>3, <1>4, <1>5, <1>7, <1>8, <1>9

LEMMA AccountsInductive ==
    ASSUME HeirsInv, [AccountsNext]_avars
    PROVE  HeirsInv'
<1>1. CASE UNCHANGED avars
  <2>1. users' = users /\ rows' = rows /\ job' = job /\ jobs' = jobs
    BY <1>1 DEF avars
  <2> QED BY <2>1 DEF HeirsInv, AccountTypes, RowInv, Matched, Has, Pending, HoldsFp
<1>2. ASSUME NEW w \in Worker, Jobs(w) PROVE HeirsInv'
  BY <1>2, LooksStep, DropsStep, AddMachineStep, BindStep, AddStep, ReleaseStep, RenameStep
     DEF Jobs
<1> QED BY <1>1, <1>2, BeginsStep, CrashStep, AdminStep DEF AccountsNext

\* Whatever requests, commands and restarts are interleaved: a row of an account
\* is its holder's, or marked as of a request that was half way through when the
\* name changed hands, or a fingerprint that a registration still under way has
\* bound and will use or release (handleRegister, Store.Add, Remove, Rename).
THEOREM HeirsInvariant == AccountsSpec => []HeirsInv
<1>1. AccountsInit => HeirsInv
  <2> SUFFICES ASSUME AccountsInit PROVE HeirsInv
    OBVIOUS
  <2>1. PICK F \in SUBSET Fingerprint : rows =
            {[kind |-> k[1], by |-> 0, user |-> Owned, key |-> k[2], late |-> FALSE] :
                 k \in {"machine", "grant"} \X {"default"}
                       \cup {"fp"} \X F \cup {"identity"} \X Identity}
    BY DEF AccountsInit
  <2>2. ASSUME NEW r \in rows PROVE r \in ARow /\ Matched(r)
    <3>1. PICK k \in {"machine", "grant"} \X {"default"}
                       \cup {"fp"} \X F \cup {"identity"} \X Identity :
            r = [kind |-> k[1], by |-> 0, user |-> Owned, key |-> k[2], late |-> FALSE]
      BY <2>1
    <3>2. k[1] \in {"machine", "fp", "identity", "grant"} /\ k[2] \in Word \cup Fingerprint \cup {AnyFp}
      BY AccountsAssumption DEF Word
    <3>3. r \in ARow
      BY <3>1, <3>2, AccountsAssumption DEF ARow
    <3>4. r.user = Owned /\ r.by = 0
      BY <3>1
    <3>5. Owned \in DOMAIN users /\ users[Owned].by = 0
      BY DEF AccountsInit
    <3> QED BY <3>3, <3>4, <3>5 DEF Matched, Has
  <2>3. users \in [DOMAIN users -> Holder] /\ DOMAIN users \subseteq Name \cup {Admin}
    <3>1. [by |-> 0, keys |-> {}] \in Holder
      BY DEF Holder
    <3> QED BY <3>1, AccountsAssumption DEF AccountsInit
  <2>4. AccountTypes
    BY <2>2, <2>3 DEF AccountTypes, AccountsInit
  <2> QED BY <2>2, <2>4 DEF HeirsInv, RowInv
<1> QED BY <1>1, AccountsInductive, PTL DEF AccountsSpec

\* Whoever gets a name, finds nothing of those who had it before, but what a
\* request of theirs was half way through.
THEOREM HeirsInheritNothing == AccountsSpec => []HeirsStartClean
<1>1. HeirsInv => HeirsStartClean
  <2> SUFFICES ASSUME HeirsInv, NEW r \in rows, Has(r.user), ~r.late, ~UnderWayBy(r.by)
               PROVE  r.by = users[r.user].by
    BY DEF HeirsStartClean
  <2>1. Matched(r) \/ Pending(r)
    BY DEF HeirsInv, RowInv
  <2>2. ASSUME NEW w \in Worker, HoldsFp(job[w], r) PROVE FALSE
    <3>1. job[w] # None /\ job[w].by = r.by
      BY <2>2, NoneFacts DEF HoldsFp
    <3> QED BY <3>1 DEF UnderWayBy
  <2> QED BY <2>1, <2>2 DEF Matched, Pending
<1> QED BY <1>1, HeirsInvariant, PTL

\* Only @mcp's own statement touches a client while it runs.
LEMMA SelfTouchesOwn ==
    ASSUME HeirsInv, [AccountsNext]_avars, NEW w \in Worker, NEW c \in DOMAIN clients,
           job[w].op = "self", job'[w] # job[w],
           ~ (c \in DOMAIN clients' /\ clients'[c] = clients[c])
    PROVE  clients[c].owner = job[w].u
<1>1. clients' # clients /\ job' # job
  OBVIOUS
<1>2. AccountsNext
  BY <1>1 DEF avars
<1>3. PICK v \in Worker : MCPOwned(v) \/ MCPSetOwner(v)
  <2>1. ASSUME NEW v \in Worker, Begins(v) PROVE clients' = clients
    BY <2>1 DEF Begins, handleRegister, handleMachineRegister, machineAdd, identityBind,
       oauthGrant, mgmtMCP, userRename, fingerprintRelease, sshkey, mcpSetOwner, ForOwner, Begun
  <2>2. ASSUME NEW v \in Worker, Jobs(v), ~MCPOwned(v), ~MCPSetOwner(v) PROVE clients' = clients
    BY <2>2 DEF Jobs, Look, BindFingerprint, ReleaseFingerprint, DropDefault, Add, JoinLook,
       JoinGet, RegenMachineToken, AddMachineLook, AddMachine, WriteRow, Rename, ForceRelease,
       ReadKeys, WriteKeys
  <2>3. ASSUME Crash PROVE clients' = clients
    BY <2>3 DEF Crash
  <2>4. ASSUME \/ \E u \in Name : AddUser(u) \/ Remove(u) \/ ClearSSHKeys(u)
               \/ \E u \in Name, m \in MachineName : RemoveMachine(u, m)
               \/ \E i \in Identity : UnbindOAuthIdentity(i)
               \/ \E x \in Name \cup {Admin} : MCPAdd(x) \/ MCPRemove(x) \/ MCPRegenToken(x)
        PROVE  job' = job
    BY <2>4 DEF AddUser, Remove, ClearSSHKeys, RemoveMachine, UnbindOAuthIdentity, MCPAdd,
       MCPRemove, MCPRegenToken, Command
  <2> QED BY <1>1, <1>2, <2>1, <2>2, <2>3, <2>4 DEF AccountsNext
<1>4. v = w
  <2>1. job' = [job EXCEPT ![v] = None]
    BY <1>3 DEF MCPOwned, MCPSetOwner, Finish
  <2> QED BY <2>1, JobFacts
<1>5. MCPOwned(w)
  BY <1>3, <1>4 DEF MCPSetOwner, At
<1> QED BY <1>5 DEF MCPOwned, mcpKeyWhere

\* With @mcp nobody touches a client that is not his account's at that moment,
\* however administrators hand clients around (mgmtMCP, MCPOwned*).
THEOREM OwnersTouchTheirOwn == AccountsSpec => OwnersOnly
<1>1. ASSUME HeirsInv, [AccountsNext]_avars
      PROVE  [\A w \in Worker, c \in DOMAIN clients :
          /\ job[w].op = "self" /\ job'[w] # job[w]
          /\ ~ (c \in DOMAIN clients' /\ clients'[c] = clients[c])
          => clients[c].owner = job[w].u]_avars
  BY <1>1, SelfTouchesOwn
<1> QED BY <1>1, HeirsInvariant, PTL DEF AccountsSpec, OwnersOnly

-----------------------------------------------------------------------------
(* RegisterLimit.                                                          *)

RateSpec == RLInit /\ [][RLNext]_rvars

Moment == [at : Nat, nth : Nat]
KeptFor(h, s) == IF s \in DOMAIN h THEN h[s] ELSE {}
At0(v, t) == {h \in v : h.at = t}

\* The times of one tick are numbered without a gap: a set of them has as many
\* elements as there were registrations.
Counting(v) == /\ v \subseteq Moment /\ IsFiniteSet(v)
               /\ \A h \in v : h.nth < Cardinality(At0(v, h.at))

TableFits == /\ IsFiniteSet(DOMAIN hits) /\ Cardinality(DOMAIN hits) <= MaxIPs

\* As far as the window goes, the table knows what was granted.
RateInv ==
    /\ clock \in Nat /\ granted = [s \in Source |-> granted[s]] /\ TableFits
    /\ \A s \in Source : /\ Counting(granted[s]) /\ Cardinality(granted[s]) <= PerIPMax
                         /\ KeptFor(hits, s) \subseteq Moment
                         /\ Fresh(KeptFor(hits, s)) = Fresh(granted[s])

LEMMA FreshCounts ==
    ASSUME NEW v, Counting(v), clock \in Nat
    PROVE  Counting(Fresh(v)) /\ Cardinality(Fresh(v)) <= Cardinality(v)
<1>1. Fresh(v) \in SUBSET v /\ IsFiniteSet(v)
  BY DEF Fresh, Counting
<1>2. IsFiniteSet(Fresh(v)) /\ Cardinality(Fresh(v)) <= Cardinality(v)
  BY <1>1, FS_Subset
<1>3. \A h \in Fresh(v) : At0(Fresh(v), h.at) = At0(v, h.at)
  BY DEF Fresh, At0
<1> QED BY <1>1, <1>2, <1>3 DEF Counting

\* A registration adds one to the list of its address.
LEMMA NowCounts ==
    ASSUME NEW v, Counting(v), clock \in Nat
    PROVE  /\ Counting(WithNow(v)) /\ Cardinality(WithNow(v)) = Cardinality(v) + 1
           /\ Fresh(WithNow(v)) = WithNow(Fresh(v))
<1> DEFINE k == Cardinality(At0(v, clock))
           new == [at |-> clock, nth |-> k]
<1>1. At0(v, clock) \in SUBSET v /\ IsFiniteSet(v)
  BY DEF At0, Counting
<1>2. IsFiniteSet(At0(v, clock)) /\ k \in Nat
  BY <1>1, FS_Subset, FS_CardinalityType
<1>3. WithNow(v) = v \cup {new}
  BY DEF WithNow, At0
<1>4. new.at = clock /\ new.nth = k /\ new \in Moment
  BY <1>2 DEF Moment
<1>5. new \notin v
  <2> SUFFICES ASSUME new \in v PROVE FALSE
    OBVIOUS
  <2>1. new.nth < Cardinality(At0(v, new.at))
    BY DEF Counting
  <2> QED BY <1>2, <1>4, <2>1
<1> HIDE DEF new
<1>6. IsFiniteSet(WithNow(v)) /\ Cardinality(WithNow(v)) = Cardinality(v) + 1
  BY <1>1, <1>3, <1>5, FS_AddElement
<1>7. At0(WithNow(v), clock) = At0(v, clock) \cup {new} /\ new \notin At0(v, clock)
  BY <1>3, <1>4, <1>5 DEF At0
<1>8. Cardinality(At0(WithNow(v), clock)) = k + 1
  BY <1>2, <1>7, FS_AddElement
<1>9. \A t : t # clock => At0(WithNow(v), t) = At0(v, t)
  BY <1>3, <1>4 DEF At0
<1>10. ASSUME NEW h \in WithNow(v) PROVE h.nth < Cardinality(At0(WithNow(v), h.at))
  <2>1. CASE h = new
    BY <1>2, <1>4, <1>8, <2>1
  <2>2. CASE h \in v
    <3>1. h.nth < Cardinality(At0(v, h.at)) /\ h.nth \in Nat
      BY <2>2 DEF Counting, Moment
    <3> QED BY <1>2, <1>8, <1>9, <3>1
  <2> QED BY <1>3, <2>1, <2>2
<1>11. Counting(WithNow(v))
  BY <1>3, <1>4, <1>6, <1>10 DEF Counting
<1>12. Fresh(WithNow(v)) = WithNow(Fresh(v))
  <2>1. clock > clock - Span
    BY RegisterLimitAssumption
  <2>2. At0(Fresh(v), clock) = At0(v, clock)
    BY <2>1 DEF At0, Fresh
  <2>3. WithNow(Fresh(v)) = Fresh(v) \cup {new}
    BY <2>2 DEF WithNow, At0, new
  <2>4. Fresh(v \cup {new}) = Fresh(v) \cup {new}
    BY <1>4, <2>1 DEF Fresh
  <2> QED BY <1>3, <2>3, <2>4
<1> QED BY <1>6, <1>11, <1>12

LEMMA FreshTwice == \A v : Fresh(Fresh(v)) = Fresh(v)
BY DEF Fresh

\* The sweep takes nothing that counts.
LEMMA SweepKeeps ==
    ASSUME NEW s
    PROVE  /\ DOMAIN Sweep \subseteq DOMAIN hits
           /\ Fresh(KeptFor(Sweep, s)) = Fresh(KeptFor(hits, s))
           /\ KeptFor(Sweep, s) \subseteq KeptFor(hits, s)
<1>1. DOMAIN Sweep = {x \in DOMAIN hits : Fresh(hits[x]) # {}}
  BY DEF Sweep
<1>2. CASE s \in DOMAIN Sweep
  <2>1. KeptFor(Sweep, s) = Fresh(hits[s]) /\ KeptFor(hits, s) = hits[s]
    BY <1>1, <1>2 DEF KeptFor, Sweep
  <2>2. Fresh(hits[s]) \subseteq hits[s]
    BY DEF Fresh
  <2> QED BY <1>1, <2>1, <2>2, FreshTwice
<1>3. CASE s \notin DOMAIN Sweep
  <2>1. KeptFor(Sweep, s) = {} /\ Fresh(KeptFor(hits, s)) = {}
    BY <1>1, <1>3 DEF KeptFor, Fresh
  <2> QED BY <1>1, <2>1 DEF Fresh
<1> QED BY <1>2, <1>3

LEMMA SetFacts ==
    \A h, s, v : /\ DOMAIN Set(h, s, v) = DOMAIN h \cup {s}
                 /\ \A x : KeptFor(Set(h, s, v), x) = IF x = s THEN v ELSE KeptFor(h, x)
BY DEF Set, KeptFor

LEMMA AllowKeepsRate ==
    ASSUME RateInv, NEW s \in Source, allow(s)
    PROVE  RateInv'
<1> DEFINE full  == Cardinality(DOMAIN hits) >= MaxIPs
           table == IF full THEN Sweep ELSE hits
           room  == full /\ s \notin DOMAIN table => Cardinality(DOMAIN table) < MaxIPs
           keep  == IF s \in DOMAIN table THEN Fresh(table[s]) ELSE {}
           ok    == room /\ Cardinality(keep) < PerIPMax
<1>1. /\ hits' = IF ~ room THEN table
                 ELSE Set(table, s, IF ok THEN WithNow(keep) ELSE keep)
      /\ granted' = IF ok THEN [granted EXCEPT ![s] = WithNow(Fresh(@))] ELSE granted
      /\ clock' = clock
  BY DEF allow
<1>2. \A v : Fresh(v)' = Fresh(v')
  BY <1>1 DEF Fresh
<1>3. /\ DOMAIN table \subseteq DOMAIN hits
      /\ \A x : /\ Fresh(KeptFor(table, x)) = Fresh(KeptFor(hits, x))
               /\ KeptFor(table, x) \subseteq KeptFor(hits, x)
  BY SweepKeeps
<1>4. keep = Fresh(granted[s])
  <2>1. keep = Fresh(KeptFor(table, s))
    BY DEF KeptFor, Fresh
  <2> QED BY <1>3, <2>1 DEF RateInv
<1>5. /\ IsFiniteSet(DOMAIN table) /\ Cardinality(DOMAIN table) \in Nat
      /\ Cardinality(DOMAIN table) <= Cardinality(DOMAIN hits)
      /\ Cardinality(DOMAIN hits) \in Nat /\ Cardinality(DOMAIN hits) <= MaxIPs
  BY <1>3, FS_Subset, FS_CardinalityType DEF RateInv, TableFits
<1>6. room => \/ s \in DOMAIN table
              \/ Cardinality(DOMAIN table) < MaxIPs
  BY <1>5, RegisterLimitAssumption
<1>7. /\ Counting(keep) /\ Cardinality(keep) \in Nat
      /\ Counting(granted[s]) /\ clock \in Nat
  BY <1>4, FreshCounts, FS_CardinalityType DEF RateInv, Counting
<1> HIDE DEF full, table, room, keep
<1>8. TableFits'
  <2>1. CASE ~ room
    BY <1>1, <1>5, <2>1, RegisterLimitAssumption DEF TableFits
  <2>2. CASE room
    <3>1. DOMAIN hits' = DOMAIN table \cup {s}
      BY <1>1, <2>2, SetFacts
    <3>2. /\ IsFiniteSet(DOMAIN table \cup {s})
          /\ Cardinality(DOMAIN table \cup {s}) <= MaxIPs
      <4>1. CASE s \in DOMAIN table
        <5>1. DOMAIN table \cup {s} = DOMAIN table
          BY <4>1
        <5> QED BY <1>5, <5>1, RegisterLimitAssumption
      <4>2. CASE s \notin DOMAIN table
        <5>1. /\ IsFiniteSet(DOMAIN table \cup {s})
              /\ Cardinality(DOMAIN table \cup {s}) = Cardinality(DOMAIN table) + 1
          BY <1>5, <4>2, FS_AddElement
        <5> QED BY <1>5, <1>6, <2>2, <4>2, <5>1, RegisterLimitAssumption
      <4> QED BY <4>1, <4>2
    <3> QED BY <3>1, <3>2 DEF TableFits
  <2> QED BY <2>1, <2>2
<1>9. CASE ok
  <2>1. hits' = Set(table, s, WithNow(keep)) /\ granted' = [granted EXCEPT ![s] = WithNow(keep)]
    BY <1>1, <1>4, <1>9
  <2>2. /\ Counting(WithNow(keep)) /\ Cardinality(WithNow(keep)) = Cardinality(keep) + 1
    BY <1>7, NowCounts
  <2>3. Cardinality(WithNow(keep)) <= PerIPMax
    BY <1>7, <1>9, <2>2, RegisterLimitAssumption
  <2>4. granted'[s] = WithNow(keep) /\ \A x \in Source : x # s => granted'[x] = granted[x]
    BY <2>1 DEF RateInv
  <2>5. KeptFor(hits', s) = WithNow(keep) /\ \A x : x # s => KeptFor(hits', x) = KeptFor(table, x)
    BY <2>1, SetFacts
  <2>6. ASSUME NEW x \in Source
        PROVE  /\ Counting(granted'[x]) /\ Cardinality(granted'[x]) <= PerIPMax
               /\ KeptFor(hits', x) \subseteq Moment
               /\ Fresh(KeptFor(hits', x)) = Fresh(granted'[x])
    <3>1. CASE x = s
      BY <2>2, <2>3, <2>4, <2>5, <3>1 DEF Counting
    <3>2. CASE x # s
      BY <1>3, <2>4, <2>5, <3>2 DEF RateInv
    <3> QED BY <3>1, <3>2
  <2>7. granted' = [x \in Source |-> granted'[x]]
    BY <2>1 DEF RateInv
  <2>8. clock' \in Nat
    BY <1>1, <1>7
  <2>9. \A x \in Source : (KeptFor(hits, x) \subseteq Moment /\ Fresh(KeptFor(hits, x)) = Fresh(granted[x]))'
    BY <1>1, <2>6 DEF Fresh, KeptFor
  <2> QED BY <1>8, <2>6, <2>7, <2>8, <2>9 DEF RateInv, Counting, At0
<1>10. CASE ~ ok
  <2>1. granted' = granted /\ clock' = clock
    BY <1>1, <1>10
  <2>2. ASSUME NEW x \in Source
        PROVE  /\ KeptFor(hits', x) \subseteq Moment
               /\ Fresh(KeptFor(hits', x)) = Fresh(granted[x])
    <3>1. CASE ~ room
      BY <1>1, <1>3, <3>1 DEF RateInv
    <3>2. CASE room
      <4>1. hits' = Set(table, s, keep)
        BY <1>1, <1>10, <3>2
      <4>2. KeptFor(hits', x) = IF x = s THEN keep ELSE KeptFor(table, x)
        BY <4>1, SetFacts
      <4> QED BY <1>3, <1>4, <1>7, <4>2, FreshTwice DEF RateInv, Counting
    <3> QED BY <3>1, <3>2
  <2>3. \A x \in Source : (KeptFor(hits, x) \subseteq Moment /\ Fresh(KeptFor(hits, x)) = Fresh(granted[x]))'
    BY <2>1, <2>2 DEF Fresh, KeptFor
  <2> QED BY <1>8, <2>1, <2>3 DEF RateInv, Counting, At0
<1> QED BY <1>9, <1>10

LEMMA TickKeepsRate ==
    ASSUME RateInv, RLTick
    PROVE  RateInv'
<1>1. clock \in Nat /\ clock' = clock + 1 /\ hits' = hits /\ granted' = granted
  BY DEF RateInv, RLTick
<1>2. TableFits'
  BY <1>1 DEF TableFits, RateInv
<1>3. ASSUME NEW s \in Source
      PROVE  /\ Counting(granted[s])' /\ (Cardinality(granted[s]) <= PerIPMax)'
             /\ (KeptFor(hits, s) \subseteq Moment)'
             /\ (Fresh(KeptFor(hits, s)) = Fresh(granted[s]))'
  <2>1. Counting(granted[s])' /\ (Cardinality(granted[s]) <= PerIPMax)'
    BY <1>1 DEF RateInv, Counting, At0
  <2>2. /\ KeptFor(hits, s) \subseteq Moment /\ granted[s] \subseteq Moment
        /\ Fresh(KeptFor(hits, s)) = Fresh(granted[s])
    BY DEF RateInv, Counting
  <2>3. \A h \in Moment : h.at > clock' - Span => h.at > clock - Span
    BY <1>1, RegisterLimitAssumption DEF Moment
  <2>4. (KeptFor(hits, s) \subseteq Moment)'
    BY <1>1, <2>2 DEF KeptFor
  <2>5. (Fresh(KeptFor(hits, s)) = Fresh(granted[s]))'
    <3>1. \A v : v \subseteq Moment =>
             {h \in v : h.at > clock' - Span} = {h \in Fresh(v) : h.at > clock' - Span}
      BY <2>3 DEF Fresh
    <3> QED BY <1>1, <2>2, <3>1 DEF Fresh, KeptFor
  <2> QED BY <2>1, <2>4, <2>5
<1> QED BY <1>1, <1>2, <1>3 DEF RateInv

\* The invariant of the registration limit: within the window the table knows
\* every registration that was let through, and is never over its size
\* (register.go, registerRL.allow).
THEOREM RateInvariant == RateSpec => []RateInv
<1>1. RLInit => RateInv
  <2> SUFFICES ASSUME RLInit PROVE RateInv
    OBVIOUS
  <2>1. DOMAIN hits = {} /\ clock = 0 /\ granted = [s \in Source |-> {}]
    BY DEF RLInit
  <2>2. TableFits
    BY <2>1, FS_EmptySet, RegisterLimitAssumption DEF TableFits
  <2>3. ASSUME NEW s \in Source
        PROVE  /\ Counting(granted[s]) /\ Cardinality(granted[s]) <= PerIPMax
               /\ KeptFor(hits, s) \subseteq Moment
               /\ Fresh(KeptFor(hits, s)) = Fresh(granted[s])
    BY <2>1, FS_EmptySet, RegisterLimitAssumption DEF Counting, KeptFor
  <2> QED BY <2>1, <2>2, <2>3 DEF RateInv
<1>2. RateInv /\ [RLNext]_rvars => RateInv'
  <2>1. RateInv /\ UNCHANGED rvars => RateInv'
    BY DEF rvars, RateInv, Counting, At0, TableFits, Fresh, KeptFor
  <2> QED BY <2>1, AllowKeepsRate, TickKeepsRate DEF RLNext
<1> QED BY <1>1, <1>2, PTL DEF RateSpec

\* An address registers at most PerIPMax times within a window, and the table
\* keeps its size, whatever it is swept of (register.go, registerRL.allow).
THEOREM RegistrationsAreFew == RateSpec => []RateHolds
<1>1. RateInv => RateHolds
  BY DEF RateInv, RateHolds, TableFits
<1> QED BY <1>1, RateInvariant, PTL

=============================================================================
