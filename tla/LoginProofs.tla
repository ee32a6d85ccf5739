----------------------------- MODULE LoginProofs -----------------------------
(***************************************************************************)
(* For any number of connections, accounts, grants and addresses: a        *)
(* one-time grant opens no more logins than it may, a code is accepted     *)
(* once, a lock is earned and keeps everybody out, and only a full proof   *)
(* lifts what was counted.                                                 *)
(***************************************************************************)
EXTENDS Login, FiniteSetTheorems, TLAPS

\* The uses a row has left and those it has had make up what it was issued with,
\* whatever has become of it since.
GrantInv ==
    /\ grant \in [Grant -> GrantRec]
    /\ usedUp \in [Grant -> Nat] /\ now \in Time
    /\ \A g \in Grant :
          usedUp[g] = IF grant[g].state = "none" THEN 0 ELSE GrantUses - grant[g].left

LEMMA GrantInitially == LoginInit => GrantInv
<1> SUFFICES ASSUME LoginInit PROVE GrantInv
  OBVIOUS
<1>1. PICK f \in [Grant -> {[state |-> "none", acct |-> a, left |-> 0, till |-> 0] : a \in Account}] :
        grant = f
  BY DEF LoginInit
<1>2. \A g \in Grant : grant[g] \in GrantRec /\ grant[g].state = "none"
  BY <1>1, LoginAssumption, GuardAssumption DEF GrantRec
<1>3. grant \in [Grant -> GrantRec]
  BY <1>1, <1>2
<1> QED BY <1>2, <1>3, GuardAssumption DEF GrantInv, LoginInit, GuardInit, Time

LEMMA TakeKeeps == ASSUME GrantInv, NEW x \in Actor, TakeGrant(x) PROVE GrantInv'
<1> DEFINE g == who[x].grant
<1>1. CASE ~ Takeable(g)
  BY <1>1 DEF TakeGrant, Fail, GrantInv
<1>2. CASE Takeable(g)
  <2>1. /\ grant' = [grant EXCEPT ![g].left = IF @ > 0 THEN @ - 1 ELSE 0]
        /\ usedUp' = [usedUp EXCEPT ![g] = @ + 1]
        /\ grant[g].left > 0 /\ grant[g].state = "live" /\ now' = now
    BY <1>2 DEF TakeGrant, Takeable, guard
  <2> HIDE DEF g
  <2>2. CASE g \notin Grant
    BY <2>1, <2>2 DEF GrantInv
  <2>3. CASE g \in Grant
    <3>1. GrantUses \in Nat /\ grant[g].left \in 0 .. GrantUses
      BY <2>3, LoginAssumption DEF GrantInv, GrantRec
    <3>2. grant' = [grant EXCEPT ![g] = [grant[g] EXCEPT !.left = grant[g].left - 1]]
      BY <2>1, <2>3, <3>1 DEF GrantInv
    <3>3. [grant[g] EXCEPT !.left = grant[g].left - 1] \in GrantRec
      BY <2>1, <2>3, <3>1 DEF GrantInv, GrantRec
    <3>4. grant' \in [Grant -> GrantRec]
      BY <2>3, <3>2, <3>3 DEF GrantInv
    <3>5. /\ grant'[g].state = "live" /\ grant'[g].left = grant[g].left - 1
          /\ \A h \in Grant : h # g => grant'[h] = grant[h]
      BY <2>1, <2>3, <3>2 DEF GrantInv, GrantRec
    <3>6. /\ usedUp' \in [Grant -> Nat] /\ usedUp'[g] = usedUp[g] + 1
          /\ \A h \in Grant : h # g => usedUp'[h] = usedUp[h]
      BY <2>1, <2>3 DEF GrantInv
    <3>7. usedUp'[g] = GrantUses - grant'[g].left
      BY <2>1, <2>3, <3>1, <3>5, <3>6 DEF GrantInv
    <3> QED BY <2>1, <3>4, <3>5, <3>6, <3>7 DEF GrantInv
  <2> QED BY <2>2, <2>3
<1> QED BY <1>1, <1>2

LEMMA IssueKeeps == ASSUME GrantInv, NEW g \in Grant, IssueGrant(g) PROVE GrantInv'
<1>1. UNCHANGED <<usedUp, now>> /\ grant[g].state = "none"
      /\ grant' = [grant EXCEPT ![g] = [grant[g] EXCEPT !.state = "live", !.left = GrantUses,
                                                       !.till = now + GrantTTL]]
  BY DEF IssueGrant, hist, guard, GrantInv
<1>2. GrantUses \in 0 .. GrantUses /\ now + GrantTTL \in 0 .. MaxClock + GrantTTL
  BY LoginAssumption, GuardAssumption DEF GrantInv, Time
<1>3. [grant[g] EXCEPT !.state = "live", !.left = GrantUses, !.till = now + GrantTTL] \in GrantRec
  BY <1>2 DEF GrantInv, GrantRec
<1>4. grant' \in [Grant -> GrantRec] /\ \A h \in Grant : h # g => grant'[h] = grant[h]
  BY <1>1, <1>3 DEF GrantInv
<1>5. grant'[g].state = "live" /\ grant'[g].left = GrantUses
  BY <1>1 DEF GrantInv, GrantRec
<1>6. usedUp[g] = GrantUses - GrantUses
  BY <1>1, LoginAssumption DEF GrantInv
<1> QED BY <1>1, <1>4, <1>5, <1>6 DEF GrantInv

\* A revoked grant keeps its count.
LEMMA RevokeKeeps == ASSUME GrantInv, NEW a \in Account, RevokeSSHGrants(a) PROVE GrantInv'
<1>1. UNCHANGED <<usedUp, now>> /\ grant' = [g \in Grant |-> IF grant[g].acct = a /\ grant[g].state = "live"
                                   THEN [grant[g] EXCEPT !.state = "gone"] ELSE grant[g]]
  BY DEF RevokeSSHGrants, hist, guard
<1>2. ASSUME NEW g \in Grant
      PROVE  /\ grant'[g] \in GrantRec /\ grant'[g].left = grant[g].left
             /\ (grant'[g].state = "none") = (grant[g].state = "none")
  <2>1. CASE grant[g].acct = a /\ grant[g].state = "live"
    <3>1. grant'[g] = [grant[g] EXCEPT !.state = "gone"]
      BY <1>1, <2>1
    <3> QED BY <2>1, <3>1 DEF GrantInv, GrantRec
  <2>2. CASE ~ (grant[g].acct = a /\ grant[g].state = "live")
    BY <1>1, <2>2 DEF GrantInv
  <2> QED BY <2>1, <2>2
<1>3. grant' \in [Grant -> GrantRec]
  BY <1>1, <1>2
<1> QED BY <1>1, <1>2, <1>3 DEF GrantInv

\* Nothing else touches a grant.
LEMMA OthersLeaveGrants ==
    ASSUME LoginNext,
           \A x \in Actor : ~ TakeGrant(x),
           \A g \in Grant : ~ IssueGrant(g),
           \A a \in Account : ~ RevokeSSHGrants(a),
           ~ Tick
    PROVE  UNCHANGED <<grant, usedUp, now>>
<1> USE DEF hist, guard
<1>1. ASSUME NEW x \in Actor, AskIdle(x) \/ AskMgmt(x) \/ AskPasswd(x) PROVE UNCHANGED <<grant, usedUp, now>>
  BY <1>1 DEF AskIdle, AskMgmt, AskPasswd
<1>2. ASSUME NEW x \in Actor, NEW a \in Account,
             Burn(x, a) \/ \/ \E s \in BOOLEAN : OfferKey(x, a, s)
                           \/ \E k \in Kind, g \in Grant \cup {None} : Begin(x, a, k, g)
      PROVE  UNCHANGED <<grant, usedUp, now>>
  BY <1>2 DEF Burn, OfferKey, Begin
<1>3. ASSUME NEW x \in Actor, Fail(x) \/ WrongCode(x) PROVE UNCHANGED <<grant, usedUp, now>>
  BY <1>3 DEF Fail, WrongCode
<1>4. ASSUME NEW x \in Actor, Refused(x) \/ ReadGrant(x) \/ GrantPasses(x) \/ BadCode(x)
                              \/ Leave(x) \/ ConsumeStep(x)
      PROVE  UNCHANGED <<grant, usedUp, now>>
  BY <1>3, <1>4 DEF Refused, ReadGrant, GrantPasses, BadCode, Leave, ConsumeStep, Pass
<1>5. ASSUME NEW x \in Actor, NEW right \in BOOLEAN, Compare(x, right) \/ OldPassword(x, right)
      PROVE  UNCHANGED <<grant, usedUp, now>>
  BY <1>3, <1>5 DEF Compare, OldPassword, Pass
<1>6. ASSUME NEW x \in Actor, NEW c \in Step, ReadStep(x, c) PROVE UNCHANGED <<grant, usedUp, now>>
  BY <1>6 DEF ReadStep
<1>7. ASSUME NEW a \in Account, SetDisabled(a) \/ SetOAuthOnly(a) \/ \E c \in Step : EnrollTOTP(a, c)
      PROVE  UNCHANGED <<grant, usedUp, now>>
  BY <1>7 DEF SetDisabled, SetOAuthOnly, EnrollTOTP, Change
<1>8. ASSUME \E i \in IP : Status(i) PROVE UNCHANGED <<grant, usedUp, now>>
  BY <1>8 DEF Status, StatusDenied
<1> QED BY <1>1, <1>2, <1>4, <1>5, <1>6, <1>7, <1>8 DEF LoginNext

LEMMA GrantStep == GrantInv /\ [LoginNext]_vars => GrantInv'
<1> SUFFICES ASSUME GrantInv, [LoginNext]_vars PROVE GrantInv'
  OBVIOUS
<1>1. ASSUME UNCHANGED <<grant, usedUp, now>> PROVE GrantInv'
  BY <1>1 DEF GrantInv
<1>2. CASE UNCHANGED vars
  BY <1>1, <1>2 DEF vars
<1>3. CASE LoginNext
  <2>1. CASE Tick
    BY <2>1, GuardAssumption DEF Tick, GrantInv, hist, Time
  <2> QED BY <1>1, <1>3, <2>1, OthersLeaveGrants, TakeKeeps, IssueKeeps, RevokeKeeps
<1> QED BY <1>2, <1>3

\* However many connections present one grant at once, and whatever becomes of
\* the account meanwhile, it opens at most GrantUses logins (accounts/oauth.go:
\* UseSSHGrant).
THEOREM GrantsStayWithinUses == LoginSpec => []GrantWithinUses
<1>1. GrantInv => GrantWithinUses
  BY LoginAssumption DEF GrantInv, GrantRec, GrantWithinUses
<1> QED BY <1>1, GrantInitially, GrantStep, PTL DEF LoginSpec


-----------------------------------------------------------------------------
(* Codes.                                                                  *)

TypeInv == /\ who \in [Actor -> WhoRec] /\ acct \in [Account -> AccountRec] /\ now \in Time

\* A code that was accepted belongs to an authenticator that has been replaced,
\* or is not later than the step the account remembers.
Past(code) == /\ code \in Account \X Nat \X Step
              /\ code[2] <= acct[code[1]].totp
              /\ code[2] = acct[code[1]].totp => code[3] <= acct[code[1]].lastStep
CodeInv == /\ TypeInv
           /\ spent = [once |-> spent.once, again |-> spent.again] /\ spent.again = {}
           /\ \A code \in spent.once : Past(code)

LEMMA NobodyTyped == ASSUME NEW x PROVE Nobody(x) \in WhoRec /\ 0 \in Step /\ 0 \in 0 .. Tries
  BY LoginAssumption, GuardAssumption DEF Nobody, WhoRec, Step, Kind

\* What is left when an attempt is over, or begins again
LEMMA RestTyped ==
    ASSUME NEW w \in WhoRec,
           NEW pc \in {"idle", "compare", "row", "taken", "burn", "code", "stepRead", "in"}
    PROVE  /\ Rest(w) \in WhoRec /\ [Rest(w) EXCEPT !.pc = pc] \in WhoRec
           /\ [w EXCEPT !.pc = pc] \in WhoRec
           /\ \A k \in Kind : [Rest(w) EXCEPT !.pc = pc, !.kind = k] \in WhoRec
<1>1. Rest(w) \in WhoRec
  BY NobodyTyped DEF Rest, WhoRec
<1> QED BY <1>1, ZenonT(40) DEF WhoRec

LEMMA AgainTyped == ASSUME TypeInv, NEW x \in Actor PROVE Again(x) \in WhoRec
  BY NobodyTyped DEF Again, TypeInv, WhoRec

LEMMA Updated ==
    ASSUME TypeInv, NEW x \in Actor, NEW w \in WhoRec, who' = [who EXCEPT ![x] = w]
    PROVE  who' \in [Actor -> WhoRec]
  BY DEF TypeInv

LEMMA FailTyped == ASSUME TypeInv, NEW x \in Actor, Fail(x) PROVE who' \in [Actor -> WhoRec]
<1>1. who[x] \in WhoRec
  BY DEF TypeInv
<1> DEFINE w == IF who[x].kind = "password" /\ who[x].key # 0
                  THEN [Rest(who[x]) EXCEPT !.pc = "burn"] ELSE Again(x)
<1>2. who' = [who EXCEPT ![x] = w]
  BY DEF Fail, TypeInv
<1>3. w \in WhoRec
  BY <1>1, RestTyped, AgainTyped
<1> QED BY <1>2, <1>3, Updated

LEMMA WrongTyped ==
    ASSUME TypeInv, NEW x \in Actor, WrongCode(x) PROVE who' \in [Actor -> WhoRec]
<1> DEFINE w == who[x]
<1>1. w \in WhoRec
  BY DEF TypeInv
<1>2. w.tries > 1 => [w EXCEPT !.pc = "code", !.step = 0, !.tries = w.tries - 1] \in WhoRec
  <2> HIDE DEF w
  <2>1. w.tries \in 0 .. Tries /\ Tries \in Nat
    BY <1>1, LoginAssumption DEF WhoRec
  <2>2. w.tries > 1 => w.tries - 1 \in 0 .. Tries
    BY <2>1
  <2> QED BY <1>1, <2>2, NobodyTyped DEF WhoRec
<1>3. [Rest(w) EXCEPT !.pc = "in", !.kind = "password"] \in WhoRec
  BY <1>1, RestTyped DEF Kind
<1> DEFINE v == IF w.tries > 1 THEN [w EXCEPT !.pc = "code", !.step = 0, !.tries = w.tries - 1]
                ELSE IF w.kind \in {"mgmt", "passwd", "idle"}
                  THEN [Rest(w) EXCEPT !.pc = "in", !.kind = "password"] ELSE Again(x)
<1>4. who' = [who EXCEPT ![x] = v]
  BY DEF WrongCode, TypeInv
<1>5. v \in WhoRec
  BY <1>2, <1>3, AgainTyped
<1> QED BY <1>4, <1>5, Updated

LEMMA FourFields ==
    ASSUME NEW w \in WhoRec, NEW pc \in {"idle", "in"}, NEW k \in Kind,
           NEW p \in SUBSET {"password", "code", "grant", "key"},
           NEW m \in {None, "publickey", "grant"}
    PROVE  [w EXCEPT !.pc = pc, !.kind = k, !.proved = p, !.mark = m] \in WhoRec
  BY DEF WhoRec

LEMMA PassTyped ==
    ASSUME TypeInv, NEW x \in Actor, NEW proof \in {"password", "code", "grant", "key"},
           Pass(x, proof)
    PROVE  who' \in [Actor -> WhoRec]
<1> DEFINE w == Rest(who[x])
           v == [w EXCEPT !.pc = IF w.kind = "http" THEN "idle" ELSE "in",
                          !.kind = IF w.kind = "mgmt" THEN "mgmt" ELSE "password",
                          !.proved = w.proved \cup {proof},
                          !.mark = IF proof = "grant" THEN "grant" ELSE w.mark]
<1>1. w \in WhoRec
  BY RestTyped DEF TypeInv
<1>2. v \in WhoRec
  <2>1. /\ (IF w.kind = "http" THEN "idle" ELSE "in") \in {"idle", "in"}
        /\ (IF w.kind = "mgmt" THEN "mgmt" ELSE "password") \in Kind
        /\ w.proved \cup {proof} \in SUBSET {"password", "code", "grant", "key"}
        /\ (IF proof = "grant" THEN "grant" ELSE w.mark) \in {None, "publickey", "grant"}
    BY <1>1 DEF WhoRec, Kind
  <2> HIDE DEF w
  <2> QED BY <1>1, <2>1, FourFields
<1>3. who' = [who EXCEPT ![x] = v]
  BY DEF Pass
<1> QED BY <1>2, <1>3, Updated


-----------------------------------------------------------------------------
\* Actions that change neither accounts nor the codes that were accepted
LEMMA AttemptTyped ==
    ASSUME TypeInv, NEW x \in Actor, NEW a \in Account, NEW k \in Kind, NEW g \in Grant \cup {None},
           Begin(x, a, k, g)
    PROVE  who' \in [Actor -> WhoRec]
<1>1. who' = [who EXCEPT ![x] = [who[x] EXCEPT !.pc = "compare", !.acct = a, !.kind = k,
                                     !.grant = g, !.key = acct[a].totp, !.proved = {}]]
  BY DEF Begin, TypeInv
<1>2. acct[a].totp \in Nat
  BY DEF TypeInv, AccountRec
<1>3. [who[x] EXCEPT !.pc = "compare", !.acct = a, !.kind = k,
                     !.grant = g, !.key = acct[a].totp, !.proved = {}] \in WhoRec
  BY <1>2, ZenonT(40) DEF TypeInv, WhoRec
<1> QED BY <1>1, <1>3, Updated

LEMMA ReadTyped ==
    ASSUME TypeInv, NEW x \in Actor, NEW c \in Step, ReadStep(x, c)
    PROVE  who' \in [Actor -> WhoRec]
<1> DEFINE a == who[x].acct
<1>1. a \in Account /\ acct[a].totp \in Nat
  BY DEF TypeInv, WhoRec, AccountRec
<1>2. who' = [who EXCEPT ![x] = [who[x] EXCEPT !.pc = "stepRead", !.step = c, !.key = acct[a].totp]]
  BY DEF ReadStep, TypeInv
<1>3. [who[x] EXCEPT !.pc = "stepRead", !.step = c, !.key = acct[a].totp] \in WhoRec
  BY <1>1, ZenonT(40) DEF TypeInv, WhoRec
<1> QED BY <1>2, <1>3, Updated

LEMMA AskTyped ==
    ASSUME TypeInv, NEW x \in Actor, AskMgmt(x) \/ AskPasswd(x) \/ AskIdle(x)
    PROVE  who' \in [Actor -> WhoRec]
<1>1. PICK k \in Kind : who' = [who EXCEPT ![x] = [who[x] EXCEPT !.pc = "code", !.kind = k, !.tries = Tries]]
  BY DEF AskMgmt, AskPasswd, AskIdle, TypeInv, Kind
<1>2. Tries \in 0 .. Tries
  BY LoginAssumption
<1>3. [who[x] EXCEPT !.pc = "code", !.kind = k, !.tries = Tries] \in WhoRec
  BY <1>2, ZenonT(40) DEF TypeInv, WhoRec
<1> QED BY <1>1, <1>3, Updated

LEMMA KeyTyped ==
    ASSUME TypeInv, NEW x \in Actor, NEW a \in Account, NEW s \in BOOLEAN, OfferKey(x, a, s)
    PROVE  who' \in [Actor -> WhoRec]
<1> DEFINE w == [who[x] EXCEPT !.mark = "publickey",
                               !.acct = IF s THEN a ELSE who[x].acct,
                               !.proved = IF s THEN {"key"} ELSE who[x].proved,
                               !.pc = IF s THEN "in" ELSE "idle"]
<1>1. who' = [who EXCEPT ![x] = w]
  BY DEF OfferKey, TypeInv
<1>2. w \in WhoRec
  BY ZenonT(40) DEF TypeInv, WhoRec
<1> QED BY <1>1, <1>2, Updated

LEMMA CompareTyped ==
    ASSUME TypeInv, NEW x \in Actor, NEW right \in BOOLEAN, Compare(x, right)
    PROVE  who' \in [Actor -> WhoRec]
<1>1. CASE who' = [who EXCEPT ![x].pc = "code", ![x].tries = 1, ![x].proved = {"password"}]
  <2>1. who' = [who EXCEPT ![x] = [who[x] EXCEPT !.pc = "code", !.tries = 1, !.proved = {"password"}]]
    BY <1>1 DEF TypeInv
  <2>2. 1 \in 0 .. Tries
    BY LoginAssumption
  <2>3. [who[x] EXCEPT !.pc = "code", !.tries = 1, !.proved = {"password"}] \in WhoRec
    BY <2>2, ZenonT(40) DEF TypeInv, WhoRec
  <2> QED BY <2>1, <2>3, Updated
<1> QED BY <1>1, FailTyped, PassTyped DEF Compare


LEMMA OtherTyped ==
    ASSUME TypeInv, NEW x \in Actor,
           \/ Refused(x) \/ ReadGrant(x) \/ TakeGrant(x) \/ GrantPasses(x) \/ BadCode(x) \/ Leave(x)
           \/ \E a \in Account : Burn(x, a)
           \/ \E right \in BOOLEAN : OldPassword(x, right)
    PROVE  who' \in [Actor -> WhoRec]
<1>1. CASE Refused(x) \/ \E a \in Account : Burn(x, a)
  BY <1>1, AgainTyped, Updated DEF Refused, Burn
<1>2. CASE Leave(x)
  BY <1>2, NobodyTyped, Updated DEF Leave
<1>3. CASE ReadGrant(x) \/ TakeGrant(x)
  <2>1. ASSUME NEW pc \in {"row", "taken"}, who' = [who EXCEPT ![x].pc = pc]
        PROVE  who' \in [Actor -> WhoRec]
    <3>1. who' = [who EXCEPT ![x] = [who[x] EXCEPT !.pc = pc]]
      BY <2>1 DEF TypeInv
    <3>2. [who[x] EXCEPT !.pc = pc] \in WhoRec
      BY RestTyped DEF TypeInv
    <3> QED BY <3>1, <3>2, Updated
  <2> QED BY <1>3, <2>1, FailTyped DEF ReadGrant, TakeGrant
<1>4. CASE GrantPasses(x)
  BY <1>4, FailTyped, PassTyped DEF GrantPasses
<1>5. CASE BadCode(x)
  BY <1>5, WrongTyped DEF BadCode
<1>6. CASE \E right \in BOOLEAN : OldPassword(x, right)
  BY <1>6, WrongTyped, PassTyped DEF OldPassword
<1> QED BY <1>1, <1>2, <1>3, <1>4, <1>5, <1>6

\* None of them touches the codes, nor what an account has of its second factor.
LEMMA OthersLeaveCodes ==
    ASSUME NEW x \in Actor,
           \/ Refused(x) \/ ReadGrant(x) \/ TakeGrant(x) \/ GrantPasses(x) \/ BadCode(x) \/ Leave(x)
           \/ \E a \in Account : Burn(x, a)
           \/ \E right \in BOOLEAN : OldPassword(x, right) \/ Compare(x, right)
           \/ AskMgmt(x) \/ AskPasswd(x) \/ AskIdle(x)
           \/ \E a \in Account, s \in BOOLEAN : OfferKey(x, a, s)
           \/ \E a \in Account, k \in Kind, g \in Grant \cup {None} : Begin(x, a, k, g)
           \/ \E c \in Step : ReadStep(x, c)
    PROVE  UNCHANGED <<acct, spent, now>>
<1> USE DEF hist, guard
<1>1. ASSUME Fail(x) \/ WrongCode(x) PROVE UNCHANGED <<acct, spent, now>>
  BY <1>1 DEF Fail, WrongCode
<1>2. CASE Refused(x) \/ ReadGrant(x) \/ TakeGrant(x)
  BY <1>1, <1>2 DEF Refused, ReadGrant, TakeGrant
<1>3. CASE GrantPasses(x) \/ BadCode(x) \/ Leave(x)
  BY <1>1, <1>3 DEF GrantPasses, BadCode, Leave, Pass
<1>4. CASE \/ \E a \in Account : Burn(x, a)
           \/ \E right \in BOOLEAN : OldPassword(x, right) \/ Compare(x, right)
  BY <1>1, <1>4 DEF Burn, OldPassword, Compare, Pass
<1>5. CASE \/ AskMgmt(x) \/ AskPasswd(x) \/ AskIdle(x)
           \/ \E a \in Account, s \in BOOLEAN : OfferKey(x, a, s)
           \/ \E a \in Account, k \in Kind, g \in Grant \cup {None} : Begin(x, a, k, g)
           \/ \E c \in Step : ReadStep(x, c)
  <2>1. CASE AskMgmt(x) \/ AskPasswd(x) \/ AskIdle(x)
    BY <2>1 DEF AskMgmt, AskPasswd, AskIdle
  <2>2. ASSUME NEW a \in Account, NEW s \in BOOLEAN, OfferKey(x, a, s)
        PROVE  UNCHANGED <<acct, spent, now>>
    BY <2>2 DEF OfferKey
  <2>3. ASSUME NEW a \in Account, NEW k \in Kind, NEW g \in Grant \cup {None}, Begin(x, a, k, g)
        PROVE  UNCHANGED <<acct, spent, now>>
    BY <2>3 DEF Begin
  <2>4. ASSUME NEW c \in Step, ReadStep(x, c) PROVE UNCHANGED <<acct, spent, now>>
    BY <2>4 DEF ReadStep
  <2> QED BY <1>5, <2>1, <2>2, <2>3, <2>4
<1> QED BY <1>2, <1>3, <1>4, <1>5

LEMMA CodeInitially == LoginInit => CodeInv
<1> SUFFICES ASSUME LoginInit PROVE CodeInv
  OBVIOUS
<1>1. who \in [Actor -> WhoRec]
  BY NobodyTyped DEF LoginInit
<1>2. acct \in [Account -> AccountRec]
  BY NobodyTyped DEF LoginInit, AccountRec
<1>3. now \in Time
  BY GuardAssumption DEF LoginInit, GuardInit, Time
<1> QED BY <1>1, <1>2, <1>3 DEF LoginInit, CodeInv, TypeInv

LEMMA CodesKept ==
    ASSUME CodeInv, TypeInv', UNCHANGED spent,
           \A a \in Account : /\ acct'[a].totp >= acct[a].totp
                              /\ acct'[a].totp = acct[a].totp => acct'[a].lastStep >= acct[a].lastStep
    PROVE  CodeInv'
<1>1. ASSUME NEW code \in spent.once PROVE Past(code)'
  <2>1. Past(code)
    BY DEF CodeInv
  <2> DEFINE a == code[1]
  <2>2. /\ a \in Account /\ code[2] \in Nat /\ code[3] \in Nat
        /\ acct[a].totp \in Nat /\ acct[a].lastStep \in Nat
        /\ acct'[a].totp \in Nat /\ acct'[a].lastStep \in Nat
    BY <2>1 DEF Past, CodeInv, TypeInv, AccountRec, Step
  <2> QED BY <2>1, <2>2 DEF Past
<1> QED BY <1>1 DEF CodeInv

\* The step is written only if it is later than the one that is there: a code
\* of the same authenticator that was accepted is not.
LEMMA ConsumeKeeps == ASSUME CodeInv, NEW x \in Actor, ConsumeStep(x) PROVE CodeInv'
<1> DEFINE w == who[x]
           a == w.acct
           code == <<a, w.key, w.step>>
<1>0. TypeInv /\ w \in WhoRec /\ a \in Account /\ w.step \in Step /\ w.key \in Nat /\ w.step \in Nat
  BY DEF CodeInv, TypeInv, WhoRec, Step
<1>1. CASE ~ Consumes(a, w.step)
  <2>1. WrongCode(x)
    BY <1>1 DEF ConsumeStep
  <2>2. UNCHANGED <<acct, spent, now>>
    BY <2>1 DEF WrongCode, guard
  <2>3. TypeInv'
    BY <1>0, <2>1, <2>2, WrongTyped DEF TypeInv
  <2> QED BY <1>0, <2>2, <2>3, CodesKept DEF TypeInv, AccountRec, Step
<1>2. CASE Consumes(a, w.step)
  <2>1. /\ acct' = [acct EXCEPT ![a].lastStep = w.step] /\ acct[a].lastStep < w.step
        /\ spent' = IF w.key = acct[a].totp THEN Spent(code) ELSE spent
    BY <1>2 DEF ConsumeStep, Consumes
  <2>2. who' \in [Actor -> WhoRec] /\ now' = now
    <3>1. CASE w.kind = "idle"
      <4>1. who' = [who EXCEPT ![x] = [Rest(w) EXCEPT !.pc = "in", !.kind = "password"]] /\ now' = now
        BY <1>2, <3>1 DEF ConsumeStep, guard
      <4>2. [Rest(w) EXCEPT !.pc = "in", !.kind = "password"] \in WhoRec
        BY <1>0, RestTyped DEF Kind
      <4> QED BY <1>0, <4>1, <4>2, Updated
    <3>2. CASE w.kind # "idle"
      <4>1. Pass(x, "code")
        BY <1>2, <3>2 DEF ConsumeStep
      <4> QED BY <1>0, <4>1, PassTyped DEF Pass
    <3> QED BY <3>1, <3>2
  <2>3. [acct[a] EXCEPT !.lastStep = w.step] \in AccountRec
    BY <1>0 DEF TypeInv, AccountRec
  <2>4. acct' = [acct EXCEPT ![a] = [acct[a] EXCEPT !.lastStep = w.step]]
    BY <1>0, <2>1 DEF TypeInv
  <2>5. /\ acct' \in [Account -> AccountRec]
        /\ acct'[a].totp = acct[a].totp /\ acct'[a].lastStep = w.step
        /\ \A b \in Account : b # a => acct'[b] = acct[b]
    BY <1>0, <2>3, <2>4 DEF TypeInv, AccountRec
  <2>6. TypeInv'
    BY <1>0, <2>2, <2>5 DEF TypeInv
  <2> HIDE DEF w, a
  <2>7. \A b \in Account : /\ acct[b].totp \in Nat /\ acct[b].lastStep \in Nat
                           /\ acct'[b].totp = acct[b].totp /\ acct'[b].lastStep >= acct[b].lastStep
    BY <1>0, <2>1, <2>5 DEF TypeInv, AccountRec, Step
  <2>8. ASSUME NEW c \in spent.once PROVE Past(c)'
    <3>1. Past(c)
      BY DEF CodeInv
    <3>2. c[1] \in Account /\ c[2] \in Nat /\ c[3] \in Nat /\ acct'[c[1]].lastStep \in Nat
      BY <2>6, <3>1 DEF Past, Step, TypeInv, AccountRec
    <3> QED BY <2>7, <3>1, <3>2 DEF Past
  <2>9. CASE w.key # acct[a].totp
    BY <2>1, <2>6, <2>8, <2>9 DEF CodeInv
  <2>10. CASE w.key = acct[a].totp
    <3>1. code = <<a, w.key, w.step>> /\ code[1] = a /\ code[2] = w.key /\ code[3] = w.step
      OBVIOUS
    <3> HIDE DEF code
    <3>2. code \notin spent.once
      BY <1>0, <2>1, <2>7, <2>10, <3>1 DEF CodeInv, Past
    <3>3. ASSUME NEW c, c = code PROVE Past(c)'
      <4>1. code \in Account \X Nat \X Step
        BY <1>0, <3>1
      <4>2. acct'[a].totp = w.key /\ acct'[a].lastStep = w.step
        BY <2>5, <2>10
      <4> QED BY <1>0, <3>1, <3>3, <4>1, <4>2 DEF Past
    <3>4. /\ spent'.once = spent.once \cup {code} /\ spent'.again = {}
          /\ spent' = [once |-> spent'.once, again |-> spent'.again]
      BY <2>1, <2>10, <3>2 DEF Spent, CodeInv
    <3> QED BY <2>6, <2>8, <3>3, <3>4 DEF CodeInv
  <2> QED BY <2>9, <2>10
<1> QED BY <1>1, <1>2


\* A new authenticator is another one, and its first step is its own.
LEMMA AccountsKeep ==
    ASSUME CodeInv, NEW a \in Account,
           SetDisabled(a) \/ SetOAuthOnly(a) \/ \E c \in Step : EnrollTOTP(a, c)
    PROVE  CodeInv'
<1>1. UNCHANGED <<who, spent, now>>
  BY DEF SetDisabled, SetOAuthOnly, EnrollTOTP, Change, hist, guard
<1>2. acct[a] \in AccountRec /\ acct[a].totp \in Nat /\ acct[a].totp + 1 \in Nat
  BY DEF CodeInv, TypeInv, AccountRec
<1>3. PICK r \in AccountRec :
        /\ acct' = [acct EXCEPT ![a] = r]
        /\ r.totp >= acct[a].totp
        /\ r.totp = acct[a].totp => r.lastStep = acct[a].lastStep
  <2>1. CASE SetDisabled(a)
    <3> DEFINE r == [acct[a] EXCEPT !.disabled = TRUE]
    <3>1. acct' = [acct EXCEPT ![a] = r]
      BY <2>1 DEF SetDisabled, Change
    <3>2. r \in AccountRec /\ r.totp = acct[a].totp /\ r.lastStep = acct[a].lastStep
      BY <1>2 DEF AccountRec
    <3> HIDE DEF r
    <3>3. r.totp >= acct[a].totp
      BY <1>2, <3>2
    <3> QED BY <3>1, <3>2, <3>3
  <2>2. CASE SetOAuthOnly(a)
    <3> DEFINE r == [acct[a] EXCEPT !.oauthOnly = TRUE]
    <3>1. acct' = [acct EXCEPT ![a] = r]
      BY <2>2 DEF SetOAuthOnly, Change
    <3>2. r \in AccountRec /\ r.totp = acct[a].totp /\ r.lastStep = acct[a].lastStep
      BY <1>2 DEF AccountRec
    <3> HIDE DEF r
    <3>3. r.totp >= acct[a].totp
      BY <1>2, <3>2
    <3> QED BY <3>1, <3>2, <3>3
  <2>3. ASSUME NEW c \in Step, EnrollTOTP(a, c)
        PROVE  \E r \in AccountRec :
                  /\ acct' = [acct EXCEPT ![a] = r]
                  /\ r.totp >= acct[a].totp
                  /\ r.totp = acct[a].totp => r.lastStep = acct[a].lastStep
    <3> DEFINE r == [acct[a] EXCEPT !.totp = acct[a].totp + 1, !.lastStep = c]
    <3>1. acct' = [acct EXCEPT ![a] = r]
      BY <2>3 DEF EnrollTOTP, Change
    <3>2. r \in AccountRec /\ r.totp = acct[a].totp + 1
      BY <1>2 DEF AccountRec
    <3> HIDE DEF r
    <3>3. r.totp >= acct[a].totp /\ r.totp # acct[a].totp
      BY <1>2, <3>2
    <3> QED BY <3>1, <3>2, <3>3
  <2> QED BY <2>1, <2>2, <2>3
<1>4. TypeInv'
  BY <1>1, <1>3 DEF CodeInv, TypeInv
<1>5. \A b \in Account : /\ acct'[b].totp >= acct[b].totp
                         /\ acct'[b].totp = acct[b].totp => acct'[b].lastStep >= acct[b].lastStep
  BY <1>3 DEF CodeInv, TypeInv, AccountRec, Step
<1> QED BY <1>1, <1>4, <1>5, CodesKept

LEMMA CodeStep == CodeInv /\ [LoginNext]_vars => CodeInv'
<1> SUFFICES ASSUME CodeInv, [LoginNext]_vars PROVE CodeInv'
  OBVIOUS
<1>0. TypeInv /\ \A a \in Account : acct[a].totp \in Nat /\ acct[a].lastStep \in Nat
  BY DEF CodeInv, TypeInv, AccountRec, Step
<1>1. ASSUME UNCHANGED <<acct, spent>>, now' \in Time, who' \in [Actor -> WhoRec] PROVE CodeInv'
  <2>1. TypeInv'
    BY <1>0, <1>1 DEF TypeInv
  <2> QED BY <1>0, <1>1, <2>1, CodesKept
<1>2. CASE UNCHANGED vars
  BY <1>0, <1>1, <1>2 DEF vars, TypeInv
<1>3. ASSUME NEW x \in Actor,
             \/ Refused(x) \/ ReadGrant(x) \/ TakeGrant(x)
             \/ GrantPasses(x) \/ BadCode(x) \/ Leave(x)
             \/ \E a \in Account : Burn(x, a)
             \/ \E right \in BOOLEAN : OldPassword(x, right)
      PROVE  CodeInv'
  BY <1>0, <1>1, <1>3, OtherTyped, OthersLeaveCodes DEF TypeInv
<1>4. ASSUME NEW x \in Actor, AskMgmt(x) \/ AskPasswd(x) \/ AskIdle(x) PROVE CodeInv'
  BY <1>0, <1>1, <1>4, AskTyped, OthersLeaveCodes DEF TypeInv
<1>5. ASSUME NEW x \in Actor, NEW right \in BOOLEAN, Compare(x, right) PROVE CodeInv'
  BY <1>0, <1>1, <1>5, CompareTyped, OthersLeaveCodes DEF TypeInv
<1>6. ASSUME NEW x \in Actor, NEW a \in Account, NEW s \in BOOLEAN, OfferKey(x, a, s) PROVE CodeInv'
  BY <1>0, <1>1, <1>6, KeyTyped, OthersLeaveCodes DEF TypeInv
<1>7. ASSUME NEW x \in Actor, NEW a \in Account, NEW k \in Kind, NEW g \in Grant \cup {None},
             Begin(x, a, k, g)
      PROVE  CodeInv'
  BY <1>0, <1>1, <1>7, AttemptTyped, OthersLeaveCodes DEF TypeInv
<1>8. ASSUME NEW x \in Actor, NEW c \in Step, ReadStep(x, c) PROVE CodeInv'
  BY <1>0, <1>1, <1>8, ReadTyped, OthersLeaveCodes DEF TypeInv
<1>9. ASSUME \/ Tick
             \/ \E g \in Grant : IssueGrant(g)
             \/ \E a \in Account : RevokeSSHGrants(a)
             \/ \E i \in IP : Status(i)
      PROVE  CodeInv'
  <2> DEFINE Still == UNCHANGED <<acct, spent, who>> /\ now' \in Time
  <2>1. Tick => Still
    BY <1>0, GuardAssumption DEF Tick, hist, TypeInv, Time
  <2>2. ASSUME NEW g \in Grant, IssueGrant(g) PROVE Still
    BY <1>0, <2>2 DEF IssueGrant, hist, guard, TypeInv
  <2>3. ASSUME NEW a \in Account, RevokeSSHGrants(a) PROVE Still
    BY <1>0, <2>3 DEF RevokeSSHGrants, hist, guard, TypeInv
  <2>4. ASSUME NEW i \in IP, Status(i) PROVE Still
    BY <1>0, <2>4 DEF Status, StatusDenied, hist, TypeInv
  <2>5. Still
    BY <1>9, <2>1, <2>2, <2>3, <2>4
  <2> QED BY <1>0, <1>1, <2>5 DEF TypeInv
<1>10. ASSUME NEW x \in Actor, ConsumeStep(x) PROVE CodeInv'
  BY <1>10, ConsumeKeeps
<1>11. ASSUME NEW a \in Account,
              SetDisabled(a) \/ SetOAuthOnly(a) \/ \E c \in Step : EnrollTOTP(a, c)
       PROVE  CodeInv'
  BY <1>11, AccountsKeep
<1>12. CASE LoginNext
  <2>1. CASE \E x \in Actor : AskIdle(x) \/ AskMgmt(x) \/ AskPasswd(x)
    BY <2>1, <1>4
  <2>2. CASE \E x \in Actor, a \in Account, s \in BOOLEAN : OfferKey(x, a, s)
    BY <2>2, <1>6
  <2>3. CASE \E x \in Actor, a \in Account, k \in Kind, g \in Grant \cup {None} : Begin(x, a, k, g)
    BY <2>3, <1>7
  <2>4. CASE \E x \in Actor, a \in Account : Burn(x, a)
    BY <2>4, <1>3
  <2>5. CASE \E x \in Actor : Refused(x) \/ ReadGrant(x) \/ TakeGrant(x) \/ GrantPasses(x)
                              \/ BadCode(x) \/ Leave(x) \/ ConsumeStep(x)
    BY <2>5, <1>3, <1>10
  <2>6. CASE \E x \in Actor, right \in BOOLEAN : Compare(x, right) \/ OldPassword(x, right)
    BY <2>6, <1>3, <1>5
  <2>7. CASE \E x \in Actor, c \in Step : ReadStep(x, c)
    BY <2>7, <1>8
  <2>8. CASE \/ Tick
             \/ \E g \in Grant : IssueGrant(g)
             \/ \E i \in IP : Status(i)
    BY <2>8, <1>9
  <2>9. CASE \E a \in Account : SetDisabled(a) \/ SetOAuthOnly(a) \/ RevokeSSHGrants(a)
    BY <2>9, <1>9, <1>11
  <2>10. CASE \E a \in Account, c \in Step : EnrollTOTP(a, c)
    BY <2>10, <1>11
  <2> QED BY <1>12, <2>1, <2>2, <2>3, <2>4, <2>5, <2>6, <2>7, <2>8, <2>9, <2>10 DEF LoginNext
<1> QED BY <1>2, <1>12

\* One code is accepted once, whichever of two logins, management commands or
\* idle terminals present it at the same moment, and whatever they have read
\* before (accounts/totp.go: VerifyTOTP).
THEOREM CodesAreUsedOnce == LoginSpec => []TotpOnce
<1>1. CodeInv => TotpOnce
  BY DEF CodeInv, TotpOnce
<1> QED BY <1>1, CodeInitially, CodeStep, PTL DEF LoginSpec

-----------------------------------------------------------------------------
(* The tables of failures.                                                 *)

TableOK(m, K) == /\ DOMAIN m \subseteq K /\ IsFiniteSet(DOMAIN m)
                 /\ \A k \in DOMAIN m : m[k] \in authEntry

\* 2^d in Doubled is the shift of failLocked: one of seven values.
LEMMA ShiftIsNat == ASSUME NEW d \in 0 .. 6 PROVE 2^d \in Nat
<1>1. CASE d = 0
  BY <1>1
<1>2. CASE d = 1
  BY <1>2
<1>3. CASE d = 2
  BY <1>3
<1>4. CASE d = 3
  BY <1>4
<1>5. CASE d = 4
  BY <1>5
<1>6. CASE d = 5
  BY <1>6
<1>7. CASE d = 6
  BY <1>7
<1> QED BY <1>1, <1>2, <1>3, <1>4, <1>5, <1>6, <1>7

LEMMA DoubledIsNat ==
    ASSUME NEW n \in Nat, NEW thr \in Nat, n >= thr PROVE Doubled(n, thr) \in Nat
<1> DEFINE d == IF n - thr > 6 THEN 6 ELSE n - thr
           b == Base * 2^d
<1>1. d \in 0 .. 6
  OBVIOUS
<1>2. 2^d \in Nat
  BY <1>1, ShiftIsNat
<1> DEFINE p == 2^d
<1>3. p \in Nat /\ Base \in Nat /\ MaxLock \in Nat
  BY <1>2, GuardAssumption
<1>4. b = Base * p
  OBVIOUS
<1> HIDE DEF p, d
<1>5. b \in Nat
  BY <1>3, <1>4
<1>6. Doubled(n, thr) = IF b > MaxLock THEN MaxLock ELSE b
  BY DEF Doubled, d
<1> HIDE DEF b
<1> QED BY <1>3, <1>5, <1>6

\* A failure counts one more, or one anew after a rest; a lock is set at the
\* threshold or kept, and never made shorter within the window.
OneMore(m, k, thr, n) ==
    /\ DOMAIN n = DOMAIN m \cup {k}
    /\ \A j \in DOMAIN m : j # k => n[j] = m[j]
    /\ n[k].lastFail = now
    /\ n[k].fails = 1 \/ (k \in DOMAIN m /\ n[k].fails = m[k].fails + 1)
    /\ \/ n[k].lockedTill = -1 \/ n[k].fails >= thr
       \/ k \in DOMAIN m /\ n[k].lockedTill = m[k].lockedTill
    /\ k \in DOMAIN m /\ now - m[k].lastFail <= Window
         => n[k].fails >= m[k].fails /\ n[k].lockedTill >= m[k].lockedTill

LEMMA FailureCounts ==
    ASSUME NEW m, NEW K, NEW k \in K, NEW thr \in Nat, thr # 0, now \in Time, TableOK(m, K),
           NEW n, n = failLocked(m, k, thr)
    PROVE  TableOK(n, K) /\ OneMore(m, k, thr, n)
<1> DEFINE kept == k \in DOMAIN m /\ now - m[k].lastFail <= Window
           old == IF kept THEN m[k] ELSE [fails |-> 0, lastFail |-> 0, lockedTill |-> -1]
           c == old.fails + 1
           till == IF c >= thr /\ now > old.lockedTill THEN now + Doubled(c, thr) ELSE old.lockedTill
           e == [fails |-> c, lastFail |-> now, lockedTill |-> till]
<1>1. old.fails \in Nat /\ old.lockedTill \in Int
  BY DEF TableOK, authEntry
<1>2. /\ kept => old.fails = m[k].fails /\ old.lockedTill = m[k].lockedTill
      /\ ~ kept => old.fails = 0 /\ old.lockedTill = -1
  OBVIOUS
<1>3. n = [j \in DOMAIN m \cup {k} |-> IF j = k THEN e ELSE m[j]]
  BY DEF failLocked
<1>4. c \in Nat \ {0} /\ c = old.fails + 1
  BY <1>1
<1>5. c >= thr => Doubled(c, thr) \in Nat
  BY <1>4, DoubledIsNat
<1>6. now \in Int /\ now \in Time
  BY DEF Time
<1> HIDE DEF old, kept
<1> DEFINE dd == Doubled(c, thr)
<1>7. till = IF c >= thr /\ now > old.lockedTill THEN now + dd ELSE old.lockedTill
  OBVIOUS
<1>8. c >= thr => dd \in Nat
  BY <1>5
<1> HIDE DEF c, dd, till
<1>9. /\ till \in Int /\ till >= old.lockedTill
      /\ till = old.lockedTill \/ c >= thr
  BY <1>1, <1>4, <1>6, <1>7, <1>8
<1>10. /\ e \in authEntry /\ e.fails = c /\ e.lastFail = now /\ e.lockedTill = till
  BY <1>4, <1>6, <1>9 DEF authEntry
<1> HIDE DEF e
<1>11. /\ DOMAIN n = DOMAIN m \cup {k} /\ n[k] = e
       /\ \A j \in DOMAIN m : j # k => n[j] = m[j]
  BY <1>3
<1>12. IsFiniteSet(DOMAIN n)
  BY <1>11, FS_AddElement DEF TableOK
<1>13. TableOK(n, K)
  BY <1>10, <1>11, <1>12 DEF TableOK
<1>14. \/ c = 1 /\ ~ kept
       \/ kept /\ k \in DOMAIN m /\ c = m[k].fails + 1
  BY <1>2, <1>4 DEF kept
<1>15. till = -1 \/ c >= thr \/ (k \in DOMAIN m /\ till = m[k].lockedTill)
  BY <1>2, <1>9 DEF kept
<1>16. kept => c >= m[k].fails /\ till >= m[k].lockedTill
  BY <1>1, <1>2, <1>4, <1>9
<1>17. k \in DOMAIN m /\ now - m[k].lastFail <= Window => kept
  BY DEF kept
<1>18. n[k].fails = 1 \/ (k \in DOMAIN m /\ n[k].fails = m[k].fails + 1)
  BY <1>10, <1>11, <1>14
<1>19. \/ n[k].lockedTill = -1 \/ n[k].fails >= thr
       \/ k \in DOMAIN m /\ n[k].lockedTill = m[k].lockedTill
  BY <1>10, <1>11, <1>15
<1>20. k \in DOMAIN m /\ now - m[k].lastFail <= Window
         => n[k].fails >= m[k].fails /\ n[k].lockedTill >= m[k].lockedTill
  BY <1>10, <1>11, <1>16, <1>17
<1>21. n[k].lastFail = now
  BY <1>10, <1>11
<1> QED BY <1>11, <1>13, <1>18, <1>19, <1>20, <1>21 DEF OneMore

\* Making room and sweeping take entries out and change none.
LEMMA BudgetTakesOut ==
    ASSUME NEW m, NEW K, TableOK(m, K), NEW b \in Budgeted(m)
    PROVE  /\ TableOK(b, K) /\ DOMAIN b \subseteq DOMAIN m
           /\ \A j \in DOMAIN b : b[j] = m[j]
           /\ Cardinality(DOMAIN m) < MaxEntries => b = m
<1>1. CASE Cardinality(DOMAIN m) < MaxEntries
  BY <1>1 DEF Budgeted
<1>2. CASE ~ (Cardinality(DOMAIN m) < MaxEntries)
  <2>1. PICK S \in SUBSET DOMAIN m : DOMAIN b = S /\ \A j \in S : b[j] = m[j]
    <3> DEFINE s == sweepMap(m)
    <3>1. DOMAIN s \subseteq DOMAIN m /\ \A j \in DOMAIN s : s[j] = m[j]
      BY DEF sweepMap, Restrict
    <3>2. b = s \/ \E k \in DOMAIN s : b = Restrict(s, DOMAIN s \ {k})
      BY <1>2 DEF Budgeted
    <3> HIDE DEF s
    <3> QED BY <3>1, <3>2 DEF Restrict
  <2>2. IsFiniteSet(S)
    BY FS_Subset DEF TableOK
  <2> QED BY <1>2, <2>1, <2>2 DEF TableOK
<1> QED BY <1>1, <1>2

LEMMA SweepTakesOut ==
    ASSUME NEW m, NEW K, TableOK(m, K)
    PROVE  LET s == sweepMap(m)
           IN  /\ TableOK(s, K) /\ DOMAIN s \subseteq DOMAIN m
               /\ \A j \in DOMAIN s : s[j] = m[j]
               /\ \A j \in DOMAIN m : ~ Stale(m[j]) => j \in DOMAIN s
<1> DEFINE s == sweepMap(m)
<1>1. /\ DOMAIN s \subseteq DOMAIN m
      /\ \A j \in DOMAIN s : s[j] = m[j]
      /\ \A j \in DOMAIN m : ~ Stale(m[j]) => j \in DOMAIN s
  BY DEF sweepMap, Restrict
<1> HIDE DEF s
<1>2. IsFiniteSet(DOMAIN s)
  BY <1>1, FS_Subset DEF TableOK
<1> QED BY <1>1, <1>2 DEF TableOK, s

\* What fail, failIP and failIPAnon do to one table: a failure is entered or not,
\* room is made, and the sweep comes or not.  Recent counts stay.
LEMMA SettledTable ==
    ASSUME NEW m, NEW K, TableOK(m, K), now \in Time,
           NEW f, f = m \/ \E k \in K, thr \in Nat \ {0} : f = failLocked(m, k, thr),
           NEW b \in Budgeted(f), NEW n, n = b \/ n = sweepMap(b)
    PROVE  /\ TableOK(n, K)
           /\ \A j \in DOMAIN n : j \in DOMAIN f /\ n[j] = f[j]
           /\ \A j : Recent(m, j) => Stands(m, n, j)
<1>1. /\ TableOK(f, K)
      /\ \A j : Recent(m, j) => /\ Stands(m, f, j) /\ now - f[j].lastFail <= Window
                                /\ Cardinality(DOMAIN f) < MaxEntries
  <2>0. Cardinality(DOMAIN m) \in Nat /\ now \in Int /\ Window \in Nat /\ MaxEntries \in Nat
    BY FS_CardinalityType, GuardAssumption DEF TableOK, Time
  <2>1. CASE f = m
    <3>1. ASSUME NEW j, Recent(m, j) PROVE Stands(m, f, j)
      <4>1. m[j] \in authEntry
        BY <3>1 DEF Recent, TableOK
      <4>2. m[j].fails \in Int /\ m[j].lockedTill \in Int
        BY <4>1 DEF authEntry
      <4> QED BY <2>1, <3>1, <4>2 DEF Recent, Stands
    <3> QED BY <2>0, <2>1, <3>1 DEF Recent
  <2>2. ASSUME NEW k \in K, NEW thr \in Nat \ {0}, f = failLocked(m, k, thr)
        PROVE  /\ TableOK(f, K)
               /\ \A j : Recent(m, j) => /\ Stands(m, f, j) /\ now - f[j].lastFail <= Window
                                         /\ Cardinality(DOMAIN f) < MaxEntries
    <3>1. /\ TableOK(f, K) /\ DOMAIN f = DOMAIN m \cup {k}
          /\ \A j \in DOMAIN m : j # k => f[j] = m[j]
          /\ f[k].lastFail = now
          /\ k \in DOMAIN m /\ now - m[k].lastFail <= Window
               => f[k].fails >= m[k].fails /\ f[k].lockedTill >= m[k].lockedTill
      <4>1. thr \in Nat /\ thr # 0
        OBVIOUS
      <4>2. TableOK(f, K) /\ OneMore(m, k, thr, f)
        BY <2>2, <4>1, FailureCounts
      <4> QED BY <4>2 DEF OneMore
    <3>2. Cardinality(DOMAIN f) <= Cardinality(DOMAIN m) + 1
      <4>1. Cardinality(DOMAIN m \cup {k}) =
              IF k \in DOMAIN m THEN Cardinality(DOMAIN m) ELSE Cardinality(DOMAIN m) + 1
        BY FS_AddElement DEF TableOK
      <4> QED BY <2>0, <3>1, <4>1
    <3>3. ASSUME NEW j, Recent(m, j)
          PROVE  /\ Stands(m, f, j) /\ now - f[j].lastFail <= Window
                 /\ Cardinality(DOMAIN f) < MaxEntries
      <4>1. j \in DOMAIN m /\ now - m[j].lastFail <= Window
            /\ Cardinality(DOMAIN m) < MaxEntries - 1
        BY <3>3 DEF Recent
      <4>2. Cardinality(DOMAIN f) < MaxEntries
        <5>1. Cardinality(DOMAIN f) \in Nat
          BY <3>1, FS_CardinalityType DEF TableOK
        <5> QED BY <2>0, <3>2, <4>1, <5>1
      <4>3. CASE j = k
        BY <2>0, <3>1, <4>1, <4>2, <4>3 DEF Stands
      <4>4. CASE j # k
        <5>1. f[j] = m[j] /\ j \in DOMAIN f
          BY <3>1, <4>1, <4>4
        <5>2. m[j].fails \in Int /\ m[j].lockedTill \in Int
          BY <4>1 DEF TableOK, authEntry
        <5> QED BY <4>1, <4>2, <5>1, <5>2 DEF Stands
      <4> QED BY <4>3, <4>4
    <3> QED BY <3>1, <3>3
  <2> QED BY <2>1, <2>2
<1>2. /\ TableOK(b, K) /\ DOMAIN b \subseteq DOMAIN f
      /\ \A j \in DOMAIN b : b[j] = f[j]
      /\ Cardinality(DOMAIN f) < MaxEntries => b = f
  BY <1>1, BudgetTakesOut
<1>3. /\ TableOK(n, K) /\ DOMAIN n \subseteq DOMAIN b
      /\ \A j \in DOMAIN n : n[j] = b[j]
      /\ \A j \in DOMAIN b : ~ Stale(b[j]) => j \in DOMAIN n
  <2>1. CASE n = b
    BY <1>2, <2>1
  <2>2. CASE n = sweepMap(b)
    BY <1>2, <2>2, SweepTakesOut
  <2> QED BY <2>1, <2>2
<1>4. ASSUME NEW j, Recent(m, j) PROVE Stands(m, n, j)
  <2>1. Stands(m, f, j) /\ now - f[j].lastFail <= Window /\ b = f
    BY <1>1, <1>2, <1>4
  <2>2. j \in DOMAIN b /\ b[j].lastFail \in Int
    BY <1>1, <2>1 DEF Stands, TableOK, authEntry, Time
  <2>3. ~ Stale(b[j])
    BY <2>1, <2>2, GuardAssumption DEF Stale, Time
  <2>4. j \in DOMAIN n /\ n[j] = f[j]
    BY <1>3, <2>1, <2>2, <2>3
  <2> QED BY <2>1, <2>4 DEF Stands
<1> QED BY <1>2, <1>3, <1>4

\* e[k] failures count for k: no entry of k's has more, and a lock has its threshold.
Owed(m, thr, e) == \A k \in DOMAIN m : /\ m[k].fails <= e[k]
                                       /\ m[k].lockedTill # -1 => e[k] >= thr
PairEarned == [p \in Pair |-> earned.acct[p[1]]]
EarnedOK == /\ earned = [acct |-> earned.acct, ip |-> earned.ip]
            /\ earned.acct \in [Account -> Nat] /\ earned.ip \in [IP -> Nat]
LockInv == /\ now \in Time /\ EarnedOK
           /\ TableOK(entries, Pair) /\ Owed(entries, Threshold, PairEarned)
           /\ TableOK(userEntries, Account) /\ Owed(userEntries, UserThreshold, earned.acct)
           /\ TableOK(ipEntries, IP) /\ Owed(ipEntries, IpThreshold, earned.ip)

LEMMA OwedAfter ==
    ASSUME NEW m, NEW K, TableOK(m, K), now \in Time, NEW thr \in Nat, thr # 0,
           NEW k \in K, NEW e \in [K -> Nat], NEW f \in [K -> Nat],
           \A j \in K : f[j] >= e[j], Owed(m, thr, e),
           NEW c, c = m \/ (c = failLocked(m, k, thr) /\ f[k] >= e[k] + 1),
           NEW n, \A j \in DOMAIN n : j \in DOMAIN c /\ n[j] = c[j]
    PROVE  Owed(n, thr, f)
<1>0. \A j \in DOMAIN m : j \in K /\ m[j].fails \in Nat /\ e[j] \in Nat /\ f[j] \in Nat
  BY DEF TableOK, authEntry
<1>1. \A j \in DOMAIN m : m[j].fails <= f[j] /\ (m[j].lockedTill # -1 => f[j] >= thr)
  <2> SUFFICES ASSUME NEW j \in DOMAIN m PROVE m[j].fails <= f[j] /\ (m[j].lockedTill # -1 => f[j] >= thr)
    OBVIOUS
  <2>1. m[j].fails <= e[j] /\ (m[j].lockedTill # -1 => e[j] >= thr) /\ f[j] >= e[j]
    BY <1>0 DEF Owed
  <2> QED BY <1>0, <2>1
<1>2. CASE c = m
  BY <1>1, <1>2 DEF Owed
<1>3. CASE c = failLocked(m, k, thr) /\ f[k] >= e[k] + 1
  <2>1. OneMore(m, k, thr, c) /\ TableOK(c, K)
    BY <1>3, FailureCounts
  <2>2. /\ f[k] \in Nat /\ e[k] \in Nat /\ f[k] >= e[k] + 1
    BY <1>3
  <2>3. c[k].fails <= f[k] /\ (c[k].lockedTill # -1 => f[k] >= thr)
    <3>1. CASE k \in DOMAIN m
      <4>1. m[k].fails <= e[k] /\ m[k].fails \in Nat /\ (m[k].lockedTill # -1 => e[k] >= thr)
        BY <1>0, <3>1 DEF Owed
      <4>2. c[k].fails \in Nat /\ c[k].fails <= f[k]
        BY <2>1, <2>2, <4>1 DEF OneMore
      <4> QED BY <2>1, <2>2, <4>1, <4>2 DEF OneMore
    <3>2. CASE k \notin DOMAIN m
      <4>1. c[k].fails = 1
        BY <2>1, <3>2 DEF OneMore
      <4> QED BY <2>1, <2>2, <3>2, <4>1 DEF OneMore
    <3> QED BY <3>1, <3>2
  <2>4. \A j \in DOMAIN c : c[j].fails <= f[j] /\ (c[j].lockedTill # -1 => f[j] >= thr)
    BY <1>1, <2>1, <2>3 DEF OneMore
  <2> QED BY <2>4 DEF Owed
<1> QED BY <1>2, <1>3

\* Recent counts and locks stay, of accounts, pairs and addresses.
NothingForgiven ==
    /\ \A i \in IP : Recent(ipEntries, i) => Stands(ipEntries, ipEntries', i)
    /\ \A a \in Account : Recent(userEntries, a) => Stands(userEntries, userEntries', a)
    /\ \A p \in Pair : Recent(entries, p) => Stands(entries, entries', p)

LEMMA SettleKeeps ==
    ASSUME LockInv, now' = now, NEW a \in Account, NEW i \in IP, NEW p, NEW u, NEW h, NEW s,
           Settle(p, u, h, s),
           p = entries \/ p = failLocked(entries, <<a, i>>, Threshold),
           u = userEntries \/ u = failLocked(userEntries, a, UserThreshold),
           h = ipEntries \/ h = failLocked(ipEntries, i, IpThreshold),
           EarnedOK',
           \A b \in Account : earned'.acct[b] >= earned.acct[b],
           \A b \in IP : earned'.ip[b] >= earned.ip[b],
           (p = entries /\ u = userEntries) \/ earned'.acct[a] >= earned.acct[a] + 1,
           h = ipEntries \/ earned'.ip[i] >= earned.ip[i] + 1
    PROVE  LockInv' /\ NothingForgiven
<1>0. /\ <<a, i>> \in Pair
      /\ \A thr \in {Threshold, UserThreshold, IpThreshold} : thr \in Nat /\ thr # 0 /\ thr \in Nat \ {0}
  BY GuardAssumption DEF Pair
<1>1. PICK pp \in Budgeted(p), uu \in Budgeted(u), ii \in Budgeted(h) :
        /\ entries' = pp \/ entries' = sweepMap(pp)
        /\ userEntries' = uu \/ userEntries' = sweepMap(uu)
        /\ ipEntries' = ii \/ ipEntries' = sweepMap(ii)
  BY DEF Settle
<1>2. /\ TableOK(entries', Pair)
      /\ \A j \in DOMAIN entries' : j \in DOMAIN p /\ entries'[j] = p[j]
      /\ \A j : Recent(entries, j) => Stands(entries, entries', j)
  <2>1. p = entries \/ \E k \in Pair, thr \in Nat \ {0} : p = failLocked(entries, k, thr)
    BY <1>0
  <2> QED BY <1>1, <2>1, SettledTable DEF LockInv
<1>3. /\ TableOK(userEntries', Account)
      /\ \A j \in DOMAIN userEntries' : j \in DOMAIN u /\ userEntries'[j] = u[j]
      /\ \A j : Recent(userEntries, j) => Stands(userEntries, userEntries', j)
  <2>1. u = userEntries \/ \E k \in Account, thr \in Nat \ {0} : u = failLocked(userEntries, k, thr)
    BY <1>0
  <2> QED BY <1>1, <2>1, SettledTable DEF LockInv
<1>4. /\ TableOK(ipEntries', IP)
      /\ \A j \in DOMAIN ipEntries' : j \in DOMAIN h /\ ipEntries'[j] = h[j]
      /\ \A j : Recent(ipEntries, j) => Stands(ipEntries, ipEntries', j)
  <2>1. h = ipEntries \/ \E k \in IP, thr \in Nat \ {0} : h = failLocked(ipEntries, k, thr)
    BY <1>0
  <2> QED BY <1>1, <2>1, SettledTable DEF LockInv
<1>5. /\ earned.acct \in [Account -> Nat] /\ earned'.acct \in [Account -> Nat]
      /\ earned.ip \in [IP -> Nat] /\ earned'.ip \in [IP -> Nat]
  BY DEF LockInv, EarnedOK
<1>6. Owed(userEntries', UserThreshold, earned'.acct)
  <2>1. /\ UserThreshold \in Nat /\ UserThreshold # 0 /\ TableOK(userEntries, Account)
        /\ Owed(userEntries, UserThreshold, earned.acct) /\ now \in Time
        /\ \/ u = userEntries
           \/ u = failLocked(userEntries, a, UserThreshold) /\ earned'.acct[a] >= earned.acct[a] + 1
    BY <1>0 DEF LockInv
  <2> DEFINE e == earned.acct
             f == earned'.acct
  <2>2. /\ e \in [Account -> Nat] /\ f \in [Account -> Nat] /\ \A b \in Account : f[b] >= e[b]
        /\ u = userEntries \/ (u = failLocked(userEntries, a, UserThreshold) /\ f[a] >= e[a] + 1)
        /\ Owed(userEntries, UserThreshold, e)
    BY <1>5, <2>1
  <2> HIDE DEF e, f
  <2>3. Owed(userEntries', UserThreshold, f)
    BY <1>3, <2>1, <2>2, OwedAfter, SMTT(40)
  <2> QED BY <2>3 DEF f
<1>7. Owed(ipEntries', IpThreshold, earned'.ip)
  <2>1. /\ IpThreshold \in Nat /\ IpThreshold # 0 /\ TableOK(ipEntries, IP)
        /\ Owed(ipEntries, IpThreshold, earned.ip) /\ now \in Time
    BY <1>0 DEF LockInv
  <2> DEFINE e == earned.ip
             f == earned'.ip
  <2>2. /\ e \in [IP -> Nat] /\ f \in [IP -> Nat] /\ \A b \in IP : f[b] >= e[b]
        /\ h = ipEntries \/ (h = failLocked(ipEntries, i, IpThreshold) /\ f[i] >= e[i] + 1)
        /\ Owed(ipEntries, IpThreshold, e)
    BY <1>5, <2>1
  <2> HIDE DEF e, f
  <2>3. \A j \in DOMAIN ipEntries' : j \in DOMAIN h /\ ipEntries'[j] = h[j]
    BY <1>4
  <2>4. Owed(ipEntries', IpThreshold, f)
    BY <2>1, <2>2, <2>3, OwedAfter
  <2> QED BY <2>4 DEF f
<1>8. Owed(entries', Threshold, PairEarned')
  <2>1. /\ PairEarned \in [Pair -> Nat] /\ PairEarned' \in [Pair -> Nat]
        /\ \A q \in Pair : PairEarned'[q] >= PairEarned[q]
        /\ PairEarned[<<a, i>>] = earned.acct[a] /\ PairEarned'[<<a, i>>] = earned'.acct[a]
    BY <1>0, <1>5 DEF PairEarned, Pair
  <2> QED BY <1>0, <1>2, <2>1, OwedAfter, SMTT(40) DEF LockInv
<1> QED BY <1>2, <1>3, <1>4, <1>6, <1>7, <1>8 DEF LockInv, NothingForgiven

-----------------------------------------------------------------------------
(* What an attempt has shown at each of its places.                        *)

Held(w) ==
    /\ w.pc = "idle" => w.kind = "password"
    /\ w.pc \in {"compare", "row", "taken"} => w.kind \in {"password", "kbd", "http"}
    /\ w.pc = "compare" /\ w.kind = "password" /\ w.grant = None => w.key = 0
    /\ w.pc \in {"code", "stepRead"} /\ w.kind # "idle" => "password" \in w.proved
    /\ w.pc \in {"in", "code", "stepRead"} /\ w.mark = None => "password" \in w.proved
    /\ w.pc = "in" /\ w.kind = "mgmt" => "code" \in w.proved
    /\ w.pc = "code" /\ w.kind = "passwd" => "code" \in w.proved \/ w.key = 0
    /\ w.pc = "stepRead" => w.kind # "passwd"
\* The authenticator it met is the account's, or one that was replaced since.
Fits(w) == Held(w) /\ (w.mark = None => w.key <= acct[w.acct].totp)
ShownInv == \A x \in Actor : Fits(who[x])

\* Something is compared against the account, and the limiter counts it.
Working(w) == w.kind # "idle" /\ w.pc \in {"compare", "row", "code", "stepRead"}
\* One who moves to v was at it before, or the limiter has let him in.
Admitted(x, v) == Working(v) => \/ Working(who[x]) /\ v.acct = who[x].acct
                                \/ allowed(v.acct, Home[x])
Moves(x) == \E v \in WhoRec : who' = [who EXCEPT ![x] = v] /\ Fits(v) /\ Admitted(x, v)

LEMMA TotpIsNat == ASSUME TypeInv, NEW w \in WhoRec
                   PROVE  w.acct \in Account /\ acct[w.acct].totp \in Nat /\ w.key \in Nat
  BY DEF TypeInv, WhoRec, AccountRec

LEMMA OverMoves ==
    ASSUME TypeInv, NEW x \in Actor,
           who' = [who EXCEPT ![x] = Again(x)] \/ who' = [who EXCEPT ![x] = Nobody(x)]
    PROVE  Moves(x)
<1>1. /\ Again(x) \in WhoRec /\ Nobody(x) \in WhoRec
      /\ \A v \in {Again(x), Nobody(x)} : v.pc = "idle" /\ v.kind = "password" /\ v.key = 0
  BY AgainTyped, NobodyTyped DEF Again, Nobody
<1>2. PICK v \in {Again(x), Nobody(x)} : who' = [who EXCEPT ![x] = v]
  OBVIOUS
<1>3. v \in WhoRec /\ v.pc = "idle" /\ v.kind = "password" /\ v.key = 0
  BY <1>1
<1>4. v.key <= acct[v.acct].totp
  BY <1>3, TotpIsNat
<1>5. Held(v) /\ Admitted(x, v)
  BY <1>3 DEF Held, Admitted, Working
<1> QED BY <1>2, <1>3, <1>4, <1>5 DEF Moves, Fits

LEMMA FailMoves == ASSUME TypeInv, ShownInv, NEW x \in Actor, Fail(x) PROVE Moves(x)
<1> DEFINE w == who[x]
           v == [Rest(w) EXCEPT !.pc = "burn"]
<1>1. w \in WhoRec /\ Fits(w)
  BY DEF TypeInv, ShownInv
<1>2. v \in WhoRec
  BY <1>1, RestTyped
<1>3. v.pc = "burn" /\ v.key = w.key /\ v.mark = w.mark /\ v.acct = w.acct
  BY <1>1 DEF Rest, WhoRec
<1>4. who' = [who EXCEPT ![x] = v] \/ who' = [who EXCEPT ![x] = Again(x)]
  BY DEF Fail, TypeInv
<1> HIDE DEF v, w
<1>5. Held(v) /\ Admitted(x, v)
  BY <1>3 DEF Held, Admitted, Working
<1>6. Fits(v)
  BY <1>1, <1>3, <1>5 DEF Fits
<1> QED BY <1>2, <1>4, <1>5, <1>6, OverMoves DEF Moves

LEMMA WrongMoves ==
    ASSUME TypeInv, ShownInv, NEW x \in Actor, WrongCode(x), who[x].pc \in {"code", "stepRead"}
    PROVE  Moves(x)
<1> DEFINE w == who[x]
           u == [w EXCEPT !.pc = "code", !.step = 0, !.tries = w.tries - 1]
           v == [Rest(w) EXCEPT !.pc = "in", !.kind = "password"]
<1>1. w \in WhoRec /\ Fits(w) /\ w.pc \in {"code", "stepRead"}
  BY DEF TypeInv, ShownInv
<1>2. \/ w.tries > 1 /\ who' = [who EXCEPT ![x] = u]
      \/ w.kind \in {"mgmt", "passwd", "idle"} /\ who' = [who EXCEPT ![x] = v]
      \/ who' = [who EXCEPT ![x] = Again(x)]
  BY DEF WrongCode, TypeInv
<1>3. CASE w.tries > 1 /\ who' = [who EXCEPT ![x] = u]
  <2>1. who' \in [Actor -> WhoRec]
    BY WrongTyped
  <2>2. who'[x] = u
    BY <1>3 DEF TypeInv
  <2>3. u \in WhoRec
    BY <2>1, <2>2
  <2>4. /\ u.pc = "code" /\ u.kind = w.kind /\ u.key = w.key /\ u.mark = w.mark
        /\ u.acct = w.acct /\ u.proved = w.proved
    BY <1>1 DEF WhoRec
  <2> HIDE DEF u, w
  <2>5. Held(u) /\ Working(u) = Working(w)
    BY <1>1, <2>4 DEF Fits, Held, Working
  <2>6. Fits(u) /\ Admitted(x, u)
    BY <1>1, <2>4, <2>5 DEF Fits, Admitted, w
  <2> QED BY <1>3, <2>3, <2>6 DEF Moves
<1>4. CASE w.kind \in {"mgmt", "passwd", "idle"} /\ who' = [who EXCEPT ![x] = v]
  <2>1. v \in WhoRec
    BY <1>1, RestTyped DEF Kind
  <2>2. /\ v.pc = "in" /\ v.kind = "password" /\ v.key = w.key /\ v.mark = w.mark
        /\ v.acct = w.acct /\ v.proved = w.proved
    BY <1>1 DEF WhoRec, Rest
  <2> HIDE DEF v, w
  <2>3. Held(v) /\ Admitted(x, v)
    BY <1>1, <2>2 DEF Fits, Held, Admitted, Working
  <2>4. Fits(v)
    BY <1>1, <2>2, <2>3 DEF Fits
  <2> QED BY <1>4, <2>1, <2>3, <2>4 DEF Moves
<1> QED BY <1>2, <1>3, <1>4, OverMoves

LEMMA PassMoves ==
    ASSUME TypeInv, ShownInv, NEW x \in Actor, NEW proof \in {"password", "code", "grant"},
           Pass(x, proof),
           \/ proof # "code" /\ who[x].kind # "mgmt"
           \/ proof = "code" /\ who[x].pc = "stepRead"
    PROVE  Moves(x)
<1> DEFINE w == who[x]
           r == Rest(w)
           v == [r EXCEPT !.pc = IF r.kind = "http" THEN "idle" ELSE "in",
                          !.kind = IF r.kind = "mgmt" THEN "mgmt" ELSE "password",
                          !.proved = r.proved \cup {proof},
                          !.mark = IF proof = "grant" THEN "grant" ELSE r.mark]
<1>1. w \in WhoRec /\ Fits(w) /\ r \in WhoRec
  BY RestTyped DEF TypeInv, ShownInv
<1>2. who' = [who EXCEPT ![x] = v]
  BY DEF Pass
<1>3. who' \in [Actor -> WhoRec]
  BY PassTyped
<1>4. v \in WhoRec
  <2>1. who'[x] = v
    BY <1>2 DEF TypeInv
  <2> QED BY <1>3, <2>1
<1>5. /\ r.kind = w.kind /\ r.proved = w.proved /\ r.mark = w.mark /\ r.key = w.key /\ r.acct = w.acct
  BY <1>1 DEF Rest, WhoRec
<1>6. /\ v.pc = IF w.kind = "http" THEN "idle" ELSE "in"
      /\ v.kind = IF w.kind = "mgmt" THEN "mgmt" ELSE "password"
      /\ v.proved = w.proved \cup {proof}
      /\ v.mark = IF proof = "grant" THEN "grant" ELSE w.mark
      /\ v.key = w.key /\ v.acct = w.acct
  <2> HIDE DEF w, r
  <2> QED BY <1>1, <1>5 DEF WhoRec
<1> HIDE DEF v, r
<1>7. Held(v)
  BY <1>1, <1>6 DEF Fits, Held, None
<1>8. Admitted(x, v) /\ Fits(v)
  BY <1>1, <1>6, <1>7 DEF Fits, Admitted, Working, None
<1> QED BY <1>2, <1>4, <1>8 DEF Moves

LEMMA BeginMoves ==
    ASSUME TypeInv, NEW x \in Actor, NEW a \in Account, NEW k \in Kind, NEW g \in Grant \cup {None},
           Begin(x, a, k, g)
    PROVE  Moves(x)
<1> DEFINE v == [who[x] EXCEPT !.pc = "compare", !.acct = a, !.kind = k,
                               !.grant = g, !.key = acct[a].totp, !.proved = {}]
<1>1. who' = [who EXCEPT ![x] = v]
  BY DEF Begin, TypeInv
<1>2. acct[a].totp \in Nat
  BY DEF TypeInv, AccountRec
<1>3. /\ v \in WhoRec /\ v.pc = "compare" /\ v.acct = a /\ v.kind = k /\ v.grant = g
      /\ v.key = acct[a].totp
  BY <1>2, ZenonT(40) DEF TypeInv, WhoRec
<1> HIDE DEF v
<1>4. /\ k \in {"password", "kbd", "http"} /\ allowed(a, Home[x])
      /\ k = "password" /\ g = None => acct[a].totp = 0
  BY DEF Begin
<1>5. Held(v) /\ Admitted(x, v) /\ Fits(v)
  BY <1>2, <1>3, <1>4 DEF Held, Admitted, Fits
<1> QED BY <1>1, <1>3, <1>5 DEF Moves

\* The places an attempt goes through without anybody being told.
LEMMA OnwardMoves ==
    ASSUME TypeInv, ShownInv, NEW x \in Actor,
           \/ who[x].pc = "compare" /\ who[x].grant # None /\ who' = [who EXCEPT ![x].pc = "row"]
           \/ who[x].pc = "row" /\ who' = [who EXCEPT ![x].pc = "taken"]
    PROVE  Moves(x)
<1> DEFINE w == who[x]
<1>1. w \in WhoRec /\ Fits(w)
  BY DEF TypeInv, ShownInv
<1>2. PICK pc \in {"row", "taken"} :
        /\ who' = [who EXCEPT ![x] = [w EXCEPT !.pc = pc]]
        /\ w.pc \in {"compare", "row"} /\ (pc = "taken" => w.pc = "row")
  BY DEF TypeInv
<1> DEFINE v == [w EXCEPT !.pc = pc]
<1>3. v \in WhoRec /\ v.pc = pc /\ v.kind = w.kind /\ v.key = w.key /\ v.mark = w.mark
      /\ v.acct = w.acct /\ v.proved = w.proved
  BY <1>1 DEF WhoRec
<1>4. who' = [who EXCEPT ![x] = v]
  BY <1>2
<1> HIDE DEF v
<1>5. Held(v) /\ Admitted(x, v) /\ Fits(v)
  BY <1>1, <1>2, <1>3 DEF Held, Admitted, Fits, Working
<1> QED BY <1>3, <1>4, <1>5 DEF Moves

LEMMA CodeAskedMoves ==
    ASSUME TypeInv, ShownInv, NEW x \in Actor,
           who[x].pc = "compare", who[x].kind # "password",
           who' = [who EXCEPT ![x].pc = "code", ![x].tries = 1, ![x].proved = {"password"}]
    PROVE  Moves(x)
<1> DEFINE w == who[x]
           v == [w EXCEPT !.pc = "code", !.tries = 1, !.proved = {"password"}]
<1>1. w \in WhoRec /\ Fits(w)
  BY DEF TypeInv, ShownInv
<1>2. who' = [who EXCEPT ![x] = v] /\ 1 \in 0 .. Tries
  <2>1. 1 \in 0 .. Tries
    BY LoginAssumption
  <2> QED BY <2>1 DEF TypeInv
<1>3. v \in WhoRec /\ v.pc = "code" /\ v.kind = w.kind /\ v.key = w.key /\ v.mark = w.mark
      /\ v.acct = w.acct /\ v.proved = {"password"}
  BY <1>1, <1>2 DEF WhoRec
<1> HIDE DEF v
<1>4. Held(v) /\ Admitted(x, v) /\ Fits(v)
  BY <1>1, <1>3 DEF Held, Admitted, Fits, Working
<1> QED BY <1>2, <1>3, <1>4 DEF Moves

LEMMA ReadMoves ==
    ASSUME TypeInv, ShownInv, NEW x \in Actor, NEW c \in Step, ReadStep(x, c) PROVE Moves(x)
<1> DEFINE w == who[x]
           a == w.acct
           v == [w EXCEPT !.pc = "stepRead", !.step = c, !.key = acct[a].totp]
<1>1. w \in WhoRec /\ Fits(w) /\ w.pc = "code" /\ w.kind # "passwd" /\ acct[a].totp \in Nat
  BY TotpIsNat DEF TypeInv, ShownInv, ReadStep
<1>2. who' = [who EXCEPT ![x] = v]
  BY DEF ReadStep, TypeInv
<1>3. v \in WhoRec /\ v.pc = "stepRead" /\ v.kind = w.kind /\ v.key = acct[a].totp
      /\ v.mark = w.mark /\ v.acct = w.acct /\ v.proved = w.proved
  BY <1>1 DEF WhoRec
<1> HIDE DEF v
<1>4. Held(v) /\ Admitted(x, v) /\ Fits(v)
  BY <1>1, <1>3 DEF Held, Admitted, Fits, Working
<1> QED BY <1>2, <1>3, <1>4 DEF Moves

LEMMA AskMoves ==
    ASSUME TypeInv, ShownInv, NEW x \in Actor, AskMgmt(x) \/ AskPasswd(x) \/ AskIdle(x)
    PROVE  Moves(x)
<1> DEFINE w == who[x]
<1>1. w \in WhoRec /\ Fits(w) /\ w.pc = "in" /\ w.key \in Nat /\ acct[w.acct].totp \in Nat
  BY TotpIsNat DEF TypeInv, ShownInv, AskMgmt, AskPasswd, AskIdle
<1>2. PICK k \in Kind :
        /\ who' = [who EXCEPT ![x] = [w EXCEPT !.pc = "code", !.kind = k, !.tries = Tries]]
        /\ \/ k = "idle"
           \/ k = "mgmt" /\ w.mark = None /\ allowed(w.acct, Home[x])
           \/ /\ k = "passwd" /\ w.mark = None /\ allowed(w.acct, Home[x])
              /\ acct[w.acct].totp # 0 => w.kind = "mgmt"
  BY DEF AskMgmt, AskPasswd, AskIdle, TypeInv, Kind
<1>3. Tries \in 0 .. Tries
  BY LoginAssumption
<1> DEFINE v == [w EXCEPT !.pc = "code", !.kind = k, !.tries = Tries]
<1>4. v \in WhoRec /\ v.pc = "code" /\ v.kind = k /\ v.key = w.key /\ v.mark = w.mark
      /\ v.acct = w.acct /\ v.proved = w.proved
  BY <1>1, <1>3 DEF WhoRec
<1>5. who' = [who EXCEPT ![x] = v]
  BY <1>2
<1> HIDE DEF v, w
<1>6. k = "passwd" => "code" \in w.proved \/ w.key = 0
  BY <1>1, <1>2 DEF Fits, Held
<1>7. Held(v)
  BY <1>1, <1>2, <1>4, <1>6 DEF Held, Fits
<1>8. Admitted(x, v) /\ Fits(v)
  BY <1>1, <1>2, <1>4, <1>7 DEF Admitted, Fits, Working
<1> QED BY <1>4, <1>5, <1>8 DEF Moves

LEMMA KeyMoves ==
    ASSUME TypeInv, ShownInv, NEW x \in Actor, NEW a \in Account, NEW s \in BOOLEAN,
           OfferKey(x, a, s)
    PROVE  Moves(x)
<1> DEFINE w == who[x]
           v == [w EXCEPT !.mark = "publickey", !.acct = IF s THEN a ELSE w.acct,
                          !.proved = IF s THEN {"key"} ELSE w.proved,
                          !.pc = IF s THEN "in" ELSE "idle"]
<1>1. w \in WhoRec /\ Fits(w) /\ w.pc = "idle"
  BY DEF TypeInv, ShownInv, OfferKey
<1>2. who' = [who EXCEPT ![x] = v]
  BY DEF OfferKey, TypeInv
<1>3. v \in WhoRec /\ v.pc \in {"in", "idle"} /\ v.kind = w.kind /\ v.mark = "publickey"
  BY <1>1 DEF WhoRec
<1> HIDE DEF v
<1>4. Held(v) /\ Admitted(x, v) /\ Fits(v)
  BY <1>1, <1>3 DEF Held, Admitted, Fits, Working, None
<1> QED BY <1>2, <1>3, <1>4 DEF Moves

LEMMA CompareMoves ==
    ASSUME TypeInv, ShownInv, NEW x \in Actor, NEW right \in BOOLEAN, Compare(x, right)
    PROVE  Moves(x)
<1>1. who[x].kind # "mgmt" /\ who[x].pc = "compare"
  BY DEF Compare, ShownInv, Fits, Held
<1>2. \/ Fail(x) \/ Pass(x, "password")
      \/ /\ who[x].kind # "password"
         /\ who' = [who EXCEPT ![x].pc = "code", ![x].tries = 1, ![x].proved = {"password"}]
  BY DEF Compare
<1> QED BY <1>1, <1>2, FailMoves, PassMoves, CodeAskedMoves

LEMMA ConsumeMoves == ASSUME TypeInv, ShownInv, NEW x \in Actor, ConsumeStep(x) PROVE Moves(x)
<1> DEFINE w == who[x]
           v == [Rest(w) EXCEPT !.pc = "in", !.kind = "password"]
<1>1. w \in WhoRec /\ Fits(w) /\ w.pc = "stepRead"
  BY DEF TypeInv, ShownInv, ConsumeStep
<1>2. \/ WrongCode(x) \/ Pass(x, "code")
      \/ who' = [who EXCEPT ![x] = v]
  BY DEF ConsumeStep
<1>3. CASE who' = [who EXCEPT ![x] = v]
  <2>1. v \in WhoRec
    BY <1>1, RestTyped DEF Kind
  <2>2. /\ v.pc = "in" /\ v.kind = "password" /\ v.key = w.key /\ v.mark = w.mark
        /\ v.acct = w.acct /\ v.proved = w.proved
    BY <1>1 DEF WhoRec, Rest
  <2> HIDE DEF v
  <2>3. Held(v) /\ Admitted(x, v) /\ Fits(v)
    BY <1>1, <2>2 DEF Fits, Held, Admitted, Working
  <2> QED BY <1>3, <2>1, <2>3 DEF Moves
<1> QED BY <1>1, <1>2, <1>3, WrongMoves, PassMoves

LEMMA OtherMoves ==
    ASSUME TypeInv, ShownInv, NEW x \in Actor,
           \/ Refused(x) \/ ReadGrant(x) \/ TakeGrant(x) \/ GrantPasses(x) \/ BadCode(x) \/ Leave(x)
           \/ \E a \in Account : Burn(x, a)
           \/ \E right \in BOOLEAN : OldPassword(x, right)
    PROVE  Moves(x)
<1>1. CASE Refused(x) \/ Leave(x) \/ \E a \in Account : Burn(x, a)
  BY <1>1, OverMoves DEF Refused, Leave, Burn
<1>2. CASE ReadGrant(x) \/ TakeGrant(x)
  BY <1>2, FailMoves, OnwardMoves DEF ReadGrant, TakeGrant
<1>3. CASE GrantPasses(x)
  <2>1. who[x].kind # "mgmt"
    BY <1>3 DEF GrantPasses, ShownInv, Fits, Held
  <2> QED BY <1>3, <2>1, FailMoves, PassMoves DEF GrantPasses
<1>4. CASE BadCode(x)
  BY <1>4, WrongMoves DEF BadCode
<1>5. CASE \E right \in BOOLEAN : OldPassword(x, right)
  <2>1. who[x].pc = "code" /\ who[x].kind = "passwd" /\ (WrongCode(x) \/ Pass(x, "password"))
    BY <1>5 DEF OldPassword
  <2> QED BY <2>1, WrongMoves, PassMoves
<1> QED BY <1>1, <1>2, <1>3, <1>4, <1>5

\* Nobody else's place changes, and few actions move nobody at all.
LEMMA SomebodyMoves ==
    ASSUME TypeInv, ShownInv, LoginNext PROVE who' = who \/ \E x \in Actor : Moves(x)
<1>1. CASE \E x \in Actor : AskIdle(x) \/ AskMgmt(x) \/ AskPasswd(x)
  BY <1>1, AskMoves
<1>2. CASE \E x \in Actor, a \in Account, s \in BOOLEAN : OfferKey(x, a, s)
  BY <1>2, KeyMoves
<1>3. CASE \E x \in Actor, a \in Account, k \in Kind, g \in Grant \cup {None} : Begin(x, a, k, g)
  BY <1>3, BeginMoves
<1>4. CASE \E x \in Actor, a \in Account : Burn(x, a)
  BY <1>4, OtherMoves
<1>5. CASE \E x \in Actor : Refused(x) \/ ReadGrant(x) \/ TakeGrant(x) \/ GrantPasses(x)
                            \/ BadCode(x) \/ Leave(x) \/ ConsumeStep(x)
  BY <1>5, OtherMoves, ConsumeMoves
<1>6. CASE \E x \in Actor, right \in BOOLEAN : Compare(x, right) \/ OldPassword(x, right)
  BY <1>6, OtherMoves, CompareMoves
<1>7. CASE \E x \in Actor, c \in Step : ReadStep(x, c)
  BY <1>7, ReadMoves
<1>8. ASSUME \/ Tick
             \/ \E g \in Grant : IssueGrant(g)
             \/ \E i \in IP : Status(i)
             \/ \E a \in Account : SetDisabled(a) \/ SetOAuthOnly(a) \/ RevokeSSHGrants(a)
             \/ \E a \in Account, c \in Step : EnrollTOTP(a, c)
      PROVE  who' = who
  BY <1>8 DEF Tick, IssueGrant, Status, SetDisabled, SetOAuthOnly, RevokeSSHGrants, EnrollTOTP,
              Change
<1> QED BY <1>1, <1>2, <1>3, <1>4, <1>5, <1>6, <1>7, <1>8 DEF LoginNext

\* An account's authenticators are counted up and never down.
LEMMA TotpGrows ==
    ASSUME TypeInv, LoginNext PROVE \A a \in Account : acct'[a].totp >= acct[a].totp
<1>0. \A a \in Account : acct[a] \in AccountRec /\ acct[a].totp \in Nat
  BY DEF TypeInv, AccountRec
<1>1. CASE acct' = acct
  BY <1>0, <1>1
<1>2. ASSUME NEW x \in Actor, ConsumeStep(x) PROVE \A a \in Account : acct'[a].totp >= acct[a].totp
  <2>1. acct' = acct \/ acct' = [acct EXCEPT ![who[x].acct].lastStep = who[x].step]
    BY <1>2 DEF ConsumeStep, WrongCode
  <2>2. \A a \in Account : acct'[a].totp = acct[a].totp
    BY <1>0, <2>1 DEF TypeInv, AccountRec
  <2> QED BY <1>0, <2>2
<1>3. ASSUME NEW a \in Account, SetDisabled(a) \/ SetOAuthOnly(a) \/ \E c \in Step : EnrollTOTP(a, c)
      PROVE  \A b \in Account : acct'[b].totp >= acct[b].totp
  <2>1. \E c : \/ acct' = [acct EXCEPT ![a] = [acct[a] EXCEPT !.disabled = TRUE]]
               \/ acct' = [acct EXCEPT ![a] = [acct[a] EXCEPT !.oauthOnly = TRUE]]
               \/ acct' = [acct EXCEPT ![a] = [acct[a] EXCEPT !.totp = acct[a].totp + 1, !.lastStep = c]]
    BY <1>3 DEF SetDisabled, SetOAuthOnly, EnrollTOTP, Change
  <2>2. acct'[a].totp = acct[a].totp \/ acct'[a].totp = acct[a].totp + 1
    BY <1>0, <2>1 DEF TypeInv, AccountRec
  <2>3. \A b \in Account \ {a} : acct'[b] = acct[b]
    BY <2>1 DEF TypeInv
  <2> QED BY <1>0, <2>2, <2>3
<1>4. ASSUME \/ Tick
             \/ \E g \in Grant : IssueGrant(g)
             \/ \E a \in Account : RevokeSSHGrants(a)
             \/ \E i \in IP : Status(i)
      PROVE  acct' = acct
  BY <1>4 DEF Tick, IssueGrant, RevokeSSHGrants, Status
<1>5. CASE \E x \in Actor : ConsumeStep(x)
  BY <1>2, <1>5
<1>6. CASE \E a \in Account : SetDisabled(a) \/ SetOAuthOnly(a) \/ \E c \in Step : EnrollTOTP(a, c)
  BY <1>3, <1>6
<1> QED BY <1>1, <1>4, <1>5, <1>6, OthersLeaveCodes DEF LoginNext

LEMMA ShownStep == ASSUME CodeInv, CodeInv', ShownInv, LoginNext PROVE ShownInv'
<1> DEFINE Now(w) == w.mark = None => w.key <= acct'[w.acct].totp
<1>1. ASSUME NEW w \in WhoRec, Fits(w) PROVE Held(w) /\ Now(w)
  <2>1. /\ w.acct \in Account /\ acct[w.acct].totp \in Nat /\ acct'[w.acct].totp \in Nat /\ w.key \in Nat
    BY DEF CodeInv, TypeInv, WhoRec, AccountRec
  <2>2. acct'[w.acct].totp >= acct[w.acct].totp
    BY <2>1, TotpGrows DEF CodeInv
  <2> QED BY <1>1, <2>1, <2>2 DEF Fits
<1>2. ASSUME NEW x \in Actor PROVE who'[x] \in WhoRec /\ Fits(who'[x])
  <2>1. who[x] \in WhoRec /\ Fits(who[x]) /\ who \in [Actor -> WhoRec] /\ TypeInv
    BY DEF CodeInv, TypeInv, ShownInv
  <2> QED BY <2>1, SomebodyMoves DEF Moves
<1>3. ASSUME NEW x \in Actor PROVE Fits(who[x])'
  <2>1. Held(who'[x]) /\ Now(who'[x])
    BY <1>1, <1>2
  <2> QED BY <2>1 DEF Fits, Held
<1> QED BY <1>3 DEF ShownInv

LEMMA ShownInitially == LoginInit => ShownInv
<1> SUFFICES ASSUME LoginInit, NEW x \in Actor PROVE Fits(who[x])
  BY DEF ShownInv
<1>1. who[x] = Nobody(x)
  BY DEF LoginInit
<1>2. TypeInv /\ Nobody(x) \in WhoRec /\ acct[Nobody(x).acct].totp \in Nat
  BY CodeInitially, NobodyTyped, TotpIsNat DEF CodeInv
<1>3. Nobody(x).pc = "idle" /\ Nobody(x).kind = "password" /\ Nobody(x).key = 0
  BY DEF Nobody
<1> QED BY <1>1, <1>2, <1>3 DEF Fits, Held

LEMMA ShownAlways == LoginSpec => [](CodeInv /\ ShownInv)
<1>1. CodeInv /\ ShownInv /\ [LoginNext]_vars => CodeInv' /\ ShownInv'
  <2> SUFFICES ASSUME CodeInv, ShownInv, [LoginNext]_vars PROVE CodeInv' /\ ShownInv'
    OBVIOUS
  <2>1. CodeInv'
    BY CodeStep
  <2>2. CASE LoginNext
    BY <2>1, <2>2, ShownStep
  <2>3. CASE UNCHANGED vars
    BY <2>1, <2>3 DEF vars, ShownInv, Fits, Held
  <2> QED BY <2>1, <2>2, <2>3
<1> QED BY <1>1, CodeInitially, ShownInitially, PTL DEF LoginSpec

\* While an account is locked, for everybody or for an address, or an address is,
\* nobody begins to compare anything against it from there, by whichever way in
\* (authguard.go: allowed; ssh.go, mgmt.go, passwd.go and the endpoints).
THEOREM LocksHoldOff == LoginSpec => UnderLockNobodyJoins
<1>1. ASSUME CodeInv, ShownInv, [LoginNext]_vars
      PROVE  \A a \in Account, x \in Actor :
                /\ \/ Locked(userEntries, a) \/ Locked(ipEntries, Home[x])
                   \/ Locked(entries, <<a, Home[x]>>)
                /\ x \in UnderWay(a)'
                => x \in UnderWay(a)
  <2> SUFFICES ASSUME NEW a \in Account, NEW x \in Actor,
                      \/ Locked(userEntries, a) \/ Locked(ipEntries, Home[x])
                      \/ Locked(entries, <<a, Home[x]>>),
                      x \in UnderWay(a)'
               PROVE  x \in UnderWay(a)
    OBVIOUS
  <2>1. ~ allowed(a, Home[x])
    BY DEF allowed
  <2>2. who'[x].acct = a /\ Working(who'[x])
    BY DEF UnderWay, Working
  <2>3. who'[x] = who[x] \/ Admitted(x, who'[x])
    <3>1. who' = who \/ \E y \in Actor : Moves(y)
      BY <1>1, SomebodyMoves DEF CodeInv, vars
    <3>2. CASE who' = who
      BY <3>2
    <3>3. ASSUME NEW y \in Actor, Moves(y) PROVE who'[x] = who[x] \/ Admitted(x, who'[x])
      <4>1. PICK v \in WhoRec : who' = [who EXCEPT ![y] = v] /\ Admitted(y, v)
        BY <3>3 DEF Moves
      <4>2. who \in [Actor -> WhoRec]
        BY <1>1 DEF CodeInv, TypeInv
      <4> QED BY <4>1, <4>2
    <3> QED BY <3>1, <3>2, <3>3
  <2>4. Working(who[x]) /\ who[x].acct = a
    BY <2>1, <2>2, <2>3 DEF Admitted
  <2> QED BY <2>4 DEF UnderWay, Working
<1>2. CodeInv /\ ShownInv /\ [LoginNext]_vars => [\A a \in Account, x \in Actor :
          /\ \/ Locked(userEntries, a) \/ Locked(ipEntries, Home[x])
             \/ Locked(entries, <<a, Home[x]>>)
          /\ x \in UnderWay(a)'
          => x \in UnderWay(a)]_vars
  BY <1>1
<1> QED BY <1>2, ShownAlways, PTL DEF LoginSpec, UnderLockNobodyJoins

-----------------------------------------------------------------------------
(* Every step as the limiter sees it.                                      *)

Untold == UNCHANGED <<entries, userEntries, ipEntries, earned>> /\ now' \in Time
Blamed(x) == (blame(x) \/ blameIP(x)) /\ now' = now
Denied(i) == failIPAnon(i) /\ now' = now /\ earned' = earned
Cleared(x) == /\ pass(who[x].acct, Home[x]) /\ now' = now /\ earned' = earned
              /\ FullProof(who[x].acct)

\* A pass comes where the password has been shown, and the code as well if the
\* account had a second factor both when the login began and now; or a grant.
LEMMA PassIsCleared ==
    ASSUME CodeInv, ShownInv, NEW x \in Actor, NEW proof \in {"password", "code", "grant"},
           Pass(x, proof), earned' = earned, who[x].pc \notin {"idle", "in"},
           \/ proof = "grant"
           \/ proof = "code" /\ "password" \in who[x].proved
           \/ /\ proof = "password"
              /\ "code" \in who[x].proved \/ who[x].key = 0 \/ acct[who[x].acct].totp = 0
    PROVE  Cleared(x)
<1> DEFINE w == who[x]
<1>1. w \in WhoRec /\ Rest(w) \in WhoRec /\ TypeInv
  BY RestTyped DEF CodeInv, TypeInv
<1>2. who'[x].proved = w.proved \cup {proof} /\ who'[x].pc \in {"idle", "in"}
  <2> DEFINE r == Rest(w)
             v == [r EXCEPT !.pc = IF r.kind = "http" THEN "idle" ELSE "in",
                            !.kind = IF r.kind = "mgmt" THEN "mgmt" ELSE "password",
                            !.proved = r.proved \cup {proof},
                            !.mark = IF proof = "grant" THEN "grant" ELSE r.mark]
  <2>1. who'[x] = v
    BY <1>1 DEF Pass, TypeInv
  <2>2. r.proved = w.proved /\ r \in WhoRec
    BY <1>1 DEF Rest, WhoRec
  <2> HIDE DEF r
  <2>3. v.proved = r.proved \cup {proof} /\ v.pc \in {"idle", "in"}
    BY <2>2 DEF WhoRec
  <2> QED BY <2>1, <2>2, <2>3
<1>3. who'[x] # who[x]
  BY <1>2
<1>4. FullProof(w.acct)
  BY <1>2, <1>3 DEF FullProof
<1>5. Rest(w).acct = w.acct
  BY <1>1 DEF Rest, WhoRec
<1> QED BY <1>4, <1>5 DEF Cleared, Pass

LEMMA Sorted ==
    ASSUME CodeInv, ShownInv, LoginNext
    PROVE  \/ Untold
           \/ \E x \in Actor : Blamed(x) \/ Cleared(x)
           \/ \E i \in IP : Denied(i)
<1>0. TypeInv /\ now \in Time /\ \A x \in Actor : who[x] \in WhoRec /\ Held(who[x])
  BY DEF CodeInv, TypeInv, ShownInv, Fits
<1> USE DEF hist, guard, tables
<1>1. ASSUME NEW x \in Actor, Fail(x) PROVE Blamed(x)
  BY <1>1 DEF Fail, Blamed
<1>2. ASSUME NEW x \in Actor, WrongCode(x) PROVE Untold \/ Blamed(x)
  BY <1>0, <1>2 DEF WrongCode, Blamed, Untold
<1>3. ASSUME NEW x \in Actor, AskIdle(x) \/ AskMgmt(x) \/ AskPasswd(x) \/ Refused(x) \/ Leave(x)
      PROVE  Untold
  BY <1>0, <1>3 DEF AskIdle, AskMgmt, AskPasswd, Refused, Leave, Untold
<1>4. ASSUME NEW x \in Actor, NEW a \in Account,
             Burn(x, a) \/ \/ \E s \in BOOLEAN : OfferKey(x, a, s)
                           \/ \E k \in Kind, g \in Grant \cup {None} : Begin(x, a, k, g)
      PROVE  Untold \/ Blamed(x)
  BY <1>0, <1>4, ZenonT(40) DEF Burn, OfferKey, Begin, Untold, Blamed
<1>5. ASSUME NEW x \in Actor, ReadGrant(x) \/ TakeGrant(x) PROVE Untold \/ Blamed(x)
  BY <1>0, <1>1, <1>5 DEF ReadGrant, TakeGrant, Untold
<1>6. ASSUME NEW x \in Actor, GrantPasses(x) PROVE Blamed(x) \/ Cleared(x)
  <2>1. Fail(x) \/ (Pass(x, "grant") /\ earned' = earned /\ who[x].pc = "taken")
    BY <1>6 DEF GrantPasses
  <2> QED BY <1>1, <2>1, PassIsCleared
<1>7. ASSUME NEW x \in Actor, ConsumeStep(x) PROVE Untold \/ Blamed(x) \/ Cleared(x)
  <2>1. CASE Consumes(who[x].acct, who[x].step) /\ who[x].kind # "idle"
    <3>1. Pass(x, "code") /\ earned' = earned /\ who[x].pc = "stepRead"
      BY <1>7, <2>1 DEF ConsumeStep
    <3>2. "password" \in who[x].proved
      BY <1>0, <2>1, <3>1 DEF Held
    <3> QED BY <3>1, <3>2, PassIsCleared
  <2>2. CASE Consumes(who[x].acct, who[x].step) /\ who[x].kind = "idle"
    BY <1>0, <1>7, <2>2 DEF ConsumeStep, Untold
  <2>3. CASE ~ Consumes(who[x].acct, who[x].step)
    BY <1>2, <1>7, <2>3 DEF ConsumeStep
  <2> QED BY <2>1, <2>2, <2>3
<1>8. ASSUME NEW x \in Actor, NEW right \in BOOLEAN, Compare(x, right)
      PROVE  Untold \/ Blamed(x) \/ Cleared(x)
  <2>1. \/ Fail(x) \/ Untold
        \/ /\ Pass(x, "password") /\ earned' = earned /\ who[x].pc = "compare"
           /\ who[x].grant = None
           /\ who[x].kind = "password" \/ acct[who[x].acct].totp = 0
    BY <1>0, <1>8 DEF Compare, Untold
  <2>2. ASSUME Pass(x, "password"), earned' = earned, who[x].pc = "compare", who[x].grant = None,
               who[x].kind = "password" \/ acct[who[x].acct].totp = 0
        PROVE  Cleared(x)
    <3>1. who[x].key = 0 \/ acct[who[x].acct].totp = 0
      BY <1>0, <2>2 DEF Held
    <3> QED BY <2>2, <3>1, PassIsCleared
  <2> QED BY <1>1, <2>1, <2>2
<1>9. ASSUME NEW x \in Actor, NEW right \in BOOLEAN, OldPassword(x, right)
      PROVE  Untold \/ Blamed(x) \/ Cleared(x)
  <2>1. \/ WrongCode(x)
        \/ Pass(x, "password") /\ earned' = earned /\ who[x].pc = "code" /\ who[x].kind = "passwd"
    BY <1>9 DEF OldPassword
  <2>2. who[x].pc = "code" /\ who[x].kind = "passwd" => "code" \in who[x].proved \/ who[x].key = 0
    BY <1>0 DEF Held
  <2> QED BY <1>2, <2>1, <2>2, PassIsCleared
<1>10. ASSUME NEW x \in Actor, NEW c \in Step, ReadStep(x, c) PROVE Untold
  BY <1>0, <1>10 DEF ReadStep, Untold
<1>11. ASSUME \/ \E g \in Grant : IssueGrant(g)
              \/ \E a \in Account : SetDisabled(a) \/ SetOAuthOnly(a) \/ RevokeSSHGrants(a)
              \/ \E a \in Account, c \in Step : EnrollTOTP(a, c)
       PROVE  Untold
  BY <1>0, <1>11 DEF IssueGrant, SetDisabled, SetOAuthOnly, RevokeSSHGrants, EnrollTOTP, Change, Untold
<1>12. CASE Tick
  BY <1>0, <1>12, GuardAssumption DEF Tick, Untold, Time
<1>13. ASSUME NEW i \in IP, Status(i) PROVE Denied(i)
  BY <1>13 DEF Status, StatusDenied, Denied
<1>14. ASSUME NEW x \in Actor, BadCode(x) PROVE Untold \/ Blamed(x)
  BY <1>2, <1>14 DEF BadCode
<1>15. CASE \E x \in Actor : AskIdle(x) \/ AskMgmt(x) \/ AskPasswd(x)
  BY <1>3, <1>15
<1>16. CASE \/ \E x \in Actor, a \in Account, s \in BOOLEAN : OfferKey(x, a, s)
            \/ \E x \in Actor, a \in Account, k \in Kind, g \in Grant \cup {None} : Begin(x, a, k, g)
            \/ \E x \in Actor, a \in Account : Burn(x, a)
  BY <1>4, <1>16
<1>17. CASE \E x \in Actor : Refused(x) \/ ReadGrant(x) \/ TakeGrant(x) \/ GrantPasses(x)
                             \/ BadCode(x) \/ Leave(x) \/ ConsumeStep(x)
  BY <1>3, <1>5, <1>6, <1>7, <1>14, <1>17
<1>18. CASE \E x \in Actor, right \in BOOLEAN : Compare(x, right) \/ OldPassword(x, right)
  BY <1>8, <1>9, <1>18
<1>19. CASE \E x \in Actor, c \in Step : ReadStep(x, c)
  BY <1>10, <1>19
<1>20. CASE \E i \in IP : Status(i)
  BY <1>13, <1>20
<1> QED BY <1>11, <1>12, <1>15, <1>16, <1>17, <1>18, <1>19, <1>20 DEF LoginNext

LEMMA UntoldKeeps == ASSUME LockInv, Untold PROVE LockInv' /\ NothingForgiven
<1>1. LockInv'
  BY DEF LockInv, Untold, EarnedOK, PairEarned, Owed
<1>2. ASSUME NEW m, NEW K, TableOK(m, K), NEW j, Recent(m, j) PROVE Stands(m, m, j)
  <2>1. m[j].fails \in Int /\ m[j].lockedTill \in Int
    BY <1>2 DEF TableOK, authEntry, Recent
  <2> QED BY <1>2, <2>1 DEF Recent, Stands
<1> QED BY <1>1, <1>2 DEF NothingForgiven, LockInv, Untold

LEMMA BlamedKeeps ==
    ASSUME LockInv, TypeInv, NEW x \in Actor, Blamed(x) PROVE LockInv' /\ NothingForgiven
<1> DEFINE a == who[x].acct
           i == Home[x]
<1>1. a \in Account /\ i \in IP
  BY LoginAssumption DEF TypeInv, WhoRec
<1>2. /\ earned = [acct |-> earned.acct, ip |-> earned.ip]
      /\ earned.acct \in [Account -> Nat] /\ earned.ip \in [IP -> Nat]
  BY DEF LockInv, EarnedOK
<1> HIDE DEF a, i
<1>3. CASE blame(x)
  <2>1. fail(a, i) /\ earned' = [earned EXCEPT !.acct[a] = @ + 1, !.ip[i] = @ + 1]
    BY <1>3 DEF blame, a, i
  <2>2. /\ earned'.acct = [earned.acct EXCEPT ![a] = @ + 1]
        /\ earned'.ip = [earned.ip EXCEPT ![i] = @ + 1]
        /\ earned' = [acct |-> earned'.acct, ip |-> earned'.ip]
    BY <1>2, <2>1
  <2>3. /\ EarnedOK' /\ earned'.acct[a] = earned.acct[a] + 1 /\ earned'.ip[i] = earned.ip[i] + 1
        /\ \A b \in Account : earned'.acct[b] >= earned.acct[b]
        /\ \A b \in IP : earned'.ip[b] >= earned.ip[b]
    BY <1>1, <1>2, <2>2 DEF EarnedOK
  <2>4. earned'.acct[a] >= earned.acct[a] + 1 /\ earned'.ip[i] >= earned.ip[i] + 1
    BY <1>1, <1>2, <2>3
  <2>5. Settle(failLocked(entries, <<a, i>>, Threshold), failLocked(userEntries, a, UserThreshold),
               failLocked(ipEntries, i, IpThreshold), anonEntries)
    BY <2>1 DEF fail
  <2> QED BY <1>1, <2>3, <2>4, <2>5, SettleKeeps DEF Blamed
<1>4. CASE blameIP(x)
  <2>1. failIP(i) /\ earned' = [earned EXCEPT !.ip[i] = @ + 1]
    BY <1>4 DEF blameIP, i
  <2>2. /\ earned'.acct = earned.acct
        /\ earned'.ip = [earned.ip EXCEPT ![i] = @ + 1]
        /\ earned' = [acct |-> earned'.acct, ip |-> earned'.ip]
    BY <1>2, <2>1
  <2>3. /\ EarnedOK' /\ earned'.ip[i] = earned.ip[i] + 1
        /\ \A b \in Account : earned'.acct[b] >= earned.acct[b]
        /\ \A b \in IP : earned'.ip[b] >= earned.ip[b]
    BY <1>1, <1>2, <2>2 DEF EarnedOK
  <2>4. earned'.ip[i] >= earned.ip[i] + 1
    BY <1>1, <1>2, <2>3
  <2>5. Settle(entries, userEntries, failLocked(ipEntries, i, IpThreshold), anonEntries)
    BY <2>1 DEF failIP
  <2> QED BY <1>1, <2>3, <2>4, <2>5, SettleKeeps DEF Blamed
<1> QED BY <1>3, <1>4 DEF Blamed

LEMMA DeniedKeeps ==
    ASSUME LockInv, NEW i \in IP, Denied(i) PROVE LockInv' /\ NothingForgiven
<1>1. PICK a : a \in Account
  BY LoginAssumption
<1>2. Settle(entries, userEntries, ipEntries, failLocked(anonEntries, i, AnonThreshold))
  BY DEF Denied, failIPAnon
<1>3. /\ EarnedOK' /\ earned' = earned /\ now' = now
      /\ \A b \in Account : earned.acct[b] >= earned.acct[b]
      /\ \A b \in IP : earned.ip[b] >= earned.ip[b]
  BY DEF LockInv, EarnedOK, Denied
<1> QED BY <1>1, <1>2, <1>3, SettleKeeps

\* Forgetting one key
Without(m, k, n) == /\ \A j \in DOMAIN n : j \in DOMAIN m /\ n[j] = m[j]
                    /\ \A j : j # k /\ Recent(m, j) => Stands(m, n, j)

LEMMA Forgotten ==
    ASSUME NEW m, NEW K, TableOK(m, K), NEW k, NEW n, n = Restrict(m, DOMAIN m \ {k})
    PROVE  TableOK(n, K) /\ Without(m, k, n)
<1>1. DOMAIN n = DOMAIN m \ {k} /\ \A j \in DOMAIN n : n[j] = m[j]
  BY DEF Restrict
<1>2. IsFiniteSet(DOMAIN n)
  BY <1>1, FS_Subset DEF TableOK
<1>3. TableOK(n, K)
  BY <1>1, <1>2 DEF TableOK
<1>4. ASSUME NEW j, j # k, Recent(m, j) PROVE Stands(m, n, j)
  <2>1. j \in DOMAIN n /\ n[j] = m[j] /\ m[j].fails \in Int /\ m[j].lockedTill \in Int
    BY <1>1, <1>4, SMTT(40) DEF Recent, TableOK, authEntry
  <2> QED BY <2>1 DEF Stands
<1> QED BY <1>1, <1>3, <1>4 DEF Without

LEMMA ClearedKeeps ==
    ASSUME LockInv, TypeInv, NEW x \in Actor, Cleared(x)
    PROVE  /\ LockInv'
           /\ \A i \in IP : Recent(ipEntries, i) => Stands(ipEntries, ipEntries', i)
           /\ \A a \in Account :
                 Recent(userEntries, a) => Stands(userEntries, userEntries', a) \/ FullProof(a)
           /\ \A p \in Pair :
                 Recent(entries, p) => Stands(entries, entries', p) \/ FullProof(p[1])
<1> DEFINE a == who[x].acct
           i == Home[x]
<1>1. /\ entries' = Restrict(entries, DOMAIN entries \ {<<a, i>>})
      /\ userEntries' = Restrict(userEntries, DOMAIN userEntries \ {a})
      /\ ipEntries' = ipEntries /\ now' = now /\ earned' = earned /\ FullProof(a)
  BY DEF Cleared, pass
<1> HIDE DEF a, i
<1>2. TableOK(entries', Pair) /\ Without(entries, <<a, i>>, entries')
  BY <1>1, Forgotten DEF LockInv
<1>3. TableOK(userEntries', Account) /\ Without(userEntries, a, userEntries')
  BY <1>1, Forgotten DEF LockInv
<1>4. LockInv'
  BY <1>1, <1>2, <1>3 DEF LockInv, EarnedOK, Owed, PairEarned, Without
<1>5. ASSUME NEW j \in IP, Recent(ipEntries, j) PROVE Stands(ipEntries, ipEntries', j)
  <2>1. ipEntries[j].fails \in Int /\ ipEntries[j].lockedTill \in Int
    BY <1>5 DEF Recent, LockInv, TableOK, authEntry
  <2> QED BY <1>1, <1>5, <2>1 DEF Recent, Stands
<1>6. <<a, i>>[1] = a
  OBVIOUS
<1> QED BY <1>1, <1>2, <1>3, <1>4, <1>5, <1>6 DEF Without

LEMMA LimiterStep ==
    ASSUME CodeInv, ShownInv, LockInv, [LoginNext]_vars
    PROVE  /\ LockInv'
           /\ \A i \in IP : Recent(ipEntries, i) => Stands(ipEntries, ipEntries', i)
           /\ \A a \in Account :
                 Recent(userEntries, a) => Stands(userEntries, userEntries', a) \/ FullProof(a)
           /\ \A p \in Pair :
                 Recent(entries, p) => Stands(entries, entries', p) \/ FullProof(p[1])
<1>0. TypeInv
  BY DEF CodeInv
<1>1. UNCHANGED vars => Untold
  BY DEF vars, Untold, tables, LockInv
<1>2. \/ LockInv' /\ NothingForgiven
      \/ \E x \in Actor : Cleared(x)
  BY <1>0, <1>1, Sorted, UntoldKeeps, BlamedKeeps, DeniedKeeps
<1>3. CASE LockInv' /\ NothingForgiven
  BY <1>3 DEF NothingForgiven
<1>4. CASE \E x \in Actor : Cleared(x)
  BY <1>0, <1>4, ClearedKeeps
<1> QED BY <1>2, <1>3, <1>4

LEMMA LocksInitially == LoginInit => LockInv
<1> SUFFICES ASSUME LoginInit PROVE LockInv
  OBVIOUS
<1>1. now = 0 /\ entries = <<>> /\ userEntries = <<>> /\ ipEntries = <<>> /\ DOMAIN <<>> = {}
  BY DEF LoginInit, GuardInit
<1>2. \A K : TableOK(<<>>, K)
  BY <1>1, FS_EmptySet DEF TableOK
<1>3. EarnedOK
  BY DEF LoginInit, EarnedOK
<1>4. \A thr, e : Owed(<<>>, thr, e)
  BY <1>1 DEF Owed
<1> QED BY <1>1, <1>2, <1>3, <1>4, GuardAssumption DEF LockInv, Time

\* The limiter's tables, what each attempt has shown, and the codes.
LimiterInv == CodeInv /\ ShownInv /\ LockInv

\* In every state counts are of failures that happened, and an attempt is only
\* where it may be with what it has shown (authguard.go; ssh.go, mgmt.go).
THEOREM LimiterInvariant == LoginSpec => []LimiterInv
<1>1. LoginInit => LimiterInv
  BY CodeInitially, ShownInitially, LocksInitially DEF LimiterInv
<1>2. LimiterInv /\ [LoginNext]_vars => LimiterInv'
  <2> SUFFICES ASSUME LimiterInv, [LoginNext]_vars PROVE LimiterInv'
    OBVIOUS
  <2>1. CodeInv /\ ShownInv /\ LockInv
    BY DEF LimiterInv
  <2>2. CodeInv' /\ LockInv'
    BY <2>1, CodeStep, LimiterStep
  <2>3. ShownInv'
    <3>1. CASE LoginNext
      BY <2>1, <2>2, <3>1, ShownStep
    <3>2. CASE UNCHANGED vars
      BY <2>1, <3>2 DEF vars, ShownInv, Fits, Held
    <3> QED BY <3>1, <3>2
  <2> QED BY <2>2, <2>3 DEF LimiterInv
<1> QED BY <1>1, <1>2, PTL DEF LoginSpec

\* A lock is earned by failures at that account, or from that address: neither a
\* name typed into the wrong method nor the endpoints open to anybody set one
\* (authguard.go: fail, failIP, failIPAnon).
THEOREM LocksNeedFailures == LoginSpec => []LocksAreEarned
<1>1. LimiterInv => LocksAreEarned
  <2> SUFFICES ASSUME LimiterInv PROVE LocksAreEarned
    OBVIOUS
  <2>1. LockInv /\ now \in Nat /\ \A m, k : Locked(m, k) => m[k].lockedTill # -1
    BY DEF LimiterInv, LockInv, Time, Locked
  <2>2. \A a \in DOMAIN userEntries :
          /\ userEntries[a].fails <= earned.acct[a]
          /\ Locked(userEntries, a) => earned.acct[a] >= UserThreshold
    BY <2>1 DEF LockInv, Owed
  <2>3. \A p \in DOMAIN entries : Locked(entries, p) => earned.acct[p[1]] >= Threshold
    BY <2>1 DEF LockInv, Owed, PairEarned, TableOK
  <2>4. \A i \in DOMAIN ipEntries :
          /\ ipEntries[i].fails <= earned.ip[i]
          /\ Locked(ipEntries, i) => earned.ip[i] >= IpThreshold
    BY <2>1 DEF LockInv, Owed
  <2> QED BY <2>2, <2>3, <2>4 DEF LocksAreEarned
<1> QED BY <1>1, LimiterInvariant, PTL

\* What has counted within the window, and the locks it set, are forgotten only
\* by a login that has shown everything, those of an address by nothing: a
\* password alone does not buy new guesses at the code (authguard.go: pass, and
\* where ssh.go, mgmt.go, passwd.go call it).
THEOREM OnlyProofForgives == LoginSpec => OnlyAFullProofForgives
<1>1. LimiterInv /\ [LoginNext]_vars =>
        [/\ \A i \in IP : Recent(ipEntries, i) => Stands(ipEntries, ipEntries', i)
         /\ \A a \in Account :
               Recent(userEntries, a) => Stands(userEntries, userEntries', a) \/ FullProof(a)
         /\ \A p \in Pair :
               Recent(entries, p) => Stands(entries, entries', p) \/ FullProof(p[1])]_vars
  BY LimiterStep DEF LimiterInv
<1> QED BY <1>1, LimiterInvariant, PTL DEF LoginSpec, OnlyAFullProofForgives
=============================================================================
