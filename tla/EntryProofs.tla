---------------------------- MODULE EntryProofs ----------------------------
(***************************************************************************)
(* Theorems about the ways into the server beside the password: the flow   *)
(* by identity provider (OAuthFlow) and the limit on connections           *)
(* (ConnCap).  They hold for any number of requests, browser calls,        *)
(* machines, connections and addresses, and any limits.                    *)
(***************************************************************************)
EXTENDS OAuthFlow, ConnCap, FiniteSetTheorems, TLAPS

-----------------------------------------------------------------------------
(* OAuthFlow.                                                              *)

ReqOf == [machine : Machine, expires : Nat, state : BOOLEAN, done : BOOLEAN,
          failed : BOOLEAN, secret : BOOLEAN]
CallOf == [pc : {"code", "token", "known", "bound", "enabled", "there", "granted"},
           r : Req, by : Req, who : Person, late : BOOLEAN]
CliOf == [pc : {"none", "poll", "asked", "done"}, deadline : Nat,
          answer : {"none", "refused", "unknown", "pending", "failed", "approved", "timeout"}]

FlowTypes ==
    /\ clock \in Nat /\ DOMAIN req \subseteq Req /\ req \in [DOMAIN req -> ReqOf]
    /\ IsFiniteSet(pend) /\ pend \subseteq DOMAIN req /\ byState \subseteq pend
    /\ cb \in [Callback -> CallOf \cup {Idle}]
    /\ cli \in [Req -> CliOf] /\ told \in [Req -> Nat]

Granted(r) == \E g \in issued : g.r = r

\* A request is made by its command, which is told of it once.
ReqInv(r) ==
    /\ cli[r].pc = "none" => r \notin DOMAIN req /\ told[r] = 0
    /\ cli[r].pc \in {"poll", "asked"} => r \in DOMAIN req
    /\ told[r] <= 1 /\ (told[r] = 1 => r \notin pend)
    /\ cli[r].answer = "approved" => Granted(r)
    /\ r \in DOMAIN req => (req[r].done /\ ~ req[r].failed => Granted(r))

\* What a callback, written down as k, has come to know: what it has looked up
\* still holds unless it is late.
Verified == {"known", "bound", "enabled", "there", "granted"}
LooksUp  == {"bound", "enabled", "there"}
StillSo(k) ==
    LET m == req[k.r].machine IN
    /\ k.pc \in LooksUp => owns.person[k.who] = m
    /\ k.pc \in {"enabled", "there"} => m \notin owns.disabled
    /\ k.pc = "there" => m \notin owns.gone
CallOK(k) ==
    /\ k.r \in DOMAIN req
    /\ k.pc \in Verified => (IdToken => k.by = k.r)
    /\ k.pc = "granted" => Granted(k.r)
    /\ k.late \/ StillSo(k)
CallInv(c) == cb[c] # Idle => CallOK(cb[c])

GrantInv(g) ==
    /\ g.r \in DOMAIN req /\ (g.fit \/ g.late)
    /\ IdToken => g.by = g.r

Here(m) == {r \in pend : req[r].machine = m}

FlowInv ==
    /\ FlowTypes
    /\ \A r \in Req : ReqInv(r)
    /\ \A c \in Callback : CallInv(c)
    /\ \A g \in issued : GrantInv(g)
    /\ Cardinality(pend) <= PendMax
    /\ \A m \in Machine : Cardinality(Here(m)) <= PendPerMach

LEMMA FlowFacts ==
    ASSUME FlowInv
    PROVE  /\ clock \in Nat /\ DOMAIN req \subseteq Req /\ req \in [DOMAIN req -> ReqOf]
           /\ IsFiniteSet(pend) /\ pend \subseteq DOMAIN req /\ byState \subseteq pend
           /\ cb \in [Callback -> CallOf \cup {Idle}]
           /\ cli \in [Req -> CliOf] /\ told \in [Req -> Nat]
           /\ Swept \subseteq pend
           /\ \A r \in DOMAIN req : req[r] \in ReqOf
           /\ \A c \in Callback : cb[c].pc # "idle" => cb[c] \in CallOf
<1>1. Idle.pc = "idle"
  BY DEF Idle
<1> QED BY <1>1 DEF FlowInv, FlowTypes, Swept

LEMMA IdleFacts == Idle.pc = "idle" /\ Idle \notin CallOf /\ \A a \in CallOf : a # Idle /\ a.pc # "idle"
<1>1. Idle.pc = "idle"
  BY DEF Idle
<1>2. \A a \in CallOf : a.pc # "idle"
  BY DEF CallOf
<1> QED BY <1>1, <1>2

LEMMA SmallerStillFits ==
    ASSUME FlowInv, NEW S, S \subseteq pend
    PROVE  /\ IsFiniteSet(S) /\ Cardinality(S) \in Nat /\ Cardinality(S) <= Cardinality(pend)
           /\ \A m \in Machine : /\ IsFiniteSet({r \in S : req[r].machine = m})
                                 /\ Cardinality({r \in S : req[r].machine = m}) \in Nat
                                 /\ Cardinality({r \in S : req[r].machine = m}) <= PendPerMach
           /\ Cardinality(pend) \in Nat /\ PendPerMach \in Nat /\ PendMax \in Nat
<1>1. IsFiniteSet(pend) /\ Cardinality(pend) \in Nat /\ PendPerMach \in Nat /\ PendMax \in Nat
  BY FlowFacts, FS_CardinalityType, OAuthAssumption
<1>2. IsFiniteSet(S) /\ Cardinality(S) \in Nat /\ Cardinality(S) <= Cardinality(pend)
  BY <1>1, FS_Subset, FS_CardinalityType
<1>3. ASSUME NEW m \in Machine, NEW T, T = {r \in S : req[r].machine = m}
      PROVE  IsFiniteSet(T) /\ Cardinality(T) \in Nat /\ Cardinality(T) <= PendPerMach
  <2>1. Here(m) \subseteq pend /\ T \subseteq Here(m)
    BY <1>3 DEF Here
  <2>2. IsFiniteSet(Here(m)) /\ Cardinality(Here(m)) \in Nat
    BY <1>1, <2>1, FS_Subset, FS_CardinalityType
  <2>3. IsFiniteSet(T) /\ Cardinality(T) \in Nat /\ Cardinality(T) <= Cardinality(Here(m))
    BY <2>1, <2>2, FS_Subset, FS_CardinalityType
  <2> QED BY <1>1, <2>2, <2>3 DEF FlowInv
<1> QED BY <1>1, <1>2, <1>3

\* Steps of browsers: requests and callbacks move, and grants are issued.
LEMMA BrowserMoves ==
    ASSUME FlowInv, req' \in [DOMAIN req -> ReqOf],
           \A r \in DOMAIN req :
              /\ req'[r].machine = req[r].machine
              /\ req'[r].done /\ ~ req'[r].failed => Granted(r)',
           cb' \in [Callback -> CallOf \cup {Idle}], \A c \in Callback : CallInv(c)',
           issued \subseteq issued', \A g \in issued' : GrantInv(g)',
           byState' \subseteq pend, UNCHANGED <<clock, pend, cli, told>>
    PROVE  FlowInv'
<1>1. DOMAIN req' = DOMAIN req
  OBVIOUS
<1>2. FlowTypes'
  BY <1>1, FlowFacts DEF FlowTypes
<1>3. \A r : Granted(r) => Granted(r)'
  BY DEF Granted
<1>4. \A r \in Req : ReqInv(r)'
  BY <1>1, <1>3 DEF FlowInv, ReqInv
<1>5. ASSUME NEW m \in Machine PROVE Cardinality(Here(m)') <= PendPerMach
  <2>1. Here(m)' = Here(m)
    BY FlowFacts DEF Here
  <2> QED BY <2>1 DEF FlowInv
<1> QED BY <1>2, <1>4, <1>5 DEF FlowInv

\* What Failed does to a request.
LEMMA FailedFacts ==
    ASSUME FlowInv, NEW r \in DOMAIN req, Failed(r)
    PROVE  /\ req' \in [DOMAIN req -> ReqOf]
           /\ \A q \in DOMAIN req :
                /\ req'[q].machine = req[q].machine
                /\ req'[q].done /\ ~ req'[q].failed => Granted(q)
<1>1. \A q \in DOMAIN req : req[q].done /\ ~ req[q].failed => Granted(q)
  BY FlowFacts DEF FlowInv, ReqInv
<1>2. CASE req[r].done
  BY <1>1, <1>2, FlowFacts DEF Failed
<1>3. CASE ~ req[r].done
  <2> DEFINE v == [req[r] EXCEPT !.done = TRUE, !.failed = TRUE]
  <2>1. v \in ReqOf /\ v.machine = req[r].machine /\ v.failed = TRUE
    BY FlowFacts DEF ReqOf
  <2>2. req' = [req EXCEPT ![r] = v]
    BY <1>3, FlowFacts DEF Failed
  <2> HIDE DEF v
  <2> QED BY <1>1, <2>1, <2>2, FlowFacts
<1> QED BY <1>2, <1>3

\* A request that does not change, and grants that stay.
LEMMA SameReq ==
    ASSUME FlowInv, req' = req
    PROVE  /\ req' \in [DOMAIN req -> ReqOf]
           /\ \A q \in DOMAIN req :
                /\ req'[q].machine = req[q].machine
                /\ req'[q].done /\ ~ req'[q].failed => Granted(q)
BY FlowFacts DEF FlowInv, ReqInv

\* One callback changes.
LEMMA OneCall ==
    ASSUME FlowInv, NEW c \in Callback, NEW a \in CallOf \cup {Idle}, cb' = [cb EXCEPT ![c] = a],
           DOMAIN req' = DOMAIN req, issued \subseteq issued', owns' = owns,
           \A q \in DOMAIN req : req'[q].machine = req[q].machine,
           a # Idle => CallOK(a)'
    PROVE  cb' \in [Callback -> CallOf \cup {Idle}] /\ \A d \in Callback : CallInv(d)'
<1>1. /\ cb' \in [Callback -> CallOf \cup {Idle}] /\ cb'[c] = a
      /\ \A d \in Callback \ {c} : cb'[d] = cb[d]
  BY FlowFacts
<1>2. CallInv(c)'
  BY <1>1 DEF CallInv
<1>3. ASSUME NEW d \in Callback \ {c} PROVE CallInv(d)'
  <2>1. cb'[d] = cb[d] /\ CallInv(d)
    BY <1>1 DEF FlowInv
  <2> QED BY <2>1 DEF CallInv, CallOK, StillSo, Granted
<1> QED BY <1>1, <1>2, <1>3

LEMMA SameGrants ==
    ASSUME FlowInv, issued' = issued, DOMAIN req' = DOMAIN req,
           \A q \in DOMAIN req : req'[q].machine = req[q].machine
    PROVE  \A g \in issued' : GrantInv(g)'
BY DEF FlowInv, GrantInv

LEMMA SameCalls ==
    ASSUME FlowInv, cb' = cb, issued' = issued, DOMAIN req' = DOMAIN req, owns' = owns,
           \A q \in DOMAIN req : req'[q].machine = req[q].machine
    PROVE  cb' \in [Callback -> CallOf \cup {Idle}] /\ \A d \in Callback : CallInv(d)'
BY FlowFacts DEF FlowInv, CallInv, CallOK, StillSo, Granted

\* A step that changes one callback, or none, and at most fails its request.
LEMMA CallbackStep ==
    ASSUME FlowInv, NEW c \in Callback, NEW a \in CallOf \cup {Idle},
           cb' = [cb EXCEPT ![c] = a] \/ cb' = cb,
           req' = req \/ (\E r \in DOMAIN req : Failed(r)),
           UNCHANGED <<clock, pend, byState, cli, owns, told, issued>>,
           a # Idle => CallOK(a)
    PROVE  FlowInv'
<1>1. /\ req' \in [DOMAIN req -> ReqOf]
      /\ \A q \in DOMAIN req :
           /\ req'[q].machine = req[q].machine
           /\ req'[q].done /\ ~ req'[q].failed => Granted(q)
  BY SameReq, FailedFacts
<1>2. DOMAIN req' = DOMAIN req
  BY <1>1
<1>3. cb' \in [Callback -> CallOf \cup {Idle}] /\ \A d \in Callback : CallInv(d)'
  <2>1. a # Idle => CallOK(a)'
    BY <1>1, <1>2 DEF CallOK, StillSo, Granted
  <2> QED BY <1>1, <1>2, <2>1, OneCall, SameCalls
<1>4. \A g \in issued' : GrantInv(g)'
  BY <1>1, <1>2, SameGrants
<1>5. \A q : Granted(q)' <=> Granted(q)
  BY DEF Granted
<1> QED BY <1>1, <1>3, <1>4, <1>5, FlowFacts, BrowserMoves

LEMMA ReturnStep ==
    ASSUME FlowInv, NEW c \in Callback, NEW r \in Req,
           \/ \E q \in Req, p \in Person, ok \in BOOLEAN : Return(c, r, q, p, ok)
           \/ ReturnRefused(c, r)
    PROVE  FlowInv'
<1>1. r \in DOMAIN req /\ UNCHANGED <<clock, pend, byState, cli, owns, told, issued>>
  BY FlowFacts DEF Return, ReturnRefused
<1>2. ASSUME NEW q \in Req, NEW p \in Person, NEW ok \in BOOLEAN, Return(c, r, q, p, ok)
      PROVE  FlowInv'
  <2> DEFINE a == [pc |-> "code", r |-> r, by |-> q, who |-> p, late |-> FALSE]
  <2>1. a \in CallOf /\ CallOK(a)
    BY <1>1 DEF CallOf, CallOK, StillSo, Verified, LooksUp
  <2>2. (cb' = [cb EXCEPT ![c] = a] /\ req' = req) \/ (cb' = cb /\ Failed(r))
    BY <1>2 DEF Return
  <2> HIDE DEF a
  <2> QED BY <1>1, <2>1, <2>2, CallbackStep
<1>3. CASE ReturnRefused(c, r)
  <2>1. cb' = cb /\ Failed(r) /\ Idle \in CallOf \cup {Idle} /\ Idle.pc = "idle"
    BY <1>3, IdleFacts DEF ReturnRefused
  <2> QED BY <1>1, <2>1, CallbackStep
<1> QED BY <1>2, <1>3

\* A callback goes on when what it asked for is so, and ends otherwise.
LEMMA AdvanceStep ==
    ASSUME FlowInv, NEW c \in Callback, NEW ok \in BOOLEAN, NEW from, NEW to,
           from \in {"code", "token", "known", "bound", "enabled", "there"},
           to \in {"token", "known", "bound", "enabled", "there"} \/ ~ ok,
           Advance(c, from, ok, to),
           ok => CallOK([cb[c] EXCEPT !.pc = to])
    PROVE  FlowInv'
<1>1. PICK o : o = cb[c]
  OBVIOUS
<1>2. /\ o \in CallOf /\ o.r \in DOMAIN req
      /\ UNCHANGED <<clock, pend, byState, cli, owns, told, issued>>
  <2>1. cb[c].pc # "idle"
    BY DEF Advance
  <2>2. o \in CallOf /\ o # Idle
    BY <1>1, <2>1, FlowFacts, IdleFacts
  <2> QED BY <1>1, <2>2 DEF Advance, FlowInv, CallInv, CallOK
<1>3. CASE ~ ok
  <2>1. cb' = [cb EXCEPT ![c] = Idle] /\ Idle.pc = "idle" /\ Failed(o.r)
    BY <1>1, <1>3, IdleFacts DEF Advance, End
  <2> QED BY <1>2, <2>1, CallbackStep
<1>4. CASE ok
  <2> DEFINE a == [o EXCEPT !.pc = to]
  <2>1. a \in CallOf /\ CallOK(a)
    BY <1>1, <1>2, <1>4 DEF CallOf
  <2>2. cb' = [cb EXCEPT ![c] = a] /\ req' = req
    BY <1>1, <1>4, FlowFacts DEF Advance
  <2> HIDE DEF a
  <2> QED BY <1>2, <2>1, <2>2, CallbackStep
<1> QED BY <1>3, <1>4

\* What holds of the callback that is at step pc.
LEMMA CallbackAt ==
    ASSUME FlowInv, NEW c \in Callback, NEW pc, cb[c].pc = pc, pc # "idle"
    PROVE  cb[c] \in CallOf /\ CallOK(cb[c])
<1>1. cb[c] \in CallOf /\ cb[c] # Idle
  BY FlowFacts, IdleFacts
<1> QED BY <1>1 DEF FlowInv, CallInv

LEMMA LearnStep ==
    ASSUME FlowInv, NEW c \in Callback,
           \/ \E ok \in BOOLEAN : Exchange(c, ok) \/ Verify(c, ok)
           \/ OAuthLookup(c) \/ Get(c) \/ GetMachine(c) \/ GrantFails(c)
    PROVE  FlowInv'
<1> DEFINE Now(to) == [cb[c] EXCEPT !.pc = to]
<1>1. ASSUME NEW from \in {"code", "token", "known", "bound", "enabled", "there"},
             NEW to \in {"token", "known", "bound", "enabled", "there"}, cb[c].pc = from
      PROVE  /\ CallOK(cb[c])
             /\ Now(to).pc = to /\ Now(to).r = cb[c].r /\ Now(to).by = cb[c].by
             /\ Now(to).who = cb[c].who /\ Now(to).late = cb[c].late
  BY <1>1, CallbackAt DEF CallOf
<1>2. ASSUME NEW ok \in BOOLEAN, Exchange(c, ok)
      PROVE  FlowInv'
  <2>1. cb[c].pc = "code" /\ Advance(c, "code", ok, "token")
    BY <1>2 DEF Exchange, Advance
  <2>2. CallOK(Now("token"))
    BY <1>1, <2>1 DEF CallOK, StillSo, Verified, LooksUp
  <2> QED BY <2>1, <2>2, AdvanceStep
<1>3. ASSUME NEW ok \in BOOLEAN, Verify(c, ok)
      PROVE  FlowInv'
  <2>1. cb[c].pc = "token" /\ Advance(c, "token", ok /\ NonceOK(c), "known")
    BY <1>3 DEF Verify, Advance
  <2>2. ok /\ NonceOK(c) => CallOK(Now("known"))
    BY <1>1, <2>1 DEF CallOK, StillSo, Verified, LooksUp, NonceOK
  <2>3. (ok /\ NonceOK(c)) \in BOOLEAN
    OBVIOUS
  <2> QED BY <2>1, <2>2, <2>3, AdvanceStep
<1>4. CASE OAuthLookup(c)
  <2> DEFINE found == owns.person[cb[c].who] = Wants(c)
  <2>1. cb[c].pc = "known" /\ Advance(c, "known", found, "bound")
    BY <1>4 DEF OAuthLookup, Advance
  <2>2. found => CallOK(Now("bound"))
    BY <1>1, <2>1 DEF CallOK, StillSo, Verified, LooksUp, Wants
  <2>3. found \in BOOLEAN
    OBVIOUS
  <2> QED BY <2>1, <2>2, <2>3, AdvanceStep
<1>5. CASE Get(c)
  <2> DEFINE found == Wants(c) \notin owns.disabled
  <2>1. cb[c].pc = "bound" /\ Advance(c, "bound", found, "enabled")
    BY <1>5 DEF Get, Advance
  <2>2. found => CallOK(Now("enabled"))
    BY <1>1, <2>1 DEF CallOK, StillSo, Verified, LooksUp, Wants
  <2>3. found \in BOOLEAN
    OBVIOUS
  <2> QED BY <2>1, <2>2, <2>3, AdvanceStep
<1>6. CASE GetMachine(c)
  <2> DEFINE found == Wants(c) \notin owns.gone
  <2>1. cb[c].pc = "enabled" /\ Advance(c, "enabled", found, "there")
    BY <1>6 DEF GetMachine, Advance
  <2>2. found => CallOK(Now("there"))
    BY <1>1, <2>1 DEF CallOK, StillSo, Verified, LooksUp, Wants
  <2>3. found \in BOOLEAN
    OBVIOUS
  <2> QED BY <2>1, <2>2, <2>3, AdvanceStep
<1>7. CASE GrantFails(c)
  <2>1. PICK ok \in BOOLEAN : ~ ok
    OBVIOUS
  <2>2. Advance(c, "there", ok, "granted")
    BY <1>7, <2>1 DEF GrantFails, Advance
  <2>3. ok => CallOK([cb[c] EXCEPT !.pc = "granted"])
    BY <2>1
  <2>4. "granted" \in {"token", "known", "bound", "enabled", "there"} \/ ~ ok
    BY <2>1
  <2>5. "there" \in {"code", "token", "known", "bound", "enabled", "there"}
    OBVIOUS
  <2> QED BY <2>2, <2>3, <2>4, <2>5, AdvanceStep
<1> QED BY <1>2, <1>3, <1>4, <1>5, <1>6, <1>7

LEMMA CreateSSHGrantStep ==
    ASSUME FlowInv, NEW c \in Callback, CreateSSHGrant(c)
    PROVE  FlowInv'
<1>1. PICK o : o = cb[c]
  OBVIOUS
<1>2. /\ o \in CallOf /\ CallOK(o) /\ o.pc = "there"
      /\ UNCHANGED <<clock, pend, byState, req, cli, owns, told>>
  BY <1>1, CallbackAt DEF CreateSSHGrant
<1>3. PICK f \in BOOLEAN : f <=> /\ owns.person[o.who] = req[o.r].machine
                                /\ req[o.r].machine \notin owns.disabled \cup owns.gone
  OBVIOUS
<1> DEFINE g == [r |-> o.r, by |-> o.by, late |-> o.late, fit |-> f]
           a == [o EXCEPT !.pc = "granted"]
<1>4. issued' = issued \cup {g}
  BY <1>1, <1>3 DEF CreateSSHGrant, Wants
<1>5. cb' = [cb EXCEPT ![c] = a]
  BY <1>1, FlowFacts DEF CreateSSHGrant
<1>6. /\ g.r = o.r /\ g.by = o.by /\ g.late = o.late /\ g.fit = f
      /\ a \in CallOf /\ a.pc = "granted" /\ a.r = o.r /\ a.by = o.by
  BY <1>2 DEF CallOf
<1> HIDE DEF g, a
<1>7. CallOK(a)'
  <2>1. \E h \in issued' : h.r = a.r
    BY <1>4, <1>6
  <2> QED BY <1>2, <1>6, <2>1 DEF CallOK, StillSo, Verified, LooksUp, Granted
<1>8. cb' \in [Callback -> CallOf \cup {Idle}] /\ \A d \in Callback : CallInv(d)'
  BY <1>2, <1>4, <1>5, <1>6, <1>7, OneCall
<1>9. \A h \in issued' : GrantInv(h)'
  <2>1. GrantInv(g)
    BY <1>2, <1>3, <1>6 DEF CallOK, StillSo, Verified, LooksUp, GrantInv
  <2> QED BY <1>2, <1>4, <2>1 DEF FlowInv, GrantInv
<1>10. \A r \in DOMAIN req : /\ req'[r].machine = req[r].machine
                             /\ req'[r].done /\ ~ req'[r].failed => Granted(r)'
  BY <1>2, <1>4, SameReq DEF Granted
<1>11. req' \in [DOMAIN req -> ReqOf] /\ issued \subseteq issued' /\ byState' \subseteq pend
  BY <1>2, <1>4, FlowFacts
<1> QED BY <1>2, <1>8, <1>9, <1>10, <1>11, BrowserMoves

LEMMA PublishStep ==
    ASSUME FlowInv, NEW c \in Callback, Publish(c)
    PROVE  FlowInv'
<1>1. PICK o : o = cb[c]
  OBVIOUS
<1>2. /\ o \in CallOf /\ o.r \in DOMAIN req /\ Granted(o.r)
      /\ UNCHANGED <<clock, pend, byState, cli, owns, told, issued>>
  BY <1>1, CallbackAt DEF Publish, CallOK
<1>3. cb' = [cb EXCEPT ![c] = Idle] /\ Idle.pc = "idle"
  BY IdleFacts DEF Publish, End
<1> DEFINE v == [req[o.r] EXCEPT !.done = TRUE, !.secret = TRUE]
<1>4. v \in ReqOf /\ v.machine = req[o.r].machine
  BY <1>2, FlowFacts DEF ReqOf
<1>5. req' = [req EXCEPT ![o.r] = v]
  BY <1>1, <1>2, FlowFacts DEF Publish
<1> HIDE DEF v
<1>6. req' \in [DOMAIN req -> ReqOf] /\ DOMAIN req' = DOMAIN req
  BY <1>2, <1>4, <1>5, FlowFacts
<1>7. \A q \in DOMAIN req : /\ req'[q].machine = req[q].machine
                            /\ req'[q].done /\ ~ req'[q].failed => Granted(q)
  <2>1. \A q \in DOMAIN req : req[q].done /\ ~ req[q].failed => Granted(q)
    BY FlowFacts DEF FlowInv, ReqInv
  <2> QED BY <1>2, <1>4, <1>5, <2>1, FlowFacts
<1>8. cb' \in [Callback -> CallOf \cup {Idle}] /\ \A d \in Callback : CallInv(d)'
  BY <1>2, <1>3, <1>6, <1>7, OneCall
<1>9. \A g \in issued' : GrantInv(g)'
  BY <1>2, <1>6, <1>7, SameGrants
<1>10. \A q : Granted(q)' <=> Granted(q)
  BY <1>2 DEF Granted
<1> QED BY <1>2, <1>6, <1>7, <1>8, <1>9, <1>10, FlowFacts, BrowserMoves

LEMMA OpenLinkStep ==
    ASSUME FlowInv, NEW r \in Req, NEW ok \in BOOLEAN, OpenLink(r, ok)
    PROVE  FlowInv'
<1>1. /\ r \in pend /\ r \in DOMAIN req /\ UNCHANGED <<clock, pend, cb, cli, owns, told, issued>>
      /\ byState' = byState \cup {r}
  BY FlowFacts DEF OpenLink
<1> DEFINE v == [req[r] EXCEPT !.state = TRUE]
<1>2. /\ v \in ReqOf /\ v.machine = req[r].machine /\ v.done = req[r].done
      /\ v.failed = req[r].failed
  BY <1>1, FlowFacts DEF ReqOf
<1>3. req' = [req EXCEPT ![r] = v]
  BY <1>1, FlowFacts DEF OpenLink
<1> HIDE DEF v
<1>4. req' \in [DOMAIN req -> ReqOf] /\ DOMAIN req' = DOMAIN req
  BY <1>1, <1>2, <1>3, FlowFacts
<1>5. \A q \in DOMAIN req : /\ req'[q].machine = req[q].machine
                            /\ req'[q].done /\ ~ req'[q].failed => Granted(q)
  <2>1. \A q \in DOMAIN req : req[q].done /\ ~ req[q].failed => Granted(q)
    BY FlowFacts DEF FlowInv, ReqInv
  <2> QED BY <1>1, <1>2, <1>3, <2>1, FlowFacts
<1>6. cb' \in [Callback -> CallOf \cup {Idle}] /\ \A d \in Callback : CallInv(d)'
  BY <1>1, <1>4, <1>5, SameCalls
<1>7. \A g \in issued' : GrantInv(g)'
  BY <1>1, <1>4, <1>5, SameGrants
<1>8. \A q : Granted(q)' <=> Granted(q)
  BY <1>1 DEF Granted
<1> QED BY <1>1, <1>4, <1>5, <1>6, <1>7, <1>8, FlowFacts, BrowserMoves

\* The agent's command changes, and requests leave the table.
LEMMA CommandMoves ==
    ASSUME FlowInv, NEW r \in Req, cli' \in [Req -> CliOf], told' \in [Req -> Nat],
           \A q \in Req \ {r} : cli'[q] = cli[q] /\ told'[q] = told[q],
           pend' \subseteq pend, byState' \subseteq pend', clock' \in Nat,
           UNCHANGED <<req, cb, owns, issued>>, ReqInv(r)'
    PROVE  FlowInv'
<1>1. FlowTypes'
  BY SmallerStillFits, FlowFacts DEF FlowTypes
<1>2. ASSUME NEW q \in Req \ {r} PROVE ReqInv(q)'
  <2>1. ReqInv(q) /\ cli'[q] = cli[q] /\ told'[q] = told[q]
    BY DEF FlowInv
  <2> QED BY <2>1 DEF ReqInv, Granted
<1>3. \A c \in Callback : CallInv(c)'
  BY DEF FlowInv, CallInv, CallOK, StillSo, Granted
<1>4. \A g \in issued' : GrantInv(g)'
  BY DEF FlowInv, GrantInv
<1>5. Cardinality(pend') <= PendMax
  <2>1. Cardinality(pend') <= Cardinality(pend) /\ Cardinality(pend') \in Nat
        /\ Cardinality(pend) \in Nat /\ PendMax \in Nat
    BY SmallerStillFits
  <2> QED BY <2>1 DEF FlowInv
<1>6. \A m \in Machine : Cardinality(Here(m)') <= PendPerMach
  BY SmallerStillFits DEF Here
<1> QED BY <1>1, <1>2, <1>3, <1>4, <1>5, <1>6 DEF FlowInv

LEMMA PollStep ==
    ASSUME FlowInv, NEW r \in Req, NEW lost \in BOOLEAN, Poll(r, lost)
    PROVE  FlowInv'
<1>1. /\ cli[r] \in CliOf /\ cli[r].pc = "asked" /\ r \in DOMAIN req /\ ReqInv(r)
      /\ clock' = clock /\ UNCHANGED <<req, cb, owns, issued>> /\ told[r] \in Nat
  BY FlowFacts DEF Poll, FlowInv, ReqInv
<1>2. pend' = Swept \ Taken(r) /\ pend' \subseteq pend /\ byState' \subseteq pend'
  BY FlowFacts DEF Poll
<1> DEFINE last == Answer(r) \in {"failed", "approved"}
<1>3. last <=> r \in Swept /\ req[r].done
  BY DEF Answer
<1>4. Answer(r) = "approved" => Granted(r)
  BY <1>1 DEF Answer, ReqInv
<1>5. last => r \in pend /\ r \notin pend'
  BY <1>2, <1>3, FlowFacts DEF Taken
<1>6. Answer(r) \in {"unknown", "pending", "failed", "approved"}
  BY DEF Answer
<1> DEFINE n == IF last THEN told[r] + 1 ELSE told[r]
<1>7. n \in Nat /\ n <= 1 /\ (n = 1 => r \notin pend')
  <2>1. CASE last
    <3>1. told[r] = 0
      BY <1>1, <1>5, <2>1 DEF ReqInv
    <3> QED BY <1>5, <2>1, <3>1
  <2>2. CASE ~ last
    BY <1>1, <1>2, <2>2 DEF ReqInv
  <2> QED BY <2>1, <2>2
<1>8. told' = [told EXCEPT ![r] = n]
  BY FlowFacts DEF Poll
<1> HIDE DEF last, n
<1>9. told' \in [Req -> Nat] /\ told'[r] = n /\ \A q \in Req \ {r} : told'[q] = told[q]
  BY <1>7, <1>8, FlowFacts
<1>10. CASE cli' = [cli EXCEPT ![r].pc = "poll"]
  <2> DEFINE v == [cli[r] EXCEPT !.pc = "poll"]
  <2>1. v \in CliOf /\ v.pc = "poll" /\ v.answer = cli[r].answer
    BY <1>1 DEF CliOf
  <2>2. cli' = [cli EXCEPT ![r] = v]
    BY <1>10, FlowFacts
  <2> HIDE DEF v
  <2>3. cli' \in [Req -> CliOf] /\ cli'[r] = v /\ \A q \in Req \ {r} : cli'[q] = cli[q]
    BY <2>1, <2>2, FlowFacts
  <2>4. ReqInv(r)'
    BY <1>1, <1>2, <1>7, <1>9, <2>1, <2>3 DEF ReqInv, Granted
  <2> QED BY <1>1, <1>2, <1>9, <2>3, <2>4, FlowFacts, CommandMoves
<1>11. ASSUME NEW w, w = Answer(r), cli' = [cli EXCEPT ![r].pc = "done", ![r].answer = w]
      PROVE  FlowInv'
  <2> DEFINE v == [cli[r] EXCEPT !.pc = "done", !.answer = w]
  <2>1. v \in CliOf /\ v.pc = "done" /\ v.answer = w
    BY <1>1, <1>6, <1>11 DEF CliOf
  <2>2. cli' = [cli EXCEPT ![r] = v]
    BY <1>11, FlowFacts
  <2> HIDE DEF v
  <2>3. cli' \in [Req -> CliOf] /\ cli'[r] = v /\ \A q \in Req \ {r} : cli'[q] = cli[q]
    BY <2>1, <2>2, FlowFacts
  <2>4. ReqInv(r)'
    BY <1>1, <1>4, <1>7, <1>9, <1>11, <2>1, <2>3 DEF ReqInv, Granted
  <2> QED BY <1>1, <1>2, <1>9, <2>3, <2>4, FlowFacts, CommandMoves
<1>12. PICK w : w = Answer(r)
  OBVIOUS
<1> QED BY <1>10, <1>11, <1>12 DEF Poll

LEMMA AskStep ==
    ASSUME FlowInv, NEW r \in Req, Ask(r)
    PROVE  FlowInv'
<1>1. /\ cli[r] \in CliOf /\ cli[r].pc = "poll" /\ ReqInv(r)
      /\ UNCHANGED <<clock, pend, byState, req, cb, owns, told, issued>>
  BY FlowFacts DEF Ask, FlowInv
<1> DEFINE v == [cli[r] EXCEPT !.pc = "asked"]
<1>2. v \in CliOf /\ v.pc = "asked" /\ v.answer = cli[r].answer
  BY <1>1 DEF CliOf
<1>3. cli' = [cli EXCEPT ![r] = v]
  BY FlowFacts DEF Ask
<1> HIDE DEF v
<1>4. cli' \in [Req -> CliOf] /\ cli'[r] = v /\ \A q \in Req \ {r} : cli'[q] = cli[q]
  BY <1>2, <1>3, FlowFacts
<1>5. ReqInv(r)'
  BY <1>1, <1>2, <1>4 DEF ReqInv, Granted
<1> QED BY <1>1, <1>4, <1>5, FlowFacts, CommandMoves

LEMMA TimeOutStep ==
    ASSUME FlowInv, NEW r \in Req, TimeOut(r)
    PROVE  FlowInv'
<1>1. /\ cli[r] \in CliOf /\ cli[r].pc = "poll" /\ ReqInv(r)
      /\ UNCHANGED <<clock, pend, byState, req, cb, owns, told, issued>>
  BY FlowFacts DEF TimeOut, FlowInv
<1> DEFINE v == [cli[r] EXCEPT !.pc = "done", !.answer = "timeout"]
<1>2. v \in CliOf /\ v.pc = "done" /\ v.answer = "timeout"
  BY <1>1 DEF CliOf
<1>3. cli' = [cli EXCEPT ![r] = v]
  BY FlowFacts DEF TimeOut
<1> HIDE DEF v
<1>4. cli' \in [Req -> CliOf] /\ cli'[r] = v /\ \A q \in Req \ {r} : cli'[q] = cli[q]
  BY <1>2, <1>3, FlowFacts
<1>5. ReqInv(r)'
  BY <1>1, <1>2, <1>4 DEF ReqInv, Granted
<1> QED BY <1>1, <1>4, <1>5, FlowFacts, CommandMoves

LEMMA RequestStep ==
    ASSUME FlowInv, NEW r \in Req, NEW m \in Machine, Request(r, m)
    PROVE  FlowInv'
<1> DEFINE here == {q \in Swept : req[q].machine = m}
           full == Cardinality(here) >= PendPerMach \/ Cardinality(Swept) >= PendMax
<1>1. /\ cli[r] \in CliOf /\ cli[r].pc = "none" /\ r \notin DOMAIN req /\ ReqInv(r) /\ told[r] = 0
      /\ UNCHANGED <<clock, cb, owns, told, issued>> /\ byState' = byState \cap Swept
  BY FlowFacts DEF Request, FlowInv, ReqInv
<1>2. PICK d \in Nat : d = clock + Wait
  BY FlowFacts, OAuthAssumption
<1>3. CASE full
  <2> DEFINE v == [pc |-> "done", deadline |-> d, answer |-> "refused"]
  <2>1. pend' = Swept /\ req' = req /\ cli' = [cli EXCEPT ![r] = v]
    BY <1>2, <1>3 DEF Request
  <2>2. v \in CliOf /\ v.pc = "done" /\ v.answer = "refused"
    BY DEF CliOf
  <2> HIDE DEF v
  <2>3. cli' \in [Req -> CliOf] /\ cli'[r] = v /\ \A q \in Req \ {r} : cli'[q] = cli[q]
    BY <2>1, <2>2, FlowFacts
  <2>4. ReqInv(r)'
    BY <1>1, <2>1, <2>2, <2>3, FlowFacts DEF ReqInv, Granted
  <2> HIDE DEF here, full
  <2> QED BY <1>1, <2>1, <2>3, <2>4, FlowFacts, CommandMoves
<1>4. CASE ~ full
  <2> DEFINE v == [pc |-> "poll", deadline |-> d, answer |-> "none"]
  <2>1. PICK e \in Nat : e = clock + TTL
    BY FlowFacts, OAuthAssumption
  <2> DEFINE w == [machine |-> m, expires |-> e, state |-> FALSE, done |-> FALSE,
                   failed |-> FALSE, secret |-> FALSE]
  <2>2. /\ pend' = Swept \cup {r} /\ cli' = [cli EXCEPT ![r] = v]
        /\ req' = [q \in DOMAIN req \cup {r} |-> IF q # r THEN req[q] ELSE w]
    BY <1>2, <1>4, <2>1 DEF Request
  <2>3. ~ (Cardinality(here) >= PendPerMach) /\ ~ (Cardinality(Swept) >= PendMax)
    BY <1>4
  <2>4. v \in CliOf /\ v.pc = "poll" /\ v.answer = "none"
    BY DEF CliOf
  <2>5. w \in ReqOf /\ w.machine = m /\ w.done = FALSE
    BY DEF ReqOf
  <2> HIDE DEF v, w, full
  <2>6. cli' \in [Req -> CliOf] /\ cli'[r] = v /\ \A q \in Req \ {r} : cli'[q] = cli[q]
    BY <2>2, <2>4, FlowFacts
  <2>7. /\ DOMAIN req' = DOMAIN req \cup {r} /\ req' \in [DOMAIN req \cup {r} -> ReqOf]
        /\ req'[r] = w /\ \A q \in DOMAIN req : req'[q] = req[q]
    BY <1>1, <2>2, <2>5, FlowFacts
  <2>8. /\ IsFiniteSet(Swept) /\ Cardinality(Swept) \in Nat /\ PendMax \in Nat /\ PendPerMach \in Nat
        /\ IsFiniteSet(here) /\ Cardinality(here) \in Nat /\ r \notin Swept /\ r \notin here
    BY <1>1, FlowFacts, SmallerStillFits
  <2>9. IsFiniteSet(pend') /\ Cardinality(pend') = Cardinality(Swept) + 1
    BY <2>2, <2>8, FS_AddElement
  <2>10. Cardinality(pend') <= PendMax
    BY <2>3, <2>8, <2>9
  <2>11. FlowTypes'
    BY <1>1, <2>2, <2>6, <2>7, <2>9, FlowFacts DEF FlowTypes
  <2>12. ASSUME NEW q \in Req PROVE ReqInv(q)'
    <3>1. CASE q = r
      <4>1. ~ (told[r] = 1) /\ cli[r].answer = cli[r].answer
        BY <1>1
      <4> QED BY <1>1, <2>4, <2>5, <2>6, <2>7, <3>1, <4>1 DEF ReqInv
    <3>2. CASE q # r
      <4>1. ReqInv(q) /\ cli'[q] = cli[q] /\ (q \in pend' => q \in pend)
        BY <2>2, <2>6, <3>2, FlowFacts DEF FlowInv
      <4>2. (q \in DOMAIN req' <=> q \in DOMAIN req) /\ (q \in DOMAIN req => req'[q] = req[q])
        BY <2>7, <3>2
      <4> QED BY <1>1, <4>1, <4>2 DEF ReqInv, Granted
    <3> QED BY <3>1, <3>2
  <2>13. \A c \in Callback : CallInv(c)'
    BY <1>1, <2>7 DEF FlowInv, CallInv, CallOK, StillSo, Granted
  <2>14. \A g \in issued' : GrantInv(g)'
    BY <1>1, <2>7 DEF FlowInv, GrantInv
  <2>15. ASSUME NEW k \in Machine PROVE Cardinality(Here(k)') <= PendPerMach
    <3>1. CASE k = m
      <4>1. Here(k)' = here \cup {r}
        BY <1>1, <2>2, <2>5, <2>7, <3>1, FlowFacts DEF Here
      <4>2. Cardinality(here \cup {r}) = Cardinality(here) + 1
        BY <2>8, FS_AddElement
      <4> QED BY <2>3, <2>8, <4>1, <4>2
    <3>2. CASE k # m
      <4>1. Here(k)' = {q \in Swept : req[q].machine = k}
        BY <1>1, <2>2, <2>5, <2>7, <3>2, FlowFacts DEF Here
      <4> QED BY <4>1, FlowFacts, SmallerStillFits
    <3> QED BY <3>1, <3>2
  <2> QED BY <2>10, <2>11, <2>12, <2>13, <2>14, <2>15 DEF FlowInv
<1> QED BY <1>3, <1>4

\* A change by an administrator makes late the callbacks it undoes.
LEMMA ElsewhereStep ==
    ASSUME FlowInv, Elsewhere
    PROVE  FlowInv'
<1>1. PICK new \in Changes :
        /\ owns' = new
        /\ cb' = [c \in Callback |->
                    IF Undoes(new, c) THEN [cb[c] EXCEPT !.late = TRUE] ELSE cb[c]]
  BY DEF Elsewhere
<1>2. UNCHANGED <<clock, pend, byState, req, cli, told, issued>>
  BY DEF Elsewhere
<1>3. ASSUME NEW c \in Callback
      PROVE  cb'[c] \in CallOf \cup {Idle} /\ CallInv(c)'
  <2>1. CASE ~ Undoes(new, c)
    <3>1. cb'[c] = cb[c] /\ CallInv(c) /\ cb[c] \in CallOf \cup {Idle}
      BY <1>1, <2>1, FlowFacts DEF FlowInv
    <3>2. CASE cb[c] = Idle
      BY <3>1, <3>2 DEF CallInv
    <3>3. CASE cb[c] # Idle
      <4>1. CallOK(cb[c])
        BY <3>1, <3>3 DEF CallInv
      <4>2. cb[c].late \/ StillSo(cb[c])'
        BY <1>1, <1>2, <2>1, <3>1, <4>1 DEF CallOK, StillSo, Undoes, Wants, LooksUp
      <4> QED BY <1>2, <3>1, <4>1, <4>2 DEF CallInv, CallOK, StillSo, Granted
    <3> QED BY <3>2, <3>3
  <2>2. CASE Undoes(new, c)
    <3>1. cb[c] \in CallOf /\ CallOK(cb[c])
      <4>1. cb[c].pc \in LooksUp
        BY <2>2 DEF Undoes, LooksUp
      <4> QED BY <4>1, CallbackAt DEF LooksUp
    <3> DEFINE a == [cb[c] EXCEPT !.late = TRUE]
    <3>2. /\ a \in CallOf /\ a.late /\ a.r = cb[c].r /\ a.pc = cb[c].pc
          /\ a.by = cb[c].by
      BY <3>1 DEF CallOf
    <3>3. cb'[c] = a
      BY <1>1, <2>2
    <3> HIDE DEF a
    <3> QED BY <1>2, <3>1, <3>2, <3>3 DEF CallInv, CallOK, Granted
  <2> QED BY <2>1, <2>2
<1>4. cb' \in [Callback -> CallOf \cup {Idle}] /\ \A c \in Callback : CallInv(c)'
  BY <1>1, <1>3
<1>5. \A g \in issued' : GrantInv(g)'
  BY <1>2, SameGrants
<1>6. \A q : Granted(q)' <=> Granted(q)
  BY <1>2 DEF Granted
<1> QED BY <1>2, <1>4, <1>5, <1>6, SameReq, FlowFacts, BrowserMoves

\* Requests, callbacks and the agent's commands, and the grants issued.
THEOREM FlowInvariant == OAuthSpec => []FlowInv
<1>1. OAuthInit => FlowInv
  <2> SUFFICES ASSUME OAuthInit PROVE FlowInv
    OBVIOUS
  <2>1. /\ clock = 0 /\ pend = {} /\ byState = {} /\ req = <<>> /\ issued = {}
        /\ cb = [c \in Callback |-> Idle] /\ told = [r \in Req |-> 0]
        /\ cli = [r \in Req |-> [pc |-> "none", deadline |-> 0, answer |-> "none"]]
    BY DEF OAuthInit
  <2>2. DOMAIN req = {} /\ req \in [{} -> ReqOf]
    BY <2>1
  <2>3. IsFiniteSet({}) /\ Cardinality({}) = 0
    BY FS_EmptySet
  <2>4. \A r \in Req : cli[r] \in CliOf /\ cli[r].pc = "none" /\ cli[r].answer = "none"
    BY <2>1 DEF CliOf
  <2>5. FlowTypes
    BY <2>1, <2>2, <2>3, <2>4 DEF FlowTypes
  <2>6. \A r \in Req : ReqInv(r)
    BY <2>1, <2>2, <2>4 DEF ReqInv
  <2>7. \A c \in Callback : CallInv(c)
    BY <2>1, IdleFacts DEF CallInv
  <2>8. \A m \in Machine : Here(m) = {}
    BY <2>1 DEF Here
  <2>9. PendMax \in Nat /\ PendPerMach \in Nat
    BY OAuthAssumption
  <2>10. Cardinality(pend) <= PendMax
    BY <2>1, <2>3, <2>9
  <2>11. ASSUME NEW m \in Machine PROVE Cardinality(Here(m)) <= PendPerMach
    <3>1. Cardinality(Here(m)) = 0
      BY <2>3, <2>8
    <3> QED BY <2>9, <3>1
  <2> QED BY <2>1, <2>5, <2>6, <2>7, <2>10, <2>11 DEF FlowInv
<1>2. FlowInv /\ [OAuthNext]_ovars => FlowInv'
  <2> SUFFICES ASSUME FlowInv, [OAuthNext]_ovars PROVE FlowInv'
    OBVIOUS
  <2>1. ASSUME UNCHANGED <<pend, byState, req, cb, cli, owns, told, issued>>,
               clock' \in Nat
        PROVE  FlowInv'
    BY <2>1, FlowFacts
       DEF FlowInv, FlowTypes, ReqInv, CallInv, CallOK, StillSo, GrantInv, Granted, Here
  <2>2. CASE Later \/ UNCHANGED ovars
    BY <2>1, <2>2, FlowFacts DEF Later, ovars
  <2> QED BY <2>2, RequestStep, OpenLinkStep, AskStep, PollStep, ReturnStep, LearnStep,
             CreateSSHGrantStep, PublishStep, TimeOutStep, ElsewhereStep DEF OAuthNext
<1> QED BY <1>1, <1>2, PTL DEF OAuthSpec

\* A command told of an approval has its grant, from who signed in for this
\* request and is bound to its machine's account; only what was taken away after
\* the callback had looked at it may be missing when the grant is written
\* (oauth.go, handleOAuthCallback; Provider.VerifyIdentity).
THEOREM ApprovalIsEarned == OAuthSpec => []ApprovedIsEarned
<1>1. FlowInv => ApprovedIsEarned
  BY DEF FlowInv, ReqInv, GrantInv, Granted, ApprovedIsEarned
<1> QED BY <1>1, FlowInvariant, PTL

\* However callbacks and polls race, a final answer leaves once, and the tables
\* stay within their limits (handleOAuthRequest, handleOAuthResult).
THEOREM AnswerIsFinal == OAuthSpec => []OneFinalAnswer
<1>1. FlowInv => OneFinalAnswer
  BY DEF FlowInv, FlowTypes, ReqInv, Here, OneFinalAnswer
<1> QED BY <1>1, FlowInvariant, PTL

-----------------------------------------------------------------------------
(* ConnCap.                                                                *)

Open == {p \in Peer : conn[p] = "open"}
OpenAt(i) == {p \in Open : From[p] = i}

CapInv == /\ conn \in [Peer -> {"none", "open", "closed"}]
          /\ total \in Nat /\ perIP \in [Addr -> Nat]
          /\ PlacesMatchConnections

LEMMA OpenIsFinite ==
    IsFiniteSet(Open) /\ \A i \in Addr : IsFiniteSet(OpenAt(i))
  BY CapAssumption, FS_Subset DEF Open, OpenAt

\* The conjuncts of the property in terms of the two sets
LEMMA Counted ==
    PlacesMatchConnections <=>
      /\ total = Cardinality(Open)
      /\ \A i \in Addr : perIP[i] = Cardinality(OpenAt(i))
      /\ MaxTotal > 0 => total <= MaxTotal
      /\ MaxPerIP > 0 => \A i \in Addr : perIP[i] <= MaxPerIP
  BY DEF PlacesMatchConnections, Open, OpenAt

LEMMA CapInitially == CapInit => CapInv
<1> SUFFICES ASSUME CapInit PROVE CapInv
  OBVIOUS
<1>1. Open = {} /\ \A i \in Addr : OpenAt(i) = {}
  BY DEF CapInit, Open, OpenAt
<1>2. Cardinality({}) = 0
  BY FS_EmptySet
<1>3. PlacesMatchConnections
  BY <1>1, <1>2, Counted, CapAssumption DEF CapInit
<1> QED BY <1>3 DEF CapInit, CapInv

\* A connection is let in where both counters leave room.
LEMMA AcceptKeeps == ASSUME CapInv, NEW p \in Peer, Accept(p) PROVE CapInv'
<1> USE DEF CapInv
<1>0. From[p] \in Addr
  BY DEF Addr
<1>1. conn' \in [Peer -> {"none", "open", "closed"}] /\ total' \in Nat /\ perIP' \in [Addr -> Nat]
  BY <1>0 DEF Accept
<1>2. p \notin Open /\ Open' = Open \cup {p}
  BY DEF Accept, Open
<1>3. \A i \in Addr : OpenAt(i)' = IF From[p] = i THEN OpenAt(i) \cup {p} ELSE OpenAt(i)
  BY <1>2 DEF OpenAt
<1>4. total' = Cardinality(Open')
  BY <1>2, OpenIsFinite, FS_AddElement, Counted DEF Accept
<1>5. ASSUME NEW i \in Addr PROVE perIP'[i] = Cardinality(OpenAt(i)')
  <2>1. p \notin OpenAt(i) /\ perIP[i] = Cardinality(OpenAt(i)) /\ IsFiniteSet(OpenAt(i))
    BY <1>2, OpenIsFinite, Counted DEF OpenAt
  <2>2. Cardinality(OpenAt(i) \cup {p}) = Cardinality(OpenAt(i)) + 1
    BY <2>1, FS_AddElement
  <2> QED BY <1>3, <2>1, <2>2 DEF Accept
<1>6. MaxTotal > 0 => total' <= MaxTotal
  BY CapAssumption DEF Accept, acquire
<1>7. MaxPerIP > 0 => \A i \in Addr : perIP'[i] <= MaxPerIP
  BY CapAssumption, Counted DEF Accept, acquire
<1>8. PlacesMatchConnections'
  BY <1>4, <1>5, <1>6, <1>7 DEF PlacesMatchConnections, Open, OpenAt, Addr
<1> QED BY <1>1, <1>8

\* Whoever closes first gives the place back; a later close finds nothing open.
LEMMA CloseKeeps == ASSUME CapInv, NEW p \in Peer, CloseConn(p) PROVE CapInv'
<1> USE DEF CapInv
<1>0. From[p] \in Addr
  BY DEF Addr
<1>1. CASE conn[p] # "open"
  <2>1. UNCHANGED <<total, perIP>> /\ conn' \in [Peer -> {"none", "open", "closed"}]
    BY <1>1 DEF CloseConn, release, releases
  <2>2. Open' = Open
    BY <1>1 DEF CloseConn, Open
  <2>3. \A i \in Addr : OpenAt(i)' = OpenAt(i)
    BY <2>2 DEF OpenAt
  <2>4. PlacesMatchConnections'
    BY <2>1, <2>2, <2>3 DEF PlacesMatchConnections, Open, OpenAt, Addr
  <2> QED BY <2>1, <2>4
<1>2. CASE conn[p] = "open"
  <2>1. p \in Open /\ Open' = Open \ {p}
    BY <1>2 DEF CloseConn, Open
  <2>2. \A i \in Addr : OpenAt(i)' = IF From[p] = i THEN OpenAt(i) \ {p} ELSE OpenAt(i)
    BY <2>1 DEF OpenAt
  <2>3. Cardinality(Open \ {p}) = Cardinality(Open) - 1 /\ Cardinality(Open) \in Nat /\ total > 0
    BY <2>1, OpenIsFinite, FS_RemoveElement, FS_CardinalityType, FS_EmptySet, Counted
  <2>4. total' = Cardinality(Open')
    BY <1>2, <2>1, <2>3, Counted DEF CloseConn, release, releases
  <2>5. ASSUME NEW i \in Addr PROVE perIP'[i] = Cardinality(OpenAt(i)')
    <3>1. IsFiniteSet(OpenAt(i)) /\ perIP[i] = Cardinality(OpenAt(i))
      BY OpenIsFinite, Counted
    <3>2. CASE From[p] = i
      <4>1. p \in OpenAt(i)
        BY <2>1, <3>2 DEF OpenAt
      <4>2. Cardinality(OpenAt(i) \ {p}) = perIP[i] - 1 /\ perIP[i] > 0
        BY <3>1, <4>1, FS_RemoveElement, FS_EmptySet
        <4>3. perIP[i] \in Nat /\ perIP[i] > 0
          BY <4>2
        <4>4. perIP' = [perIP EXCEPT ![i] = IF perIP[i] - 1 <= 0 THEN 0 ELSE perIP[i] - 1]
          BY <1>2, <3>2 DEF CloseConn, release, releases
        <4>5. perIP'[i] = IF perIP[i] - 1 <= 0 THEN 0 ELSE perIP[i] - 1
          BY <4>4
        <4> QED BY <2>2, <3>2, <4>2, <4>3, <4>5
    <3>3. CASE From[p] # i
      BY <1>2, <2>2, <3>1, <3>3 DEF CloseConn, release, releases
    <3> QED BY <3>2, <3>3
  <2>6. total' \in Nat /\ perIP' \in [Addr -> Nat] /\ conn' \in [Peer -> {"none", "open", "closed"}]
    BY <1>0, <1>2 DEF CloseConn, release, releases
  <2>7. total' <= total /\ \A i \in Addr : perIP'[i] <= perIP[i]
    BY <1>0, <1>2 DEF CloseConn, release, releases
  <2>8. MaxTotal > 0 => total' <= MaxTotal
    BY <2>6, <2>7, CapAssumption, Counted
  <2>9. MaxPerIP > 0 => \A i \in Addr : perIP'[i] <= MaxPerIP
    BY <2>6, <2>7, CapAssumption, Counted
  <2>10. PlacesMatchConnections'
    BY <2>4, <2>5, <2>8, <2>9 DEF PlacesMatchConnections, Open, OpenAt, Addr
  <2> QED BY <2>6, <2>10
<1> QED BY <1>1, <1>2

LEMMA CapStep == CapInv /\ [CapNext]_capvars => CapInv'
<1> SUFFICES ASSUME CapInv, [CapNext]_capvars PROVE CapInv'
  OBVIOUS
<1>1. CASE UNCHANGED capvars
  BY <1>1 DEF capvars, CapInv, PlacesMatchConnections
<1> QED BY <1>1, AcceptKeeps, CloseKeeps DEF CapNext

\* A place is taken for each connection that is open and for no other, in
\* total and per address, and the limits hold (limits.go: Accept, Close).
THEOREM PlacesAgree == CapSpec => []PlacesMatchConnections
<1>1. CapInv => PlacesMatchConnections
  BY DEF CapInv
<1> QED BY <1>1, CapInitially, CapStep, PTL DEF CapSpec
=============================================================================
