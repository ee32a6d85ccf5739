----------------------------- MODULE OAuthFlow -----------------------------
(***************************************************************************)
(* A login by identity provider: the agent's command asks the server for a *)
(* link and polls for the result (cmd/towstrap/oauth.go), a browser opens  *)
(* the link and comes back from the provider (internal/server/oauth.go),   *)
(* the server checks who signed in (internal/oidc) and issues an SSH grant *)
(* for the machine that asked.  Callbacks of one request interleave at     *)
(* every call to the provider and every statement of the data base, where  *)
(* an administrator's changes fall too, and replies to the agent may be    *)
(* lost.                                                                   *)
(***************************************************************************)
EXTENDS Integers, FiniteSets

CONSTANTS
    Req,            \* requests made during the run, numbered as they come
    Callback,       \* places for browser calls of /oauth/callback under way at
                    \* once, numbered and taken lowest first
    Machine, Person,
    Bound,          \* oauth_identities: the account a person is bound to at first
    PendPerMach,    \* oauthPendPerMach
    PendMax,        \* oauthPendMax
    TTL,            \* oauthPendingTTL, in ticks
    Retry,          \* oauthProvErrRetry
    Wait,           \* --wait
    IdToken,        \* the provider sends an id_token
    MaxTime,        \* bound: the last tick
    MaxTrouble      \* bound: lost replies, changes of accounts

ASSUME OAuthAssumption ==
    /\ {PendPerMach, PendMax, TTL, Retry, Wait} \subseteq Nat \ {0}
    /\ {MaxTime, MaxTrouble} \subseteq Nat /\ Req \cup Callback \subseteq Nat
    /\ IdToken \in BOOLEAN
    /\ DOMAIN Bound = Person

VARIABLES
    clock,
    pend,           \* oauthFlow.pend, the requests it lists
    byState,        \* oauthFlow.byState, the requests a state leads to
    req,            \* the oauthPending each of them points at
    prov,           \* oauthFlow.prov; what is left of Retry since provErrAt
    cb,             \* callbacks
    cli,            \* the agent's command, one per request
    owns,           \* whose account a person and a machine belong to
    told,           \* history: final answers sent, per request
    issued,         \* history: grants issued
    trouble         \* bound

ovars == <<clock, pend, byState, req, prov, cb, cli, owns, told, issued,
           trouble>>

Unbound == "unbound"
Idle == [pc |-> "idle"]
FirstFree(c) == cb[c] = Idle /\ \A d \in Callback : cb[d] = Idle => c <= d

OAuthInit ==
    /\ clock = 0 /\ pend = {} /\ byState = {} /\ req = <<>>
    /\ prov = [found |-> FALSE, retry |-> 0]
    /\ cb = [c \in Callback |-> Idle]
    /\ cli = [r \in Req |-> [pc |-> "none", deadline |-> 0, answer |-> "none"]]
    /\ owns = [person |-> Bound, gone |-> {}, disabled |-> {}]
    /\ told = [r \in Req |-> 0] /\ issued = {} /\ trouble = 0

-----------------------------------------------------------------------------
\* oauthFlow.sweepLocked
Swept == {r \in pend : clock <= req[r].expires}

\* handleOAuthRequest, of machine m's agent, and the command that made it.
\* A machine stands for its account: the model has one machine per account.
Request(r, m) ==
    /\ cli[r].pc = "none" /\ \A q \in Req : q < r => cli[q].pc # "none"
    /\ clock + Wait < MaxTime /\ m \notin owns.gone \cup owns.disabled
    /\ LET here == {q \in Swept : req[q].machine = m}
           full == Cardinality(here) >= PendPerMach \/ Cardinality(Swept) >= PendMax
       IN  /\ pend' = IF full THEN Swept ELSE Swept \cup {r}
           /\ byState' = byState \cap Swept
           /\ req' = IF full THEN req
                     ELSE [q \in DOMAIN req \cup {r} |->
                             IF q # r THEN req[q]
                             ELSE [machine |-> m, expires |-> clock + TTL,
                                   state |-> FALSE, done |-> FALSE,
                                   failed |-> FALSE, secret |-> FALSE]]
           /\ cli' = [cli EXCEPT ![r] =
                        [pc |-> IF full THEN "done" ELSE "poll",
                         deadline |-> clock + Wait,
                         answer |-> IF full THEN "refused" ELSE "none"]]
    /\ UNCHANGED <<clock, prov, cb, owns, told, issued, trouble>>

\* oauthFlow.provider: discovery is done once and its failure remembered for
\* Retry; ok is what the provider answers.
Provider(ok) ==
    IF prov.retry > 0 THEN ~ ok /\ UNCHANGED prov
    ELSE IF prov.found THEN ok /\ UNCHANGED prov
    ELSE prov' = IF ok THEN [prov EXCEPT !.found = TRUE]
                 ELSE [prov EXCEPT !.retry = Retry]

\* handleOAuthBegin: the state leads back to the request even when the
\* provider cannot be reached now.
OpenLink(r, ok) ==
    /\ r \in pend /\ clock <= req[r].expires /\ ~ req[r].done
    /\ req' = [req EXCEPT ![r].state = TRUE]
    /\ byState' = byState \cup {r}
    /\ Provider(ok)
    /\ UNCHANGED <<clock, pend, cb, cli, owns, told, issued, trouble>>

-----------------------------------------------------------------------------
(* handleOAuthCallback.                                                    *)

\* The first reason is kept.
Failed(r) == req' = IF req[r].done THEN req
                    ELSE [req EXCEPT ![r].done = TRUE, ![r].failed = TRUE]

End(c) == cb' = [cb EXCEPT ![c] = Idle]

\* A person comes back with the state of r and a code for a sign-in begun for
\* q; oops is a refusal, a missing code, or no provider.
Return(c, r, q, p, ok) ==
    /\ FirstFree(c) /\ r \in byState /\ q \in DOMAIN req /\ req[q].state
    /\ ~ req[r].done /\ clock <= req[r].expires
    /\ Provider(ok)
    /\ IF ok THEN /\ cb' = [cb EXCEPT ![c] = [pc |-> "code", r |-> r, by |-> q,
                                             who |-> p, late |-> FALSE]]
                  /\ UNCHANGED req
       ELSE Failed(r) /\ UNCHANGED cb
    /\ UNCHANGED <<clock, pend, byState, cli, owns, told, issued, trouble>>

ReturnRefused(c, r) ==
    /\ FirstFree(c) /\ r \in byState /\ ~ req[r].done /\ clock <= req[r].expires
    /\ Failed(r)
    /\ UNCHANGED <<clock, pend, byState, prov, cb, cli, owns, told, issued, trouble>>

\* The callback goes on to its next step, or tells the person and the request
\* why it does not.
Advance(c, from, ok, to) ==
    /\ cb[c].pc = from
    /\ IF ok THEN cb' = [cb EXCEPT ![c].pc = to] /\ UNCHANGED req
       ELSE End(c) /\ Failed(cb[c].r)
    /\ UNCHANGED <<clock, pend, byState, prov, cli, owns, told, issued, trouble>>

\* Provider.Exchange; a code is good once.
Exchange(c, ok) == Advance(c, "code", ok, "token")

\* Mutant of ApprovedIsEarned: the nonce is not compared.
NonceAny(c) == TRUE
\* Provider.VerifyIdentity: an id_token carries the nonce of the sign-in it
\* was made for; the userinfo answer does not.
NonceOK(c) == IdToken => cb[c].by = cb[c].r

\* ok is whether the key was found, in the cache or at the provider (jwksKey),
\* and the signature, issuer, audience, expiry and subject were good.
Verify(c, ok) == Advance(c, "token", ok /\ NonceOK(c), "known")

\* Three look-ups, each a statement of its own: whose identity this is, whether
\* that account may be used, whether the machine is still there.
Wants(c) == req[cb[c].r].machine
OAuthLookup(c) == Advance(c, "known", owns.person[cb[c].who] = Wants(c), "bound")
Get(c)         == Advance(c, "bound", Wants(c) \notin owns.disabled, "enabled")
GetMachine(c)  == Advance(c, "enabled", Wants(c) \notin owns.gone, "there")

\* bcrypt, and the row is inserted, whatever the look-ups would find by now.
CreateSSHGrant(c) ==
    /\ cb[c].pc = "there"
    /\ cb' = [cb EXCEPT ![c].pc = "granted"]
    /\ issued' = issued \cup
         {[r |-> cb[c].r, by |-> cb[c].by, late |-> cb[c].late,
           fit |-> /\ owns.person[cb[c].who] = Wants(c)
                   /\ Wants(c) \notin owns.disabled \cup owns.gone]}
    /\ UNCHANGED <<clock, pend, byState, req, prov, cli, owns, told, trouble>>

GrantFails(c) == Advance(c, "there", FALSE, "granted")

Publish(c) ==
    /\ cb[c].pc = "granted"
    /\ req' = [req EXCEPT ![cb[c].r].done = TRUE, ![cb[c].r].secret = TRUE]
    /\ End(c)
    /\ UNCHANGED <<clock, pend, byState, prov, cli, owns, told, issued, trouble>>

-----------------------------------------------------------------------------
(* handleOAuthResult and the command that polls it.                        *)

Answer(r) == IF r \notin Swept THEN "unknown"
             ELSE IF ~ req[r].done THEN "pending"
             ELSE IF req[r].failed THEN "failed" ELSE "approved"

\* Mutant of OneFinalAnswer: the request stays listed after its answer.
TakenKeep(r) == {}
\* A final answer is given once: the request goes with it.
Taken(r) == IF r \in Swept /\ req[r].done THEN {r} ELSE {}

\* A poll is sent, and the server finds that the machine's token is good.
Ask(r) ==
    /\ cli[r].pc = "poll" /\ clock <= cli[r].deadline
    /\ req[r].machine \notin owns.gone \cup owns.disabled
    /\ cli' = [cli EXCEPT ![r].pc = "asked"]
    /\ UNCHANGED <<clock, pend, byState, req, prov, cb, owns, told, issued, trouble>>

\* It is answered; a reply that is lost leaves the command polling.
Poll(r, lost) ==
    /\ cli[r].pc = "asked"
    /\ lost => trouble < MaxTrouble
    /\ trouble' = IF lost THEN trouble + 1 ELSE trouble
    /\ pend' = Swept \ Taken(r) /\ byState' = (byState \cap Swept) \ Taken(r)
    /\ told' = [told EXCEPT ![r] = IF Answer(r) \in {"failed", "approved"} THEN @ + 1 ELSE @]
    /\ cli' = IF lost \/ Answer(r) = "pending" THEN [cli EXCEPT ![r].pc = "poll"]
              ELSE [cli EXCEPT ![r].pc = "done", ![r].answer = Answer(r)]
    /\ UNCHANGED <<clock, req, prov, cb, owns, issued>>

\* The deadline, looked at before every poll: a server that cannot be reached
\* or refuses the machine does not end the wait before.
TimeOut(r) ==
    /\ cli[r].pc = "poll" /\ clock > cli[r].deadline
    /\ cli' = [cli EXCEPT ![r].pc = "done", ![r].answer = "timeout"]
    /\ UNCHANGED <<clock, pend, byState, req, prov, cb, owns, told, issued, trouble>>

Later ==
    /\ clock < MaxTime /\ clock' = clock + 1
    /\ prov' = [prov EXCEPT !.retry = IF @ > 0 THEN @ - 1 ELSE 0]
    /\ UNCHANGED <<pend, byState, req, cb, cli, owns, told, issued, trouble>>

\* Store.Remove: the account, its machine and its identities.
Without(m) ==
    [person   |-> [p \in Person |-> IF owns.person[p] = m THEN Unbound
                                   ELSE owns.person[p]],
     gone     |-> owns.gone \cup {m},
     disabled |-> owns.disabled \cup {m}]

\* An account is disabled or enabled, its machine or itself removed, an
\* identity unbound or bound.
Changes ==
    UNION {{[owns EXCEPT !.disabled = @ \cup {m}],
            [owns EXCEPT !.gone = @ \cup {m}], Without(m)} : m \in Machine}
    \cup {[owns EXCEPT !.disabled = @ \ {m}] : m \in Machine \ owns.gone}
    \cup {[owns EXCEPT !.person[p] = Unbound] : p \in Person}
    \cup {[owns EXCEPT !.person[p] = m] :
             p \in {q \in Person : owns.person[q] = Unbound},
             m \in Machine \ owns.gone}

\* The change takes away what callback c has looked at.
Undoes(new, c) ==
    \/ /\ cb[c].pc \in {"bound", "enabled", "there"}
       /\ owns.person[cb[c].who] # new.person[cb[c].who]
    \/ cb[c].pc \in {"enabled", "there"} /\ Wants(c) \in new.disabled
    \/ cb[c].pc = "there" /\ Wants(c) \in new.gone

\* An administrator changes something while a callback is under way.
Elsewhere ==
    /\ trouble < MaxTrouble /\ trouble' = trouble + 1
    /\ \E c \in Callback : cb[c] # Idle
    /\ \E new \in Changes \ {owns} :
         /\ owns' = new
         /\ cb' = [c \in Callback |->
                     IF Undoes(new, c) THEN [cb[c] EXCEPT !.late = TRUE] ELSE cb[c]]
    /\ UNCHANGED <<clock, pend, byState, req, prov, cli, told, issued>>

OAuthNext ==
    \/ \E r \in Req, m \in Machine : Request(r, m)
    \/ \E r \in Req, ok \in BOOLEAN : OpenLink(r, ok) \/ Poll(r, ok)
    \/ \E c \in Callback, r, q \in Req, p \in Person, ok \in BOOLEAN : Return(c, r, q, p, ok)
    \/ \E c \in Callback, r \in Req : ReturnRefused(c, r)
    \/ \E c \in Callback, ok \in BOOLEAN : Exchange(c, ok) \/ Verify(c, ok)
    \/ \E c \in Callback : OAuthLookup(c) \/ Get(c) \/ GetMachine(c)
    \/ \E c \in Callback : CreateSSHGrant(c) \/ GrantFails(c) \/ Publish(c)
    \/ \E r \in Req : Ask(r) \/ TimeOut(r)
    \/ Later \/ Elsewhere

OAuthSpec == OAuthInit /\ [][OAuthNext]_ovars

-----------------------------------------------------------------------------
(* Properties.                                                             *)

\* The command is told of an approval only if a grant was issued for its own
\* request, to somebody who, when the provider signs its answers, signed in for
\* this request; and when the row was inserted the person was bound to the
\* machine's account, and the account and the machine could be used - unless an
\* administrator took just that away after the callback had looked at it: what
\* was taken away before counts, however far the callback had come (oauth.go,
\* handleOAuthCallback: "the account may have been disabled, the machine
\* deleted: look again before issuing").
ApprovedIsEarned ==
    \A r \in Req : cli[r].answer = "approved" =>
       /\ \E g \in issued : g.r = r
       /\ \A g \in issued : g.r = r => /\ g.fit \/ g.late
                                       /\ IdToken => g.by = r

\* However many callbacks and polls race for one request, its outcome leaves
\* the server at most once, and the two tables agree on what is pending.
OneFinalAnswer ==
    /\ \A r \in Req : told[r] <= 1 /\ (told[r] = 1 => r \notin pend)
    /\ byState \subseteq pend /\ Cardinality(pend) <= PendMax
    /\ \A m \in Machine :
          Cardinality({r \in pend : req[r].machine = m}) <= PendPerMach

\* What the page says when a grant is issued, that its result is in the
\* terminal.  Not so: an earlier failure of a second callback hides it.
IssuedIsTold == \A r \in Req : cli[r].answer = "failed" => \A g \in issued : g.r # r

=============================================================================
