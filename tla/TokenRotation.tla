--------------------------- MODULE TokenRotation ---------------------------
(***************************************************************************)
(* The agent token of ONE machine, and everybody who moves it:             *)
(*   - the machine's row of the account database (token_enc and            *)
(*     pending_token_enc, internal/accounts/machines.go);                  *)
(*   - the refresh requests that stage, push, await and commit a new token *)
(*     (internal/server/rotate.go), several of which may run at once;      *)
(*   - the agent connections of the hub, which remember the token they     *)
(*     were accepted with (internal/server/hub.go, http.go);               *)
(*   - the sweep that shuts connections whose token is no longer good;     *)
(*   - MachineByToken, which the handshake, the sweep and the commands run *)
(*     on the machine all call: four statements and no transaction, so     *)
(*     that everything else may happen between any two of them;            *)
(*   - the agent: its token file, which survives a crash, and its current  *)
(*     and previous token, which do not (internal/client/client.go);       *)
(*   - the administrator: regen, disable/enable, and writing a             *)
(*     regenerated token into the token file.                              *)
(*                                                                         *)
(* Tokens are random 256-bit values, so a new one is simply one never used *)
(* before.  Encryption of the columns is deterministic and injective, so a *)
(* column is modelled by the token itself.                                 *)
(***************************************************************************)
EXTENDS Naturals, Sequences, FiniteSets

CONSTANTS
    Token,          \* agent tokens, numbered in the order of generation
    NoTok,          \* an empty column, an unset tokenState.prev
    Request,        \* refresh handlers, each runs once
    Conn,           \* agent connections, numbered in the order of acceptance
    NoConn,
    FaultKinds,     \* the disturbances a run allows
    MaxFault        \* bound: how many of them may happen in all

\* A network failure, a crash of the agent, a failed write of the token file,
\* machine token --regen, user set --disable / --enable.
AllFaultKinds == {"loss", "crash", "writeFail", "regen", "toggle"}

ASSUME TokenAssumption == Token \subseteq Nat /\ NoTok \notin Token
ASSUME ConnAssumption == Conn \subseteq Nat /\ NoConn \notin Conn
ASSUME RequestAssumption == {"dial", "sweep"} \cap Request = {}
ASSUME FaultAssumption ==
    FaultKinds \subseteq AllFaultKinds /\ MaxFault \in Nat

\* Who looks a token up: the handshake of the agent's dial, the sweep, and
\* the handlers of commands run on the machine.
Caller == Request \cup {"dial", "sweep"}

VARIABLES
    row,        \* the machines row: formal token and staged token
    disabled,   \* users.disabled of the owning account
    hub,        \* Hub.agents[name]: the connection registered for the machine
    conn,       \* the server's side of each connection
    pushed,     \* "token" frames under way to the agent, per connection
    acks,       \* replies under way to the server
    req,        \* the refresh handlers
    sweep,      \* the connection PruneInvalid has copied and not yet judged
    look,       \* the calls of MachineByToken under way
    file,       \* the agent's token file
    agent,      \* the agent process
    used,       \* every token generated so far
    faults,     \* disturbances so far
    written,    \* history: tokens the agent has had in its token file
    issued,     \* history: tokens handed to the administrator
    retired,    \* history: tokens that were good and no longer are
    calm        \* history: no staged token was ever overwritten, no regen or
                \*          disable has happened, and no good token has been
                \*          refused to an agent that remembers another one

db     == <<row, disabled>>
net    == <<conn, hub, pushed, acks>>
checks == <<sweep, look>>
past   == <<written, issued, retired, calm>>
vars   == <<row, disabled, hub, conn, pushed, acks, req, sweep, look, file,
            agent, used, faults, written, issued, retired, calm>>

-----------------------------------------------------------------------------
MaybeTok == Token \cup {NoTok}

Frame == [req : Request, tok : Token]
Ack   == [req : Request, conn : Conn, ok : BOOLEAN]

Row     == [tok : Token, pending : MaybeTok]
AgentConn == [st : {"unused", "hello", "up", "down"}, hi : BOOLEAN,
              token : MaybeTok]
\* Where a call of MachineByToken is: before the SELECT by token_enc, before
\* the SELECT by pending_token_enc, before the UPDATE, before the SELECT of
\* users.disabled.
Place  == {"none", "formal", "staged", "promote", "account"}
Lookup == [at : Place, tok : MaybeTok]
Refresh == [pc : {"idle", "lookup", "authed", "done"}, conn : {NoConn},
            tok : {NoTok}, reply : {"none"}]
           \cup
           [pc : {"staged", "waiting", "committed"}, conn : Conn, tok : Token,
            reply : {"none", "ok", "err", "closed"}]
Agent == [pc : {"off", "loop", "dialing", "rejected", "connected"},
          conn : Conn \cup {NoConn}, cur : MaybeTok, prev : MaybeTok]

TypeOK ==
    /\ row \in Row /\ disabled \in BOOLEAN
    /\ hub \in Conn \cup {NoConn} /\ conn \in [Conn -> AgentConn]
    /\ pushed \in [Conn -> Seq(Frame)] /\ acks \subseteq Ack
    /\ req \in [Request -> Refresh]
    /\ sweep \in Conn \cup {NoConn} /\ look \in [Caller -> Lookup]
    /\ file \in Token /\ agent \in Agent
    /\ agent.pc = "connected" => agent.conn \in Conn
    /\ used \subseteq Token /\ faults \in 0..MaxFault
    /\ written \subseteq Token /\ issued \subseteq Token
    /\ retired \subseteq Token /\ calm \in BOOLEAN

Local(pc) == [pc |-> pc, conn |-> NoConn, tok |-> NoTok, reply |-> "none"]
NoLookup == [at |-> "none", tok |-> NoTok]
Off     == [pc |-> "off", conn |-> NoConn, cur |-> NoTok, prev |-> NoTok]

Init ==
    \E t \in Token :
        /\ \A u \in Token : t <= u
        /\ row = [tok |-> t, pending |-> NoTok]
        /\ file = t
        /\ used = {t} /\ written = {t} /\ issued = {}
        /\ disabled = FALSE
        /\ hub = NoConn
        /\ conn = [c \in Conn |-> [st |-> "unused", hi |-> FALSE,
                                   token |-> NoTok]]
        /\ pushed = [c \in Conn |-> << >>]
        /\ acks = {}
        /\ req = [r \in Request |-> Local("idle")]
        /\ sweep = NoConn
        /\ look = [k \in Caller |-> NoLookup]
        /\ agent = Off
        /\ faults = 0
        /\ retired = {} /\ calm = TRUE

Spend(kind) ==
    /\ kind \in FaultKinds /\ faults < MaxFault
    /\ faults' = faults + 1

\* NewAgentToken: a token nobody has.
Fresh == {t \in Token \ used : \A u \in Token \ used : t <= u}

-----------------------------------------------------------------------------
(* The machines row.                                                       *)

Good(r) == {r.tok, r.pending} \ {NoTok}

\* (An operator whose comment begins "Mutant" is a plausible bug: no action
\* uses it; it stands in for the definition after it when a property is put
\* to the test.)

\* An empty column equals nothing.
Staged(t) == t # NoTok /\ t = row.pending

\* Mutant of Committed: the UPDATE has no "pending_token_enc = ?" condition
\* and copies whatever is staged.
CommittedWhateverStaged(t) ==
    IF row.pending # NoTok THEN [tok |-> row.pending, pending |-> NoTok]
                           ELSE row

\* Mutant of Committed: the token is set, staged or not.
CommittedAnyway(t) == [tok |-> t, pending |-> NoTok]

\* The UPDATE of CommitMachineToken, and that of MachineByToken: it matches
\* the staged token by value, so that it touches no row, which is no error,
\* when the token has been replaced or made the formal one meanwhile.
Committed(t) ==
    IF Staged(t) THEN [tok |-> t, pending |-> NoTok] ELSE row

\* Every change of the row goes through here, which keeps the history.
SetRow(new) ==
    /\ row' = new
    /\ retired' = retired \cup (Good(row) \ Good(new))

-----------------------------------------------------------------------------
(* MachineByToken: what the next statement of a call finds, and what the   *)
(* call answers.                                                           *)

\* The lookup of caller k starts with token t, or is over.
Lookups(k, l) == look' = [look EXCEPT ![k] = l]
Asks(t) == [at |-> "formal", tok |-> t]

\* SELECT ... WHERE token_enc = ?
SelectFormal(k) ==
    /\ look[k].at = "formal"
    /\ look' = [look EXCEPT ![k].at =
                   IF look[k].tok = row.tok THEN "account" ELSE "staged"]
    /\ UNCHANGED <<db, net, req, sweep, file, agent, used, faults, past>>

\* SELECT ... WHERE pending_token_enc = ?
SelectStaged(k) ==
    /\ look[k].at = "staged" /\ Staged(look[k].tok)
    /\ look' = [look EXCEPT ![k].at = "promote"]
    /\ UNCHANGED <<db, net, req, sweep, file, agent, used, faults, past>>

\* The staged token is made the formal one, before users.disabled is looked
\* at; the call goes on whether or not a row was touched.
Promote(k) ==
    /\ look[k].at = "promote"
    /\ SetRow(Committed(look[k].tok))
    /\ look' = [look EXCEPT ![k].at = "account"]
    /\ UNCHANGED <<disabled, net, req, sweep, file, agent, used, faults,
                   written, issued, calm>>

\* Mutant of Misses: a token that is only staged is not looked for.
MissesStaged(k) == \/ look[k].at = "staged"
                   \/ look[k].at = "account" /\ disabled

\* The call answers "not found": neither SELECT had the token, each at its
\* own time, or the account is disabled.
Misses(k) == \/ look[k].at = "staged" /\ ~Staged(look[k].tok)
             \/ look[k].at = "account" /\ disabled

Finds(k) == look[k].at = "account" /\ ~disabled

-----------------------------------------------------------------------------
(* Connections.                                                            *)

\* agentConn.shutdown: the read loop stops, and every handler still waiting
\* for a reply on this connection is told that it closed.  (conn' is left to
\* the caller.)
Shutdown(c) ==
    /\ req' = [r \in Request |->
                 IF req[r].pc = "waiting" /\ req[r].conn = c
                                        /\ req[r].reply = "none"
                   THEN [req[r] EXCEPT !.reply = "closed"] ELSE req[r]]
    /\ acks' = {m \in acks : m.conn # c}

\* handleAgent, the token found: the connection is upgraded.  An agent that
\* has given the dial up, or died, knows nothing of it; an answer lost on its
\* way is a dial given up just before.
Accept(c) ==
    /\ Finds("dial") /\ conn[c].st = "unused"
    /\ \A d \in Conn : conn[d].st = "unused" => c <= d
    /\ Lookups("dial", NoLookup)
    /\ conn' = [conn EXCEPT ![c] = [st |-> "hello",
                                   hi |-> agent.pc = "dialing",
                                   token |-> look["dial"].tok]]
    /\ agent' = IF agent.pc = "dialing"
                  THEN [agent EXCEPT !.pc = "connected", !.conn = c]
                  ELSE agent
    /\ UNCHANGED <<db, hub, pushed, acks, req, sweep, file, used, faults,
                   past>>

\* handleAgent answers 401.  (calm notes the answer when it is wrong and the
\* agent has a previous token to go back to.)
Reject ==
    /\ Misses("dial")
    /\ Lookups("dial", NoLookup)
    /\ IF agent.pc = "dialing"
         THEN /\ agent' = [agent EXCEPT !.pc = "rejected"]
              /\ calm' = (/\ calm
                          /\ \/ look["dial"].tok \notin Good(row)
                             \/ agent.prev = NoTok)
         ELSE UNCHANGED <<agent, calm>>
    /\ UNCHANGED <<db, net, req, sweep, file, used, faults, written, issued,
                   retired>>

\* The hello arrived: Hub.Attach registers the connection and shuts the one
\* it replaces.  Nothing looks the token up again.
Attach(c) ==
    /\ conn[c].st = "hello" /\ conn[c].hi
    /\ hub' = c
    /\ IF hub = NoConn
         THEN /\ conn' = [conn EXCEPT ![c].st = "up"]
              /\ UNCHANGED <<req, acks>>
         ELSE /\ conn' = [conn EXCEPT ![hub].st = "down", ![c].st = "up"]
              /\ Shutdown(hub)
    /\ UNCHANGED <<db, pushed, checks, file, agent, used, faults, past>>

\* No hello within agentHelloWait: the handler returns and closes.
HelloTimeout(c) ==
    /\ conn[c].st = "hello"
    /\ conn[c].hi => agent.conn # c
    /\ conn' = [conn EXCEPT ![c].st = "down"]
    /\ UNCHANGED <<db, hub, pushed, acks, req, checks, file, agent, used,
                   faults, past>>

\* The read loop fails: the agent's end is gone, or the network is.
ReadLoopFails(c) ==
    /\ conn[c].st = "up"
    /\ IF agent.conn = c THEN Spend("loss") ELSE UNCHANGED faults
    /\ conn' = [conn EXCEPT ![c].st = "down"]
    /\ Shutdown(c)
    /\ UNCHANGED <<db, hub, pushed, checks, file, agent, used, past>>

\* Mutant of Detach: the entry is deleted by machine name, whichever
\* connection it holds by now.
DetachByName(c) ==
    /\ conn[c].st = "down" /\ hub # NoConn
    /\ hub' = NoConn
    /\ UNCHANGED <<db, conn, pushed, acks, req, checks, file, agent, used,
                   faults, past>>

\* handleAgent after its read loop: Hub.Detach forgets this connection, and
\* only this one.
Detach(c) ==
    /\ conn[c].st = "down" /\ hub = c
    /\ hub' = NoConn
    /\ UNCHANGED <<db, conn, pushed, acks, req, checks, file, agent, used,
                   faults, past>>

\* PruneInvalid copies (connection, token) pairs under the hub's lock, and
\* looks the copied tokens up after it has released it.
SweepCopy ==
    /\ sweep = NoConn /\ hub # NoConn
    /\ sweep' = hub
    /\ Lookups("sweep", Asks(conn[hub].token))
    /\ UNCHANGED <<db, net, req, file, agent, used, faults, past>>

\* Mutant of SweepCheck: only a disabled account is revoked.
SweepCheckDisabledOnly ==
    /\ Finds("sweep") \/ Misses("sweep")
    /\ sweep' = NoConn /\ Lookups("sweep", NoLookup)
    /\ IF ~disabled
         THEN UNCHANGED <<conn, req, acks>>
         ELSE /\ conn' = [conn EXCEPT ![sweep].st = "down"]
              /\ Shutdown(sweep)
    /\ UNCHANGED <<db, hub, pushed, file, agent, used, faults, past>>

\* A connection whose token was not found is shut.
SweepCheck ==
    /\ Finds("sweep") \/ Misses("sweep")
    /\ sweep' = NoConn /\ Lookups("sweep", NoLookup)
    /\ IF Finds("sweep")
         THEN UNCHANGED <<conn, req, acks>>
         ELSE /\ conn' = [conn EXCEPT ![sweep].st = "down"]
              /\ Shutdown(sweep)
    /\ UNCHANGED <<db, hub, pushed, file, agent, used, faults, past>>

-----------------------------------------------------------------------------
(* A refresh request, handleTokenRefresh, for its target machine.          *)

\* Mutant of Finish: the waiter is not removed from the table.
FinishKeepsWaiter(r) == req' = [req EXCEPT ![r].pc = "done"]

\* The target's result (ok, offline, timeout, no-file, error) goes to the
\* caller; nothing of the handler is left.
Finish(r) == req' = [req EXCEPT ![r] = Local("done")]

\* The caller proves who it is with an agent token of the account: that of
\* another machine, or of this one, as read from its token file.
Authenticate(r) ==
    /\ req[r].pc = "idle"
    /\ \/ /\ ~disabled
          /\ req' = [req EXCEPT ![r] = Local("authed")]
          /\ UNCHANGED look
       \/ /\ req' = [req EXCEPT ![r] = Local("lookup")]
          /\ Lookups(r, Asks(file))
    /\ UNCHANGED <<db, net, sweep, file, agent, used, faults, past>>

\* The token was found, and Users.Verify accepts the password (it refuses a
\* disabled account).
Authed(r) ==
    /\ req[r].pc = "lookup" /\ Finds(r)
    /\ req' = [req EXCEPT ![r] = Local("authed")]
    /\ Lookups(r, NoLookup)
    /\ UNCHANGED <<db, net, sweep, file, agent, used, faults, past>>

\* The token was not found, or it was and the password is wrong.  (So ends
\* every other command of the machine that shows its token, too: status, the
\* login of a person, the enrolment of an authenticator.)
Denied(r) ==
    /\ req[r].pc = "lookup" /\ (Finds(r) \/ Misses(r))
    /\ Finish(r)
    /\ Lookups(r, NoLookup)
    /\ UNCHANGED <<db, net, sweep, file, agent, used, faults, past>>

\* Hub.Agent finds the connection and StageMachineToken stores the new token.
\* Nothing of what they read is changed by the other, so they are one step.
\* The connection's own token is not looked up again.
StageMachineToken(r) ==
    /\ req[r].pc = "authed" /\ hub # NoConn
    /\ \E t \in Fresh :
        /\ used' = used \cup {t}
        /\ SetRow([row EXCEPT !.pending = t])
        /\ req' = [req EXCEPT ![r] = [pc |-> "staged", conn |-> hub,
                                      tok |-> t, reply |-> "none"]]
    /\ calm' = (calm /\ row.pending = NoTok)
    /\ UNCHANGED <<disabled, net, checks, file, agent, faults,
                   written, issued>>

Offline(r) ==
    /\ req[r].pc = "authed" /\ hub = NoConn
    /\ Finish(r)
    /\ UNCHANGED <<db, net, checks, file, agent, used, faults, past>>

\* agentConn.rotateToken registers a waiter and sends the frame; sending on a
\* connection that is shut is an error, and the staged token stays.
RotateToken(r) ==
    /\ req[r].pc = "staged"
    /\ LET c == req[r].conn IN
        IF conn[c].st = "up"
          THEN /\ pushed' = [pushed EXCEPT ![c] =
                                Append(@, [req |-> r, tok |-> req[r].tok])]
               /\ req' = [req EXCEPT ![r].pc = "waiting"]
          ELSE /\ Finish(r)
               /\ UNCHANGED pushed
    /\ UNCHANGED <<db, hub, conn, acks, checks, file, agent, used, faults,
                   past>>

\* readLoop hands a reply to the waiter of its request, if it still waits.
Deliver(m) ==
    /\ m \in acks
    /\ acks' = acks \ {m}
    /\ IF req[m.req].pc = "waiting" /\ req[m.req].reply = "none"
         THEN req' = [req EXCEPT ![m.req].reply =
                                    IF m.ok THEN "ok" ELSE "err"]
         ELSE UNCHANGED req
    /\ UNCHANGED <<db, hub, conn, pushed, checks, file, agent, used, faults,
                   past>>

Refused(r) ==
    /\ req[r].pc = "waiting" /\ req[r].reply \in {"err", "closed"}
    /\ Finish(r)
    /\ UNCHANGED <<db, net, checks, file, agent, used, faults, past>>

\* Mutant of Timeout: the staged token is cleared, as "no ack, no change"
\* would suggest.
TimeoutUnstages(r) ==
    /\ req[r].pc = "waiting"
    /\ SetRow([row EXCEPT !.pending = NoTok])
    /\ Finish(r)
    /\ UNCHANGED <<disabled, net, checks, file, agent, used, faults, written,
                   issued, calm>>

\* rotateTimeout: a reply may sit in the waiter's buffer already.  Nothing is
\* undone: the staged token stays.
Timeout(r) ==
    /\ req[r].pc = "waiting"
    /\ Finish(r)
    /\ UNCHANGED <<db, net, checks, file, agent, used, faults, past>>

CommitMachineToken(r) ==
    /\ req[r].pc = "waiting" /\ req[r].reply = "ok"
    /\ SetRow(Committed(req[r].tok))
    /\ req' = [req EXCEPT ![r].pc = "committed"]
    /\ UNCHANGED <<disabled, net, checks, file, agent, used, faults,
                   written, issued, calm>>

\* agentConn.setToken on the connection the request has held all along.
SetToken(r) ==
    /\ req[r].pc = "committed"
    /\ conn' = [conn EXCEPT ![req[r].conn].token = req[r].tok]
    /\ Finish(r)
    /\ UNCHANGED <<db, hub, pushed, acks, checks, file, agent, used, faults,
                   past>>

-----------------------------------------------------------------------------
(* The agent.                                                              *)

\* A new process reads its token from the file.
Start ==
    /\ agent.pc = "off"
    /\ agent' = [Off EXCEPT !.pc = "loop", !.cur = file]
    /\ UNCHANGED <<db, net, req, checks, file, used, faults, past>>

\* The process dies: what it held in memory and what the network had for it
\* is lost, the file is not.
Crash ==
    /\ agent.pc # "off" /\ Spend("crash")
    /\ agent' = Off
    /\ pushed' = [c \in Conn |-> << >>]
    /\ UNCHANGED <<db, hub, conn, acks, req, checks, file, used, past>>

\* tokenState.reloadFrom, then dialOnce with the current token.  (A dial
\* waits here for the lookup of one that was given up; what that lookup may do
\* meanwhile, the lookup of a command does as well.)
Dial ==
    /\ agent.pc = "loop" /\ look["dial"] = NoLookup
    /\ agent' = [agent EXCEPT !.pc = "dialing", !.cur = file]
    /\ Lookups("dial", Asks(file))
    /\ UNCHANGED <<db, net, req, sweep, file, used, faults, past>>

\* The answer to the handshake does not come, or is lost.
DialFails ==
    /\ agent.pc = "dialing" /\ Spend("loss")
    /\ agent' = [agent EXCEPT !.pc = "loop"]
    /\ UNCHANGED <<db, net, req, checks, file, used, past>>

\* dialOnce returns because the connection is over; frames not read by then
\* are lost.
Disconnect ==
    /\ agent.pc = "connected"
    /\ IF conn[agent.conn].st = "down" THEN UNCHANGED faults ELSE Spend("loss")
    /\ agent' = [agent EXCEPT !.pc = "loop", !.conn = NoConn]
    /\ pushed' = [pushed EXCEPT ![agent.conn] = << >>]
    /\ UNCHANGED <<db, hub, conn, acks, req, checks, file, used, past>>

\* onToken: the token counts once it is in the file; then it becomes the
\* current one.  When the file cannot be written nothing changes.
OnToken ==
    /\ agent.pc = "connected" /\ pushed[agent.conn] # << >>
    /\ LET f == Head(pushed[agent.conn])
           reply(ok) == IF conn[agent.conn].st = "down" THEN {}
                        ELSE {[req |-> f.req, conn |-> agent.conn, ok |-> ok]}
       IN /\ pushed' = [pushed EXCEPT ![agent.conn] = Tail(@)]
          /\ \/ /\ file' = f.tok
                /\ written' = written \cup {f.tok}
                /\ agent' = [agent EXCEPT !.cur = f.tok,
                        !.prev = IF f.tok # agent.cur THEN agent.cur ELSE @]
                /\ acks' = acks \cup reply(TRUE)
                /\ UNCHANGED faults
             \/ /\ Spend("writeFail")
                /\ acks' = acks \cup reply(FALSE)
                /\ UNCHANGED <<file, written, agent>>
    /\ UNCHANGED <<db, hub, conn, req, checks, used, issued, retired, calm>>

\* Run after a 401: tokenState.fallback takes the previous token, once, and
\* writes it into the file; a failed write is only logged.
Fallback ==
    /\ agent.pc = "rejected"
    /\ IF agent.prev = NoTok
         THEN /\ agent' = [agent EXCEPT !.pc = "loop"]
              /\ UNCHANGED <<file, faults>>
         ELSE /\ agent' = [agent EXCEPT !.pc = "loop", !.cur = agent.prev,
                                        !.prev = NoTok]
              /\ \/ file' = agent.prev /\ UNCHANGED faults
                 \/ UNCHANGED file /\ Spend("writeFail")
    /\ UNCHANGED <<db, net, req, checks, used, past>>

-----------------------------------------------------------------------------
(* The administrator.                                                      *)

RegenMachineToken ==
    /\ Spend("regen")
    /\ \E t \in Fresh :
        /\ used' = used \cup {t} /\ issued' = issued \cup {t}
        /\ SetRow([tok |-> t, pending |-> NoTok])
    /\ calm' = FALSE
    /\ UNCHANGED <<disabled, net, req, checks, file, agent, written>>

\* The token shown by regen is written into the token file by hand.
InstallToken ==
    /\ row.tok \in issued /\ file # row.tok
    /\ file' = row.tok
    /\ written' = written \cup {row.tok}
    /\ UNCHANGED <<db, net, req, checks, agent, used, faults, issued,
                   retired, calm>>

SetDisabled ==
    /\ Spend("toggle")
    /\ disabled' = ~disabled
    /\ calm' = FALSE
    /\ UNCHANGED <<row, net, req, checks, file, agent, used, written, issued,
                   retired>>

-----------------------------------------------------------------------------
LookStep(k) == SelectFormal(k) \/ SelectStaged(k) \/ Promote(k)

ServerStep(c) == Accept(c) \/ Attach(c) \/ HelloTimeout(c)
                 \/ ReadLoopFails(c) \/ Detach(c)

Handler(r) == Authenticate(r) \/ Authed(r) \/ Denied(r)
              \/ StageMachineToken(r) \/ Offline(r)
              \/ RotateToken(r) \/ Refused(r) \/ Timeout(r)
              \/ CommitMachineToken(r) \/ SetToken(r)

AgentStep == Start \/ Crash \/ Dial \/ DialFails \/ Disconnect \/ OnToken
             \/ Fallback

AdminStep == RegenMachineToken \/ InstallToken \/ SetDisabled

Next ==
    \/ \E k \in Caller : LookStep(k)
    \/ \E c \in Conn : ServerStep(c)
    \/ Reject \/ SweepCopy \/ SweepCheck
    \/ \E r \in Request : Handler(r)
    \/ \E m \in acks : Deliver(m)
    \/ AgentStep
    \/ AdminStep

Spec == Init /\ [][Next]_vars

-----------------------------------------------------------------------------
(* Scheduling.  Goroutines run, timers fire, TCP delivers what it does not *)
(* lose, each end notices in bounded time that the other is gone (ping and *)
(* pong deadlines), the sweep ticks every 30 s, the agent's service        *)
(* manager restarts it and its loop dials for ever.  Nothing is assumed of *)
(* the administrator, of failures, or of the start of a request.           *)

AbandonedLoopFails(c) == agent.conn # c /\ ReadLoopFails(c)
ShutDisconnect ==
    /\ agent.pc = "connected" /\ conn[agent.conn].st = "down"
    /\ Disconnect

Fairness ==
    /\ \A k \in Caller : WF_vars(LookStep(k))
    /\ \A c \in Conn : /\ WF_vars(Attach(c)) /\ WF_vars(HelloTimeout(c))
                       /\ WF_vars(Detach(c)) /\ WF_vars(AbandonedLoopFails(c))
    /\ WF_vars(\E c \in Conn : Accept(c)) /\ WF_vars(Reject)
    /\ WF_vars(SweepCopy) /\ WF_vars(SweepCheck)
    /\ \A r \in Request :
         /\ WF_vars(Authed(r) \/ Denied(r))
         /\ WF_vars(StageMachineToken(r)) /\ WF_vars(RotateToken(r))
         /\ WF_vars(Refused(r)) /\ WF_vars(Timeout(r))
         /\ WF_vars(CommitMachineToken(r)) /\ WF_vars(SetToken(r))
    /\ WF_vars(\E m \in acks : Deliver(m))
    /\ WF_vars(Start) /\ WF_vars(Dial) /\ WF_vars(ShutDisconnect)
    /\ WF_vars(OnToken) /\ WF_vars(Fallback)

FairSpec == Spec /\ Fairness

-----------------------------------------------------------------------------
(* Properties.                                                             *)

\* Two-phase rotation: whatever overlaps, the formal token is one that was in
\* the agent's token file or that the administrator was given; a token that
\* was staged and never confirmed is never committed (rotate.go: "no ack, no
\* change"; CommitMachineToken's match by value).
FormalWasWritten == row.tok \in written \cup issued

\* A token that was good and is no longer good is never good again: a slow
\* handler, a late promotion or a late commit cannot bring back a token that
\* regen, a commit or a later staging has replaced (machines.go: regen makes
\* the old token void at once).
RetiredStaysRetired == retired \cap Good(row) = {}

\* A connection whose read loop runs is the one the hub has registered: the
\* sweep and a refresh reach it, and a replaced connection does not serve on
\* (Hub.Attach, Hub.Detach by connection, not by name).
LiveIsRegistered == \A c \in Conn : conn[c].st = "up" => hub = c

\* The split brain heals, where the code can heal it: the token file holds a
\* token the server takes, whatever acks, connections, processes and file
\* writes were lost and whoever looked the token up meanwhile, unless one of
\* the things has happened that calm excludes.  Not even a restart of the
\* agent, which forgets its previous token, locks the machine out (machines.go,
\* StageMachineToken and MachineByToken).  The exclusions are needed: see
\* AgentHoldsGoodToken.
CalmFileIsGood == calm => file \in Good(row)

\* The same promise as the code states it, without the exclusions: unless the
\* administrator regenerated the token, the agent still has a good token
\* somewhere (file, current, previous).  Not so, in three ways: a second
\* refresh stages another token over one that is in the file already; a
\* disabled account answers 401 as a stale token does, and the agent goes back
\* to its previous, void token; and so it does when its staged token is
\* committed between the two SELECTs of its lookup, which then finds it in
\* neither column.
AgentHoldsGoodToken ==
    issued = {} => {file, agent.cur, agent.prev} \cap Good(row) # {}

Online == agent.pc = "connected" /\ conn[agent.conn].st = "up"

\* And it heals in fact: as long as calm lasts the machine is always online
\* again some time later.
SelfHeals == []calm => []<>Online

\* Revocation reaches connected agents: a connection whose remembered token
\* is void, or whose account is disabled, is shut unless that changes
\* (server.go, revokeLoop and PruneInvalid).
Revoked == \E c \in Conn : /\ conn[c].st = "up"
                           /\ disabled \/ conn[c].token \notin Good(row)
RevocationTakesEffect == Revoked ~> ~Revoked
=============================================================================
