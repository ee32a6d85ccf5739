---------------------------- MODULE HubSessions ----------------------------
(***************************************************************************)
(* The sessions that share ONE agent connection, end to end:               *)
(*   - the SSH handlers of the server, which open a session, wait for the  *)
(*     agent, carry bytes both ways and report the exit code               *)
(*     (internal/server/ssh.go, hub.go: openShell, waitReady, pipe);       *)
(*   - the connection's read loop, the one goroutine that hands the frames *)
(*     of all sessions out (hub.go, readLoop);                             *)
(*   - the agent: its own read loop, its session table, a process per      *)
(*     session, and the goroutines that feed it and reap it                *)
(*     (internal/client/client.go).                                        *)
(*                                                                         *)
(* Output chunks and input items are counted, not spelled out: both        *)
(* directions are FIFO.  An exit code is "own" when the process ended by   *)
(* itself, "killed" when the agent killed it, 255 when nobody knows.       *)
(***************************************************************************)
EXTENDS Naturals, Sequences, FiniteSets

CONSTANTS
    Session,        \* SSH sessions to this machine
    Pty,            \* those that asked for a terminal
    Slow,           \* those whose client may stop reading for good
    Typing,         \* bound: those whose client types, or closes its stdin
    Leaving,        \* bound: those whose client may go away
    MaxSessions,    \* Hub.maxSessions
    BufLen,         \* capacity of session.ch (64)
    QueueLen,       \* sessionInputLen (64)
    NetLen,         \* bound: frames the connection holds towards the server
    MaxOut,         \* bound: chunks each process writes
    MaxIn,          \* bound: items a client types
    Failures        \* whether the network may fail

ASSUME SessionAssumption == 
    /\ Pty \subseteq Session /\ Slow \subseteq Session
    /\ Typing \subseteq Session /\ Leaving \subseteq Session
ASSUME BoundAssumption ==
    /\ MaxSessions \in Nat \ {0} /\ BufLen \in Nat \ {0}
    /\ QueueLen \in Nat \ {0} /\ NetLen \in Nat \ {0}
    /\ MaxOut \in [Session -> Nat] /\ MaxIn \in Nat /\ Failures \in BOOLEAN

VARIABLES
    srvUp,      \* the server's side of the connection: done is not closed
    agtUp,      \* the agent's side: agent.loop runs
    lost,       \* history: the network has failed
    table,      \* agentConn.sessions
    srv,        \* handler and session struct, per session
    client,     \* the SSH client, and what it has been told
    toAgent,    \* frames under way
    toServer,
    sess,       \* agent.sess: the sessions the agent can find
    inq,        \* sessionEntry.in
    proc,       \* the processes
    stalled     \* history: sessions removed for not being read

vars == <<srvUp, agtUp, lost, table, srv, client, toAgent, toServer, sess,
          inq, proc, stalled>>
server == <<srvUp, table, srv, stalled>>
machine == <<agtUp, sess, inq, proc>>

-----------------------------------------------------------------------------
Code == {"own", "killed", "255"}

ToAgent  == [t : {"open", "data", "eof", "close"}, s : Session]
ToServer == [t : {"ok", "err", "data"}, s : Session]
            \cup [t : {"close"}, s : Session, code : Code]

Handler == [pc : {"idle", "found", "added", "waiting", "piping", "closing",
                  "done"},
            ready : {"none", "ok", "err"},
            closed : BOOLEAN, code : Code,
            buf : 0..BufLen,            \* chunks in session.ch
            hand : BOOLEAN]             \* pipe is inside w.Write
Client  == [st : {"here", "hungup", "left"},
            typed : 0..MaxIn, eof : BOOLEAN,
            shown : Nat,
            told : Code \cup {"none", "refused", "unready", "closed"}]
Process == [st : {"none", "failed", "running", "exited", "killed"},
            reaped : BOOLEAN, made : Nat, fed : 0..MaxIn,
            eof : BOOLEAN,              \* pumpInput has closed its stdin
            shut : {"no", "taken", "closed", "killed"},     \* where Close is
            full : BOOLEAN]             \* called over a full input queue

TypeOK ==
    /\ srvUp \in BOOLEAN /\ agtUp \in BOOLEAN /\ lost \in BOOLEAN
    /\ table \subseteq Session /\ sess \subseteq Session
    /\ stalled \subseteq Session
    /\ srv \in [Session -> Handler] /\ client \in [Session -> Client]
    /\ proc \in [Session -> Process]
    /\ toAgent \in Seq(ToAgent)
    /\ toServer \in Seq(ToServer) /\ Len(toServer) <= NetLen
    /\ inq \in [Session -> Seq({"data", "eof"})]

Init ==
    /\ srvUp = TRUE /\ agtUp = TRUE /\ lost = FALSE
    /\ table = {} /\ sess = {} /\ stalled = {}
    /\ srv = [s \in Session |->
                [pc |-> "idle", ready |-> "none", closed |-> FALSE,
                 code |-> "255", buf |-> 0, hand |-> FALSE]]
    /\ client = [s \in Session |->
                [st |-> "here", typed |-> 0, eof |-> FALSE, shown |-> 0,
                 told |-> "none"]]
    /\ proc = [s \in Session |->
                [st |-> "none", reaped |-> FALSE, made |-> 0, fed |-> 0,
                 eof |-> FALSE, shut |-> "no", full |-> FALSE]]
    /\ toAgent = << >> /\ toServer = << >>
    /\ inq = [s \in Session |-> << >>]

-----------------------------------------------------------------------------
(* Both ends write frames; a frame to an end that is gone is lost.         *)

ServerSends(t, s) ==
    toAgent' = IF srvUp /\ agtUp THEN Append(toAgent, [t |-> t, s |-> s])
                                 ELSE toAgent

\* agent.send blocks while the connection is full (until AgentWriteTimeout).
AgentSends(f) ==
    /\ srvUp /\ agtUp => Len(toServer) < NetLen
    /\ toServer' = IF srvUp /\ agtUp THEN Append(toServer, f) ELSE toServer

\* removeSession: once out of the table, session.closed is closed.
Removed(s) ==
    IF s \in table THEN [srv EXCEPT ![s].closed = TRUE] ELSE srv

Tell(s, what) ==
    client' = IF client[s].st = "here"
                THEN [client EXCEPT ![s].told = what] ELSE client

-----------------------------------------------------------------------------
(* The handler, handleSSH.                                                 *)

\* Hub.Agent and agentCredentialValid: the machine is online.
Find(s) ==
    /\ srv[s].pc = "idle" /\ srvUp
    /\ srv' = [srv EXCEPT ![s].pc = "found"]
    /\ UNCHANGED <<srvUp, lost, table, client, toAgent, toServer, machine,
                   stalled>>

\* The machine is offline, or the session limit is reached.
Refuse(s) ==
    /\ \/ srv[s].pc = "idle" /\ ~srvUp
       \/ srv[s].pc = "found" /\ Cardinality(table) >= MaxSessions
    /\ srv' = [srv EXCEPT ![s].pc = "done"]
    /\ Tell(s, "refused")
    /\ UNCHANGED <<srvUp, lost, table, toAgent, toServer, machine, stalled>>

\* addSession; the connection may have been shut since Find.
AddSession(s) ==
    /\ srv[s].pc = "found" /\ Cardinality(table) < MaxSessions
    /\ srv' = [srv EXCEPT ![s].pc = "added"]
    /\ table' = table \cup {s}
    /\ UNCHANGED <<srvUp, lost, client, toAgent, toServer, machine, stalled>>

\* The rest of openShell: when the frame cannot be sent the session is
\* removed again.
SendOpen(s) ==
    /\ srv[s].pc = "added"
    /\ ServerSends("open", s)
    /\ IF srvUp
         THEN /\ srv' = [srv EXCEPT ![s].pc = "waiting"]
              /\ UNCHANGED <<table, client>>
         ELSE /\ srv' = [Removed(s) EXCEPT ![s].pc = "done"]
              /\ table' = table \ {s}
              /\ Tell(s, "refused")
    /\ UNCHANGED <<srvUp, lost, toServer, machine, stalled>>

\* waitReady's select takes any of the cases that are ready.
Ready(s) ==
    /\ srv[s].pc = "waiting" /\ srv[s].ready = "ok"
    /\ srv' = [srv EXCEPT ![s].pc = "piping"]
    /\ UNCHANGED <<srvUp, lost, table, client, toAgent, toServer, machine,
                   stalled>>

\* (An operator whose comment begins "Mutant" is a plausible bug: no action
\* uses it; it stands in for the definition after it when a property is put
\* to the test.)

\* Mutant of NotReady: no close frame after a failed waitReady.
NotReadySilently(s, why) ==
    /\ srv[s].pc = "waiting"
    /\ Tell(s, why)
    /\ srv' = [Removed(s) EXCEPT ![s].pc = "done"]
    /\ table' = table \ {s}
    /\ UNCHANGED <<srvUp, lost, toAgent, toServer, machine, stalled>>

\* handleSSH after a failed waitReady: tell the client, send close (the
\* agent's ok may only be late), remove the session.
NotReady(s, why) ==
    /\ srv[s].pc = "waiting"
    /\ Tell(s, why)
    /\ ServerSends("close", s)
    /\ srv' = [Removed(s) EXCEPT ![s].pc = "done"]
    /\ table' = table \ {s}
    /\ UNCHANGED <<srvUp, lost, toServer, machine, stalled>>

ReadyErr(s)     == srv[s].ready = "err" /\ NotReady(s, "unready")
ReadyClosed(s)  == srv[s].closed /\ NotReady(s, "closed")
ReadyTimeout(s) == NotReady(s, "unready")

\* pipe takes a chunk, in its loop or while it drains, and writes it.
Take(s) ==
    /\ srv[s].pc = "piping" /\ ~srv[s].hand /\ srv[s].buf > 0
    /\ srv' = [srv EXCEPT ![s].hand = TRUE, ![s].buf = @ - 1]
    /\ UNCHANGED <<srvUp, lost, table, client, toAgent, toServer, machine,
                   stalled>>

\* w.Write returns when the client has read: nothing else ends it.
ClientReads(s) ==
    /\ srv[s].hand /\ client[s].st = "here"
    /\ srv' = [srv EXCEPT ![s].hand = FALSE]
    /\ client' = [client EXCEPT ![s].shown = @ + 1]
    /\ UNCHANGED <<srvUp, lost, table, toAgent, toServer, machine, stalled>>

\* Mutant of PipeEnds: the buffer is not drained once session.closed is.
PipeEndsUndrained(s) ==
    /\ srv[s].pc = "piping"
    /\ \/ srv[s].hand /\ client[s].st # "here"
       \/ ~srv[s].hand /\ srv[s].closed
       \/ ~srv[s].hand /\ client[s].st = "left"
    /\ srv' = [srv EXCEPT ![s].pc = "closing", ![s].hand = FALSE]
    /\ UNCHANGED <<srvUp, lost, table, client, toAgent, toServer, machine,
                   stalled>>

\* The ways out of pipe's loop: w.Write fails, session.closed with nothing
\* left in the buffer, clientDone.
PipeEnds(s) ==
    /\ srv[s].pc = "piping"
    /\ \/ srv[s].hand /\ client[s].st # "here"
       \/ ~srv[s].hand /\ srv[s].closed /\ srv[s].buf = 0
       \/ ~srv[s].hand /\ client[s].st = "left"
    /\ srv' = [srv EXCEPT ![s].pc = "closing", ![s].hand = FALSE]
    /\ UNCHANGED <<srvUp, lost, table, client, toAgent, toServer, machine,
                   stalled>>

\* pipe's deferred close, and handleSSH's Exit with the session's code.
Finish(s) ==
    /\ srv[s].pc = "closing"
    /\ ServerSends("close", s)
    /\ srv' = [Removed(s) EXCEPT ![s].pc = "done"]
    /\ table' = table \ {s}
    /\ Tell(s, srv[s].code)
    /\ UNCHANGED <<srvUp, lost, toServer, machine, stalled>>

-----------------------------------------------------------------------------
(* The client, and pipe's input goroutine.                                 *)

Piping(s) == srv[s].pc \in {"piping", "closing"} /\ ~client[s].eof

\* The client types; when sendData fails the session is removed and the
\* goroutine ends.
Type(s) ==
    /\ s \in Typing /\ Piping(s)
    /\ client[s].st = "here" /\ client[s].typed < MaxIn
    /\ IF srvUp
         THEN /\ ServerSends("data", s)
              /\ client' = [client EXCEPT ![s].typed = @ + 1]
              /\ UNCHANGED <<srv, table>>
         ELSE /\ client' = [client EXCEPT ![s].eof = TRUE]
              /\ srv' = Removed(s) /\ table' = table \ {s}
              /\ UNCHANGED toAgent
    /\ UNCHANGED <<srvUp, lost, toServer, machine, stalled>>

\* The client closes its stdin.  Without a terminal the process is told; with
\* one, probeClosed finds the channel alive and nothing happens.
CloseStdin(s) ==
    /\ s \in Typing /\ Piping(s) /\ client[s].st = "here"
    /\ client' = [client EXCEPT ![s].eof = TRUE]
    /\ IF s \in Pty THEN UNCHANGED toAgent ELSE ServerSends("eof", s)
    /\ UNCHANGED <<server, lost, toServer, machine>>

\* The client closes the channel, or the whole connection, while its handler
\* runs.
Handled(s) == srv[s].pc \notin {"idle", "done"}

HangUp(s) ==
    /\ s \in Leaving /\ Handled(s) /\ client[s].st = "here"
    /\ client' = [client EXCEPT ![s].st = "hungup"]
    /\ UNCHANGED <<server, lost, toAgent, toServer, machine>>

Leave(s) ==
    /\ s \in Leaving /\ Handled(s) /\ client[s].st # "left"
    /\ client' = [client EXCEPT ![s].st = "left"]
    /\ UNCHANGED <<server, lost, toAgent, toServer, machine>>

\* in.Read ends because the channel is gone: the probe fails now, and a
\* terminal session is removed.
InputEnds(s) ==
    /\ Piping(s) /\ client[s].st # "here"
    /\ client' = [client EXCEPT ![s].eof = TRUE]
    /\ IF s \in Pty
         THEN /\ srv' = Removed(s) /\ table' = table \ {s}
              /\ UNCHANGED toAgent
         ELSE /\ ServerSends("eof", s)
              /\ UNCHANGED <<srv, table>>
    /\ UNCHANGED <<srvUp, lost, toServer, machine, stalled>>

-----------------------------------------------------------------------------
(* agentConn.readLoop, one frame at a time, for all sessions.              *)

IsNext(q, t, s) == q # << >> /\ Head(q).t = t /\ Head(q).s = s

\* The value a full ready channel keeps.
Signalled(s, v) == IF srv[s].ready = "none" THEN v ELSE srv[s].ready

ReadUnknown ==
    /\ srvUp /\ toServer # << >> /\ Head(toServer).s \notin table
    /\ toServer' = Tail(toServer)
    /\ UNCHANGED <<server, lost, client, toAgent, machine>>

ReadOK(s) ==
    /\ srvUp /\ s \in table /\ IsNext(toServer, "ok", s)
    /\ toServer' = Tail(toServer)
    /\ srv' = [srv EXCEPT ![s].ready = Signalled(s, "ok")]
    /\ UNCHANGED <<srvUp, table, lost, client, toAgent, machine, stalled>>

\* Mutant of ReadData: session.ch is not bounded.
ReadDataUnbounded(s) ==
    /\ srvUp /\ s \in table /\ IsNext(toServer, "data", s)
    /\ toServer' = Tail(toServer)
    /\ srv' = [srv EXCEPT ![s].buf = @ + 1]
    /\ UNCHANGED <<srvUp, table, lost, client, toAgent, machine, stalled>>

\* With session.ch full the loop waits, and every other session with it.
ReadData(s) ==
    /\ srvUp /\ s \in table /\ IsNext(toServer, "data", s)
    /\ srv[s].buf < BufLen
    /\ toServer' = Tail(toServer)
    /\ srv' = [srv EXCEPT ![s].buf = @ + 1]
    /\ UNCHANGED <<srvUp, table, lost, client, toAgent, machine, stalled>>

\* Mutant of Stall: no timer, the loop waits until the client reads.
NoStall(s) == s \in Session /\ FALSE

\* sessStallTimeout: the session is given up, the loop goes on.
Stall(s) ==
    /\ srvUp /\ s \in table /\ IsNext(toServer, "data", s)
    /\ srv[s].buf = BufLen
    /\ toServer' = Tail(toServer)
    /\ srv' = Removed(s) /\ table' = table \ {s}
    /\ stalled' = stalled \cup {s}
    /\ UNCHANGED <<srvUp, lost, client, toAgent, machine>>

ReadErr(s) ==
    /\ srvUp /\ s \in table /\ IsNext(toServer, "err", s)
    /\ toServer' = Tail(toServer)
    /\ srv' = [Removed(s) EXCEPT ![s].ready = Signalled(s, "err")]
    /\ table' = table \ {s}
    /\ UNCHANGED <<srvUp, lost, client, toAgent, machine, stalled>>

ReadClose(s) ==
    /\ srvUp /\ s \in table /\ IsNext(toServer, "close", s)
    /\ toServer' = Tail(toServer)
    /\ srv' = [Removed(s) EXCEPT ![s].code = Head(toServer).code]
    /\ table' = table \ {s}
    /\ UNCHANGED <<srvUp, lost, client, toAgent, machine, stalled>>

\* shutdown and closeAll: the read loop has failed, or a ping did, or the
\* connection was replaced or revoked.
Shutdown ==
    /\ srvUp
    /\ IF agtUp THEN Failures /\ lost' = TRUE ELSE UNCHANGED lost
    /\ srvUp' = FALSE
    /\ srv' = [s \in Session |->
                 IF s \in table THEN [srv[s] EXCEPT !.closed = TRUE]
                                ELSE srv[s]]
    /\ table' = {} /\ toServer' = << >>
    /\ UNCHANGED <<client, toAgent, machine, stalled>>

-----------------------------------------------------------------------------
(* The agent.                                                              *)

\* sessionEntry.Close, called by the agent's loop for a session it has taken
\* from the table, and by closeAll when the loop has ended: one session after
\* the other, and the loop reads nothing meanwhile.
Busy == \E s \in Session : proc[s].shut # "no"

\* From then on the process reads the end of its input, whatever is still
\* queued, and may end by itself.  A terminal's stdin stays as it is.
Cut(s) == proc[s].shut = "closed" /\ s \notin Pty

TakeSession(s, full) ==
    /\ sess' = sess \ {s}
    /\ proc' = [proc EXCEPT ![s].shut = "taken", ![s].full = full]

\* done is closed, and the process's stdin.
CutInput(s) ==
    /\ proc[s].shut = "taken"
    /\ proc' = [proc EXCEPT ![s].shut = "closed"]
    /\ UNCHANGED <<server, lost, client, toAgent, toServer, agtUp, sess, inq>>

\* killProc, or killSession: what still runs is killed.
Kill(s) ==
    /\ proc[s].shut = "closed"
    /\ proc' = [proc EXCEPT
                  ![s].st = IF @ = "running" THEN "killed" ELSE @,
                  ![s].shut = IF proc[s].full THEN "killed" ELSE "no"]
    /\ UNCHANGED <<server, lost, client, toAgent, toServer, agtUp, sess, inq>>

\* The rest of pushInput: the server is told of the queue that was full.
TellFull(s) ==
    /\ proc[s].shut = "killed"
    /\ proc' = [proc EXCEPT ![s].shut = "no", ![s].full = FALSE]
    /\ AgentSends([t |-> "err", s |-> s])
    /\ UNCHANGED <<server, lost, client, toAgent, agtUp, sess, inq>>

CloseAll(s) ==
    /\ ~agtUp /\ ~Busy /\ s \in sess
    /\ TakeSession(s, FALSE)
    /\ UNCHANGED <<server, lost, client, toAgent, toServer, agtUp, inq>>

\* agent.openShell: the session is in the table, and its process runs, before
\* the next frame is read.
Open(s) ==
    /\ agtUp /\ ~Busy /\ IsNext(toAgent, "open", s)
    /\ toAgent' = Tail(toAgent)
    /\ \/ /\ AgentSends([t |-> "ok", s |-> s])
          /\ sess' = sess \cup {s}
          /\ proc' = [proc EXCEPT ![s].st = "running"]
       \/ /\ AgentSends([t |-> "err", s |-> s])
          /\ proc' = [proc EXCEPT ![s].st = "failed"]
          /\ UNCHANGED sess
    /\ UNCHANGED <<server, lost, client, agtUp, inq>>

\* Mutant of Input: onEOF closes the process's stdin past the queue.
InputEofAtOnce(s) ==
    /\ agtUp /\ ~Busy /\ toAgent # << >>
    /\ Head(toAgent).s = s /\ Head(toAgent).t \in {"data", "eof"}
    /\ toAgent' = Tail(toAgent)
    /\ IF s \in sess /\ Head(toAgent).t = "eof"
         THEN proc' = [proc EXCEPT ![s].eof = TRUE] /\ UNCHANGED inq
         ELSE inq' = [inq EXCEPT ![s] = Append(@, "data")] /\ UNCHANGED proc
    /\ UNCHANGED <<server, lost, client, toServer, agtUp, sess>>

\* pushInput: a frame for a session the table does not hold is ignored, and
\* a full queue ends the session; the frame is lost.
Input(s) ==
    /\ agtUp /\ ~Busy /\ toAgent # << >>
    /\ Head(toAgent).s = s /\ Head(toAgent).t \in {"data", "eof"}
    /\ toAgent' = Tail(toAgent)
    /\ \/ /\ s \notin sess
          /\ UNCHANGED <<sess, inq, proc>>
       \/ /\ s \in sess /\ Len(inq[s]) < QueueLen
          /\ inq' = [inq EXCEPT ![s] = Append(@, Head(toAgent).t)]
          /\ UNCHANGED <<sess, proc>>
       \/ /\ s \in sess /\ Len(inq[s]) = QueueLen
          /\ TakeSession(s, TRUE)
          /\ UNCHANGED inq
    /\ UNCHANGED <<server, lost, client, toServer, agtUp>>

Close(s) ==
    /\ agtUp /\ ~Busy /\ IsNext(toAgent, "close", s)
    /\ toAgent' = Tail(toAgent)
    /\ IF s \in sess THEN TakeSession(s, FALSE)
                     ELSE UNCHANGED <<sess, proc>>
    /\ UNCHANGED <<server, lost, client, toServer, agtUp, inq>>

\* pumpInput: the process takes what is next, until its stdin is closed; a
\* terminal has no eof.
PumpInput(s) ==
    /\ proc[s].st = "running" /\ ~Cut(s) /\ inq[s] # << >>
    /\ inq' = [inq EXCEPT ![s] = Tail(@)]
    /\ proc' = IF Head(inq[s]) = "data"
                 THEN [proc EXCEPT ![s].fed = @ + 1]
                 ELSE [proc EXCEPT ![s].eof = TRUE]
    /\ UNCHANGED <<server, lost, client, toAgent, toServer, agtUp, sess>>

Output(s) ==
    /\ agtUp /\ proc[s].st = "running" /\ proc[s].made < MaxOut[s]
    /\ proc' = [proc EXCEPT ![s].made = @ + 1]
    /\ AgentSends([t |-> "data", s |-> s])
    /\ UNCHANGED <<server, lost, client, toAgent, agtUp, sess, inq>>

Exit(s) ==
    /\ proc[s].st = "running"
    /\ proc' = [proc EXCEPT ![s].st = "exited"]
    /\ UNCHANGED <<server, lost, client, toAgent, toServer, agtUp, sess, inq>>

\* The goroutine behind cmd.Wait (p.Read and p.Wait with a terminal): all the
\* output has been sent; take the session, send close with the code.
Reap(s) ==
    /\ proc[s].st \in {"exited", "killed"} /\ ~proc[s].reaped
    /\ proc' = [proc EXCEPT ![s].reaped = TRUE]
    /\ sess' = sess \ {s}
    /\ AgentSends([t |-> "close", s |-> s,
                   code |-> IF proc[s].st = "exited" THEN "own" ELSE "killed"])
    /\ UNCHANGED <<server, lost, client, toAgent, agtUp, inq>>

\* Mutant of LoopEnds: no closeAll, the processes are left to themselves.
LoopEndsNoCloseAll ==
    /\ agtUp' = FALSE
    /\ sess' = {} /\ toAgent' = << >>
    /\ UNCHANGED <<server, client, toServer, inq, proc>>

\* agent.loop returns; closeAll follows.
LoopEnds ==
    /\ agtUp' = FALSE
    /\ toAgent' = << >>
    /\ UNCHANGED <<server, client, toServer, sess, inq, proc>>

Disconnect ==
    /\ agtUp /\ LoopEnds
    /\ IF srvUp THEN Failures /\ lost' = TRUE ELSE UNCHANGED lost

\* A write the server has not read within WriteWait breaks the connection for
\* good, and the next ping ends it: nobody reads while the server's loop waits
\* for a session whose client does not.
Blocked == /\ srvUp /\ Len(toServer) = NetLen
           /\ \E s \in table : /\ IsNext(toServer, "data", s)
                              /\ srv[s].buf = BufLen

AgentWriteTimeout ==
    /\ agtUp /\ Blocked /\ LoopEnds
    /\ UNCHANGED lost

-----------------------------------------------------------------------------
HandlerStep(s) ==
    Find(s) \/ Refuse(s) \/ AddSession(s) \/ SendOpen(s) \/ Ready(s)
    \/ ReadyErr(s) \/ ReadyClosed(s) \/ ReadyTimeout(s)
    \/ Take(s) \/ PipeEnds(s) \/ Finish(s)
ReadLoop ==
    \/ ReadUnknown
    \/ \E s \in Session : ReadOK(s) \/ ReadData(s) \/ ReadErr(s)
                          \/ ReadClose(s)
ClientStep(s) ==
    ClientReads(s) \/ Type(s) \/ CloseStdin(s) \/ HangUp(s) \/ Leave(s)
CloseStep(s) == CutInput(s) \/ Kill(s) \/ TellFull(s) \/ CloseAll(s)
AgentLoop == \E s \in Session : \/ Open(s) \/ Input(s) \/ Close(s)
                               \/ CloseStep(s)

Next ==
    \/ \E s \in Session : \/ HandlerStep(s) \/ ClientStep(s) \/ InputEnds(s)
                          \/ Stall(s) \/ Output(s) \/ Exit(s) \/ Reap(s)
                          \/ PumpInput(s)
    \/ ReadLoop \/ AgentLoop
    \/ Shutdown \/ Disconnect \/ AgentWriteTimeout

Spec == Init /\ [][Next]_vars

\* Goroutines run, the network delivers, timers fire, each end notices in
\* bounded time that the other is gone.  A client that is not slow reads; no
\* client has to type or to leave, no process has to write or to end.
Fairness ==
    /\ \A s \in Session :
         /\ WF_vars(HandlerStep(s)) /\ WF_vars(InputEnds(s))
         /\ WF_vars(Stall(s)) /\ WF_vars(Reap(s))
    /\ \A s \in Session \ Slow : WF_vars(ClientReads(s))
    /\ WF_vars(ReadLoop) /\ WF_vars(AgentLoop)
    /\ WF_vars(~agtUp /\ Shutdown) /\ WF_vars(~srvUp /\ Disconnect)

FairSpec == Spec /\ Fairness

-----------------------------------------------------------------------------
(* Properties.                                                             *)

\* The client is given the process's own code only when the process ended by
\* itself, and then it has been given all the output: neither a lost
\* connection nor a kill nor the end of the session in the middle of the
\* output can look like success (hub.go, addSession: the code starts as 255;
\* pipe drains the buffer after session.closed).  Of the input it says
\* nothing: a process may end by itself between CutInput and Kill.
OwnCodeMeansComplete ==
    \A s \in Session : client[s].told = "own" =>
        proc[s].st = "exited" /\ client[s].shown = proc[s].made

\* As long as a session lasts, its process sees the end of its input only
\* after all of it: no item is lost between open and eof, not when data follows
\* open at once, and not when the queue is full (client.go, openShell runs in
\* the read loop; pushInput ends the session rather than skip a frame).  An
\* earlier end comes only from Close, which closes stdin before it kills: when
\* the server has ended the session, the connection is gone, or the queue was
\* full.
EofMeansComplete == \A s \in Session :
    proc[s].eof \/ Cut(s) =>
        \/ proc[s].fed = client[s].typed
        \/ ~proc[s].eof /\ (srv[s].pc = "done" \/ ~agtUp \/ proc[s].full)

\* No process is out of reach: whatever runs is in the agent's table, where a
\* close frame or closeAll finds it, or is being closed.
RunningIsReachable == \A s \in Session :
    proc[s].st = "running" =>
        s \in sess \/ proc[s].shut \in {"taken", "closed"}

\* One slow client does not hold up another session for good: a client that
\* reads and stays is told how its session ended once the process has.
EndIsTold == \A s \in Session \ Slow :
    (proc[s].st = "exited" /\ client[s].st = "here")
        ~> (client[s].told # "none" \/ client[s].st # "here")

\* Nothing outlives its session: when the client has left, the connection is
\* gone or the handler has returned, the slot is free and the process gone
\* some time later - also when the agent's ok came after waitReady had given
\* up, or the connection was shut between Find and AddSession (ssh.go:
\* "otherwise it becomes an orphan"; hub.go, openShell).
Over(s) == client[s].st = "left" \/ ~srvUp \/ srv[s].pc = "done"
NothingIsLeft == \A s \in Session :
    Over(s) ~> (s \notin table /\ proc[s].st # "running")

\* "An exit code is returned as it is": waitReady never reports a failure for
\* a session whose process had started and ended by itself.  Not so: with ok
\* and close both read before it looks, its select takes either.
EndedIsNotUnready ==
    \A s \in Session : client[s].told = "closed" => srv[s].code # "own"

\* "removeSession passes the close on to the agent's child process".  Not so:
\* the process runs until the handler, stuck in a write, sends the close.
StalledIsKilled == \A s \in Session :
    s \in stalled ~> proc[s].st # "running"

\* "That one session is cut off, the others go on": without a network failure
\* the connection stays up.  Not so: the agent's write deadline is shorter
\* than the server's patience with the slow one.
OnlyItsOwnSession == ~lost => srvUp /\ agtUp
=============================================================================
