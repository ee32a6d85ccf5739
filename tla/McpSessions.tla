---------------------------- MODULE McpSessions ----------------------------
(***************************************************************************)
(* The resident shells and terminals of one MCP client (mcpsrv/tools.go,   *)
(* termtools.go): tool calls open, use and close them, at once and after   *)
(* an approval that may take minutes; a reaper closes the idle ones; the   *)
(* end of the client's session and the loss of a grant close all.  s.mu    *)
(* guards the two tables, and is held while a shell is opened, which takes *)
(* the answer of an agent (mcpRunner.OpenShell, OpenTerminal).             *)
(***************************************************************************)
EXTENDS Integers, FiniteSets

CONSTANTS
    Call,           \* tool calls under way at once, numbered
    Host,           \* machines of the client's list
    MaxSessions,    \* Limits.MaxSessions
    MaxOpens,       \* bound: processes opened, MaxCalls tool calls,
    MaxCalls,
    MaxGrants       \* bound: changes of what the client may reach

ASSUME SessionsAssumption ==
    /\ Call \subseteq Nat \ {0} /\ MaxSessions \in Nat \ {0}
    /\ {MaxOpens, MaxCalls, MaxGrants} \subseteq Nat

VARIABLES
    mu,             \* Server.mu: the call that holds it across an opening, or 0
    listed,         \* Server.shells and terms, the processes in them
    proc,           \* every process opened, at the machine it runs on
    call,
    reaping,        \* reapStop, the reaper: "none", "on", "stopped" but not nil
    client,         \* the MCP session: "open", "over", "closed" (cleaned up)
    granted,        \* machines MachineAllowed says yes to, by now
    calls, changes  \* bounds

mvars == <<mu, listed, proc, call, reaping, client, granted, calls, changes>>

Id == 1 .. MaxOpens
Idle == [pc |-> "idle"]
NoProc == [st |-> "none"]

SessionsInit ==
    /\ mu = 0 /\ listed = {} /\ proc = [i \in Id |-> NoProc]
    /\ call = [c \in Call |-> Idle] /\ reaping = "none"
    /\ client = "open" /\ granted = Host /\ calls = 0 /\ changes = 0

Alive(i) == proc[i].st = "live"
At(c, pc) == call[c].pc = pc
Goto(c, pc) == call' = [call EXCEPT ![c].pc = pc]
Return(c) == call' = [call EXCEPT ![c] = Idle]
\* Mutant of NothingOrphaned: the mutex does not last while a shell is opened.
MuFreeWhenOpening == TRUE
MuFree == mu = 0
Killed(I) == [i \in Id |-> IF i \in I /\ Alive(i) THEN [proc[i] EXCEPT !.st = "dead"] ELSE proc[i]]

-----------------------------------------------------------------------------
(* A tool call begins: run_command, with and without session, terminal_open. *)

Begin(c, tool, m) ==
    /\ call[c] = Idle /\ client = "open" /\ calls < MaxCalls
    /\ \A d \in Call : d < c => call[d] # Idle      \* calls are alike
    /\ calls' = calls + 1
    /\ call' = [call EXCEPT ![c] =
          [pc |-> IF m \in granted THEN "ask" ELSE "revoke", tool |-> tool, m |-> m, id |-> 0]]
    /\ UNCHANGED <<mu, listed, proc, reaping, client, granted, changes>>

\* terminalFor, of terminal_write, _read, _resize and _close, and the entries
\* of terminal_list: the table, then the grant.
terminalFor(c, tool, i) ==
    /\ call[c] = Idle /\ client = "open" /\ calls < MaxCalls
    /\ \A d \in Call : d < c => call[d] # Idle
    /\ MuFree /\ i \in listed /\ proc[i].kind = "terminal"
    /\ calls' = calls + 1
    /\ call' = [call EXCEPT ![c] = [pc |-> "check", tool |-> tool, m |-> proc[i].m, id |-> i]]
    /\ UNCHANGED <<mu, listed, proc, reaping, client, granted, changes>>

machineBlocked(c) ==
    /\ At(c, "check") /\ Goto(c, IF call[c].m \in granted THEN call[c].tool ELSE "revoke")
    /\ UNCHANGED <<mu, listed, proc, reaping, client, granted, calls, changes>>

\* The processes on a machine that is no longer granted are closed.
revokeMachineSessions(c) ==
    LET gone == {i \in listed : proc[i].m = call[c].m} IN
    /\ At(c, "revoke") /\ MuFree
    /\ listed' = listed \ gone /\ proc' = Killed(gone) /\ Return(c)
    /\ UNCHANGED <<mu, reaping, client, granted, calls, changes>>

\* authorizeCommand: the policy and the approval, whichever way they end
Authorize(c) ==
    /\ At(c, "ask")
    /\ Return(c) \/ Goto(c, IF call[c].tool = "run" THEN "run" ELSE "lock")
    /\ UNCHANGED <<mu, listed, proc, reaping, client, granted, calls, changes>>

\* run_command without a session, to its end
RunAt(c) ==
    /\ At(c, "run") /\ Return(c)
    /\ UNCHANGED <<mu, listed, proc, reaping, client, granted, calls, changes>>

-----------------------------------------------------------------------------
(* shellFor and openTerminal.  One name of a shell per machine.            *)

Named(m) == {i \in listed : proc[i].kind = "shell" /\ proc[i].m = m}

\* A shell of this name that lives is taken; one that has died makes room.
shellFor(c) ==
    LET old == Named(call[c].m)  dead == {i \in old : ~ Alive(i)} IN
    /\ At(c, "lock") /\ call[c].tool = "shell" /\ MuFree
    /\ IF \E i \in old : Alive(i)
         THEN /\ call' = [call EXCEPT ![c].pc = "exec", ![c].id = CHOOSE i \in old : Alive(i)]
              /\ UNCHANGED <<mu, listed>>
         ELSE /\ listed' = listed \ dead
              /\ IF Cardinality(listed \ dead) >= MaxSessions
                   THEN Return(c) /\ UNCHANGED mu
                   ELSE Goto(c, "opening") /\ mu' = c
    /\ UNCHANGED <<proc, reaping, client, granted, calls, changes>>

openTerminal(c) ==
    /\ At(c, "lock") /\ call[c].tool = "terminal" /\ MuFree
    /\ IF Cardinality(listed) >= MaxSessions THEN Return(c) /\ UNCHANGED mu
       ELSE Goto(c, "opening") /\ mu' = c
    /\ UNCHANGED <<listed, proc, reaping, client, granted, calls, changes>>

\* The agent's answer: not connected, a credential that is void by now, an
\* agent that cannot start it, or the process.  ensureReaper
Opened(c) ==
    /\ At(c, "opening") /\ mu' = 0
    /\ \/ Return(c) /\ UNCHANGED <<listed, proc, reaping>>
       \/ \E i \in Id :
            /\ proc[i] = NoProc /\ \A j \in Id : j < i => proc[j] # NoProc
            /\ proc' = [proc EXCEPT ![i] = [st |-> "live", kind |-> call[c].tool,
                                            m |-> call[c].m, busy |-> 0]]
            /\ listed' = listed \cup {i}
            /\ reaping' = IF reaping = "none" THEN "on" ELSE reaping
            /\ IF call[c].tool = "shell"
                 THEN call' = [call EXCEPT ![c].pc = "exec", ![c].id = i] ELSE Return(c)
    /\ UNCHANGED <<client, granted, calls, changes>>

-----------------------------------------------------------------------------
(* Using them.                                                             *)

\* shellSession.exec: one command at a time (execMu); a shell that has died
\* meanwhile is reported.
Exec(c) ==
    LET i == call[c].id IN
    /\ At(c, "exec") /\ proc[i].busy = 0
    /\ IF Alive(i) THEN Goto(c, "busy") /\ proc' = [proc EXCEPT ![i].busy = c]
       ELSE Return(c) /\ UNCHANGED proc
    /\ UNCHANGED <<mu, listed, reaping, client, granted, calls, changes>>

\* The command ends, or the shell under it; a timeout or a call given up kills
\* the shell.  A dead shell stays listed.
ExecEnds(c) ==
    LET i == call[c].id IN
    /\ At(c, "busy") /\ Return(c)
    /\ \E st \in {proc[i].st, "dead"} : proc' = [proc EXCEPT ![i].busy = 0, ![i].st = st]
    /\ UNCHANGED <<mu, listed, reaping, client, granted, calls, changes>>

UseTerminal(c) ==       \* write, read, resize
    /\ At(c, "use") /\ Return(c)
    /\ UNCHANGED <<mu, listed, proc, reaping, client, granted, calls, changes>>

terminalClose(c) ==     \* it leaves the table, then it is closed
    LET i == call[c].id IN
    /\ \/ At(c, "close") /\ MuFree /\ listed' = listed \ {i}
          /\ Goto(c, "closing") /\ UNCHANGED proc
       \/ At(c, "closing") /\ proc' = Killed({i}) /\ Return(c) /\ UNCHANGED listed
    /\ UNCHANGED <<mu, reaping, client, granted, calls, changes>>

ProcessEnds(i) ==       \* exit, or the agent goes
    /\ Alive(i) /\ proc' = Killed({i})
    /\ UNCHANGED <<mu, listed, call, reaping, client, granted, calls, changes>>

-----------------------------------------------------------------------------
(* Others.                                                                 *)

\* sweepIdle; which of those at rest have rested long enough is left open,
\* as long as none rests for ever.
Resting == {i \in listed : ~ Alive(i) \/ proc[i].busy = 0}
Sweep(I) ==
    /\ reaping = "on" /\ MuFree /\ I \subseteq Resting /\ I # {}
    /\ listed' = listed \ I /\ proc' = Killed(I)
    /\ UNCHANGED <<mu, call, reaping, client, granted, calls, changes>>

ClientGoes ==
    /\ client = "open" /\ client' = "over"
    /\ UNCHANGED <<mu, listed, proc, call, reaping, granted, calls, changes>>

\* Mutant of SessionsEnd: the reaper is stopped and still taken for running.
reapStopKept == IF reaping = "on" THEN "stopped" ELSE reaping
reapStop == "none"

\* watchSession, when the client has gone, and Close.  Calls under way go on.
closeSessions ==
    /\ client = "over" /\ MuFree /\ client' = "closed"
    /\ listed' = {} /\ proc' = Killed(listed)
    /\ reaping' = reapStop
    /\ UNCHANGED <<mu, call, granted, calls, changes>>

\* mcp set, user set, machine remove, in the database
Regrant(m) ==
    /\ changes < MaxGrants /\ changes' = changes + 1
    /\ granted' = IF m \in granted THEN granted \ {m} ELSE granted \cup {m}
    /\ UNCHANGED <<mu, listed, proc, call, reaping, client, calls>>

CallSteps(c) ==
    \/ machineBlocked(c) \/ revokeMachineSessions(c) \/ Authorize(c) \/ RunAt(c)
    \/ shellFor(c) \/ openTerminal(c) \/ Opened(c)
    \/ Exec(c) \/ ExecEnds(c) \/ UseTerminal(c) \/ terminalClose(c)

SessionsNext ==
    \/ \E c \in Call, m \in Host, t \in {"run", "shell", "terminal"} : Begin(c, t, m)
    \/ \E c \in Call, i \in Id, t \in {"use", "close"} : terminalFor(c, t, i)
    \/ \E c \in Call : CallSteps(c)
    \/ \E i \in Id : ProcessEnds(i)
    \/ \E I \in SUBSET Id : Sweep(I)
    \/ ClientGoes \/ closeSessions
    \/ \E m \in Host : Regrant(m)

\* Calls return: approvals, openings and commands have timeouts.  The reaper
\* ticks while it runs, and everything that rests gets old.
SessionsFairness ==
    /\ \A c \in Call : WF_mvars(CallSteps(c))
    /\ WF_mvars(closeSessions)
    /\ WF_mvars(Sweep(Resting))

-----------------------------------------------------------------------------
(* Properties.                                                             *)

\* However calls open, close and sweep at once, no more processes are listed
\* than the limit allows, no machine has two live shells of one name, and a
\* live process is listed or in the hands of the call that is closing it: none
\* runs on a user's machine with nobody to end it.
NothingOrphaned ==
    /\ Cardinality(listed) + (IF mu # 0 THEN 1 ELSE 0) <= MaxSessions
    /\ \A m \in Host : Cardinality({i \in Named(m) : Alive(i)}) <= 1
    /\ \A i \in Id : Alive(i) => i \in listed \/ \E c \in Call : At(c, "closing") /\ call[c].id = i

\* When the client's session is over, everything it left running ends, even
\* what a call opens that had waited for its approval until after the clean-up.
SessionsEnd == client = "over" ~> [](\A i \in Id : ~ Alive(i))

\* What mcpRunner.MachineAllowed says of a grant taken back, that every later
\* step of a tool asks for it.  Not so: a call that was waiting for an approval
\* runs and opens without asking again.
RunIsGranted == \A c \in Call : call[c].pc \in {"run", "opening"} => call[c].m \in granted
=============================================================================
