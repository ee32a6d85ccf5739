------------------------------- MODULE SshPool -------------------------------
(***************************************************************************)
(* The MCP server's SSH connections to the hub (mcpsrv/sshpool.go), those  *)
(* of one machine: dialled under the pool's lock and shared by every call, *)
(* each call a channel of its own.  A call that meets an error which is    *)
(* not its command's drops the pooled connection and tries once more.      *)
(***************************************************************************)
EXTENDS Naturals, FiniteSets

CONSTANTS
    User,           \* calls of Run, OpenTerminal and OpenShell
    Conn,           \* bound: connections dialled, numbered from 1
    MaxBreaks       \* bound: connections the network takes away

ASSUME PoolAssumption ==
    IsFiniteSet(User) /\ Conn \subseteq Nat \ {0} /\ IsFiniteSet(Conn) /\ MaxBreaks \in Nat

VARIABLES
    pool,           \* Pool.conns[machine], 0 for none
    open,           \* connections dialled and not closed
    broken,         \* those the network has taken away
    dialled,        \* connections so far
    use             \* the calls: where each is, its connection, what it met

pvars == <<pool, open, broken, dialled, use>>

PoolInit ==
    /\ pool = 0 /\ open = {} /\ broken = {} /\ dialled = 0
    /\ use = [u \in User |-> [pc |-> "idle", kind |-> "run", conn |-> 0, try |-> 1,
                              result |-> "none"]]

Step(u, next) == use' = [use EXCEPT ![u].pc = next]
Told(u, result) == use' = [use EXCEPT ![u].pc = "over", ![u].result = result, ![u].conn = 0]

Asked(u, kind) ==
    /\ use[u].pc = "idle" /\ kind \in {"run", "terminal", "shell"}
    /\ use' = [use EXCEPT ![u].pc = "conn", ![u].kind = kind]
    /\ UNCHANGED <<pool, open, broken, dialled>>

\* isConnError: all that is not the command's exit status nor the context's.
\* OpenShell leaves the second try to its caller.
Failed(u) ==
    IF use[u].kind # "shell" /\ use[u].try = 1 THEN Step(u, "look") ELSE Told(u, "failed")

\* conn and dialLocked, in one holding of p.mu.  The dial may fail; one that
\* meets ClientConfig.Timeout is a DeadlineExceeded, and is not tried again.
conn(u) ==
    /\ use[u].pc = "conn"
    /\ \/ /\ pool # 0 /\ use' = [use EXCEPT ![u].pc = "session", ![u].conn = pool]
          /\ UNCHANGED <<pool, open, dialled>>
       \/ /\ pool = 0 /\ dialled + 1 \in Conn
          /\ dialled' = dialled + 1 /\ pool' = dialled' /\ open' = open \cup {dialled'}
          /\ use' = [use EXCEPT ![u].pc = "session", ![u].conn = dialled']
       \/ /\ /\ pool = 0 /\ (Failed(u) \/ Told(u, "timeout"))
          /\ UNCHANGED <<pool, open, dialled>>
    /\ UNCHANGED broken

Usable(u) == use[u].conn \in open \ broken

\* runOnce, openTerminalOnce: the session, the environment, the request.  The
\* hub may refuse each, and a connection that is gone carries none.
Session(u) ==
    /\ use[u].pc = "session"
    /\ \/ Usable(u) /\ Step(u, "running")
       \/ Failed(u)
    /\ UNCHANGED <<pool, open, broken, dialled>>

\* The command has been asked for, and may have run: it is asked for again.
AnswerLost(u) ==
    /\ use[u].pc = "running" /\ ~ Usable(u) /\ Failed(u)
    /\ UNCHANGED <<pool, open, broken, dialled>>

\* An exit status; none, the channel having gone; the timer; the context.
Ends(u) ==
    /\ use[u].pc = "running"
    /\ \E result \in {"exit", "missing", "timeout", "ctx"} :
          (result = "exit" => Usable(u)) /\ (result = "missing" => ~ Usable(u)) /\ Told(u, result)
    /\ UNCHANGED <<pool, open, broken, dialled>>

\* What the pool holds by now, and not what this call was using
LooksAgain(u) ==
    /\ use[u].pc = "look"
    /\ use' = [use EXCEPT ![u].pc = IF pool = 0 THEN "again" ELSE "drop", ![u].conn = pool]
    /\ UNCHANGED <<pool, open, broken, dialled>>

\* Mutant of NoConnLost: the entry is deleted, whatever it is by now.
Forgets(c) == 0
\* drop: the entry goes only if it still is this connection.
Left(c) == IF pool = c THEN 0 ELSE pool

drop(u) ==
    /\ use[u].pc = "drop" /\ pool' = Left(use[u].conn) /\ open' = open \ {use[u].conn}
    /\ use' = [use EXCEPT ![u].pc = "again", ![u].conn = 0]
    /\ UNCHANGED <<broken, dialled>>

\* The second try.  Only OpenTerminal asks the context first.
Again(u) ==
    /\ use[u].pc = "again"
    /\ \/ use' = [use EXCEPT ![u].pc = "conn", ![u].try = 2]
       \/ use[u].kind = "terminal" /\ Told(u, "ctx")
    /\ UNCHANGED <<pool, open, broken, dialled>>

Breaks ==
    \E c \in open \ broken :
       /\ Cardinality(broken) < MaxBreaks /\ broken' = broken \cup {c}
       /\ UNCHANGED <<pool, open, dialled, use>>

\* Pool.Close
CloseAll ==
    /\ pool # 0 /\ open' = open \ {pool} /\ pool' = 0
    /\ UNCHANGED <<broken, dialled, use>>

PoolNext ==
    \/ \E u \in User : \/ \E kind \in {"run", "terminal", "shell"} : Asked(u, kind)
                       \/ conn(u) \/ Session(u) \/ AnswerLost(u) \/ Ends(u)
                       \/ LooksAgain(u) \/ drop(u) \/ Again(u)
    \/ Breaks \/ CloseAll

PoolSpec == PoolInit /\ [][PoolNext]_pvars

-----------------------------------------------------------------------------
(* Properties.                                                             *)

\* However many calls fail together and redial, no connection is lost sight
\* of: every one that is open is the pool's.
NoConnLost == open \subseteq {pool}

\* A retry replaces a connection that has gone.  Not so: it drops whatever
\* the pool holds by then, on which other commands may be running.
HealthyConnKept ==
    [][\A u, v \in User : u # v /\ use[u].pc = "drop" /\ use'[u].pc = "again"
          => ~ (use[v].pc = "running" /\ use[v].conn = use[u].conn /\ Usable(v))]_pvars

=============================================================================
