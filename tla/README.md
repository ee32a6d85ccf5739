# A TLA+ verification of towstrap

towstrap gives a user a shell on machines that sit behind NAT. An *agent*
(`towstrap`) on each machine keeps a WebSocket to a *server*
(`towstrap-server`); the server is also an SSH daemon that routes `account+machine`
to the right agent, and an MCP server (`towstrap-mcp`, or embedded) through
which a language model runs commands, with a human asked first where the policy
says so.

This directory holds TLA+ modules of the parts where steps of several goroutines,
processes and people interleave, the TLC configurations that check them, and
proofs for TLAPS. Every definition is translated from the Go source; the lines
are listed in `PROJECT.json` under `map`.

## 1. The system

| component | code | state | operations | what is hard |
|---|---|---|---|---|
| account database | `internal/accounts` | accounts, machines (token, staged token), MCP tokens, keys, identities, grants; SQLite | add/remove/rename/set, stage, commit and regenerate tokens, use a grant | read-then-write across statements, two processes on one file |
| hub | `server/hub.go` | registered connection per machine; per connection: sessions, waiters | Attach, Detach, PruneInvalid, Open, pipe, rotateToken, readLoop | one read loop for all sessions, connections replacing each other, slow readers |
| agent endpoint | `server/http.go` | - | accept, hello, attach, detach | a late hello, an old connection leaving after the new one came |
| token rotation | `server/rotate.go` | staged token, waiting request | stage, push, await, commit | lost acks, crashes between write and ack, retries |
| SSH front end | `server/ssh.go`, `authguard.go`, `limits.go` | failure tables, connection counts | password / keyboard-interactive / key login, sessions, idle re-verification | check-then-count races, windows, one-time grants |
| OAuth | `server/oauth.go`, `accounts/oauth.go`, `oidc` | flows, polls, grants | request, begin, callback, result | single use, expiry, a poll racing a callback |
| registration | `server/register.go`, `accounts/register.go` | rate limit, invite, fingerprints | register an account or a machine | the same machine twice, name collisions |
| self-service | `server/mgmt.go`, `passwd.go`, `sshkey.go`, `totp_enroll.go` | - (database) | `@passwd`, `@totp`, `@key`, `@mcp` | enrolment in two steps |
| agent | `client/client.go` | current and previous token, session table, processes | dial, loop, open, data, eof, close, onToken, onUpgrade | its read loop must not block, reconnects, crash |
| terminal mirror | `client/mirror*.go` | shared terminals, attached viewers, tail buffer | open, attach, detach, write, resize, kill, idle sweep | exit while attached, slow viewer, size restored |
| presence, lock, refresh | `client/presence.go`, `agentlock*.go`, `refresh.go` | counters, lock file | come/go, acquire, `token refresh` | two agents on one machine |
| MCP server | `internal/mcpsrv`, `server/mcp.go` | remembered, pending and spent marks, resident shells, terminals, SSH pool | tools, policy, approval, idle reaping | several tool calls at once, people answering late |
| self-update | `selfupdate`, `client.autoUpdate` | binary on disk | download, verify, replace, restart | concurrent updates, a crash while replacing |
| monitor feed, audit log | `monitor`, `auditlog` | bounded queue, log file | Emit, pump | dropping, reconnecting |
| addresses, one-time codes, wire format, configuration, services, landing page, TLS | `allow`, `totp`, `auth`, `proto`, `config`, `service`, `harness`, `cmd` | - | - | pure functions and I/O |

How they interact: the agent's only channel to the server is its WebSocket; SSH
handlers, the token refresh handler and the MCP server all go through the hub's
per-connection tables, which the connection's read loop serves. The database is
shared by the server's goroutines and by the administrator's commands in another
process. Approval files are shared by the MCP server and whoever runs `approve`.

What makes each correct (the properties in italics are checked):

- rotation: the machine is not locked out by what can be lost, but in the ways section 4
  names (*CalmFileIsGood*, *SelfHeals*), only acknowledged tokens are committed
  (*FormalWasWritten*), void tokens stay void (*RetiredStaysRetired*), a
  revoked connection is shut (*RevocationTakesEffect*), the hub knows every
  live connection (*LiveIsRegistered*);
- sessions: exit codes and output are complete (*OwnCodeMeansComplete*), so is
  input (*EofMeansComplete*), sessions do not hold each other up
  (*EndIsTold*), nothing is orphaned (*RunningIsReachable*, *NothingIsLeft*);
- approval: one question, one verdict, one execution (*ImplementsGrants*), the
  tables agree with the audit log (*TablesMatchAudit*), calls return
  (*CallReturns*), and a person is asked wherever the policy says so
  (*SilentOnlyIfHarmless*);
- login: a lock holds off every newcomer (*UnderLockNobodyJoins*), is set
  only by failures that count (*LocksAreEarned*) and is forgiven only to who has
  proved everything (*OnlyAFullProofForgives*); codes are used once (*TotpOnce*),
  grants as often as they may be (*GrantWithinUses*); places for connections are
  given back once (*PlacesMatchConnections*);
- OAuth: an approval belongs to the one who was asked (*ApprovedIsEarned*) and is
  answered once (*OneFinalAnswer*);
- accounts: who gets a name or a fingerprint inherits nothing
  (*HeirsStartClean*), only owners change what is theirs (*OwnersOnly*), an
  upgrade loses no token (*TokensSurvive*), registrations keep their rate
  (*RateHolds*), a bound authenticator goes only with its code
  (*BoundNeedsItsCode*), grants die with the password (*GrantsDieWithPassword*);
- MCP server: no shell or terminal is lost from the tables (*NothingOrphaned*)
  or outlives its client (*SessionsEnd*), a command's result is all of it
  and nothing else (*ResultIsWhole*), a terminal's output is read without an unmarked gap
  (*TerminalLosesNothing*), the pool loses no connection (*NoConnLost*), the file
  that is touched is the one that was judged (*TouchedIsJudged*);
- mirror: a name leads to the process that runs under it (*MirrorsInOrder*), a
  viewer sees a contiguous stream (*StreamUnbroken*); releases reach every agent
  that is behind (*NobodyMissesIt*); the feed is in order (*FeedInOrder*).

## 2. The modules

| module | models | state |
|---|---|---|
| `TokenRotation` | one machine's agent token and everybody who moves it | checked with liveness, safety proved |
| `HubSessions` | the sessions of one agent connection, both ends | checked with liveness, safety proved |
| `Approval`, `Grants` | asking a person before a command, three channels; the abstract promise | checked, proved to refine `Grants` |
| `AuthGuard` | the four tables of failures | checked and proved with `Login` |
| `Login` | password, code, grant and key logins that look first and count later | checked, proved |
| `OAuthFlow` | begin, callback, poll, expiry | checked, proved |
| `ConnCap` | places for connections | checked, proved |
| `Accounts` | accounts, machines, fingerprints, identities, keys, MCP clients | checked, proved |
| `Upgrade` | opening a database of an older version | checked, proved |
| `RegisterLimit` | the rate of registrations | checked, proved |
| `SelfService` | password and authenticator over two channels | checked, proved |
| `McpSessions` | the tables of shells and terminals of one MCP session | checked with liveness, safety proved |
| `ShellExec` | the protocol with one resident shell | checked, proved |
| `SshPool` | SSH connections of the MCP server | checked, proved |
| `Terminal` | the buffer of one terminal | checked, proved |
| `Policy` | the decision on a command | checked over all shapes, proved |
| `McpFiles` | files reached by a name whose links change | checked, proved |
| `MirrorRegistry` | mirror terminals by name | checked, proved |
| `MirrorStream` | one mirror terminal and those attached | checked, proved |
| `SelfUpdate` | releases, and the agent that replaces itself | checked, proved |
| `MonitorFeed` | the feed of events | checked, proved |
| `TokenRotationProofs`, `ApprovalProofs`, `HubSessionsProofs`, `LoginProofs` | theorems about the module of that name (`Login` with `AuthGuard`) | eighteen |
| `EntryProofs` | theorems about `OAuthFlow` and `ConnCap` | four |
| `AccountsProofs` | theorems about `Accounts`, `Upgrade`, `RegisterLimit` and `SelfService` | ten |
| `McpProofs` | theorems about `McpSessions`, `SshPool`, `Terminal`, `Policy`, `McpFiles` and `ShellExec` | nine |
| `HostProofs` | theorems about `MirrorRegistry`, `MirrorStream`, `SelfUpdate` and `MonitorFeed` | seven |
| `MC...` | instances for TLC | |

Four MC modules hold several models at once. `MCLogin` composes `AuthGuard`,
`Login`, `OAuthFlow` and `ConnCap`, `MCAccounts` the four of the database, `MCMcp`
the five of a tool call, `MCHost` the four of an agent and the feed. Where two of
them share state they are one model: `Login` extends `AuthGuard` and works on its
tables. The others share no variable; a variable `part` says which of them a
behaviour moves, the rest stands still, so that the run is the union of their state
spaces and not the product.

### TokenRotation

Variables and code: `row` is the `machines` row (`token_enc`,
`pending_token_enc`); `hub` is `Hub.agents[name]`; `conn[c]` is the server's side
of a connection (`agentConn`: the token it remembers, whether its loop runs);
`pushed` and `acks` are the frames on the wire; `req[r]` is one run of
`handleTokenRefresh` for this machine with its place in the code; `sweep` is the
entry `PruneInvalid` has copied; `file` and `agent` are the agent's token file
and process (`tokenState.cur`, `prev`). The rest is history.

Atomicity: one SQL statement or transaction, one critical section of a mutex, one
frame sent or taken are one action each; whatever lies between them interleaves.
`MachineByToken` has no transaction: `look[k]` is a call of it, of the handshake,
the sweep or a handler, at one of its four statements. `SelectFormal` and
`SelectStaged` are the two SELECTs, `Promote` the UPDATE, `Finds` and `Misses` the
two outcomes (with the SELECT of `users.disabled`), on which `Accept` / `Reject`,
`Authed` / `Denied` and `SweepCheck` go on. Everything else may run between any two
of them: a token committed after the first SELECT missed it and before the second
looks is in neither, and a good token is refused. A new token is one never used
(`newUniqueToken`, 256 random bits). The address list of the agent, which only
adds refusals (403), and refresh requests for several machines (the loop treats
them one by one) are left out.

### HubSessions

`srv[s]` is the SSH handler's place in `handleSSH` / `openShell` / `waitReady` /
`pipe` with the `session` struct (`ready`, `closed`, `code`, the number of chunks
in `ch`); `table` is `agentConn.sessions`; `toAgent` and `toServer` are the two
FIFO directions of the WebSocket; `sess`, `inq`, `proc` are the agent's table,
the input queue and the process of each session (`proc[s].shut` is where its
`Close` is); `client[s]` is the SSH client:
what it typed, what it was shown and what exit status it was told. `toServer` is
bounded by `NetLen` (socket buffers), so a server that does not read stops the
agent's writers; the 10 s write deadline (`proto.WriteWait`) is
`AgentWriteTimeout`. `sessionEntry.Close` is four actions: the session is taken from
the table (`TakeSession` in `Close`, `Input` or `CloseAll`), its stdin is closed
(`CutInput`), what runs is killed (`Kill`), and after a full queue the server is told
(`TellFull`). Between the second and the third a process without a terminal reads the
end of its input early and may end by itself; the agent's loop does nothing else
meanwhile (`Busy`). Data is counted, not spelled out: both directions are FIFO.
Resize frames, the idle gate, the notice texts and the keepalive probes are left
out; a keepalive that fails appears as `Shutdown` or `Disconnect`.

### Approval and Grants

`call[c]` is a goroutine in `approve()` or its caller; `remembered`, `pending`
and `spent` are the entries of the three tables for one request key; each critical
section of `Server.mu` is one action, so reading a mark (`Look`), taking it
(`Consume`), clearing it (`Clear`), looking for a tombstone (`SpentCheck`) and
registering a mark (`Claim`) interleave between calls. The channel (`via`) is
fixed per session by `policy.ask_via`, `Remote` and the client's capabilities.
`files[i]` are the suffixes present in `approvals_dir` for number `i`;
`operator[o]` is one run of `settle` or one desktop dialog. The removal of the
four files is one action. Different requests do not share an entry
(`rememberedKey` joins machine, kind, detail, cwd, session and digest), therefore
one key is enough. Numbers are drawn once; a collision of two random numbers is
not modelled. `confirmed` and `remember` of the tool call are free on the llm
channel; on the others the code does not look at them.

`Grants` states what a reader of the audit log may rely on: a number is asked
about once, gets one verdict, lets one execution happen, and only a granted
number is remembered. `Approval` instantiates it with verdicts "approved" and
"confirmed" as granted, "denied" and "timeout" as refused.

### AuthGuard and Login

`entries`, `userEntries`, `ipEntries` and `anonEntries` are the four maps of
`authGuard` as functions on the keys they hold (failures, last failure, locked
until); one mutex covers them, so each method is one operator of one step, with the
sweep (`sweepMap`, at most every `SweepEvery`) and the eviction at the limit of
entries (`Budgeted`) inside it, where the code has them.

`Login` extends it. `who[x]` is an SSH connection, or a request to an HTTP endpoint
that takes a password: its place, the kind of attempt, the account, what it has
proved, the mark the connection carries (`authMethodKey`), and what it has read and
not yet used. `acct` are the columns of `users` a login looks at, `grant` the rows
of `ssh_grants`. `Begin` is the look at the lock, `Compare` the password (bcrypt is
slow and others go on meanwhile) and what the account allows by then, `ReadGrant`
and `TakeGrant` the two halves of `UseSSHGrant`, `ReadStep` and `ConsumeStep` those
of `VerifyTOTP`, `Pass` and `Fail` what the limiter is told. `AskMgmt`, `AskPasswd`
and `AskIdle` are the questions a session asks again. A one-time code is its time
step; an authenticator is a number counted up by each enrolment. Changes to the
account happen between any two steps. Passwords are right or wrong as a choice.

### OAuthFlow and ConnCap

`pend`, `byState`, `req` are the tables of `oauthFlow`, `cb[c]` a callback at its
place in `handleOAuthCallback`: `Exchange`, `Verify`, then three look-ups that are a
statement each, `OAuthLookup`, `Get` and `GetMachine`, then `CreateSSHGrant` and
`Publish`. `cli` is the agent's polling command (`Ask` checks the machine's token,
`Poll` is answered from the tables), `owns` what the data base says of persons,
accounts and machines. The mutex of the flow is held for the tables only, therefore
callbacks of one request interleave at each call to the provider and each statement,
and so do the changes of an administrator (`Elsewhere`: disable, enable, remove, bind,
unbind). As history, a callback is `late` when a change took away what it had looked
at already, and a grant records whether all of it held when the row was inserted
(`fit`). The DELETE of expired rows before the INSERT touches no row the flow looks
at, and bcrypt no state: both are part of `CreateSSHGrant`. The provider is
external: it may refuse, be unreachable, and sign in whoever is at the browser. Polls
can be lost and be repeated.

`ConnCap` has `total`, `perIP` and the state of each connection; `CloseConn` may
come twice (the handler and the hub).

### Accounts, Upgrade, RegisterLimit, SelfService

`Accounts`: `users` are names that exist, with their SSH keys; `rows` the rows of
machines, fingerprints, identities and grants, each with the account's name (a plain
column, no foreign key) and, as history, the number of the job it was made for;
`clients` the MCP clients by full name. `job[w]` is a handler or a command at its
place: every SQL statement outside a transaction and every transaction is one step.
`handleRegister` (Look, BindFingerprint, Add, and the rollbacks ReleaseFingerprint
and DropDefault), `handleMachineRegister`, `machineAdd`, `oauthGrant`, `userRename`,
`sshkey` and `mgmtMCP` are sequences of those; `Remove`, `RemoveMachine`, `MCPAdd`
and the like are one. A crash cuts a job short.

`Upgrade` is `Open` on an old file: `ensureColumn`, `migrateMachines`, the owners
guessed once (`ReadUnowned`, `SetOwner`), by processes that may be stopped.

`RegisterLimit` is the sliding window of `register.go` with its sweep and its bound
on addresses. `SelfService` has one account's password and authenticator as versions
(0 for none), its grants, and requests over both channels at their place between
what they checked (`Bound`, `VerifyTOTP`, `OldPassword`) and what they change.

### McpSessions, ShellExec, SshPool, Terminal, Policy, McpFiles

`McpSessions`: `listed` is what `Server.shells` and `terms` hold, `proc` every
process that was opened, `mu` the call that keeps `Server.mu` while an agent
answers, `call[c]` a tool call (`begin`, the approval, `run`, `opening`), `reaping`
the reaper and its stop channel, `client` the session of the client. `shellFor` and
`openTerminal` start a process and list it, `Sweep` closes the idle, `closeSessions`
all, `revokeMachineSessions` those of a machine whose right was taken back.

`ShellExec` is one resident shell: `far` the process, `wire` the two streams, `sh`
the lock and the call that is fed, `ex` the callers. A command is its pieces on each
stream and an end mark (sentinel) on both. `feed` is the pump of one stream.
`SshPool` has the pool's connection for one machine, those open and those the
network took; `conn` dials under the lock, `drop` forgets and closes. What
`isConnError` takes for the connection's fault is tried once more; a dial that meets
its time-out is not. `Terminal` counts the bytes the pump has read: in the buffer,
handed out, and announced as dropped; `rd[r].waits`
is the number of the channel a reader sleeps on.

`Policy` takes a command as what the scan of its text finds: per segment what stands
in and outside quotes and which lists hit (`Segment`, `Hit`). `Command`, `WithPaths`
and `WithStdin` are the functions of `policy.go`; PolicyNext decides any one
command, and SilentOnlyIfHarmless compares the decision with a reference definition
(`Harmless`). `McpFiles` separates the name, what it leads to (`link`), the report
on the machine that the server keeps (`cache`) and the machine's own (`meta`); a
call resolves, judges, may wait for approval, resolves again (`SamePath`) and uses.

### MirrorRegistry, MirrorStream, SelfUpdate, MonitorFeed

`MirrorRegistry`: `mirrors` is the map of the manager, `mir[i]` the i-th mirror that
was ever started, `opener[o]` a connection that looks, starts a PTY outside the
lock, and registers or finds the name taken. `remove` compares the entry before it
deletes it (`OffList`).

`MirrorStream` numbers the pieces of output: `prog` is the program with the tail
that is kept, `att[a]` a connection with its queue, what it was sent, and whether it
was halted. `broadcast` puts a piece in each queue or throws the connection out.

`SelfUpdate`: `latest` and `scan` are the server's tag and the agents it is going
through, `wire` the connections, `updater[c]` the update of one connection
(`upgrading` is a field of it), `disk` and `inode` the file system: names lead to
inodes, so that a rename and a file that is open already are told apart.

`MonitorFeed`: `queue` is the channel, `dropped` the counter, `pump` the goroutine
with its connection, back-off and the frame in hand, `got` what arrived.


## 3. The runs

| run | instance | shows |
|---|---|---|
| `token_safety` | 3 tokens, 2 refreshes, 2 connections, 2 disturbances of any kind (2.06 M states) | types, FormalWasWritten, RetiredStaysRetired, LiveIsRegistered, CalmFileIsGood |
| `token_liveness` | 3 tokens, 1 refresh, 6 connections, 2 disturbances (267 k) | SelfHeals, RevocationTakesEffect |
| `token_retry` | 2 refreshes, a loss and a crash | violated: AgentHoldsGoodToken |
| `session_safety` | 2 sessions and a place for one at a time, one slow, typing, leaving, network failures (3.74 M) | OwnCodeMeansComplete, EofMeansComplete, RunningIsReachable |
| `session_liveness` | a slow terminal session beside a reading one (342 k) | EndIsTold, NothingIsLeft |
| `approval` | 2 calls, 3 numbers, 2 operators, 3 ticks, each channel (159 k) | TablesMatchAudit, ImplementsGrants, CallReturns |
| `login` | 2 logins for 1 account from 2 addresses, 1 grant, 3 ticks; an OAuth flow of 2 requests, 2 callbacks and 2 machines, changed between its look-ups; 3 connections (1.49 M) | LocksAreEarned, UnderLockNobodyJoins, OnlyAFullProofForgives, TotpOnce, GrantWithinUses, ApprovedIsEarned, OneFinalAnswer, PlacesMatchConnections |
| `accounts` | 3 jobs of 2 workers on 2 names with a crash; 3 openings of an old file by 2 processes; 3 sources, 4 ticks; 2 requests of one owner (1.09 M) | HeirsStartClean, OwnersOnly, TokensSurvive, RateHolds, GrantsDieWithPassword, BoundNeedsItsCode |
| `mcp_sessions` | 2 tool calls at once, 2 machines, 2 places in the tables, 3 openings, one right withdrawn (246 k) | NothingOrphaned, SessionsEnd |
| `mcp_calls` | every shape of command; 2 file calls under 2 changes; 2 SSH users and 3 connections; 2 callers of one shell; 2 readers of one terminal (1.12 M) | SilentOnlyIfHarmless, TouchedIsJudged, NoConnLost, ResultIsWhole, TerminalLosesNothing |
| `host` | 2 openers, 2 names, 3 mirrors; 2 attached; 2 agent connections and 2 versions with a crash; 4 events on 3 connections (1.12 M) | MirrorsInOrder, StreamUnbroken, NobodyMissesIt, FeedInOrder |
| `update_twice` | 2 connections of one agent, 2 versions | violated: AlwaysAProgram |

The state of the code that a document or comment contradicts is kept as
properties beside the others, to be run by hand: those with a configuration of their own
(the first five rows), and those to be put for the INVARIANT and PROPERTY lines of
another configuration.

| property | of module | configuration |
|---|---|---|
| AgentHoldsGoodToken | `TokenRotation` | `TokenFallback.cfg`, and with `FaultKinds = {"toggle"}` |
| EndedIsNotUnready, OnlyItsOwnSession, StalledIsKilled | `HubSessions` | `SessionReady.cfg`, `SessionWedge.cfg`, `SessionStall.cfg` |
| NoMarkUnderTombstone | `Approval` | `ApprovalSpent.cfg` |
| LockStands, IssuedIsTold | `Login`, `OAuthFlow` | `LoginLock.cfg`, `OAuthLost.cfg` |
| OneAccountPerMachine | `Accounts` | `RegisterTwice.cfg` |
| ClientsStartClean, NoSquatter | `Accounts` | `Accounts.cfg` |
| RemovalsHold (PROPERTY) | `Accounts` | `Accounts.cfg` with `Key = {k, l}` |
| IssuedStaysIssued, OwnersFound | `Upgrade` | `Accounts.cfg` |
| RebindNeedsOldCode (PROPERTY), ToldIsTrue | `SelfService` | `Accounts.cfg` |
| RunIsGranted | `McpSessions` | `McpSessions.cfg` |
| QuotedIsNoExcuse, GuardedNow, HealthyConnKept (PROPERTY), CutShortTellsAll | `Policy`, `McpFiles`, `SshPool`, `ShellExec` | `McpCalls.cfg` |
| IdleKillsTheJudged, HaltsOnce, SparesMirrors, LostIsCounted, WaitsAtMost | `MirrorRegistry`, `MirrorStream`, `SelfUpdate`, `MonitorFeed` | `Host.cfg` |
| SizeOfTheAttached | `MirrorStream` | `Host.cfg` with `Size = {2, 3}` |

Each run is `tlc -config X.cfg M` with the module `PROJECT.json` names; the
configurations run by hand go with `MCTokenRotation`, `MCHubSessions`, `MCApproval`,
`MCLogin` (`LoginLock`, `OAuthLost`) and `Accounts` (`RegisterTwice`).

### Bounds and why they are enough

- Three tokens: the initial one and one of each refresh, or of a refresh and a regen
  (with a fourth, for all three, `token_safety` takes 4.56 M states and holds as well); two
  connections: an old and a new one, which is what Attach and Detach are about; two
  disturbances: enough for every pair (lost ack and crash, failed file write
  and regen, ...). The liveness run trades the second refresh for six
  connections, because every disturbance costs a reconnect and a system that has
  used up its connections could not come back.
- Two sessions are what it takes for one to hold up the other (one place for both, in the
  safety run, reaches the limit of sessions); buffers of one and
  processes that write two or three chunks fill every queue of the code
  (`session.ch` 64, `sessionInputLen` 64) at once.
- Two calls are enough for every race between two critical sections; three numbers
  allow a mark to expire, to be replaced and to be replaced again; with
  `TTL = 1` and `MaxTime = 2` a mark can be live, at its last moment, and expired. An
  operator settles once per run.
- `login`: thresholds of one, two and three, a window of one tick and a clock of
  three instants: a lock is set, stands, runs out and grows, an entry goes stale, a
  table is swept and makes room (three entries). One account is enough: the tables are
  functions of account and address, and what concerns several keys at once is the limit on
  entries; two addresses tell the pair from its parts. Two attempts race for a
  grant of one use, for one code, and past one lock. One change by an administrator falls
  anywhere between the steps of a login. Two OAuth requests make one machine
  replace its own and two machines compete; two callbacks are the race.
- `accounts`: two workers are the smallest number that interleave; three jobs let
  a name be taken, removed, and taken again while something begun under the old one
  goes on. One fingerprint, identity and key are contended for by all. The
  part of `RegisterLimit` has a source more than the table remembers.
- `mcp_sessions`: two places and three openings reach the limit, and one more.
- `mcp_calls`: commands are of up to two segments, each with every combination of
  list hits; decisions are folds over segments, which treat a third like a second.
  Two file calls share the cached report on a machine, two changes move a link there and back.
  Buffers are of two bytes and chunks of up to three, so that one chunk overflows by itself.
- `host`: one mirror may run of the three started, so that the limit is met and
  a name used again; queues of one throw out a connection at the second piece.
- Every bound of this kind is a constant whose declaration begins with "bound".
- `CHECK_DEADLOCK FALSE`: the instances stop when the connections, sessions,
  numbers, jobs or events of the bound are used up; the code has no such end.

### Fairness

`TokenRotation`: goroutines run and with them the statements of a look-up, the sweep ticks every 30 s (`revokeLoop`), hello
and ack timeouts fire, a dead TCP connection is noticed by the ping deadlines, the
agent's loop dials for ever and its service manager restarts it. Nothing is
assumed of the administrator or of the start of a refresh. Weak fairness per
action is enough, and Accept is fair only as "some connection is accepted".

`HubSessions`: handlers, both read loops, reapers, the stall timer and the
mutual detection of a dead peer are weakly fair. Clients outside `Slow` read. No
client has to type or leave, no process has to write or end.

`Approval`: each goroutine's next step is weakly fair, the poll's deadline being one
of them. Users, operators, the model and the clock are not.

`McpSessions`: calls that have been approved go on, opening a shell ends in a success
or a failure (it has deadlines), a closed process dies, `watchSession` notices
the end of the client, and the reaper ticks. Nobody has to answer an approval.

The other modules state no fairness: their properties are about safety.

## 4. What the violations say

Two runs expect one and are quoted with what they contradict in `PROJECT.json`,
`findings`:

1. **A retried refresh can lock a machine out** (`token_retry`). The first refresh
   is pushed and written to the agent's file; its ack is lost. The second
   one overwrites the staged token. If its push is lost and the agent restarts,
   the file holds a token the server has forgotten.
2. **Two updates can leave a damaged program** (`update_twice`). The flag that admits
   one update at a time belongs to a connection. After a reconnect a second one
   opens, and empties, the file the first has checked and is about to rename.

The others are properties of the second table in section 3, each beside the model that
violates it with the sentence it comes from. Their comments say "Not so", and **none
of the runs above checks them**: they stand for what a reader of the code might expect
and the model refutes. The first five rows of the table are put to TLC by their own
configuration; any other by writing its name for the INVARIANT or PROPERTY of the
configuration named, which then ends with the counterexample.

3. A 401 is taken for a stale token, whatever its cause, and the agent writes its
   previous one to the file (AgentHoldsGoodToken, `TokenFallback.cfg`). Two causes are
   not a stale token: an account that was disabled for a while, and a look-up between
   whose two SELECTs the token was committed. The second needs one lost connection and
   no administrator: the ack is delivered, the connection breaks, the agent dials with
   the new token, the first SELECT misses it, the commit makes it the formal one, the
   second SELECT misses it too. The condition `calm` of CalmFileIsGood and SelfHeals
   comes from 1 and this: it is false once a staged token was overwritten, the
   administrator has stepped in, or a good token was refused to an agent that remembers
   another one. Nothing else locks a machine out: that is what the two properties show.
4. A short command may be reported as failed (EndedIsNotUnready): `waitReady` picks at random
   between a ready and a closed channel.
5. A slow session can take the connection down (OnlyItsOwnSession): the server's 30 s of
   patience exceed the agent's 10 s write deadline.
6. A stalled session keeps its process while its client neither reads nor leaves
   (StalledIsKilled).
7. A confirmed command can run twice in its window (NoMarkUnderTombstone): looking for
   the tombstone and registering a mark are separate sections.
8. A lock longer than the window is replaced by a new count (LockStands) when a guess begun
   before it is finished late.
9. A second callback that fails hides the grant of the first (IssuedIsTold).
10. Of two registrations for one name, the account may be left without its fingerprint
    (OneAccountPerMachine). A registration cut short leaves its fingerprint
    bound (NoSquatter). MCP clients of a removed account are
    inherited with its name (ClientsStartClean). A removed SSH key comes back
    with an addition that had read the list (RemovalsHold).
11. An upgrade cut short after the new column is taken for finished (OwnersFound), and a
    client issued meanwhile is guessed an owner (IssuedStaysIssued).
12. An authenticator can be replaced without its code when it is enrolled while another
    enrolment waits (RebindNeedsOldCode); `@passwd` speaks of grants the store refused to
    delete (ToldIsTrue).
13. A call that waits for approval does not ask again whether it may use the machine
    (RunIsGranted), nor for the agent's list of guarded paths (GuardedNow). Under the default "deny" a
    hit of the deny list within quotes asks instead of refusing (QuotedIsNoExcuse). A retry drops
    whatever the pool holds (HealthyConnKept). The last piece held back of a command
    cut short is not told (CutShortTellsAll).
14. The sweep of mirrors kills by name (IdleKillsTheJudged); a halt may be run
    twice (HaltsOnce); one thrown out still sets the size (SizeOfTheAttached); an update may
    end a mirror opened during its download (SparesMirrors).
15. The frame in hand when a write fails is neither sent nor counted (LostIsCounted); the wait
    between dials is doubled past its maximum once (WaitsAtMost).

## 5. Mutants

Each property of a passing run has a mutant in its module (comments starting with
"Mutant"): a plausible slip in the code such as removing a connection by machine
name, answering eof before the queue is drained, blaming the account for
what the address did, taking a name off the list whoever holds it by then, or putting
a frame back behind those that came since. TLC finds the property violated by it.

## 6. Proofs

TLC shows a property for the few tokens, connections and calls of a run; the
theorems show it for any of them and for any number of steps. They assume only the
`ASSUME`s of the modules: tokens, connections and authorization numbers are natural
numbers (the order in which they are drawn), the null values are not among them, the
bounds are natural numbers, the channels and disturbances are those named; the sets
of peers of `ConnCap` are finite, and `Login` has at least one account; a token in
an old database is neither one the upgrade makes nor one an administrator issues;
the commands and inputs a `Policy` run takes are among the shapes the scan can find;
the calls of `McpSessions` and `ShellExec` are numbered from 1, since 0 stands for nobody. The tables
are finite because every step adds at most one entry, not because the sets of names
are: a proof about `Cardinality` says so (`TableOK`).

`TokenRotationProofs`:

- `TypeCorrect`: `TypeOK` is inductive by itself; one lemma per group of actions.
- `RetiredTokensStayRetired`: needs that every token that is or was good has been
  generated (`RetiredInv`), so that a fresh one was never void. `RowSteps` sorts
  all actions into those that promote or commit what is staged and those that
  bring a fresh token; neither can bring a void one back.
- `FormalTokenWasWritten`: the property speaks of the row only, but a commit
  happens long after the file was written, so the invariant (`WrittenInv`) follows
  the token: a frame carries what its request staged (`Frames`), an affirmative
  reply and a committed request speak of a token that has been written
  (`Replies`), and whoever remembers a token - the agent, a connection, the sweep -
  remembers a written one (`Holders`), which is why a promotion is harmless.
  `Onward` says that a handler never goes back to before its push, which
  keeps late frames and replies of finished requests from being mistaken.
- `LiveConnectionIsRegistered`: inductive given the types.
- `CalmMachineIsNotLockedOut`: "the file holds a good token" does not survive a step by
  itself, since a promotion or a commit of another token would make it void. Under `calm`
  there is at most one new token about (`Alone`), it is the staged one and nobody but the
  refresh that staged it knows it until the agent has written it (`InFlight`), and the
  file holds the staged token once it was written and the formal one before
  (`FileFollows`). So whoever presents or commits a token the file has had does what the
  file wants (`StaysSettled`), and the agent has no reason to go back to its
  previous one (`Undisturbed`): the token its dial has looked up is the file's, which is
  good, so that a 401 it gets is one of those that end `calm`, or finds it without another
  token.

`ApprovalProofs`:

- `TypeCorrect`: inductive by itself.
- `TablesAgree` and `ApprovalImplementsGrants` rest on `IInv`. Its core is
  ownership: a call that asked a local question or took a mark owns its number
  until the operation has run - it has not been run, no other call owns it
  (`Apart`), and it is not the marked one (`CallFits`). Two calls that looked at
  the same mark can both reach `Consume`; only the removal of the mark in the
  same critical section makes one of them the owner. Without ownership neither "at
  most one execution" nor "one verdict" is inductive. The step lemma of the
  refinement (`ImplNext`) maps Consume, Poll and GiveUp to `Settle`, Claim and
  WriteRequest to `Ask`, Remember to `Stand`, Run to `RunUnder`, EndSession to
  `Forget`, and everything else to a stutter.

`LoginProofs`:

- `GrantsStayWithinUses`: the uses left and the uses made of a grant add up to those
  it was issued with (`GrantInv`), whatever number of logins have read the row and
  are about to take one. Only the conditional UPDATE (`TakeGrant`) and the issue move
  either number; a revocation keeps both.
- `CodesAreUsedOnce`: a code that was accepted belongs to an authenticator that has been
  replaced, or is not later than the step the account remembers (`Past`). The step is
  written only if it is later, so a code in the history cannot be accepted
  again; enrolment may set the step back, but under a new authenticator.

- `LocksHoldOff`: every action moves at most one attempt, and one that comes to a place
  where something is compared was at it before or has just been let in (`Moves`,
  `Admitted`).
- `LocksNeedFailures`: no entry counts more failures than there were at its account or
  address, and a lock has its threshold behind it (`Owed`, `LockInv`). A failure adds one
  or begins anew (`OneMore`); making room and the sweep only take entries out.
- `OnlyProofForgives` sorts every step into those the limiter is not told of, failures,
  refusals at the open endpoints and passes (`Untold`, `Blamed`, `Denied`, `Cleared`). The
  first three keep recent counts: room is made and swept among stale entries only
  (`SettledTable`). A pass is by somebody who has shown the password, and the code as
  well if one was asked for, or a grant: what an attempt has shown at each of its places is
  `ShownInv`, and the authenticator it met is the account's or one replaced since.

`HubSessionsProofs` is bookkeeping over the two frame queues. What was typed is fed to the
process, queued at the agent or in a frame (`InputInv`); what was made is shown,
buffered, in the handler's hand or in a frame (`OutputInv`); the end comes last
(`NeverAfter`). How many frames of a kind a session has under way is a cardinality of
positions (`Count`); lemmas say what Append and Tail do to it, and the rest never looks
inside a queue again. Three facts are not obvious: the code stands for complete output only
if the process was reaped before the close frame was sent, and a session whose chunk
somebody had to drop can no longer end with the process's own code, because the same step
has taken it off the table, and a process of which `Close` has cut the input is of a
session that is over, of a connection that is gone, or of one whose queue was full
(`CloseInv`). From the invariant (`SessionInvariant`) follow
`OwnCodeIsComplete`, `EofIsComplete` and `RunningCanBeStopped`.

`AccountsProofs`:

- `HeirsInheritNothing`: every row is its holder's, or was made late by a request that was
  half way when the name changed hands, or is a fingerprint whose registration is under way
  and will take it back (`HeirsInv`). The third case is what makes it inductive: a
  registration binds the fingerprint before it makes the account.
- `OwnersTouchTheirOwn`: the steps of `@mcp` compare the owner in the statement that
  changes the client.
- `UpgradeKeepsTokens`: all tokens are where the columns say (`TokensWhere`), and what an
  opening has behind it is done, by whichever process (`OpenerInv`).
- `RegistrationsAreFew`: within the window the table and the history agree
  (`RateInv`): what is swept out of a full table has left the window. The times of one
  tick are numbered without a gap (`Counting`), therefore a new one is not in the set yet
  and the cardinality of the set is the number of registrations.
- `GrantsDie`, `BoundNeedsCode`: the versions a request has seen are not later than the
  present ones (`CodeInv`, `PasswordInv`), and a grant is of the present password.

`McpProofs`:

- `NobodyIsOrphaned`: a live process is in the tables or in the hands of the call that is
  closing it (`InHand`), who opens holds the mutex, and while somebody does a place is
  kept for the new one (`MutexInv`).
- `JudgedIsTouched`: from the second resolution on, the name a call goes by was judged free on
  a report of the agent (`OpInv`); the report may be old, but what was guarded
  throughout the call was guarded in it.
- `CompleteAnswersAreWhole`: the pieces a command wrote are those in its caller's text,
  in the tail and on the wire, as long as the stream's sentinel has not been read
  (`StreamInv`; `Pieces` is a cardinality of positions, and the lemmas on Append, Tail and
  concatenation are all that looks inside a stream). That the rest of the wire is nobody's when
  the sentinel is read needs the turns (`TurnInv`): the shell has the command of the
  holder of the mutex or none, writes one sentinel per stream and nothing of the command
  behind it, and a caller who leaves before both have come leaves a dead shell.
- `SilenceIsHarmless`: by the order on decisions; the folds over the segments of a command
  are sets of hits, so no induction is needed.
- `NoConnectionIsLost`: `PoolInv` adds that connections are numbered from 1. Without it
  the empty pool, 0, could hide an open connection 0.
- `NoByteIsLost`: the sum of what is read, announced, buffered and dropped is kept by
  every step; that no reader sleeps through a change needs that a reader's channel was
  made before the present one (`MadeBefore`).

`HostProofs`:

- `MirrorsStayInOrder`: what the list, an opener or the sweep refers to has been started
  (`HeldAreStarted`), and an opener about to register has a process nobody else has,
  under the name it asked for (`OpenersFit`). The limit follows since the mirrors kept
  inject into the names taken.
- `OutputIsWhole`: what a viewer was sent and what is queued for it are runs, one begins where
  the other ends, and for one that is still attached they reach to the last piece
  (`AttInv`).
- `EveryAgentIsTold`: an agent that has arrived was told the tag, or has still to compare it
  with the one it read, or is before the scan (`Informed`).
- `FeedKeepsOrder`: arrived, then in hand, then queued, each in order (`InLine`); arrived,
  dropped and queued are together no more than were emitted (`Counted`).

`EntryProofs`:

- `ApprovalIsEarned`: a request answered as approved has a grant (`Granted`), and a grant
  is by who signed in for its request and was fit when its row was inserted, or late
  (`GrantInv`). A callback knows who came from the ID token, which names the request, and
  what it has looked up still holds unless a change has taken just that away (`StillSo`,
  `CallInv`): the three look-ups are statements of their own, so nothing stronger is true.
- `AnswerIsFinal`: a request that has been answered is off the table (`ReqInv`).
- `PlacesAgree`: the two counters are the cardinalities of the sets of open connections
  (`CapInv`); an accepted one is new to them, and a close takes an element out of them
  once, since a connection that is no longer open releases nothing. The limits hold
  because the acquisition looks first.

The invariants were checked by TLC on the instances of the runs as well:
`WrittenInv` and `CalmInv` on `token_safety`, `IInv` on `approval` and on `session_safety`, `GrantInv`,
`CodeInv`, `ShownInv`, `LockInv`, `FlowInv` and `CapInv` on `login`, `SelfInv`,
`UpgradeInv`, `HeirsInv` and `RateInv` on `accounts`, `SessionsInv` on `mcp_sessions`, `PoolInv`,
`FilesInv`, `PolicyInv`, `ShellInv` and those of the terminal on `mcp_calls`, `StreamInv`, `UpdateInv`,
`FeedInv` and that of the registry on `host`.

Only model-checked:

- the liveness properties (SelfHeals, RevocationTakesEffect, EndIsTold, NothingIsLeft,
  CallReturns, SessionsEnd), because fairness and ENABLED are out of the prover's reach;
- the violations.

No module declares a RECURSIVE operator.

## 7. What the models leave out

- Agent tokens: the allow-list of an account (its 403 refuses without changing
  state), refreshing several machines in one request (one after the other),
  rename and removal of a machine while a refresh is under way (`Accounts` has them
  without the refresh).
- Sessions: window changes, wording of notices, the fallback from a terminal to pipes.
- Approval: the wording of the question, collisions of random numbers, several request keys at once (they
  share no entry).
- Login: what bcrypt and HMAC compute.
- OAuth: tokens, signatures and the discovery document; what the provider says is a
  choice among the answers the code tells apart.
- Accounts: the encryption of columns, listings, the invite code (a comparison of two
  strings), audit entries.
- MCP server: the limit on the text of a result (`CapWriter` cuts it and says so), how a
  command line is cut into segments, what a program prints, the configuration file.
- Mirror: filtering of escape sequences in the replay, the alternate screen, the permissions of the socket.
- Update: the signature, the replacement on Windows, where a running program cannot
  be renamed over, and the wording of the report.

Not modelled:

- *Agent presence and lock* (`presence.go`, `agentlock*.go`): the counter is kept under
  one lock and the notices go out after it is given back, in no promised order; the file lock is the
  operating system's, and a process that dies gives it up. What remains is
  asking whether a process number is alive, which the operating system decides.
- *Audit log*: lines appended under a lock, and their aggregation. Events are history variables
  of the other modules.
- *Address lists*: prefixes are parsed and matched; no state.
- *Configuration, installation, services, pages, certificates*: input and output without a
  protocol of their own.

## 8. The plan

Done: agent tokens, sessions, approval, login, OAuth, accounts, self-service, MCP
sessions and calls, mirrors, updates, the feed; proofs of the safety properties of all
of them. Next, in this order:

1. an abstract register of credentials (replace, revoke, heal) which `TokenRotation` and the
   tables of `Accounts` are shown to implement;
2. a refresh while its machine is renamed or removed: `TokenRotation` and `Accounts` on one
   database.
