------------------------------ MODULE Accounts ------------------------------
(***************************************************************************)
(* The account database as its users change it at the same time: machines  *)
(* that register themselves, owners with management commands, the command  *)
(* line of the administrator (a process of its own).  Every statement or   *)
(* transaction is one step; a handler is a sequence of them with whatever  *)
(* others do in between.  A row carries, as history, for whom it was made, *)
(* so that what the next holder of a name inherits can be told.            *)
(***************************************************************************)
EXTENDS Integers, FiniteSets

CONSTANTS
    Name,           \* account names
    Fingerprint, Identity, Key,     \* hardware, OAuth subjects, SSH keys
    MachineName,
    Owned,          \* the account there is at first
    Admin,          \* no account: the administrator
    Worker,         \* requests and commands under way at once
    Twins,          \* two registrations may ask for one name (a retry)
    Manned,         \* an administrator is at work
    MaxJobs,        \* bound: requests and commands
    MaxCrash        \* bound: server restarts

ASSUME AccountsAssumption ==
    /\ Owned \in Name /\ Admin \notin Name /\ {MaxJobs, MaxCrash} \subseteq Nat /\ {Twins, Manned} \subseteq BOOLEAN
    /\ "default" \in MachineName

VARIABLES
    users,          \* users: who holds a name, and the SSH keys
    rows,           \* machines, register_fps, oauth_identities, ssh_grants
    clients,        \* mcp_clients, by full name
    job,            \* what each worker is doing
    jobs,           \* bound: jobs begun; a job's number names who asked
    born,           \* history: the fingerprint an account registered with
    crashes         \* bound

avars == <<users, rows, clients, job, jobs, born, crashes>>


Asker == 0 .. MaxJobs
User == [by : Asker, keys : SUBSET Key]
Row == [kind : {"machine", "fp", "identity", "grant"}, by : Asker, user : Name,
        key : MachineName \cup Fingerprint \cup Identity, late : BOOLEAN]
\* A client's name is the account's and a short name; the administrator's has
\* no account.  Short names are one and the same here.
Client == [owner : Name \cup {Admin}, by : Asker, told : SUBSET (Asker \cup {Admin})]
Op == {"register", "join", "machine", "addkey", "rmkey", "identity", "grant",
       "self", "hand", "rename", "release"}
Job == [op : Op, pc : {"look", "bind", "add", "release", "custom", "insert",
                       "drop", "get", "act"},
        by : Asker,
        u : Name \cup {Admin}, to : Name \cup {Admin},
        key : MachineName \cup Key \cup Identity, fp : Fingerprint,
        seen : SUBSET Key, mine : BOOLEAN]
None == [op |-> "none"]

AccountsTypeOK ==
    /\ DOMAIN users \subseteq Name /\ \A u \in DOMAIN users : users[u] \in User
    /\ rows \subseteq Row
    /\ \A c \in DOMAIN clients : clients[c] \in Client
    /\ job \in [Worker -> Job \cup {None}]
    \* the primary keys of the four tables
    /\ \A r, s \in rows :
          r.kind = s.kind /\ r.key = s.key /\ r # s => r.kind \in {"machine", "grant"}
    /\ \A r, s \in rows :
          r.kind = "machine" /\ s.kind = "machine" /\ r.key = s.key /\ r.user = s.user
          => r = s

Has(u) == u \in DOMAIN users
Put(f, x, v) == [y \in DOMAIN f \cup {x} |-> IF y = x THEN v ELSE f[y]]
RowOf(k, u, key) == {r \in rows : r.kind = k /\ r.user = u /\ r.key = key}
\* UNIQUE(username, name): a machine left under a name keeps others from it.
Clash(u, v) == \E r \in rows : r.kind = "machine" /\ r.user = u
                              /\ RowOf("machine", v, r.key) # {}

\* An account in use, made by its own machine or by the administrator
AccountsInit ==
    /\ users = [u \in {Owned} |-> [by |-> 0, keys |-> {}]]
    /\ \E F \in SUBSET Fingerprint : rows =
            {[kind |-> k[1], by |-> 0, user |-> Owned, key |-> k[2], late |-> FALSE] :
                 k \in {"machine", "grant"} \X {"default"}
                       \cup {"fp"} \X F \cup {"identity"} \X Identity}
    /\ clients = [c \in {Owned} |-> [owner |-> Owned, by |-> 0, told |-> {0}]]
    /\ job = [w \in Worker |-> None] /\ jobs = 0
    /\ born = <<>> /\ crashes = 0

-----------------------------------------------------------------------------
(* Beginning and ending a job.                                             *)

\* u is the account it is about, by who asked: whoever holds the account now,
\* or the newcomer.
Begun(w, op, pc, u, by, to, key, fp) ==
    /\ job[w] = None /\ jobs < MaxJobs /\ jobs' = jobs + 1
    /\ \A v \in Worker : v < w => job[v] # None   \* workers are alike
    /\ job' = [job EXCEPT ![w] =
                 [op |-> op, pc |-> pc, by |-> by, u |-> u, to |-> to,
                  key |-> key, fp |-> fp, seen |-> {}, mine |-> FALSE]]
    /\ UNCHANGED <<users, rows, clients, born, crashes>>

AnyFp == CHOOSE f \in Fingerprint : TRUE
ForOwner(w, op, pc, u, key) ==
    Has(u) /\ Begun(w, op, pc, u, users[u].by, u, key, AnyFp)

\* A job of this asker is still under way.
UnderWayBy(p) == \E w \in Worker : job[w] # None /\ job[w].by = p
Goto(w, pc) == job' = [job EXCEPT ![w].pc = pc]
Finish(w) == job' = [job EXCEPT ![w] = None]
At(w, op, pc) == job[w].op = op /\ job[w].pc = pc

\* A row made for the one who asked; late when he no longer has the account.
NewRow(j, kind, key) ==
    [kind |-> kind, by |-> j.by, user |-> j.u, key |-> key,
     late |-> IF Has(j.u) THEN users[j.u].by # j.by
              ELSE j.op # "register" \/ j.pc = "insert"]

-----------------------------------------------------------------------------
(* POST /register.                                                         *)

\* The limits, the invitation and the form of the request are behind it.
handleRegister(w, u, f, m) ==
    /\ Twins \/ \A v \in Worker : job[v] # None /\ job[v].op = "register" => job[v].u # u
    /\ Begun(w, "register", "look", u, jobs + 1, u, m, f)

\* FingerprintAccount: a machine that has an account is sent away.
Look(w) ==
    /\ At(w, "register", "look")
    /\ IF \E r \in rows : r.kind = "fp" /\ r.key = job[w].fp THEN Finish(w)
       ELSE Goto(w, "bind")
    /\ UNCHANGED <<users, rows, clients, jobs, born, crashes>>

\* INSERT OR IGNORE, then whose it is.  mine is "inserted".
BindFingerprint(w) ==
    LET j == job[w]  taken == {r \in rows : r.kind = "fp" /\ r.key = j.fp} IN
    /\ j.op \in {"register", "join"} /\ j.pc = "bind"
    /\ IF taken = {}
         THEN /\ rows' = rows \cup {NewRow(j, "fp", j.fp)}
              /\ job' = [job EXCEPT ![w].mine = TRUE,
                                    ![w].pc = IF j.op = "join" THEN "get" ELSE "add"]
         ELSE /\ IF \A r \in taken : r.user = j.u
                   THEN Goto(w, IF j.op = "join" THEN "get" ELSE "add")
                   ELSE Finish(w)
              /\ UNCHANGED rows
    /\ UNCHANGED <<users, clients, jobs, born, crashes>>

\* Store.Add, one transaction; ok is a password it takes.  The account comes
\* with a machine.
Add(w, ok) ==
    LET j == job[w] IN
    /\ At(w, "register", "add")
    /\ IF ok /\ ~ Has(j.u) /\ RowOf("machine", j.u, "default") = {}
         THEN /\ users' = Put(users, j.u, [by |-> j.by, keys |-> {}])
              /\ rows' = rows \cup {NewRow(j, "machine", "default")}
              /\ born' = Put(born, j.by, j.fp)
              /\ IF j.key = "default" THEN Finish(w) ELSE Goto(w, "custom")
         ELSE /\ IF j.mine THEN Goto(w, "release") ELSE Finish(w)
              /\ UNCHANGED <<users, rows, born>>
    /\ UNCHANGED <<clients, jobs, crashes>>

ReleaseFingerprint(w) ==
    /\ At(w, "register", "release")
    /\ rows' = rows \ RowOf("fp", job[w].u, job[w].fp) /\ Finish(w)
    /\ UNCHANGED <<users, clients, jobs, born, crashes>>

\* The machine Add made is dropped for the one that was asked for.
DropDefault(w) ==
    /\ At(w, "register", "drop")
    /\ rows' = {r \in rows : ~ (/\ r.user = job[w].u /\ r.kind \in {"machine", "grant"}
                                /\ r.key = "default")}
    /\ Finish(w)
    /\ UNCHANGED <<users, clients, jobs, born, crashes>>

-----------------------------------------------------------------------------
(* POST /register/machine: a machine joins an account by password.         *)

handleMachineRegister(w, u, f, m) ==
    Has(u) /\ Begun(w, "join", "look", u, users[u].by, u, m, f)

JoinLook(w) ==      \* FingerprintAccount
    LET taken == {r \in rows : r.kind = "fp" /\ r.key = job[w].fp} IN
    /\ At(w, "join", "look")
    /\ IF taken = {} THEN Goto(w, "bind")
       ELSE IF \A r \in taken : r.user = job[w].u THEN Goto(w, "get") ELSE Finish(w)
    /\ UNCHANGED <<users, rows, clients, jobs, born, crashes>>

\* GetMachine: a machine that is there gets a new token and is the newcomer's
\* from now on (RegenMachineToken, which fails if it has gone).
JoinGet(w) ==
    LET j == job[w] IN
    /\ At(w, "join", "get")
    /\ Goto(w, IF RowOf("machine", j.u, j.key) # {} THEN "act" ELSE "custom")
    /\ UNCHANGED <<users, rows, clients, jobs, born, crashes>>

RegenMachineToken(w) ==
    At(w, "join", "act") /\ Finish(w)
    /\ UNCHANGED <<users, rows, clients, jobs, born, crashes>>

-----------------------------------------------------------------------------
(* AddMachine: is there such an account?  Then the row; a name that is     *)
(* taken is refused.  @machine add, machine add, both registrations.       *)

machineAdd(w, u, m) == ForOwner(w, "machine", "custom", u, m)

AddMachineLook(w) ==
    LET j == job[w] IN
    /\ j.op \in {"machine", "register", "join"} /\ j.pc = "custom"
    /\ IF Has(j.u) THEN Goto(w, "insert") ELSE Finish(w)
    /\ UNCHANGED <<users, rows, clients, jobs, born, crashes>>

\* Mutant of AccountsTypeOK: the table has no unique name in an account.
FreeAlways(u, m) == TRUE
FreeMachine(u, m) == RowOf("machine", u, m) = {}

AddMachine(w) ==
    LET j == job[w]  free == FreeMachine(j.u, j.key) IN
    /\ j.op \in {"machine", "register", "join"} /\ j.pc = "insert"
    /\ rows' = IF free THEN rows \cup {NewRow(j, "machine", j.key)} ELSE rows
    /\ IF free /\ j.op = "register" THEN Goto(w, "drop") ELSE Finish(w)
    /\ UNCHANGED <<users, clients, jobs, born, crashes>>

\* BindOAuthIdentity, and CreateSSHGrant at the end of an OAuth login: what
\* must exist is looked up, then the row is written.
identityBind(w, u, i) == ForOwner(w, "identity", "insert", u, i)
oauthGrant(w, u) ==
    RowOf("machine", u, "default") # {} /\ ForOwner(w, "grant", "insert", u, "default")

WriteRow(w) ==
    LET j == job[w] IN
    /\ j.op \in {"identity", "grant"} /\ j.pc = "insert"
    /\ rows' = IF \E r \in rows : r.kind = "identity" /\ j.op = "identity" /\ r.key = j.key
                 THEN rows ELSE rows \cup {NewRow(j, j.op, j.key)}
    /\ Finish(w)
    /\ UNCHANGED <<users, clients, jobs, born, crashes>>

-----------------------------------------------------------------------------
(* What the administrator does in one transaction (users.go, machines.go). *)

Command == Manned /\ jobs < MaxJobs /\ jobs' = jobs + 1 /\ UNCHANGED <<job, born, crashes>>

\* user add; its keys follow one by one (addkey).
AddUser(u) ==
    /\ Command /\ ~ Has(u) /\ RowOf("machine", u, "default") = {}
    /\ users' = Put(users, u, [by |-> jobs + 1, keys |-> {}])
    /\ rows' = rows \cup {[kind |-> "machine", by |-> jobs + 1, user |-> u,
                           key |-> "default", late |-> FALSE]}
    /\ UNCHANGED clients

\* Mutant of HeirsStartClean: the identities stay.
RemoveKeepsIdentities(u) == {r \in rows : r.user # u \/ r.kind = "identity"}
\* The rows Store.Remove leaves; the MCP clients it does not look at.
Left(u) == {r \in rows : r.user # u}

Remove(u) ==
    /\ Command /\ Has(u)
    /\ users' = [v \in DOMAIN users \ {u} |-> users[v]] /\ rows' = Left(u)
    /\ UNCHANGED clients

RemoveMachine(u, m) ==
    /\ Command /\ RowOf("machine", u, m) # {}
    /\ rows' = rows \ (RowOf("machine", u, m) \cup RowOf("grant", u, m))
    /\ UNCHANGED <<users, clients>>

UnbindOAuthIdentity(i) ==
    /\ Command
    /\ rows' = {r \in rows : ~ (r.kind = "identity" /\ r.key = i)} /\ rows' # rows
    /\ UNCHANGED <<users, clients>>

\* Store.Rename: is the new name free?  Then one transaction, which fails when
\* the name has been taken or the account has gone.
userRename(w, u, v) == Manned /\ Has(u) /\ ~ Has(v) /\
    Begun(w, "rename", "act", u, users[u].by, v, "default", AnyFp)

\* Mutant of HeirsStartClean: the fingerprints stay with the old name.
RenamedButFp(r, u, v) ==
    IF r.user = u /\ r.kind # "fp" THEN [r EXCEPT !.user = v] ELSE r
\* A row whose request is half way goes along, with somebody else's name.
Renamed(r, u, v) ==
    IF r.user = u THEN [r EXCEPT !.user = v, !.late = @ \/ r.by # users[u].by] ELSE r

Rename(w) ==
    LET u == job[w].u  v == job[w].to IN
    /\ At(w, "rename", "act") /\ Finish(w)
    /\ IF Has(u) /\ ~ Has(v) /\ ~ Clash(u, v)
         THEN /\ users' = [x \in (DOMAIN users \ {u}) \cup {v} |->
                             IF x = v THEN users[u] ELSE users[x]]
              /\ rows' = {Renamed(r, u, v) : r \in rows}
         ELSE UNCHANGED <<users, rows>>
    /\ UNCHANGED <<clients, jobs, born, crashes>>

\* machine fingerprint release: whose it is, the owner's password unless an
\* administrator asks, then the row goes, whosever it is by then.
fingerprintRelease(w, f) ==
    \E r \in rows : /\ r.kind = "fp" /\ r.key = f
                    /\ Begun(w, "release", "act", r.user, r.by, r.user, "default", f)

ForceRelease(w) ==
    /\ At(w, "release", "act") /\ Finish(w)
    /\ rows' = {r \in rows : ~ (r.kind = "fp" /\ r.key = job[w].fp)}
    /\ UNCHANGED <<users, clients, jobs, born, crashes>>

-----------------------------------------------------------------------------
(* SSH keys: the list is read, changed and written back (sshkeys.go); by   *)
(* @sshkey, by POST /sshkey and by user set.                               *)

sshkey(w, u, op, k) == op \in {"addkey", "rmkey"} /\ ForOwner(w, op, "get", u, k)

ReadKeys(w) ==
    LET j == job[w] IN
    /\ j.op \in {"addkey", "rmkey"} /\ j.pc = "get"
    /\ IF Has(j.u) /\ (j.op = "addkey" <=> j.key \notin users[j.u].keys)
         THEN job' = [job EXCEPT ![w].pc = "act", ![w].seen = users[j.u].keys]
         ELSE Finish(w)     \* no such account; nothing to add or to remove
    /\ UNCHANGED <<users, rows, clients, jobs, born, crashes>>

WriteKeys(w) ==
    LET j == job[w] IN
    /\ j.op \in {"addkey", "rmkey"} /\ j.pc = "act" /\ Finish(w)
    /\ users' = IF ~ Has(j.u) THEN users
                ELSE [users EXCEPT ![j.u].keys =
                        IF j.op = "addkey" THEN j.seen \cup {j.key} ELSE j.seen \ {j.key}]
    /\ UNCHANGED <<rows, clients, jobs, born, crashes>>

ClearSSHKeys(u) ==
    /\ Command /\ Has(u) /\ users[u].keys # {}
    /\ users' = [users EXCEPT ![u].keys = {}] /\ UNCHANGED <<rows, clients>>

-----------------------------------------------------------------------------
(* MCP clients (accounts/mcp.go).  told is who has been shown the token.   *)

\* @mcp add by the owner, mcp add by the administrator for himself
MCPAdd(c) ==
    /\ Command /\ c \notin DOMAIN clients
    /\ c # Admin => Has(c)
    /\ clients' = LET by == IF c = Admin THEN 0 ELSE users[c].by
                      to == IF c = Admin THEN Admin ELSE users[c].by
                  IN  Put(clients, c, [owner |-> c, by |-> by, told |-> {to}])
    /\ UNCHANGED <<users, rows>>

\* mcp token --regen and mcp remove reach every client.
MCPRemove(c) ==
    /\ Command /\ c \in DOMAIN clients
    /\ clients' = [x \in DOMAIN clients \ {c} |-> clients[x]]
    /\ UNCHANGED <<users, rows>>
MCPRegenToken(c) ==
    /\ Command /\ c \in DOMAIN clients
    /\ clients' = [clients EXCEPT ![c].told = {Admin}]
    /\ UNCHANGED <<users, rows>>

\* @mcp token, remove and set: MCPOwnedGet first.
mgmtMCP(w, u) ==
    /\ u \in DOMAIN clients /\ clients[u].owner = u
    /\ ForOwner(w, "self", "act", u, "default")

\* Mutant of OwnersOnly: found by its name alone, as the administrator does.
KeyWhereName(u) == DOMAIN clients \cap {u}
\* mcpKeyWhere: by owner and name, once more in the statement itself
mcpKeyWhere(u) == {c \in DOMAIN clients : c = u /\ clients[c].owner = u}

MCPOwned(w) ==
    LET hit == mcpKeyWhere(job[w].u)  by == job[w].by IN
    /\ At(w, "self", "act") /\ Finish(w)
    /\ \/ clients' = [c \in DOMAIN clients |->              \* --regen
                        IF c \in hit THEN [clients[c] EXCEPT !.told = {by}] ELSE clients[c]]
       \/ clients' = [c \in DOMAIN clients |->              \* show
                        IF c \in hit THEN [clients[c] EXCEPT !.told = @ \cup {by}] ELSE clients[c]]
       \/ clients' = [c \in DOMAIN clients \ hit |-> clients[c]]
    /\ UNCHANGED <<users, rows, jobs, born, crashes>>

\* MCPSetOwner: the client, the account it goes to, the UPDATE.  A client that
\* is taken back keeps its name.
mcpSetOwner(w, c, to) ==
    /\ c \in DOMAIN clients /\ (to # Admin => Has(to))
    /\ Begun(w, "hand", "act", c, 0, to, "default", AnyFp)

MCPSetOwner(w) ==
    LET c == job[w].u  to == job[w].to  name == IF to = Admin THEN c ELSE to
        by == IF to # Admin /\ Has(to) THEN users[to].by ELSE 0 IN
    /\ At(w, "hand", "act") /\ Finish(w)
    /\ clients' =
         IF c \notin DOMAIN clients \/ (name # c /\ name \in DOMAIN clients)
           THEN clients
         ELSE [x \in (DOMAIN clients \ {c}) \cup {name} |->
                 IF x # name THEN clients[x]
                 ELSE [clients[c] EXCEPT !.owner = to, !.by = by]]
    /\ UNCHANGED <<users, rows, jobs, born, crashes>>

-----------------------------------------------------------------------------
\* The server stops and starts: what its handlers had begun is left as it is.
Crash ==
    /\ crashes < MaxCrash /\ crashes' = crashes + 1
    /\ \E w \in Worker : job[w] # None
    /\ job' = [w \in Worker |-> None]
    /\ rows' = {[r EXCEPT !.late = @ \/ UnderWayBy(r.by)] : r \in rows}
    /\ UNCHANGED <<users, clients, jobs, born>>

Jobs(w) ==
    \/ Look(w) \/ BindFingerprint(w) \/ ReleaseFingerprint(w) \/ DropDefault(w)
    \/ \E ok \in BOOLEAN : Add(w, ok)
    \/ JoinLook(w) \/ JoinGet(w) \/ RegenMachineToken(w)
    \/ AddMachineLook(w) \/ AddMachine(w) \/ WriteRow(w) \/ Rename(w)
    \/ ForceRelease(w) \/ ReadKeys(w) \/ WriteKeys(w) \/ MCPOwned(w) \/ MCPSetOwner(w)

Begins(w) ==
    \/ \E u \in Name, f \in Fingerprint, m \in MachineName :
          handleRegister(w, u, f, m) \/ handleMachineRegister(w, u, f, m)
    \/ \E u \in Name, m \in MachineName : machineAdd(w, u, m)
    \/ \E u \in Name, i \in Identity : identityBind(w, u, i)
    \/ \E u \in Name : oauthGrant(w, u) \/ mgmtMCP(w, u)
    \/ \E u, v \in Name : userRename(w, u, v)
    \/ \E f \in Fingerprint : fingerprintRelease(w, f)
    \/ \E u \in Name, k \in Key, op \in Op : sshkey(w, u, op, k)
    \/ \E c, to \in Name \cup {Admin} : mcpSetOwner(w, c, to)

AccountsNext ==
    \/ \E w \in Worker : Begins(w) \/ Jobs(w)
    \/ \E u \in Name : AddUser(u) \/ Remove(u) \/ ClearSSHKeys(u)
    \/ \E u \in Name, m \in MachineName : RemoveMachine(u, m)
    \/ \E i \in Identity : UnbindOAuthIdentity(i)
    \/ \E c \in Name \cup {Admin} : MCPAdd(c) \/ MCPRemove(c) \/ MCPRegenToken(c)
    \/ Crash

AccountsSpec == AccountsInit /\ [][AccountsNext]_avars

-----------------------------------------------------------------------------
(* Properties.                                                             *)

\* Whoever gets a name, by registering, from the administrator or by a change
\* of name, finds none of the machines, fingerprints, identities and grants of
\* those who had it before, except what a request of theirs was half way
\* through when the name changed hands.
HeirsStartClean ==
    \A r \in rows : Has(r.user) /\ ~ r.late /\ ~ UnderWayBy(r.by)
                    => r.by = users[r.user].by

\* With @mcp an account's owner touches, and is shown the token of, no client
\* that is not the account's at that moment, whatever an administrator hands
\* around between the command's look and its statement.
OwnersOnly ==
    [][\A w \in Worker, c \in DOMAIN clients :
          /\ job[w].op = "self" /\ job'[w] # job[w]
          /\ ~ (c \in DOMAIN clients' /\ clients'[c] = clients[c])
          => clients[c].owner = job[w].u]_avars

\* What the registration promises: one machine, one account, with no help from
\* an administrator.  Not so: of two requests for one name the first binds the
\* fingerprint, the second may be the one that makes the account, and the first
\* then takes the binding away.
OneAccountPerMachine ==
    \A u, v \in DOMAIN users :
       /\ users[u].by \in DOMAIN born /\ users[v].by \in DOMAIN born
       /\ born[users[u].by] = born[users[v].by]
       => u = v

\* What Store.Remove says of identities, asked of the MCP clients: the next
\* holder of a name inherits none.  Not so.
ClientsStartClean ==
    \A c \in DOMAIN clients :
       clients[c].owner # Admin /\ Has(clients[c].owner)
       => clients[c].by = users[clients[c].owner].by

\* A key that has been removed stays removed.  Not so: an addition that read
\* the list before writes it back.
RemovalsHold ==
    [][\A u \in DOMAIN users \cap DOMAIN users', k \in Key :
          k \in users'[u].keys \ users[u].keys
          => \E w \in Worker : job[w].op = "addkey" /\ job[w].u = u /\ job[w].key = k]_avars

\* A machine whose registration was cut short can register.  Not so: the
\* fingerprint stays bound to an account that was never made.
NoSquatter ==
    \A r \in rows : r.kind = "fp" /\ ~ Has(r.user)
                    => \E w \in Worker : job[w] # None /\ job[w].u = r.user
=============================================================================
