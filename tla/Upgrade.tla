------------------------------ MODULE Upgrade ------------------------------
(***************************************************************************)
(* Store.Open on the database of an older version (accounts.go): columns   *)
(* are added, tokens move from users to machines, owners are guessed once. *)
(* The server and the command line open the file at the same time, and     *)
(* either may be stopped between any two statements.                       *)
(***************************************************************************)
EXTENDS Integers, FiniteSets

CONSTANTS
    Account,        \* accounts of the old database
    Opener,         \* processes that open it
    Self,           \* clients named <account>.<short>, one dot
    Plain,          \* clients whose name tells no account, or more than one
    Issued,         \* a client an administrator issues after the upgrade,
                    \* named <account>.<short> too
    MaxOpens        \* bound: openings

ASSUME UpgradeAssumption ==
    MaxOpens \in Nat /\ Plain \cap (Self \cup Issued) = {}

VARIABLES
    token,          \* where an account's token is: the tables that hold it
    columns,        \* columns the tables have
    owned,          \* mcp_clients: those that are there, and whether owned
    opener, opens

uvars == <<token, columns, owned, opener, opens>>

\* in the order they are added
Later == <<"users.oauth_only", "machines.oauth_only",
           "machines.pending_token_enc", "mcp_clients.owner">>
New == {"users.ssh_pubkeys"} \cup {Later[n] : n \in DOMAIN Later}
Shut == [pc |-> "shut", had |-> FALSE, todo |-> {}]

UpgradeInit ==
    /\ token = [a \in Account |-> {"users"}]
    /\ columns = {"users.token_enc"}
    /\ owned = [c \in Self \cup Plain |-> FALSE]
    /\ opener = [o \in Opener |-> Shut] /\ opens = 0

Step(o, from, to) == opener[o].pc = from /\ opener' = [opener EXCEPT ![o].pc = to]

\* CREATE TABLE IF NOT EXISTS for all of them
Open(o) ==
    /\ opens < MaxOpens /\ opens' = opens + 1
    /\ Step(o, "shut", "keys")
    /\ UNCHANGED <<token, columns, owned>>

\* ensureColumn: PRAGMA table_info, and ALTER TABLE when the column is not
\* there.  Where another process adds it in between, Open fails: Stop.
ensureColumn(o, from, to, cols) ==
    /\ opener[o].pc = from
    /\ \/ \E n \in DOMAIN cols :
            /\ cols[n] \notin columns /\ \A i \in 1 .. (n - 1) : cols[i] \in columns
            /\ columns' = columns \cup {cols[n]} /\ UNCHANGED opener
       \/ /\ \A n \in DOMAIN cols : cols[n] \in columns
          /\ Step(o, from, to) /\ UNCHANGED columns
    /\ UNCHANGED <<token, owned, opens>>

hasTokens(o) ==
    /\ Step(o, "machines", IF "users.token_enc" \in columns THEN "move" ELSE "had")
    /\ UNCHANGED <<token, columns, owned, opens>>

\* Mutant of TokensSurvive: the users are rebuilt before the tokens are moved.
MoveLater == [a \in Account |-> token[a] \ {"users"}]
\* INSERT INTO machines ... SELECT, and the table of users rebuilt without the
\* column: one transaction.
Moved == [a \in Account |-> {"machines"}]

\* The transaction fails, and Open with it, when another has done it.
migrateMachines(o) ==
    /\ opener[o].pc = "move"
    /\ IF "users.token_enc" \in columns
         THEN /\ token' = Moved /\ columns' = columns \ {"users.token_enc"}
              /\ Step(o, "move", "had")
         ELSE /\ opener' = [opener EXCEPT ![o] = Shut] /\ UNCHANGED <<token, columns>>
    /\ UNCHANGED <<owned, opens>>

\* hadOwner: is there an owner column before this opening adds it?
Had(o) ==
    /\ opener[o].pc = "had"
    /\ opener' = [opener EXCEPT ![o].pc = "columns", ![o].had = "mcp_clients.owner" \in columns]
    /\ UNCHANGED <<token, columns, owned, opens>>

\* backfillMCPOwner's rule: exactly one dot, and an account before it
Unambiguous(c) == c \in Self \cup Issued

\* SELECT ... WHERE owner = '', unless there was a column before.
ReadUnowned(o) ==
    /\ opener[o].pc = "backfill"
    /\ opener' = [opener EXCEPT
          ![o].pc = "write",
          ![o].todo = IF opener[o].had THEN {}
                      ELSE {c \in DOMAIN owned : ~ owned[c] /\ Unambiguous(c)}]
    /\ UNCHANGED <<token, columns, owned, opens>>

\* UPDATE ... WHERE name, one client at a time
SetOwner(o, c) ==
    /\ opener[o].pc = "write" /\ c \in opener[o].todo
    /\ owned' = [owned EXCEPT ![c] = TRUE]
    /\ opener' = [opener EXCEPT ![o].todo = @ \ {c}]
    /\ UNCHANGED <<token, columns, opens>>
Opened(o) ==
    /\ opener[o].todo = {} /\ Step(o, "write", "open")
    /\ UNCHANGED <<token, columns, owned, opens>>

\* mcp add by an administrator who has the store open
Issue(o) ==
    /\ opener[o].pc = "open"
    /\ \E c \in Issued \ DOMAIN owned :
          owned' = [x \in DOMAIN owned \cup {c} |-> IF x = c THEN FALSE ELSE owned[x]]
    /\ UNCHANGED <<token, columns, opener, opens>>

\* The process ends, at any point; or Open fails and gives the file up.
Stop(o) ==
    /\ opener[o].pc # "shut" /\ opener' = [opener EXCEPT ![o] = Shut]
    /\ UNCHANGED <<token, columns, owned, opens>>

UpgradeNext ==
    \E o \in Opener :
       \/ Open(o) \/ hasTokens(o) \/ migrateMachines(o) \/ Had(o)
       \/ ensureColumn(o, "keys", "machines", <<"users.ssh_pubkeys">>)
       \/ ensureColumn(o, "columns", "backfill", Later)
       \/ ReadUnowned(o) \/ Opened(o) \/ Issue(o) \/ Stop(o)
       \/ \E c \in Self \cup Plain \cup Issued : SetOwner(o, c)

\* Every account's agent token is in exactly one table at all times, wherever
\* the openings are cut short, and a process that has the store open finds the
\* tables complete, the tokens with the machines, and no client in the hands of
\* an account its name does not tell.
TokensSurvive ==
    /\ \A a \in Account : Cardinality(token[a]) = 1
    /\ \A o \in Opener : opener[o].pc = "open" =>
          /\ New \subseteq columns /\ "users.token_enc" \notin columns
          /\ \A a \in Account : token[a] = {"machines"}
    /\ \A c \in Plain : ~ owned[c]

\* What Open says of an administrator's client: that no later start adopts it
\* for the account in its name.  Not so for one issued, by a process that found
\* the column, before the process that added it has read the list.
IssuedStaysIssued == \A c \in Issued \cap DOMAIN owned : ~ owned[c]

\* The owners of the old clients are found.  Not so when the opening that added
\* the column is cut short: the next takes the column for a finished upgrade.
OwnersFound ==
    \A o \in Opener, c \in Self :
       /\ opener[o].pc = "open"
       /\ \A p \in Opener \ {o} : opener[p].pc \in {"open", "shut"}
       => owned[c]
=============================================================================
