----------------------------- MODULE SelfUpdate -----------------------------
(***************************************************************************)
(* New versions (server.go, hub.go, client.go, selfupdate.go): the server  *)
(* finds a tag and tells the agents that are behind, one that connects is  *)
(* told too; the agent waits for its mirror terminals, downloads beside    *)
(* its own file, checks, renames and restarts.  The flag that one update   *)
(* runs at a time belongs to a connection, of which an agent may have had  *)
(* several.  Files are inodes; a tag is a number.  POSIX only.             *)
(***************************************************************************)
EXTENDS Naturals, FiniteSets

CONSTANTS
    Link,           \* connections of one agent, one after the other
    MaxTag,         \* bound: the newest release; the first agent runs 1
    MaxCrashes      \* bound: crashes of the agent

ASSUME UpdateAssumption == IsFiniteSet(Link) /\ Link # {} /\ {MaxTag, MaxCrashes} \subseteq Nat

VARIABLES
    latest,         \* latestTag
    scan,           \* checkLatestOnce: the agents still to tell
    wire,           \* each connection: in the hub, told at its start, and of what
    updater,        \* autoUpdate of each connection
    proc,           \* the agent: version running, a busy mirror, crashes, the damage
    disk,           \* the inode under each name, 0 if none
    inode           \* what each holds

uvars == <<latest, scan, wire, updater, proc, disk, inode>>

Tag == 1 .. MaxTag
NoUpdater == [pc |-> "idle"]
Inode == 1 .. 3 + Cardinality(Link)
NewInode == [tags |-> {}, last |-> "", full |-> FALSE]

UpdateInit ==
    /\ latest = 1 /\ scan = [pc |-> "idle", todo |-> {}]
    /\ wire = [c \in Link |-> [st |-> "none", told |-> 0, read |-> 0]]
    /\ updater = [c \in Link |-> NoUpdater]
    /\ proc = [ver |-> 1, up |-> TRUE, busy |-> FALSE, crashes |-> 0, cut |-> FALSE]
    /\ disk = [exe |-> 1, old |-> 0, tmp |-> 0]
    /\ inode = [i \in Inode |-> IF i = 1 THEN [tags |-> {1}, last |-> "", full |-> TRUE] ELSE NewInode]

\* All of one release, and nothing missing.
Whole(i) == i # 0 /\ inode[i].full /\ Cardinality(inode[i].tags) = 1
VerOf(i) == CHOOSE t \in inode[i].tags : TRUE

\* st: "new" in the hub, "read" the tag for its greeting, "in"; then "gone"
Linked(c) == wire[c].st \in {"new", "read", "in"}

-----------------------------------------------------------------------------
(* The server tells.                                                       *)

\* onUpgrade: newer than what runs, and no update under way on this connection.
Tell(c, tag, st) ==
    /\ wire' = [wire EXCEPT ![c].st = st,
                            ![c].told = IF proc.ver < tag /\ @ < tag THEN tag ELSE @]
    /\ updater' = IF proc.ver < tag /\ updater[c] = NoUpdater
                    THEN [updater EXCEPT ![c] = [pc |-> "wait", tag |-> tag]] ELSE updater

Attach(c) ==
    /\ proc.up /\ wire[c].st = "none" /\ \A d \in Link : ~ Linked(d)
    /\ wire' = [wire EXCEPT ![c].st = "new"]
    /\ UNCHANGED <<latest, scan, updater, proc, disk, inode>>

\* It reads the tag, and then sends it.
maybePushUpgrade(c) ==
    /\ \/ /\ wire[c].st = "new" /\ wire' = [wire EXCEPT ![c].st = "read", ![c].read = latest]
          /\ UNCHANGED updater
       \/ wire[c].st = "read" /\ Tell(c, wire[c].read, "in")
    /\ UNCHANGED <<latest, scan, proc, disk, inode>>

Disconnect(c) ==
    /\ Linked(c) /\ wire' = [wire EXCEPT ![c].st = "gone"]
    /\ UNCHANGED <<latest, scan, updater, proc, disk, inode>>

checkLatestOnce ==
    /\ scan.pc = "idle" /\ latest < MaxTag
    /\ latest' = latest + 1 /\ scan' = [scan EXCEPT !.pc = "list"]
    /\ UNCHANGED <<wire, updater, proc, disk, inode>>

\* Mutant of NobodyMissesIt: an agent is in the hub once it has been greeted.
GreetedOnly == {c \in Link : wire[c].st = "in"}
Listed == {c \in Link : Linked(c)}

NotifyUpgrade ==
    /\ \/ /\ scan.pc = "list" /\ scan' = [pc |-> "send", todo |-> Listed]
          /\ UNCHANGED <<wire, updater>>
       \/ /\ scan.pc = "send" /\ scan.todo = {} /\ scan' = [scan EXCEPT !.pc = "idle"]
          /\ UNCHANGED <<wire, updater>>
       \/ /\ scan.pc = "send"
          /\ \E c \in scan.todo :
               /\ scan' = [scan EXCEPT !.todo = @ \ {c}]
               /\ IF Linked(c) THEN Tell(c, latest, wire[c].st) ELSE UNCHANGED <<wire, updater>>
    /\ UNCHANGED <<latest, proc, disk, inode>>

-----------------------------------------------------------------------------
(* autoUpdate and selfupdate.Run.                                          *)

Goes(c, pc) == updater' = [updater EXCEPT ![c].pc = pc]

Busy(b) ==
    /\ proc.up /\ proc.busy # b /\ proc' = [proc EXCEPT !.busy = b]
    /\ UNCHANGED <<latest, scan, wire, updater, disk, inode>>

\* download: the file beside is made, or emptied, whoever made it.
Open(c) ==
    /\ updater[c].pc = "wait" /\ ~ proc.busy
    /\ LET used == {disk.exe, disk.old, disk.tmp} \cup
                     {updater[d].fd : d \in {e \in Link : updater[e].pc = "fetch"}}
           i == IF disk.tmp # 0 THEN disk.tmp ELSE CHOOSE j \in Inode \ used : TRUE
           others == {updater[d].tag : d \in {e \in Link : updater[e].pc = "fetch" /\ updater[e].fd = i}}
       IN /\ disk' = [disk EXCEPT !.tmp = i]
          /\ inode' = [inode EXCEPT ![i] = [tags |-> others \cup {updater[c].tag}, last |-> c, full |-> FALSE]]
          /\ updater' = [updater EXCEPT ![c] = [pc |-> "fetch", tag |-> @.tag, fd |-> i]]
    /\ UNCHANGED <<latest, scan, wire, proc>>

\* Whoever emptied it last has filled it from the start.
Fetched(c) ==
    /\ updater[c].pc = "fetch"
    /\ \/ /\ inode' = [inode EXCEPT ![updater[c].fd].full = @ \/ inode[updater[c].fd].last = c]
          /\ updater' = [updater EXCEPT ![c] = [pc |-> "check", tag |-> @.tag]]
       \/ /\ updater' = [updater EXCEPT ![c] = [pc |-> "clean"]] /\ UNCHANGED inode
    /\ UNCHANGED <<latest, scan, wire, proc, disk>>

\* The list and its signature are fetched, the file read and compared.
Check(c) ==
    /\ updater[c].pc = "check"
    /\ \/ Whole(disk.tmp) /\ VerOf(disk.tmp) = updater[c].tag /\ Goes(c, "unlink")
       \/ Goes(c, "clean")
    /\ UNCHANGED <<latest, scan, wire, proc, disk, inode>>

\* replace: the old copy goes, the present one is linked, the new renamed over it.
replace(c) ==
    /\ \/ /\ updater[c].pc = "unlink" /\ disk' = [disk EXCEPT !.old = 0] /\ Goes(c, "link")
       \/ /\ updater[c].pc = "link"
          /\ IF disk.old = 0 THEN disk' = [disk EXCEPT !.old = disk.exe] /\ Goes(c, "rename")
             ELSE UNCHANGED disk /\ Goes(c, "clean")
       \/ /\ updater[c].pc = "rename"
          /\ IF disk.tmp # 0 THEN disk' = [disk EXCEPT !.exe = disk.tmp, !.tmp = 0] /\ Goes(c, "restart")
             ELSE disk' = [disk EXCEPT !.old = 0] /\ Goes(c, "clean")
    /\ UNCHANGED <<latest, scan, wire, proc, inode>>

\* The deferred os.Remove, and the flag.
CleanUp(c) ==
    /\ updater[c].pc = "clean" /\ disk' = [disk EXCEPT !.tmp = 0]
    /\ updater' = [updater EXCEPT ![c] = NoUpdater]
    /\ UNCHANGED <<latest, scan, wire, proc, inode>>

\* What is on disk runs, if it can; all goroutines and terminals are gone.
Starts ==
    /\ updater' = [c \in Link |-> NoUpdater]
    /\ wire' = [c \in Link |-> IF Linked(c) THEN [wire[c] EXCEPT !.st = "gone"]
                               ELSE wire[c]]
    /\ UNCHANGED <<latest, scan, inode>>
Image == IF Whole(disk.exe) THEN [proc EXCEPT !.ver = VerOf(disk.exe), !.busy = FALSE]
         ELSE [proc EXCEPT !.up = FALSE, !.busy = FALSE]

\* restartManaged kills the process; or Run returns first, and doRestart.
Restart(c) ==
    /\ updater[c].pc = "restart"
    /\ \/ /\ Starts /\ proc' = [Image EXCEPT !.cut = proc.cut \/ proc.busy]
          /\ \/ UNCHANGED disk
             \/ disk' = [disk EXCEPT !.tmp = 0]
       \/ /\ ~ Whole(disk.exe) /\ Goes(c, "clean")       \* Exec fails
          /\ UNCHANGED <<latest, scan, wire, proc, disk, inode>>

Crash ==
    /\ proc.up /\ proc.crashes < MaxCrashes /\ Starts /\ UNCHANGED disk
    /\ proc' = [Image EXCEPT !.crashes = @ + 1]

UpdateNext ==
    \/ \E c \in Link : \/ Attach(c) \/ maybePushUpgrade(c) \/ Disconnect(c)
                       \/ Open(c) \/ Fetched(c) \/ Check(c) \/ replace(c) \/ CleanUp(c) \/ Restart(c)
    \/ checkLatestOnce \/ NotifyUpgrade
    \/ \E b \in BOOLEAN : Busy(b)
    \/ Crash

-----------------------------------------------------------------------------
(* Properties.                                                             *)

\* However a release falls between an agent's arrival and the listing of the
\* agents: who is connected, greeted and behind has been told of the latest,
\* or is about to be.
NobodyMissesIt ==
    \A c \in Link :
       wire[c].st = "in" /\ proc.ver < latest
          => wire[c].told = latest \/ scan.pc = "list" \/ c \in scan.todo

\* Under the agent's name there is always a program that runs.  Not so with
\* two updates at once: the one that downloads empties the file the other has
\* checked and is about to rename.
AlwaysAProgram == Whole(disk.exe)

\* An update does not end what runs in a mirror terminal.  Not so: that is
\* looked at before the download, minutes before the restart.
SparesMirrors == ~ proc.cut

=============================================================================
