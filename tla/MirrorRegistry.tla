--------------------------- MODULE MirrorRegistry ---------------------------
(***************************************************************************)
(* The mirror terminals of one agent by name (client/mirror.go): opened by *)
(* connections that may race for a name while a process is being started,  *)
(* ended by the process, a kill or the sweep of idle ones, and forgotten   *)
(* by the pump of each.  Every mirror ever started has a number.           *)
(***************************************************************************)
EXTENDS Naturals, FiniteSets, Sequences

CONSTANTS
    MirrorName,
    Opener,         \* connections with an attach or a kill
    MaxMirrors,     \* maxMirrors
    MaxStarts,      \* bound: processes started,
    MaxSweeps       \* and rounds of the sweep

ASSUME RegistryAssumption ==
    IsFiniteSet(MirrorName) /\ IsFiniteSet(Opener) /\ {MaxMirrors, MaxStarts, MaxSweeps} \subseteq Nat

VARIABLES
    mirrors,        \* mirrorManager.mirrors: the number under each name, or 0
    mir,            \* each mirror: its process, t.dead, since when it is idle
    opener,         \* the connections
    sweep,          \* sweepIdle: what it has judged and not yet killed
    slain           \* history: what the sweep killed, and whether it had judged it

gvars == <<mirrors, mir, opener, sweep, slain>>

Num == 1 .. MaxStarts
NoMirror == [st |-> "none"]

RegistryInit ==
    /\ mirrors = [n \in MirrorName |-> 0] /\ mir = [i \in Num |-> NoMirror]
    /\ opener = [o \in Opener |-> [pc |-> "idle"]]
    /\ sweep = [rounds |-> 0, doomed |-> {}, target |-> 0, of |-> 0] /\ slain = {}

\* st: "loose" before it is registered, "kept" after; "over" once pump is done
Runs(i) == mir[i].st \in {"loose", "kept"} /\ mir[i].runs
Dead(i) == mir[i].st = "over"
Closed(i) == [mir EXCEPT ![i].runs = FALSE, ![i].idle = FALSE]

\* A name whose mirror is not dead; one that is counts no more, though listed.
Taken(n) == mirrors[n] # 0 /\ ~ Dead(mirrors[n])
full == Cardinality({n \in MirrorName : Taken(n)}) >= MaxMirrors
Finished(o) == opener' = [opener EXCEPT ![o] = [pc |-> "idle"]]

-----------------------------------------------------------------------------
(* open.                                                                   *)

Look(o, n) ==
    /\ opener[o].pc = "idle"
    /\ ~ Taken(n) /\ ~ full         \* otherwise it is over: joined, or refused
    /\ opener' = [opener EXCEPT ![o] = [pc |-> "start", name |-> n]]
    /\ UNCHANGED <<mirrors, mir, sweep, slain>>

startPty(o) ==
    /\ opener[o].pc = "start"
    /\ \/ Finished(o) /\ UNCHANGED mir
       \/ \E i \in Num :
            /\ mir[i] = NoMirror /\ \A j \in Num : j < i => mir[j] # NoMirror
            /\ mir' = [mir EXCEPT ![i] = [st |-> "loose", name |-> opener[o].name, runs |-> TRUE,
                                          idle |-> FALSE]]
            /\ opener' = [opener EXCEPT ![o] = [pc |-> "register", name |-> opener[o].name, i |-> i]]
    /\ UNCHANGED <<mirrors, sweep, slain>>

\* The slower of two gives up the process it has started.
Register(o) ==
    /\ opener[o].pc = "register" /\ Finished(o)
    /\ LET n == opener[o].name  i == opener[o].i IN
       IF Taken(n) \/ full
         THEN mir' = [Closed(i) EXCEPT ![i].st = "forgotten"] /\ UNCHANGED mirrors
         ELSE mir' = [mir EXCEPT ![i].st = "kept"] /\ mirrors' = [mirrors EXCEPT ![n] = i]
    /\ UNCHANGED <<sweep, slain>>

-----------------------------------------------------------------------------
(* A mirror's life.                                                        *)

ProcessEnds(i) ==
    /\ mir[i].st = "kept" /\ Runs(i) /\ mir' = Closed(i)
    /\ UNCHANGED <<mirrors, opener, sweep, slain>>

\* Neither input nor output for idleTTL; then some.
Rests(i, idle) ==
    /\ mir[i].st = "kept" /\ Runs(i) /\ mir[i].idle # idle /\ mir' = [mir EXCEPT ![i].idle = idle]
    /\ UNCHANGED <<mirrors, opener, sweep, slain>>

\* pump and exit: first dead, then off the list.
PumpExits(i) ==
    /\ mir[i].st = "kept" /\ ~ Runs(i) /\ mir' = [mir EXCEPT ![i].st = "over"]
    /\ UNCHANGED <<mirrors, opener, sweep, slain>>

\* Mutant of MirrorsInOrder: the name goes off the list, whoever has it by now.
OffListByName(i) == [mirrors EXCEPT ![mir[i].name] = 0]
\* remove
OffList(i) == IF mirrors[mir[i].name] = i THEN [mirrors EXCEPT ![mir[i].name] = 0] ELSE mirrors

remove(i) ==
    /\ Dead(i) /\ mirrors' = OffList(i) /\ mir' = [mir EXCEPT ![i].st = "forgotten"]
    /\ UNCHANGED <<opener, sweep, slain>>

-----------------------------------------------------------------------------
(* kill, from a connection and from sweepIdle: the mirror is looked up by  *)
(* its name, and closed after m.mu has been given back.                    *)

Kill(o, n) ==
    /\ \/ /\ opener[o].pc = "idle" /\ mirrors[n] # 0
          /\ opener' = [opener EXCEPT ![o] = [pc |-> "kill", i |-> mirrors[n]]] /\ UNCHANGED mir
       \/ /\ opener[o].pc = "kill" /\ mir' = Closed(opener[o].i) /\ Finished(o)
    /\ UNCHANGED <<mirrors, sweep, slain>>

Doomed == {i \in Num : \E n \in MirrorName : mirrors[n] = i /\ Runs(i) /\ mir[i].idle}

sweepIdle ==
    /\ sweep.rounds < MaxSweeps /\ sweep.doomed = {} /\ sweep.of = 0 /\ Doomed # {}
    /\ sweep' = [sweep EXCEPT !.rounds = @ + 1, !.doomed = Doomed]
    /\ UNCHANGED <<mirrors, mir, opener, slain>>

SweepOne ==
    \/ /\ sweep.of = 0
       /\ \E i \in sweep.doomed :
             sweep' = [sweep EXCEPT !.doomed = @ \ {i},
                                    !.of = IF mirrors[mir[i].name] = 0 THEN 0 ELSE i,
                                    !.target = mirrors[mir[i].name]]
       /\ UNCHANGED <<mirrors, mir, opener, slain>>
    \/ /\ sweep.of # 0
       /\ mir' = Closed(sweep.target) /\ slain' = slain \cup {<<sweep.target, sweep.of>>}
       /\ sweep' = [sweep EXCEPT !.of = 0, !.target = 0]
       /\ UNCHANGED <<mirrors, opener>>

RegistryNext ==
    \/ \E o \in Opener : \/ startPty(o) \/ Register(o)
                         \/ \E n \in MirrorName : Look(o, n) \/ Kill(o, n)
    \/ \E i \in Num : \/ ProcessEnds(i) \/ PumpExits(i) \/ remove(i)
                      \/ \E idle \in BOOLEAN : Rests(i, idle)
    \/ sweepIdle \/ SweepOne

RegistrySpec == RegistryInit /\ [][RegistryNext]_gvars

-----------------------------------------------------------------------------
(* Properties.                                                             *)

\* However many open one name at once, and however soon a name is used again:
\* a process that runs is the one its name leads to, or its opener has it
\* still; and no more run under names than there may be.
MirrorsInOrder ==
    /\ \A i \in Num : mir[i].st = "kept" => mirrors[mir[i].name] = i
    /\ \A i \in Num : mir[i].st = "loose" => \E o \in Opener : opener[o].pc = "register" /\ opener[o].i = i
    /\ Cardinality({i \in Num : mir[i].st = "kept"}) <= MaxMirrors

\* The sweep kills what it found idle.  Not so: it kills whatever has the name
\* by then, and a round waits on every mirror it closes.
IdleKillsTheJudged == \A k \in slain : k[1] = k[2]

=============================================================================
