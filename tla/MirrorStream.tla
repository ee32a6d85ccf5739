---------------------------- MODULE MirrorStream ----------------------------
(***************************************************************************)
(* One mirror terminal and those attached to it (client/mirror.go,         *)
(* mirrorsock.go): the pump keeps the last output and puts each piece in   *)
(* the queue of every attached connection, a goroutine of each sends, one  *)
(* who falls behind is thrown out, and the end of the program is told to   *)
(* all when they have had the rest.  Output is numbered from 1.            *)
(***************************************************************************)
EXTENDS Integers, Sequences, FiniteSets, SequencesExt

CONSTANTS
    Att,            \* connections, each of which attaches once
    Kept,           \* mirrorReplayBytes
    Queue,          \* mirrorAttQueue
    Size,           \* sizes a terminal may report
    MaxOutput,      \* bound: pieces of output,
    MaxTurns        \* and changes of size

ASSUME StreamAssumption ==
    /\ IsFiniteSet(Att) /\ {Kept, Queue, MaxOutput, MaxTurns} \subseteq Nat
    /\ Size \subseteq Nat \ {0}

VARIABLES
    prog,           \* the program: pieces written, its end, exit done, size, turns
    att,            \* the connections: mirrorAtt, and what each has been sent
    broke           \* a channel has been closed twice: the agent is gone

zvars == <<prog, att, broke>>

NewAtt == [st |-> "none", q |-> <<>>, got |-> <<>>, stop |-> FALSE, shut |-> FALSE,
           done |-> FALSE, failed |-> FALSE, drain |-> "no", size |-> 0, seq |-> 0]

StreamInit ==
    /\ prog = [out |-> 0, ends |-> FALSE, exited |-> FALSE, size |-> 1, turns |-> 0]
    /\ att = [a \in Att |-> NewAtt] /\ broke = FALSE

\* st: "in" atts; "left"; "kicked"; after exit "ending", then "told" or "lost"
In == {a \in Att : att[a].st = "in"}

\* restoreSizeLocked: the size of the one that has spoken last.
Restored(left) ==
    LET spoken == {a \in In \ left : att[a].size # 0} IN
    IF spoken = {} THEN prog.size
    ELSE att[CHOOSE a \in spoken : \A b \in spoken : att[b].seq <= att[a].seq].size

\* halt, under t.mu
Halted(a, st) == [att EXCEPT ![a].st = st, ![a].stop = TRUE]

-----------------------------------------------------------------------------
(* attach, resize, detach.                                                 *)

keepTail == [n \in 1 .. (IF prog.out < Kept THEN prog.out ELSE Kept) |->
                n + (IF prog.out < Kept THEN 0 ELSE prog.out - Kept)]

\* Under t.mu: the replay goes into the queue, and from then on what is new.
attach(a, size) ==
    /\ att[a].st = "none" /\ prog.turns < MaxTurns
    /\ IF prog.exited
         THEN att' = [att EXCEPT ![a].st = "left"] /\ UNCHANGED prog
         ELSE /\ att' = [att EXCEPT ![a].st = "in", ![a].q = keepTail, ![a].size = size,
                                    ![a].seq = prog.turns + 1]
              /\ prog' = [prog EXCEPT !.turns = @ + 1, !.size = IF size # 0 THEN size ELSE @]
    /\ UNCHANGED broke

\* Whoever is connected: it counts even if it has been thrown out since.
resize(a, size) ==
    /\ att[a].st \in {"in", "kicked"} /\ prog.turns < MaxTurns
    /\ prog' = [prog EXCEPT !.size = size, !.turns = @ + 1]
    /\ att' = IF a \in In THEN [att EXCEPT ![a].size = size, ![a].seq = prog.turns + 1] ELSE att
    /\ UNCHANGED broke

\* The connection says so, or is gone.
detach(a) ==
    /\ a \in In /\ att' = Halted(a, "left") /\ prog' = [prog EXCEPT !.size = Restored({a})]
    /\ UNCHANGED broke

-----------------------------------------------------------------------------
(* The pump.                                                               *)

\* The queue has room for the replay beside what may pile up.
Full(a) == Len(att[a].q) >= Queue + Kept

\* Mutant of StreamUnbroken: who has no room misses this piece.
MissesIt == {}
KickedOut == {a \in In : Full(a)}

broadcast ==
    /\ ~ prog.ends /\ prog.out < MaxOutput
    /\ prog' = [prog EXCEPT !.out = @ + 1, !.size = IF KickedOut = {} THEN @ ELSE Restored(KickedOut)]
    /\ att' = [a \in Att |->
          IF a \notin In THEN att[a]
          ELSE IF a \in KickedOut
            THEN [att[a] EXCEPT !.st = "kicked", !.stop = TRUE]
          ELSE IF Full(a) THEN att[a]
          ELSE [att[a] EXCEPT !.q = Append(@, prog.out + 1)]]
    /\ UNCHANGED broke

ProgramEnds ==
    /\ ~ prog.ends /\ prog' = [prog EXCEPT !.ends = TRUE] /\ UNCHANGED <<att, broke>>

\* exit: the queues are closed, and drained by those who send.
exit ==
    /\ prog.ends /\ ~ prog.exited /\ prog' = [prog EXCEPT !.exited = TRUE]
    /\ att' = [a \in Att |-> IF a \in In THEN [att[a] EXCEPT !.st = "ending", !.shut = TRUE]
                             ELSE att[a]]
    /\ UNCHANGED broke

-----------------------------------------------------------------------------
(* sender, one for each.                                                   *)

Sends(a) == att[a].st # "none" /\ ~ att[a].done /\ ~ att[a].failed

\* Of a stop and a piece to send, either may be taken.
Stops(a) ==
    /\ Sends(a) /\ att[a].stop /\ att' = [att EXCEPT ![a].done = TRUE, ![a].q = <<>>]
    /\ UNCHANGED <<prog, broke>>

SendData(a) ==
    /\ Sends(a) /\ att[a].q # <<>>
    /\ att' = [att EXCEPT ![a].got = Append(@, Head(att[a].q)), ![a].q = Tail(@)]
    /\ UNCHANGED <<prog, broke>>

SendExit(a) ==
    /\ Sends(a) /\ att[a].shut /\ att[a].q = <<>>
    /\ att' = [att EXCEPT ![a].st = "told", ![a].done = TRUE]
    /\ UNCHANGED <<prog, broke>>

\* The connection takes no more, and drop is on its way to t.mu.
SendFails(a) ==
    /\ Sends(a) /\ att[a].q # <<>> /\ att' = [att EXCEPT ![a].failed = TRUE]
    /\ UNCHANGED <<prog, broke>>

\* It finds the connection in the table or, after exit, no longer there.
drop(a) ==
    /\ att[a].failed /\ ~ att[a].done
    /\ att' = [Halted(a, IF a \in In THEN "kicked"
                         ELSE IF att[a].st = "ending" THEN "lost" ELSE att[a].st)
                 EXCEPT ![a].done = TRUE, ![a].q = <<>>]
    /\ prog' = IF a \in In THEN [prog EXCEPT !.size = Restored({a})] ELSE prog
    /\ UNCHANGED broke

\* mirrorExitDrain after exit: who is not done is halted, with no lock held,
\* and dropped.  halt looks whether the channel is closed, and closes it.
Drain(a) ==
    /\ att[a].shut
    /\ \/ /\ att[a].drain = "no" /\ ~ att[a].done /\ ~ att[a].stop
          /\ att' = [att EXCEPT ![a].drain = "looked"] /\ UNCHANGED broke
       \/ /\ att[a].drain = "looked" /\ broke' = att[a].stop
          /\ att' = [Halted(a, IF att[a].st = "ending" THEN "lost" ELSE att[a].st)
                       EXCEPT ![a].drain = "halted"]
    /\ UNCHANGED prog

\* A panic in any goroutine ends the agent.
StreamNext ==
    /\ ~ broke
    /\ \/ \E a \in Att : \/ \E size \in Size : attach(a, size) \/ resize(a, size)
                         \/ attach(a, 0) \/ detach(a)
                         \/ Stops(a) \/ SendData(a) \/ SendExit(a) \/ SendFails(a)
                         \/ drop(a) \/ Drain(a)
       \/ broadcast \/ ProgramEnds \/ exit

-----------------------------------------------------------------------------
(* Properties.                                                             *)

\* Each connection is sent a run of the output with no gap and no piece twice,
\* from what was kept when it came to all there is, as long as it is attached;
\* and the exit code comes after the last of it.
StreamUnbroken ==
    \A a \in Att :
       LET all == att[a].got \o att[a].q IN
       /\ \A n \in 1 .. Len(all) - 1 : all[n + 1] = all[n] + 1
       /\ att[a].st \in {"in", "ending"} /\ all # <<>> => all[Len(all)] = prog.out
       /\ att[a].st = "told" /\ att[a].got # <<>> => att[a].got[Len(att[a].got)] = prog.out

\* Throwing a connection out does the mirror no harm.  Not so: ten seconds
\* after the end, halt may run at the same moment twice, and close twice.
HaltsOnce == ~ broke

\* The size is that of someone attached.  Not so: one thrown out still sets it.
SizeOfTheAttached ==
    (\E a \in In : att[a].size # 0) => \E b \in In : prog.size = att[b].size

=============================================================================
