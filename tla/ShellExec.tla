----------------------------- MODULE ShellExec -----------------------------
(***************************************************************************)
(* One resident shell (mcpsrv/shell.go): a command is written to it with   *)
(* two sentinels behind, one per stream, and is over when both have been   *)
(* read.  The streams reach the server one token at a time and in no order *)
(* between each other; calls queue, time out, are given up, and the shell  *)
(* may die under them.  A token is a piece of a command's output, its      *)
(* sentinel, or output of a background job; a sentinel cannot be forged,   *)
(* its tag is random.                                                      *)
(***************************************************************************)
EXTENDS Integers, Sequences, FiniteSets

CONSTANTS
    Caller,         \* calls of exec, numbered from 1
    Keep,           \* markerKeep: tokens held back in case a sentinel begins
    Backlog,        \* tokens kept between commands (64 KiB)
    MaxOut,         \* bound: pieces a command writes to a stream,
    MaxJob          \* and pieces background jobs write

ASSUME ShellAssumption ==
    Caller \subseteq Nat \ {0} /\ {Keep, Backlog, MaxOut, MaxJob} \subseteq Nat

VARIABLES
    far,            \* the shell process: what it has to run, and whether it lives
    wire,           \* per stream, what it has written and no pump has read
    sh,             \* shellSession: execMu, cur (busy), dead, backlog
    ex,             \* the callers, and the shellCall of each
    said            \* history: pieces written by each command, per stream

xvars == <<far, wire, sh, ex, said>>

Stream == {"out", "err"}
Fresh0 == [out |-> <<>>, err |-> <<>>]
\* Mutant of ResultIsWhole: a command is over with the first sentinel.
DoneEither(got) == got # {}
\* finishLocked
DoneBoth(got) == got = Stream

ShellInit ==
    /\ far = [todo |-> <<>>, lives |-> TRUE, jobs |-> 0, marked |-> {}]
    /\ wire = Fresh0
    /\ sh = [execMu |-> 0, cur |-> 0, dead |-> FALSE, backlog |-> 0, open |-> TRUE,
             eof |-> {}]
    /\ ex = [c \in Caller |-> [pc |-> "idle", got |-> {}, text |-> Fresh0,
                               tail |-> Fresh0, fail |-> FALSE, result |-> "none"]]
    /\ said = [c \in Caller |-> [out |-> 0, err |-> 0]]

-----------------------------------------------------------------------------
(* The shell on the other machine.                                         *)

Write(s, token) == wire' = [wire EXCEPT ![s] = Append(@, token)]

\* The command at the head writes, and then the two printf of its line.
Output(s) ==
    /\ far.lives /\ far.todo # <<>> /\ far.marked = {}
    /\ LET c == Head(far.todo) IN
       /\ said[c][s] < MaxOut
       /\ said' = [said EXCEPT ![c][s] = @ + 1]
       /\ Write(s, [of |-> c, mark |-> FALSE])
    /\ UNCHANGED <<far, sh, ex>>

Sentinel(s) ==
    /\ far.lives /\ far.todo # <<>>
    /\ IF s = "out" THEN far.marked = {} ELSE far.marked = {"out"}
    /\ Write(s, [of |-> Head(far.todo), mark |-> TRUE])
    /\ far' = IF s = "err" THEN [far EXCEPT !.todo = Tail(@), !.marked = {}]
              ELSE [far EXCEPT !.marked = {"out"}]
    /\ UNCHANGED <<sh, ex, said>>

BackgroundOutput(s) ==
    /\ far.lives /\ far.jobs < MaxJob
    /\ far' = [far EXCEPT !.jobs = @ + 1] /\ Write(s, [of |-> 0, mark |-> FALSE])
    /\ UNCHANGED <<sh, ex, said>>

\* exit, exec, a signal, the agent's connection; Close of the session
Dies ==
    /\ far.lives /\ far' = [far EXCEPT !.lives = FALSE, !.todo = <<>>]
    /\ UNCHANGED <<wire, sh, ex, said>>

-----------------------------------------------------------------------------
(* The pumps: feed, streamDead.                                            *)

Text(c, s, tokens) == [ex EXCEPT ![c].text[s] = @ \o tokens]

\* A piece of output.  It stays in the tail until enough has come behind it.
FeedText(s, t) ==
    LET c == sh.cur  tail == Append(ex[c].tail[s], t) IN
    IF s \in ex[c].got THEN ex' = Text(c, s, <<t>>)
    ELSE ex' = IF Len(tail) > Keep
                 THEN [Text(c, s, <<Head(tail)>>) EXCEPT ![c].tail[s] = Tail(tail)]
                 ELSE [ex EXCEPT ![c].tail[s] = tail]

\* The sentinel of the command under way.
FeedMark(s) ==
    LET c == sh.cur  got == ex[c].got \cup {s}  over == DoneBoth(got) IN
    /\ ex' = [Text(c, s, ex[c].tail[s]) EXCEPT ![c].tail[s] = <<>>, ![c].got = got]
    /\ sh' = IF over THEN [sh EXCEPT !.cur = 0] ELSE sh

\* With nothing under way, output is kept for the next command's stdout.
feed(s) ==
    /\ wire[s] # <<>> /\ wire' = [wire EXCEPT ![s] = Tail(@)]
    /\ LET t == Head(wire[s]) IN
       IF sh.dead THEN UNCHANGED <<sh, ex>>
       ELSE IF sh.cur = 0
         THEN /\ sh' = [sh EXCEPT !.backlog = IF @ < Backlog THEN @ + 1 ELSE Backlog]
              /\ UNCHANGED ex
       ELSE IF t.mark /\ t.of = sh.cur THEN FeedMark(s)
       ELSE FeedText(s, t) /\ UNCHANGED sh
    /\ UNCHANGED <<far, said>>

\* End of file, on either stream.
streamDead(s) ==
    /\ ~ far.lives /\ wire[s] = <<>> /\ s \notin sh.eof
    /\ sh' = [sh EXCEPT !.dead = TRUE, !.eof = @ \cup {s}]
    /\ ex' = IF sh.cur = 0 THEN ex ELSE [ex EXCEPT ![sh.cur].fail = TRUE]
    /\ UNCHANGED <<far, wire, said>>

-----------------------------------------------------------------------------
(* exec.                                                                   *)

Asks(c) ==
    /\ ex[c].pc = "idle" /\ ex' = [ex EXCEPT ![c].pc = "queue"]
    /\ \A d \in Caller : d < c => ex[d].pc # "idle"
    /\ UNCHANGED <<far, wire, sh, said>>

Returns(c, result) == ex' = [ex EXCEPT ![c].pc = "over", ![c].result = result]

\* Its turn: what has come since the last command goes first.
Start(c) ==
    /\ ex[c].pc = "queue" /\ sh.execMu = 0
    /\ IF sh.dead THEN Returns(c, "dead") /\ UNCHANGED sh
       ELSE /\ ex' = [ex EXCEPT ![c].pc = "write",
                                ![c].text.out = [n \in 1 .. sh.backlog |-> [of |-> 0, mark |-> FALSE]]]
            /\ sh' = [sh EXCEPT !.execMu = c, !.cur = c, !.backlog = 0]
    /\ UNCHANGED <<far, wire, said>>

\* The line is written; a session that is closed takes none.
WriteLine(c) ==
    /\ ex[c].pc = "write"
    /\ \/ /\ far' = IF far.lives THEN [far EXCEPT !.todo = Append(@, c)] ELSE far
          /\ ex' = [ex EXCEPT ![c].pc = "wait"]
       \/ /\ ~ far.lives /\ UNCHANGED far
          /\ ex' = [ex EXCEPT ![c].pc = "kill", ![c].result = "dead"]
    /\ UNCHANGED <<wire, sh, said>>

\* Both sentinels, or the death of the shell
Done(c) ==
    /\ ex[c].pc = "wait" /\ (DoneBoth(ex[c].got) \/ ex[c].fail)
    /\ Returns(c, IF ex[c].fail THEN "dead" ELSE "complete")
    /\ sh' = [sh EXCEPT !.execMu = 0]
    /\ UNCHANGED <<far, wire, said>>

\* The timer: the output so far is the result.  The context: no result.
GivesUp(c, why) ==
    /\ ex[c].pc = "wait" /\ why \in {"timeout", "ctx"}
    /\ ex' = [ex EXCEPT ![c].pc = "kill", ![c].result = why]
    /\ UNCHANGED <<far, wire, sh, said>>

\* kill, by the call itself
Kill(c) ==
    /\ ex[c].pc = "kill" /\ ex' = [ex EXCEPT ![c].pc = "over"]
    /\ sh' = [sh EXCEPT !.execMu = 0, !.dead = TRUE, !.open = FALSE]
    /\ far' = [far EXCEPT !.lives = FALSE, !.todo = <<>>]
    /\ UNCHANGED <<wire, said>>

\* kill, by the reaper or the end of the client's session
KillOutside ==
    /\ sh.open /\ sh' = [sh EXCEPT !.dead = TRUE, !.open = FALSE]
    /\ far' = [far EXCEPT !.lives = FALSE, !.todo = <<>>]
    /\ UNCHANGED <<wire, ex, said>>

ShellNext ==
    \/ \E s \in Stream : \/ Output(s) \/ Sentinel(s) \/ BackgroundOutput(s)
                         \/ feed(s) \/ streamDead(s)
    \/ Dies \/ KillOutside
    \/ \E c \in Caller : \/ Asks(c) \/ Start(c) \/ WriteLine(c) \/ Done(c) \/ Kill(c)
                         \/ \E why \in {"timeout", "ctx"} : GivesUp(c, why)

-----------------------------------------------------------------------------
(* Properties.                                                             *)

\* A result that is told complete holds all its command wrote to either
\* stream, and nothing of another command or its sentinels, in whatever order
\* the streams are read and whoever gave up before; and the shell is given a
\* command only when the one before it is over.
ResultIsWhole ==
    /\ Len(far.todo) <= 1
    /\ \A c \in Caller, s \in Stream : ex[c].result = "complete" =>
          LET text == ex[c].text[s]
              own  == {n \in DOMAIN text : text[n].of # 0} IN
          /\ Cardinality(own) = said[c][s]
          /\ \A n \in own : text[n] = [of |-> c, mark |-> FALSE]

\* What a caller is told of a command cut short: the output there was before.
\* Not so: the last piece of each stream is still held back, and stays there.
CutShortTellsAll == \A c \in Caller : ex[c].result = "dead" => ex[c].tail = Fresh0

=============================================================================
