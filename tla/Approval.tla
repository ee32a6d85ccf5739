------------------------------ MODULE Approval ------------------------------
(***************************************************************************)
(* Asking a human before one command of one MCP client session runs        *)
(* (internal/mcpsrv/approval.go; the callers are authorizeCommand in       *)
(* tools.go and writeFile in filetools.go).  Several tool calls for the    *)
(* same request (same rememberedKey) are in progress at once, each in a    *)
(* goroutine of its own; the tables remembered, pending and spent are read *)
(* and written in separate critical sections, and each section is one      *)
(* action here.                                                            *)
(*                                                                         *)
(* The channel is fixed by policy.ask_via and by what the client declared, *)
(* so a session uses one of the three:                                     *)
(*   "llm"     the question goes back to the model, which asks the user    *)
(*             and repeats the call with confirmed=true;                   *)
(*   "elicit"  the client shows a dialog and its middleware calls the      *)
(*             handler again with the answer;                              *)
(*   "local"   a file in approvals_dir, which an operator (the approve and *)
(*             deny subcommands, or the desktop dialog) answers with       *)
(*             files of his own while the call polls.                      *)
(***************************************************************************)
EXTENDS Naturals, FiniteSets

CONSTANTS
    Call,       \* handler goroutines; each serves one tool call after another
    Operator,   \* answers to local requests: runs of the approve and deny
                \* subcommands and desktop dialogs, each settles one request
    Id,         \* authorization numbers, in the order they are drawn
    NoId,
    Channel,    \* the channels a session may have
    TTL,        \* llmConfirmTTL, in ticks of the clock
    MaxTime     \* bound: ticks

ASSUME ApprovalAssumption ==
    /\ Id \subseteq Nat /\ NoId \notin Id
    /\ Channel \subseteq {"llm", "elicit", "local"}
    /\ TTL \in Nat /\ MaxTime \in Nat

VARIABLES
    via,        \* the session's channel
    clock,
    ended,      \* the client session is over
    remembered, \* Server.remembered[session][key]
    pending,    \* Server.pending[session][key]
    spent,      \* Server.spent[session][key]
    call,       \* the goroutines
    files,      \* approvals_dir: the suffixes present, per number
    operator,   \* settle() in progress: the number it is about to answer
    asked,      \* history: numbers with an MCP-ASK event
    verdict,    \* history: the result of each number
    runs        \* history: executions under each number, those under a
                \*          remembered number not counted (bound: counts to 2)

tables  == <<remembered, pending, spent>>
local   == <<files, operator>>
history == <<asked, verdict, runs>>
vars == <<via, clock, ended, remembered, pending, spent, call, files,
          operator, asked, verdict, runs>>

-----------------------------------------------------------------------------
MaybeId == Id \cup {NoId}
Mark    == [id : MaybeId, at : 0..MaxTime]
NoMark  == [id |-> NoId, at |-> 0]

ToolCall ==
    [pc : {"idle", "look", "consume", "clear", "spent", "claim", "prompt",
           "file", "wait", "clean", "remember", "run", "rerun"},
     confirmed : BOOLEAN,           \* runIn.Confirmed
     remember : BOOLEAN,            \* runIn.Remember or the answer's box
     answer : {"none", "yes", "no"},\* InputResponses["approval"]
     id : MaybeId]                  \* the number this call deals with

Suffix == {"json", "approved", "denied", "remember"}
Settling == [pc : {"idle", "remember", "answer", "done"}, id : MaybeId,
             with : {"approved", "denied"}]

Idle == [pc |-> "idle", confirmed |-> FALSE, remember |-> FALSE,
         answer |-> "none", id |-> NoId]
Resting == [pc |-> "idle", id |-> NoId, with |-> "denied"]

TypeOK ==
    /\ via \in {"llm", "elicit", "local"}
    /\ clock \in 0..MaxTime /\ ended \in BOOLEAN
    /\ remembered \in MaybeId
    /\ pending \in Mark /\ spent \in Mark
    /\ call \in [Call -> ToolCall]
    /\ files \in [Id -> SUBSET Suffix]
    /\ operator \in [Operator -> Settling]
    /\ asked \subseteq Id /\ runs \in [Id -> 0..2]
    /\ verdict \in [Id -> {"open", "approved", "confirmed", "denied",
                           "timeout"}]

Init ==
    /\ via \in Channel
    /\ clock = 0 /\ ended = FALSE
    /\ remembered = NoId /\ pending = NoMark /\ spent = NoMark
    /\ call = [c \in Call |-> Idle]
    /\ files = [i \in Id |-> {}]
    /\ operator = [o \in Operator |-> Resting]
    /\ asked = {}
    /\ verdict = [i \in Id |-> "open"]
    /\ runs = [i \in Id |-> 0]

Goto(c, pc) == call' = [call EXCEPT ![c].pc = pc]
Return(c)   == call' = [call EXCEPT ![c] = Idle]

\* time.Since(m.at) <= llmConfirmTTL
Live(m) == m.id # NoId /\ clock - m.at <= TTL

\* Mutant: the number stays empty.
DrawNothing == {NoId}

\* newAuthID: a number never drawn before.
Draw == {i \in Id \ asked : \A j \in Id \ asked : i <= j}

\* Bound: a call starts only while a number is left for it to draw.
Room(c) ==
    Cardinality({d \in Call \ {c} :
                    call[d].pc \in {"look", "clear", "spent", "claim",
                                    "file"}})
        < Cardinality(Id \ asked)

-----------------------------------------------------------------------------
(* approve(), from its first line: rememberedGrant.                        *)
Enter(c, input) ==
    call' = [call EXCEPT ![c] =
        IF remembered # NoId
        THEN [Idle EXCEPT !.pc = "rerun", !.id = remembered]
        ELSE input]

\* A tool call for the request arrives.
Begin(c) ==
    /\ call[c].pc = "idle" /\ ~ended /\ Room(c)
    /\ \E confirmed, remember \in BOOLEAN :
        /\ via # "llm" => ~confirmed /\ ~remember
        /\ Enter(c, [Idle EXCEPT !.pc = "look", !.confirmed = confirmed,
                                 !.remember = remember])
    /\ UNCHANGED <<via, clock, ended, tables, local, history>>

\* The dialog of the client is answered; its middleware calls again.
Answer(c) ==
    /\ call[c].pc = "prompt" /\ ~ended /\ Room(c)
    /\ \E yes, remember \in BOOLEAN :
        Enter(c, [Idle EXCEPT !.pc = "look",
                              !.answer = IF yes THEN "yes" ELSE "no",
                              !.remember = remember])
    /\ UNCHANGED <<via, clock, ended, tables, local, history>>

\* The client gives a dialog up.
Dismiss(c) ==
    /\ call[c].pc = "prompt"
    /\ Return(c)
    /\ UNCHANGED <<via, clock, ended, tables, local, history>>

\* pendingAt, and the branch approve() takes on it.
Look(c) ==
    /\ call[c].pc = "look"
    /\ IF Live(pending)
       THEN IF call[c].answer = "none" /\ via # "elicit"
                    /\ ~call[c].confirmed
            THEN Return(c)
            ELSE call' = [call EXCEPT
                    ![c].id = pending.id,
                    ![c].pc = IF call[c].answer = "none" /\ via = "elicit"
                              THEN "prompt" ELSE "consume"]
       ELSE IF pending # NoMark THEN Goto(c, "clear")
       ELSE Goto(c, CASE via = "llm" -> "spent"
                      [] via = "elicit" -> "claim"
                      [] via = "local" -> "file")
    /\ UNCHANGED <<via, clock, ended, tables, local, history>>

\* Mutant: the mark stays in the table.
TakeAndLeave(c, p, result) ==
    /\ UNCHANGED pending
    /\ spent' = IF via = "llm" THEN p ELSE spent
    /\ verdict' = [verdict EXCEPT ![p.id] = result]
    /\ IF result = "denied"
       THEN Return(c)
       ELSE call' = [call EXCEPT
                ![c].id = p.id,
                ![c].pc = IF call[c].remember THEN "remember" ELSE "run"]

\* consumePending, and evalElicit on what it took: the mark is found and
\* removed in one critical section, an llm mark leaves its tombstone.
Take(c, p, result) ==
    /\ pending' = NoMark
    /\ spent' = IF via = "llm" THEN p ELSE spent
    /\ verdict' = [verdict EXCEPT ![p.id] = result]
    /\ IF result = "denied"
       THEN Return(c)
       ELSE call' = [call EXCEPT
                ![c].id = p.id,
                ![c].pc = IF call[c].remember THEN "remember" ELSE "run"]

\* Mutant: the mark seen by Look is trusted, not looked up again.
ConsumeUnlocked(c) ==
    /\ call[c].pc = "consume"
    /\ Take(c, [pending EXCEPT !.id = call[c].id],
            CASE call[c].answer = "yes" -> "approved"
              [] call[c].answer = "no" -> "denied"
              [] call[c].answer = "none" -> "confirmed")
    /\ UNCHANGED <<via, clock, ended, remembered, local, asked, runs>>

Consume(c) ==
    /\ call[c].pc = "consume"
    /\ IF pending = NoMark
       THEN Return(c) /\ UNCHANGED <<tables, verdict>>
       ELSE /\ Take(c, pending,
                    CASE call[c].answer = "yes" -> "approved"
                      [] call[c].answer = "no" -> "denied"
                      [] call[c].answer = "none" -> "confirmed")
            /\ UNCHANGED remembered
    /\ UNCHANGED <<via, clock, ended, local, asked, runs>>

\* clearPending: the expired mark goes, whatever is there by now.
Clear(c) ==
    /\ call[c].pc = "clear"
    /\ pending' = NoMark
    /\ Goto(c, CASE via = "llm" -> "spent" [] via # "llm" -> "claim")
    /\ UNCHANGED <<via, clock, ended, remembered, spent, local, history>>

\* spentAt: within the window the request is neither run nor asked again.
SpentCheck(c) ==
    /\ call[c].pc = "spent"
    /\ IF Live(spent) THEN Return(c) ELSE Goto(c, "claim")
    /\ UNCHANGED <<via, clock, ended, tables, local, history>>

\* claimPending: a live mark is shared, else a new number is asked for.
Claim(c) ==
    /\ call[c].pc = "claim"
    /\ IF Live(pending)
       THEN UNCHANGED <<pending, asked>>
       ELSE \E i \in Draw : /\ pending' = [id |-> i, at |-> clock]
                            /\ asked' = asked \cup {i}
    /\ call' = [call EXCEPT
        ![c] = IF via = "elicit"
               THEN [Idle EXCEPT !.pc = "prompt", !.id = pending'.id]
               ELSE Idle]
    /\ UNCHANGED <<via, clock, ended, remembered, spent, local, verdict, runs>>

-----------------------------------------------------------------------------
(* waitLocal.                                                              *)
\* The number is asked for and <id>.json written; the write may fail.
WriteRequest(c) ==
    /\ call[c].pc = "file"
    /\ \E i \in Draw :
        /\ asked' = asked \cup {i}
        /\ \/ /\ files' = [files EXCEPT ![i] = {"json"}]
              /\ call' = [call EXCEPT ![c].pc = "wait", ![c].id = i]
           \/ UNCHANGED files /\ Return(c)
    /\ UNCHANGED <<via, clock, ended, tables, operator, verdict, runs>>

\* A tick of the poll: approved is looked for before denied.
Poll(c) ==
    /\ call[c].pc = "wait"
    /\ files[call[c].id] \cap {"approved", "denied"} # {}
    /\ LET seen == files[call[c].id] IN
        IF "approved" \in seen
        THEN /\ verdict' = [verdict EXCEPT ![call[c].id] = "approved"]
             /\ call' = [call EXCEPT ![c].pc = "clean",
                                     ![c].remember = "remember" \in seen]
        ELSE /\ verdict' = [verdict EXCEPT ![call[c].id] = "denied"]
             /\ Goto(c, "clean")
    /\ UNCHANGED <<via, clock, ended, tables, local, asked, runs>>

\* Mutant: only a cancelled context ends the wait, there is no deadline.
GiveUpOnCancel(c) ==
    /\ call[c].pc = "wait" /\ ended
    /\ verdict' = [verdict EXCEPT ![call[c].id] = "timeout"]
    /\ Goto(c, "clean")
    /\ UNCHANGED <<via, clock, ended, tables, local, asked, runs>>

\* ask_timeout, or the context of the tool call is cancelled.
GiveUp(c) ==
    /\ call[c].pc = "wait"
    /\ verdict' = [verdict EXCEPT ![call[c].id] = "timeout"]
    /\ Goto(c, "clean")
    /\ UNCHANGED <<via, clock, ended, tables, local, asked, runs>>

\* The deferred removal of the four files, whatever the outcome.
CleanUp(c) ==
    /\ call[c].pc = "clean"
    /\ files' = [files EXCEPT ![call[c].id] = {}]
    /\ IF verdict[call[c].id] = "approved"
       THEN Goto(c, IF call[c].remember THEN "remember" ELSE "run")
       ELSE Return(c)
    /\ UNCHANGED <<via, clock, ended, tables, operator, history>>

\* settle(): the request must still be there; then the files are written.
FindRequest(o) ==
    /\ operator[o].pc = "idle"
    /\ \E i \in Id, with \in {"approved", "denied"}, remember \in BOOLEAN :
        /\ "json" \in files[i]
        /\ remember => with = "approved"
        /\ operator' = [operator EXCEPT ![o] =
            [pc |-> IF remember THEN "remember" ELSE "answer",
             id |-> i, with |-> with]]
    /\ UNCHANGED <<via, clock, ended, tables, call, files, history>>

WriteRemember(o) ==
    /\ operator[o].pc = "remember"
    /\ files' = [files EXCEPT ![operator[o].id] = @ \cup {"remember"}]
    /\ operator' = [operator EXCEPT ![o].pc = "answer"]
    /\ UNCHANGED <<via, clock, ended, tables, call, history>>

WriteAnswer(o) ==
    /\ operator[o].pc = "answer"
    /\ files' = [files EXCEPT ![operator[o].id] = @ \cup {operator[o].with}]
    /\ operator' = [operator EXCEPT ![o] = [Resting EXCEPT !.pc = "done"]]
    /\ UNCHANGED <<via, clock, ended, tables, call, history>>

-----------------------------------------------------------------------------
\* remember(), after the verdict and before the operation runs.
Remember(c) ==
    /\ call[c].pc = "remember"
    /\ remembered' = call[c].id
    /\ Goto(c, "run")
    /\ UNCHANGED <<via, clock, ended, pending, spent, local, history>>

\* The operation runs under the number just granted.
Run(c) ==
    /\ call[c].pc = "run"
    /\ runs' = [runs EXCEPT ![call[c].id] = IF @ < 2 THEN @ + 1 ELSE @]
    /\ Return(c)
    /\ UNCHANGED <<via, clock, ended, tables, local, asked, verdict>>

\* It runs under the number remembered (ApprovedRemember).
Rerun(c) ==
    /\ call[c].pc = "rerun"
    /\ Return(c)
    /\ UNCHANGED <<via, clock, ended, tables, local, history>>

\* Nothing on the local channel reads the clock: its timer is GiveUp.
Tick ==
    /\ via # "local"
    /\ clock < MaxTime /\ clock' = clock + 1
    /\ UNCHANGED <<via, ended, tables, call, local, history>>

\* watchSession: the client is gone, its tables are dropped.  Calls that are
\* past their first line carry on.
EndSession ==
    /\ ~ended /\ ended' = TRUE
    /\ remembered' = NoId /\ pending' = NoMark /\ spent' = NoMark
    /\ UNCHANGED <<via, clock, call, local, history>>

Step(c) ==
    \/ Look(c) \/ Consume(c) \/ Clear(c) \/ SpentCheck(c) \/ Claim(c)
    \/ WriteRequest(c) \/ Poll(c) \/ GiveUp(c) \/ CleanUp(c)
    \/ Remember(c) \/ Run(c) \/ Rerun(c)

Next ==
    \/ \E c \in Call : Begin(c) \/ Answer(c) \/ Dismiss(c) \/ Step(c)
    \/ \E o \in Operator :
        FindRequest(o) \/ WriteRemember(o) \/ WriteAnswer(o)
    \/ Tick \/ EndSession

Spec == Init /\ [][Next]_vars

\* A goroutine that can go on does: none of the steps waits for a person,
\* the poll has a ticker and a deadline.  Nothing is assumed of the model,
\* the user, the operators or the clock.
FairSpec == Spec /\ \A c \in Call : WF_vars(Step(c))

-----------------------------------------------------------------------------
\* What a verdict means to the abstract specification.
Meaning(v) == IF v = "open" THEN "open"
              ELSE IF v \in {"approved", "confirmed"} THEN "granted"
              ELSE "refused"
Shown == [i \in Id |-> Meaning(verdict[i])]

G == INSTANCE Grants WITH standing <- remembered, verdict <- Shown

\* Whatever the interleaving of the calls, each authorization number gets one
\* question, one verdict and one execution, and only a granted number is
\* remembered: the calls implement the promise stated in Grants (approval.go,
\* consumePending and claimPending).
ImplementsGrants == G!Spec

\* The tables and the audit log agree: the mark in pending is one somebody
\* was asked about and nobody has answered, the tombstone in spent is one
\* that was confirmed, a call about to run holds a granted number.
TablesMatchAudit ==
    /\ pending # NoMark =>
        pending.id \in asked /\ verdict[pending.id] = "open"
    /\ spent # NoMark => verdict[spent.id] = "confirmed"
    /\ \A c \in Call : call[c].pc \in {"remember", "run", "rerun"} =>
        verdict[call[c].id] \in {"approved", "confirmed"}

\* approve() always comes back to its caller, except while a dialog of the
\* client is open: no call waits for another call, and a local request that
\* nobody answers ends with ask_timeout.
CallReturns ==
    \A c \in Call :
        call[c].pc \notin {"idle", "prompt"}
            ~> call[c].pc \in {"idle", "prompt"}

\* What approval.go says of the tombstone (line 164): while it stands, the
\* same request is not marked again.  Not so: looking for it and registering
\* a mark are two critical sections.
NoMarkUnderTombstone ==
    spent # NoMark /\ pending # NoMark => pending.at > spent.at + TTL
=============================================================================
