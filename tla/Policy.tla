------------------------------- MODULE Policy -------------------------------
(***************************************************************************)
(* What the MCP server decides of a command before a human is asked        *)
(* (mcpsrv/policy.go, authorizeCommand in mcpsrv/tools.go).  A command is  *)
(* given by what the scan of its text finds: the segments, what stands in  *)
(* each outside and inside quotes, and where each list hits.               *)
(***************************************************************************)
EXTENDS Naturals, Sequences

Decision == {"run", "ask", "deny"}

\* What may be found of one segment.  rm: no rm, one of files, a recursive one
\* of a subdirectory, or of the root or a whole home; code: no quoted string
\* with blanks, one that is data, or one that its helper will run, harmless or
\* with a fatal rm or a deny rule in it; meta: a substitution, redirection, &
\* or glob outside quotes; allowed: it begins as an allow rule says.
Segment == [rm : {"no", "files", "subdir", "root"}, code : {"none", "data", "harmless", "denied"},
            meta : BOOLEAN, allowed : BOOLEAN]

\* Where one list's rules hit a text: wholly within quotes, or not.
Hit == {"bare", "quoted"}

\* raw: the deny rules on the text as it came; plain: with quotes and escapes
\* taken away; ask: an ask rule on either; path: an argument that is a path on
\* the machine's own list or on deny_paths.
Found == [segs : Seq(Segment), raw : SUBSET Hit, plain : SUBSET Hit, ask : BOOLEAN,
          path : BOOLEAN]

rmFatalTargets(seg) == seg.rm = "root"
codeDenied(seg) == seg.code = "denied"

\* denyMatch: one hit outside quotes is enough.
denyMatch(hits) == "bare" \in hits
quotedHit(hits) == hits = {"quoted"}

\* segUnsafe, and the last loop: every segment, and there is one
Harmless(cmd) ==
    /\ cmd.segs # <<>>
    /\ \A n \in DOMAIN cmd.segs : ~ cmd.segs[n].meta /\ cmd.segs[n].allowed

Denied(cmd) ==
    \/ \E n \in DOMAIN cmd.segs : rmFatalTargets(cmd.segs[n]) \/ codeDenied(cmd.segs[n])
    \/ denyMatch(cmd.raw) \/ denyMatch(cmd.plain)

OnlyQuoted(cmd) == quotedHit(cmd.raw) \/ quotedHit(cmd.plain)

\* Mutant of SilentOnlyIfHarmless: the allow list is looked at before the ask
\* list.
CommandAllowFirst(cmd, default) ==
    IF Denied(cmd) THEN "deny"
    ELSE IF Harmless(cmd) THEN "run"
    ELSE IF cmd.ask \/ OnlyQuoted(cmd) THEN "ask" ELSE default
\* Policy.Command
Command(cmd, default) ==
    IF Denied(cmd) THEN "deny"
    ELSE IF cmd.ask \/ OnlyQuoted(cmd) THEN "ask"
    ELSE IF Harmless(cmd) THEN "run"
    ELSE default

-----------------------------------------------------------------------------
(* authorizeCommand.                                                       *)

NoStdin == [segs |-> <<>>, raw |-> {}, plain |-> {}, ask |-> FALSE, path |-> FALSE]

\* (Input of blanks alone is left out.)
\* protectedCmdPath turns what is not denied into a denial; what is to be fed
\* to the command is judged as a command too, and the stricter one holds.
WithPaths(cmd, default) == IF cmd.path THEN "deny" ELSE Command(cmd, default)

WithStdin(cmd, stdin, default) ==
    LET dec == WithPaths(cmd, default)  sdec == Command(stdin, default) IN
    IF stdin = NoStdin \/ dec = "deny" THEN dec
    ELSE IF sdec = "deny" THEN "deny"
    ELSE IF sdec = "ask" THEN "ask" ELSE dec

\* What becomes of it: refused, run with nobody asked, or asked.  A machine
\* whose owner declared it open is not asked about, but its denials stand.
authorizeCommand(cmd, stdin, default, open) ==
    LET dec == WithStdin(cmd, stdin, default) IN
    CASE dec = "deny" -> "refused"
      [] dec = "ask" /\ ~ open -> "asked"
      [] OTHER -> "silent"

-----------------------------------------------------------------------------
(* The decisions, one at a time, over bounded inputs.                      *)

CONSTANTS
    Commands,       \* the commands tried: members of Found
    Stdins          \* the inputs fed to them

ASSUME PolicyAssumption == Commands \cup Stdins \subseteq Found

VARIABLES
    asked           \* the command under decision, and what became of it

Nobody == [cmd |-> NoStdin, stdin |-> NoStdin, default |-> "ask", open |-> FALSE, out |-> "none"]

PolicyInit == asked = Nobody

Decide(cmd, stdin, default, open) ==
    asked' = [cmd |-> cmd, stdin |-> stdin, default |-> default, open |-> open,
              out |-> authorizeCommand(cmd, stdin, default, open)]

PolicyNext ==
    \/ asked = Nobody /\ \E cmd \in Commands, stdin \in Stdins, default \in Decision, open \in BOOLEAN :
                            Decide(cmd, stdin, default, open)
    \/ asked # Nobody /\ asked' = Nobody

-----------------------------------------------------------------------------
(* Properties.                                                             *)

\* What may go by in silence, said without the order of the lists: nothing a
\* human should see in the command nor in what is fed to it.
Unremarkable(cmd, default) ==
    /\ ~ cmd.ask /\ cmd.raw = {} /\ cmd.plain = {}
    /\ default = "run" \/ \A n \in DOMAIN cmd.segs : cmd.segs[n].allowed /\ ~ cmd.segs[n].meta

\* A command runs with nobody asked only if its owner wants no questions or
\* there is nothing in it or in its input to ask about, whatever else the
\* lists say; and a hit outside quotes, a fatal rm or a listed path is refused
\* on every machine, under every default.
SilentOnlyIfHarmless ==
    LET a == asked IN
    /\ a.out = "silent" /\ ~ a.open =>
          Unremarkable(a.cmd, a.default) /\ Unremarkable(a.stdin, a.default)
    /\ a.out \in {"silent", "asked"} => ~ Denied(a.cmd) /\ ~ a.cmd.path /\ ~ Denied(a.stdin)

\* A text on the deny list, even within quotes, is no reason to be milder.
\* Not so under the default "deny": without it the command would be refused.
QuotedIsNoExcuse ==
    \A cmd \in {asked.cmd} : OnlyQuoted(cmd) /\ asked.out = "asked" =>
       authorizeCommand([cmd EXCEPT !.raw = {}, !.plain = {}], asked.stdin, asked.default, asked.open)
          # "refused"

=============================================================================
