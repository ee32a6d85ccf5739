------------------------------ MODULE McpFiles ------------------------------
(***************************************************************************)
(* read_file and write_file of the MCP server (mcpsrv/filetools.go,        *)
(* resolve.go, windows.go), on one machine.  A path is judged by the name  *)
(* the machine's own file system gives it, in one remote command, and used *)
(* in a later one, after a person may have been asked; links, the agent's  *)
(* report and other calls change things in between.                        *)
(***************************************************************************)
EXTENDS Naturals, FiniteSets

CONSTANTS
    Op,             \* calls of read_file and write_file
    Path,           \* paths as clients write them, and as roots are configured
    Real,           \* absolute names of the machine's file system
    Spells,         \* the file each name spells where case is folded
    Guarded,        \* the token and settings files an agent may report
    DeniedText,     \* paths, and names, that deny_paths hits as they are written
    Folds,          \* does this machine's file system fold case and spelling?
    MaxChanges      \* bound: links moved and reports of the agent

ASSUME FilesAssumption ==
    /\ IsFiniteSet(Op) /\ IsFiniteSet(Path) /\ IsFiniteSet(Real) /\ DeniedText \subseteq Path \cup Real
    /\ Guarded \subseteq Real /\ DOMAIN Spells = Real /\ Folds \in BOOLEAN /\ MaxChanges \in Nat

VARIABLES
    link,           \* what each path resolves to
    meta,           \* the machine's metadata: protect, roots, posture
    cache,          \* Server.remotes[machine]: fold, resolvedRoots, rootsKey
    op,             \* the calls
    moves,        \* changes so far
    touched         \* history: what was opened, by which call, on whose word

fvars == <<link, meta, cache, op, moves, touched>>

NoRoots == [key |-> {}, real |-> {}, set |-> FALSE]
Quiet == [pc |-> "idle", kind |-> "read", path |-> "none", real |-> "none", ok |-> "none",
          always |-> {}]

FilesInit ==
    /\ link \in [Path -> Real]
    /\ meta \in [protect : {{}, Guarded}, roots : {{}, Path}, open : {FALSE}]
    /\ cache = [known |-> FALSE, fold |-> FALSE, roots |-> NoRoots]
    /\ op = [o \in Op |-> Quiet] /\ moves = 0 /\ touched = {}

\* Two names of one file, and two names that are told apart only if we fold
Alike(r, s, fold) == r = s \/ (fold /\ Spells[r] = Spells[s])

Over(o) == op' = [op EXCEPT ![o] = [Quiet EXCEPT !.pc = "over"]]
Go(o, pc) == op' = [op EXCEPT ![o].pc = pc]

Called(o, kind, p) ==
    /\ op[o].pc = "idle"
    /\ op' = [op EXCEPT ![o] = [Quiet EXCEPT !.pc = "probe", !.kind = kind, !.path = p,
                                             !.always = meta.protect]]
    /\ UNCHANGED <<link, meta, cache, moves, touched>>

\* remoteInfo, and the text of the path.  A probe that fails, or whose answer
\* is not understood, ends the call and is not remembered.
Probe(o) ==
    /\ op[o].pc = "probe"
    /\ \/ /\ cache' = IF cache.known THEN cache ELSE [cache EXCEPT !.known = TRUE, !.fold = Folds]
          /\ IF op[o].path \in DeniedText THEN Over(o) ELSE Go(o, "resolve")
       \/ ~ cache.known /\ Over(o) /\ UNCHANGED cache
    /\ UNCHANGED <<link, meta, moves, touched>>

\* PathResolved, ProtectedResolved
DeniedReal(r, fold) == \E s \in DeniedText \cap Real : Alike(r, s, fold)
ProtectedReal(r, fold) == \E s \in meta.protect : Alike(r, s, fold)

\* The script's answer: links followed to the end, the directory's true name.
tsresolve(o) == link[op[o].path]

\* The first remote command: resolvePath, and what it found is judged.
Resolve(o) ==
    /\ op[o].pc = "resolve"
    /\ LET r == tsresolve(o) IN
       \/ /\ ~ DeniedReal(r, cache.fold) /\ ~ ProtectedReal(r, cache.fold)
          /\ op' = [op EXCEPT ![o].real = r, ![o].ok = "read",
                              ![o].pc = IF op[o].kind = "read" THEN "use" ELSE "roots"]
       \/ Over(o)
    /\ UNCHANGED <<link, meta, cache, moves, touched>>

\* resolvedRootsFor: resolved once for each list of roots; one that does not
\* resolve is left out, and stays left out.
RootsKnown == cache.roots.set /\ cache.roots.key = meta.roots
Roots(o) ==
    /\ op[o].pc = "roots" /\ Go(o, "inroots")
    /\ \/ RootsKnown /\ UNCHANGED cache
       \/ /\ ~ RootsKnown
          /\ \E found \in SUBSET meta.roots :
                cache' = [cache EXCEPT !.roots = [key |-> meta.roots, real |-> {link[p] : p \in found},
                                                  set |-> TRUE]]
    /\ UNCHANGED <<link, meta, moves, touched>>

\* inResolvedRoots, the posture, or a person.
Judge(o) ==
    /\ op[o].pc = "inroots"
    /\ LET in == \E s \in cache.roots.real : Alike(op[o].real, s, cache.fold) IN
       op' = IF in \/ meta.open
               THEN [op EXCEPT ![o].pc = "use", ![o].ok = IF in THEN "roots" ELSE "open"]
               ELSE [op EXCEPT ![o].pc = "approve"]
    /\ UNCHANGED <<link, meta, cache, moves, touched>>

\* approve: the request names the resolved path and the content's digest.
Approve(o) ==
    /\ op[o].pc = "approve"
    /\ \/ op' = [op EXCEPT ![o].pc = "use", ![o].ok = "approved"]
       \/ Over(o)
    /\ UNCHANGED <<link, meta, cache, moves, touched>>

\* Mutant of TouchedIsJudged: the second command does not look where the path
\* leads by then.
UsedPathAnyway(o) == TRUE
\* posixFileCmd, psFileCommand: resolve once more, compare, open.
SamePath(o) == tsresolve(o) = op[o].real

Use(o) ==
    /\ op[o].pc = "use" /\ Over(o)
    /\ touched' = IF SamePath(o)
                    THEN touched \cup {[kind |-> op[o].kind, real |-> tsresolve(o),
                                        judged |-> op[o].real, ok |-> op[o].ok,
                                        always |-> op[o].always, now |-> meta.protect]}
                    ELSE touched
    /\ UNCHANGED <<link, meta, cache, moves>>

-----------------------------------------------------------------------------
(* Around them: links are moved, the agent reconnects and reports anew.    *)

Budget == moves < MaxChanges /\ moves' = moves + 1

Relink ==
    /\ Budget /\ \E p \in Path : \E r \in Real \ {link[p]} : link' = [link EXCEPT ![p] = r]
    /\ UNCHANGED <<meta, cache, op, touched>>

Reported ==
    /\ Budget
    /\ \E protect \in {{}, Guarded}, open \in BOOLEAN, roots \in {{}, Path} :
          meta' = [protect |-> protect, roots |-> roots, open |-> open]
    /\ meta' # meta
    /\ op' = [o \in Op |-> [op[o] EXCEPT !.always = @ \cap meta'.protect]]
    /\ UNCHANGED <<link, cache, touched>>

FilesNext ==
    \/ \E o \in Op : \/ \E kind \in {"read", "write"}, p \in Path : Called(o, kind, p)
                     \/ Probe(o) \/ Resolve(o) \/ Roots(o) \/ Judge(o) \/ Approve(o) \/ Use(o)
    \/ Relink \/ Reported

-----------------------------------------------------------------------------
(* Properties.                                                             *)

\* Whatever links move between the two remote commands, and however long the
\* approval takes: the file that is opened is the one that was judged and
\* shown, it is not a denied file under any spelling this file system takes,
\* nor one the agent has guarded for as long as the call went on.
TouchedIsJudged ==
    \A t \in touched : /\ t.real = t.judged
                       /\ ~ DeniedReal(t.real, Folds)
                       /\ ~ \E s \in t.always : Alike(t.real, s, Folds)
                       /\ t.kind = "write" => t.ok \in {"roots", "open", "approved"}

\* The agent's list as it is when the file is opened.  Not so: it is read
\* before the approval and not again.
GuardedNow == \A t \in touched : ~ \E s \in t.now : Alike(t.real, s, Folds)

=============================================================================
