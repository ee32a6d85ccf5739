------------------------------ MODULE McpProofs ------------------------------
(***************************************************************************)
(* Theorems about the MCP server: what runs with nobody asked (Policy),    *)
(* which file a call opens (McpFiles), the connections of the pool         *)
(* (SshPool), the output of a terminal (Terminal), the processes left on   *)
(* users' machines (McpSessions), what a resident shell answers            *)
(* (ShellExec).  They hold for any number of calls, paths, links moved,    *)
(* breaks, chunks and commands, and any limits.                            *)
(***************************************************************************)
EXTENDS Policy, McpFiles, SshPool, Terminal, McpSessions, ShellExec,
        FiniteSetTheorems, FunctionTheorems, TLAPS

-----------------------------------------------------------------------------
(* Policy.                                                                 *)

PolicySpec == PolicyInit /\ [][PolicyNext]_asked

\* What has been decided was decided by authorizeCommand, of a command and an
\* input as the scan finds them.
PolicyInv ==
    asked # Nobody =>
       /\ asked.cmd \in Found /\ asked.stdin \in Found
       /\ asked.default \in Decision /\ asked.open \in BOOLEAN
       /\ asked.out = authorizeCommand(asked.cmd, asked.stdin, asked.default, asked.open)

\* What the order of the lists comes to.
LEMMA RunIsUnremarkable ==
    ASSUME NEW cmd \in Found, NEW default \in Decision, Command(cmd, default) = "run"
    PROVE  Unremarkable(cmd, default) /\ ~ Denied(cmd)
<1>1. ~ Denied(cmd) /\ ~ cmd.ask /\ ~ OnlyQuoted(cmd) /\ (Harmless(cmd) \/ default = "run")
  BY DEF Command, Decision
<1>2. cmd.raw \in SUBSET Hit /\ cmd.plain \in SUBSET Hit
  BY DEF Found
<1>3. cmd.raw = {} /\ cmd.plain = {}
  BY <1>1, <1>2 DEF Denied, denyMatch, OnlyQuoted, quotedHit, Hit
<1> QED BY <1>1, <1>3 DEF Unremarkable, Harmless

LEMMA NotDenied ==
    ASSUME NEW cmd, NEW default, Command(cmd, default) # "deny"
    PROVE  ~ Denied(cmd)
BY DEF Command

LEMMA NoInputFacts == NoStdin \in Found /\ ~ Denied(NoStdin) /\ \A d : Unremarkable(NoStdin, d)
<1>1. /\ NoStdin.segs = <<>> /\ NoStdin.raw = {} /\ NoStdin.plain = {} /\ ~NoStdin.ask
      /\ ~NoStdin.path
  BY DEF NoStdin
<1>2. DOMAIN NoStdin.segs = {}
  BY <1>1
<1>3. ~ Denied(NoStdin) /\ \A d : Unremarkable(NoStdin, d)
  BY <1>1, <1>2 DEF Denied, denyMatch, Unremarkable
<1>4. NoStdin \in Found
  BY DEF NoStdin, Found
<1> QED BY <1>3, <1>4

LEMMA DecidedWell ==
    ASSUME NEW cmd \in Found, NEW stdin \in Found, NEW default \in Decision, NEW o \in BOOLEAN,
           NEW out, out = authorizeCommand(cmd, stdin, default, o)
    PROVE  /\ out = "silent" /\ ~ o => Unremarkable(cmd, default) /\ Unremarkable(stdin, default)
           /\ out \in {"silent", "asked"} => ~ Denied(cmd) /\ ~ cmd.path /\ ~ Denied(stdin)
<1> DEFINE dec == WithStdin(cmd, stdin, default)
<1>1. \A c \in Found : Command(c, default) \in Decision
  BY DEF Command, Decision
<1>2. WithPaths(cmd, default) \in Decision
  BY <1>1 DEF WithPaths, Decision
<1>3. dec \in Decision
  BY <1>1, <1>2 DEF WithStdin, Decision
<1>4. dec # "deny" =>
        /\ WithPaths(cmd, default) # "deny"
        /\ stdin = NoStdin \/ Command(stdin, default) # "deny"
  BY DEF WithStdin
<1>5. dec # "deny" => ~ Denied(cmd) /\ ~ cmd.path /\ ~ Denied(stdin)
  BY <1>4, NotDenied, NoInputFacts DEF WithPaths
<1>6. dec = "run" =>
        /\ Command(cmd, default) = "run"
        /\ stdin = NoStdin \/ Command(stdin, default) = "run"
  BY <1>1 DEF WithStdin, WithPaths, Decision
<1>7. dec = "run" => Unremarkable(cmd, default) /\ Unremarkable(stdin, default)
  BY <1>6, RunIsUnremarkable, NoInputFacts
<1>8. /\ dec = "deny" => out = "refused"
      /\ dec = "ask" /\ ~ o => out = "asked"
  BY DEF authorizeCommand
<1> HIDE DEF dec
<1> QED BY <1>3, <1>5, <1>7, <1>8 DEF Decision

\* Nothing runs with nobody asked, unless its owner wants no questions or there
\* is nothing in the command or its input to ask about; and what is on the deny
\* list, deletes the root or names a listed path is refused on every machine
\* (Policy.Command, authorizeCommand), for every list of segments and hits.
THEOREM SilenceIsHarmless == PolicySpec => []SilentOnlyIfHarmless
<1>1. PolicyInit => PolicyInv
  BY DEF PolicyInit, PolicyInv
<1>2. PolicyInv /\ [PolicyNext]_asked => PolicyInv'
  <2> SUFFICES ASSUME PolicyInv, [PolicyNext]_asked PROVE PolicyInv'
    OBVIOUS
  <2>1. ASSUME NEW cmd \in Commands, NEW stdin \in Stdins, NEW default \in Decision,
               NEW o \in BOOLEAN, Decide(cmd, stdin, default, o)
        PROVE  PolicyInv'
    <3>1. cmd \in Found /\ stdin \in Found
      BY PolicyAssumption
    <3> DEFINE out == authorizeCommand(cmd, stdin, default, o)
    <3>2. asked' = [cmd |-> cmd, stdin |-> stdin, default |-> default, open |-> o, out |-> out]
      BY <2>1 DEF Decide
    <3> HIDE DEF out
    <3>3. /\ asked'.cmd = cmd /\ asked'.stdin = stdin /\ asked'.default = default
          /\ asked'.open = o /\ asked'.out = out
      BY <3>2
    <3> QED BY <3>1, <3>3 DEF PolicyInv, out
  <2> QED BY <2>1 DEF PolicyNext, PolicyInv
<1>3. PolicyInv => SilentOnlyIfHarmless
  <2> SUFFICES ASSUME PolicyInv PROVE SilentOnlyIfHarmless
    OBVIOUS
  <2>1. CASE asked = Nobody
    <3>1. asked.out = "none"
      BY <2>1 DEF Nobody
    <3> QED BY <3>1 DEF SilentOnlyIfHarmless
  <2>2. CASE asked # Nobody
    <3>1. /\ asked.cmd \in Found /\ asked.stdin \in Found
          /\ asked.default \in Decision /\ asked.open \in BOOLEAN
          /\ asked.out = authorizeCommand(asked.cmd, asked.stdin, asked.default, asked.open)
      BY <2>2 DEF PolicyInv
    <3> QED BY <3>1, DecidedWell DEF SilentOnlyIfHarmless
  <2> QED BY <2>1, <2>2
<1> QED BY <1>1, <1>2, <1>3, PTL DEF PolicySpec

-----------------------------------------------------------------------------
(* SshPool.                                                                *)

\* NoConnLost says nothing while the pool is empty but that at most the "no
\* connection" 0 is open; that connections are numbered from 1 makes it none.
PoolInv == pool \in Conn \cup {0} /\ open \subseteq Conn /\ open \subseteq {pool}

LEMMA PoolInitially == PoolInit => PoolInv
BY DEF PoolInit, PoolInv

\* Only a dial adds a connection, and it holds the pool's lock: there was none.
LEMMA PoolStep == PoolInv /\ [PoolNext]_pvars => PoolInv'
<1> SUFFICES ASSUME PoolInv, [PoolNext]_pvars PROVE PoolInv'
  OBVIOUS
<1> USE DEF PoolInv
<1>1. ASSUME NEW u \in User, conn(u) PROVE PoolInv'
  <2>1. CASE pool # 0 /\ UNCHANGED <<pool, open>>
    BY <2>1
  <2>2. CASE pool = 0 /\ pool' \in Conn /\ open' = open \cup {pool'}
    <3>1. open = {}
      BY <2>2, PoolAssumption
    <3> QED BY <2>2, <3>1
  <2>3. CASE pool = 0 /\ UNCHANGED <<pool, open>>
    BY <2>3
  <2> QED BY <1>1, <2>1, <2>2, <2>3 DEF conn
<1>2. ASSUME NEW u \in User, drop(u) PROVE PoolInv'
  BY <1>2 DEF drop, Left
<1>3. CASE CloseAll
  BY <1>3 DEF CloseAll
<1>4. ASSUME UNCHANGED <<pool, open>> PROVE PoolInv'
  BY <1>4
<1>5. ASSUME NEW u \in User,
             \/ \E kind \in {"run", "terminal", "shell"} : Asked(u, kind)
             \/ Session(u) \/ AnswerLost(u) \/ Ends(u) \/ LooksAgain(u) \/ Again(u)
      PROVE  UNCHANGED <<pool, open>>
  BY <1>5 DEF Asked, Session, AnswerLost, Ends, LooksAgain, Again
<1>6. ASSUME Breaks PROVE UNCHANGED <<pool, open>>
  BY <1>6 DEF Breaks
<1>7. CASE UNCHANGED pvars
  BY <1>4, <1>7 DEF pvars
<1> QED
  BY <1>1, <1>2, <1>3, <1>4, <1>5, <1>6, <1>7 DEF PoolNext

\* Every connection that was dialled and not closed is the one the pool holds,
\* whichever calls drop and redial at once (sshpool.go: conn, drop, Close).
THEOREM NoConnectionIsLost == PoolSpec => []NoConnLost
<1>1. PoolInv => NoConnLost
  BY DEF PoolInv, NoConnLost
<1> QED BY <1>1, PoolInitially, PoolStep, PTL DEF PoolSpec

-----------------------------------------------------------------------------
(* Terminal.                                                               *)

TermState == [buf : 0 .. BufferSize, dropped : Nat, closed : BOOLEAN, code : {-1, 0}, changed : Nat]
Pty == [out : Nat, ended : BOOLEAN, shut : BOOLEAN]
Reading == [pc : {"idle", "look", "wait"}, max : 1 .. BufferSize, waits : Nat]

TerminalTypes ==
    /\ term \in TermState /\ pty \in Pty
    /\ rd \in [Reader -> Reading] /\ told \in [bytes : Nat, dropped : Nat]

\* A reader waits on a channel that has been made: the present one, or one that
\* is closed.  TerminalTypes and this make the property inductive.
MadeBefore == \A r \in Reader : rd[r].pc = "wait" => rd[r].waits <= term.changed

TerminalInv == TerminalTypes /\ MadeBefore /\ TerminalLosesNothing

LEMMA TerminalInitially == TerminalInit => TerminalInv
  BY TerminalAssumption
  DEF TerminalInit, TerminalInv, TerminalTypes, MadeBefore, TerminalLosesNothing, TermState, Pty, Reading

\* What the two ways of making room in append come to.
LEMMA RoomIsMade ==
    ASSUME TerminalTypes, NEW n \in 1 .. MaxChunk
    PROVE  /\ MakeRoom(n) \in TermState
           /\ MakeRoom(n).buf + MakeRoom(n).dropped = term.buf + term.dropped + n
           /\ MakeRoom(n).closed = term.closed /\ MakeRoom(n).changed = term.changed
<1> DEFINE over == term.buf + n - BufferSize
<1>1. n \in Nat /\ BufferSize \in Nat /\ term.buf \in 0 .. BufferSize /\ term.dropped \in Nat
  BY TerminalAssumption DEF TerminalTypes, TermState
<1>2. MakeRoom(n) = [term EXCEPT !.buf = smaller(term.buf + n, BufferSize),
                                 !.dropped = IF over > 0 THEN term.dropped + over ELSE term.dropped]
  BY DEF MakeRoom
<1>3. /\ MakeRoom(n).buf = smaller(term.buf + n, BufferSize)
      /\ MakeRoom(n).dropped = IF over > 0 THEN term.dropped + over ELSE term.dropped
      /\ MakeRoom(n).closed = term.closed /\ MakeRoom(n).changed = term.changed
  BY <1>2 DEF TerminalTypes, TermState
<1>4. smaller(term.buf + n, BufferSize) \in 0 .. BufferSize
  BY <1>1 DEF smaller
<1>5. (IF over > 0 THEN term.dropped + over ELSE term.dropped) \in Nat
  BY <1>1
<1>6. MakeRoom(n) \in TermState
  BY <1>2, <1>4, <1>5 DEF TerminalTypes, TermState
<1>7. MakeRoom(n).buf + MakeRoom(n).dropped = term.buf + term.dropped + n
  BY <1>1, <1>3 DEF smaller
<1> QED BY <1>3, <1>6, <1>7

LEMMA AppendKeeps ==
    ASSUME TerminalInv, NEW n \in 1 .. MaxChunk, append(n) PROVE TerminalInv'
<1> USE DEF TerminalInv
<1>1. /\ n \in Nat /\ MakeRoom(n) \in TermState
      /\ MakeRoom(n).buf + MakeRoom(n).dropped = term.buf + term.dropped + n
      /\ MakeRoom(n).changed = term.changed
  BY RoomIsMade, TerminalAssumption
<1>2. /\ term' \in TermState /\ term'.changed = term.changed + 1
      /\ term'.buf + term'.dropped = term.buf + term.dropped + n
  BY <1>1 DEF append, TermState
<1>3. pty' \in Pty /\ pty'.out = pty.out + n
  BY <1>1 DEF append, TerminalTypes, Pty
<1>4. UNCHANGED <<rd, told>>
  BY DEF append
<1>5. TerminalTypes'
  BY <1>2, <1>3, <1>4 DEF TerminalTypes
<1>6. MadeBefore' /\ \A r \in Reader : rd[r].pc = "wait" => rd[r].waits # term'.changed
  BY <1>2, <1>4 DEF MadeBefore, TerminalTypes, TermState, Reading
<1>7. told.bytes + told.dropped + term'.buf + term'.dropped = pty'.out
  BY <1>2, <1>3 DEF TerminalTypes, TerminalLosesNothing, TermState, Pty
<1>8. TerminalLosesNothing'
  BY <1>4, <1>6, <1>7 DEF TerminalLosesNothing
<1> QED BY <1>5, <1>6, <1>8

\* The change closes the channel of whoever waits.
LEMMA FinishKeeps ==
    ASSUME TerminalInv, NEW code \in {-1, 0}, finish(code) PROVE TerminalInv'
<1> USE DEF TerminalInv
<1>1. /\ term' \in TermState /\ term'.changed = term.changed + 1
      /\ term'.buf = term.buf /\ term'.dropped = term.dropped
  <2>1. term' = [term EXCEPT !.closed = TRUE, !.code = code, !.changed = term.changed + 1]
    BY DEF finish
  <2>2. term \in TermState /\ term.changed + 1 \in Nat
    BY DEF TerminalTypes, TermState
  <2>3. /\ term'.changed = term.changed + 1
        /\ term'.buf = term.buf /\ term'.dropped = term.dropped
    BY <2>1, <2>2 DEF TermState
  <2>4. term' \in TermState
    BY <2>1, <2>2 DEF TermState
  <2> QED BY <2>3, <2>4
<1>2. UNCHANGED <<pty, rd, told>>
  BY DEF finish
<1>3. MadeBefore' /\ \A r \in Reader : rd[r].pc = "wait" => rd[r].waits # term'.changed
  BY <1>1, <1>2 DEF MadeBefore, TerminalTypes, TermState, Reading
<1>4. told.bytes + told.dropped + term'.buf + term'.dropped = pty.out
  BY <1>1 DEF TerminalLosesNothing
<1>5. TerminalLosesNothing'
  BY <1>2, <1>3, <1>4 DEF TerminalLosesNothing
<1> QED BY <1>1, <1>2, <1>3, <1>5 DEF TerminalTypes

\* A reader takes only when there is something, and then nobody waits on the
\* present channel.
LEMMA TakesKeeps ==
    ASSUME TerminalInv, NEW r \in Reader, Takes(r) PROVE TerminalInv'
<1> USE DEF TerminalInv
<1> DEFINE n == smaller(rd[r].max, term.buf)
<1>1. n \in 0 .. term.buf
  BY TerminalAssumption DEF TerminalTypes, TermState, Reading, smaller
<1>2. /\ term' \in TermState /\ term'.changed = term.changed
      /\ term'.buf = term.buf - n /\ term'.dropped = 0
  <2>1. term' = [term EXCEPT !.buf = term.buf - n, !.dropped = 0]
    BY DEF Takes
  <2>2. term.buf - n \in 0 .. BufferSize
    BY <1>1, TerminalAssumption DEF TerminalTypes, TermState
  <2> HIDE DEF n
  <2> QED BY <2>1, <2>2 DEF TerminalTypes, TermState
<1>3. /\ told' \in [bytes : Nat, dropped : Nat]
      /\ told'.bytes = told.bytes + n /\ told'.dropped = told.dropped + term.dropped
  BY <1>1 DEF Takes, TerminalTypes, TermState
<1>4. pty' = pty /\ rd' = [rd EXCEPT ![r].pc = "idle"] /\ Something
  BY DEF Takes
<1>5. rd' \in [Reader -> Reading]
  BY <1>4 DEF TerminalTypes, Reading
<1>6. \A q \in Reader : rd'[q].pc = "wait" => rd'[q] = rd[q]
  BY <1>4 DEF TerminalTypes, Reading
<1>7. \A q \in Reader : rd'[q].pc = "wait" => rd'[q].waits # term'.changed
  BY <1>2, <1>4, <1>6 DEF TerminalLosesNothing
<1>8. told'.bytes + told'.dropped + term'.buf + term'.dropped = pty'.out
  BY <1>1, <1>2, <1>3, <1>4 DEF TerminalTypes, TerminalLosesNothing, TermState, Pty
<1>9. TerminalLosesNothing'
  BY <1>7, <1>8 DEF TerminalLosesNothing
<1>10. MadeBefore'
  BY <1>2, <1>6 DEF MadeBefore
<1> QED BY <1>2, <1>3, <1>4, <1>5, <1>9, <1>10 DEF TerminalTypes

\* The channel to wait on is taken while there is nothing.
LEMMA OthersKeep ==
    ASSUME TerminalInv,
           \/ Exits \/ close
           \/ \E r \in Reader : \/ Waits(r) \/ Woken(r) \/ TimesOut(r)
                                \/ \E max \in 1 .. BufferSize : Read(r, max)
    PROVE  TerminalInv'
<1> USE DEF TerminalInv
<1>1. UNCHANGED <<term, told>>
  BY DEF Exits, close, Waits, Woken, TimesOut, Read
<1>2. pty' \in Pty /\ pty'.out = pty.out
  BY DEF Exits, close, Waits, Woken, TimesOut, Read, TerminalTypes, Pty
<1>3. rd' \in [Reader -> Reading]
  <2>1. CASE Exits \/ close
    BY <2>1 DEF Exits, close, TerminalTypes
  <2>2. ASSUME NEW r \in Reader, Waits(r) \/ Woken(r) \/ TimesOut(r) PROVE rd' \in [Reader -> Reading]
    BY <2>2 DEF Waits, Woken, TimesOut, TerminalTypes, Reading, TermState
  <2>3. ASSUME NEW r \in Reader, NEW max \in 1 .. BufferSize, Read(r, max)
        PROVE  rd' \in [Reader -> Reading]
    BY <2>3 DEF Read, TerminalTypes, Reading
  <2> QED BY <2>1, <2>2, <2>3
<1>4. ASSUME NEW q \in Reader, rd'[q].pc = "wait"
      PROVE  rd'[q] = rd[q] \/ (rd'[q].waits = term.changed /\ ~ Something)
  <2>1. CASE Exits \/ close
    BY <2>1 DEF Exits, close
  <2>2. ASSUME NEW r \in Reader, Waits(r)
        PROVE  rd'[q] = rd[q] \/ (rd'[q].waits = term.changed /\ ~ Something)
    BY <1>4, <2>2 DEF Waits, TerminalTypes, Reading
  <2>3. ASSUME NEW r \in Reader, Woken(r) \/ TimesOut(r) PROVE rd'[q] = rd[q]
    BY <1>4, <2>3 DEF Woken, TimesOut, TerminalTypes, Reading
  <2>4. ASSUME NEW r \in Reader, NEW max \in 1 .. BufferSize, Read(r, max) PROVE rd'[q] = rd[q]
    BY <1>4, <2>4 DEF Read, TerminalTypes, Reading
  <2> QED BY <2>1, <2>2, <2>3, <2>4
<1>5. MadeBefore'
  BY <1>1, <1>4 DEF MadeBefore, TerminalTypes, TermState
<1>6. Something' = Something
  BY <1>1 DEF Something
<1>7. TerminalLosesNothing'
  BY <1>1, <1>2, <1>4, <1>6 DEF TerminalLosesNothing
<1> QED BY <1>1, <1>2, <1>3, <1>5, <1>7 DEF TerminalTypes

LEMMA TerminalStep == TerminalInv /\ [TerminalNext]_tvars => TerminalInv'
<1> SUFFICES ASSUME TerminalInv, [TerminalNext]_tvars PROVE TerminalInv'
  OBVIOUS
<1>1. CASE UNCHANGED tvars
  BY <1>1 DEF tvars, TerminalInv, TerminalTypes, MadeBefore, TerminalLosesNothing, Something
<1>2. CASE TerminalNext
  BY <1>2, AppendKeeps, FinishKeeps, TakesKeeps, OthersKeep DEF TerminalNext
<1> QED BY <1>1, <1>2

\* Every byte the pump has read is handed to one reader, told to be dropped, or
\* still there, and nobody waits on a channel that has missed its change
\* (terminal.go: append, finish, read).
THEOREM NoByteIsLost == TerminalSpec => []TerminalLosesNothing
<1>1. TerminalInv => TerminalLosesNothing
  BY DEF TerminalInv
<1> QED BY <1>1, TerminalInitially, TerminalStep, PTL DEF TerminalSpec

-----------------------------------------------------------------------------
(* McpFiles.                                                               *)

FilesSpec == FilesInit /\ [][FilesNext]_fvars

FileOp == [pc : {"idle", "probe", "resolve", "roots", "inroots", "approve", "use", "over"},
           kind : {"read", "write"}, path : Path \cup {"none"}, real : Real \cup {"none"},
           ok : {"none", "read", "roots", "open", "approved"}, always : SUBSET Real]
Touch == [kind : {"read", "write"}, real : Real \cup {"none"}, judged : Real \cup {"none"},
          ok : {"none", "read", "roots", "open", "approved"}, always : SUBSET Real,
          now : SUBSET Real]

FilesTypes ==
    /\ link \in [Path -> Real]
    /\ op \in [Op -> FileOp]
    /\ meta \in [protect : SUBSET Real, roots : SUBSET Path, open : BOOLEAN]
    /\ cache.known \in BOOLEAN
    /\ cache.known => cache.fold = Folds
    /\ cache = [known |-> cache.known, fold |-> cache.fold, roots |-> cache.roots]

\* Free to be touched, as far as what was guarded all along goes.
Free(real, always) == /\ ~ DeniedReal(real, Folds)
                      /\ ~ \E s \in always : Alike(real, s, Folds)

\* What a call has behind it: how the machine spells names is known; the file
\* was judged by the name the machine gives it; a write was let through.
OpInv(o) ==
    /\ op[o].always \subseteq meta.protect
    /\ op[o].pc \notin {"idle", "over"} => op[o].path \in Path
    /\ op[o].pc \in {"resolve", "roots", "inroots", "approve", "use"} => cache.known
    /\ op[o].pc \in {"roots", "inroots", "approve", "use"} => Free(op[o].real, op[o].always)
    /\ op[o].pc = "use" /\ op[o].kind = "write" => op[o].ok \in {"roots", "open", "approved"}

FilesInv == FilesTypes /\ (\A o \in Op : OpInv(o)) /\ TouchedIsJudged

LEMMA QuietFacts ==
    LET a == [Quiet EXCEPT !.pc = "over"] IN
    /\ Quiet \in FileOp /\ Quiet.pc = "idle" /\ Quiet.always = {}
    /\ a \in FileOp /\ a.pc = "over" /\ a.always = {}
BY DEF Quiet, FileOp

LEMMA FileFacts ==
    ASSUME FilesInv, NEW o \in Op
    PROVE  /\ op \in [Op -> FileOp] /\ op[o] \in FileOp /\ OpInv(o)
           /\ meta.protect \in SUBSET Real /\ cache.known \in BOOLEAN
           /\ link \in [Path -> Real] /\ FilesTypes
BY DEF FilesInv, FilesTypes

\* The cache forgets nothing, and how the machine spells never changes.
CacheKept ==
    /\ cache'.known \in BOOLEAN /\ (cache'.known => cache'.fold = Folds)
    /\ cache' = [known |-> cache'.known, fold |-> cache'.fold, roots |-> cache'.roots]
    /\ cache.known => cache'.known

LEMMA CacheSame ==
    ASSUME FilesInv, cache' = cache
    PROVE  CacheKept
BY DEF FilesInv, FilesTypes, CacheKept

\* A step of one call.
LEMMA FileStep ==
    ASSUME FilesInv, NEW o \in Op, NEW a \in FileOp, op' = [op EXCEPT ![o] = a],
           meta' = meta, link' = link, CacheKept, OpInv(o)', TouchedIsJudged'
    PROVE  FilesInv'
<1>1. FilesTypes'
  BY DEF FilesInv, FilesTypes, CacheKept
<1>2. ASSUME NEW x \in Op, x # o PROVE OpInv(x)'
  <2>1. op'[x] = op[x] /\ OpInv(x)
    BY <1>2 DEF FilesInv, FilesTypes
  <2> QED BY <2>1 DEF OpInv, CacheKept
<1> QED BY <1>1, <1>2 DEF FilesInv

\* ... that ends.
LEMMA OverStep ==
    ASSUME FilesInv, NEW o \in Op, Over(o), meta' = meta, link' = link, CacheKept, TouchedIsJudged'
    PROVE  FilesInv'
<1> DEFINE a == [Quiet EXCEPT !.pc = "over"]
<1>1. op' = [op EXCEPT ![o] = a] /\ op'[o] = a
  BY FileFacts DEF Over
<1>2. a \in FileOp /\ a.pc = "over" /\ a.always = {}
  BY QuietFacts
<1> HIDE DEF a
<1>3. OpInv(o)'
  BY <1>1, <1>2 DEF OpInv
<1> QED BY <1>1, <1>2, <1>3, FileStep

LEMMA SameTouched ==
    ASSUME FilesInv, touched' = touched
    PROVE  TouchedIsJudged'
BY DEF FilesInv, TouchedIsJudged

LEMMA CalledStep ==
    ASSUME FilesInv, NEW o \in Op, NEW kind \in {"read", "write"}, NEW p \in Path,
           Called(o, kind, p)
    PROVE  FilesInv'
<1> DEFINE a == [Quiet EXCEPT !.pc = "probe", !.kind = kind, !.path = p,
                                             !.always = meta.protect]
<1>1. /\ op' = [op EXCEPT ![o] = a] /\ op'[o] = a /\ meta' = meta
      /\ link' = link /\ cache' = cache /\ touched' = touched
  BY FileFacts DEF Called
<1>2. a \in FileOp /\ a.pc = "probe" /\ a.path = p /\ a.always = meta.protect
  <2>1. meta.protect \in SUBSET Real
    BY FileFacts
  <2> QED BY <2>1 DEF Quiet, FileOp
<1> HIDE DEF a
<1>3. OpInv(o)'
  BY <1>1, <1>2 DEF OpInv
<1> QED BY <1>1, <1>2, <1>3, FileStep, CacheSame, SameTouched

\* A call that goes on.
LEMMA GoFacts ==
    ASSUME FilesInv, NEW o \in Op,
           NEW pc \in {"resolve", "roots", "inroots", "approve", "use"}, Go(o, pc)
    PROVE  LET a == [op[o] EXCEPT !.pc = pc] IN
           /\ a \in FileOp /\ op' = [op EXCEPT ![o] = a] /\ op'[o] = a
           /\ a.pc = pc /\ a.kind = op[o].kind /\ a.real = op[o].real /\ a.ok = op[o].ok
           /\ a.always = op[o].always /\ a.path = op[o].path
<1>1. op' = [op EXCEPT ![o] = [op[o] EXCEPT !.pc = pc]]
  BY FileFacts DEF Go
<1>2. op[o] \in FileOp /\ op \in [Op -> FileOp]
  BY FileFacts
<1> QED BY <1>1, <1>2 DEF FileOp

LEMMA ProbeStep ==
    ASSUME FilesInv, NEW o \in Op, Probe(o)
    PROVE  FilesInv'
<1>1. meta' = meta /\ link' = link /\ touched' = touched /\ op[o].pc = "probe"
  BY DEF Probe
<1>2. CASE ~ cache.known /\ Over(o) /\ UNCHANGED cache
  BY <1>1, <1>2, CacheSame, SameTouched, OverStep
<1>3. CASE cache' = IF cache.known THEN cache ELSE [cache EXCEPT !.known = TRUE, !.fold = Folds]
  <2>1. cache'.known /\ CacheKept
    <3>1. CASE cache.known
      BY <1>3, <3>1, CacheSame
    <3>2. CASE ~cache.known
      BY <1>3, <3>2 DEF FilesInv, FilesTypes, CacheKept
    <3> QED BY <1>3, <3>1, <3>2
  <2>2. CASE Over(o)
    BY <1>1, <2>1, <2>2, SameTouched, OverStep
  <2>3. CASE Go(o, "resolve")
    <3> DEFINE a == [op[o] EXCEPT !.pc = "resolve"]
    <3>1. /\ a \in FileOp /\ op' = [op EXCEPT ![o] = a] /\ op'[o] = a
          /\ a.pc = "resolve" /\ a.always = op[o].always /\ a.path = op[o].path
      BY <2>3, GoFacts
    <3> HIDE DEF a
    <3>2. OpInv(o)'
      BY <1>1, <2>1, <3>1, FileFacts DEF OpInv
    <3> QED BY <1>1, <2>1, <3>1, <3>2, SameTouched, FileStep
  <2> QED BY <1>2, <1>3, <2>2, <2>3 DEF Probe
<1> QED BY <1>2, <1>3 DEF Probe

LEMMA ResolveStep ==
    ASSUME FilesInv, NEW o \in Op, Resolve(o)
    PROVE  FilesInv'
<1>1. meta' = meta /\ link' = link /\ touched' = touched /\ op[o].pc = "resolve" /\ cache' = cache
  BY DEF Resolve
<1>2. CASE Over(o)
  BY <1>1, <1>2, CacheSame, SameTouched, OverStep
<1> DEFINE r == tsresolve(o)
           q == IF op[o].kind = "read" THEN "use" ELSE "roots"
           a == [op[o] EXCEPT !.real = r, !.ok = "read", !.pc = q]
<1>3. CASE /\ ~ DeniedReal(r, cache.fold) /\ ~ ProtectedReal(r, cache.fold)
           /\ op' = [op EXCEPT ![o].real = r, ![o].ok = "read", ![o].pc = q]
  <2>0. op[o].path \in Path
    BY <1>1, FileFacts DEF OpInv
  <2>1. r \in Real /\ q \in {"use", "roots"} /\ (op[o].kind = "write" => q = "roots")
    BY <2>0, FileFacts DEF tsresolve
  <2>2. op' = [op EXCEPT ![o] = a] /\ op'[o] = a
    BY <1>3, FileFacts
  <2>3. op[o] \in FileOp
    BY FileFacts
  <2>4. Free(r, op[o].always)
    <3>1. cache.fold = Folds /\ op[o].always \subseteq meta.protect
      BY <1>1, FileFacts DEF OpInv, FilesTypes
    <3> QED BY <1>3, <3>1 DEF Free, ProtectedReal
  <2> HIDE DEF r, q
  <2>5. /\ a \in FileOp /\ a.pc = q /\ a.real = r /\ a.always = op[o].always
        /\ a.kind = op[o].kind /\ a.path = op[o].path
    BY <2>1, <2>3 DEF FileOp
  <2> HIDE DEF a
  <2>6. OpInv(o)'
    BY <1>1, <2>0, <2>1, <2>2, <2>4, <2>5, FileFacts DEF OpInv
  <2> QED BY <1>1, <2>2, <2>5, <2>6, CacheSame, SameTouched, FileStep
<1> QED BY <1>2, <1>3 DEF Resolve

LEMMA RootsStep ==
    ASSUME FilesInv, NEW o \in Op, Roots(o)
    PROVE  FilesInv'
<1>1. /\ meta' = meta /\ link' = link /\ touched' = touched /\ op[o].pc = "roots"
      /\ Go(o, "inroots")
  BY DEF Roots
<1>2. CacheKept
  <2>1. CASE cache' = cache
    BY <2>1, CacheSame
  <2>2. CASE \E x : cache' = [cache EXCEPT !.roots = x]
    BY <2>2 DEF FilesInv, FilesTypes, CacheKept
  <2> QED BY <2>1, <2>2 DEF Roots
<1> DEFINE a == [op[o] EXCEPT !.pc = "inroots"]
<1>3. /\ a \in FileOp /\ op' = [op EXCEPT ![o] = a] /\ op'[o] = a
      /\ a.pc = "inroots" /\ a.always = op[o].always /\ a.path = op[o].path /\ a.real = op[o].real
  BY <1>1, GoFacts
<1> HIDE DEF a
<1>4. OpInv(o)'
  BY <1>1, <1>2, <1>3, FileFacts DEF OpInv, CacheKept
<1> QED BY <1>1, <1>2, <1>3, <1>4, SameTouched, FileStep

LEMMA JudgeStep ==
    ASSUME FilesInv, NEW o \in Op, Judge(o) \/ Approve(o)
    PROVE  FilesInv'
<1>1. /\ meta' = meta /\ link' = link /\ touched' = touched /\ cache' = cache
      /\ op[o].pc \in {"inroots", "approve"}
  BY DEF Judge, Approve
<1>2. CASE Over(o)
  BY <1>1, <1>2, CacheSame, SameTouched, OverStep
<1>3. CASE op' = [op EXCEPT ![o].pc = "approve"]
  <2> DEFINE a == [op[o] EXCEPT !.pc = "approve"]
  <2>1. /\ a \in FileOp /\ op' = [op EXCEPT ![o] = a] /\ op'[o] = a
        /\ a.pc = "approve" /\ a.always = op[o].always /\ a.path = op[o].path /\ a.real = op[o].real
    BY <1>3, GoFacts DEF Go
  <2> HIDE DEF a
  <2>2. OpInv(o)'
    BY <1>1, <2>1, FileFacts DEF OpInv
  <2> QED BY <1>1, <2>1, <2>2, CacheSame, SameTouched, FileStep
<1>4. ASSUME NEW k \in {"roots", "open", "approved"},
             op' = [op EXCEPT ![o].pc = "use", ![o].ok = k]
      PROVE  FilesInv'
  <2> DEFINE a == [op[o] EXCEPT !.pc = "use", !.ok = k]
  <2>1. op' = [op EXCEPT ![o] = a] /\ op'[o] = a
    BY <1>4, FileFacts
  <2>2. op[o] \in FileOp
    BY FileFacts
  <2>3. /\ a \in FileOp /\ a.pc = "use" /\ a.ok = k /\ a.always = op[o].always
        /\ a.path = op[o].path /\ a.real = op[o].real
    BY <2>2 DEF FileOp
  <2> HIDE DEF a
  <2>4. OpInv(o)'
    BY <1>1, <2>1, <2>3, FileFacts DEF OpInv
  <2> QED BY <1>1, <2>1, <2>3, <2>4, CacheSame, SameTouched, FileStep
<1>5. CASE Judge(o)
  <2> DEFINE in == \E s \in cache.roots.real : Alike(op[o].real, s, cache.fold)
  <2>1. op' = IF in \/ meta.open
               THEN [op EXCEPT ![o].pc = "use", ![o].ok = IF in THEN "roots" ELSE "open"]
               ELSE [op EXCEPT ![o].pc = "approve"]
    BY <1>5 DEF Judge
  <2> HIDE DEF in
  <2> QED BY <2>1, <1>3, <1>4
<1> QED BY <1>2, <1>4, <1>5 DEF Approve

LEMMA UseStep ==
    ASSUME FilesInv, NEW o \in Op, Use(o)
    PROVE  FilesInv'
<1>1. /\ meta' = meta /\ link' = link /\ cache' = cache /\ op[o].pc = "use" /\ Over(o)
  BY DEF Use
<1>2. Free(op[o].real, op[o].always)
      /\ (op[o].kind = "write" => op[o].ok \in {"roots", "open", "approved"})
  BY <1>1, FileFacts DEF OpInv
<1>3. TouchedIsJudged'
  <2>1. CASE touched' = touched
    BY <2>1, SameTouched
  <2> DEFINE t == [kind |-> op[o].kind, real |-> tsresolve(o),
                   judged |-> op[o].real, ok |-> op[o].ok,
                   always |-> op[o].always, now |-> meta.protect]
  <2>2. CASE SamePath(o) /\ touched' = touched \cup {t}
    <3>1. /\ t.real = op[o].real /\ t.judged = op[o].real /\ t.kind = op[o].kind
          /\ t.ok = op[o].ok /\ t.always = op[o].always
      BY <2>2 DEF SamePath
    <3> HIDE DEF t
    <3>2. ASSUME NEW x \in touched'
          PROVE  /\ x.real = x.judged
                 /\ ~ DeniedReal(x.real, Folds)
                 /\ ~ \E s \in x.always : Alike(x.real, s, Folds)
                 /\ x.kind = "write" => x.ok \in {"roots", "open", "approved"}
      <4>1. CASE x \in touched
        BY <4>1 DEF FilesInv, TouchedIsJudged
      <4>2. CASE x = t
        BY <1>2, <3>1, <4>2 DEF Free
      <4> QED BY <2>2, <4>1, <4>2
    <3> QED BY <3>2 DEF TouchedIsJudged
  <2> QED BY <2>1, <2>2 DEF Use
<1> QED BY <1>1, <1>3, CacheSame, OverStep

LEMMA AroundStep ==
    ASSUME FilesInv, Relink \/ Reported
    PROVE  FilesInv'
<1>1. cache' = cache /\ touched' = touched
  BY DEF Relink, Reported
<1>2. FilesTypes /\ \A o \in Op : OpInv(o)
  BY DEF FilesInv
<1>3. CASE Relink
  <2>1. PICK p \in Path, r \in Real : link' = [link EXCEPT ![p] = r]
    BY <1>3 DEF Relink
  <2>2. link' \in [Path -> Real] /\ op' = op /\ meta' = meta
    BY <1>2, <1>3, <2>1 DEF Relink, FilesTypes
  <2>3. FilesTypes'
    BY <1>1, <1>2, <2>2 DEF FilesTypes
  <2>4. \A o \in Op : OpInv(o)'
    BY <1>1, <1>2, <2>2 DEF OpInv
  <2> QED BY <1>1, <2>3, <2>4, SameTouched DEF FilesInv
<1>4. CASE Reported
  <2>1. PICK protect \in {{}, Guarded}, opened \in BOOLEAN, roots \in {{}, Path} :
          meta' = [protect |-> protect, roots |-> roots, open |-> opened]
    BY <1>4 DEF Reported
  <2>2. /\ meta' \in [protect : SUBSET Real, roots : SUBSET Path, open : BOOLEAN]
        /\ meta'.protect \in SUBSET Real
    BY <2>1, FilesAssumption
  <2>3. /\ op' = [o \in Op |-> [op[o] EXCEPT !.always = @ \cap meta'.protect]]
        /\ link' = link
    BY <1>4 DEF Reported
  <2>4. ASSUME NEW o \in Op
        PROVE  op'[o] \in FileOp /\ OpInv(o)'
    <3> DEFINE l == op[o].always \cap meta'.protect
               a == [op[o] EXCEPT !.always = l]
    <3>1. op[o] \in FileOp /\ op'[o] = a
      BY <2>3, <1>2 DEF FilesTypes
    <3>2. l \in SUBSET Real /\ l \subseteq op[o].always /\ l \subseteq meta'.protect
      BY <2>2
    <3> HIDE DEF l
    <3>3. /\ a \in FileOp /\ a.always = l /\ a.pc = op[o].pc /\ a.path = op[o].path
          /\ a.real = op[o].real /\ a.kind = op[o].kind /\ a.ok = op[o].ok
      BY <3>1, <3>2 DEF FileOp
    <3> HIDE DEF a
    <3>4. OpInv(o)'
      BY <1>1, <1>2, <3>1, <3>2, <3>3 DEF OpInv, Free
    <3> QED BY <3>1, <3>3, <3>4
  <2>5. FilesTypes'
    BY <1>1, <1>2, <2>2, <2>3, <2>4 DEF FilesTypes
  <2> QED BY <1>1, <2>4, <2>5, SameTouched DEF FilesInv
<1> QED BY <1>3, <1>4

\* For as long as a call goes on, however links move and agents report, and
\* whoever is asked meanwhile: what stands between the judgement of its path
\* and the opening is a name that was judged free (resolvePath,
\* PathResolved, ProtectedResolved), and a write has been let through.
THEOREM FilesInvariant == FilesSpec => []FilesInv
<1>1. FilesInit => FilesInv
  <2> SUFFICES ASSUME FilesInit PROVE FilesInv
    OBVIOUS
  <2>1. FilesTypes
    BY QuietFacts, FilesAssumption DEF FilesInit, FilesTypes
  <2>2. \A o \in Op : OpInv(o)
    BY QuietFacts DEF FilesInit, OpInv
  <2> QED BY <2>1, <2>2 DEF FilesInv, FilesInit, TouchedIsJudged
<1>2. FilesInv /\ [FilesNext]_fvars => FilesInv'
  <2> SUFFICES ASSUME FilesInv, [FilesNext]_fvars PROVE FilesInv'
    OBVIOUS
  <2>1. CASE UNCHANGED fvars
    <3>1. link' = link /\ meta' = meta /\ cache' = cache /\ op' = op /\ touched' = touched
      BY <2>1 DEF fvars
    <3> QED BY <3>1 DEF FilesInv, FilesTypes, OpInv, TouchedIsJudged
  <2> QED BY <2>1, CalledStep, ProbeStep, ResolveStep, RootsStep, JudgeStep, UseStep,
             AroundStep DEF FilesNext
<1> QED BY <1>1, <1>2, PTL DEF FilesSpec

\* The file that is opened is the one that was judged and shown, and is none that
\* is denied or was guarded throughout the call.
THEOREM JudgedIsTouched == FilesSpec => []TouchedIsJudged
<1>1. FilesInv => TouchedIsJudged
  BY DEF FilesInv
<1> QED BY <1>1, FilesInvariant, PTL

-----------------------------------------------------------------------------
(* McpSessions.                                                            *)

SessionsSpec == SessionsInit /\ [][SessionsNext]_mvars

Process == [st : {"live", "dead"}, kind : {"shell", "terminal"}, m : Host, busy : Call \cup {0}]
ToolCall == [pc : {"ask", "revoke", "check", "run", "lock", "opening", "exec", "busy", "use",
                   "close", "closing"},
             tool : {"run", "shell", "terminal", "use", "close"}, m : Host, id : Id \cup {0}]

SessionTypes ==
    /\ mu \in Call \cup {0} /\ listed \subseteq Id
    /\ proc \in [Id -> Process \cup {NoProc}]
    /\ call \in [Call -> ToolCall \cup {Idle}]

Listed == \A i \in listed : proc[i] \in Process

\* Who is at a process has one; the tools go their own ways.
CallInv(c) ==
    /\ call[c].pc \in {"check", "exec", "busy", "use", "close", "closing"}
         => call[c].id \in Id /\ proc[call[c].id] \in Process
    /\ call[c].pc = "check" => call[c].tool \in {"use", "close"}
    /\ call[c].pc = "opening" => call[c].tool \in {"shell", "terminal"}

\* The mutex is held by who is opening, and by nobody else.
MutexInv == /\ \A c \in Call : call[c].pc = "opening" <=> mu = c
            /\ Cardinality(listed) + (IF mu # 0 THEN 1 ELSE 0) <= MaxSessions

LiveShell(i, m) == i \in listed /\ proc[i].kind = "shell" /\ proc[i].m = m /\ Alive(i)

\* No second shell of a name, nor one on its way.
OneShell ==
    /\ \A m \in Host : \A i, j \in listed : LiveShell(i, m) /\ LiveShell(j, m) => i = j
    /\ \A c \in Call : call[c].pc = "opening" /\ call[c].tool = "shell"
                       => ~ \E i \in listed : LiveShell(i, call[c].m)

InHand(i) == i \in listed \/ \E c \in Call : At(c, "closing") /\ call[c].id = i

SessionsInv ==
    /\ SessionTypes /\ Listed /\ MutexInv /\ OneShell
    /\ \A c \in Call : CallInv(c)
    /\ \A i \in Id : Alive(i) => InHand(i)

LEMMA ShapeFacts ==
    /\ Idle.pc = "idle" /\ NoProc.st = "none" /\ NoProc \notin Process /\ Idle \notin ToolCall
    /\ \A p \in Process : p # NoProc /\ p.st \in {"live", "dead"}
    /\ \A a \in ToolCall : a.pc # "idle" /\ a # Idle
<1>1. Idle.pc = "idle" /\ NoProc.st = "none"
  BY DEF Idle, NoProc
<1>2. \A p \in Process : p.st \in {"live", "dead"}
  BY DEF Process
<1>3. \A a \in ToolCall : a.pc # "idle"
  BY DEF ToolCall
<1> QED BY <1>1, <1>2, <1>3

LEMMA SessionFacts ==
    ASSUME SessionsInv
    PROVE  /\ mu \in Call \cup {0} /\ listed \subseteq Id /\ Call \subseteq Nat \ {0}
           /\ proc \in [Id -> Process \cup {NoProc}]
           /\ call \in [Call -> ToolCall \cup {Idle}]
           /\ IsFiniteSet(listed) /\ Cardinality(listed) \in Nat
           /\ \A c \in Call : call[c].pc # "idle" => call[c] \in ToolCall
           /\ \A i \in Id : Alive(i) => proc[i] \in Process
           /\ MaxSessions \in Nat /\ MaxOpens \in Nat
<1>1. IsFiniteSet(Id)
  BY FS_Interval, SessionsAssumption DEF Id
<1>2. IsFiniteSet(listed) /\ Cardinality(listed) \in Nat
  BY <1>1, FS_Subset, FS_CardinalityType DEF SessionsInv, SessionTypes
<1> QED BY <1>2, ShapeFacts, SessionsAssumption DEF SessionsInv, SessionTypes, Alive

\* A set that only loses is no larger.
LEMMA ListedShrinks ==
    ASSUME SessionsInv, NEW S, S \subseteq listed
    PROVE  IsFiniteSet(S) /\ Cardinality(S) \in Nat /\ Cardinality(S) <= Cardinality(listed)
BY SessionFacts, FS_Subset, FS_CardinalityType

\* What killing does: nothing becomes alive, and nothing changes its place.
LEMMA KilledFacts ==
    ASSUME SessionsInv, NEW I, proc' = Killed(I)
    PROVE  /\ proc' \in [Id -> Process \cup {NoProc}]
           /\ \A i \in Id : /\ Alive(i)' <=> Alive(i) /\ i \notin I
                            /\ proc[i] \in Process =>
                                 /\ proc'[i] \in Process /\ proc'[i].m = proc[i].m
                                 /\ proc'[i].kind = proc[i].kind
<1>1. proc' = [i \in Id |-> IF i \in I /\ Alive(i) THEN [proc[i] EXCEPT !.st = "dead"] ELSE proc[i]]
  BY DEF Killed
<1>2. ASSUME NEW i \in Id, i \in I, Alive(i)
      PROVE  /\ proc'[i] \in Process /\ proc'[i].m = proc[i].m
             /\ proc'[i].kind = proc[i].kind /\ proc'[i].st = "dead"
  <2>1. proc[i] \in Process
    BY <1>2, SessionFacts
  <2>2. proc'[i] = [proc[i] EXCEPT !.st = "dead"]
    BY <1>1, <1>2
  <2> QED BY <2>1, <2>2 DEF Process
<1>3. ASSUME NEW i \in Id, ~(i \in I /\ Alive(i))
      PROVE  proc'[i] = proc[i]
  BY <1>1, <1>3
<1>4. \A i \in Id : proc'[i] \in Process \cup {NoProc}
  BY <1>2, <1>3, SessionFacts
<1>5. proc' \in [Id -> Process \cup {NoProc}]
  BY <1>1, <1>4
<1>6. \A i \in Id : Alive(i)' <=> Alive(i) /\ i \notin I
  BY <1>2, <1>3 DEF Alive
<1> QED BY <1>2, <1>3, <1>5, <1>6

\* One call's step by which processes and their list only lose, and the mutex is
\* neither taken nor given back.
LEMMA CallOnly ==
    ASSUME SessionsInv, NEW c \in Call, NEW a \in ToolCall \cup {Idle},
           call' = [call EXCEPT ![c] = a], call[c].pc # "opening", a.pc # "opening",
           mu' = mu, listed' \subseteq listed, proc' \in [Id -> Process \cup {NoProc}],
           \A i \in Id : /\ Alive(i)' => Alive(i)
                         /\ proc[i] \in Process =>
                              /\ proc'[i] \in Process /\ proc'[i].m = proc[i].m
                              /\ proc'[i].kind = proc[i].kind,
           CallInv(c)',
           \A i \in Id : Alive(i)' => \/ i \in listed'
                                      \/ a.pc = "closing" /\ a.id = i
                                      \/ \E d \in Call \ {c} : At(d, "closing") /\ call[d].id = i
    PROVE  SessionsInv'
<1>0. call'[c] = a /\ \A d \in Call \ {c} : call'[d] = call[d]
  BY SessionFacts
<1>1. SessionTypes'
  BY SessionFacts DEF SessionTypes
<1>2. Listed'
  BY SessionFacts DEF Listed, SessionsInv
<1>3. MutexInv'
  <2>1. \A d \in Call : call'[d].pc = "opening" <=> mu' = d
    BY <1>0 DEF SessionsInv, MutexInv
  <2>2. Cardinality(listed') + (IF mu # 0 THEN 1 ELSE 0) <= MaxSessions
    BY ListedShrinks, SessionFacts DEF SessionsInv, MutexInv
  <2> QED BY <2>1, <2>2 DEF MutexInv
<1>4. OneShell'
  <2>1. \A m \in Host, i \in listed' : LiveShell(i, m)' => LiveShell(i, m) /\ i \in listed
    <3>1. \A i \in listed' : i \in Id /\ proc[i] \in Process /\ i \in listed
      BY SessionFacts DEF SessionsInv, Listed
    <3> QED BY <3>1 DEF LiveShell
  <2>2. \A m \in Host : \A i, j \in listed' : LiveShell(i, m)' /\ LiveShell(j, m)' => i = j
    BY <2>1 DEF SessionsInv, OneShell
  <2>3. ASSUME NEW d \in Call, call'[d].pc = "opening", call'[d].tool = "shell",
               NEW i \in listed', NEW m, m = call'[d].m, LiveShell(i, m)'
        PROVE  FALSE
    <3>1. d # c /\ call'[d] = call[d]
      BY <1>0, <2>3
    <3>2. m = call[d].m /\ m \in Host /\ call[d].pc = "opening" /\ call[d].tool = "shell"
      BY <2>3, <3>1, SessionFacts DEF ToolCall
    <3>3. LiveShell(i, m) /\ i \in listed
      BY <2>1, <2>3, <3>2
    <3> QED BY <3>2, <3>3 DEF SessionsInv, OneShell
  <2>4. \A d \in Call : call'[d].pc = "opening" /\ call'[d].tool = "shell"
                       => ~ \E i \in listed' : LiveShell(i, call[d].m)'
    BY <2>3
  <2> QED BY <2>2, <2>4 DEF OneShell
<1>5. \A d \in Call : CallInv(d)'
  <2>1. ASSUME NEW d \in Call, d # c PROVE CallInv(d)'
    <3>1. call'[d] = call[d] /\ CallInv(d)
      BY <1>0, <2>1 DEF SessionsInv
    <3> QED BY <3>1 DEF CallInv
  <2> QED BY <2>1
<1>6. \A i \in Id : Alive(i)' => InHand(i)'
  BY <1>0 DEF InHand, At
<1> QED BY <1>1, <1>2, <1>3, <1>4, <1>5, <1>6 DEF SessionsInv

\* A call that goes on while no process is touched.
LEMMA GoesOn ==
    ASSUME SessionsInv, NEW c \in Call, NEW pc, Goto(c, pc), call[c].pc # "opening",
           call[c].pc \notin {"idle", "closing"},
           pc \in {"ask", "revoke", "check", "run", "lock", "exec", "busy", "use", "close"},
           UNCHANGED <<mu, listed, proc>>,
           pc \in {"check", "exec", "busy", "use", "close"}
             => call[c].id \in Id /\ proc[call[c].id] \in Process,
           pc = "check" => call[c].tool \in {"use", "close"}
    PROVE  SessionsInv'
<1> DEFINE a == [call[c] EXCEPT !.pc = pc]
<1>1. call' = [call EXCEPT ![c] = a] /\ call'[c] = a /\ call[c] \in ToolCall
  BY SessionFacts DEF Goto
<1>2. a \in ToolCall /\ a.pc = pc /\ a.id = call[c].id /\ a.tool = call[c].tool
  BY <1>1 DEF ToolCall
<1> HIDE DEF a
<1>3. \A i \in Id : Alive(i)' <=> Alive(i)
  BY DEF Alive
<1>4. CallInv(c)'
  BY <1>1, <1>2 DEF CallInv
<1>5. \A i \in Id : Alive(i) => \/ i \in listed
                                \/ \E d \in Call \ {c} : At(d, "closing") /\ call[d].id = i
  BY DEF SessionsInv, InHand, At
<1> QED BY <1>1, <1>2, <1>3, <1>4, <1>5, SessionFacts, CallOnly

\* A call that returns while some listed processes are ended and unlisted.
LEMMA Returned ==
    ASSUME SessionsInv, NEW c \in Call, Return(c), call[c].pc # "opening",
           mu' = mu, NEW I, listed' = listed \ I,
           proc' = Killed(I) \/ (proc' = proc /\ \A i \in I \cap Id : ~Alive(i)),
           call[c].pc = "closing" => call[c].id \in I
    PROVE  SessionsInv'
<1>1. call' = [call EXCEPT ![c] = Idle] /\ call'[c] = Idle
  BY SessionFacts DEF Return
<1>2. /\ proc' \in [Id -> Process \cup {NoProc}]
      /\ \A i \in Id : /\ Alive(i)' => Alive(i) /\ i \notin I
                       /\ proc[i] \in Process =>
                            /\ proc'[i] \in Process /\ proc'[i].m = proc[i].m
                            /\ proc'[i].kind = proc[i].kind
  <2>1. CASE proc' = Killed(I)
    BY <2>1, KilledFacts
  <2>2. CASE proc' = proc /\ \A i \in I \cap Id : ~Alive(i)
    BY <2>2, SessionFacts DEF Alive
  <2> QED BY <2>1, <2>2
<1>3. CallInv(c)'
  BY <1>1, ShapeFacts DEF CallInv
<1>4. \A i \in Id : Alive(i)' => \/ i \in listed'
                                 \/ \E d \in Call \ {c} : At(d, "closing") /\ call[d].id = i
  BY <1>2 DEF SessionsInv, InHand, At
<1> QED BY <1>1, <1>2, <1>3, <1>4, ShapeFacts, CallOnly

\* Steps of no call.
LEMMA NoCallStep ==
    ASSUME SessionsInv, call' = call, mu' = mu, NEW I, listed' = listed \ I \/ listed' = listed,
           proc' = Killed(I)
    PROVE  SessionsInv'
<1>1. /\ proc' \in [Id -> Process \cup {NoProc}]
      /\ \A i \in Id : /\ Alive(i)' => Alive(i) /\ i \notin I
                       /\ proc[i] \in Process =>
                            /\ proc'[i] \in Process /\ proc'[i].m = proc[i].m
                            /\ proc'[i].kind = proc[i].kind
  BY KilledFacts
<1>2. listed' \subseteq listed
  OBVIOUS
<1>3. SessionTypes' /\ Listed'
  BY <1>1, <1>2, SessionFacts DEF SessionTypes, Listed, SessionsInv
<1>4. MutexInv'
  <2>1. Cardinality(listed') + (IF mu # 0 THEN 1 ELSE 0) <= MaxSessions
    BY <1>2, ListedShrinks, SessionFacts DEF SessionsInv, MutexInv
  <2> QED BY <2>1 DEF SessionsInv, MutexInv
<1>5. OneShell'
  <2>1. \A m \in Host, i \in listed' : LiveShell(i, m)' => LiveShell(i, m) /\ i \in listed
    <3>1. \A i \in listed' : i \in Id /\ proc[i] \in Process /\ i \in listed
      BY <1>2, SessionFacts DEF SessionsInv, Listed
    <3> QED BY <1>1, <3>1 DEF LiveShell
  <2>2. ASSUME NEW d \in Call, call[d].pc = "opening", call[d].tool = "shell",
               NEW i \in listed', NEW m, m = call[d].m, LiveShell(i, m)'
        PROVE  FALSE
    <3>1. m \in Host
      BY <2>2, SessionFacts DEF ToolCall
    <3>2. LiveShell(i, m) /\ i \in listed
      BY <2>1, <2>2, <3>1
    <3> QED BY <2>2, <3>2 DEF SessionsInv, OneShell
  <2>3. \A d \in Call : call'[d].pc = "opening" /\ call'[d].tool = "shell"
                       => ~ \E i \in listed' : LiveShell(i, call[d].m)'
    BY <2>2
  <2> QED BY <2>1, <2>3 DEF SessionsInv, OneShell
<1>6. \A d \in Call : CallInv(d)'
  BY <1>1 DEF CallInv, SessionsInv
<1>7. \A i \in Id : Alive(i)' => InHand(i)'
  BY <1>1 DEF SessionsInv, InHand, At
<1> QED BY <1>3, <1>4, <1>5, <1>6, <1>7 DEF SessionsInv

LEMMA BeginCallStep ==
    ASSUME SessionsInv, NEW c \in Call,
           \/ \E m \in Host, t \in {"run", "shell", "terminal"} : Begin(c, t, m)
           \/ \E i \in Id, t \in {"use", "close"} : terminalFor(c, t, i)
    PROVE  SessionsInv'
<1>1. /\ call[c] = Idle /\ mu' = mu /\ listed' = listed /\ proc' = proc
  BY DEF Begin, terminalFor
<1>2. \A i \in Id : Alive(i)' <=> Alive(i)
  BY <1>1 DEF Alive
<1>3. \A i \in Id : Alive(i) => \/ i \in listed
                                \/ \E d \in Call \ {c} : At(d, "closing") /\ call[d].id = i
  BY <1>1, ShapeFacts DEF SessionsInv, InHand, At
<1>4. PICK a \in ToolCall : /\ call' = [call EXCEPT ![c] = a] /\ a.pc \in {"ask", "revoke", "check"}
                            /\ a.pc = "check" => /\ a.tool \in {"use", "close"}
                                                 /\ a.id \in Id /\ proc[a.id] \in Process
  <2>1. ASSUME NEW m \in Host, NEW t \in {"run", "shell", "terminal"}, Begin(c, t, m)
        PROVE  \E a \in ToolCall : /\ call' = [call EXCEPT ![c] = a] /\ a.pc \in {"ask", "revoke"}
    <3> DEFINE q == IF m \in granted THEN "ask" ELSE "revoke"
               a == [pc |-> q, tool |-> t, m |-> m, id |-> 0]
    <3>1. q \in {"ask", "revoke"}
      OBVIOUS
    <3>2. call' = [call EXCEPT ![c] = a]
      BY <2>1 DEF Begin
    <3> HIDE DEF q
    <3>3. a \in ToolCall /\ a.pc = q
      BY <3>1 DEF ToolCall
    <3> QED BY <3>1, <3>2, <3>3
  <2>2. ASSUME NEW i \in Id, NEW t \in {"use", "close"}, terminalFor(c, t, i)
        PROVE  \E a \in ToolCall : /\ call' = [call EXCEPT ![c] = a] /\ a.pc = "check"
                                   /\ a.tool \in {"use", "close"}
                                   /\ a.id \in Id /\ proc[a.id] \in Process
    <3>1. proc[i] \in Process /\ proc[i].m \in Host
      BY <2>2 DEF terminalFor, SessionsInv, Listed, Process
    <3> DEFINE a == [pc |-> "check", tool |-> t, m |-> proc[i].m, id |-> i]
    <3>2. call' = [call EXCEPT ![c] = a]
      BY <2>2 DEF terminalFor
    <3>3. a \in ToolCall /\ a.pc = "check" /\ a.tool = t /\ a.id = i
      BY <3>1 DEF ToolCall
    <3> QED BY <3>1, <3>2, <3>3
  <2> QED BY <2>1, <2>2
<1>5. CallInv(c)'
  <2>1. call'[c] = a
    BY <1>4, SessionFacts
  <2> QED BY <1>1, <1>4, <2>1 DEF CallInv
<1>6. call[c].pc # "opening"
  BY <1>1, ShapeFacts
<1> QED BY <1>1, <1>2, <1>3, <1>4, <1>5, <1>6, SessionFacts, CallOnly

\* The call that goes to open takes the mutex along.
LEMMA OpeningStep ==
    ASSUME SessionsInv, NEW c \in Call, Goto(c, "opening"), call[c].pc = "lock",
           call[c].tool \in {"shell", "terminal"}, mu = 0, mu' = c, proc' = proc,
           NEW I, listed' = listed \ I, \A i \in I \cap Id : ~ Alive(i),
           ~ (Cardinality(listed \ I) >= MaxSessions),
           call[c].tool = "shell" => ~ \E i \in listed : LiveShell(i, call[c].m)
    PROVE  SessionsInv'
<1> DEFINE a == [call[c] EXCEPT !.pc = "opening"]
<1>1. call[c] \in ToolCall /\ c # 0 /\ c \in Int
  BY SessionFacts
<1>2. a \in ToolCall /\ a.pc = "opening" /\ a.tool = call[c].tool /\ a.m = call[c].m
  BY <1>1 DEF ToolCall
<1>3. /\ call' \in [Call -> ToolCall \cup {Idle}] /\ call'[c] = a
      /\ \A d \in Call \ {c} : call'[d] = call[d]
  <2>1. call' = [call EXCEPT ![c] = a]
    BY DEF Goto
  <2> QED BY <1>2, <2>1, SessionFacts
<1> HIDE DEF a
<1>4. SessionTypes' /\ Listed'
  BY <1>3, SessionFacts DEF SessionsInv, SessionTypes, Listed
<1>5. MutexInv'
  <2>1. \A d \in Call : call[d].pc # "opening"
    BY SessionFacts DEF SessionsInv, MutexInv
  <2>2. \A d \in Call : call'[d].pc = "opening" <=> mu' = d
    BY <1>2, <1>3, <2>1
  <2>3. Cardinality(listed') + (IF mu' # 0 THEN 1 ELSE 0) <= MaxSessions
    BY <1>1, ListedShrinks, SessionFacts
  <2> QED BY <2>2, <2>3 DEF MutexInv
<1>6. OneShell'
  <2>1. \A m, i : LiveShell(i, m)' => LiveShell(i, m) /\ i \in listed
    BY DEF LiveShell, Alive
  <2>2. ASSUME NEW d \in Call, call'[d].pc = "opening", call'[d].tool = "shell",
               NEW i \in listed', NEW m, m = call'[d].m, LiveShell(i, m)'
        PROVE  FALSE
    <3>1. d = c
      BY <1>3, <2>2, SessionFacts DEF SessionsInv, MutexInv
    <3>2. call[c].tool = "shell" /\ m = call[c].m /\ LiveShell(i, m) /\ i \in listed
      BY <1>2, <1>3, <2>1, <2>2, <3>1
    <3> QED BY <3>2
  <2>3. \A d \in Call : call'[d].pc = "opening" /\ call'[d].tool = "shell"
                       => ~ \E i \in listed' : LiveShell(i, call[d].m)'
    BY <2>2
  <2>4. \A m \in Host : \A i, j \in listed' : LiveShell(i, m)' /\ LiveShell(j, m)' => i = j
    BY <2>1 DEF SessionsInv, OneShell
  <2> QED BY <2>3, <2>4 DEF OneShell
<1>7. \A d \in Call : CallInv(d)'
  <2>1. CallInv(c)'
    BY <1>2, <1>3 DEF CallInv
  <2>2. ASSUME NEW d \in Call \ {c} PROVE CallInv(d)'
    <3>1. call'[d] = call[d] /\ CallInv(d)
      BY <1>3 DEF SessionsInv
    <3> QED BY <3>1 DEF CallInv
  <2> QED BY <2>1, <2>2
<1>8. ASSUME NEW i \in Id, Alive(i)' PROVE InHand(i)'
  <2>1. Alive(i) /\ InHand(i) /\ (i \in listed => i \in listed')
    BY <1>8 DEF Alive, SessionsInv
  <2>2. CASE i \in listed
    BY <2>1, <2>2 DEF InHand
  <2>3. CASE i \notin listed
    <3>1. PICK d \in Call : call[d].pc = "closing" /\ call[d].id = i
      BY <2>1, <2>3 DEF InHand, At
    <3>2. d # c /\ call'[d] = call[d]
      BY <1>3, <3>1
    <3> QED BY <3>1, <3>2 DEF InHand, At
  <2> QED BY <2>2, <2>3
<1> QED BY <1>4, <1>5, <1>6, <1>7, <1>8 DEF SessionsInv

LEMMA ShellForStep ==
    ASSUME SessionsInv, NEW c \in Call, shellFor(c)
    PROVE  SessionsInv'
<1> DEFINE old == Named(call[c].m)
           dead == {i \in old : ~ Alive(i)}
<1>1. /\ call[c] \in ToolCall /\ call[c].pc = "lock" /\ call[c].tool = "shell" /\ mu = 0
      /\ proc' = proc
  BY ShapeFacts, SessionFacts DEF shellFor, At, MuFree
<1>2. old \subseteq listed /\ (\A i \in old : proc[i].kind = "shell" /\ proc[i].m = call[c].m)
  BY DEF Named
<1>3. CASE \E i \in old : Alive(i)
  <2>1. PICK k \in old : /\ Alive(k) /\ call' = [call EXCEPT ![c].pc = "exec", ![c].id = k]
                         /\ mu' = mu /\ listed' = listed
    BY <1>3 DEF shellFor
  <2> DEFINE a == [call[c] EXCEPT !.pc = "exec", !.id = k]
  <2>2. k \in Id /\ proc[k] \in Process
    BY <1>2, <2>1, SessionFacts
  <2>3. a \in ToolCall /\ a.pc = "exec" /\ a.id = k
    BY <1>1, <2>2 DEF ToolCall
  <2>4. call' = [call EXCEPT ![c] = a] /\ call'[c] = a
    BY <2>1, SessionFacts
  <2> HIDE DEF a
  <2>5. CallInv(c)'
    BY <1>1, <2>2, <2>3, <2>4 DEF CallInv
  <2>6. \A i \in Id : Alive(i)' => \/ i \in listed'
                                   \/ \E d \in Call \ {c} : At(d, "closing") /\ call[d].id = i
    BY <1>1, <2>1 DEF SessionsInv, InHand, At, Alive
  <2>7. \A i \in Id : Alive(i)' <=> Alive(i)
    BY <1>1 DEF Alive
  <2> QED BY <1>1, <2>1, <2>3, <2>4, <2>5, <2>6, <2>7, SessionFacts, CallOnly
<1>4. CASE ~ \E i \in old : Alive(i)
  <2>1. listed' = listed \ dead
    BY <1>4 DEF shellFor
  <2>2. \A i \in dead \cap Id : ~ Alive(i)
    OBVIOUS
  <2>3. CASE Cardinality(listed \ dead) >= MaxSessions
    <3>1. Return(c) /\ mu' = mu
      BY <1>4, <2>3 DEF shellFor
    <3> HIDE DEF dead
    <3> QED BY <1>1, <2>1, <2>2, <3>1, Returned
  <2>4. CASE ~ (Cardinality(listed \ dead) >= MaxSessions)
    <3>1. Goto(c, "opening") /\ mu' = c
      BY <1>4, <2>4 DEF shellFor
    <3>2. ~ \E i \in listed : LiveShell(i, call[c].m)
      BY <1>4 DEF LiveShell, Named
    <3> HIDE DEF dead
    <3> QED BY <1>1, <2>1, <2>2, <2>4, <3>1, <3>2, OpeningStep
  <2> QED BY <2>3, <2>4
<1> QED BY <1>3, <1>4

LEMMA OpenTerminalStep ==
    ASSUME SessionsInv, NEW c \in Call, openTerminal(c)
    PROVE  SessionsInv'
<1>1. /\ call[c].pc = "lock" /\ call[c].tool = "terminal" /\ mu = 0 /\ proc' = proc
      /\ listed' = listed \ {} /\ \A i \in {} \cap Id : ~ Alive(i)
  BY DEF openTerminal, At, MuFree
<1>2. CASE Cardinality(listed) >= MaxSessions
  <2>1. Return(c) /\ mu' = mu
    BY <1>2 DEF openTerminal
  <2> QED BY <1>1, <2>1, Returned
<1>3. CASE ~ (Cardinality(listed) >= MaxSessions)
  <2>1. Goto(c, "opening") /\ mu' = c /\ ~ (Cardinality(listed \ {}) >= MaxSessions)
    BY <1>3 DEF openTerminal
  <2> QED BY <1>1, <2>1, OpeningStep
<1> QED BY <1>2, <1>3

\* The mutex is given back with no process more.
LEMMA OpenedNothing ==
    ASSUME SessionsInv, NEW c \in Call, call[c].pc = "opening", mu' = 0, Return(c),
           UNCHANGED <<listed, proc>>
    PROVE  SessionsInv'
<1>1. /\ call' \in [Call -> ToolCall \cup {Idle}] /\ call'[c] = Idle
      /\ \A d \in Call \ {c} : call'[d] = call[d]
  BY SessionFacts DEF Return
<1>2. SessionTypes' /\ Listed'
  BY <1>1, SessionFacts DEF SessionsInv, SessionTypes, Listed
<1>3. \A d \in Call : call'[d].pc # "opening"
  BY <1>1, ShapeFacts, SessionFacts DEF SessionsInv, MutexInv
<1>4. MutexInv'
  <2>1. \A d \in Call : d # 0
    BY SessionFacts
  <2>2. mu # 0
    BY <2>1 DEF SessionsInv, MutexInv
  <2>3. Cardinality(listed') + (IF mu' # 0 THEN 1 ELSE 0) <= MaxSessions
    BY <2>2, SessionFacts DEF SessionsInv, MutexInv
  <2> QED BY <1>3, <2>1, <2>3 DEF MutexInv
<1>5. OneShell'
  BY <1>3 DEF SessionsInv, OneShell, LiveShell, Alive
<1>6. \A d \in Call : CallInv(d)'
  <2>1. CallInv(c)'
    BY <1>1, ShapeFacts DEF CallInv
  <2>2. ASSUME NEW d \in Call \ {c} PROVE CallInv(d)'
    <3>1. call'[d] = call[d] /\ CallInv(d)
      BY <1>1 DEF SessionsInv
    <3> QED BY <3>1 DEF CallInv
  <2> QED BY <2>1, <2>2
<1>7. ASSUME NEW i \in Id, Alive(i)' PROVE InHand(i)'
  <2>1. Alive(i) /\ InHand(i)
    BY <1>7 DEF Alive, SessionsInv
  <2>2. CASE i \in listed
    BY <2>2 DEF InHand
  <2>3. CASE i \notin listed
    <3>1. PICK d \in Call : call[d].pc = "closing" /\ call[d].id = i
      BY <2>1, <2>3 DEF InHand, At
    <3>2. d # c /\ call'[d] = call[d]
      BY <1>1, <3>1
    <3> QED BY <3>1, <3>2 DEF InHand, At
  <2> QED BY <2>2, <2>3
<1> QED BY <1>2, <1>4, <1>5, <1>6, <1>7 DEF SessionsInv

\* The mutex is given back with a process in the table that takes the place it
\* was held for.
LEMMA OpenedOne ==
    ASSUME SessionsInv, NEW c \in Call, call[c].pc = "opening", mu' = 0,
           NEW k \in Id, proc[k] = NoProc, NEW p \in Process,
           p.kind = call[c].tool, p.m = call[c].m,
           proc' = [proc EXCEPT ![k] = p], listed' = listed \cup {k},
           NEW a \in ToolCall \cup {Idle}, call' = [call EXCEPT ![c] = a],
           a = Idle \/ (a.pc = "exec" /\ a.id = k)
    PROVE  SessionsInv'
<1>1. /\ call' \in [Call -> ToolCall \cup {Idle}] /\ call'[c] = a
      /\ \A d \in Call \ {c} : call'[d] = call[d]
  BY SessionFacts
<1>2. /\ proc' \in [Id -> Process \cup {NoProc}] /\ proc'[k] = p
      /\ \A i \in Id \ {k} : proc'[i] = proc[i]
  BY SessionFacts
<1>3. k \notin listed
  BY ShapeFacts DEF SessionsInv, Listed
<1>4. SessionTypes' /\ Listed'
  BY <1>1, <1>2, SessionFacts DEF SessionsInv, SessionTypes, Listed
<1>5. \A d \in Call : call'[d].pc # "opening"
  BY <1>1, ShapeFacts, SessionFacts DEF SessionsInv, MutexInv
<1>6. MutexInv'
  <2>1. \A d \in Call : d # 0
    BY SessionFacts
  <2>2. mu # 0
    BY <2>1 DEF SessionsInv, MutexInv
  <2>3. Cardinality(listed') = Cardinality(listed) + 1
    BY <1>3, SessionFacts, FS_AddElement
  <2>4. Cardinality(listed') + (IF mu' # 0 THEN 1 ELSE 0) <= MaxSessions
    BY <2>2, <2>3, SessionFacts DEF SessionsInv, MutexInv
  <2> QED BY <1>5, <2>1, <2>4 DEF MutexInv
<1>7. OneShell'
  <2>1. \A m, i : LiveShell(i, m)' /\ i # k => LiveShell(i, m) /\ i \in listed
    <3>1. \A i \in listed : i \in Id /\ (i # k => proc'[i] = proc[i])
      BY <1>2, SessionFacts
    <3> QED BY <3>1 DEF LiveShell, Alive
  <2>2. ASSUME NEW m \in Host, NEW i \in listed, LiveShell(i, m), LiveShell(k, m)' PROVE FALSE
    <3>1. call[c].tool = "shell" /\ m = call[c].m
      BY <1>2, <2>2 DEF LiveShell
    <3> QED BY <2>2, <3>1 DEF SessionsInv, OneShell
  <2>3. \A m \in Host : \A i, j \in listed' : LiveShell(i, m)' /\ LiveShell(j, m)' => i = j
    BY <2>1, <2>2 DEF SessionsInv, OneShell
  <2> QED BY <1>5, <2>3 DEF OneShell
<1>8. \A d \in Call : CallInv(d)'
  <2>1. CallInv(c)'
    BY <1>1, <1>2, ShapeFacts DEF CallInv
  <2>2. ASSUME NEW d \in Call \ {c} PROVE CallInv(d)'
    <3>1. call'[d] = call[d] /\ CallInv(d)
      BY <1>1 DEF SessionsInv
    <3>2. \A i \in Id : proc[i] \in Process => proc'[i] \in Process
      BY <1>2
    <3> QED BY <3>1, <3>2 DEF CallInv
  <2> QED BY <2>1, <2>2
<1>9. ASSUME NEW i \in Id, Alive(i)' PROVE InHand(i)'
  <2>1. CASE i \in listed \cup {k}
    BY <2>1 DEF InHand
  <2>2. CASE i \notin listed \cup {k}
    <3>1. Alive(i) /\ InHand(i)
      BY <1>2, <1>9, <2>2 DEF Alive, SessionsInv
    <3>2. PICK d \in Call : call[d].pc = "closing" /\ call[d].id = i
      BY <2>2, <3>1 DEF InHand, At
    <3>3. d # c /\ call'[d] = call[d]
      BY <1>1, <3>2
    <3> QED BY <3>2, <3>3 DEF InHand, At
  <2> QED BY <2>1, <2>2
<1> QED BY <1>4, <1>6, <1>7, <1>8, <1>9 DEF SessionsInv

LEMMA OpenedStep ==
    ASSUME SessionsInv, NEW c \in Call, Opened(c)
    PROVE  SessionsInv'
<1>1. /\ call[c] \in ToolCall /\ call[c].pc = "opening" /\ mu' = 0
      /\ call[c].tool \in {"shell", "terminal"}
  BY ShapeFacts, SessionFacts DEF Opened, At, SessionsInv, CallInv
<1>2. CASE Return(c) /\ UNCHANGED <<listed, proc, reaping>>
  BY <1>1, <1>2, OpenedNothing
<1>3. ASSUME NEW k \in Id, proc[k] = NoProc,
             proc' = [proc EXCEPT ![k] = [st |-> "live", kind |-> call[c].tool,
                                          m |-> call[c].m, busy |-> 0]],
             listed' = listed \cup {k},
             IF call[c].tool = "shell"
               THEN call' = [call EXCEPT ![c].pc = "exec", ![c].id = k] ELSE Return(c)
      PROVE  SessionsInv'
  <2> DEFINE p == [st |-> "live", kind |-> call[c].tool, m |-> call[c].m, busy |-> 0]
             b == [call[c] EXCEPT !.pc = "exec", !.id = k]
  <2>1. p \in Process /\ p.kind = call[c].tool /\ p.m = call[c].m
    BY <1>1 DEF Process, ToolCall
  <2>2. b \in ToolCall /\ b.pc = "exec" /\ b.id = k
    BY <1>1 DEF ToolCall
  <2>3. proc' = [proc EXCEPT ![k] = p]
    BY <1>3
  <2>4. CASE call[c].tool = "shell"
    <3>1. call' = [call EXCEPT ![c] = b]
      BY <1>3, <2>4, SessionFacts
    <3> HIDE DEF p, b
    <3> QED BY <1>1, <1>3, <2>1, <2>2, <2>3, <3>1, OpenedOne, ZenonT(40)
  <2>5. CASE call[c].tool # "shell"
    <3>1. call' = [call EXCEPT ![c] = Idle] /\ Idle \in ToolCall \cup {Idle}
      BY <1>3, <2>5 DEF Return
    <3> HIDE DEF p, b
    <3> QED BY <1>1, <1>3, <2>1, <2>3, <3>1, OpenedOne
  <2> QED BY <2>4, <2>5
<1> QED BY <1>2, <1>3 DEF Opened

\* A call and the one process it is at.
LEMMA AtProcess ==
    ASSUME SessionsInv, NEW c \in Call, NEW q \in Process, NEW a \in ToolCall \cup {Idle},
           call[c].pc \in {"exec", "busy"}, NEW k, k = call[c].id,
           q.m = proc[k].m, q.kind = proc[k].kind, q.st = "live" => Alive(k),
           proc' = [proc EXCEPT ![k] = q], call' = [call EXCEPT ![c] = a],
           a = Idle \/ (a.pc = "busy" /\ a.id = k), UNCHANGED <<mu, listed>>
    PROVE  SessionsInv'
<1>1. k \in Id /\ proc[k] \in Process
  BY DEF SessionsInv, CallInv
<1>2. /\ proc' \in [Id -> Process \cup {NoProc}] /\ proc'[k] = q
      /\ \A i \in Id \ {k} : proc'[i] = proc[i]
  BY <1>1, SessionFacts
<1>3. \A i \in Id : /\ Alive(i)' => Alive(i)
                    /\ proc[i] \in Process =>
                         /\ proc'[i] \in Process /\ proc'[i].m = proc[i].m
                         /\ proc'[i].kind = proc[i].kind
  BY <1>2 DEF Alive
<1>4. CallInv(c)'
  <2>1. call'[c] = a
    BY SessionFacts
  <2> QED BY <1>1, <1>2, <2>1, ShapeFacts DEF CallInv
<1>5. \A i \in Id : Alive(i)' => \/ i \in listed'
                                 \/ \E d \in Call \ {c} : At(d, "closing") /\ call[d].id = i
  BY <1>3 DEF SessionsInv, InHand, At
<1> QED BY <1>2, <1>3, <1>4, <1>5, ShapeFacts, CallOnly, ZenonT(40)

LEMMA ExecStep ==
    ASSUME SessionsInv, NEW c \in Call, Exec(c)
    PROVE  SessionsInv'
<1>0. PICK k : k = call[c].id
  OBVIOUS
<1>1. /\ call[c] \in ToolCall /\ call[c].pc = "exec" /\ k \in Id /\ proc[k] \in Process
      /\ UNCHANGED <<mu, listed>>
  BY <1>0, ShapeFacts, SessionFacts DEF Exec, At, SessionsInv, CallInv
<1>2. CASE Alive(k)
  <2> DEFINE q == [proc[k] EXCEPT !.busy = c]
             a == [call[c] EXCEPT !.pc = "busy"]
  <2>1. q \in Process /\ q.m = proc[k].m /\ q.kind = proc[k].kind /\ q.st = proc[k].st
    BY <1>1 DEF Process
  <2>2. a \in ToolCall /\ a.pc = "busy" /\ a.id = k
    BY <1>0, <1>1 DEF ToolCall
  <2>3. proc' = [proc EXCEPT ![k] = q] /\ call' = [call EXCEPT ![c] = a]
    BY <1>0, <1>1, <1>2, SessionFacts DEF Exec, Goto
  <2> HIDE DEF q, a
  <2> QED BY <1>0, <1>1, <1>2, <2>1, <2>2, <2>3, AtProcess
<1>3. CASE ~ Alive(k)
  <2>1. Return(c) /\ proc' = proc /\ listed' = listed \ {} /\ \A i \in {} \cap Id : ~ Alive(i)
    BY <1>0, <1>1, <1>3 DEF Exec
  <2> QED BY <1>1, <2>1, Returned
<1> QED BY <1>2, <1>3

LEMMA ExecEndsStep ==
    ASSUME SessionsInv, NEW c \in Call, ExecEnds(c)
    PROVE  SessionsInv'
<1>0. PICK k : k = call[c].id
  OBVIOUS
<1>1. /\ call[c] \in ToolCall /\ call[c].pc = "busy" /\ k \in Id /\ proc[k] \in Process
      /\ UNCHANGED <<mu, listed>> /\ call' = [call EXCEPT ![c] = Idle]
  BY <1>0, ShapeFacts, SessionFacts DEF ExecEnds, At, SessionsInv, CallInv, Return
<1>2. PICK st \in {proc[k].st, "dead"} : proc' = [proc EXCEPT ![k].busy = 0, ![k].st = st]
  BY <1>0 DEF ExecEnds
<1> DEFINE q == [proc[k] EXCEPT !.busy = 0, !.st = st]
<1>3. q \in Process /\ q.m = proc[k].m /\ q.kind = proc[k].kind /\ q.st = st
  BY <1>1, <1>2 DEF Process
<1>4. proc' = [proc EXCEPT ![k] = q] /\ (st = "live" => Alive(k))
  BY <1>1, <1>2, SessionFacts DEF Alive
<1> HIDE DEF q
<1> QED BY <1>0, <1>1, <1>3, <1>4, AtProcess

LEMMA TerminalCloseStep ==
    ASSUME SessionsInv, NEW c \in Call, terminalClose(c)
    PROVE  SessionsInv'
<1>0. PICK k : k = call[c].id
  OBVIOUS
<1>1. /\ call[c] \in ToolCall /\ call[c].pc \in {"close", "closing"}
      /\ k \in Id /\ proc[k] \in Process /\ mu' = mu
  BY <1>0, ShapeFacts, SessionFacts DEF terminalClose, At, SessionsInv, CallInv
<1>2. CASE /\ call[c].pc = "close" /\ listed' = listed \ {k} /\ Goto(c, "closing")
           /\ proc' = proc
  <2> DEFINE a == [call[c] EXCEPT !.pc = "closing"]
  <2>1. a \in ToolCall /\ a.pc = "closing" /\ a.id = k
    BY <1>0, <1>1 DEF ToolCall
  <2>2. call' = [call EXCEPT ![c] = a] /\ call'[c] = a
    BY <1>2, SessionFacts DEF Goto
  <2> HIDE DEF a
  <2>3. CallInv(c)'
    BY <1>1, <1>2, <2>1, <2>2 DEF CallInv
  <2>4. \A i \in Id : Alive(i)' => \/ i \in listed'
                                   \/ a.pc = "closing" /\ a.id = i
                                   \/ \E d \in Call \ {c} : At(d, "closing") /\ call[d].id = i
    BY <1>2, <2>1 DEF SessionsInv, InHand, At, Alive
  <2>5. \A i \in Id : Alive(i)' <=> Alive(i)
    BY <1>2 DEF Alive
  <2>6. /\ call' = [call EXCEPT ![c] = a] /\ a \in ToolCall \cup {Idle}
        /\ call[c].pc # "opening" /\ a.pc # "opening" /\ mu' = mu /\ listed' \subseteq listed
        /\ proc' \in [Id -> Process \cup {NoProc}]
    BY <1>1, <1>2, <2>1, <2>2, SessionFacts
  <2>7. \A i \in Id : /\ Alive(i)' => Alive(i)
                      /\ proc[i] \in Process =>
                           /\ proc'[i] \in Process /\ proc'[i].m = proc[i].m
                           /\ proc'[i].kind = proc[i].kind
    BY <1>2, <2>5
  <2> QED BY <2>3, <2>4, <2>6, <2>7, CallOnly
<1>3. CASE call[c].pc = "closing" /\ proc' = Killed({k}) /\ Return(c) /\ listed' = listed
  <2>1. CASE k \notin listed
    <3>1. listed' = listed \ {k} /\ k \in {k} /\ call[c].pc # "opening"
      BY <1>3, <2>1
    <3> QED BY <1>0, <1>1, <1>3, <3>1, Returned
  <2>2. CASE k \in listed
    <3>1. call' = [call EXCEPT ![c] = Idle] /\ call'[c] = Idle
      BY <1>3, SessionFacts DEF Return
    <3>2. /\ proc' \in [Id -> Process \cup {NoProc}]
          /\ \A i \in Id : /\ Alive(i)' => Alive(i) /\ i # k
                           /\ proc[i] \in Process =>
                                /\ proc'[i] \in Process /\ proc'[i].m = proc[i].m
                                /\ proc'[i].kind = proc[i].kind
      BY <1>3, KilledFacts
    <3>3. CallInv(c)'
      BY <3>1, ShapeFacts DEF CallInv
    <3>4. \A i \in Id : Alive(i)' => \/ i \in listed'
                                     \/ \E d \in Call \ {c} : At(d, "closing") /\ call[d].id = i
      BY <1>0, <1>3, <3>2 DEF SessionsInv, InHand, At
    <3> QED BY <1>1, <1>3, <3>1, <3>2, <3>3, <3>4, ShapeFacts, CallOnly
  <2> QED BY <2>1, <2>2
<1> QED BY <1>0, <1>2, <1>3 DEF terminalClose, At

LEMMA CallStepsKeep ==
    ASSUME SessionsInv, NEW c \in Call, CallSteps(c)
    PROVE  SessionsInv'
<1>0. call[c].pc # "idle" => call[c] \in ToolCall
  BY SessionFacts
<1>1. CASE machineBlocked(c)
  <2>1. /\ call[c].pc = "check" /\ call[c].tool \in {"use", "close"}
        /\ call[c].id \in Id /\ proc[call[c].id] \in Process
        /\ UNCHANGED <<mu, listed, proc>>
    BY <1>1 DEF machineBlocked, At, SessionsInv, CallInv
  <2>2. PICK pc : Goto(c, pc) /\ pc \in {"use", "close", "revoke"}
    BY <1>1, <2>1 DEF machineBlocked
  <2> QED BY <2>1, <2>2, GoesOn
<1>2. CASE revokeMachineSessions(c)
  <2> DEFINE gone == {i \in listed : proc[i].m = call[c].m}
  <2>1. /\ call[c].pc = "revoke" /\ mu' = mu /\ listed' = listed \ gone
        /\ proc' = Killed(gone) /\ Return(c)
    BY <1>2 DEF revokeMachineSessions, At
  <2> HIDE DEF gone
  <2> QED BY <2>1, Returned
<1>3. ASSUME UNCHANGED <<mu, listed, proc>>, Return(c), call[c].pc \in {"ask", "run", "use"}
      PROVE  SessionsInv'
  <2>1. /\ proc' = proc /\ listed' = listed \ {} /\ \A i \in {} \cap Id : ~ Alive(i)
        /\ mu' = mu /\ call[c].pc # "opening" /\ call[c].pc # "closing"
    BY <1>3
  <2> QED BY <1>3, <2>1, Returned
<1>4. CASE Authorize(c)
  <2>1. call[c].pc = "ask" /\ UNCHANGED <<mu, listed, proc>>
    BY <1>4 DEF Authorize, At
  <2>2. CASE Return(c)
    BY <1>3, <2>1, <2>2
  <2>3. CASE ~ Return(c)
    <3>1. PICK pc : Goto(c, pc) /\ pc \in {"run", "lock"}
      BY <1>4, <2>3 DEF Authorize
    <3> QED BY <2>1, <3>1, GoesOn
  <2> QED BY <2>2, <2>3
<1>5. CASE RunAt(c)
  BY <1>3, <1>5 DEF RunAt, At
<1>6. CASE UseTerminal(c)
  BY <1>3, <1>6 DEF UseTerminal, At
<1> QED BY <1>1, <1>2, <1>4, <1>5, <1>6, ShellForStep, OpenTerminalStep, OpenedStep, ExecStep,
           ExecEndsStep, TerminalCloseStep DEF CallSteps

\* The calls, the reaper, the end of the client's session and the grants keep
\* the tables, the mutex and the processes of McpSessions together.
THEOREM SessionsInvariant == SessionsSpec => []SessionsInv
<1>1. SessionsInit => SessionsInv
  <2> SUFFICES ASSUME SessionsInit PROVE SessionsInv
    OBVIOUS
  <2>1. \A i \in Id : proc[i] = NoProc /\ ~ Alive(i)
    BY ShapeFacts DEF SessionsInit, Alive
  <2>2. \A c \in Call : call[c] = Idle /\ call[c].pc = "idle" /\ c # 0
    BY ShapeFacts, SessionsAssumption DEF SessionsInit
  <2>3. SessionTypes /\ Listed /\ OneShell /\ \A c \in Call : CallInv(c)
    BY <2>1, <2>2 DEF SessionsInit, SessionTypes, Listed, OneShell, CallInv
  <2>4. MutexInv
    BY <2>2, FS_EmptySet, SessionsAssumption DEF SessionsInit, MutexInv
  <2> QED BY <2>1, <2>3, <2>4 DEF SessionsInv
<1>2. SessionsInv /\ [SessionsNext]_mvars => SessionsInv'
  <2> SUFFICES ASSUME SessionsInv, [SessionsNext]_mvars PROVE SessionsInv'
    OBVIOUS
  <2>1. ASSUME UNCHANGED <<mu, listed, proc, call>> PROVE SessionsInv'
    BY <2>1 DEF SessionsInv, SessionTypes, Listed, MutexInv, OneShell, LiveShell, CallInv,
                InHand, At, Alive
  <2>2. CASE \E i \in Id : ProcessEnds(i)
    <3>1. PICK i \in Id : ProcessEnds(i)
      BY <2>2
    <3>2. call' = call /\ mu' = mu /\ listed' = listed /\ proc' = Killed({i})
      BY <3>1 DEF ProcessEnds
    <3> QED BY <3>2, NoCallStep
  <2>3. CASE \E I \in SUBSET Id : Sweep(I)
    <3>1. PICK I : call' = call /\ mu' = mu /\ listed' = listed \ I /\ proc' = Killed(I)
      BY <2>3 DEF Sweep
    <3> QED BY <3>1, NoCallStep
  <2>4. CASE closeSessions
    <3>1. PICK I : call' = call /\ mu' = mu /\ listed' = listed \ I /\ proc' = Killed(I)
      BY <2>4 DEF closeSessions
    <3> QED BY <3>1, NoCallStep
  <2>5. CASE ClientGoes \/ (\E m \in Host : Regrant(m)) \/ UNCHANGED mvars
    BY <2>1, <2>5 DEF ClientGoes, Regrant, mvars
  <2> QED BY <2>2, <2>3, <2>4, <2>5, BeginCallStep, CallStepsKeep DEF SessionsNext
<1> QED BY <1>1, <1>2, PTL DEF SessionsSpec

LEMMA ListedIsBounded == SessionsInv => NothingOrphaned
<1> SUFFICES ASSUME SessionsInv PROVE NothingOrphaned
  OBVIOUS
<1>1. ASSUME NEW m \in Host PROVE Cardinality({i \in Named(m) : Alive(i)}) <= 1
  <2> DEFINE S == {i \in Named(m) : Alive(i)}
  <2>1. \A i, j \in S : i = j
    BY DEF SessionsInv, OneShell, LiveShell, Named
  <2> HIDE DEF S
  <2>2. CASE S = {}
    BY <2>2, FS_EmptySet DEF S
  <2>3. CASE S # {}
    <3>1. PICK i : S = {i}
      BY <2>1, <2>3
    <3> QED BY <3>1, FS_Singleton DEF S
  <2> QED BY <2>2, <2>3
<1> QED BY <1>1 DEF SessionsInv, MutexInv, InHand, NothingOrphaned

\* No more processes than the limit allows, one live shell of a name on a
\* machine, and no live process that nobody can end.
THEOREM NobodyIsOrphaned == SessionsSpec => []NothingOrphaned
BY SessionsInvariant, ListedIsBounded, PTL

-----------------------------------------------------------------------------
(* ShellExec.                                                              *)

ShellSpec == ShellInit /\ [][ShellNext]_xvars

Piece(c) == [of |-> c, mark |-> FALSE]
Mark(c) == [of |-> c, mark |-> TRUE]
Token == [of : Caller \cup {0}, mark : {FALSE}] \cup [of : Caller, mark : {TRUE}]
ExecCall == [pc : {"idle", "queue", "write", "wait", "kill", "over"},
         got : SUBSET Stream, text : [Stream -> Seq(Token)], tail : [Stream -> Seq(Token)],
         fail : BOOLEAN, result : {"none", "complete", "dead", "timeout", "ctx"}]

ShellTypes ==
    /\ far \in [todo : Seq(Caller), lives : BOOLEAN, jobs : Nat, marked : SUBSET {"out"}]
    /\ wire \in [Stream -> Seq(Token)]
    /\ sh \in [execMu : Caller \cup {0}, cur : Caller \cup {0}, dead : BOOLEAN,
               backlog : Nat, open : BOOLEAN, eof : SUBSET Stream]
    /\ ex \in [Caller -> ExecCall]
    /\ said \in [Caller -> [Stream -> Nat]]

\* The pieces of commands in a stream, and what is in it of c.
Pieces(q) == Cardinality({n \in 1 .. Len(q) : q[n].of # 0 /\ ~ q[n].mark})
NoneOf(q, c) == \A n \in 1 .. Len(q) : q[n].of # c
Marked(q, c) == \E n \in 1 .. Len(q) : q[n] = Mark(c)
MarkLast(q, c) == \A i, j \in 1 .. Len(q) : i < j /\ q[i] = Mark(c) => q[j].of # c
OnlyOf(q, c) == \A n \in 1 .. Len(q) : q[n] \in {Piece(0), Piece(c)}

\* The shell may yet write c's sentinel to s.
MayMark(c, s) == far.todo = <<c>> /\ (s = "out" => far.marked = {})

\* What a caller has of a stream.
StreamInv(c, s) ==
    /\ OnlyOf(ex[c].text[s], c) /\ OnlyOf(ex[c].tail[s], c)
    /\ Marked(wire[s], c) \/ s \in ex[c].got => ~ MayMark(c, s)
    /\ MarkLast(wire[s], c)
    /\ s \in ex[c].got =>
         NoneOf(wire[s], c) /\ Pieces(ex[c].text[s]) = said[c][s]
    /\ ~ sh.dead /\ sh.cur = c /\ s \notin ex[c].got =>
         said[c][s] = Pieces(ex[c].text[s]) + Pieces(ex[c].tail[s]) + Pieces(wire[s])
    /\ ex[c].pc \in {"idle", "queue", "write"} =>
         /\ said[c][s] = 0 /\ Pieces(ex[c].text[s]) = 0 /\ Pieces(ex[c].tail[s]) = 0
         /\ NoneOf(wire[s], c)

\* Whose turn it is.
TurnInv(c) ==
    /\ ex[c].pc \in {"write", "wait", "kill"} <=> sh.execMu = c
    /\ ex[c].pc \in {"idle", "queue", "write"} => ex[c].got = {}
    /\ ex[c].fail => sh.dead
    /\ ex[c].result = "complete" => ex[c].got = Stream

ShellInv ==
    /\ ShellTypes
    /\ far.todo = <<>> \/ \E d \in Caller : far.todo = <<d>> /\ ex[d].pc \in {"wait", "kill"}
    /\ ~ far.lives => far.todo = <<>>
    /\ sh.dead => ~ far.lives
    /\ ~ sh.dead =>
         /\ sh.cur \in {0, sh.execMu}
         /\ sh.execMu # 0 => (sh.cur = 0 <=> ex[sh.execMu].got = Stream)
         /\ \A s \in Stream : \A n \in 1 .. Len(wire[s]) : wire[s][n].of \in {0, sh.cur}
    /\ \A c \in Caller : TurnInv(c) /\ \A s \in Stream : StreamInv(c, s)

\* What one token adds to the pieces of a stream.
Counts(t) == IF t.of # 0 /\ ~ t.mark THEN 1 ELSE 0

LEMMA PiecesNat == ASSUME NEW q \in Seq(Token) PROVE Pieces(q) \in Nat
<1>1. IsFiniteSet(1 .. Len(q)) /\ Len(q) \in Nat
  BY FS_Interval
<1>2. IsFiniteSet({n \in 1 .. Len(q) : q[n].of # 0 /\ ~ q[n].mark})
  BY <1>1, FS_Subset
<1> QED BY <1>2, FS_CardinalityType DEF Pieces

LEMMA NoPieces ==
    ASSUME NEW q \in Seq(Token), \A n \in 1 .. Len(q) : q[n].of = 0 \/ q[n].mark
    PROVE  Pieces(q) = 0
<1>1. {n \in 1 .. Len(q) : q[n].of # 0 /\ ~ q[n].mark} = {}
  OBVIOUS
<1> QED BY <1>1, FS_EmptySet DEF Pieces

LEMMA PiecesConcat ==
    ASSUME NEW p \in Seq(Token), NEW q \in Seq(Token)
    PROVE  Pieces(p \o q) = Pieces(p) + Pieces(q)
<1> DEFINE Is(t) == t.of # 0 /\ ~ t.mark
           A == {n \in 1 .. Len(p) : Is(p[n])}
           B == {n \in 1 .. Len(q) : Is(q[n])}
           C == {n \in Len(p) + 1 .. Len(p) + Len(q) : Is((p \o q)[n])}
           D == {n \in 1 .. Len(p \o q) : Is((p \o q)[n])}
           g == [n \in B |-> n + Len(p)]
<1>1. /\ Len(p) \in Nat /\ Len(q) \in Nat /\ Len(p \o q) = Len(p) + Len(q)
      /\ \A n \in 1 .. Len(p) : (p \o q)[n] = p[n]
      /\ \A n \in 1 .. Len(q) : (p \o q)[n + Len(p)] = q[n]
  OBVIOUS
<1>2. IsFiniteSet(A) /\ IsFiniteSet(B) /\ IsFiniteSet(C)
  <2>1. /\ IsFiniteSet(1 .. Len(p)) /\ IsFiniteSet(1 .. Len(q))
        /\ IsFiniteSet(Len(p) + 1 .. Len(p) + Len(q))
    BY <1>1, FS_Interval
  <2> QED BY <2>1, FS_Subset
<1>3. g \in Bijection(B, C)
  <2>1. g \in [B -> C]
    BY <1>1
  <2>2. \A a, b \in B : a # b => g[a] # g[b]
    BY <1>1
  <2>3. \A c \in C : \E b \in B : g[b] = c
    <3> TAKE c \in C
    <3>1. c - Len(p) \in 1 .. Len(q) /\ c = (c - Len(p)) + Len(p)
      BY <1>1
    <3>2. c - Len(p) \in B
      BY <1>1, <3>1
    <3>3. g[c - Len(p)] = c
      BY <3>1, <3>2
    <3> QED BY <3>2, <3>3
  <2> QED BY <2>1, <2>2, <2>3, Fun_IsBij
<1>4. Cardinality(B) = Cardinality(C)
  BY <1>2, <1>3, FS_Bijection, ZenonT(40) DEF ExistsBijection
<1>5. D = A \cup C /\ A \cap C = {}
  BY <1>1
<1>6. Pieces(p \o q) = Cardinality(D) /\ Pieces(p) = Cardinality(A) /\ Pieces(q) = Cardinality(B)
  BY DEF Pieces
<1> HIDE DEF A, B, C, D
<1>7. Cardinality(A \cup C) = Cardinality(A) + Cardinality(C) - Cardinality(A \cap C)
  BY <1>2, FS_Union
<1>8. Cardinality(A) \in Nat /\ Cardinality(C) \in Nat /\ Cardinality(A \cap C) = 0
  BY <1>2, <1>5, FS_CardinalityType, FS_EmptySet
<1> QED BY <1>4, <1>5, <1>6, <1>7, <1>8

LEMMA PiecesOne == ASSUME NEW t \in Token PROVE Pieces(<<t>>) = Counts(t)
<1>1. CASE t.of # 0 /\ ~ t.mark
  <2>1. {n \in 1 .. Len(<<t>>) : <<t>>[n].of # 0 /\ ~ <<t>>[n].mark} = {1}
    BY <1>1
  <2> QED BY <1>1, <2>1, FS_Singleton DEF Pieces, Counts
<1>2. CASE ~ (t.of # 0 /\ ~ t.mark)
  <2>1. {n \in 1 .. Len(<<t>>) : <<t>>[n].of # 0 /\ ~ <<t>>[n].mark} = {}
    BY <1>2
  <2> QED BY <1>2, <2>1, FS_EmptySet DEF Pieces, Counts
<1> QED BY <1>1, <1>2

LEMMA AppendFacts ==
    ASSUME NEW q \in Seq(Token), NEW t \in Token
    PROVE  /\ Append(q, t) \in Seq(Token) /\ Pieces(Append(q, t)) = Pieces(q) + Counts(t)
           /\ Append(q, t) # <<>>
           /\ Len(Append(q, t)) = Len(q) + 1 /\ Len(q) \in Nat
           /\ \A n \in 1 .. Len(q) : Append(q, t)[n] = q[n]
           /\ Append(q, t)[Len(q) + 1] = t
<1>1. Append(q, t) = q \o <<t>> /\ <<t>> \in Seq(Token)
  OBVIOUS
<1>2. Pieces(Append(q, t)) = Pieces(q) + Counts(t)
  BY <1>1, PiecesConcat, PiecesOne
<1>3. /\ Append(q, t) \in Seq(Token) /\ Append(q, t) # <<>>
      /\ Len(Append(q, t)) = Len(q) + 1 /\ Len(q) \in Nat
      /\ \A n \in 1 .. Len(q) : Append(q, t)[n] = q[n]
      /\ Append(q, t)[Len(q) + 1] = t
  OBVIOUS
<1> QED BY <1>2, <1>3

LEMMA TailFacts ==
    ASSUME NEW q \in Seq(Token), q # <<>>
    PROVE  /\ Tail(q) \in Seq(Token) /\ Head(q) \in Token /\ Head(q) = q[1]
           /\ Pieces(q) = Counts(Head(q)) + Pieces(Tail(q))
           /\ Len(q) \in Nat \ {0} /\ Len(Tail(q)) = Len(q) - 1
           /\ \A n \in 1 .. Len(q) - 1 : Tail(q)[n] = q[n + 1]
<1>1. Tail(q) \in Seq(Token) /\ Head(q) \in Token /\ <<Head(q)>> \in Seq(Token)
  OBVIOUS
<1>2. q = <<Head(q)>> \o Tail(q)
  OBVIOUS
<1>3. Pieces(q) = Pieces(<<Head(q)>>) + Pieces(Tail(q))
  BY <1>1, <1>2, PiecesConcat
<1> QED BY <1>1, <1>3, PiecesOne

\* What a step must leave alone for what a caller has of a stream to hold.
LEMMA StreamStays ==
    ASSUME NEW c \in Caller, NEW s \in Stream, StreamInv(c, s),
           ex'[c].text[s] = ex[c].text[s], ex'[c].tail[s] = ex[c].tail[s],
           s \in ex'[c].got <=> s \in ex[c].got, wire'[s] = wire[s], said'[c][s] = said[c][s],
           ex'[c].pc \in {"idle", "queue", "write"} => ex[c].pc \in {"idle", "queue", "write"},
           MayMark(c, s)' => MayMark(c, s),
           ~ sh.dead' /\ sh.cur' = c => ~ sh.dead /\ sh.cur = c
    PROVE  StreamInv(c, s)'
BY DEF StreamInv, OnlyOf, Marked, MarkLast, NoneOf, Pieces, Piece, Mark

\* What a caller has of a stream after a step, from its parts.
LEMMA StreamNext ==
    ASSUME NEW c \in Caller, NEW s \in Stream,
           NEW text, NEW tail, NEW w, NEW got, NEW pc, NEW n,
           ex'[c].text[s] = text, ex'[c].tail[s] = tail, wire'[s] = w,
           ex'[c].got = got, ex'[c].pc = pc, said'[c][s] = n,
           OnlyOf(text, c), OnlyOf(tail, c), MarkLast(w, c),
           Marked(w, c) \/ s \in got => ~ MayMark(c, s)',
           s \in got => NoneOf(w, c) /\ Pieces(text) = n,
           ~ sh.dead' /\ sh.cur' = c /\ s \notin got => n = Pieces(text) + Pieces(tail) + Pieces(w),
           pc \in {"idle", "queue", "write"} =>
              n = 0 /\ Pieces(text) = 0 /\ Pieces(tail) = 0 /\ NoneOf(w, c)
    PROVE  StreamInv(c, s)'
<1>1. OnlyOf(ex'[c].text[s], c) /\ OnlyOf(ex'[c].tail[s], c) /\ MarkLast(wire'[s], c)
  OBVIOUS
<1>2. Marked(wire'[s], c) \/ s \in ex'[c].got => ~ MayMark(c, s)'
  OBVIOUS
<1>3. s \in ex'[c].got => NoneOf(wire'[s], c) /\ Pieces(ex'[c].text[s]) = said'[c][s]
  OBVIOUS
<1>4. ~ sh.dead' /\ sh.cur' = c /\ s \notin ex'[c].got =>
        said'[c][s] = Pieces(ex'[c].text[s]) + Pieces(ex'[c].tail[s]) + Pieces(wire'[s])
  OBVIOUS
<1>5. ex'[c].pc \in {"idle", "queue", "write"} =>
        /\ said'[c][s] = 0 /\ Pieces(ex'[c].text[s]) = 0 /\ Pieces(ex'[c].tail[s]) = 0
        /\ NoneOf(wire'[s], c)
  OBVIOUS
<1> QED BY <1>1, <1>2, <1>3, <1>4, <1>5, ZenonT(40)
    DEF StreamInv, OnlyOf, Marked, MarkLast, NoneOf, Pieces, Piece, Mark

\* The shell writes: a piece of c counts for c, and its sentinel comes last.
LEMMA StreamGrows ==
    ASSUME ShellTypes, NEW c \in Caller, NEW s \in Stream, StreamInv(c, s), NEW t \in Token,
           UNCHANGED <<ex, sh>>, wire'[s] = Append(wire[s], t),
           said'[c][s] = said[c][s] + (IF t = Piece(c) THEN 1 ELSE 0),
           MayMark(c, s)' => MayMark(c, s),
           t.of = c => MayMark(c, s) /\ ex[c].pc \notin {"idle", "queue", "write"},
           t = Mark(c) => ~ MayMark(c, s)',
           ~ sh.dead /\ sh.cur = c => t.of \in {0, c}
    PROVE  StreamInv(c, s)'
<1> DEFINE q == wire[s]
<1>1. q \in Seq(Token) /\ c # 0
  BY ShellAssumption DEF ShellTypes
<1>2. /\ Pieces(Append(q, t)) = Pieces(q) + Counts(t)
      /\ Len(Append(q, t)) = Len(q) + 1 /\ Len(q) \in Nat
      /\ \A n \in 1 .. Len(q) : Append(q, t)[n] = q[n]
      /\ Append(q, t)[Len(q) + 1] = t
  BY <1>1, AppendFacts
<1>3. t = Piece(c) \/ t = Mark(c) \/ t.of # c
  BY DEF Token, Piece, Mark
<1>4. t.of = c => ~ Marked(q, c) /\ s \notin ex[c].got
  BY DEF StreamInv
<1>5. NoneOf(q, c) /\ t.of # c => NoneOf(Append(q, t), c)
  BY <1>2 DEF NoneOf
<1>6. Marked(Append(q, t), c) => Marked(q, c) \/ t = Mark(c)
  BY <1>2 DEF Marked
<1>7. MarkLast(Append(q, t), c)
  <2>1. MarkLast(q, c)
    BY DEF StreamInv
  <2> QED BY <1>2, <1>4, <2>1 DEF MarkLast, Marked
<1>8. ~ sh.dead /\ sh.cur = c => Counts(t) = (IF t = Piece(c) THEN 1 ELSE 0)
  BY <1>1, <1>3 DEF Counts, Piece, Mark, Token
<1>9. Pieces(q) \in Nat /\ said[c][s] \in Nat
  BY <1>1, PiecesNat DEF ShellTypes
<1>10. t = Piece(c) \/ t = Mark(c) => t.of = c
  BY DEF Piece, Mark
<1> HIDE DEF q
<1>11. OnlyOf(ex[c].text[s], c) /\ OnlyOf(ex[c].tail[s], c)
  BY DEF StreamInv
<1>12. Marked(Append(q, t), c) \/ s \in ex[c].got => ~ MayMark(c, s)'
  <2>1. Marked(q, c) \/ s \in ex[c].got => ~ MayMark(c, s)
    BY DEF StreamInv, q
  <2> QED BY <1>6, <2>1
<1>13. s \in ex[c].got => NoneOf(Append(q, t), c) /\ Pieces(ex[c].text[s]) = said'[c][s]
  <2>1. s \in ex[c].got => NoneOf(q, c) /\ Pieces(ex[c].text[s]) = said[c][s]
    BY DEF StreamInv, q
  <2>2. s \in ex[c].got => t.of # c /\ said'[c][s] = said[c][s]
    BY <1>4, <1>9, <1>10
  <2> QED BY <1>5, <2>1, <2>2
<1>14. ~ sh.dead /\ sh.cur = c /\ s \notin ex[c].got =>
         said'[c][s] = Pieces(ex[c].text[s]) + Pieces(ex[c].tail[s]) + Pieces(Append(q, t))
  <2>1. Pieces(ex[c].text[s]) \in Nat /\ Pieces(ex[c].tail[s]) \in Nat
    <3>1. ex[c].text[s] \in Seq(Token) /\ ex[c].tail[s] \in Seq(Token)
      BY DEF ShellTypes, ExecCall
    <3> QED BY <3>1, PiecesNat
  <2>2. ~ sh.dead /\ sh.cur = c /\ s \notin ex[c].got =>
          said[c][s] = Pieces(ex[c].text[s]) + Pieces(ex[c].tail[s]) + Pieces(q)
    BY DEF StreamInv, q
  <2> QED BY <1>2, <1>8, <1>9, <2>1, <2>2
<1>15. ex[c].pc \in {"idle", "queue", "write"} =>
         /\ said'[c][s] = 0 /\ Pieces(ex[c].text[s]) = 0 /\ Pieces(ex[c].tail[s]) = 0
         /\ NoneOf(Append(q, t), c)
  <2>1. ex[c].pc \in {"idle", "queue", "write"} =>
          /\ said[c][s] = 0 /\ Pieces(ex[c].text[s]) = 0 /\ Pieces(ex[c].tail[s]) = 0
          /\ NoneOf(q, c)
    BY DEF StreamInv, q
  <2> QED BY <1>5, <1>9, <1>10, <2>1
<1>16. /\ wire'[s] = Append(q, t) /\ sh' = sh
       /\ ex'[c].text[s] = ex[c].text[s] /\ ex'[c].tail[s] = ex[c].tail[s]
       /\ ex'[c].got = ex[c].got /\ ex'[c].pc = ex[c].pc
  BY DEF q
<1>17. PICK text, tail, w, got, pc, n :
         /\ ex[c].text[s] = text /\ ex[c].tail[s] = tail /\ Append(q, t) = w
         /\ ex[c].got = got /\ ex[c].pc = pc /\ said'[c][s] = n
  OBVIOUS
<1> HIDE DEF q
<1>18. /\ ex'[c].text[s] = text /\ ex'[c].tail[s] = tail /\ wire'[s] = w
       /\ ex'[c].got = got /\ ex'[c].pc = pc
  BY <1>16, <1>17
<1>19. /\ OnlyOf(text, c) /\ OnlyOf(tail, c) /\ MarkLast(w, c)
       /\ Marked(w, c) \/ s \in got => ~ MayMark(c, s)'
       /\ s \in got => NoneOf(w, c) /\ Pieces(text) = n
  BY <1>7, <1>11, <1>12, <1>13, <1>17
<1>20. /\ ~ sh.dead' /\ sh.cur' = c /\ s \notin got => n = Pieces(text) + Pieces(tail) + Pieces(w)
       /\ pc \in {"idle", "queue", "write"} =>
            n = 0 /\ Pieces(text) = 0 /\ Pieces(tail) = 0 /\ NoneOf(w, c)
  BY <1>14, <1>15, <1>16, <1>17
<1> QED BY <1>17, <1>18, <1>19, <1>20, StreamNext

\* What a stream is without its head.
LEMMA TailKeeps ==
    ASSUME NEW q \in Seq(Token), q # <<>>, NEW c \in Caller
    PROVE  /\ NoneOf(q, c) => NoneOf(Tail(q), c)
           /\ Marked(Tail(q), c) => Marked(q, c)
           /\ MarkLast(q, c) => MarkLast(Tail(q), c)
<1>1. /\ Len(q) \in Nat \ {0} /\ Len(Tail(q)) = Len(q) - 1
      /\ \A n \in 1 .. Len(q) - 1 : Tail(q)[n] = q[n + 1]
  BY TailFacts
<1>2. /\ NoneOf(q, c) => NoneOf(Tail(q), c)
      /\ Marked(Tail(q), c) => Marked(q, c)
  BY <1>1 DEF NoneOf, Marked
<1>3. ASSUME MarkLast(q, c), NEW i \in 1 .. Len(q) - 1, NEW j \in 1 .. Len(q) - 1,
             i < j, Tail(q)[i] = Mark(c)
      PROVE  Tail(q)[j].of # c
  <2>1. i + 1 \in 1 .. Len(q) /\ j + 1 \in 1 .. Len(q) /\ i + 1 < j + 1
    BY <1>1, <1>3
  <2> QED BY <1>1, <1>3, <2>1 DEF MarkLast
<1> QED BY <1>1, <1>2, <1>3 DEF MarkLast

\* A token is read and does not concern c.
LEMMA StreamShrinks ==
    ASSUME ShellTypes, NEW c \in Caller, NEW s \in Stream, StreamInv(c, s), wire[s] # <<>>,
           ex'[c].text[s] = ex[c].text[s], ex'[c].tail[s] = ex[c].tail[s],
           ex'[c].got = ex[c].got, ex'[c].pc = ex[c].pc,
           wire'[s] = Tail(wire[s]), UNCHANGED <<said, far>>,
           sh.dead' \/ sh.cur' # c
    PROVE  StreamInv(c, s)'
<1>1. wire[s] \in Seq(Token)
  BY DEF ShellTypes
<1>2. /\ NoneOf(wire[s], c) => NoneOf(Tail(wire[s]), c)
      /\ Marked(Tail(wire[s]), c) => Marked(wire[s], c)
      /\ MarkLast(wire[s], c) => MarkLast(Tail(wire[s]), c)
  BY <1>1, TailKeeps
<1>3. /\ OnlyOf(ex[c].text[s], c) /\ OnlyOf(ex[c].tail[s], c) /\ MarkLast(wire[s], c)
      /\ Marked(wire[s], c) \/ s \in ex[c].got => ~ MayMark(c, s)
      /\ s \in ex[c].got => NoneOf(wire[s], c) /\ Pieces(ex[c].text[s]) = said[c][s]
      /\ ex[c].pc \in {"idle", "queue", "write"} =>
           /\ said[c][s] = 0 /\ Pieces(ex[c].text[s]) = 0 /\ Pieces(ex[c].tail[s]) = 0
           /\ NoneOf(wire[s], c)
  BY DEF StreamInv
<1>4. MayMark(c, s)' = MayMark(c, s)
  BY DEF MayMark
<1>5. said'[c][s] = said[c][s]
  OBVIOUS
<1> QED BY <1>2, <1>3, <1>4, <1>5, StreamNext

\* The shell is given one command at a time, by the call whose turn it is.
LEMMA OneAtATime ==
    ASSUME ShellInv, NEW c \in Caller, far.todo = <<c>>
    PROVE  ex[c].pc \in {"wait", "kill"} /\ ~ sh.dead /\ sh.cur = c /\ sh.execMu = c
<1>1. ex[c].pc \in {"wait", "kill"}
  BY DEF ShellInv
<1>2. ~ sh.dead /\ sh.execMu = c
  BY <1>1 DEF ShellInv, TurnInv
<1>3. ex[c].got # Stream
  <2>1. MayMark(c, "err")
    BY DEF MayMark
  <2>2. StreamInv(c, "err")
    BY DEF ShellInv, Stream
  <2> QED BY <2>1, <2>2 DEF StreamInv, Stream
<1>4. sh.cur # 0 /\ sh.cur \in {0, c}
  BY <1>2, <1>3, ShellAssumption DEF ShellInv
<1> QED BY <1>1, <1>2, <1>4

FarTypes == far \in [todo : Seq(Caller), lives : BOOLEAN, jobs : Nat, marked : SUBSET {"out"}]

LEMMA ShellWrites ==
    ASSUME ShellInv, NEW s \in Stream, NEW t \in Token, Write(s, t), UNCHANGED <<ex, sh>>,
           said' \in [Caller -> [Stream -> Nat]], FarTypes', ~ sh.dead,
           far'.lives = far.lives, far'.todo = far.todo \/ far'.todo = <<>>,
           \A c \in Caller, u \in Stream :
              said'[c][u] = IF u = s /\ t = Piece(c) THEN said[c][u] + 1 ELSE said[c][u],
           \A c \in Caller, u \in Stream : MayMark(c, u)' => MayMark(c, u),
           t.of = 0 \/ (t.of \in Caller /\ MayMark(t.of, s)),
           \A c \in Caller : t = Mark(c) => ~ MayMark(c, s)'
    PROVE  ShellInv'
<1>1. ShellTypes /\ wire' = [wire EXCEPT ![s] = Append(@, t)]
  BY DEF ShellInv, Write
<1>2. wire'[s] = Append(wire[s], t) /\ \A u \in Stream : u # s => wire'[u] = wire[u]
  BY <1>1 DEF ShellTypes
<1>3. wire[s] \in Seq(Token) /\ Append(wire[s], t) \in Seq(Token)
  BY <1>1 DEF ShellTypes
<1>4. ShellTypes'
  <2>1. wire' \in [Stream -> Seq(Token)]
    BY <1>1, <1>3 DEF ShellTypes
  <2> QED BY <1>1, <2>1 DEF ShellTypes, FarTypes, ExecCall, Token
<1>5. ASSUME NEW c \in Caller, t.of = c
      PROVE  MayMark(c, s) /\ ex[c].pc \in {"wait", "kill"} /\ sh.cur = c
  <2>1. MayMark(c, s)
    BY <1>5, ShellAssumption
  <2> QED BY <2>1, OneAtATime DEF MayMark
<1>6. t.of \in {0, sh.cur}
  BY <1>5
<1>7. ASSUME NEW c \in Caller, NEW u \in Stream PROVE StreamInv(c, u)'
  <2>1. StreamInv(c, u)
    BY DEF ShellInv
  <2>2. CASE u # s
    <3>1. said'[c][u] = said[c][u]
      BY <2>2
    <3>2. wire'[u] = wire[u] /\ (MayMark(c, u)' => MayMark(c, u)) /\ UNCHANGED <<ex, sh>>
      BY <1>2, <2>2
    <3> QED BY <2>1, <3>1, <3>2, StreamStays
  <2>3. CASE u = s
    <3>1. said'[c][s] = said[c][s] + (IF t = Piece(c) THEN 1 ELSE 0)
      <4>1. said[c][s] \in Nat
        BY <1>1 DEF ShellTypes
      <4>2. said'[c][s] = IF t = Piece(c) THEN said[c][s] + 1 ELSE said[c][s]
        OBVIOUS
      <4> QED BY <4>1, <4>2
    <3>2. /\ t.of = c => MayMark(c, s) /\ ex[c].pc \notin {"idle", "queue", "write"}
          /\ ~ sh.dead /\ sh.cur = c => t.of \in {0, c}
      BY <1>5, <1>6
    <3> QED BY <1>1, <1>2, <2>1, <2>3, <3>1, <3>2, StreamGrows
  <2> QED BY <2>2, <2>3
<1>8. \A c \in Caller : TurnInv(c)'
  BY DEF ShellInv, TurnInv
<1>9. ASSUME NEW u \in Stream PROVE \A n \in 1 .. Len(wire'[u]) : wire'[u][n].of \in {0, sh.cur}
  <2>1. \A n \in 1 .. Len(wire[u]) : wire[u][n].of \in {0, sh.cur}
    BY DEF ShellInv
  <2>2. CASE u = s
    <3>1. /\ Len(Append(wire[s], t)) = Len(wire[s]) + 1 /\ Len(wire[s]) \in Nat
          /\ \A n \in 1 .. Len(wire[s]) : Append(wire[s], t)[n] = wire[s][n]
          /\ Append(wire[s], t)[Len(wire[s]) + 1] = t
      BY <1>3, AppendFacts
    <3> QED BY <1>2, <1>6, <2>1, <2>2, <3>1
  <2> QED BY <1>2, <2>1, <2>2
<1>10. /\ far'.todo = <<>> \/ \E d \in Caller : far'.todo = <<d>> /\ ex[d].pc \in {"wait", "kill"}
       /\ ~ far'.lives => far'.todo = <<>>
  BY DEF ShellInv
<1>11. /\ sh.cur \in {0, sh.execMu}
       /\ sh.execMu # 0 => (sh.cur = 0 <=> ex[sh.execMu].got = Stream)
  BY DEF ShellInv
<1> QED BY <1>4, <1>7, <1>8, <1>9, <1>10, <1>11 DEF ShellInv

LEMMA OutputStep == ASSUME ShellInv, NEW s \in Stream, Output(s) PROVE ShellInv'
<1> DEFINE c == Head(far.todo)
<1>1. PICK d \in Caller : far.todo = <<d>> /\ ex[d].pc \in {"wait", "kill"}
  BY DEF Output, ShellInv
<1>2. c = d
  BY <1>1
<1>3. far' = far /\ far.marked = {} /\ Write(s, Piece(d)) /\ UNCHANGED <<ex, sh>>
  BY <1>2 DEF Output, Piece
<1>4. said' = [said EXCEPT ![d] = [said[d] EXCEPT ![s] = @ + 1]]
  BY <1>2 DEF Output
<1>5. ShellTypes /\ ~ sh.dead
  BY <1>1, OneAtATime DEF ShellInv
<1>6. Piece(d) \in Token /\ Piece(d).of = d /\ Piece(d) # Mark(d)
      /\ \A e \in Caller : (Piece(d) = Piece(e) <=> d = e) /\ Piece(d) # Mark(e)
  BY DEF Piece, Mark, Token
<1>7. MayMark(d, s)
  BY <1>1, <1>3 DEF MayMark
<1>8. FarTypes'
  BY <1>3, <1>5 DEF FarTypes, ShellTypes
<1>9. said[d] \in [Stream -> Nat] /\ [said[d] EXCEPT ![s] = @ + 1] \in [Stream -> Nat]
  BY <1>5 DEF ShellTypes
<1>10. said' \in [Caller -> [Stream -> Nat]]
  BY <1>4, <1>5, <1>9 DEF ShellTypes
<1>11. \A e \in Caller, u \in Stream :
          said'[e][u] = IF u = s /\ Piece(d) = Piece(e) THEN said[e][u] + 1 ELSE said[e][u]
  BY <1>4, <1>5, <1>6, <1>9 DEF ShellTypes
<1>12. \A e \in Caller, u \in Stream : MayMark(e, u)' => MayMark(e, u)
  BY <1>3 DEF MayMark
<1> QED BY <1>3, <1>5, <1>6, <1>7, <1>8, <1>10, <1>11, <1>12, ShellWrites

LEMMA SentinelStep == ASSUME ShellInv, NEW s \in Stream, Sentinel(s) PROVE ShellInv'
<1>1. PICK d \in Caller : far.todo = <<d>> /\ ex[d].pc \in {"wait", "kill"}
  BY DEF Sentinel, ShellInv
<1>2. Write(s, Mark(d)) /\ UNCHANGED <<ex, sh, said>>
  BY <1>1 DEF Sentinel, Mark
<1>3. ShellTypes /\ ~ sh.dead
  BY <1>1, OneAtATime DEF ShellInv
<1>4. /\ Mark(d) \in Token /\ Mark(d).of = d
      /\ \A e \in Caller : Mark(d) # Piece(e)
      /\ \A e \in Caller : Mark(d) = Mark(e) => d = e
  BY DEF Piece, Mark, Token
<1>7. /\ said' \in [Caller -> [Stream -> Nat]]
      /\ \A e \in Caller, u \in Stream :
            said'[e][u] = IF u = s /\ Mark(d) = Piece(e) THEN said[e][u] + 1 ELSE said[e][u]
  BY <1>2, <1>3, <1>4 DEF ShellTypes
<1>5. CASE s = "out"
  <2>1. far.marked = {} /\ far' = [far EXCEPT !.marked = {"out"}]
    BY <1>5 DEF Sentinel
  <2>2. FarTypes' /\ far'.lives = far.lives /\ far'.todo = far.todo /\ far'.marked = {"out"}
    BY <1>3, <2>1 DEF FarTypes, ShellTypes
  <2>3. MayMark(d, s) /\ \A e \in Caller : ~ MayMark(e, s)'
    BY <1>1, <1>5, <2>1, <2>2 DEF MayMark
  <2>4. \A e \in Caller, u \in Stream : MayMark(e, u)' => MayMark(e, u)
    BY <2>1, <2>2 DEF MayMark
  <2>5. Mark(d).of \in Caller /\ MayMark(Mark(d).of, s)
    BY <1>4, <2>3
  <2> QED BY <1>2, <1>3, <1>4, <1>7, <2>2, <2>3, <2>4, <2>5, ShellWrites
<1>6. CASE s = "err"
  <2>1. far' = [far EXCEPT !.todo = Tail(@), !.marked = {}]
    BY <1>6 DEF Sentinel
  <2>2. Tail(far.todo) = <<>>
    BY <1>1
  <2>3. FarTypes' /\ far'.lives = far.lives /\ far'.todo = <<>>
    <3>1. far' = [far EXCEPT !.todo = <<>>, !.marked = {}]
      BY <2>1, <2>2
    <3>2. <<>> \in Seq(Caller) /\ {} \in SUBSET {"out"}
      OBVIOUS
    <3> QED BY <1>3, <3>1, <3>2 DEF FarTypes, ShellTypes
  <2>4. MayMark(d, s) /\ \A e \in Caller, u \in Stream : ~ MayMark(e, u)'
    <3>1. MayMark(d, s)
      BY <1>1, <1>6 DEF MayMark
    <3>2. \A e : <<e>> # <<>>
      OBVIOUS
    <3> QED BY <2>3, <3>1, <3>2 DEF MayMark
  <2>5. Mark(d).of \in Caller /\ MayMark(Mark(d).of, s)
    BY <1>4, <2>4
  <2> QED BY <1>2, <1>3, <1>4, <1>7, <2>3, <2>4, <2>5, ShellWrites
<1> QED BY <1>5, <1>6 DEF Stream

LEMMA BackgroundStep == ASSUME ShellInv, NEW s \in Stream, BackgroundOutput(s) PROVE ShellInv'
<1>1. ShellTypes /\ ~ sh.dead
  BY DEF ShellInv, BackgroundOutput
<1>2. Piece(0) \in Token /\ Piece(0).of = 0 /\ \A e \in Caller : Piece(0) # Piece(e) /\ Piece(0) # Mark(e)
  BY ShellAssumption DEF Piece, Mark, Token
<1>3. Write(s, Piece(0)) /\ UNCHANGED <<ex, sh, said>> /\ far' = [far EXCEPT !.jobs = @ + 1]
  BY DEF BackgroundOutput, Piece
<1>4. FarTypes' /\ far'.lives = far.lives /\ far'.todo = far.todo /\ far'.marked = far.marked
  <2>1. far.jobs + 1 \in Nat /\ far' = [far EXCEPT !.jobs = far.jobs + 1]
    BY <1>1, <1>3 DEF ShellTypes
  <2> QED BY <1>1, <2>1 DEF FarTypes, ShellTypes
<1>5. \A e \in Caller, u \in Stream : MayMark(e, u)' => MayMark(e, u)
  BY <1>4 DEF MayMark
<1> QED BY <1>1, <1>2, <1>3, <1>4, <1>5, ShellWrites DEF ShellTypes

\* What a pump hands to the call under way: text, what is held back, sentinels.
FedTo(c, s, text, tail, got) ==
    /\ ex' \in [Caller -> ExecCall] /\ \A d \in Caller : d # c => ex'[d] = ex[d]
    /\ ex'[c].pc = ex[c].pc /\ ex'[c].fail = ex[c].fail /\ ex'[c].result = ex[c].result
    /\ ex'[c].got = got /\ ex'[c].text[s] = text /\ ex'[c].tail[s] = tail
    /\ \A u \in Stream : u # s => /\ ex'[c].text[u] = ex[c].text[u]
                                  /\ ex'[c].tail[u] = ex[c].tail[u]

LEMMA FedFacts ==
    ASSUME ex \in [Caller -> ExecCall], NEW c \in Caller, NEW s \in Stream,
           NEW text \in Seq(Token), NEW tail \in Seq(Token), NEW got \in SUBSET Stream,
           ex' = [ex EXCEPT ![c] = [ex[c] EXCEPT !.text = [ex[c].text EXCEPT ![s] = text],
                                                 !.tail = [ex[c].tail EXCEPT ![s] = tail],
                                                 !.got = got]]
    PROVE  FedTo(c, s, text, tail, got)
<1> DEFINE w == [ex[c].text EXCEPT ![s] = text]
           v == [ex[c].tail EXCEPT ![s] = tail]
           r == [ex[c] EXCEPT !.text = w, !.tail = v, !.got = got]
<1>1. ex[c] \in ExecCall /\ ex[c].text \in [Stream -> Seq(Token)] /\ ex[c].tail \in [Stream -> Seq(Token)]
  BY DEF ExecCall
<1>2. /\ w \in [Stream -> Seq(Token)] /\ v \in [Stream -> Seq(Token)]
      /\ w[s] = text /\ v[s] = tail
      /\ \A u \in Stream : u # s => w[u] = ex[c].text[u] /\ v[u] = ex[c].tail[u]
  BY <1>1
<1> HIDE DEF w, v
<1>3. /\ r \in ExecCall /\ r.text = w /\ r.tail = v /\ r.got = got
      /\ r.pc = ex[c].pc /\ r.fail = ex[c].fail /\ r.result = ex[c].result
  BY <1>1, <1>2 DEF ExecCall
<1>4. ex' = [ex EXCEPT ![c] = r]
  BY DEF w, v
<1> HIDE DEF r
<1>5. ex'[c] = r /\ ex' \in [Caller -> ExecCall] /\ \A d \in Caller : d # c => ex'[d] = ex[d]
  BY <1>3, <1>4
<1> QED BY <1>2, <1>3, <1>5, ZenonT(40) DEF FedTo

\* The token that was read changes what the call under way has of the stream.
LEMMA FeedKeeps ==
    ASSUME ShellInv, ~ sh.dead, NEW c \in Caller, sh.cur = c, NEW s \in Stream,
           wire[s] # <<>>, wire' = [wire EXCEPT ![s] = Tail(@)], UNCHANGED <<far, said>>,
           NEW text, NEW tail, NEW got, FedTo(c, s, text, tail, got),
           got = ex[c].got \/ got = ex[c].got \cup {s},
           ex[c].pc = "write" => got = {},
           \/ got # Stream /\ sh' = sh
           \/ got = Stream /\ sh' = [sh EXCEPT !.cur = 0]
              /\ \A u \in Stream : NoneOf(wire'[u], c),
           StreamInv(c, s)'
    PROVE  ShellInv'
<1>1. ShellTypes /\ sh.execMu = c /\ c # 0
  BY ShellAssumption DEF ShellInv
<1>2. /\ wire'[s] = Tail(wire[s]) /\ wire[s] \in Seq(Token)
      /\ \A u \in Stream : u # s => wire'[u] = wire[u]
  BY <1>1 DEF ShellTypes
<1>3. /\ sh' \in [execMu : Caller \cup {0}, cur : Caller \cup {0}, dead : BOOLEAN,
                  backlog : Nat, open : BOOLEAN, eof : SUBSET Stream]
      /\ sh'.execMu = c /\ ~ sh'.dead /\ sh'.cur = IF got = Stream THEN 0 ELSE c
  BY <1>1 DEF ShellTypes
<1>4. ShellTypes'
  <2>1. Tail(wire[s]) \in Seq(Token)
    BY <1>2, TailFacts
  <2>2. wire' \in [Stream -> Seq(Token)]
    BY <1>1, <2>1 DEF ShellTypes
  <2> QED BY <1>1, <1>3, <2>2 DEF ShellTypes, FedTo, ExecCall, Token
<1>5. ASSUME NEW d \in Caller, NEW u \in Stream PROVE StreamInv(d, u)'
  <2>1. StreamInv(d, u)
    BY DEF ShellInv
  <2>2. CASE d = c /\ u = s
    BY <2>2
  <2>3. CASE u # s
    <3>1. /\ ex'[d].text[u] = ex[d].text[u] /\ ex'[d].tail[u] = ex[d].tail[u]
          /\ ex'[d].pc = ex[d].pc /\ wire'[u] = wire[u] /\ said'[d][u] = said[d][u]
      BY <1>2, <2>3 DEF FedTo
    <3>2. MayMark(d, u)' => MayMark(d, u)
      BY DEF MayMark
    <3>3. u \in ex'[d].got <=> u \in ex[d].got
      BY <2>3 DEF FedTo
    <3>4. ~ sh.dead /\ (sh'.cur = d => sh.cur = d)
      BY <1>3, ShellAssumption
    <3> QED BY <2>1, <3>1, <3>2, <3>3, <3>4, StreamStays
  <2>4. CASE d # c /\ u = s
    <3>1. ex'[d] = ex[d] /\ sh'.cur # d
      BY <1>1, <1>3, <2>4, ShellAssumption DEF FedTo
    <3> QED BY <1>1, <1>2, <2>1, <2>4, <3>1, StreamShrinks
  <2> QED BY <2>2, <2>3, <2>4
<1>6. ASSUME NEW d \in Caller PROVE TurnInv(d)'
  <2>1. TurnInv(d)
    BY DEF ShellInv
  <2>2. CASE d # c
    BY <1>1, <1>3, <2>1, <2>2 DEF TurnInv, FedTo
  <2>3. CASE d = c
    <3>1. ex[c].pc \in {"write", "wait", "kill"}
      BY <1>1, <2>1, <2>3 DEF TurnInv
    <3>2. ex[c].got \subseteq Stream
      BY <1>1 DEF ShellTypes, ExecCall
    <3>3. /\ ex'[c].pc = ex[c].pc /\ ex'[c].got = got /\ ex'[c].fail = ex[c].fail
          /\ ex'[c].result = ex[c].result
      BY DEF FedTo
    <3>4. ex[c].pc # "idle" /\ ex[c].pc # "queue" /\ ~ ex[c].fail
          /\ (ex[c].result = "complete" => ex[c].got = Stream)
      BY <2>1, <2>3, <3>1 DEF TurnInv
    <3>5. ex[c].got = Stream => got = Stream
      BY <3>2
    <3> QED BY <1>3, <2>3, <3>1, <3>3, <3>4, <3>5 DEF TurnInv
  <2> QED BY <2>2, <2>3
<1>7. ASSUME NEW u \in Stream PROVE \A n \in 1 .. Len(wire'[u]) : wire'[u][n].of \in {0, sh'.cur}
  <2>1. \A n \in 1 .. Len(wire[u]) : wire[u][n].of \in {0, c}
    BY DEF ShellInv
  <2>2. \A n \in 1 .. Len(wire'[u]) : wire'[u][n].of \in {0, c}
    <3>1. CASE u = s
      <4>1. /\ Len(wire[s]) \in Nat \ {0} /\ Len(Tail(wire[s])) = Len(wire[s]) - 1
            /\ \A n \in 1 .. Len(wire[s]) - 1 : Tail(wire[s])[n] = wire[s][n + 1]
        BY <1>2, TailFacts
      <4> QED BY <1>2, <2>1, <3>1, <4>1
    <3> QED BY <1>2, <2>1, <3>1
  <2> QED BY <1>3, <2>2 DEF NoneOf
<1>8. far'.todo = <<>> \/ \E d \in Caller : far'.todo = <<d>> /\ ex'[d].pc \in {"wait", "kill"}
  <2>1. \A d \in Caller : ex'[d].pc = ex[d].pc
    BY DEF FedTo
  <2> QED BY <2>1 DEF ShellInv
<1>9. sh'.cur \in {0, sh'.execMu} /\ (sh'.cur = 0 <=> ex'[sh'.execMu].got = Stream)
  BY <1>1, <1>3 DEF FedTo
<1>10. ~ far'.lives => far'.todo = <<>>
  BY DEF ShellInv
<1> QED BY <1>3, <1>4, <1>5, <1>6, <1>7, <1>8, <1>9, <1>10 DEF ShellInv

\* With nothing under way, or with the shell gone, nobody is told.
LEMMA FeedNobody ==
    ASSUME ShellInv, NEW s \in Stream, feed(s), sh.dead \/ sh.cur = 0
    PROVE  ShellInv'
<1>1. ShellTypes /\ wire[s] # <<>> /\ wire' = [wire EXCEPT ![s] = Tail(@)]
      /\ UNCHANGED <<far, said, ex>>
  BY DEF ShellInv, feed
<1>2. /\ wire'[s] = Tail(wire[s]) /\ wire[s] \in Seq(Token)
      /\ \A u \in Stream : u # s => wire'[u] = wire[u]
  BY <1>1 DEF ShellTypes
<1>3. /\ sh' \in [execMu : Caller \cup {0}, cur : Caller \cup {0}, dead : BOOLEAN,
                  backlog : Nat, open : BOOLEAN, eof : SUBSET Stream]
      /\ sh'.execMu = sh.execMu /\ sh'.dead = sh.dead /\ sh'.cur = sh.cur
  <2>1. \/ sh' = sh
        \/ sh' = [sh EXCEPT !.backlog = IF @ < Backlog THEN @ + 1 ELSE Backlog]
    BY DEF feed
  <2>2. (IF sh.backlog < Backlog THEN sh.backlog + 1 ELSE Backlog) \in Nat
    BY <1>1, ShellAssumption DEF ShellTypes
  <2> QED BY <1>1, <2>1, <2>2 DEF ShellTypes
<1>4. /\ Tail(wire[s]) \in Seq(Token)
      /\ Len(wire[s]) \in Nat \ {0} /\ Len(Tail(wire[s])) = Len(wire[s]) - 1
      /\ \A n \in 1 .. Len(wire[s]) - 1 : Tail(wire[s])[n] = wire[s][n + 1]
  BY <1>1, <1>2, TailFacts
<1>5. ShellTypes'
  <2>1. wire' \in [Stream -> Seq(Token)]
    BY <1>1, <1>4 DEF ShellTypes
  <2> QED BY <1>1, <1>3, <2>1 DEF ShellTypes, ExecCall, Token
<1>6. ASSUME NEW d \in Caller, NEW u \in Stream PROVE StreamInv(d, u)'
  <2>1. StreamInv(d, u) /\ d # 0
    BY ShellAssumption DEF ShellInv
  <2>2. CASE u = s
    BY <1>1, <1>2, <1>3, <2>1, <2>2, StreamShrinks
  <2>3. CASE u # s
    <3>1. MayMark(d, u)' => MayMark(d, u)
      BY <1>1 DEF MayMark
    <3> QED BY <1>1, <1>2, <1>3, <2>1, <2>3, <3>1, StreamStays
  <2> QED BY <2>2, <2>3
<1>7. \A d \in Caller : TurnInv(d)'
  BY <1>1, <1>3 DEF ShellInv, TurnInv
<1>8. ASSUME ~ sh.dead, NEW u \in Stream
      PROVE  \A n \in 1 .. Len(wire'[u]) : wire'[u][n].of \in {0, sh.cur}
  <2>1. \A n \in 1 .. Len(wire[u]) : wire[u][n].of \in {0, sh.cur}
    BY <1>8 DEF ShellInv
  <2>2. CASE u = s
    <3> SUFFICES ASSUME NEW n \in 1 .. Len(Tail(wire[s]))
                 PROVE  Tail(wire[s])[n].of \in {0, sh.cur}
      BY <1>2, <2>2
    <3>1. n + 1 \in 1 .. Len(wire[s]) /\ Tail(wire[s])[n] = wire[s][n + 1]
      BY <1>4
    <3> QED BY <2>1, <2>2, <3>1
  <2> QED BY <1>2, <2>1, <2>2
<1> QED BY <1>1, <1>3, <1>5, <1>6, <1>7, <1>8 DEF ShellInv

\* The call under way, and its stream.
LEMMA UnderWay ==
    ASSUME ShellInv, ~ sh.dead, NEW c \in Caller, sh.cur = c, NEW s \in Stream, wire[s] # <<>>
    PROVE  /\ wire[s] \in Seq(Token) /\ Head(wire[s]) \in Token /\ Head(wire[s]) = wire[s][1]
           /\ Tail(wire[s]) \in Seq(Token) /\ 1 \in 1 .. Len(wire[s])
           /\ \A n \in 1 .. Len(wire[s]) : wire[s][n].of \in {0, c}
           /\ Pieces(wire[s]) = Counts(Head(wire[s])) + Pieces(Tail(wire[s]))
           /\ Pieces(Tail(wire[s])) \in Nat
           /\ sh.execMu = c /\ ex[c].got # Stream /\ ex[c].got \subseteq Stream
           /\ ex \in [Caller -> ExecCall] /\ said[c][s] \in Nat
           /\ ex[c].text[s] \in Seq(Token) /\ ex[c].tail[s] \in Seq(Token)
           /\ Pieces(ex[c].text[s]) \in Nat /\ Pieces(ex[c].tail[s]) \in Nat
<1>1. ShellTypes /\ c # 0
  BY ShellAssumption DEF ShellInv
<1>2. /\ wire[s] \in Seq(Token) /\ ex \in [Caller -> ExecCall] /\ said[c][s] \in Nat
      /\ ex[c].text[s] \in Seq(Token) /\ ex[c].tail[s] \in Seq(Token) /\ ex[c].got \subseteq Stream
  BY <1>1 DEF ShellTypes, ExecCall
<1>3. /\ Tail(wire[s]) \in Seq(Token) /\ Head(wire[s]) \in Token /\ Head(wire[s]) = wire[s][1]
      /\ Pieces(wire[s]) = Counts(Head(wire[s])) + Pieces(Tail(wire[s]))
      /\ Len(wire[s]) \in Nat \ {0}
  BY <1>2, TailFacts
<1>4. /\ Pieces(Tail(wire[s])) \in Nat
      /\ Pieces(ex[c].text[s]) \in Nat /\ Pieces(ex[c].tail[s]) \in Nat
  BY <1>2, <1>3, PiecesNat
<1>5. /\ sh.execMu = c /\ ex[c].got # Stream
      /\ \A n \in 1 .. Len(wire[s]) : wire[s][n].of \in {0, c}
  BY <1>1 DEF ShellInv
<1> QED BY <1>2, <1>3, <1>4, <1>5

LEMMA OnlyOfConcat ==
    ASSUME NEW p \in Seq(Token), NEW q \in Seq(Token), NEW c, OnlyOf(p, c), OnlyOf(q, c)
    PROVE  OnlyOf(p \o q, c)
<1> SUFFICES ASSUME NEW n \in 1 .. Len(p \o q) PROVE (p \o q)[n] \in {Piece(0), Piece(c)}
  BY DEF OnlyOf
<1>1. Len(p \o q) = Len(p) + Len(q) /\ Len(p) \in Nat /\ Len(q) \in Nat
  OBVIOUS
<1>2. CASE n <= Len(p)
  <2>1. (p \o q)[n] = p[n] /\ n \in 1 .. Len(p)
    BY <1>1, <1>2
  <2> QED BY <2>1 DEF OnlyOf
<1>3. CASE n > Len(p)
  <2>1. (p \o q)[n] = q[n - Len(p)] /\ n - Len(p) \in 1 .. Len(q)
    BY <1>1, <1>3
  <2> QED BY <2>1 DEF OnlyOf
<1> QED BY <1>1, <1>2, <1>3

\* A sentinel: the output before it is the caller's, and there is no more.
LEMMA FeedMarkStep ==
    ASSUME ShellInv, ~ sh.dead, NEW c \in Caller, sh.cur = c, NEW s \in Stream, wire[s] # <<>>,
           wire' = [wire EXCEPT ![s] = Tail(@)], UNCHANGED <<far, said>>,
           Head(wire[s]) = Mark(c), FeedMark(s)
    PROVE  ShellInv'
<1> DEFINE text == ex[c].text[s] \o ex[c].tail[s]
           got == ex[c].got \cup {s}
<1>1. /\ wire[s] \in Seq(Token) /\ Head(wire[s]) = wire[s][1]
      /\ Tail(wire[s]) \in Seq(Token) /\ 1 \in 1 .. Len(wire[s])
      /\ \A n \in 1 .. Len(wire[s]) : wire[s][n].of \in {0, c}
      /\ Pieces(wire[s]) = Counts(Head(wire[s])) + Pieces(Tail(wire[s]))
      /\ sh.execMu = c /\ ex[c].got \subseteq Stream
      /\ ex \in [Caller -> ExecCall] /\ said[c][s] \in Nat
      /\ ex[c].text[s] \in Seq(Token) /\ ex[c].tail[s] \in Seq(Token)
      /\ Pieces(ex[c].text[s]) \in Nat /\ Pieces(ex[c].tail[s]) \in Nat
  BY UnderWay
<1>2. Mark(c).of = c /\ Mark(c).mark /\ Counts(Mark(c)) = 0
  BY DEF Mark, Counts
<1>3. StreamInv(c, s)
  BY DEF ShellInv
<1>4. ~ MayMark(c, s) /\ s \notin ex[c].got /\ ex[c].pc \notin {"idle", "queue", "write"}
  <2>1. Marked(wire[s], c) /\ ~ NoneOf(wire[s], c)
    BY <1>1, <1>2 DEF Marked, NoneOf
  <2> QED BY <1>3, <2>1 DEF StreamInv
<1>5. \A n \in 1 .. Len(Tail(wire[s])) : Tail(wire[s])[n].of = 0
  <2> SUFFICES ASSUME NEW n \in 1 .. Len(Tail(wire[s])) PROVE Tail(wire[s])[n].of = 0
    OBVIOUS
  <2>1. /\ Tail(wire[s])[n] = wire[s][n + 1] /\ n + 1 \in 1 .. Len(wire[s]) /\ 1 < n + 1
    BY <1>1, TailFacts
  <2>2. MarkLast(wire[s], c)
    BY <1>3 DEF StreamInv
  <2>3. wire[s][n + 1].of # c
    BY <1>1, <2>1, <2>2 DEF MarkLast
  <2> QED BY <1>1, <2>1, <2>3
<1>6. NoneOf(Tail(wire[s]), c) /\ Pieces(wire[s]) = 0
  <2>1. NoneOf(Tail(wire[s]), c)
    BY <1>5, ShellAssumption DEF NoneOf
  <2>2. Pieces(Tail(wire[s])) = 0
    BY <1>1, <1>5, NoPieces
  <2> QED BY <1>1, <1>2, <2>1, <2>2
<1>7. text \in Seq(Token) /\ Pieces(text) = said[c][s] /\ OnlyOf(text, c)
  <2>1. Pieces(text) = Pieces(ex[c].text[s]) + Pieces(ex[c].tail[s])
    BY <1>1, PiecesConcat
  <2>2. said[c][s] = Pieces(ex[c].text[s]) + Pieces(ex[c].tail[s]) + Pieces(wire[s])
    BY <1>3, <1>4 DEF StreamInv
  <2>3. OnlyOf(ex[c].text[s], c) /\ OnlyOf(ex[c].tail[s], c)
    BY <1>3 DEF StreamInv
  <2>4. text \in Seq(Token) /\ OnlyOf(text, c)
    BY <1>1, <2>3, OnlyOfConcat
  <2>5. Pieces(text) = said[c][s]
    <3> HIDE DEF text
    <3> QED BY <1>1, <1>6, <2>1, <2>2
  <2> QED BY <2>4, <2>5
<1>8. got \in SUBSET Stream
  BY <1>1
<1>9. FedTo(c, s, text, <<>>, got)
  <2>1. ex[c] \in ExecCall /\ <<>> \in Seq(Token)
    BY <1>1
  <2>2. ex' = [ex EXCEPT ![c] = [ex[c] EXCEPT !.text = [ex[c].text EXCEPT ![s] = text],
                                              !.tail = [ex[c].tail EXCEPT ![s] = <<>>],
                                              !.got = got]]
    BY <1>1, <2>1 DEF FeedMark, Text, ExecCall
  <2> HIDE DEF text, got
  <2> QED BY <1>1, <1>7, <1>8, <2>1, <2>2, FedFacts
<1>10. IF got = Stream THEN sh' = [sh EXCEPT !.cur = 0] ELSE sh' = sh
  BY DEF FeedMark, DoneBoth
<1> HIDE DEF text
<1>11. StreamInv(c, s)'
  <2>1. /\ ex'[c].text[s] = text /\ ex'[c].tail[s] = <<>> /\ ex'[c].got = got
        /\ ex'[c].pc = ex[c].pc /\ s \in got
    BY <1>9 DEF FedTo
  <2>2. wire'[s] = Tail(wire[s])
    BY DEF ShellInv, ShellTypes
  <2>3. OnlyOf(<<>>, c)
    BY DEF OnlyOf
  <2>4. ~ MayMark(c, s)'
    BY <1>4 DEF MayMark
  <2>5. MarkLast(Tail(wire[s]), c)
    BY <1>6 DEF NoneOf, MarkLast
  <2>6. said'[c][s] = said[c][s]
    OBVIOUS
  <2> HIDE DEF got
  <2> QED BY <1>4, <1>6, <1>7, <2>1, <2>2, <2>3, <2>4, <2>5, <2>6, StreamNext
<1>12. got = Stream => \A u \in Stream : NoneOf(wire'[u], c)
  <2> SUFFICES ASSUME got = Stream, NEW u \in Stream PROVE NoneOf(wire'[u], c)
    OBVIOUS
  <2>1. wire \in [Stream -> Seq(Token)]
    BY DEF ShellInv, ShellTypes
  <2>2. CASE u = s
    BY <1>6, <2>1, <2>2
  <2>3. CASE u # s
    <3>1. u \in ex[c].got /\ StreamInv(c, u) /\ wire'[u] = wire[u]
      BY <2>1, <2>3 DEF ShellInv
    <3> QED BY <3>1 DEF StreamInv
  <2> QED BY <2>2, <2>3
<1>13. ex[c].pc # "write"
  BY <1>4
<1> HIDE DEF got
<1>14. got = ex[c].got \/ got = ex[c].got \cup {s}
  BY DEF got
<1>15. \/ got # Stream /\ sh' = sh
       \/ got = Stream /\ sh' = [sh EXCEPT !.cur = 0] /\ \A u \in Stream : NoneOf(wire'[u], c)
  BY <1>10, <1>12
<1> QED BY <1>9, <1>11, <1>13, <1>14, <1>15, FeedKeeps

\* A piece of output: the caller has it, or holds it back.
LEMMA FeedTextKeeps ==
    ASSUME ShellInv, ~ sh.dead, NEW c \in Caller, sh.cur = c, NEW s \in Stream, wire[s] # <<>>,
           wire' = [wire EXCEPT ![s] = Tail(@)], UNCHANGED <<far, said, sh>>,
           Head(wire[s]) \in {Piece(0), Piece(c)},
           NEW text \in Seq(Token), NEW tail \in Seq(Token), FedTo(c, s, text, tail, ex[c].got),
           OnlyOf(text, c), OnlyOf(tail, c),
           Pieces(text) + Pieces(tail)
             = Pieces(ex[c].text[s]) + Pieces(ex[c].tail[s]) + Counts(Head(wire[s])),
           s \in ex[c].got => Pieces(tail) = Pieces(ex[c].tail[s])
    PROVE  ShellInv'
<1>1. /\ wire[s] \in Seq(Token) /\ Head(wire[s]) = wire[s][1]
      /\ Tail(wire[s]) \in Seq(Token) /\ 1 \in 1 .. Len(wire[s])
      /\ Pieces(wire[s]) = Counts(Head(wire[s])) + Pieces(Tail(wire[s]))
      /\ Pieces(Tail(wire[s])) \in Nat
      /\ ex[c].got # Stream /\ ex[c].got \subseteq Stream /\ said[c][s] \in Nat
      /\ Pieces(ex[c].text[s]) \in Nat /\ Pieces(ex[c].tail[s]) \in Nat
  BY UnderWay
<1>2. /\ NoneOf(wire[s], c) => NoneOf(Tail(wire[s]), c)
      /\ Marked(Tail(wire[s]), c) => Marked(wire[s], c)
      /\ MarkLast(wire[s], c) => MarkLast(Tail(wire[s]), c)
  BY <1>1, TailKeeps
<1>3. StreamInv(c, s)
  BY DEF ShellInv
<1>4. NoneOf(wire[s], c) => Counts(Head(wire[s])) = 0
  <2>1. Piece(c).of = c /\ Counts(Piece(0)) = 0
    BY DEF Piece, Counts
  <2>2. NoneOf(wire[s], c) => Head(wire[s]).of # c
    BY <1>1 DEF NoneOf
  <2> QED BY <2>1, <2>2
<1>5. Pieces(text) \in Nat /\ Pieces(tail) \in Nat /\ Counts(Head(wire[s])) \in Nat
  BY PiecesNat DEF Counts
<1>6. /\ ex'[c].text[s] = text /\ ex'[c].tail[s] = tail /\ ex'[c].got = ex[c].got
      /\ ex'[c].pc = ex[c].pc /\ wire'[s] = Tail(wire[s])
  BY DEF FedTo, ShellInv, ShellTypes
<1>7. StreamInv(c, s)'
  <2>1. Marked(wire[s], c) \/ s \in ex[c].got => ~ MayMark(c, s)
    BY <1>3 DEF StreamInv
  <2>2. Marked(Tail(wire[s]), c) \/ s \in ex[c].got => ~ MayMark(c, s)'
    BY <1>2, <2>1 DEF MayMark
  <2>3. MarkLast(Tail(wire[s]), c)
    BY <1>2, <1>3 DEF StreamInv
  <2>4. s \in ex[c].got => NoneOf(Tail(wire[s]), c) /\ Pieces(text) = said[c][s]
    BY <1>1, <1>2, <1>3, <1>4, <1>5 DEF StreamInv
  <2>5. s \notin ex[c].got => said[c][s] = Pieces(text) + Pieces(tail) + Pieces(Tail(wire[s]))
    <3>1. s \notin ex[c].got =>
            said[c][s] = Pieces(ex[c].text[s]) + Pieces(ex[c].tail[s]) + Pieces(wire[s])
      BY <1>3 DEF StreamInv
    <3> QED BY <1>1, <1>5, <3>1
  <2>6. ex[c].pc \in {"idle", "queue", "write"} =>
          /\ said[c][s] = 0 /\ Pieces(text) = 0 /\ Pieces(tail) = 0 /\ NoneOf(Tail(wire[s]), c)
    <3>1. ex[c].pc \in {"idle", "queue", "write"} =>
            /\ said[c][s] = 0 /\ Pieces(ex[c].text[s]) = 0 /\ Pieces(ex[c].tail[s]) = 0
            /\ NoneOf(wire[s], c)
      BY <1>3 DEF StreamInv
    <3>2. ex[c].pc \in {"idle", "queue", "write"} => Pieces(text) + Pieces(tail) = 0
      BY <1>1, <1>4, <3>1
    <3> QED BY <1>2, <1>5, <3>1, <3>2
  <2>7. said'[c][s] = said[c][s] /\ sh' = sh
    OBVIOUS
  <2> QED BY <1>6, <2>2, <2>3, <2>4, <2>5, <2>6, <2>7, StreamNext, ZenonT(40)
<1>8. ex[c].pc = "write" => ex[c].got = {}
  BY DEF ShellInv, TurnInv
<1> QED BY <1>1, <1>7, <1>8, FeedKeeps

\* The same pieces, one more of them, whether or not some leave the tail.
LEMMA TextGrows ==
    ASSUME NEW p \in Seq(Token), NEW q \in Seq(Token), NEW t \in Token, NEW c,
           OnlyOf(p, c), OnlyOf(q, c), t \in {Piece(0), Piece(c)}
    PROVE  /\ p \o <<t>> \in Seq(Token) /\ OnlyOf(p \o <<t>>, c)
           /\ Pieces(p \o <<t>>) = Pieces(p) + Counts(t)
           /\ Append(q, t) \in Seq(Token) /\ OnlyOf(Append(q, t), c)
           /\ Pieces(Append(q, t)) = Pieces(q) + Counts(t)
           /\ p \o <<Head(Append(q, t))>> \in Seq(Token)
           /\ OnlyOf(p \o <<Head(Append(q, t))>>, c)
           /\ Tail(Append(q, t)) \in Seq(Token) /\ OnlyOf(Tail(Append(q, t)), c)
           /\ Pieces(p \o <<Head(Append(q, t))>>) + Pieces(Tail(Append(q, t)))
                = Pieces(p) + Pieces(q) + Counts(t)
<1>1. <<t>> \in Seq(Token) /\ Pieces(<<t>>) = Counts(t) /\ OnlyOf(<<t>>, c)
  <2>1. OnlyOf(<<t>>, c)
    BY DEF OnlyOf
  <2> QED BY <2>1, PiecesOne
<1>2. p \o <<t>> \in Seq(Token) /\ OnlyOf(p \o <<t>>, c)
      /\ Pieces(p \o <<t>>) = Pieces(p) + Counts(t)
  <2>1. Pieces(p \o <<t>>) = Pieces(p) + Pieces(<<t>>)
    BY <1>1, PiecesConcat
  <2>2. OnlyOf(p \o <<t>>, c)
    BY <1>1, OnlyOfConcat
  <2> QED BY <1>1, <2>1, <2>2
<1>3. PICK more \in Seq(Token) : more = Append(q, t) /\ more # <<>>
  BY AppendFacts
<1>4. Pieces(more) = Pieces(q) + Counts(t) /\ OnlyOf(more, c)
  <2>1. more = q \o <<t>>
    BY <1>3
  <2>2. OnlyOf(more, c)
    BY <1>1, <2>1, OnlyOfConcat
  <2> QED BY <1>3, <2>2, AppendFacts
<1>5. /\ Head(more) \in Token /\ Tail(more) \in Seq(Token)
      /\ Pieces(more) = Counts(Head(more)) + Pieces(Tail(more))
      /\ Head(more) = more[1] /\ Len(more) \in Nat \ {0} /\ Len(Tail(more)) = Len(more) - 1
      /\ \A n \in 1 .. Len(more) - 1 : Tail(more)[n] = more[n + 1]
  BY <1>3, TailFacts
<1>6. OnlyOf(Tail(more), c) /\ Head(more) \in {Piece(0), Piece(c)}
  <2>1. ASSUME NEW n \in 1 .. Len(Tail(more)) PROVE Tail(more)[n] \in {Piece(0), Piece(c)}
    <3>1. n + 1 \in 1 .. Len(more) /\ Tail(more)[n] = more[n + 1]
      BY <1>5
    <3> QED BY <1>4, <3>1 DEF OnlyOf
  <2>2. Head(more) \in {Piece(0), Piece(c)}
    BY <1>4, <1>5 DEF OnlyOf
  <2> QED BY <2>1, <2>2 DEF OnlyOf
<1>7. PICK h \in Token : h = Head(more)
  BY <1>5
<1>8. <<h>> \in Seq(Token) /\ Pieces(<<h>>) = Counts(h) /\ OnlyOf(<<h>>, c)
  <2>1. OnlyOf(<<h>>, c)
    BY <1>6, <1>7 DEF OnlyOf
  <2> QED BY <2>1, PiecesOne
<1>9. p \o <<h>> \in Seq(Token) /\ OnlyOf(p \o <<h>>, c) /\ Pieces(p \o <<h>>) = Pieces(p) + Counts(h)
  <2>1. Pieces(p \o <<h>>) = Pieces(p) + Pieces(<<h>>)
    BY <1>8, PiecesConcat
  <2>2. OnlyOf(p \o <<h>>, c)
    BY <1>8, OnlyOfConcat
  <2> QED BY <1>8, <2>1, <2>2
<1>10. Pieces(p \o <<h>>) + Pieces(Tail(more)) = Pieces(p) + Pieces(q) + Counts(t)
  <2>1. /\ Pieces(p) \in Nat /\ Pieces(q) \in Nat /\ Pieces(Tail(more)) \in Nat
        /\ Counts(h) \in Nat /\ Counts(t) \in Nat
    BY <1>5, PiecesNat DEF Counts
  <2>2. Pieces(more) = Counts(h) + Pieces(Tail(more))
    BY <1>5, <1>7
  <2>3. PICK i \in Nat, j \in Nat, k \in Nat, l \in Nat, m \in Nat :
           /\ i = Pieces(p) /\ j = Pieces(q) /\ k = Pieces(Tail(more))
           /\ l = Counts(h) /\ m = Counts(t)
    BY <2>1
  <2>4. j + m = l + k /\ Pieces(p \o <<h>>) = i + l
    BY <1>4, <1>9, <2>2, <2>3
  <2>5. (i + l) + k = i + j + m
    BY <2>4
  <2> QED BY <2>3, <2>4, <2>5
<1> QED BY <1>2, <1>3, <1>4, <1>5, <1>6, <1>7, <1>9, <1>10

\* What is put back as it was.
LEMMA PutBack ==
    ASSUME NEW r \in ExecCall, NEW s \in Stream,
           NEW x \in [Stream -> Seq(Token)], NEW y \in [Stream -> Seq(Token)]
    PROVE  /\ [r.text EXCEPT ![s] = r.text[s]] = r.text
           /\ [r.tail EXCEPT ![s] = r.tail[s]] = r.tail
           /\ [r EXCEPT !.text = x, !.tail = r.tail, !.got = r.got] = [r EXCEPT !.text = x]
           /\ [r EXCEPT !.text = r.text, !.tail = y, !.got = r.got] = [r EXCEPT !.tail = y]
           /\ [r EXCEPT !.text = x, !.tail = y, !.got = r.got] = [r EXCEPT !.text = x, !.tail = y]
BY DEF ExecCall

LEMMA FeedTextStep ==
    ASSUME ShellInv, ~ sh.dead, NEW c \in Caller, sh.cur = c, NEW s \in Stream, wire[s] # <<>>,
           wire' = [wire EXCEPT ![s] = Tail(@)], UNCHANGED <<far, said, sh>>,
           Head(wire[s]) # Mark(c), FeedText(s, Head(wire[s]))
    PROVE  ShellInv'
<1> DEFINE t == Head(wire[s])
           text == ex[c].text[s]
           tail == ex[c].tail[s]
           more == Append(tail, t)
           Gives(x, y) == ex' = [ex EXCEPT ![c] = [ex[c] EXCEPT
                                              !.text = [ex[c].text EXCEPT ![s] = x],
                                              !.tail = [ex[c].tail EXCEPT ![s] = y],
                                              !.got = ex[c].got]]
<1>1. /\ wire[s] \in Seq(Token) /\ t \in Token /\ t = wire[s][1] /\ 1 \in 1 .. Len(wire[s])
      /\ \A n \in 1 .. Len(wire[s]) : wire[s][n].of \in {0, c}
      /\ ex[c].got \in SUBSET Stream /\ ex \in [Caller -> ExecCall]
      /\ text \in Seq(Token) /\ tail \in Seq(Token)
      /\ Pieces(text) \in Nat /\ Pieces(tail) \in Nat
  BY UnderWay
<1>2. t \in {Piece(0), Piece(c)}
  <2>1. t.of \in {0, c} /\ (t.mark => t.of # 0)
    BY <1>1, ShellAssumption DEF Token
  <2> QED BY <1>1, <2>1, ShellAssumption DEF Token, Piece, Mark
<1>3. OnlyOf(text, c) /\ OnlyOf(tail, c)
  BY DEF ShellInv, StreamInv
<1>4. ex[c] \in ExecCall /\ ex[c].text \in [Stream -> Seq(Token)]
      /\ ex[c].tail \in [Stream -> Seq(Token)] /\ Counts(t) \in Nat
  BY <1>1 DEF Counts, ExecCall
<1>5. /\ text \o <<t>> \in Seq(Token) /\ OnlyOf(text \o <<t>>, c)
      /\ Pieces(text \o <<t>>) = Pieces(text) + Counts(t)
      /\ more \in Seq(Token) /\ OnlyOf(more, c) /\ Pieces(more) = Pieces(tail) + Counts(t)
      /\ text \o <<Head(more)>> \in Seq(Token) /\ OnlyOf(text \o <<Head(more)>>, c)
      /\ Tail(more) \in Seq(Token) /\ OnlyOf(Tail(more), c)
      /\ Pieces(text \o <<Head(more)>>) + Pieces(Tail(more)) = Pieces(text) + Pieces(tail) + Counts(t)
  <2> HIDE DEF t, text, tail
  <2>1. text \in Seq(Token) /\ tail \in Seq(Token) /\ t \in Token
    BY <1>1
  <2>2. t \in {Piece(0), Piece(c)} /\ OnlyOf(text, c) /\ OnlyOf(tail, c)
    BY <1>2, <1>3
  <2> QED BY <2>1, <2>2, TextGrows, ZenonT(40)
<1>6. \/ s \in ex[c].got /\ Gives(text \o <<t>>, tail)
      \/ s \notin ex[c].got /\ Gives(text \o <<Head(more)>>, Tail(more))
      \/ s \notin ex[c].got /\ Gives(text, more)
  <2>1. /\ [ex[c].text EXCEPT ![s] = text \o <<t>>] \in [Stream -> Seq(Token)]
        /\ [ex[c].text EXCEPT ![s] = text \o <<Head(more)>>] \in [Stream -> Seq(Token)]
        /\ [ex[c].tail EXCEPT ![s] = Tail(more)] \in [Stream -> Seq(Token)]
        /\ [ex[c].tail EXCEPT ![s] = more] \in [Stream -> Seq(Token)]
    BY <1>4, <1>5
  <2>2. CASE s \in ex[c].got
    <3>1. ex' = [ex EXCEPT ![c] = [ex[c] EXCEPT !.text = [ex[c].text EXCEPT ![s] = text \o <<t>>]]]
      BY <2>2 DEF FeedText, Text
    <3>2. /\ [ex[c] EXCEPT !.text = [ex[c].text EXCEPT ![s] = text \o <<t>>],
                           !.tail = ex[c].tail, !.got = ex[c].got]
               = [ex[c] EXCEPT !.text = [ex[c].text EXCEPT ![s] = text \o <<t>>]]
          /\ [ex[c].tail EXCEPT ![s] = tail] = ex[c].tail
      <4> PICK x \in [Stream -> Seq(Token)] : x = [ex[c].text EXCEPT ![s] = text \o <<t>>]
        BY <2>1
      <4>1. [ex[c] EXCEPT !.text = x, !.tail = ex[c].tail, !.got = ex[c].got]
              = [ex[c] EXCEPT !.text = x]
        BY <1>4, PutBack
      <4>2. [ex[c].tail EXCEPT ![s] = ex[c].tail[s]] = ex[c].tail
        BY <1>4, PutBack
      <4> QED BY <4>1, <4>2
    <3>3. Gives(text \o <<t>>, tail)
      <4> HIDE DEF text, tail, t
      <4> QED BY <3>1, <3>2
    <3> QED BY <2>2, <3>3
  <2>3. CASE s \notin ex[c].got /\ Len(more) > Keep
    <3>1. ex' = [ex EXCEPT ![c] = [ex[c] EXCEPT
                          !.text = [ex[c].text EXCEPT ![s] = text \o <<Head(more)>>],
                          !.tail = [ex[c].tail EXCEPT ![s] = Tail(more)]]]
      BY <1>1, <1>4, <2>3 DEF FeedText, Text, ExecCall
    <3>2. [ex[c] EXCEPT !.text = [ex[c].text EXCEPT ![s] = text \o <<Head(more)>>],
                        !.tail = [ex[c].tail EXCEPT ![s] = Tail(more)], !.got = ex[c].got]
            = [ex[c] EXCEPT !.text = [ex[c].text EXCEPT ![s] = text \o <<Head(more)>>],
                            !.tail = [ex[c].tail EXCEPT ![s] = Tail(more)]]
      <4> PICK x \in [Stream -> Seq(Token)], y \in [Stream -> Seq(Token)] :
             /\ x = [ex[c].text EXCEPT ![s] = text \o <<Head(more)>>]
             /\ y = [ex[c].tail EXCEPT ![s] = Tail(more)]
        BY <2>1
      <4>1. [ex[c] EXCEPT !.text = x, !.tail = y, !.got = ex[c].got]
              = [ex[c] EXCEPT !.text = x, !.tail = y]
        BY <1>4, PutBack
      <4> QED BY <4>1
    <3>3. Gives(text \o <<Head(more)>>, Tail(more))
      <4> HIDE DEF text, tail, t, more
      <4> QED BY <3>1, <3>2
    <3> QED BY <2>3, <3>3
  <2>4. CASE s \notin ex[c].got /\ ~ (Len(more) > Keep)
    <3>1. ex' = [ex EXCEPT ![c] = [ex[c] EXCEPT !.tail = [ex[c].tail EXCEPT ![s] = more]]]
      BY <2>4 DEF FeedText
    <3>2. /\ [ex[c] EXCEPT !.text = ex[c].text,
                           !.tail = [ex[c].tail EXCEPT ![s] = more], !.got = ex[c].got]
               = [ex[c] EXCEPT !.tail = [ex[c].tail EXCEPT ![s] = more]]
          /\ [ex[c].text EXCEPT ![s] = text] = ex[c].text
      <4> PICK y \in [Stream -> Seq(Token)] : y = [ex[c].tail EXCEPT ![s] = more]
        BY <2>1
      <4>1. [ex[c] EXCEPT !.text = ex[c].text, !.tail = y, !.got = ex[c].got]
              = [ex[c] EXCEPT !.tail = y]
        BY <1>4, PutBack
      <4>2. [ex[c].text EXCEPT ![s] = ex[c].text[s]] = ex[c].text
        BY <1>4, PutBack
      <4> QED BY <4>1, <4>2
    <3>3. Gives(text, more)
      <4> HIDE DEF text, tail, t, more
      <4> QED BY <3>1, <3>2
    <3> QED BY <2>4, <3>3
  <2> QED BY <2>2, <2>3, <2>4
<1>7. Pieces(text \o <<t>>) + Pieces(tail) = Pieces(text) + Pieces(tail) + Counts(t)
      /\ Pieces(text) + Pieces(more) = Pieces(text) + Pieces(tail) + Counts(t)
  <2> HIDE DEF text, tail, more, t
  <2> QED BY <1>1, <1>4, <1>5
<1>8. CASE s \in ex[c].got /\ Gives(text \o <<t>>, tail)
  <2>1. FedTo(c, s, text \o <<t>>, tail, ex[c].got)
    BY <1>1, <1>5, <1>8, FedFacts
  <2> QED BY <1>1, <1>2, <1>3, <1>5, <1>7, <2>1, FeedTextKeeps
<1>9. CASE s \notin ex[c].got /\ Gives(text \o <<Head(more)>>, Tail(more))
  <2>1. FedTo(c, s, text \o <<Head(more)>>, Tail(more), ex[c].got)
    BY <1>1, <1>5, <1>9, FedFacts
  <2> QED BY <1>1, <1>2, <1>5, <1>9, <2>1, FeedTextKeeps
<1>10. CASE s \notin ex[c].got /\ Gives(text, more)
  <2>1. FedTo(c, s, text, more, ex[c].got)
    BY <1>1, <1>5, <1>10, FedFacts
  <2> QED BY <1>1, <1>2, <1>3, <1>5, <1>7, <1>10, <2>1, FeedTextKeeps
<1> QED BY <1>6, <1>8, <1>9, <1>10

LEMMA FeedStep == ASSUME ShellInv, NEW s \in Stream, feed(s) PROVE ShellInv'
<1>1. CASE sh.dead \/ sh.cur = 0
  BY <1>1, FeedNobody
<1>2. CASE ~ sh.dead /\ sh.cur # 0
  <2>1. sh.cur \in Caller /\ wire[s] \in Seq(Token)
    BY <1>2 DEF ShellInv, ShellTypes
  <2>2. /\ wire[s] # <<>> /\ wire' = [wire EXCEPT ![s] = Tail(@)] /\ UNCHANGED <<far, said>>
    BY DEF feed
  <2>3. CASE Head(wire[s]) = Mark(sh.cur)
    <3>1. FeedMark(s)
      BY <1>2, <2>3 DEF feed, Mark
    <3> QED BY <1>2, <2>1, <2>2, <2>3, <3>1, FeedMarkStep
  <2>4. CASE Head(wire[s]) # Mark(sh.cur)
    <3>1. Head(wire[s]) \in Token
      BY <2>1, <2>2
    <3>2. ~ (Head(wire[s]).mark /\ Head(wire[s]).of = sh.cur)
      BY <2>4, <3>1 DEF Token, Mark
    <3>3. FeedText(s, Head(wire[s])) /\ UNCHANGED sh
      BY <1>2, <3>2 DEF feed
    <3> QED BY <1>2, <2>1, <2>2, <2>4, <3>3, FeedTextStep
  <2> QED BY <2>3, <2>4
<1> QED BY <1>1, <1>2

HubTypes == sh \in [execMu : Caller \cup {0}, cur : Caller \cup {0}, dead : BOOLEAN,
                    backlog : Nat, open : BOOLEAN, eof : SUBSET Stream]

\* A step that reads and writes no token.
LEMMA StreamsStay ==
    ASSUME ShellInv, UNCHANGED <<wire, said>>, ex' \in [Caller -> ExecCall], FarTypes', HubTypes',
           \A d \in Caller : /\ ex'[d].text = ex[d].text /\ ex'[d].tail = ex[d].tail
                             /\ ex'[d].got = ex[d].got
                             /\ ex'[d].pc \in {"idle", "queue", "write"}
                                  => ex[d].pc \in {"idle", "queue", "write"},
           far' = far \/ far'.todo = <<>>,
           sh'.dead \/ (sh'.dead = sh.dead /\ sh'.cur = sh.cur)
    PROVE  ShellTypes' /\ \A d \in Caller, u \in Stream : StreamInv(d, u)'
<1>1. ShellTypes /\ \A d \in Caller, u \in Stream : StreamInv(d, u)
  BY DEF ShellInv
<1>2. ShellTypes'
  BY <1>1 DEF ShellTypes, FarTypes, HubTypes, ExecCall, Token
<1>3. \A d \in Caller, u \in Stream : MayMark(d, u)' => MayMark(d, u)
  BY DEF MayMark
<1>4. ASSUME NEW d \in Caller, NEW u \in Stream PROVE StreamInv(d, u)'
  BY <1>1, <1>3, StreamStays
<1> QED BY <1>2, <1>4

\* A call that goes on: its new place and result.
Goes(c, pc, result) ==
    /\ ex' \in [Caller -> ExecCall] /\ \A d \in Caller : d # c => ex'[d] = ex[d]
    /\ ex'[c].pc = pc /\ ex'[c].result = result /\ ex'[c].fail = ex[c].fail
    /\ ex'[c].got = ex[c].got /\ ex'[c].text = ex[c].text /\ ex'[c].tail = ex[c].tail

LEMMA GoesFacts ==
    ASSUME ex \in [Caller -> ExecCall], NEW c \in Caller,
           NEW pc \in {"idle", "queue", "write", "wait", "kill", "over"},
           NEW result \in {"none", "complete", "dead", "timeout", "ctx"},
           \/ ex' = [ex EXCEPT ![c].pc = pc, ![c].result = result]
           \/ ex' = [ex EXCEPT ![c].pc = pc] /\ result = ex[c].result
    PROVE  Goes(c, pc, result)
<1>1. ex[c] \in ExecCall
  OBVIOUS
<1>2. PICK r : r = ex'[c] /\ ex' = [ex EXCEPT ![c] = r]
               /\ (r = [ex[c] EXCEPT !.pc = pc, !.result = result]
                   \/ (r = [ex[c] EXCEPT !.pc = pc] /\ result = ex[c].result))
  <2>1. CASE ex' = [ex EXCEPT ![c].pc = pc, ![c].result = result]
    <3>1. ex' = [ex EXCEPT ![c] = [ex[c] EXCEPT !.pc = pc, !.result = result]]
      BY <2>1
    <3> QED BY <3>1
  <2>2. CASE ex' = [ex EXCEPT ![c].pc = pc] /\ result = ex[c].result
    <3>1. ex' = [ex EXCEPT ![c] = [ex[c] EXCEPT !.pc = pc]]
      BY <2>2
    <3> QED BY <2>2, <3>1
  <2> QED BY <2>1, <2>2
<1>3. /\ r \in ExecCall /\ r.pc = pc /\ r.result = result /\ r.fail = ex[c].fail
      /\ r.got = ex[c].got /\ r.text = ex[c].text /\ r.tail = ex[c].tail
  BY <1>1, <1>2, ZenonT(40) DEF ExecCall
<1>4. ex' \in [Caller -> ExecCall] /\ \A d \in Caller : d # c => ex'[d] = ex[d]
  BY <1>2, <1>3
<1> QED BY <1>2, <1>3, <1>4 DEF Goes

LEMMA StreamDeadStep == ASSUME ShellInv, NEW s \in Stream, streamDead(s) PROVE ShellInv'
<1>1. ShellTypes /\ far.todo = <<>> /\ ~ far.lives /\ UNCHANGED <<far, wire, said>>
  BY DEF ShellInv, streamDead
<1>2. HubTypes' /\ sh'.dead /\ sh'.execMu = sh.execMu
  BY <1>1 DEF streamDead, HubTypes, ShellTypes
<1>3. /\ ex' \in [Caller -> ExecCall]
      /\ \A d \in Caller : /\ ex'[d].text = ex[d].text /\ ex'[d].tail = ex[d].tail
                           /\ ex'[d].got = ex[d].got /\ ex'[d].pc = ex[d].pc
                           /\ ex'[d].result = ex[d].result
  <2>1. CASE sh.cur = 0
    BY <1>1, <2>1 DEF streamDead, ShellTypes
  <2>2. CASE sh.cur # 0
    <3>1. sh.cur \in Caller /\ ex[sh.cur] \in ExecCall /\ ex \in [Caller -> ExecCall]
      BY <1>1, <2>2 DEF ShellTypes
    <3>2. PICK r \in ExecCall : r = [ex[sh.cur] EXCEPT !.fail = TRUE]
      BY <3>1 DEF ExecCall
    <3>3. ex' = [ex EXCEPT ![sh.cur] = r]
      BY <2>2, <3>2 DEF streamDead
    <3>4. /\ r.text = ex[sh.cur].text /\ r.tail = ex[sh.cur].tail /\ r.got = ex[sh.cur].got
          /\ r.pc = ex[sh.cur].pc /\ r.result = ex[sh.cur].result
      BY <3>1, <3>2 DEF ExecCall
    <3> QED BY <3>1, <3>3, <3>4
  <2> QED BY <2>1, <2>2
<1>4. ShellTypes' /\ \A d \in Caller, u \in Stream : StreamInv(d, u)'
  <2>1. FarTypes'
    BY <1>1 DEF FarTypes, ShellTypes
  <2> QED BY <1>1, <1>2, <1>3, <2>1, StreamsStay
<1>5. \A d \in Caller : TurnInv(d)'
  BY <1>2, <1>3 DEF ShellInv, TurnInv
<1> QED BY <1>1, <1>2, <1>4, <1>5 DEF ShellInv

\* The shell is gone, by itself or by a kill from outside.
LEMMA GoneStep == ASSUME ShellInv, Dies \/ KillOutside PROVE ShellInv'
<1>1. ShellTypes /\ UNCHANGED <<wire, ex, said>>
      /\ far' = [far EXCEPT !.lives = FALSE, !.todo = <<>>]
      /\ (sh' = sh \/ sh' = [sh EXCEPT !.dead = TRUE, !.open = FALSE])
  BY DEF ShellInv, Dies, KillOutside
<1>2. FarTypes' /\ far'.todo = <<>> /\ ~ far'.lives
  <2>1. <<>> \in Seq(Caller)
    OBVIOUS
  <2> QED BY <1>1, <2>1 DEF FarTypes, ShellTypes
<1>3. HubTypes' /\ sh'.execMu = sh.execMu /\ sh'.cur = sh.cur /\ (sh'.dead \/ sh' = sh)
      /\ (sh.dead => sh'.dead)
  BY <1>1 DEF HubTypes, ShellTypes
<1>4. ShellTypes' /\ \A d \in Caller, u \in Stream : StreamInv(d, u)'
  <2>1. ex' \in [Caller -> ExecCall]
    BY <1>1 DEF ShellTypes
  <2> QED BY <1>1, <1>2, <1>3, <2>1, StreamsStay
<1>5. \A d \in Caller : TurnInv(d)'
  BY <1>1, <1>3 DEF ShellInv, TurnInv
<1>6. ~ sh'.dead =>
        /\ sh'.cur \in {0, sh'.execMu}
        /\ sh'.execMu # 0 => (sh'.cur = 0 <=> ex'[sh'.execMu].got = Stream)
        /\ \A u \in Stream : \A n \in 1 .. Len(wire'[u]) : wire'[u][n].of \in {0, sh'.cur}
  BY <1>1, <1>3 DEF ShellInv
<1> QED BY <1>2, <1>4, <1>5, <1>6 DEF ShellInv

\* A call moves on and the streams do not.
LEMMA CallStep ==
    ASSUME ShellInv, NEW c \in Caller, NEW pc, NEW result, Goes(c, pc, result),
           UNCHANGED <<wire, said>>, FarTypes', HubTypes',
           pc \in {"idle", "queue", "write"} => ex[c].pc \in {"idle", "queue"},
           far' = far \/ (far'.todo = <<>> /\ ~ far'.lives),
           sh'.dead => ~ far'.lives, sh.dead => sh'.dead,
           sh'.dead \/ (sh'.dead = sh.dead /\ sh'.cur = sh.cur),
           \/ sh'.execMu = sh.execMu
              /\ (pc \in {"write", "wait", "kill"} <=> ex[c].pc \in {"write", "wait", "kill"})
           \/ sh'.execMu = 0 /\ sh.execMu \in {0, c} /\ pc = "over" /\ (~ sh'.dead => sh.cur = 0),
           result = "complete" => ex[c].got = Stream,
           far'.todo = <<c>> => pc \in {"wait", "kill"}
    PROVE  ShellInv'
<1>1. ShellTypes /\ c # 0 /\ TurnInv(c)
  BY ShellAssumption DEF ShellInv
<1>2. ShellTypes' /\ \A d \in Caller, u \in Stream : StreamInv(d, u)'
  BY StreamsStay DEF Goes
<1>3. ASSUME NEW d \in Caller PROVE TurnInv(d)'
  <2>1. TurnInv(d) /\ d # 0
    BY ShellAssumption DEF ShellInv
  <2>2. CASE d # c
    BY <1>1, <2>1, <2>2 DEF Goes, TurnInv
  <2>3. CASE d = c
    <3>1. (pc \in {"write", "wait", "kill"} <=> sh'.execMu = c)
      BY <1>1, <2>1, <2>3 DEF TurnInv
    <3>2. pc \in {"idle", "queue", "write"} => ex[c].got = {}
      BY <1>1 DEF TurnInv
    <3>3. ex[c].fail => sh'.dead
      BY <1>1 DEF TurnInv
    <3> QED BY <2>3, <3>1, <3>2, <3>3 DEF Goes, TurnInv
  <2> QED BY <2>2, <2>3
<1>4. far'.todo = <<>> \/ \E d \in Caller : far'.todo = <<d>> /\ ex'[d].pc \in {"wait", "kill"}
  <2>1. far'.todo = <<>> \/ far'.todo = far.todo
    OBVIOUS
  <2>2. CASE far'.todo = far.todo /\ far.todo # <<>>
    <3>1. PICK d \in Caller : far.todo = <<d>> /\ ex[d].pc \in {"wait", "kill"}
      BY <2>2 DEF ShellInv
    <3>2. ex'[d].pc \in {"wait", "kill"}
      BY <2>2, <3>1 DEF Goes
    <3> QED BY <2>2, <3>1, <3>2
  <2> QED BY <2>1, <2>2
<1>5. ~ far'.lives => far'.todo = <<>>
  BY DEF ShellInv
<1>6. \A d \in Caller : ex'[d].got = ex[d].got
  BY DEF Goes
<1>7. ~ sh'.dead => ~ sh.dead /\ sh'.cur = sh.cur /\ sh'.cur \in {0, sh'.execMu}
  BY DEF ShellInv
<1>8. ~ sh'.dead /\ sh'.execMu # 0 => (sh'.cur = 0 <=> ex'[sh'.execMu].got = Stream)
  <2>1. ~ sh'.dead /\ sh'.execMu # 0 => sh'.execMu = sh.execMu /\ sh.execMu \in Caller
    BY <1>1 DEF ShellTypes
  <2> QED BY <1>6, <1>7, <2>1 DEF ShellInv
<1>9. ~ sh'.dead => \A u \in Stream : \A n \in 1 .. Len(wire'[u]) : wire'[u][n].of \in {0, sh'.cur}
  BY <1>7 DEF ShellInv
<1> QED BY <1>2, <1>3, <1>4, <1>5, <1>7, <1>8, <1>9 DEF ShellInv

LEMMA SameTypes ==
    ASSUME ShellInv
    PROVE  /\ ex \in [Caller -> ExecCall]
           /\ far' = far => FarTypes'
           /\ sh' = sh => HubTypes'
BY DEF ShellInv, ShellTypes, FarTypes, HubTypes

LEMMA AsksStep == ASSUME ShellInv, NEW c \in Caller, Asks(c) PROVE ShellInv'
<1>1. /\ ex[c].pc = "idle" /\ ex' = [ex EXCEPT ![c].pc = "queue"]
      /\ UNCHANGED <<far, wire, sh, said>>
  BY DEF Asks
<1>2. ex[c] \in ExecCall /\ FarTypes' /\ HubTypes'
  BY <1>1, SameTypes
<1>3. Goes(c, "queue", ex[c].result)
  BY <1>1, <1>2, SameTypes, GoesFacts DEF ExecCall
<1>4. /\ ex[c].result = "complete" => ex[c].got = Stream
      /\ far.todo # <<c>> /\ (sh.dead => ~ far.lives)
  BY <1>1 DEF ShellInv, TurnInv
<1> QED BY <1>1, <1>2, <1>3, <1>4, CallStep

LEMMA GivesUpStep ==
    ASSUME ShellInv, NEW c \in Caller, NEW why \in {"timeout", "ctx"}, GivesUp(c, why)
    PROVE  ShellInv'
<1>1. /\ ex[c].pc = "wait" /\ ex' = [ex EXCEPT ![c].pc = "kill", ![c].result = why]
      /\ UNCHANGED <<far, wire, sh, said>>
  BY DEF GivesUp
<1>2. FarTypes' /\ HubTypes' /\ Goes(c, "kill", why)
  BY <1>1, SameTypes, GoesFacts
<1>3. sh.dead => ~ far.lives
  BY DEF ShellInv
<1> QED BY <1>1, <1>2, <1>3, CallStep

LEMMA KillStep == ASSUME ShellInv, NEW c \in Caller, Kill(c) PROVE ShellInv'
<1>1. /\ ex[c].pc = "kill" /\ ex' = [ex EXCEPT ![c].pc = "over"]
      /\ sh' = [sh EXCEPT !.execMu = 0, !.dead = TRUE, !.open = FALSE]
      /\ far' = [far EXCEPT !.lives = FALSE, !.todo = <<>>]
      /\ UNCHANGED <<wire, said>> /\ ShellTypes
  BY DEF Kill, ShellInv
<1>2. ex[c] \in ExecCall /\ Goes(c, "over", ex[c].result)
  <2>1. ex[c] \in ExecCall
    BY SameTypes
  <2> QED BY <1>1, <2>1, SameTypes, GoesFacts DEF ExecCall
<1>3. FarTypes' /\ far'.todo = <<>> /\ ~ far'.lives
  <2>1. <<>> \in Seq(Caller)
    OBVIOUS
  <2> QED BY <1>1, <2>1 DEF FarTypes, ShellTypes
<1>4. HubTypes' /\ sh'.execMu = 0 /\ sh'.dead
  BY <1>1 DEF HubTypes, ShellTypes
<1>5. sh.execMu = c /\ (ex[c].result = "complete" => ex[c].got = Stream)
  BY <1>1 DEF ShellInv, TurnInv
<1>6. far'.todo # <<c>>
  <2>1. <<>> # <<c>>
    OBVIOUS
  <2> QED BY <1>3, <2>1
<1> QED BY <1>1, <1>2, <1>3, <1>4, <1>5, <1>6, CallStep

LEMMA DoneStep == ASSUME ShellInv, NEW c \in Caller, Done(c) PROVE ShellInv'
<1> DEFINE result == IF ex[c].fail THEN "dead" ELSE "complete"
<1>1. /\ ex[c].pc = "wait" /\ (ex[c].got = Stream \/ ex[c].fail)
      /\ ex' = [ex EXCEPT ![c].pc = "over", ![c].result = result]
      /\ sh' = [sh EXCEPT !.execMu = 0] /\ UNCHANGED <<far, wire, said>> /\ ShellTypes
  BY DEF Done, DoneBoth, Returns, ShellInv
<1>2. Goes(c, "over", result) /\ FarTypes'
  <2>1. result \in {"none", "complete", "dead", "timeout", "ctx"}
    OBVIOUS
  <2> HIDE DEF result
  <2> QED BY <1>1, <2>1, SameTypes, GoesFacts
<1>3. HubTypes' /\ sh'.execMu = 0 /\ sh'.dead = sh.dead /\ sh'.cur = sh.cur
  BY <1>1 DEF HubTypes, ShellTypes
<1>4. sh.execMu = c /\ (ex[c].fail => sh.dead) /\ (sh.dead => ~ far.lives)
  BY <1>1 DEF ShellInv, TurnInv
<1>5. far.todo # <<c>>
  <2> SUFFICES ASSUME far.todo = <<c>> PROVE FALSE
    OBVIOUS
  <2>1. ~ sh.dead /\ sh.cur = c
    BY OneAtATime
  <2>2. ex[c].got = Stream /\ c # 0
    BY <1>1, <1>4, <2>1, ShellAssumption
  <2> QED BY <1>4, <2>1, <2>2 DEF ShellInv
<1>6. ~ sh.dead => sh.cur = 0
  <2>1. ~ sh.dead => ex[c].got = Stream /\ c # 0
    BY <1>1, <1>4, ShellAssumption
  <2> QED BY <1>4, <2>1 DEF ShellInv
<1>7. result = "complete" => ex[c].got = Stream
  BY <1>1
<1> HIDE DEF result
<1> QED BY <1>1, <1>2, <1>3, <1>4, <1>5, <1>6, <1>7, CallStep

\* A turn begins with what background jobs have written since the last.
LEMMA StartStep == ASSUME ShellInv, NEW c \in Caller, Start(c) PROVE ShellInv'
<1>1. ShellTypes /\ c # 0 /\ ex[c].pc = "queue" /\ sh.execMu = 0 /\ UNCHANGED <<far, wire, said>>
      /\ ex[c] \in ExecCall /\ ex \in [Caller -> ExecCall]
  BY SameTypes, ShellAssumption DEF Start, ShellInv
<1>2. FarTypes'
  BY <1>1, SameTypes
<1>3. CASE sh.dead
  <2>1. ex' = [ex EXCEPT ![c].pc = "over", ![c].result = "dead"] /\ UNCHANGED sh
    BY <1>3 DEF Start, Returns
  <2>2. Goes(c, "over", "dead") /\ HubTypes'
    BY <2>1, SameTypes, GoesFacts
  <2>3. ~ far.lives /\ far.todo # <<c>>
    <3>1. ~ far.lives /\ far.todo = <<>>
      BY <1>3 DEF ShellInv
    <3>2. <<>> # <<c>>
      OBVIOUS
    <3> QED BY <3>1, <3>2
  <2> QED BY <1>1, <1>2, <1>3, <2>1, <2>2, <2>3, CallStep
<1>4. CASE ~ sh.dead
  <2> DEFINE old == [n \in 1 .. sh.backlog |-> [of |-> 0, mark |-> FALSE]]
  <2>1. old \in Seq(Token) /\ OnlyOf(old, c) /\ Pieces(old) = 0
    <3>1. sh.backlog \in Nat
      BY <1>1 DEF ShellTypes
    <3>2. [of |-> 0, mark |-> FALSE] \in Token
      BY DEF Token
    <3>3. old \in Seq(Token) /\ Len(old) = sh.backlog
      <4>1. old \in [1 .. sh.backlog -> Token]
        BY <3>2
      <4> HIDE DEF old
      <4> QED BY <3>1, <4>1
    <3>4. \A n \in 1 .. Len(old) : old[n] = Piece(0) /\ old[n].of = 0
      BY <3>1, <3>3 DEF Piece
    <3>5. OnlyOf(old, c)
      BY <3>4 DEF OnlyOf
    <3> HIDE DEF old
    <3> QED BY <3>3, <3>4, <3>5, NoPieces
  <2>2. ex' = [ex EXCEPT ![c].pc = "write", ![c].text.out = old]
        /\ sh' = [sh EXCEPT !.execMu = c, !.cur = c, !.backlog = 0]
    BY <1>4 DEF Start
  <2> HIDE DEF old
  <2>3. PICK x \in [Stream -> Seq(Token)] : x = [ex[c].text EXCEPT !.out = old]
    BY <1>1, <2>1 DEF ExecCall
  <2>4. x["out"] = old /\ x["err"] = ex[c].text["err"]
    BY <1>1, <2>3 DEF ExecCall, Stream
  <2>5. PICK r \in ExecCall : r = [ex[c] EXCEPT !.pc = "write", !.text = x]
    BY <1>1 DEF ExecCall
  <2>6. /\ r.pc = "write" /\ r.text = x /\ r.tail = ex[c].tail /\ r.got = ex[c].got
        /\ r.fail = ex[c].fail /\ r.result = ex[c].result
    BY <1>1, <2>5 DEF ExecCall
  <2>7. ex' = [ex EXCEPT ![c] = r]
    BY <1>1, <2>2, <2>3, <2>5
  <2>8. ex'[c] = r /\ ex' \in [Caller -> ExecCall] /\ \A d \in Caller : d # c => ex'[d] = ex[d]
    BY <1>1, <2>7
  <2>9. HubTypes' /\ sh'.execMu = c /\ sh'.cur = c /\ ~ sh'.dead
    BY <1>1, <1>4, <2>2 DEF HubTypes, ShellTypes
  <2>10. ShellTypes'
    BY <1>1, <1>2, <2>8, <2>9 DEF ShellTypes, FarTypes, HubTypes, ExecCall, Token
  <2>11. sh.cur = 0 /\ \A u \in Stream : \A n \in 1 .. Len(wire[u]) : wire[u][n].of = 0
    BY <1>1, <1>4 DEF ShellInv
  <2>12. far.todo = <<>>
    <3> SUFFICES ASSUME far.todo # <<>> PROVE FALSE
      OBVIOUS
    <3>1. PICK d \in Caller : far.todo = <<d>>
      BY DEF ShellInv
    <3> QED BY <1>1, <3>1, OneAtATime, ShellAssumption
  <2>13. ASSUME NEW d \in Caller, NEW u \in Stream PROVE StreamInv(d, u)'
    <3>1. StreamInv(d, u) /\ (MayMark(d, u)' => MayMark(d, u))
      BY <1>1 DEF ShellInv, MayMark
    <3>2. CASE d # c
      BY <1>1, <2>8, <2>9, <3>1, <3>2, StreamStays
    <3>3. CASE d = c
      <4>1. /\ said[c][u] = 0 /\ Pieces(ex[c].text[u]) = 0 /\ Pieces(ex[c].tail[u]) = 0
            /\ NoneOf(wire[u], c) /\ OnlyOf(ex[c].text[u], c) /\ OnlyOf(ex[c].tail[u], c)
            /\ MarkLast(wire[u], c)
        BY <1>1, <3>1, <3>3 DEF StreamInv
      <4>2. Pieces(wire[u]) = 0
        <5>1. wire[u] \in Seq(Token)
          BY <1>1 DEF ShellTypes
        <5> QED BY <2>11, <5>1, NoPieces
      <4>3. OnlyOf(x[u], c) /\ Pieces(x[u]) = 0
        BY <2>1, <2>4, <4>1 DEF Stream
      <4>4. /\ ex'[c].text[u] = x[u] /\ ex'[c].tail[u] = ex[c].tail[u] /\ ex'[c].got = {}
            /\ ex'[c].pc = "write"
        BY <1>1, <2>6, <2>8 DEF ShellInv, TurnInv
      <4>5. ~ MayMark(c, u)'
        BY <1>1, <2>12 DEF MayMark
      <4>6. wire'[u] = wire[u] /\ said'[c][u] = 0
        BY <1>1, <4>1
      <4> QED BY <3>3, <4>1, <4>2, <4>3, <4>4, <4>5, <4>6, StreamNext
    <3> QED BY <3>2, <3>3
  <2>14. ASSUME NEW d \in Caller PROVE TurnInv(d)'
    <3>1. TurnInv(d) /\ d # 0
      BY ShellAssumption DEF ShellInv
    <3>2. CASE d # c
      BY <1>1, <1>4, <2>8, <2>9, <3>1, <3>2 DEF TurnInv
    <3>3. CASE d = c
      BY <1>1, <1>4, <2>6, <2>8, <2>9, <3>1, <3>3 DEF TurnInv
    <3> QED BY <3>2, <3>3
  <2>15. sh'.cur = 0 <=> ex'[sh'.execMu].got = Stream
    BY <1>1, <2>6, <2>8, <2>9, ZenonT(40) DEF ShellInv, TurnInv, Stream
  <2> QED BY <1>1, <2>9, <2>10, <2>11, <2>12, <2>13, <2>14, <2>15 DEF ShellInv
<1> QED BY <1>3, <1>4

\* The line: the shell gets it with nothing before it.
LEMMA WriteLineStep == ASSUME ShellInv, NEW c \in Caller, WriteLine(c) PROVE ShellInv'
<1>1. ShellTypes /\ c # 0 /\ ex[c].pc = "write" /\ UNCHANGED <<wire, sh, said>>
      /\ ex[c] \in ExecCall /\ TurnInv(c) /\ HubTypes'
  BY SameTypes, ShellAssumption DEF WriteLine, ShellInv
<1>2. sh.execMu = c /\ ex[c].got = {} /\ ex[c].result # "complete"
  BY <1>1, ShellAssumption DEF TurnInv, Stream
<1>3. far.todo = <<>>
  <2> SUFFICES ASSUME far.todo # <<>> PROVE FALSE
    OBVIOUS
  <2>1. PICK d \in Caller : far.todo = <<d>> /\ ex[d].pc \in {"wait", "kill"}
    BY DEF ShellInv
  <2> QED BY <1>1, <1>2, <2>1, OneAtATime
<1>4. sh.dead => ~ far.lives
  BY DEF ShellInv
<1>5. CASE ~ far.lives /\ far' = far
  <2>1. PICK pc \in {"wait", "kill"}, result \in {"none", "complete", "dead", "timeout", "ctx"} :
          Goes(c, pc, result) /\ result # "complete"
    <3>1. CASE ex' = [ex EXCEPT ![c].pc = "wait"]
      <4>1. Goes(c, "wait", ex[c].result) /\ ex[c].result \in {"none", "complete", "dead", "timeout", "ctx"}
        BY <1>1, <3>1, SameTypes, GoesFacts DEF ExecCall
      <4> QED BY <1>2, <4>1
    <3>2. CASE ex' = [ex EXCEPT ![c].pc = "kill", ![c].result = "dead"]
      <4>1. Goes(c, "kill", "dead")
        BY <3>2, SameTypes, GoesFacts
      <4> QED BY <4>1
    <3> QED BY <3>1, <3>2 DEF WriteLine
  <2>2. FarTypes'
    BY <1>5, SameTypes
  <2> QED BY <1>1, <1>2, <1>3, <1>4, <1>5, <2>1, <2>2, CallStep
<1>6. CASE far.lives /\ far' = [far EXCEPT !.todo = Append(@, c)] /\ ex' = [ex EXCEPT ![c].pc = "wait"]
  <2>1. Append(far.todo, c) = <<c>> /\ <<c>> \in Seq(Caller)
    BY <1>3
  <2>2. far' = [far EXCEPT !.todo = <<c>>]
    BY <1>6, <2>1
  <2>3. FarTypes' /\ far'.todo = <<c>> /\ far'.lives /\ far'.marked = far.marked
    BY <1>1, <1>6, <2>1, <2>2 DEF FarTypes, ShellTypes
  <2>4. Goes(c, "wait", ex[c].result)
    BY <1>1, <1>6, SameTypes, GoesFacts DEF ExecCall
  <2>5. ShellTypes'
    BY <1>1, <2>3, <2>4 DEF ShellTypes, FarTypes, Goes, ExecCall, Token
  <2>6. ASSUME NEW d \in Caller, NEW u \in Stream PROVE StreamInv(d, u)'
    <3>1. StreamInv(d, u)
      BY DEF ShellInv
    <3>2. CASE d # c
      <4>1. ~ MayMark(d, u)'
        <5>1. <<d>> # <<c>>
          BY <3>2
        <5> QED BY <2>3, <5>1 DEF MayMark
      <4> QED BY <1>1, <2>4, <3>1, <3>2, <4>1, StreamStays DEF Goes
    <3>3. CASE d = c
      <4>1. NoneOf(wire[u], c) /\ u \notin ex[c].got
        BY <1>1, <1>2, <3>1, <3>3 DEF StreamInv
      <4>2. ~ Marked(wire[u], c)
        BY <4>1 DEF NoneOf, Marked, Mark
      <4>3. /\ ex'[c].text[u] = ex[c].text[u] /\ ex'[c].tail[u] = ex[c].tail[u]
            /\ ex'[c].got = ex[c].got /\ ex'[c].pc = "wait"
        BY <2>4 DEF Goes
      <4>4. /\ OnlyOf(ex[c].text[u], c) /\ OnlyOf(ex[c].tail[u], c) /\ MarkLast(wire[u], c)
            /\ ~ sh.dead /\ sh.cur = c =>
                 said[c][u] = Pieces(ex[c].text[u]) + Pieces(ex[c].tail[u]) + Pieces(wire[u])
        BY <3>1, <3>3, <4>1 DEF StreamInv
      <4>5. wire'[u] = wire[u] /\ said'[c][u] = said[c][u] /\ sh' = sh
        BY <1>1
      <4> QED BY <3>3, <4>1, <4>2, <4>3, <4>4, <4>5, StreamNext
    <3> QED BY <3>2, <3>3
  <2>7. ASSUME NEW d \in Caller PROVE TurnInv(d)'
    <3>1. TurnInv(d)
      BY DEF ShellInv
    <3> QED BY <1>1, <1>2, <2>4, <3>1 DEF TurnInv, Goes
  <2>8. ex'[c].pc \in {"wait", "kill"} /\ \A d \in Caller : ex'[d].got = ex[d].got
    BY <2>4 DEF Goes
  <2>9. ~ sh'.dead /\ sh'.execMu # 0 => (sh'.cur = 0 <=> ex'[sh'.execMu].got = Stream)
    BY <1>1, <1>2, <2>8 DEF ShellInv
  <2>10. ~ sh'.dead => /\ sh'.cur \in {0, sh'.execMu}
                       /\ \A u \in Stream : \A n \in 1 .. Len(wire'[u]) : wire'[u][n].of \in {0, sh'.cur}
    BY <1>1 DEF ShellInv
  <2>11. ~ sh'.dead
    BY <1>1, <1>4, <1>6
  <2> QED BY <1>1, <2>3, <2>5, <2>6, <2>7, <2>8, <2>9, <2>10, <2>11 DEF ShellInv
<1> QED BY <1>5, <1>6 DEF WriteLine

LEMMA ShellStart == ASSUME ShellInit PROVE ShellInv
<1>1. /\ far = [todo |-> <<>>, lives |-> TRUE, jobs |-> 0, marked |-> {}]
      /\ wire = [out |-> <<>>, err |-> <<>>]
      /\ sh = [execMu |-> 0, cur |-> 0, dead |-> FALSE, backlog |-> 0, open |-> TRUE, eof |-> {}]
      /\ ex = [c \in Caller |-> [pc |-> "idle", got |-> {}, text |-> Fresh0,
                                 tail |-> Fresh0, fail |-> FALSE, result |-> "none"]]
      /\ said = [c \in Caller |-> [out |-> 0, err |-> 0]]
  BY DEF ShellInit, Fresh0
<1>2. /\ Fresh0 \in [Stream -> Seq(Token)] /\ \A s \in Stream : Fresh0[s] = <<>>
      /\ [out |-> 0, err |-> 0] \in [Stream -> Nat] /\ \A s \in Stream : [out |-> 0, err |-> 0][s] = 0
  <2>1. <<>> \in Seq(Token) /\ Stream = {"out", "err"}
    BY DEF Stream
  <2>2. Fresh0 \in [Stream -> Seq(Token)] /\ Fresh0["out"] = <<>> /\ Fresh0["err"] = <<>>
    <3>1. PICK e \in Seq(Token) : e = <<>>
      BY <2>1
    <3>2. Fresh0 = [out |-> e, err |-> e]
      BY <3>1 DEF Fresh0
    <3>3. [out |-> e, err |-> e] \in [{"out", "err"} -> Seq(Token)]
      OBVIOUS
    <3> QED BY <2>1, <3>1, <3>2, <3>3
  <2>3. [out |-> 0, err |-> 0] \in [Stream -> Nat]
    BY <2>1
  <2>4. [out |-> 0, err |-> 0]["out"] = 0 /\ [out |-> 0, err |-> 0]["err"] = 0
    OBVIOUS
  <2> QED BY <2>1, <2>2, <2>3, <2>4
<1>3. ShellTypes
  <2>1. far \in [todo : Seq(Caller), lives : BOOLEAN, jobs : Nat, marked : SUBSET {"out"}]
    BY <1>1
  <2>2. wire \in [Stream -> Seq(Token)]
    BY <1>1, <1>2 DEF Fresh0
  <2>3. sh \in [execMu : Caller \cup {0}, cur : Caller \cup {0}, dead : BOOLEAN,
                backlog : Nat, open : BOOLEAN, eof : SUBSET Stream]
    BY <1>1
  <2>4. ex \in [Caller -> ExecCall]
    BY <1>1, <1>2 DEF ExecCall
  <2>5. said \in [Caller -> [Stream -> Nat]]
    BY <1>1, <1>2
  <2> QED BY <2>1, <2>2, <2>3, <2>4, <2>5 DEF ShellTypes
<1>4. /\ far.todo = <<>> /\ ~ sh.dead /\ sh.cur = 0 /\ sh.execMu = 0
      /\ \A s \in Stream : wire[s] = <<>>
  BY <1>1, <1>2 DEF Fresh0
<1>5. \A c \in Caller : TurnInv(c)
  BY <1>1, <1>4, ShellAssumption DEF TurnInv
<1>6. ASSUME NEW c \in Caller, NEW s \in Stream PROVE StreamInv(c, s)
  <2>1. /\ ex[c].text[s] = <<>> /\ ex[c].tail[s] = <<>> /\ ex[c].got = {} /\ ex[c].pc = "idle"
        /\ said[c][s] = 0 /\ wire[s] = <<>> /\ c # 0
    BY <1>1, <1>2, <1>4, ShellAssumption
  <2>2. Pieces(<<>>) = 0 /\ OnlyOf(<<>>, c) /\ NoneOf(<<>>, c) /\ MarkLast(<<>>, c)
    <3>1. <<>> \in Seq(Token) /\ Len(<<>>) = 0
      OBVIOUS
    <3>2. Pieces(<<>>) = 0
      <4>1. PICK q \in Seq(Token) : q = <<>> /\ Len(q) = 0
        BY <3>1
      <4>2. Pieces(q) = 0
        <5>1. \A n \in 1 .. Len(q) : q[n].of = 0 \/ q[n].mark
          BY <4>1
        <5> QED BY <5>1, NoPieces
      <4> QED BY <4>1, <4>2
    <3> QED BY <3>1, <3>2 DEF OnlyOf, NoneOf, MarkLast
  <2>3. ~ MayMark(c, s)
    BY <1>4 DEF MayMark
  <2> QED BY <1>4, <2>1, <2>2, <2>3 DEF StreamInv
<1> QED BY <1>3, <1>4, <1>5, <1>6 DEF ShellInv

LEMMA ShellStutter == ASSUME ShellInv, UNCHANGED xvars PROVE ShellInv'
<1>1. UNCHANGED <<far, wire, sh, ex, said>>
  BY DEF xvars
<1>2. FarTypes' /\ HubTypes' /\ ex' \in [Caller -> ExecCall]
  <2>1. FarTypes' /\ HubTypes'
    BY <1>1, SameTypes
  <2>2. ex \in [Caller -> ExecCall]
    BY SameTypes
  <2> QED BY <1>1, <2>1, <2>2
<1>3. ShellTypes' /\ \A d \in Caller, u \in Stream : StreamInv(d, u)'
  BY <1>1, <1>2, StreamsStay
<1>4. \A d \in Caller : TurnInv(d)'
  BY <1>1 DEF ShellInv, TurnInv
<1> QED BY <1>1, <1>3, <1>4 DEF ShellInv

\* The invariant of a resident shell: the shell has one command at most, of
\* the caller whose turn it is; behind a caller's sentinel nothing of its
\* command comes; and until then every piece the command wrote is in the
\* caller's text, held back in its tail or on the wire, none twice.
THEOREM ShellInvariant == ShellSpec => []ShellInv
<1>1. ShellInit => ShellInv
  BY ShellStart
<1>2. ShellInv /\ [ShellNext]_xvars => ShellInv'
  <2> SUFFICES ASSUME ShellInv, [ShellNext]_xvars PROVE ShellInv'
    OBVIOUS
  <2>1. ASSUME NEW s \in Stream, Output(s) PROVE ShellInv'
    BY <2>1, OutputStep
  <2>2. ASSUME NEW s \in Stream, Sentinel(s) PROVE ShellInv'
    BY <2>2, SentinelStep
  <2>3. ASSUME NEW s \in Stream, BackgroundOutput(s) PROVE ShellInv'
    BY <2>3, BackgroundStep
  <2>4. ASSUME NEW s \in Stream, feed(s) PROVE ShellInv'
    BY <2>4, FeedStep
  <2>5. ASSUME NEW s \in Stream, streamDead(s) PROVE ShellInv'
    BY <2>5, StreamDeadStep
  <2>6. CASE Dies \/ KillOutside
    BY <2>6, GoneStep
  <2>7. ASSUME NEW c \in Caller, Asks(c) PROVE ShellInv'
    BY <2>7, AsksStep
  <2>8. ASSUME NEW c \in Caller, Start(c) PROVE ShellInv'
    BY <2>8, StartStep
  <2>9. ASSUME NEW c \in Caller, WriteLine(c) PROVE ShellInv'
    BY <2>9, WriteLineStep
  <2>10. ASSUME NEW c \in Caller, Done(c) PROVE ShellInv'
    BY <2>10, DoneStep
  <2>11. ASSUME NEW c \in Caller, Kill(c) PROVE ShellInv'
    BY <2>11, KillStep
  <2>12. ASSUME NEW c \in Caller, NEW why \in {"timeout", "ctx"}, GivesUp(c, why) PROVE ShellInv'
    BY <2>12, GivesUpStep
  <2>13. CASE UNCHANGED xvars
    BY <2>13, ShellStutter
  <2> QED BY <2>1, <2>2, <2>3, <2>4, <2>5, <2>6, <2>7, <2>8, <2>9, <2>10, <2>11, <2>12, <2>13
      DEF ShellNext
<1> QED BY <1>1, <1>2, PTL DEF ShellSpec

\* What a caller is told complete is all its command wrote to both streams and
\* nothing of another's, whoever gave up before and however many calls there
\* are; and the shell never has a second command to run.
THEOREM CompleteAnswersAreWhole == ShellSpec => []ResultIsWhole
<1>1. ShellInv => ResultIsWhole
  <2> SUFFICES ASSUME ShellInv PROVE ResultIsWhole
    OBVIOUS
  <2>1. Len(far.todo) <= 1
    <3>1. PICK n \in {0, 1} : Len(far.todo) = n
      <4>1. CASE far.todo = <<>>
        BY <4>1
      <4>2. CASE far.todo # <<>>
        <5>1. PICK d \in Caller : far.todo = <<d>>
          BY <4>2 DEF ShellInv
        <5> QED BY <5>1
      <4> QED BY <4>1, <4>2
    <3> QED BY <3>1
  <2>2. ASSUME NEW c \in Caller, NEW s \in Stream, ex[c].result = "complete"
        PROVE  LET text == ex[c].text[s]
                   own  == {n \in DOMAIN text : text[n].of # 0} IN
               /\ Cardinality(own) = said[c][s]
               /\ \A n \in own : text[n] = [of |-> c, mark |-> FALSE]
    <3> DEFINE text == ex[c].text[s]
               own  == {n \in DOMAIN text : text[n].of # 0}
    <3>1. text \in Seq(Token)
      BY DEF ShellInv, ShellTypes, ExecCall
    <3>2. s \in ex[c].got /\ StreamInv(c, s)
      BY <2>2 DEF ShellInv, TurnInv
    <3>3. Pieces(text) = said[c][s] /\ OnlyOf(text, c)
      BY <3>2 DEF StreamInv
    <3>4. DOMAIN text = 1 .. Len(text)
      BY <3>1
    <3> HIDE DEF text
    <3>5. \A n \in 1 .. Len(text) : text[n] = Piece(0) \/ text[n] = Piece(c)
      BY <3>3 DEF OnlyOf
    <3>6. \A n \in own : text[n] = [of |-> c, mark |-> FALSE]
      BY <3>4, <3>5 DEF Piece
    <3>7. own = {n \in 1 .. Len(text) : text[n].of # 0 /\ ~ text[n].mark}
      BY <3>4, <3>5 DEF Piece
    <3>8. Cardinality(own) = said[c][s]
      BY <3>3, <3>7 DEF Pieces
    <3> QED BY <3>6, <3>8 DEF text
  <2> QED BY <2>1, <2>2 DEF ResultIsWhole
<1> QED BY <1>1, ShellInvariant, PTL

=============================================================================
