------------------------------ MODULE Terminal ------------------------------
(***************************************************************************)
(* One PTY terminal of the MCP server (mcpsrv/terminal.go): a pump appends *)
(* what it reads from the session to a buffer of bounded size, the oldest  *)
(* bytes make room and are counted, and terminal_read calls take from it   *)
(* or wait on a channel that every change closes and replaces.             *)
(***************************************************************************)
EXTENDS Integers, FiniteSets

CONSTANTS
    Reader,             \* terminal_read calls that may be under way
    BufferSize,         \* terminalBufferSize
    MaxChunk,           \* the pump's reads: above BufferSize they replace it all
    MaxBytes            \* bound: bytes the pump reads

ASSUME TerminalAssumption ==
    IsFiniteSet(Reader) /\ {BufferSize, MaxChunk, MaxBytes} \subseteq Nat \ {0}

VARIABLES
    term,               \* terminalSession: buf, dropped, closed, exitCode, and the
                        \* number of the channel `changed`: all below it are closed
    pty,                \* the session: bytes read from it so far, ended, closed here
    rd,                 \* the readers, and the channel each waits on
    told                \* history: bytes handed to readers, and told to be dropped

tvars == <<term, pty, rd, told>>

TerminalInit ==
    /\ term = [buf |-> 0, dropped |-> 0, closed |-> FALSE, code |-> -1, changed |-> 0]
    /\ pty = [out |-> 0, ended |-> FALSE, shut |-> FALSE]
    /\ rd = [r \in Reader |-> [pc |-> "idle", max |-> 1, waits |-> 0]]
    /\ told = [bytes |-> 0, dropped |-> 0]

smaller(a, b) == IF a < b THEN a ELSE b

\* Mutant of TerminalLosesNothing: a chunk that fills the buffer does not count
\* what it pushes out.
MakeRoomBlind(n) ==
    [term EXCEPT !.buf = smaller(@ + n, BufferSize),
                 !.dropped = @ + (IF n >= BufferSize THEN n - BufferSize
                                  ELSE IF term.buf + n > BufferSize THEN term.buf + n - BufferSize
                                  ELSE 0)]
\* append: the two ways of making room drop as much.
MakeRoom(n) ==
    LET over == term.buf + n - BufferSize IN
    [term EXCEPT !.buf = smaller(@ + n, BufferSize), !.dropped = IF over > 0 THEN @ + over ELSE @]

append(n) ==
    /\ ~ pty.ended /\ pty.out + n <= MaxBytes
    /\ pty' = [pty EXCEPT !.out = @ + n]
    /\ term' = [MakeRoom(n) EXCEPT !.changed = @ + 1]
    /\ UNCHANGED <<rd, told>>

\* The program exits, the connection goes, or close has closed the session.
Exits == ~ pty.ended /\ pty' = [pty EXCEPT !.ended = TRUE] /\ UNCHANGED <<term, rd, told>>

finish(code) ==
    /\ pty.ended /\ ~ term.closed
    /\ term' = [term EXCEPT !.closed = TRUE, !.code = code, !.changed = @ + 1]
    /\ UNCHANGED <<pty, rd, told>>

\* terminal_close closes the session once and waits half a second for finish;
\* what is in the buffer stays for those who read already.
close ==
    /\ ~ pty.shut /\ pty' = [pty EXCEPT !.shut = TRUE, !.ended = TRUE]
    /\ UNCHANGED <<term, rd, told>>

Read(r, max) ==
    /\ rd[r].pc = "idle" /\ max \in 1 .. BufferSize
    /\ rd' = [rd EXCEPT ![r] = [pc |-> "look", max |-> max, waits |-> 0]]
    /\ UNCHANGED <<term, pty, told>>

Something == term.buf > 0 \/ term.closed

\* Under the lock: what there is, with the count of what was dropped before it.
Takes(r) ==
    /\ rd[r].pc = "look" /\ Something
    /\ LET n == smaller(rd[r].max, term.buf) IN
       /\ term' = [term EXCEPT !.buf = @ - n, !.dropped = 0]
       /\ told' = [bytes |-> told.bytes + n, dropped |-> told.dropped + term.dropped]
    /\ rd' = [rd EXCEPT ![r].pc = "idle"]
    /\ UNCHANGED pty

\* Nothing yet: the channel to wait on is taken in the same holding.
Waits(r) ==
    /\ rd[r].pc = "look" /\ ~ Something
    /\ rd' = [rd EXCEPT ![r].pc = "wait", ![r].waits = term.changed]
    /\ UNCHANGED <<term, pty, told>>

Woken(r) ==
    /\ rd[r].pc = "wait" /\ rd[r].waits < term.changed
    /\ rd' = [rd EXCEPT ![r].pc = "look"]
    /\ UNCHANGED <<term, pty, told>>

\* The deadline, or no wait asked for: an empty answer, whatever has come since
TimesOut(r) ==
    /\ \/ rd[r].pc = "wait"
       \/ rd[r].pc = "look" /\ ~ Something
    /\ rd' = [rd EXCEPT ![r].pc = "idle"]
    /\ UNCHANGED <<term, pty, told>>

TerminalNext ==
    \/ \E n \in 1 .. MaxChunk : append(n)
    \/ Exits \/ close \/ \E code \in {-1, 0} : finish(code)
    \/ \E r \in Reader : \/ Takes(r) \/ Waits(r) \/ Woken(r) \/ TimesOut(r)
                         \/ \E max \in 1 .. BufferSize : Read(r, max)

TerminalSpec == TerminalInit /\ [][TerminalNext]_tvars

-----------------------------------------------------------------------------
(* Properties.                                                             *)

\* Every byte the pump has read is handed to one reader, told as dropped to
\* one, or still there; and no reader sleeps on a channel that has missed the
\* change it waits for.  (What the program wrote and the pump never got, the
\* session having been closed or cut off, is not counted here.)
TerminalLosesNothing ==
    /\ told.bytes + told.dropped + term.buf + term.dropped = pty.out
    /\ \A r \in Reader : rd[r].pc = "wait" /\ rd[r].waits = term.changed => ~ Something

=============================================================================
