---------------------------- MODULE MonitorFeed ----------------------------
(***************************************************************************)
(* The feed of audit events to an outside receiver (monitor/monitor.go):   *)
(* events go into a queue with a limit, and a goroutine that redials sends *)
(* them, a report of itself on each connection, and figures now and then.  *)
(* Events are numbered; the receiver is external.                          *)
(***************************************************************************)
EXTENDS Naturals, Sequences, SequencesExt

CONSTANTS
    Buffer,         \* cfg.Buffer
    BackoffInit, BackoffMax,
    MaxEvents,      \* bound: events,
    MaxReports,     \* reports and figures sent,
    MaxDials        \* and connections

ASSUME FeedAssumption ==
    /\ {Buffer, BackoffInit, BackoffMax, MaxEvents, MaxReports, MaxDials} \subseteq Nat
    /\ 1 <= BackoffInit /\ BackoffInit <= BackoffMax

VARIABLES
    events,         \* how many there have been, with the size of each
    queue,          \* m.ch
    dropped,        \* m.dropped
    pump,           \* run and pump: the connection and the frame in hand
    got             \* what the receiver has: events and counts, in order

mvars == <<events, queue, dropped, pump, got>>

FeedInit ==
    /\ events = <<>> /\ queue = <<>> /\ dropped = 0 /\ got = [event |-> <<>>, count |-> <<>>]
    /\ pump = [pc |-> "dial", dead |-> FALSE, held |-> 0, backoff |-> BackoffInit, slept |-> 0,
               dials |-> 0, done |-> FALSE]

\* Emit and push; fields are cut to a length, and many may still be too long.
Emit(big) ==
    /\ Len(events) < MaxEvents
    /\ events' = Append(events, big)
    /\ IF Len(queue) < Buffer
         THEN queue' = Append(queue, Len(events')) /\ UNCHANGED dropped
         ELSE dropped' = dropped + 1 /\ UNCHANGED queue
    /\ UNCHANGED <<pump, got>>

-----------------------------------------------------------------------------
(* run.                                                                    *)

dial ==
    /\ pump.pc = "dial" /\ pump.dials < MaxDials
    /\ \/ pump' = [pump EXCEPT !.pc = "hello", !.dead = FALSE, !.dials = @ + 1,
                               !.backoff = BackoffInit]
       \/ pump' = [pump EXCEPT !.pc = "off", !.dials = @ + 1]
    /\ UNCHANGED <<events, queue, dropped, got>>

\* The wait, and what the next one will be.
Wait ==
    /\ pump.pc = "off"
    /\ pump' = IF pump.done THEN [pump EXCEPT !.pc = "over"]
               ELSE [pump EXCEPT !.pc = "dial", !.slept = pump.backoff,
                                 !.backoff = IF @ < BackoffMax THEN 2 * @ ELSE @]
    /\ UNCHANGED <<events, queue, dropped, got>>

Close ==
    /\ ~ pump.done /\ pump' = [pump EXCEPT !.done = TRUE]
    /\ UNCHANGED <<events, queue, dropped, got>>

-----------------------------------------------------------------------------
(* pump and write.                                                         *)

\* The receiver is gone; what is written next may vanish before that shows.
Breaks ==
    /\ pump.pc \in {"hello", "up", "write"} /\ ~ pump.dead /\ pump' = [pump EXCEPT !.dead = TRUE]
    /\ UNCHANGED <<events, queue, dropped, got>>

Ends == pump' = [pump EXCEPT !.pc = "off", !.held = 0]

\* hello, and later the figures: both carry what has been dropped so far.
Report ==
    /\ pump.pc \in {"hello", "up"} /\ Len(got.count) < MaxReports
    /\ IF ~ pump.dead
         THEN /\ got' = [got EXCEPT !.count = Append(@, dropped)]
              /\ pump' = [pump EXCEPT !.pc = "up"]
         ELSE /\ UNCHANGED got
              /\ Ends \/ pump' = [pump EXCEPT !.pc = "up"]
    /\ UNCHANGED <<events, queue, dropped>>

Take ==
    /\ pump.pc = "up" /\ ~ pump.done /\ queue # <<>>
    /\ pump' = [pump EXCEPT !.pc = "write", !.held = Head(queue)] /\ queue' = Tail(queue)
    /\ UNCHANGED <<events, dropped, got>>

\* Mutant of FeedInOrder: the frame goes back, behind those that came since.
FailedBack(f) == Append(queue, f)
\* What is left in the queue when the write of f fails.
Failed(f) == queue

WriteHeld ==
    /\ pump.pc = "write"
    /\ \/ /\ events[pump.held]      \* too big: dropped and counted, the connection stays
          /\ dropped' = dropped + 1 /\ pump' = [pump EXCEPT !.pc = "up", !.held = 0]
          /\ UNCHANGED <<queue, got>>
       \/ /\ ~ events[pump.held] /\ pump' = [pump EXCEPT !.pc = "up", !.held = 0]
          /\ got' = IF pump.dead THEN got ELSE [got EXCEPT !.event = Append(@, pump.held)]
          /\ UNCHANGED <<queue, dropped>>
       \/ /\ ~ events[pump.held] /\ pump.dead /\ Ends /\ queue' = Failed(pump.held)
          /\ UNCHANGED <<dropped, got>>
    /\ UNCHANGED events

\* The read loop has seen the end, or Close.
PumpEnds ==
    /\ pump.pc = "up" /\ (pump.dead \/ pump.done) /\ Ends
    /\ UNCHANGED <<events, queue, dropped, got>>

FeedNext ==
    \/ \E big \in BOOLEAN : Emit(big)
    \/ dial \/ Wait \/ Close \/ Breaks \/ Report \/ Take \/ WriteHeld \/ PumpEnds

-----------------------------------------------------------------------------
(* Properties.                                                             *)

\* Over all its connections the receiver gets events in the order they
\* happened, none twice; and what it is told was dropped never exceeds what it
\* will miss, nor shrinks.
FeedInOrder ==
    /\ \A n \in 1 .. Len(got.event) - 1 : got.event[n] < got.event[n + 1]
    /\ \A n \in 1 .. Len(got.count) - 1 : got.count[n] <= got.count[n + 1]
    /\ dropped + Len(got.event) + Len(queue) <= Len(events)

\* What was emitted has arrived, waits, or is counted.  Not so: the frame in
\* hand when a write fails is none of these.
LostIsCounted ==
    dropped + Len(got.event) + Len(queue) + (IF pump.held = 0 THEN 0 ELSE 1) = Len(events)

\* A wait is at most backoffMax.  Not so: it is doubled while below it.
WaitsAtMost == pump.slept <= BackoffMax

=============================================================================
