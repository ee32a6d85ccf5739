--------------------------- MODULE MCHubSessions ---------------------------
(* HubSessions on small sets.                                              *)
EXTENDS HubSessions, TLC

\* What the processes write: that of a slow client enough to fill its buffer.
WritesTwo  == [s \in Session |-> IF s \in Slow THEN 2 ELSE 0]
WritesMore == [s \in Session |-> IF s \in Slow THEN 3 ELSE 0]
=============================================================================
