-------------------------- MODULE MCTokenRotation --------------------------
(* TokenRotation on small sets.  Refresh requests are interchangeable; the *)
(* symmetry is used in the runs that check no liveness.                    *)
EXTENDS TokenRotation, TLC

Symmetry == Permutations(Request)
=============================================================================
