----------------------------- MODULE MCApproval -----------------------------
(* Approval on small sets: two or three tool calls of one session for one  *)
(* request.                                                                *)
EXTENDS Approval, TLC
=============================================================================
