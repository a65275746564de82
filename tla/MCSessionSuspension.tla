------------------------- MODULE MCSessionSuspension -------------------------
(* The instance of SessionSuspension for TLC: SessionSuspension.cfg. *)
EXTENDS SessionSuspension
=============================================================================
