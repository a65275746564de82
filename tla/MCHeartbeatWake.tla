-------------------------- MODULE MCHeartbeatWake --------------------------
(* The instance of HeartbeatWake for TLC: HeartbeatWake.cfg. *)
EXTENDS HeartbeatWake
=============================================================================
