-------------------------- MODULE MCGatewaySuspend --------------------------
(* The instance of GatewaySuspend for TLC: GatewaySuspend.cfg. *)
EXTENDS GatewaySuspend
=============================================================================
