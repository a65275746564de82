--------------------------- MODULE MCExecApprovals ---------------------------
(* Instances of ExecApprovals for TLC *)
EXTENDS ExecApprovals

CONSTANTS a, exec
=============================================================================
