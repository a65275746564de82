--------------------------- MODULE MCIngressDrain ---------------------------
(* Instances of IngressDrain for TLC. *)
EXTENDS IngressDrain, TLC

CONSTANTS process, lane

OneLane == [e \in Event |-> lane]
OneProcess == [d \in Drain |-> process]
TwoProcesses == [d \in Drain |-> d]

\* Claims are interchangeable, and so are drains of different processes.
TokenSymmetry == Permutations(Token)
OwnerSymmetry == Permutations(Token) \cup Permutations(Drain)

\* A behaviour has a failing write or a lapse, not both.
OneTrouble == faults + lapses <= 1
=============================================================================
