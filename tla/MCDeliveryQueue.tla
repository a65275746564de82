-------------------------- MODULE MCDeliveryQueue --------------------------
(* Instances of DeliveryQueue for TLC *)
EXTENDS DeliveryQueue, TLC

BestEffort == [kind |-> "ordinary", required |-> FALSE, exact |-> FALSE, reconciles |-> TRUE]
ExactSend == [kind |-> "ordinary", required |-> TRUE, exact |-> TRUE, reconciles |-> TRUE]
Notice == [kind |-> "receipt", required |-> TRUE, exact |-> FALSE, reconciles |-> FALSE]
Stable == [kind |-> "stable", required |-> TRUE, exact |-> FALSE, reconciles |-> TRUE]
StableUnreconciled == [Stable EXCEPT !.reconciles = FALSE]

OnlyStable == {Stable}
OnlyUnreconciled == {StableUnreconciled}
AllButUnreconciled == {BestEffort, ExactSend, Notice, Stable}

\* Processes and claim ids are interchangeable.
Symmetry == Permutations(Process) \cup Permutations(Id)
=============================================================================
