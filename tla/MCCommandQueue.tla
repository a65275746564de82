--------------------------- MODULE MCCommandQueue ---------------------------
(* Instances of CommandQueue for TLC. *)
EXTENDS CommandQueue, TLC

TwoPriorities == {-1, 0}
OnePriority == {0}

\* A negative argument, clamped to 0, and a limit above the initial 1.
SomeLimits == {-1, 2}

BothSignals == {"abort", "release"}
NoSignal == {}

\* Nothing distinguishes two lane-state objects, or two entries that both have (or both
\* lack) a timeout.
Interchangeable == Permutations(Object) \cup Permutations(TimedEntry)
                     \cup Permutations(Entry \ TimedEntry)
=============================================================================
