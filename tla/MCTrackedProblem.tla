-------------------------- MODULE MCTrackedProblem --------------------------
(* Two states of two values and two factors; a journal of six entries.    *)
EXTENDS TrackedProblem, TLC

MCSymmetry == Permutations(State) \cup Permutations(Factor) \cup Permutations(Version)
=============================================================================
