--------------------------- MODULE MCTrialStates ---------------------------
(* A pool of two states, one without states, and one of a single state. *)
EXTENDS TrialStates

MCOffset == <<0, 2, 2, 3>>
=============================================================================
