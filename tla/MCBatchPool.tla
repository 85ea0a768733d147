---------------------------- MODULE MCBatchPool ----------------------------
(* Model values and bounds for BatchPool. *)
EXTENDS BatchPool, TLC

CONSTANTS family, directory, other

MCPoolId == {family, directory, other}

(* A handle of another problem with the bits of the first handles here. *)
MCForeignKeys == {[pool |-> other, slot |-> 1, generation |-> 0]}
(* No action reads reply, and of the properties only those about steps     *)
(* mention it, which TLC evaluates at every step it generates.             *)
MCView == <<batches, locations, pass>>

(* Payloads are only moved and compared. *)
MCSymmetry == Permutations(FactorPayload)
=============================================================================
