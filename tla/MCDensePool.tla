---------------------------- MODULE MCDensePool ----------------------------
(* Model values and bounds for DensePool. *)
EXTENDS DensePool

CONSTANTS self, other

MCPoolId == {self, other}

(* A handle of another pool with the bits of this pool's first handle. *)
MCForeignKeys == {[pool |-> other, slot |-> 1, generation |-> 0]}
=============================================================================
