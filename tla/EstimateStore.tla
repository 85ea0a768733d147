--------------------------- MODULE EstimateStore ---------------------------
(***************************************************************************)
(* What the trial machinery promises: the estimates of all state pools are *)
(* one value.  A trial replaces all of it or none of it, evaluators see    *)
(* the whole of the trial, and everybody else sees the whole of what was   *)
(* accepted last.                                                          *)
(***************************************************************************)
CONSTANT Estimate   \* what the estimates of all states together may be

VARIABLES estimate,  \* what was accepted last
          target,    \* a set: what the running trial would replace it by, if one runs
          shown      \* what was read last

vars == <<estimate, target, shown>>

Init == /\ estimate \in Estimate
        /\ target = {}
        /\ shown = estimate

Begin == /\ target = {}
         /\ \E e \in Estimate : target' = {e}
         /\ UNCHANGED <<estimate, shown>>

(* Evaluators see the whole trial. *)
Evaluate == /\ \E e \in target : shown' = e
            /\ UNCHANGED <<estimate, target>>

Commit == /\ \E e \in target : estimate' = e
          /\ target' = {}
          /\ UNCHANGED shown

Abort == /\ target # {}
         /\ target' = {}
         /\ UNCHANGED <<estimate, shown>>

Read == /\ target = {}
        /\ shown' = estimate
        /\ UNCHANGED <<estimate, target>>

(* Between trials a caller may set states. *)
Edit == /\ target = {}
        /\ estimate' \in Estimate
        /\ UNCHANGED <<target, shown>>

Next == Begin \/ Evaluate \/ Commit \/ Abort \/ Read \/ Edit

Spec == Init /\ [][Next]_vars
=============================================================================
