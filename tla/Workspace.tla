------------------------------ MODULE Workspace ------------------------------
(***************************************************************************)
(* What the two optimizers share (optimization.rs:165-270): the problem    *)
(* they work on, the linearized model their backend holds, and the flag    *)
(* that says whether that model is the one of the accepted estimates.  The *)
(* estimates are those of EstimateStore, which TrialStates implements.     *)
(*                                                                         *)
(* A graph stands for the factors, priors and states of a problem; what    *)
(* the user's evaluators compute for it is a function of the estimates, as *)
(* they must be deterministic during a call (solver.rs:236-237).           *)
(***************************************************************************)
EXTENDS Integers

CONSTANTS Graph,        \* problems the same optimizer is used for
          NoVariables,  \* the graphs without a coordinate to optimize
          Estimate,     \* what the estimates of all states together may be
          Cost,         \* the cost of an estimate in a graph
          Stationary    \* the estimates of a graph whose gradient is within tolerance

ASSUME GraphAssumption == NoVariables \subseteq Graph
ASSUME CostAssumption == Cost \in [Graph -> [Estimate -> Nat]]
ASSUME StationaryAssumption == Stationary \in [Graph -> SUBSET Estimate]

VARIABLES graph, estimate, target, shown,  \* the problem; see EstimateStore
          model,                           \* what the backend holds
          current                          \* Workspace.current

problem == <<graph, estimate, target, shown>>

Here == [graph |-> graph, estimate |-> estimate]

CostHere == Cost[graph][estimate]

(* The buffers of the backend: nothing of use, some rows of a linearization*)
(* that was broken off, all of them, their Cholesky factor in place, or    *)
(* what a factorization that failed has left of them.                      *)
Form == {"none", "partial", "whole", "factor", "ruined"}

Model == [of : [graph : Graph, estimate : Estimate], form : Form]

WorkspaceInit == /\ graph \in Graph
                 /\ estimate \in Estimate
                 /\ target = {}
                 /\ shown = estimate
                 /\ model = [of |-> Here, form |-> "none"]
                 /\ current = FALSE

(* Between calls the user may edit the problem, or pass another one.       *)
EditProblem == /\ graph' \in Graph
               /\ estimate' \in Estimate
               /\ UNCHANGED <<target, shown, model, current>>

-----------------------------------------------------------------------------
Prepare_StaysCurrent == /\ UNCHANGED current
                        /\ model' = [model EXCEPT !.form = "none"]

(* Workspace::prepare; LeastSquaresBackend::prepare drops a factorization. *)
Prepare == /\ current' = FALSE
           /\ model' = [model EXCEPT !.form = "none"]

(* A factor that names an unknown state, or a problem that is too large.   *)
PrepareFails == /\ current' = FALSE
                /\ UNCHANGED model

(* Workspace::linearize, at the accepted estimates. *)
Linearize == /\ current' = TRUE
             /\ model' = [of |-> Here, form |-> "whole"]
             /\ shown' = estimate

(* An evaluator returns an error or panics, or breaks the protocol of the  *)
(* sink.                                                                   *)
LinearizeFails == /\ current' = FALSE
                  /\ model' = [of |-> Here, form |-> "partial"]
                  /\ UNCHANGED shown

(* A linear model that describes the problem as it is. *)
ModelIsFresh == model.of = Here /\ model.form \in {"whole", "factor"}

-----------------------------------------------------------------------------
WorkspaceTypeOK == /\ graph \in Graph
                   /\ estimate \in Estimate
                   /\ target \in {{}} \cup {{e} : e \in Estimate}
                   /\ shown \in Estimate
                   /\ model \in Model
                   /\ current \in BOOLEAN

Estimates == INSTANCE EstimateStore
=============================================================================
