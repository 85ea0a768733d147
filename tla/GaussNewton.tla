----------------------------- MODULE GaussNewton -----------------------------
(***************************************************************************)
(* The Gauss-Newton loop (optimization/gauss_newton.rs:83-181) over the    *)
(* dense Cholesky backend (normal.rs:55-301), which factors the linearized *)
(* model in place: once a step was solved for, the model is its factor,    *)
(* and after a factorization that failed it is nothing.                    *)
(***************************************************************************)
EXTENDS Workspace

CONSTANT MaxIterations

ASSUME MaxIterationsIsPositive == MaxIterations \in Nat \ {0}

VARIABLES gn,      \* the local variables of the call
          result,  \* what the last call returned, until the problem is edited
          answer   \* of what problem the last covariance is

vars == <<problem, model, current, gn, result, answer>>

Phase == {"idle", "cost", "linearize", "test", "solve", "trial", "accept",
          "covariance", "extract"}

NoResult == [kind |-> "none", why |-> "none", initial |-> 0, final |-> 0, iterations |-> 0]

Failed(why) == [NoResult EXCEPT !.kind = "error", !.why = why]
Panicked == [NoResult EXCEPT !.kind = "panic"]

Report(why, final, iterations) ==
  [kind |-> "ok", why |-> why, initial |-> gn.initial, final |-> final,
   iterations |-> iterations]

Idle == [phase |-> "idle", wants |-> FALSE, iterations |-> 0, initial |-> 0, cost |-> 0]

Init == /\ WorkspaceInit
        /\ gn = Idle
        /\ result = NoResult
        /\ answer = {}

Goto(phase) == gn' = [gn EXCEPT !.phase = phase]

Return(r) == gn' = Idle /\ result' = r

FinishWith(why, final, iterations) ==
  /\ result' = Report(why, final, iterations)
  /\ gn' = IF gn.wants THEN [gn EXCEPT !.phase = "covariance"] ELSE Idle

Finish(why) == FinishWith(why, gn.cost, gn.iterations)

-----------------------------------------------------------------------------
Edit == /\ gn.phase = "idle"
        /\ EditProblem
        /\ result' = NoResult
        /\ answer' = {}
        /\ UNCHANGED gn

Optimize(wants) ==
  /\ gn.phase = "idle"
  /\ answer' = {}
  /\ \/ Prepare /\ gn' = [Idle EXCEPT !.phase = "cost", !.wants = wants] /\ result' = NoResult
     \/ PrepareFails /\ Return(Failed("prepare"))
  /\ UNCHANGED problem

InitialCost ==
  /\ gn.phase = "cost"
  /\ shown' = estimate
  /\ IF graph \in NoVariables
       THEN /\ result' = [Report("NoVariables", CostHere, 0) EXCEPT !.initial = CostHere]
            /\ gn' = IF gn.wants THEN [gn EXCEPT !.phase = "covariance"] ELSE Idle
       ELSE /\ gn' = [gn EXCEPT !.phase = "linearize", !.initial = CostHere, !.cost = CostHere]
            /\ UNCHANGED result
  /\ UNCHANGED <<graph, estimate, target, model, current, answer>>

InitialCostFails ==
  /\ gn.phase = "cost"
  /\ Return(Failed("evaluation")) \/ Return(Panicked)
  /\ UNCHANGED <<problem, model, current, answer>>

Relinearize_Once ==
  /\ gn.phase = "linearize"
  /\ \/ ~current /\ gn.iterations > 0 /\ Goto("test") /\ UNCHANGED <<shown, model, current, result>>
     \/ gn.iterations = 0 /\ Linearize /\ Goto("test") /\ UNCHANGED result
     \/ LinearizeFails /\ (Return(Failed("evaluation")) \/ Return(Panicked))
  /\ UNCHANGED <<graph, estimate, target, answer>>

Relinearize ==
  /\ gn.phase = "linearize"
  /\ \/ Linearize /\ Goto("test") /\ UNCHANGED result
     \/ LinearizeFails /\ (Return(Failed("evaluation")) \/ Return(Panicked))
  /\ UNCHANGED <<graph, estimate, target, answer>>

(* The gradient, which may not be finite, then the number of steps. *)
Test ==
  /\ gn.phase = "test"
  /\ \/ estimate \in Stationary[graph] /\ Finish("GradientTolerance")
     \/ estimate \notin Stationary[graph]
        /\ IF gn.iterations = MaxIterations THEN Return(Failed("NoConvergence"))
           ELSE Goto("solve") /\ UNCHANGED result
     \/ Return(Failed("numbers"))
  /\ UNCHANGED <<problem, model, current, answer>>

-----------------------------------------------------------------------------
(* DenseNormalCholesky::factorize: what a factorization makes of a model.  *)
Factorized == IF model.form = "ruined" THEN model ELSE [model EXCEPT !.form = "factor"]

(* A step that is not finite is an error with the factor in place; other   *)
(* failures leave the model untouched or overwritten in part.              *)
SolveFails ==
  /\ gn.phase = "solve"
  /\ model' \in {Factorized, model, [model EXCEPT !.form = "ruined"]}
  /\ Return(Failed("numbers"))
  /\ UNCHANGED <<problem, current, answer>>

(* A small step is not applied, any other one begins a trial. *)
Solve ==
  /\ gn.phase = "solve"
  /\ model' = Factorized
  /\ \/ Finish("StepTolerance") /\ UNCHANGED target
     \/ (\E e \in Estimate : target' = {e}) /\ Goto("trial") /\ UNCHANGED result
  /\ UNCHANGED <<graph, estimate, shown, current, answer>>

Abort_LeavesTrial == UNCHANGED problem

(* The guard's drop takes the trial back. *)
Abort == target' = {} /\ UNCHANGED <<graph, estimate, shown>>

(* A retraction panics, or an evaluator fails or panics. *)
TrialFails ==
  /\ gn.phase = "trial"
  /\ Abort
  /\ Return(Failed("evaluation")) \/ Return(Panicked)
  /\ UNCHANGED <<model, current, answer>>

TrialCost ==
  /\ gn.phase = "trial"
  /\ \E e \in target : shown' = e
  /\ Goto("accept")
  /\ UNCHANGED <<graph, estimate, target, model, current, result, answer>>

(* Whether the loop may stop after a step from cost to value: it must at   *)
(* zero and when nothing was gained, and must not after going uphill.      *)
MayStop(cost, value) == value <= cost
MustStop(cost, value) == value = 0 \/ value = cost

Stop_KeepsCost(value) ==
  \/ MayStop(gn.cost, value) /\ FinishWith("CostTolerance", value, gn.iterations + 1)
  \/ /\ ~MustStop(gn.cost, value)
     /\ gn' = [gn EXCEPT !.phase = "linearize", !.iterations = @ + 1]
     /\ UNCHANGED result

Stop_UncountedStep(value) ==
  \/ MayStop(gn.cost, value) /\ FinishWith("CostTolerance", value, gn.iterations + 1)
  \/ /\ ~MustStop(gn.cost, value)
     /\ gn' = [gn EXCEPT !.phase = "linearize", !.cost = value]
     /\ UNCHANGED result

Stop(value) ==
  \/ MayStop(gn.cost, value) /\ FinishWith("CostTolerance", value, gn.iterations + 1)
  \/ /\ ~MustStop(gn.cost, value)
     /\ gn' = [gn EXCEPT !.phase = "linearize", !.cost = value, !.iterations = @ + 1]
     /\ UNCHANGED result

AcceptStep_StaysCurrent ==
  /\ gn.phase = "accept"
  /\ estimate' \in target
  /\ target' = {}
  /\ Stop(Cost[graph][estimate'])
  /\ UNCHANGED <<graph, shown, model, current, answer>>

(* Every step that could be evaluated is accepted, uphill ones included.   *)
AcceptStep ==
  /\ gn.phase = "accept"
  /\ estimate' \in target
  /\ target' = {}
  /\ current' = FALSE
  /\ Stop(Cost[graph][estimate'])
  /\ UNCHANGED <<graph, shown, model, answer>>

-----------------------------------------------------------------------------
ModelForCovariance ==
  /\ gn.phase = "covariance"
  /\ \/ ~current /\ Linearize /\ Goto("extract") /\ UNCHANGED result
     \/ ~current /\ LinearizeFails /\ (Return(Failed("evaluation")) \/ Return(Panicked))
     \/ current /\ Goto("extract") /\ UNCHANGED <<shown, model, current, result>>
  /\ UNCHANGED <<graph, estimate, target, answer>>

(* Information that is not factored yet is factored now. *)
Covariance ==
  /\ gn.phase = "extract"
  /\ gn' = Idle
  /\ \/ answer' = {model.of} /\ model' = Factorized /\ UNCHANGED result
     \/ /\ model' \in {Factorized, model, [model EXCEPT !.form = "ruined"]}
        /\ result' = Failed("information")
        /\ UNCHANGED answer
  /\ UNCHANGED <<problem, current>>

-----------------------------------------------------------------------------
Running == \/ InitialCost \/ InitialCostFails \/ Relinearize \/ Test
           \/ Solve \/ SolveFails \/ TrialCost \/ TrialFails \/ AcceptStep
           \/ ModelForCovariance \/ Covariance

Next == Edit \/ (\E wants \in BOOLEAN : Optimize(wants)) \/ Running

Spec == Init /\ [][Next]_vars /\ WF_vars(Running)

-----------------------------------------------------------------------------
(* No more steps than allowed are counted (gauss_newton.rs:115, 144). *)
TypeOK ==
  /\ WorkspaceTypeOK
  /\ gn.phase \in Phase /\ gn.wants \in BOOLEAN
  /\ gn.iterations \in 0..MaxIterations
  /\ gn.initial \in Nat /\ gn.cost \in Nat
  /\ result.iterations \in 0..MaxIterations

(* The cost trials are compared with, and the one reported, are those of   *)
(* the accepted estimates, and convergence by the gradient is convergence  *)
(* of those estimates (gauss_newton.rs:108-117, 144-156).                  *)
ReportIsTrue ==
  /\ gn.phase \in {"linearize", "test", "solve", "trial", "accept"} => gn.cost = CostHere
  /\ result.kind = "ok" => result.final = CostHere
  /\ result.why = "GradientTolerance" => estimate \in Stationary[graph]

(* The backend is asked for a gradient and a step of the problem as it is, *)
(* from a linearization that was completed, and once for each of them: the *)
(* step has destroyed it (optimization.rs:137-142).                        *)
SolvesOncePerModel ==
  gn.phase \in {"test", "solve"} => current /\ ModelIsFresh /\ model.form = "whole"

(* What the loop relies on at each of its calls to the evaluators and the  *)
(* backend (gauss_newton.rs:106-157).                                      *)
LoopInvariant == TypeOK /\ SolvesOncePerModel

(* A covariance is made from a completed linearization at the estimates    *)
(* the call ended with, whether the loop has factored it already, not      *)
(* solved for a step, or moved on since (solver.rs:225-259).               *)
CovarianceOfTheResult ==
  /\ gn.phase = "extract" => ModelIsFresh
  /\ answer # {} => answer = {Here} /\ result.kind = "ok"

(* Seen from outside, estimates move only as EstimateStore allows: to a    *)
(* target at once, or not at all, through every step, failure and panic    *)
(* (gauss_newton.rs:83-158).                                               *)
RefinesEstimates == Estimates!Spec

(* Every call returns, although the cost need not decrease.  The calling   *)
(* thread runs the loop, and evaluators return or panic.                   *)
CallsReturn == gn.phase # "idle" ~> gn.phase = "idle"
=============================================================================
