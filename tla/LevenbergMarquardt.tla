------------------------- MODULE LevenbergMarquardt -------------------------
(***************************************************************************)
(* The Levenberg-Marquardt loop (optimization/levenberg_marquardt.rs:      *)
(* 210-368), one action for each stretch of it between two calls to the    *)
(* evaluators, the backend or the observer, every one of which may fail,   *)
(* and the evaluators and the observer panic.                              *)
(*                                                                         *)
(* The damping is the exponent of a power of two.  The length of a step,   *)
(* the reduction its model predicts and the ratio of the actual to the     *)
(* predicted reduction are whatever the numbers make of them.              *)
(***************************************************************************)
EXTENDS Workspace, FiniteSets

CONSTANTS MaxIterations, MaxTrials,
          MinDamping, InitialDamping, MaxDamping   \* exponents

ASSUME OptionsAreValid ==
  /\ MaxIterations \in Nat \ {0} /\ MaxTrials \in Nat \ {0}
  /\ MinDamping \in Int /\ InitialDamping \in Int /\ MaxDamping \in Int
  /\ MinDamping <= InitialDamping /\ InitialDamping <= MaxDamping

VARIABLES lm,      \* the local variables of the call
          stats,   \* LmStatistics
          result,  \* what the last call returned, until the problem is edited
          answer   \* of what problem the last covariance is

vars == <<problem, model, current, lm, stats, result, answer>>

Phase == {"idle", "cost", "linearize", "test", "solve", "trial", "judge", "observe",
          "covariance", "extract"}

Rejection == {"LinearSolve", "Prediction", "InvalidEvaluation", "PoorAgreement"}

NoResult == [kind |-> "none", why |-> "none", initial |-> 0, final |-> 0, iterations |-> 0]

Failed(why) == [NoResult EXCEPT !.kind = "error", !.why = why]
Panicked == [NoResult EXCEPT !.kind = "panic"]

Report(why) == [kind |-> "ok", why |-> why, initial |-> lm.initial, final |-> lm.cost,
                iterations |-> stats.accepted]

NewStats == [linearizations |-> 0, attempts |-> 0, rejected |-> 0, accepted |-> 0,
             evaluations |-> 0, damping |-> InitialDamping, cost |-> {}, why |-> {}]

Idle == [phase |-> "idle", wants |-> FALSE, lambda |-> InitialDamping, growth |-> 1,
         tries |-> 0, small |-> FALSE, stalled |-> FALSE, initial |-> 0, cost |-> 0]

Lower(a, b) == IF a < b THEN a ELSE b
Higher(a, b) == IF a > b THEN a ELSE b

Init == /\ WorkspaceInit
        /\ lm = Idle
        /\ stats = NewStats
        /\ result = NoResult
        /\ answer = {}

Goto(phase) == lm' = [lm EXCEPT !.phase = phase]

Return(r) == lm' = Idle /\ result' = r

(* A call ends well; one that was asked for the covariance goes on.        *)
Finish(why) == IF lm.wants THEN /\ result' = Report(why)
                                /\ Goto("covariance")
               ELSE Return(Report(why))

-----------------------------------------------------------------------------
Edit == /\ lm.phase = "idle"
        /\ EditProblem
        /\ result' = NoResult
        /\ answer' = {}
        /\ UNCHANGED <<lm, stats>>

(* optimize, optimize_covariance. *)
Optimize(wants) ==
  /\ lm.phase = "idle"
  /\ stats' = NewStats
  /\ answer' = {}
  /\ \/ Prepare /\ lm' = [Idle EXCEPT !.phase = "cost", !.wants = wants] /\ result' = NoResult
     \/ PrepareFails /\ Return(Failed("prepare"))
  /\ UNCHANGED problem

InitialCost ==
  /\ lm.phase = "cost"
  /\ stats' = [stats EXCEPT !.evaluations = 1, !.cost = {CostHere}]
  /\ lm' = [lm EXCEPT !.phase = "linearize", !.initial = CostHere, !.cost = CostHere]
  /\ shown' = estimate
  /\ UNCHANGED <<graph, estimate, target, model, current, result, answer>>

InitialCostFails ==
  /\ lm.phase = "cost"
  /\ stats' = [stats EXCEPT !.evaluations = 1]
  /\ Return(Failed("evaluation")) \/ Return(Panicked)
  /\ UNCHANGED <<problem, model, current, answer>>

NothingToOptimize ==
  /\ lm.phase = "linearize"
  /\ graph \in NoVariables
  /\ Finish("NoVariables")
  /\ UNCHANGED <<problem, model, current, stats, answer>>

Relinearize ==
  /\ lm.phase = "linearize"
  /\ graph \notin NoVariables
  /\ stats' = [stats EXCEPT !.linearizations = @ + 1]
  /\ \/ Linearize /\ Goto("test") /\ UNCHANGED result
     \/ LinearizeFails /\ (Return(Failed("evaluation")) \/ Return(Panicked))
  /\ UNCHANGED <<graph, estimate, target, answer>>

Test_SmallStepsConverge ==
  /\ lm.phase = "test"
  /\ IF estimate \in Stationary[graph] \/ lm.stalled THEN Finish("GradientTolerance")
     ELSE IF stats.accepted = MaxIterations THEN Return(Failed("NoConvergence"))
     ELSE \/ lm' = [lm EXCEPT !.phase = "solve", !.growth = 1, !.tries = 0] /\ UNCHANGED result
          \/ Return(Failed("numbers"))
  /\ UNCHANGED <<problem, model, current, stats, answer>>

(* The gradient of the fresh model, then the reasons to give up, then the  *)
(* scales of the damping.                                                  *)
Test ==
  /\ lm.phase = "test"
  /\ IF estimate \in Stationary[graph] THEN Finish("GradientTolerance")
     ELSE IF lm.stalled THEN Return(Failed("NoProgress"))
     ELSE IF stats.accepted = MaxIterations THEN Return(Failed("NoConvergence"))
     ELSE \/ lm' = [lm EXCEPT !.phase = "solve", !.growth = 1, !.tries = 0] /\ UNCHANGED result
          \/ Return(Failed("numbers"))
  /\ UNCHANGED <<problem, model, current, stats, answer>>

GradientNotFinite ==
  /\ lm.phase = "test"
  /\ Return(Failed("numbers"))
  /\ UNCHANGED <<problem, model, current, stats, answer>>

(* solve_damped is tried; what follows is how it may end. *)
Attempted == [stats EXCEPT !.attempts = @ + 1, !.damping = lm.lambda]

Dampened(s, why) == [s EXCEPT !.rejected = @ + 1, !.why = {why}]

(* The end of the loop body after a rejection: give up at the bound of the *)
(* damping or after the last try, otherwise raise the damping.             *)
Retry ==
  IF lm.lambda = MaxDamping \/ lm.tries + 1 = MaxTrials THEN Return(Failed("NoProgress"))
  ELSE /\ lm' = [lm EXCEPT !.phase = "solve", !.tries = @ + 1,
                           !.lambda = Lower(@ + lm.growth, MaxDamping),
                           !.growth = Lower(@ + 1, Higher(MaxDamping, 1))]
       /\ UNCHANGED result

SolveRejected ==
  /\ lm.phase = "solve"
  /\ \E why \in {"LinearSolve", "Prediction"} : stats' = Dampened(Attempted, why)
  /\ Retry
  /\ UNCHANGED <<problem, model, current, answer>>

SolveFails ==
  /\ lm.phase = "solve"
  /\ stats' = Attempted
  /\ Return(Failed("numbers")) \/ Return(Panicked)
  /\ UNCHANGED <<problem, model, current, answer>>

(* A step of finite length that promises an improvement: the trial begins. *)
Solve ==
  /\ lm.phase = "solve"
  /\ stats' = Attempted
  /\ \E e \in Estimate : target' = {e}
  /\ \E small \in BOOLEAN : lm' = [lm EXCEPT !.phase = "trial", !.small = small]
  /\ UNCHANGED <<graph, estimate, shown, model, current, result, answer>>

-----------------------------------------------------------------------------
Abort_LeavesTrial == UNCHANGED problem

(* The guard's drop takes the trial back. *)
Abort == target' = {} /\ UNCHANGED <<graph, estimate, shown>>

StagePanics ==
  /\ lm.phase = "trial"
  /\ Abort
  /\ Return(Panicked)
  /\ UNCHANGED <<model, current, stats, answer>>

TrialCost ==
  /\ lm.phase = "trial"
  /\ stats' = [stats EXCEPT !.evaluations = @ + 1]
  /\ \E e \in target : shown' = e
  /\ Goto("judge")
  /\ UNCHANGED <<graph, estimate, target, model, current, result, answer>>

(* The evaluators are not defined at the trial: retried. *)
TrialInvalid ==
  /\ lm.phase = "trial"
  /\ stats' = Dampened([stats EXCEPT !.evaluations = @ + 1], "InvalidEvaluation")
  /\ Abort
  /\ Retry
  /\ UNCHANGED <<model, current, answer>>

TrialFails ==
  /\ lm.phase = "trial"
  /\ stats' = [stats EXCEPT !.evaluations = @ + 1]
  /\ Abort
  /\ Return(Failed("evaluation")) \/ Return(Panicked)
  /\ UNCHANGED <<model, current, answer>>

(* The factor by which an acceptance scales the damping is in [1/3, 2].    *)
Relaxed(lambda, d) == Lower(Higher(lambda + d, MinDamping), MaxDamping)

AcceptStep_Level(value) ==
  /\ value <= lm.cost
  /\ estimate' \in target
  /\ target' = {}
  /\ current' = FALSE
  /\ stats' = [stats EXCEPT !.accepted = @ + 1, !.cost = {value}]
  /\ \E d \in -2..1, slow \in BOOLEAN :
       lm' = [lm EXCEPT !.phase = "observe", !.cost = value, !.stalled = lm.small /\ slow,
                        !.lambda = Relaxed(@, d)]
  /\ UNCHANGED <<graph, shown, model, result, answer>>

(* A step is accepted if it goes downhill and agrees well enough.  A small *)
(* one that gains little is the last but for a check of the gradient.      *)
AcceptStep(value) ==
  /\ value < lm.cost
  /\ estimate' \in target
  /\ target' = {}
  /\ current' = FALSE
  /\ stats' = [stats EXCEPT !.accepted = @ + 1, !.cost = {value}]
  /\ \E d \in -2..1, slow \in BOOLEAN :
       lm' = [lm EXCEPT !.phase = "observe", !.cost = value, !.stalled = lm.small /\ slow,
                        !.lambda = Relaxed(@, d)]
  /\ UNCHANGED <<graph, shown, model, result, answer>>

(* It goes uphill, or agrees badly. *)
RejectStep ==
  /\ stats' = Dampened(stats, "PoorAgreement")
  /\ Abort
  /\ Retry
  /\ UNCHANGED <<model, current, answer>>

Judge == /\ lm.phase = "judge"
         /\ (\E e \in target : AcceptStep(Cost[graph][e])) \/ RejectStep

Observe_KeepsModel ==
  /\ lm.phase = "observe"
  /\ (Goto("test") /\ UNCHANGED result) \/ Return(Panicked)
  /\ UNCHANGED <<problem, model, current, stats, answer>>

Observe ==
  /\ lm.phase = "observe"
  /\ (Goto("linearize") /\ UNCHANGED result) \/ Return(Panicked)
  /\ UNCHANGED <<problem, model, current, stats, answer>>

(* Workspace::covariance, only after success: the model is made anew       *)
(* unless it is current; the backend extracts from it without touching it. *)
ModelForCovariance ==
  /\ lm.phase = "covariance"
  /\ \/ ~current /\ Linearize /\ Goto("extract") /\ UNCHANGED result
     \/ ~current /\ LinearizeFails /\ (Return(Failed("evaluation")) \/ Return(Panicked))
     \/ current /\ Goto("extract") /\ UNCHANGED <<shown, model, current, result>>
  /\ UNCHANGED <<graph, estimate, target, stats, answer>>

Covariance ==
  /\ lm.phase = "extract"
  /\ lm' = Idle
  /\ \/ answer' = {model.of} /\ UNCHANGED result
     \/ result' = Failed("information") /\ UNCHANGED answer
  /\ UNCHANGED <<problem, model, current, stats>>

-----------------------------------------------------------------------------
Running == \/ InitialCost \/ InitialCostFails \/ NothingToOptimize \/ Relinearize
           \/ Test \/ GradientNotFinite \/ Solve \/ SolveRejected \/ SolveFails
           \/ StagePanics \/ TrialCost \/ TrialInvalid \/ TrialFails \/ Judge \/ Observe
           \/ ModelForCovariance \/ Covariance

Next == \/ Edit \/ \E wants \in BOOLEAN : Optimize(wants)
        \/ Running

Spec == Init /\ [][Next]_vars

-----------------------------------------------------------------------------
Counter == 0..(MaxIterations + 1) * MaxTrials + 1

(* The damping never leaves its bounds, and the number of attempts is      *)
(* bounded by the options (levenberg_marquardt.rs:17-34, 251-343).         *)
TypeOK ==
  /\ WorkspaceTypeOK
  /\ lm.phase \in Phase
  /\ lm.wants \in BOOLEAN /\ lm.small \in BOOLEAN /\ lm.stalled \in BOOLEAN
  /\ lm.lambda \in MinDamping..MaxDamping /\ stats.damping \in MinDamping..MaxDamping
  /\ lm.growth \in Nat /\ lm.tries \in 0..(MaxTrials - 1)
  /\ lm.initial \in Nat /\ lm.cost \in Nat
  /\ stats.accepted \in 0..MaxIterations /\ stats.rejected \in Counter
  /\ stats.attempts \in Counter
  /\ stats.evaluations \in Counter /\ stats.linearizations \in 0..(MaxIterations + 1)
  /\ stats.cost \subseteq Nat /\ Cardinality(stats.cost) <= 1
  /\ stats.why \subseteq Rejection /\ Cardinality(stats.why) <= 1

(* The cost the loop compares trials with, the one in the statistics and   *)
(* the one in the report are the cost of the accepted estimates: no trial  *)
(* that was taken back has left its cost behind (lines 97, 225-236, 307).  *)
CostIsTracked ==
  /\ lm.phase \notin {"idle", "cost"} => lm.cost = CostHere /\ stats.cost = {lm.cost}
  /\ result.kind = "ok" => result.final = CostHere /\ stats.cost = {result.final}

(* A backend is only asked for a gradient or a step of the problem as it   *)
(* is, from a linearization that was completed (optimization.rs:137-142).  *)
SolvesFreshModel ==
  lm.phase \in {"test", "solve", "trial", "judge"} => current /\ ModelIsFresh

(* The counters of LmStatistics tell what happened: every attempt was      *)
(* accepted, rejected, or ended the call; Jacobians are evaluated once for *)
(* each accepted state (lines 83-104, 125-127).                            *)
StatisticsAdd ==
  LET open == stats.attempts - stats.accepted - stats.rejected
  IN  /\ open \in 0..1
      /\ open = 1 => lm.phase \in {"trial", "judge", "idle"} /\ result.kind # "ok"
      /\ stats.linearizations <= stats.accepted + 1
      /\ stats.accepted <= stats.evaluations
      /\ stats.rejected > 0 <=> stats.why # {}

(* What the loop relies on at each of its calls to the evaluators, the     *)
(* backend and the observer, whichever failed before, and what its         *)
(* statistics, which are read after errors too, say of it (lines 210-343). *)
LoopInvariant == TypeOK /\ CostIsTracked /\ SolvesFreshModel /\ StatisticsAdd

(* Success means that the gradient vanishes, and is only reported where    *)
(* the estimates are (lines 134-137).                                      *)
SuccessIsStationary ==
  result.kind = "ok" => \/ graph \in NoVariables
                        \/ estimate \in Stationary[graph]

(* The call gives up only after an attempt at the bound of the damping,    *)
(* after as many attempts as allowed, or after a step that gained nothing, *)
(* and on reaching the bound of the iterations only there (README.md:455). *)
GivesUpLate ==
  /\ result.why = "NoProgress" =>
       \/ stats.damping = MaxDamping /\ stats.rejected > 0
       \/ stats.rejected >= MaxTrials
       \/ stats.accepted > 0
  /\ result.why = "NoConvergence" => stats.accepted = MaxIterations

(* The verdict of a call is earned: success by a vanishing gradient, giving *)
(* up by having tried all that the options allow (lines 230-345).          *)
VerdictIsEarned == SuccessIsStationary /\ GivesUpLate

(* A covariance is that of the problem and the estimates the call ended    *)
(* with (solver.rs:225-259).                                               *)
CovarianceOfTheResult == answer # {} => answer = {Here} /\ result.kind = "ok"

(* An optimization never makes the problem worse, however it ends.         *)
OnlyDownhill == [][lm.phase # "idle" /\ estimate' # estimate => CostHere' < CostHere]_vars

(* Seen from outside, estimates move only as EstimateStore allows: to a    *)
(* target at once, or not at all, through every accepted, rejected, failed *)
(* or panicking attempt (levenberg_marquardt.rs:210-345).                  *)
RefinesEstimates == Estimates!Spec
=============================================================================
