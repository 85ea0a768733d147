------------------------- MODULE GaussNewton_proofs -------------------------
(* The Gauss-Newton loop is right for every problem, every way the         *)
(* evaluators and the backend may fail, and any number of iterations.  The *)
(* inductive invariant says in addition, of each phase of the loop,        *)
(* whether a trial is open, whether the model is current, and that nothing *)
(* is reported while the loop runs.                                        *)
EXTENDS GaussNewton, TLAPS

Stepping == {"solve", "trial", "accept"}
Looping == {"linearize", "test"} \cup Stepping
Closing == {"covariance", "extract"}

GnType == gn \in [phase : Phase, wants : BOOLEAN, iterations : 0..MaxIterations,
                  initial : Nat, cost : Nat]

(* A trial is open until it is accepted or fails, and at no other time. *)
TrialFits == IF gn.phase \in {"trial", "accept"} THEN \E e \in Estimate : target = {e}
             ELSE target = {}

(* During a call a current model is a fresh one; it is not factored before *)
(* the step is solved for.                                                 *)
ModelFits ==
  /\ gn.phase # "idle" /\ current => ModelIsFresh
  /\ gn.phase \in {"test", "solve"} => current /\ model.form = "whole"
  /\ gn.phase = "extract" => ModelIsFresh

(* Nothing is reported while the loop runs; the covariance follows success.*)
ResultFits ==
  /\ result.iterations \in 0..MaxIterations
  /\ gn.phase \in {"cost"} \cup Looping => result = NoResult
  /\ gn.phase \in Closing => result.kind = "ok"
  /\ gn.phase # "idle" => answer = {}

(* A step is only solved for while one more is allowed. *)
StepsFit == gn.phase \in Stepping => gn.iterations < MaxIterations

IInv == /\ WorkspaceTypeOK /\ GnType /\ TrialFits /\ ModelFits /\ ResultFits /\ StepsFit
        /\ ReportIsTrue /\ CovarianceOfTheResult

-----------------------------------------------------------------------------
(* Costs are numbers. *)
LEMMA CostIsNumber ==
  ASSUME WorkspaceTypeOK
  PROVE  CostHere \in Nat /\ \A e \in Estimate : Cost[graph][e] \in Nat
BY CostAssumption DEF WorkspaceTypeOK, CostHere

(* A linearization is one of the problem as it is. *)
LEMMA LinearizeTypes ==
  ASSUME WorkspaceTypeOK, UNCHANGED <<graph, estimate, target>>, Linearize \/ LinearizeFails
  PROVE  WorkspaceTypeOK'
<1>1. Here \in [graph : Graph, estimate : Estimate]
  BY DEF WorkspaceTypeOK, Here
<1>2. model' \in Model
  BY <1>1 DEF Linearize, LinearizeFails, Model, Form
<1>3. shown' \in Estimate /\ current' \in BOOLEAN
  BY DEF Linearize, LinearizeFails, WorkspaceTypeOK
<1> QED BY <1>2, <1>3 DEF WorkspaceTypeOK

(* What a factorization makes of a model is a model of the same problem.   *)
LEMMA FactorizedModel ==
  ASSUME model \in Model
  PROVE  /\ Factorized \in Model /\ Factorized.of = model.of
         /\ model.form = "whole" => Factorized.form = "factor"
         /\ \A m \in {Factorized, model, [model EXCEPT !.form = "ruined"]} : m \in Model
<1>1. /\ [model EXCEPT !.form = "factor"] \in Model /\ [model EXCEPT !.form = "ruined"] \in Model
      /\ [model EXCEPT !.form = "factor"].of = model.of
      /\ [model EXCEPT !.form = "factor"].form = "factor"
  BY DEF Model, Form
<1> QED BY <1>1 DEF Factorized

(* The local variables of no call are within bounds. *)
LEMMA IdleFits == gn' = Idle => GnType'
<1>1. 0 \in 0..MaxIterations
  BY MaxIterationsIsPositive
<1> QED BY <1>1 DEF GnType, Idle, Phase

(* The call ends with an error or a panic. *)
LEMMA CallFails ==
  ASSUME NEW why, Return(Failed(why)) \/ Return(Panicked), why # "GradientTolerance",
         WorkspaceTypeOK', target' = {}, answer' = {}
  PROVE  IInv'
<1>1. /\ gn' = Idle /\ result'.kind # "ok" /\ result'.why # "GradientTolerance"
      /\ result'.iterations = 0
  BY DEF Return, Failed, Panicked, NoResult
<1>2. GnType' /\ gn'.phase = "idle"
  BY <1>1, IdleFits DEF Idle
<1>3. TrialFits' /\ ModelFits' /\ ResultFits' /\ StepsFit'
  BY <1>1, <1>2, MaxIterationsIsPositive
     DEF TrialFits, ModelFits, ResultFits, StepsFit, Stepping, Looping, Closing
<1>4. ReportIsTrue' /\ CovarianceOfTheResult'
  BY <1>1, <1>2 DEF ReportIsTrue, CovarianceOfTheResult
<1> QED BY <1>2, <1>3, <1>4 DEF IInv

(* The call succeeds with the cost of the accepted estimates, and ends or  *)
(* goes on to the covariance.                                              *)
LEMMA CallSucceeds ==
  ASSUME GnType, answer' = {}, WorkspaceTypeOK', target' = {},
         current' => ModelIsFresh',
         gn' = Idle \/ gn' = [gn EXCEPT !.phase = "covariance"],
         result'.kind = "ok", result'.final = CostHere',
         result'.iterations \in 0..MaxIterations,
         result'.why = "GradientTolerance" => estimate' \in Stationary[graph']
  PROVE  IInv'
<1>1. GnType' /\ gn'.phase \in {"idle", "covariance"}
  BY IdleFits DEF GnType, Idle, Phase
<1>2. TrialFits' /\ ModelFits' /\ ResultFits' /\ StepsFit'
  BY <1>1 DEF TrialFits, ModelFits, ResultFits, StepsFit, Stepping, Looping, Closing
<1>3. ReportIsTrue' /\ CovarianceOfTheResult'
  BY <1>1 DEF ReportIsTrue, CovarianceOfTheResult
<1> QED BY <1>1, <1>2, <1>3 DEF IInv

(* The call goes on in its loop, with nothing to report. *)
LEMMA CallContinues ==
  ASSUME IInv, gn.phase \in {"cost"} \cup Looping, UNCHANGED <<result, answer>>,
         WorkspaceTypeOK', GnType', gn'.phase \in Looping, TrialFits',
         gn'.cost = CostHere', StepsFit',
         current' => ModelIsFresh',
         gn'.phase \in {"test", "solve"} => current' /\ model'.form = "whole"
  PROVE  IInv'
<1>1. result = NoResult /\ answer = {} /\ gn'.phase \notin {"idle", "extract"} \cup Closing
  BY DEF IInv, ResultFits, Looping, Stepping, Closing
<1>2. ModelFits' /\ ResultFits'
  BY <1>1 DEF IInv, ModelFits, ResultFits
<1>3. ReportIsTrue' /\ CovarianceOfTheResult'
  BY <1>1 DEF ReportIsTrue, CovarianceOfTheResult, NoResult
<1> QED BY <1>2, <1>3 DEF IInv

-----------------------------------------------------------------------------
LEMMA InitialCostStep == IInv /\ InitialCost => IInv'
<1> SUFFICES ASSUME IInv, InitialCost PROVE IInv'
  OBVIOUS
<1>1. /\ gn.phase = "cost" /\ target' = {} /\ answer' = {} /\ CostHere' = CostHere
      /\ UNCHANGED <<graph, estimate, target, model, current, answer>>
      /\ CostHere \in Nat /\ gn \in [phase : Phase, wants : BOOLEAN,
                                     iterations : 0..MaxIterations, initial : Nat, cost : Nat]
  BY CostIsNumber DEF InitialCost, IInv, TrialFits, ResultFits, CostHere, GnType
<1>2. WorkspaceTypeOK'
  BY <1>1 DEF InitialCost, IInv, WorkspaceTypeOK
<1>3. current' => ModelIsFresh'
  BY <1>1 DEF IInv, ModelFits, ModelIsFresh, Here
<1>4. CASE graph \in NoVariables
  <2>1. /\ result' = [Report("NoVariables", CostHere, 0) EXCEPT !.initial = CostHere]
        /\ gn' = Idle \/ gn' = [gn EXCEPT !.phase = "covariance"]
    BY <1>4 DEF InitialCost
  <2>2. /\ result'.kind = "ok" /\ result'.final = CostHere' /\ result'.iterations = 0
        /\ result'.why # "GradientTolerance"
    BY <1>1, <2>1 DEF Report
  <2> QED BY <1>1, <1>2, <1>3, <2>1, <2>2, MaxIterationsIsPositive, CallSucceeds DEF GnType
<1>5. CASE graph \notin NoVariables
  <2>1. /\ gn' = [gn EXCEPT !.phase = "linearize", !.initial = CostHere, !.cost = CostHere]
        /\ result' = result
    BY <1>5 DEF InitialCost
  <2>2. GnType' /\ gn'.phase = "linearize" /\ gn'.cost = CostHere'
    BY <1>1, <2>1 DEF GnType, Phase
  <2>3. TrialFits' /\ StepsFit'
    BY <1>1, <2>2 DEF TrialFits, StepsFit, Stepping
  <2> QED BY <1>1, <1>2, <1>3, <2>1, <2>2, <2>3, CallContinues DEF Looping
<1> QED BY <1>4, <1>5

LEMMA InitialCostFailsStep == IInv /\ InitialCostFails => IInv'
<1> SUFFICES ASSUME IInv, InitialCostFails PROVE IInv'
  OBVIOUS
<1>1. target' = {} /\ answer' = {} /\ WorkspaceTypeOK'
  BY DEF IInv, InitialCostFails, problem, TrialFits, ResultFits, WorkspaceTypeOK
<1> QED BY <1>1, CallFails DEF InitialCostFails

(* Every iteration linearizes anew. *)
LEMMA RelinearizeStep == IInv /\ Relinearize => IInv'
<1> SUFFICES ASSUME IInv, Relinearize PROVE IInv'
  OBVIOUS
<1>1. /\ gn.phase = "linearize" /\ target' = {} /\ answer' = {}
      /\ UNCHANGED <<graph, estimate, target, answer>> /\ CostHere' = CostHere
  BY DEF IInv, Relinearize, TrialFits, ResultFits, CostHere
<1>2. WorkspaceTypeOK'
  BY <1>1, LinearizeTypes DEF IInv, Relinearize
<1>3. CASE LinearizeFails /\ (Return(Failed("evaluation")) \/ Return(Panicked))
  BY <1>1, <1>2, <1>3, CallFails
<1>4. CASE Linearize /\ Goto("test") /\ UNCHANGED result
  <2>1. GnType' /\ gn'.phase = "test" /\ gn'.cost = CostHere'
    BY <1>1, <1>4 DEF IInv, GnType, Goto, Phase, ReportIsTrue
  <2>2. ModelIsFresh' /\ model'.form = "whole" /\ current'
    BY <1>1, <1>4 DEF Linearize, ModelIsFresh, Here
  <2>3. TrialFits' /\ StepsFit'
    BY <1>1, <2>1 DEF TrialFits, StepsFit, Stepping
  <2> QED BY <1>1, <1>2, <1>4, <2>1, <2>2, <2>3, CallContinues DEF Looping
<1> QED BY <1>3, <1>4 DEF Relinearize

(* The test of the gradient reads the model and writes nothing. *)
LEMMA TestStep == IInv /\ Test => IInv'
<1> SUFFICES ASSUME IInv, Test PROVE IInv'
  OBVIOUS
<1>1. /\ gn.phase = "test" /\ target' = {} /\ answer' = {} /\ gn.cost = CostHere'
      /\ UNCHANGED <<graph, estimate, target, shown, model, current, answer>>
  BY DEF IInv, Test, TrialFits, ResultFits, CostHere, ReportIsTrue, problem
<1>2. WorkspaceTypeOK' /\ (current' => ModelIsFresh')
  BY <1>1 DEF IInv, WorkspaceTypeOK, ModelFits, ModelIsFresh, Here
<1>3. CASE \E why \in {"NoConvergence", "numbers"} : Return(Failed(why))
  BY <1>1, <1>2, <1>3, CallFails
<1>4. CASE estimate \in Stationary[graph] /\ Finish("GradientTolerance")
  <2>1. /\ result' = Report("GradientTolerance", gn.cost, gn.iterations)
        /\ gn' = Idle \/ gn' = [gn EXCEPT !.phase = "covariance"]
    BY <1>4 DEF Finish, FinishWith
  <2>2. /\ result'.kind = "ok" /\ result'.final = CostHere'
        /\ result'.iterations \in 0..MaxIterations
    BY <1>1, <2>1 DEF IInv, GnType, Report
  <2> QED BY <1>1, <1>2, <1>4, <2>1, <2>2, CallSucceeds DEF IInv
<1>5. CASE gn.iterations # MaxIterations /\ Goto("solve") /\ UNCHANGED result
  <2>1. GnType' /\ gn'.phase = "solve" /\ gn'.cost = CostHere'
    BY <1>1, <1>5 DEF IInv, GnType, Goto, Phase
  <2>2. TrialFits'
    BY <1>1, <2>1 DEF TrialFits
  <2>3. StepsFit'
    BY <1>5, MaxIterationsIsPositive DEF IInv, GnType, Goto, StepsFit
  <2>4. current' /\ model'.form = "whole"
    BY <1>1 DEF IInv, ModelFits
  <2> QED BY <1>1, <1>2, <1>5, <2>1, <2>2, <2>3, <2>4, CallContinues DEF Looping, Stepping
<1> QED BY <1>3, <1>4, <1>5 DEF Test

LEMMA SolveFailsStep == IInv /\ SolveFails => IInv'
<1> SUFFICES ASSUME IInv, SolveFails PROVE IInv'
  OBVIOUS
<1>1. target' = {} /\ answer' = {} /\ model' \in Model
  BY FactorizedModel DEF IInv, SolveFails, problem, TrialFits, ResultFits, WorkspaceTypeOK
<1>2. WorkspaceTypeOK'
  BY <1>1 DEF IInv, SolveFails, problem, WorkspaceTypeOK
<1> QED BY <1>1, <1>2, CallFails DEF SolveFails

(* A step is solved for, which leaves the factor of the model. *)
LEMMA SolveStep == IInv /\ Solve => IInv'
<1> SUFFICES ASSUME IInv, Solve PROVE IInv'
  OBVIOUS
<1>1. /\ gn.phase = "solve" /\ answer' = {} /\ gn.cost = CostHere' /\ model' = Factorized
      /\ UNCHANGED <<graph, estimate, shown, current, answer>>
  BY DEF IInv, Solve, ResultFits, CostHere, ReportIsTrue
<1>2. ModelIsFresh' /\ model' \in Model
  BY <1>1, FactorizedModel DEF IInv, WorkspaceTypeOK, ModelFits, ModelIsFresh, Here
<1>3. CASE Finish("StepTolerance") /\ UNCHANGED target
  <2>1. /\ result' = Report("StepTolerance", gn.cost, gn.iterations)
        /\ gn' = Idle \/ gn' = [gn EXCEPT !.phase = "covariance"]
    BY <1>3 DEF Finish, FinishWith
  <2>2. /\ result'.kind = "ok" /\ result'.final = CostHere'
        /\ result'.iterations \in 0..MaxIterations /\ result'.why # "GradientTolerance"
    BY <1>1, <2>1 DEF IInv, GnType, Report
  <2>3. target' = {} /\ WorkspaceTypeOK'
    BY <1>1, <1>2, <1>3 DEF IInv, TrialFits, WorkspaceTypeOK
  <2> QED BY <1>1, <1>2, <2>1, <2>2, <2>3, CallSucceeds DEF IInv
<1>4. CASE (\E e \in Estimate : target' = {e}) /\ Goto("trial") /\ UNCHANGED result
  <2>1. GnType' /\ gn'.phase = "trial" /\ gn'.cost = CostHere' /\ StepsFit'
    BY <1>1, <1>4 DEF IInv, GnType, Goto, Phase, StepsFit, Stepping
  <2>2. TrialFits' /\ WorkspaceTypeOK'
    BY <1>1, <1>2, <1>4, <2>1 DEF IInv, TrialFits, WorkspaceTypeOK
  <2> QED BY <1>1, <1>2, <1>4, <2>1, <2>2, CallContinues DEF Looping, Stepping
<1> QED BY <1>3, <1>4 DEF Solve

(* A trial that breaks off is taken back. *)
LEMMA TrialFailsStep == IInv /\ TrialFails => IInv'
<1> SUFFICES ASSUME IInv, TrialFails PROVE IInv'
  OBVIOUS
<1>1. target' = {} /\ answer' = {} /\ WorkspaceTypeOK'
  BY DEF IInv, TrialFails, Abort, ResultFits, WorkspaceTypeOK
<1> QED BY <1>1, CallFails DEF TrialFails

LEMMA TrialCostStep == IInv /\ TrialCost => IInv'
<1> SUFFICES ASSUME IInv, TrialCost PROVE IInv'
  OBVIOUS
<1>1. /\ gn.phase = "trial" /\ gn.cost = CostHere'
      /\ UNCHANGED <<graph, estimate, target, model, current, result, answer>>
  BY DEF IInv, TrialCost, CostHere, ReportIsTrue
<1>2. GnType' /\ gn'.phase = "accept" /\ gn'.cost = CostHere' /\ StepsFit'
  BY <1>1 DEF TrialCost, IInv, GnType, Goto, Phase, StepsFit, Stepping
<1>3. TrialFits' /\ WorkspaceTypeOK'
  BY <1>1, <1>2 DEF TrialCost, IInv, TrialFits, WorkspaceTypeOK
<1>4. current' => ModelIsFresh'
  BY <1>1 DEF IInv, ModelFits, ModelIsFresh, Here
<1> QED BY <1>1, <1>2, <1>3, <1>4, CallContinues DEF Looping, Stepping

(* A step that was evaluated becomes the estimates, with its cost. *)
LEMMA AcceptStepStep == IInv /\ AcceptStep => IInv'
<1> SUFFICES ASSUME IInv, AcceptStep PROVE IInv'
  OBVIOUS
<1> DEFINE value == Cost[graph][estimate']
<1>1. /\ gn.phase = "accept" /\ target' = {} /\ answer' = {} /\ current' = FALSE
      /\ UNCHANGED <<graph, shown, model, answer>> /\ Stop(value)
  BY DEF IInv, AcceptStep, ResultFits
<1>2. estimate' \in Estimate /\ value = CostHere' /\ value \in Nat
  BY <1>1, CostIsNumber DEF IInv, AcceptStep, TrialFits, CostHere
<1> HIDE DEF value
<1>3. WorkspaceTypeOK'
  BY <1>1, <1>2 DEF IInv, WorkspaceTypeOK
<1>4. gn.iterations + 1 \in 0..MaxIterations
  BY <1>1, MaxIterationsIsPositive DEF IInv, GnType, StepsFit, Stepping
<1>5. CASE FinishWith("CostTolerance", value, gn.iterations + 1)
  <2>1. /\ result' = Report("CostTolerance", value, gn.iterations + 1)
        /\ gn' = Idle \/ gn' = [gn EXCEPT !.phase = "covariance"]
    BY <1>5 DEF FinishWith
  <2>2. /\ result'.kind = "ok" /\ result'.final = CostHere'
        /\ result'.iterations \in 0..MaxIterations /\ result'.why # "GradientTolerance"
    BY <1>2, <1>4, <2>1 DEF Report
  <2> QED BY <1>1, <1>3, <2>1, <2>2, CallSucceeds DEF IInv
<1>6. CASE /\ gn' = [gn EXCEPT !.phase = "linearize", !.cost = value, !.iterations = @ + 1]
           /\ UNCHANGED result
  <2>1. GnType' /\ gn'.phase = "linearize" /\ gn'.cost = CostHere'
    BY <1>2, <1>4, <1>6 DEF IInv, GnType, Phase
  <2>2. TrialFits' /\ StepsFit'
    BY <1>1, <2>1 DEF TrialFits, StepsFit, Stepping
  <2> QED BY <1>1, <1>3, <1>6, <2>1, <2>2, CallContinues DEF Looping, Stepping
<1> QED BY <1>1, <1>5, <1>6 DEF Stop

(* The model for the covariance is the current one, or made anew. *)
LEMMA ModelForCovarianceStep == IInv /\ ModelForCovariance => IInv'
<1> SUFFICES ASSUME IInv, ModelForCovariance PROVE IInv'
  OBVIOUS
<1>1. /\ gn.phase = "covariance" /\ target' = {} /\ answer' = {}
      /\ UNCHANGED <<graph, estimate, target, answer>>
  BY DEF IInv, ModelForCovariance, TrialFits, ResultFits
<1>2. WorkspaceTypeOK'
  <2>1. CASE Linearize \/ LinearizeFails
    BY <1>1, <2>1, LinearizeTypes DEF IInv
  <2>2. CASE UNCHANGED <<shown, model, current>>
    BY <1>1, <2>2 DEF IInv, WorkspaceTypeOK
  <2> QED BY <2>1, <2>2 DEF ModelForCovariance
<1>3. CASE LinearizeFails /\ (Return(Failed("evaluation")) \/ Return(Panicked))
  BY <1>1, <1>2, <1>3, CallFails
<1>4. ASSUME Linearize \/ (current /\ UNCHANGED <<shown, model, current>>) PROVE ModelIsFresh'
  BY <1>1, <1>4 DEF IInv, ModelFits, ModelIsFresh, Here, Linearize
<1>5. CASE Goto("extract") /\ UNCHANGED result /\ ModelIsFresh'
  <2>1. GnType' /\ gn'.phase = "extract"
    BY <1>5 DEF IInv, GnType, Goto, Phase
  <2>2. TrialFits' /\ ModelFits' /\ ResultFits' /\ StepsFit'
    BY <1>1, <1>5, <2>1 DEF IInv, TrialFits, ModelFits, ResultFits, StepsFit, Stepping,
       Looping, Closing
  <2>3. ReportIsTrue' /\ CovarianceOfTheResult'
    BY <1>1, <1>5, <2>1 DEF IInv, ReportIsTrue, CovarianceOfTheResult, CostHere
  <2> QED BY <1>2, <2>1, <2>2, <2>3 DEF IInv
<1> QED BY <1>3, <1>4, <1>5 DEF ModelForCovariance

LEMMA CovarianceStep == IInv /\ Covariance => IInv'
<1> SUFFICES ASSUME IInv, Covariance PROVE IInv'
  OBVIOUS
<1>1. /\ gn.phase = "extract" /\ gn' = Idle /\ target' = {} /\ answer = {}
      /\ UNCHANGED <<graph, estimate, target, shown, current>>
  BY DEF IInv, Covariance, TrialFits, ResultFits, problem
<1>2. model' \in Model
  BY FactorizedModel DEF IInv, WorkspaceTypeOK, Covariance
<1>3. WorkspaceTypeOK'
  BY <1>1, <1>2 DEF IInv, WorkspaceTypeOK
<1>4. CASE result' = Failed("information") /\ UNCHANGED answer
  BY <1>1, <1>3, <1>4, CallFails DEF Return
<1>5. CASE answer' = {model.of} /\ UNCHANGED result
  <2>1. GnType' /\ gn'.phase = "idle"
    BY <1>1, IdleFits DEF Idle
  <2>2. model.of = Here /\ Here' = Here /\ result.kind = "ok"
    BY <1>1 DEF IInv, ModelFits, ModelIsFresh, Here, ResultFits, Closing
  <2>3. TrialFits' /\ ModelFits' /\ ResultFits' /\ StepsFit'
    BY <1>1, <1>5, <2>1 DEF IInv, TrialFits, ModelFits, ResultFits, StepsFit, Stepping,
       Looping, Closing
  <2>4. ReportIsTrue' /\ CovarianceOfTheResult'
    BY <1>1, <1>5, <2>1, <2>2 DEF IInv, ReportIsTrue, CovarianceOfTheResult, CostHere
  <2> QED BY <1>3, <2>1, <2>3, <2>4 DEF IInv
<1> QED BY <1>4, <1>5 DEF Covariance

(* Between calls the problem is edited. *)
LEMMA EditStep == IInv /\ Edit => IInv'
<1> SUFFICES ASSUME IInv, Edit PROVE IInv'
  OBVIOUS
<1>1. /\ gn.phase = "idle" /\ gn' = gn /\ target' = {} /\ result' = NoResult /\ answer' = {}
  BY DEF IInv, Edit, EditProblem, TrialFits
<1>2. WorkspaceTypeOK' /\ GnType'
  BY DEF IInv, Edit, EditProblem, WorkspaceTypeOK, GnType
<1>3. TrialFits' /\ ModelFits' /\ ResultFits' /\ StepsFit'
  BY <1>1, MaxIterationsIsPositive DEF TrialFits, ModelFits, ResultFits, StepsFit, NoResult,
     Stepping, Looping, Closing
<1>4. ReportIsTrue' /\ CovarianceOfTheResult'
  BY <1>1 DEF ReportIsTrue, CovarianceOfTheResult, NoResult
<1> QED BY <1>2, <1>3, <1>4 DEF IInv

LEMMA OptimizeStep == ASSUME IInv, NEW wants \in BOOLEAN, Optimize(wants) PROVE IInv'
<1>1. /\ target' = {} /\ answer' = {} /\ current' = FALSE
      /\ UNCHANGED <<graph, estimate, target, shown>>
  BY DEF IInv, Optimize, TrialFits, problem, Prepare, PrepareFails
<1>2. WorkspaceTypeOK'
  BY <1>1 DEF IInv, WorkspaceTypeOK, Optimize, Prepare, PrepareFails, Model, Form
<1>3. CASE Return(Failed("prepare"))
  BY <1>1, <1>2, <1>3, CallFails
<1>4. CASE gn' = [Idle EXCEPT !.phase = "cost", !.wants = wants] /\ result' = NoResult
  <2>1. GnType' /\ gn'.phase = "cost"
    <3>1. 0 \in 0..MaxIterations
      BY MaxIterationsIsPositive
    <3> QED BY <1>4, <3>1 DEF GnType, Idle, Phase
  <2>2. TrialFits' /\ ModelFits' /\ ResultFits' /\ StepsFit'
    BY <1>1, <1>4, <2>1, MaxIterationsIsPositive DEF TrialFits, ModelFits, ResultFits, StepsFit,
       NoResult, Stepping, Looping, Closing
  <2>3. ReportIsTrue' /\ CovarianceOfTheResult'
    BY <1>1, <1>4, <2>1 DEF ReportIsTrue, CovarianceOfTheResult, NoResult
  <2> QED BY <1>2, <2>1, <2>2, <2>3 DEF IInv
<1> QED BY <1>3, <1>4 DEF Optimize

LEMMA GNInit == Init => IInv
<1> SUFFICES ASSUME Init PROVE IInv
  OBVIOUS
<1>1. WorkspaceTypeOK
  BY DEF Init, WorkspaceInit, WorkspaceTypeOK, Model, Form, Here
<1>2. GnType /\ gn.phase = "idle"
  BY MaxIterationsIsPositive DEF Init, GnType, Idle, Phase
<1>3. TrialFits /\ ModelFits /\ ResultFits /\ StepsFit
  BY <1>2, MaxIterationsIsPositive DEF Init, WorkspaceInit, TrialFits, ModelFits, ResultFits,
     StepsFit, NoResult, Stepping, Looping, Closing
<1>4. ReportIsTrue /\ CovarianceOfTheResult
  BY <1>2 DEF Init, ReportIsTrue, CovarianceOfTheResult, NoResult
<1> QED BY <1>1, <1>2, <1>3, <1>4 DEF IInv

LEMMA GNStep == IInv /\ [Next]_vars => IInv'
<1> SUFFICES ASSUME IInv, [Next]_vars PROVE IInv'
  OBVIOUS
<1>1. CASE UNCHANGED vars
  BY <1>1 DEF vars, problem, IInv, WorkspaceTypeOK, GnType, TrialFits, ModelFits,
     ModelIsFresh, Here, CostHere, ResultFits, StepsFit, ReportIsTrue, CovarianceOfTheResult
<1>2. CASE Edit \/ \E wants \in BOOLEAN : Optimize(wants)
  BY <1>2, EditStep, OptimizeStep
<1>3. CASE Running
  BY <1>3, InitialCostStep, InitialCostFailsStep, RelinearizeStep, TestStep, SolveStep,
     SolveFailsStep, TrialCostStep, TrialFailsStep, AcceptStepStep, ModelForCovarianceStep,
     CovarianceStep DEF Running
<1> QED BY <1>1, <1>2, <1>3 DEF Next

LEMMA GNInvariant == Spec => []IInv
BY GNInit, GNStep, PTL DEF Spec

-----------------------------------------------------------------------------
(* Whatever failed before: no more steps are taken than allowed, and the   *)
(* backend is asked for a gradient and a step only of a fresh model that   *)
(* no factorization has overwritten yet (gauss_newton.rs:106-157).         *)
THEOREM LoopIsSound == Spec => []LoopInvariant
<1>1. ASSUME IInv PROVE LoopInvariant
  <2>1. TypeOK
    BY <1>1 DEF IInv, GnType, ResultFits, TypeOK
  <2>2. SolvesOncePerModel
    BY <1>1 DEF IInv, ModelFits, SolvesOncePerModel, GnType, Phase
  <2> QED BY <2>1, <2>2 DEF LoopInvariant
<1> QED BY <1>1, GNInvariant, PTL

(* The cost that is compared and reported is that of the accepted          *)
(* estimates, and convergence by the gradient is theirs                    *)
(* (gauss_newton.rs:108-117, 144-156).                                     *)
THEOREM ReportsAreTrue == Spec => []ReportIsTrue
<1>1. IInv => ReportIsTrue
  BY DEF IInv
<1> QED BY <1>1, GNInvariant, PTL

(* A covariance is one of the estimates the call ended with, from a whole  *)
(* linearization (solver.rs:225-259).                                      *)
THEOREM CovarianceFitsTheResult == Spec => []CovarianceOfTheResult
<1>1. IInv => CovarianceOfTheResult
  BY DEF IInv
<1> QED BY <1>1, GNInvariant, PTL

LEMMA EstimatesStep == IInv /\ [Next]_vars => [Estimates!Next]_(Estimates!vars)
<1> SUFFICES ASSUME IInv, [Next]_vars PROVE [Estimates!Next]_(Estimates!vars)
  OBVIOUS
<1> USE DEF Estimates!vars, Estimates!Next
<1>1. CASE UNCHANGED <<estimate, target, shown>>
  BY <1>1
<1>2. CASE Edit
  BY <1>2 DEF Edit, EditProblem, IInv, TrialFits, Estimates!Edit
<1>3. CASE InitialCost
  BY <1>3 DEF InitialCost, IInv, TrialFits, Estimates!Read
<1>4. CASE Relinearize \/ ModelForCovariance
  BY <1>4 DEF Relinearize, ModelForCovariance, Linearize, LinearizeFails, IInv, TrialFits,
     Estimates!Read
<1>5. CASE Solve
  BY <1>5 DEF Solve, IInv, TrialFits, Estimates!Begin
<1>6. CASE TrialCost
  BY <1>6 DEF TrialCost, Estimates!Evaluate
<1>7. CASE TrialFails
  <2>1. target # {}
    BY <1>7 DEF TrialFails, IInv, TrialFits
  <2> QED BY <1>7, <2>1 DEF TrialFails, Abort, Estimates!Abort
<1>8. CASE AcceptStep
  <2>1. \E e \in target : estimate' = e
    BY <1>8 DEF AcceptStep
  <2> QED BY <1>8, <2>1 DEF AcceptStep, Estimates!Commit
<1> QED BY <1>1, <1>2, <1>3, <1>4, <1>5, <1>6, <1>7, <1>8
        DEF Next, vars, problem, Optimize, Running, InitialCostFails, Test, SolveFails, Covariance

(* The loop implements EstimateStore: its estimates are replaced whole or  *)
(* not at all (gauss_newton.rs:83-158).                                    *)
THEOREM LoopRefinesEstimates == Spec => RefinesEstimates
<1>1. Init => Estimates!Init
  BY DEF Init, WorkspaceInit, Estimates!Init
<1> QED BY <1>1, EstimatesStep, GNInvariant, PTL DEF Spec, Estimates!Spec, RefinesEstimates
=============================================================================
