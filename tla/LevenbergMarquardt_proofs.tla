---------------------- MODULE LevenbergMarquardt_proofs ----------------------
(* The Levenberg-Marquardt loop is right for every problem, every way the  *)
(* evaluators, the backend and the observer may fail, and every valid      *)
(* choice of the options.                                                  *)
(*                                                                         *)
(* What the runs check is not inductive.  The inductive invariant says in  *)
(* addition, of each phase of the loop: whether a trial is open and        *)
(* whether the model is current; that nothing is reported while the loop   *)
(* runs; and how much of the budget of attempts the iterations and tries   *)
(* so far may have used.                                                   *)
EXTENDS LevenbergMarquardt, TLAPS, FiniteSetTheorems

Trying == {"solve", "trial", "judge"}
Looping == {"linearize", "test", "observe"} \cup Trying
Closing == {"covariance", "extract"}

AtMostOne(S) == {{}} \cup {{x} : x \in S}

LmType ==
  lm \in [phase : Phase, wants : BOOLEAN, lambda : MinDamping..MaxDamping, growth : Nat,
          tries : 0..(MaxTrials - 1), small : BOOLEAN, stalled : BOOLEAN,
          initial : Nat, cost : Nat]

StatsType ==
  stats \in [linearizations : Nat, attempts : Nat, rejected : Nat,
             accepted : 0..MaxIterations, evaluations : Nat,
             damping : MinDamping..MaxDamping,
             cost : AtMostOne(Nat), why : AtMostOne(Rejection)]

(* A trial is open while it is evaluated and judged, and at no other time. *)
TrialFits == IF lm.phase \in {"trial", "judge"} THEN \E e \in Estimate : target = {e}
             ELSE target = {}

(* During a call a current model is a fresh one, and the loop has one from *)
(* the test of the gradient to the judgement of a trial.                   *)
ModelFits ==
  /\ lm.phase # "idle" /\ current => ModelIsFresh
  /\ lm.phase \in {"test"} \cup Trying => current
  /\ lm.phase = "extract" => ModelIsFresh

(* Nothing is reported while the loop runs; the covariance follows success.*)
ResultFits ==
  /\ lm.phase \in {"cost"} \cup Looping => result = NoResult
  /\ lm.phase \in Closing => result.kind = "ok" /\ result.why \notin {"NoProgress", "NoConvergence"}
  /\ lm.phase # "idle" => answer = {}

(* The attempts that were decided. *)
Ended == stats.accepted + stats.rejected

(* What the counters are within at any time. *)
SpentFits ==
  /\ stats.attempts \in {Ended, Ended + 1}
  /\ stats.attempts <= MaxIterations * MaxTrials
  /\ stats.rejected > 0 <=> stats.why # {}
  /\ stats.accepted <= stats.evaluations /\ stats.evaluations <= stats.attempts + 1
  /\ stats.linearizations <= stats.accepted + 1

(* What each phase may have used of the budget. *)
PhaseFits ==
  /\ lm.phase = "cost" => stats = NewStats
  /\ lm.phase \in {"linearize", "observe"} => stats.linearizations <= stats.accepted
  /\ lm.phase \in Looping => stats.accepted < stats.evaluations
  /\ lm.phase \in Trying => /\ stats.accepted < MaxIterations
                            /\ lm.tries <= stats.rejected
                            /\ Ended <= stats.accepted * MaxTrials + lm.tries
  /\ lm.phase \in {"trial", "judge"} => stats.attempts = Ended + 1 /\ stats.damping = lm.lambda
  /\ lm.phase = "trial" => stats.evaluations <= stats.attempts
  /\ lm.phase = "judge" => stats.accepted + 1 < stats.evaluations
  /\ lm.phase \notin {"trial", "judge", "idle"} => stats.attempts = Ended
  /\ lm.phase \in {"linearize", "test", "observe"} => Ended <= stats.accepted * MaxTrials
  /\ stats.attempts = Ended + 1 => result.kind # "ok"
  /\ lm.stalled => stats.accepted > 0

IInv == /\ WorkspaceTypeOK /\ LmType /\ StatsType /\ TrialFits /\ ModelFits /\ ResultFits
        /\ SpentFits /\ PhaseFits
        /\ CostIsTracked /\ VerdictIsEarned /\ CovarianceOfTheResult

-----------------------------------------------------------------------------
(* None and one are at most one. *)
LEMMA Single == ASSUME NEW S PROVE {} \in AtMostOne(S) /\ \A x \in S : {x} \in AtMostOne(S)
BY DEF AtMostOne

(* Costs are numbers. *)
LEMMA CostIsNumber ==
  ASSUME WorkspaceTypeOK
  PROVE  CostHere \in Nat /\ \A e \in Estimate : Cost[graph][e] \in Nat
BY CostAssumption DEF WorkspaceTypeOK, CostHere

(* A linearization is one of the problem as it is. *)
LEMMA LinearizeTypes ==
  ASSUME WorkspaceTypeOK, UNCHANGED <<graph, estimate, target>>, Linearize \/ LinearizeFails
  PROVE  WorkspaceTypeOK'
<1>1. Here \in [graph : Graph, estimate : Estimate]
  BY DEF WorkspaceTypeOK, Here
<1>2. model' \in Model
  BY <1>1 DEF Linearize, LinearizeFails, Model, Form
<1>3. shown' \in Estimate /\ current' \in BOOLEAN
  BY DEF Linearize, LinearizeFails, WorkspaceTypeOK
<1> QED BY <1>2, <1>3 DEF WorkspaceTypeOK

(* The budget of one more iteration. *)
LEMMA Budget ==
  ASSUME NEW a \in 0..MaxIterations
  PROVE  /\ a * MaxTrials \in Nat /\ MaxIterations * MaxTrials \in Nat
         /\ a * MaxTrials <= MaxIterations * MaxTrials
         /\ (a + 1) * MaxTrials = a * MaxTrials + MaxTrials
         /\ a < MaxIterations => a * MaxTrials + MaxTrials <= MaxIterations * MaxTrials
<1> DEFINE M == MaxTrials
<1>1. a \in Nat /\ MaxIterations \in Nat /\ M \in Nat /\ a <= MaxIterations
  BY OptionsAreValid
<1>2. \A x \in Nat : x * M \in Nat /\ (x + 1) * M = x * M + M
  BY <1>1
<1>3. \A x, y \in Nat : x <= y => x * M <= y * M
  BY <1>1
<1> HIDE DEF M
<1>4. a < MaxIterations => (a + 1) * M <= MaxIterations * M
  BY <1>1, <1>3
<1> QED BY <1>1, <1>2, <1>3, <1>4 DEF M

(* The local variables of no call are within bounds. *)
LEMMA IdleFits == lm' = Idle => LmType'
BY OptionsAreValid DEF LmType, Idle, Phase

(* The call ends with an error or a panic. *)
LEMMA CallFails ==
  ASSUME NEW r, Return(r), r.kind \in {"error", "panic"},
         WorkspaceTypeOK', target' = {}, answer' = {}, StatsType', SpentFits',
         r.why = "NoProgress" => \/ stats'.damping = MaxDamping /\ stats'.rejected > 0
                                 \/ stats'.rejected >= MaxTrials
                                 \/ stats'.accepted > 0,
         r.why = "NoConvergence" => stats'.accepted = MaxIterations
  PROVE  IInv'
<1>1. LmType' /\ lm'.phase = "idle" /\ ~lm'.stalled /\ result' = r
  BY IdleFits DEF Return, Idle
<1>2. TrialFits' /\ ModelFits' /\ ResultFits' /\ PhaseFits'
  BY <1>1 DEF TrialFits, ModelFits, ResultFits, PhaseFits, Trying, Looping, Closing
<1>3. CostIsTracked' /\ VerdictIsEarned' /\ CovarianceOfTheResult'
  BY <1>1 DEF CostIsTracked, VerdictIsEarned, SuccessIsStationary, GivesUpLate,
              CovarianceOfTheResult
<1> QED BY <1>1, <1>2, <1>3 DEF IInv

(* The call succeeds, and ends or goes on to the covariance.              *)
LEMMA CallSucceeds ==
  ASSUME IInv, lm.phase \in {"linearize", "test"},
         NEW why \in {"NoVariables", "GradientTolerance"}, Finish(why),
         graph \in NoVariables \/ estimate \in Stationary[graph],
         UNCHANGED <<problem, model, current, stats, answer>>
  PROVE  IInv'
<1>1. /\ result' = Report(why)
      /\ \/ lm' = Idle
         \/ lm' = [lm EXCEPT !.phase = "covariance"]
  BY DEF Finish, Return, Goto
<1>2. result'.kind = "ok" /\ result'.why = why /\ result'.final = lm.cost
  BY <1>1 DEF Report
<1>3. /\ LmType' /\ lm'.phase \in {"idle", "covariance"}
      /\ lm'.phase = "covariance" => lm'.cost = lm.cost
      /\ lm'.stalled => lm.stalled
  BY <1>1, IdleFits DEF IInv, LmType, Phase, Idle
<1>4. WorkspaceTypeOK' /\ TrialFits' /\ ModelFits' /\ ResultFits'
  BY <1>2, <1>3 DEF IInv, WorkspaceTypeOK, problem, TrialFits, ModelFits, ModelIsFresh, Here,
                    ResultFits, Trying, Looping, Closing
<1>5. StatsType' /\ SpentFits' /\ PhaseFits'
  BY <1>2, <1>3 DEF IInv, StatsType, SpentFits, PhaseFits, Ended, Trying, Looping
<1>6. CostIsTracked' /\ VerdictIsEarned' /\ CovarianceOfTheResult'
  BY <1>2, <1>3 DEF IInv, problem, CostIsTracked, CostHere, VerdictIsEarned, SuccessIsStationary,
                    GivesUpLate, CovarianceOfTheResult, Here, ResultFits, Looping, Trying
<1> QED BY <1>3, <1>4, <1>5, <1>6 DEF IInv

(* A rejected attempt is counted, and retried or the last one. *)
LEMMA Rejected ==
  ASSUME IInv, lm.phase \in Trying, Retry,
         UNCHANGED <<graph, estimate, shown, model, current, answer>>, target' = {},
         StatsType', stats'.accepted = stats.accepted, stats'.rejected = stats.rejected + 1,
         stats'.attempts = Ended + 1, stats'.damping = lm.lambda, stats'.cost = stats.cost,
         stats'.why # {}, stats'.linearizations = stats.linearizations,
         stats.evaluations <= stats'.evaluations, stats'.evaluations <= stats'.attempts + 1
  PROVE  IInv'
<1>1. lm.phase \notin {"idle", "cost"} \cup Closing /\ lm.phase \in Looping
  BY DEF Trying, Looping, Closing
<1>2. WorkspaceTypeOK'
  BY DEF IInv, WorkspaceTypeOK
<1>3. SpentFits'
  BY <1>1, Budget, OptionsAreValid DEF IInv, LmType, StatsType, SpentFits, PhaseFits, Ended, Trying
<1>4. CASE lm.lambda = MaxDamping \/ lm.tries + 1 = MaxTrials
  <2>1. Return(Failed("NoProgress"))
    BY <1>4 DEF Retry
  <2>2. stats'.damping = MaxDamping \/ stats'.rejected >= MaxTrials
    BY <1>4, OptionsAreValid DEF IInv, LmType, StatsType, PhaseFits
  <2>3. stats'.rejected > 0 /\ answer' = {}
    BY <1>1 DEF IInv, StatsType, ResultFits
  <2> QED BY <1>2, <1>3, <2>1, <2>2, <2>3, CallFails DEF Failed, NoResult
<1>5. CASE ~(lm.lambda = MaxDamping \/ lm.tries + 1 = MaxTrials)
  <2>1. /\ lm' = [lm EXCEPT !.phase = "solve", !.tries = @ + 1,
                            !.lambda = Lower(@ + lm.growth, MaxDamping),
                            !.growth = Lower(@ + 1, Higher(MaxDamping, 1))]
        /\ result' = result
    BY <1>5 DEF Retry
  <2>2. LmType' /\ lm'.phase = "solve"
    <3>1. /\ lm.lambda \in MinDamping..MaxDamping /\ lm.growth \in Nat
          /\ lm.tries \in 0..(MaxTrials - 1) /\ lm.tries + 1 # MaxTrials
      BY <1>5 DEF IInv, LmType
    <3>2. /\ Lower(lm.lambda + lm.growth, MaxDamping) \in MinDamping..MaxDamping
          /\ Lower(lm.growth + 1, Higher(MaxDamping, 1)) \in Nat
          /\ lm.tries + 1 \in 0..(MaxTrials - 1)
      BY <3>1, OptionsAreValid DEF Lower, Higher
    <3> QED BY <2>1, <3>2 DEF IInv, LmType, Phase
  <2>3. lm'.tries = lm.tries + 1 /\ lm'.cost = lm.cost /\ lm'.stalled = lm.stalled
    BY <2>1 DEF IInv, LmType
  <2>4. TrialFits' /\ ModelFits' /\ ResultFits'
    BY <1>1, <2>1, <2>2 DEF IInv, TrialFits, ModelFits, ModelIsFresh, Here, ResultFits,
                            Trying, Looping, Closing
  <2>5. PhaseFits'
    BY <1>1, <2>1, <2>2, <2>3, Budget DEF IInv, LmType, StatsType, SpentFits, PhaseFits, Ended,
       Trying, Looping, ResultFits, NoResult
  <2>6. CostIsTracked' /\ VerdictIsEarned' /\ CovarianceOfTheResult'
    BY <1>1, <2>1, <2>2, <2>3 DEF IInv, CostIsTracked, CostHere, ResultFits, NoResult,
       VerdictIsEarned, SuccessIsStationary, GivesUpLate, CovarianceOfTheResult, Here
  <2> QED BY <1>2, <1>3, <2>2, <2>4, <2>5, <2>6 DEF IInv
<1> QED BY <1>4, <1>5

-----------------------------------------------------------------------------
(* How an operation that neither writes the problem nor the statistics     *)
(* ends the call with an error or a panic.                                 *)
LEMMA CallBreaks ==
  ASSUME IInv, lm.phase # "idle",
         \/ \E why \in {"prepare", "evaluation", "numbers"} : Return(Failed(why))
         \/ Return(Panicked),
         WorkspaceTypeOK', target' = {}, answer' = answer, StatsType', SpentFits'
  PROVE  IInv'
<1>1. answer' = {}
  BY DEF IInv, ResultFits
<1>2. CASE Return(Panicked)
  BY <1>1, <1>2, CallFails DEF Panicked, NoResult
<1>3. ASSUME NEW why \in {"prepare", "evaluation", "numbers"}, Return(Failed(why))
      PROVE  IInv'
  BY <1>1, <1>3, CallFails DEF Failed, NoResult
<1> QED BY <1>2, <1>3

(* The call evaluates the initial cost. *)
LEMMA InitialCostStep == IInv /\ InitialCost => IInv'
<1> SUFFICES ASSUME IInv, InitialCost PROVE IInv'
  OBVIOUS
<1>1. CostHere \in Nat /\ stats = NewStats /\ lm.phase = "cost" /\ CostHere' = CostHere
  BY CostIsNumber DEF IInv, InitialCost, PhaseFits, CostHere
<1>2. /\ stats' = [NewStats EXCEPT !.evaluations = 1, !.cost = {CostHere}]
      /\ lm' = [lm EXCEPT !.phase = "linearize", !.initial = CostHere, !.cost = CostHere]
  BY <1>1 DEF InitialCost
<1>3. WorkspaceTypeOK' /\ TrialFits' /\ ModelFits' /\ ResultFits'
  BY <1>1, <1>2 DEF IInv, InitialCost, LmType, WorkspaceTypeOK, TrialFits, ModelFits,
     ModelIsFresh, Here, ResultFits, Trying, Looping, Closing
<1>4. LmType' /\ lm'.phase = "linearize" /\ lm'.cost = CostHere /\ lm'.stalled = lm.stalled
  BY <1>1, <1>2 DEF IInv, LmType, Phase
<1>5. StatsType'
  <2>1. {CostHere} \in AtMostOne(Nat) /\ {} \in AtMostOne(Rejection)
    BY <1>1, Single
  <2>2. 0 \in 0..MaxIterations /\ InitialDamping \in MinDamping..MaxDamping
    BY OptionsAreValid
  <2>3. stats' = [linearizations |-> 0, attempts |-> 0, rejected |-> 0, accepted |-> 0,
                  evaluations |-> 1, damping |-> InitialDamping, cost |-> {CostHere}, why |-> {}]
    BY <1>2 DEF NewStats
  <2> QED BY <2>1, <2>2, <2>3 DEF StatsType
<1>6. SpentFits' /\ PhaseFits'
  BY <1>1, <1>2, <1>4, Budget, OptionsAreValid DEF IInv, LmType, SpentFits, PhaseFits, Ended,
     NewStats, Looping, Trying
<1>7. CostIsTracked' /\ VerdictIsEarned' /\ CovarianceOfTheResult'
  BY <1>1, <1>2, <1>4 DEF IInv, InitialCost, CostIsTracked, NewStats, ResultFits, NoResult,
     VerdictIsEarned, SuccessIsStationary, GivesUpLate, CovarianceOfTheResult, Here
<1> QED BY <1>3, <1>4, <1>5, <1>6, <1>7 DEF IInv

LEMMA InitialCostFailsStep == IInv /\ InitialCostFails => IInv'
<1> SUFFICES ASSUME IInv, InitialCostFails PROVE IInv'
  OBVIOUS
<1>1. /\ stats = NewStats /\ stats' = [NewStats EXCEPT !.evaluations = 1]
      /\ lm.phase = "cost" /\ target' = {} /\ answer' = answer
  BY DEF IInv, InitialCostFails, PhaseFits, TrialFits, problem
<1>2. WorkspaceTypeOK'
  BY DEF IInv, InitialCostFails, WorkspaceTypeOK, problem
<1>3. StatsType'
  <2>1. {} \in AtMostOne(Nat) /\ {} \in AtMostOne(Rejection)
    BY Single
  <2> QED BY <1>1, <2>1, OptionsAreValid DEF StatsType, NewStats
<1>4. SpentFits'
  BY <1>1, Budget, OptionsAreValid DEF SpentFits, Ended, NewStats
<1> QED BY <1>1, <1>2, <1>3, <1>4, CallBreaks DEF InitialCostFails

(* Nothing to optimize is a success. *)
LEMMA NothingToOptimizeStep == IInv /\ NothingToOptimize => IInv'
BY CallSucceeds DEF NothingToOptimize

(* The counters when a model was asked for. *)
LEMMA RelinearizeStep == IInv /\ Relinearize => IInv'
<1> SUFFICES ASSUME IInv, Relinearize PROVE IInv'
  OBVIOUS
<1>1. /\ lm.phase = "linearize" /\ target' = {} /\ answer' = answer
      /\ stats' = [stats EXCEPT !.linearizations = @ + 1]
      /\ UNCHANGED <<graph, estimate>>
  BY DEF IInv, Relinearize, TrialFits
<1>2. StatsType' /\ SpentFits'
  BY <1>1 DEF IInv, StatsType, SpentFits, Ended, PhaseFits
<1>3. WorkspaceTypeOK'
  BY <1>1, LinearizeTypes DEF IInv, Relinearize
<1>4. CASE LinearizeFails /\ (Return(Failed("evaluation")) \/ Return(Panicked))
  BY <1>1, <1>2, <1>3, <1>4, CallBreaks
<1>5. CASE Linearize /\ Goto("test") /\ UNCHANGED result
  <2>1. LmType' /\ lm'.phase = "test" /\ lm'.cost = lm.cost /\ lm'.stalled = lm.stalled
    BY <1>5 DEF IInv, LmType, Goto, Phase
  <2>2. TrialFits' /\ ModelFits' /\ ResultFits' /\ PhaseFits'
    BY <1>1, <1>5, <2>1 DEF IInv, StatsType, Linearize, TrialFits, ModelFits, ModelIsFresh,
       Here, ResultFits, NoResult, PhaseFits, Ended, Trying, Looping, Closing
  <2>3. CostIsTracked' /\ VerdictIsEarned' /\ CovarianceOfTheResult'
    BY <1>1, <1>5, <2>1 DEF IInv, StatsType, CostIsTracked, CostHere, ResultFits, NoResult,
       Looping, VerdictIsEarned, SuccessIsStationary, GivesUpLate, CovarianceOfTheResult, Here
  <2> QED BY <1>2, <1>3, <2>1, <2>2, <2>3 DEF IInv
<1> QED BY <1>4, <1>5 DEF Relinearize

(* The gradient is tested, and the reasons to give up. *)
LEMMA TestStep == IInv /\ Test => IInv'
<1> SUFFICES ASSUME IInv, Test PROVE IInv'
  OBVIOUS
<1>1. /\ lm.phase = "test" /\ target' = {} /\ answer' = {}
      /\ UNCHANGED <<graph, estimate, target, shown, model, current, stats, answer>>
  BY DEF IInv, Test, TrialFits, ResultFits, problem
<1>2. WorkspaceTypeOK' /\ StatsType' /\ SpentFits'
  BY <1>1 DEF IInv, WorkspaceTypeOK, StatsType, SpentFits, Ended
<1>3. CASE estimate \in Stationary[graph] /\ Finish("GradientTolerance")
  BY <1>1, <1>3, CallSucceeds DEF problem
<1>4. CASE lm.stalled /\ Return(Failed("NoProgress"))
  BY <1>1, <1>2, <1>4, CallFails DEF IInv, PhaseFits, Failed, NoResult
<1>5. CASE stats.accepted = MaxIterations /\ Return(Failed("NoConvergence"))
  BY <1>1, <1>2, <1>5, CallFails DEF Failed, NoResult
<1>6. CASE Return(Failed("numbers"))
  BY <1>1, <1>2, <1>6, CallBreaks
<1>7. CASE /\ stats.accepted # MaxIterations
           /\ lm' = [lm EXCEPT !.phase = "solve", !.growth = 1, !.tries = 0] /\ UNCHANGED result
  <2>1. /\ LmType' /\ lm'.phase = "solve" /\ lm'.cost = lm.cost /\ lm'.tries = 0
        /\ lm'.stalled = lm.stalled
    <3>1. 0 \in 0..(MaxTrials - 1)
      BY OptionsAreValid
    <3> QED BY <1>7, <3>1 DEF IInv, LmType, Phase
  <2>2. TrialFits' /\ ModelFits' /\ ResultFits'
    BY <1>1, <1>7, <2>1 DEF IInv, TrialFits, ModelFits, ModelIsFresh,
       Here, ResultFits, NoResult, Trying, Looping, Closing
  <2>4. PhaseFits'
    <3>1. stats.accepted \in 0..MaxIterations /\ stats.accepted < MaxIterations
      BY <1>7, OptionsAreValid DEF IInv, StatsType
    <3>2. stats.accepted * MaxTrials \in Nat
      BY <3>1, Budget
    <3> QED BY <1>1, <1>7, <2>1, <3>1, <3>2 DEF IInv, StatsType, ResultFits, NoResult, PhaseFits, Ended,
                                      Trying, Looping
  <2>3. CostIsTracked' /\ VerdictIsEarned' /\ CovarianceOfTheResult'
    BY <1>1, <1>7, <2>1 DEF IInv, StatsType, CostIsTracked, CostHere, ResultFits, NoResult,
       Looping, VerdictIsEarned, SuccessIsStationary, GivesUpLate, CovarianceOfTheResult, Here
  <2> QED BY <1>2, <2>1, <2>2, <2>3, <2>4 DEF IInv
<1> QED BY <1>3, <1>4, <1>5, <1>6, <1>7 DEF Test

LEMMA GradientNotFiniteStep == IInv /\ GradientNotFinite => IInv'
<1> SUFFICES ASSUME IInv, GradientNotFinite PROVE IInv'
  OBVIOUS
<1>1. /\ lm.phase = "test" /\ target' = {} /\ answer' = answer
      /\ WorkspaceTypeOK' /\ StatsType' /\ SpentFits'
  BY DEF IInv, GradientNotFinite, TrialFits, problem, WorkspaceTypeOK, StatsType, SpentFits, Ended
<1> QED BY <1>1, CallBreaks DEF GradientNotFinite

(* An attempt is within the budget. *)
LEMMA AttemptedFits ==
  ASSUME IInv, lm.phase = "solve"
  PROVE  /\ Attempted.attempts = Ended + 1 /\ Attempted.damping = lm.lambda
         /\ Attempted \in [linearizations : Nat, attempts : Nat, rejected : Nat,
                           accepted : 0..MaxIterations, evaluations : Nat,
                           damping : MinDamping..MaxDamping,
                           cost : AtMostOne(Nat), why : AtMostOne(Rejection)]
         /\ Ended + 1 <= MaxIterations * MaxTrials
<1>1. stats.accepted < MaxIterations /\ stats.attempts = Ended /\ Ended \in Nat
  BY DEF IInv, StatsType, PhaseFits, Trying, Ended
<1>2. lm.lambda \in MinDamping..MaxDamping /\ lm.tries + 1 <= MaxTrials
  BY OptionsAreValid DEF IInv, LmType
<1>3. Ended <= stats.accepted * MaxTrials + lm.tries /\ lm.tries \in Nat
  BY DEF IInv, PhaseFits, Trying, LmType
<1>4. Ended + 1 <= MaxIterations * MaxTrials
  BY <1>1, <1>2, <1>3, Budget, OptionsAreValid DEF IInv, StatsType
<1>5. stats.attempts + 1 \in Nat
  BY DEF IInv, StatsType
<1> QED BY <1>1, <1>2, <1>4, <1>5 DEF IInv, StatsType, Attempted

LEMMA SolveRejectedStep == IInv /\ SolveRejected => IInv'
<1> SUFFICES ASSUME IInv, SolveRejected PROVE IInv'
  OBVIOUS
<1>1. PICK why \in {"LinearSolve", "Prediction"} : stats' = Dampened(Attempted, why)
  BY DEF SolveRejected
<1>2. {why} \in AtMostOne(Rejection) /\ {why} # {}
  BY Single DEF Rejection
<1>3. stats' = [Attempted EXCEPT !.rejected = @ + 1, !.why = {why}]
  BY <1>1 DEF Dampened
<1>4. /\ lm.phase = "solve" /\ target' = {}
      /\ UNCHANGED <<graph, estimate, shown, model, current, answer>>
  BY DEF IInv, SolveRejected, TrialFits, problem
<1>5. StatsType'
  <2>1. Attempted.rejected + 1 \in Nat
    BY <1>4, AttemptedFits
  <2> QED BY <1>2, <1>3, <1>4, <2>1, AttemptedFits DEF StatsType
<1>6. /\ stats'.accepted = stats.accepted /\ stats'.rejected = stats.rejected + 1
      /\ stats'.attempts = Ended + 1 /\ stats'.damping = lm.lambda
      /\ stats'.cost = stats.cost /\ stats'.why # {}
      /\ stats'.linearizations = stats.linearizations /\ stats'.evaluations = stats.evaluations
  BY <1>2, <1>3, <1>4, AttemptedFits DEF IInv, StatsType, Attempted
<1>7. stats.evaluations <= stats'.evaluations /\ stats'.evaluations <= stats'.attempts + 1
  BY <1>4, <1>6 DEF IInv, StatsType, SpentFits, Ended
<1> QED BY <1>4, <1>5, <1>6, <1>7, Rejected DEF SolveRejected, Trying

LEMMA SolveFailsStep == IInv /\ SolveFails => IInv'
<1> SUFFICES ASSUME IInv, SolveFails PROVE IInv'
  OBVIOUS
<1>1. lm.phase = "solve" /\ stats' = Attempted /\ target' = {} /\ answer' = answer
  BY DEF IInv, SolveFails, TrialFits, problem
<1>2. WorkspaceTypeOK'
  BY DEF IInv, SolveFails, WorkspaceTypeOK, problem
<1>3. StatsType'
  BY <1>1, AttemptedFits DEF StatsType
<1>4. SpentFits'
  BY <1>1, AttemptedFits DEF IInv, StatsType, SpentFits, PhaseFits, Ended, Attempted
<1> QED BY <1>1, <1>2, <1>3, <1>4, CallBreaks DEF SolveFails

(* A step is solved for. *)
LEMMA SolveStep == IInv /\ Solve => IInv'
<1> SUFFICES ASSUME IInv, Solve PROVE IInv'
  OBVIOUS
<1>1. /\ lm.phase = "solve" /\ stats' = Attempted
      /\ UNCHANGED <<graph, estimate, shown, model, current, result, answer>>
  BY DEF Solve
<1>2. PICK small \in BOOLEAN : lm' = [lm EXCEPT !.phase = "trial", !.small = small]
  BY DEF Solve
<1>3. /\ LmType' /\ lm'.phase = "trial" /\ lm'.cost = lm.cost /\ lm'.tries = lm.tries
      /\ lm'.lambda = lm.lambda /\ lm'.stalled = lm.stalled
  BY <1>2 DEF IInv, LmType, Phase
<1>4. WorkspaceTypeOK' /\ TrialFits' /\ ModelFits' /\ ResultFits'
  BY <1>1, <1>3 DEF Solve, IInv, WorkspaceTypeOK, TrialFits, ModelFits, ModelIsFresh, Here,
     ResultFits, Trying, Looping, Closing
<1>5. StatsType'
  BY <1>1, AttemptedFits DEF StatsType
<1>6. /\ stats'.accepted = stats.accepted /\ stats'.rejected = stats.rejected
      /\ stats'.attempts = Ended + 1 /\ stats'.damping = lm.lambda
      /\ stats'.cost = stats.cost /\ stats'.why = stats.why
      /\ stats'.linearizations = stats.linearizations /\ stats'.evaluations = stats.evaluations
  BY <1>1, AttemptedFits DEF IInv, StatsType, Attempted
<1>7. SpentFits'
  BY <1>1, <1>6, AttemptedFits DEF IInv, StatsType, SpentFits, PhaseFits, Ended, Looping, Trying
<1>8. PhaseFits'
  BY <1>1, <1>3, <1>6 DEF IInv, StatsType, SpentFits, PhaseFits, Ended, Looping, Trying,
     ResultFits, NoResult
<1>9. CostIsTracked' /\ VerdictIsEarned' /\ CovarianceOfTheResult'
  BY <1>1, <1>3, <1>6 DEF IInv, CostIsTracked, CostHere, ResultFits, NoResult, Looping, Trying,
     VerdictIsEarned, SuccessIsStationary, GivesUpLate, CovarianceOfTheResult, Here
<1> QED BY <1>3, <1>4, <1>5, <1>7, <1>8, <1>9 DEF IInv

(* An operation of a trial that breaks off takes it back.                 *)
LEMMA StagePanicsStep == IInv /\ StagePanics => IInv'
<1> SUFFICES ASSUME IInv, StagePanics PROVE IInv'
  OBVIOUS
<1>1. /\ lm.phase = "trial" /\ target' = {} /\ answer' = answer
      /\ UNCHANGED <<graph, estimate, shown, model, current, stats>>
  BY DEF StagePanics, Abort
<1>2. WorkspaceTypeOK' /\ StatsType' /\ SpentFits'
  BY <1>1 DEF IInv, WorkspaceTypeOK, StatsType, SpentFits, Ended
<1> QED BY <1>1, <1>2, CallBreaks DEF StagePanics

LEMMA TrialFailsStep == IInv /\ TrialFails => IInv'
<1> SUFFICES ASSUME IInv, TrialFails PROVE IInv'
  OBVIOUS
<1>1. /\ lm.phase = "trial" /\ target' = {} /\ answer' = answer
      /\ stats' = [stats EXCEPT !.evaluations = @ + 1]
      /\ UNCHANGED <<graph, estimate, shown, model, current>>
  BY DEF TrialFails, Abort
<1>2. WorkspaceTypeOK'
  BY <1>1 DEF IInv, WorkspaceTypeOK
<1>3. StatsType'
  BY <1>1 DEF IInv, StatsType
<1>4. SpentFits'
  BY <1>1 DEF IInv, StatsType, SpentFits, PhaseFits, Ended
<1> QED BY <1>1, <1>2, <1>3, <1>4, CallBreaks DEF TrialFails

(* The trial is evaluated. *)
LEMMA TrialCostStep == IInv /\ TrialCost => IInv'
<1> SUFFICES ASSUME IInv, TrialCost PROVE IInv'
  OBVIOUS
<1>1. /\ lm.phase = "trial"
      /\ stats' = [stats EXCEPT !.evaluations = @ + 1]
      /\ UNCHANGED <<graph, estimate, target, model, current, result, answer>>
  BY DEF TrialCost
<1>2. shown' \in Estimate
  BY <1>1 DEF TrialCost, IInv, TrialFits
<1>3. /\ LmType' /\ lm'.phase = "judge" /\ lm'.cost = lm.cost /\ lm'.tries = lm.tries
      /\ lm'.lambda = lm.lambda /\ lm'.stalled = lm.stalled
  BY DEF TrialCost, Goto, IInv, LmType, Phase
<1>4. WorkspaceTypeOK' /\ TrialFits' /\ ModelFits' /\ ResultFits'
  BY <1>1, <1>2, <1>3 DEF IInv, WorkspaceTypeOK, TrialFits, ModelFits, ModelIsFresh, Here,
     ResultFits, Trying, Looping, Closing
<1>5. StatsType'
  BY <1>1 DEF IInv, StatsType
<1>6. SpentFits' /\ PhaseFits'
  BY <1>1, <1>3 DEF IInv, StatsType, SpentFits, PhaseFits, Ended, Looping, Trying,
     ResultFits, NoResult
<1>7. CostIsTracked' /\ VerdictIsEarned' /\ CovarianceOfTheResult'
  BY <1>1, <1>3 DEF IInv, StatsType, CostIsTracked, CostHere, ResultFits, NoResult, Looping,
     Trying, VerdictIsEarned, SuccessIsStationary, GivesUpLate, CovarianceOfTheResult, Here
<1> QED BY <1>3, <1>4, <1>5, <1>6, <1>7 DEF IInv

LEMMA TrialInvalidStep == IInv /\ TrialInvalid => IInv'
<1> SUFFICES ASSUME IInv, TrialInvalid PROVE IInv'
  OBVIOUS
<1>1. /\ lm.phase = "trial" /\ target' = {}
      /\ UNCHANGED <<graph, estimate, shown, model, current, answer>>
  BY DEF TrialInvalid, Abort
<1>2. stats' = [stats EXCEPT !.evaluations = @ + 1, !.rejected = @ + 1,
                             !.why = {"InvalidEvaluation"}]
  BY DEF TrialInvalid, Dampened, IInv, StatsType
<1>3. {"InvalidEvaluation"} \in AtMostOne(Rejection)
  BY Single DEF Rejection
<1>4. StatsType'
  <2>1. stats.evaluations + 1 \in Nat /\ stats.rejected + 1 \in Nat
    BY DEF IInv, StatsType
  <2> QED BY <1>2, <1>3, <2>1 DEF IInv, StatsType
<1>5. /\ stats'.accepted = stats.accepted /\ stats'.rejected = stats.rejected + 1
      /\ stats'.attempts = Ended + 1 /\ stats'.damping = lm.lambda
      /\ stats'.cost = stats.cost /\ stats'.why # {}
      /\ stats'.linearizations = stats.linearizations
      /\ stats'.evaluations = stats.evaluations + 1
      /\ stats.evaluations <= stats.attempts /\ stats.attempts = Ended + 1
  BY <1>1, <1>2 DEF IInv, StatsType, PhaseFits
<1>6. stats.evaluations <= stats'.evaluations /\ stats'.evaluations <= stats'.attempts + 1
  BY <1>5 DEF IInv, StatsType, Ended
<1> QED BY <1>1, <1>4, <1>5, <1>6, Rejected DEF TrialInvalid, Trying

(* A trial that is judged badly is taken back. *)
LEMMA RejectStepStep == IInv /\ lm.phase = "judge" /\ RejectStep => IInv'
<1> SUFFICES ASSUME IInv, lm.phase = "judge", RejectStep PROVE IInv'
  OBVIOUS
<1>1. /\ target' = {} /\ UNCHANGED <<graph, estimate, shown, model, current, answer>>
  BY DEF RejectStep, Abort
<1>2. stats' = [stats EXCEPT !.rejected = @ + 1, !.why = {"PoorAgreement"}]
  BY DEF RejectStep, Dampened
<1>3. {"PoorAgreement"} \in AtMostOne(Rejection)
  BY Single DEF Rejection
<1>4. StatsType'
  <2>1. stats.rejected + 1 \in Nat
    BY DEF IInv, StatsType
  <2> QED BY <1>2, <1>3, <2>1 DEF IInv, StatsType
<1>5. /\ stats'.accepted = stats.accepted /\ stats'.rejected = stats.rejected + 1
      /\ stats'.attempts = Ended + 1 /\ stats'.damping = lm.lambda
      /\ stats'.cost = stats.cost /\ stats'.why # {}
      /\ stats'.linearizations = stats.linearizations
      /\ stats'.evaluations = stats.evaluations
      /\ stats.evaluations <= stats.attempts + 1 /\ stats.attempts = Ended + 1
  BY <1>2 DEF IInv, StatsType, PhaseFits, SpentFits
<1>6. stats.evaluations <= stats'.evaluations /\ stats'.evaluations <= stats'.attempts + 1
  BY <1>5 DEF IInv, StatsType, Ended
<1> QED BY <1>1, <1>4, <1>5, <1>6, Rejected DEF RejectStep, Trying

(* An accepted step goes downhill, and to the whole of the target. *)
LEMMA AcceptedCost ==
  ASSUME IInv, lm.phase = "judge", NEW e \in target, AcceptStep(Cost[graph][e])
  PROVE  /\ estimate' = e /\ e \in Estimate /\ target = {e} /\ UNCHANGED graph
         /\ CostHere' = Cost[graph][e] /\ CostHere' \in Nat /\ CostHere' < CostHere
<1>1. target = {e} /\ e \in Estimate
  BY DEF IInv, TrialFits
<1>2. estimate' = e /\ graph' = graph
  BY <1>1 DEF AcceptStep
<1>3. CostHere = lm.cost /\ Cost[graph][e] \in Nat
  BY <1>1, CostIsNumber DEF IInv, CostIsTracked
<1> QED BY <1>1, <1>2, <1>3 DEF AcceptStep, CostHere

LEMMA AcceptStepStep ==
  ASSUME IInv, lm.phase = "judge", NEW e \in target, AcceptStep(Cost[graph][e])
  PROVE  IInv'
<1> DEFINE value == Cost[graph][e]
<1>1. /\ estimate' = e /\ e \in Estimate /\ target' = {} /\ current' = FALSE
      /\ UNCHANGED <<graph, shown, model, result, answer>>
      /\ value \in Nat /\ CostHere' = value
  BY AcceptedCost DEF AcceptStep
<1>2. stats' = [stats EXCEPT !.accepted = @ + 1, !.cost = {value}]
  BY DEF AcceptStep
<1>3. PICK d \in -2..1, slow \in BOOLEAN :
        lm' = [lm EXCEPT !.phase = "observe", !.cost = value, !.stalled = lm.small /\ slow,
                         !.lambda = Relaxed(@, d)]
  BY DEF AcceptStep
<1> HIDE DEF value
<1>4. LmType' /\ lm'.phase = "observe" /\ lm'.cost = value
  <2>1. Relaxed(lm.lambda, d) \in MinDamping..MaxDamping
    <3>1. lm.lambda \in Int /\ d \in Int
      BY OptionsAreValid DEF IInv, LmType
    <3> QED BY <3>1, OptionsAreValid DEF Relaxed, Lower, Higher
  <2>2. (lm.small /\ slow) \in BOOLEAN
    OBVIOUS
  <2> QED BY <1>1, <1>3, <2>1, <2>2 DEF IInv, LmType, Phase
<1>5. stats.accepted \in 0..MaxIterations /\ stats.accepted + 1 \in 0..MaxIterations
  BY OptionsAreValid DEF IInv, StatsType, PhaseFits, Trying
<1>6. StatsType'
  <2>1. {value} \in AtMostOne(Nat)
    BY <1>1, Single
  <2> QED BY <1>2, <1>5, <2>1 DEF IInv, StatsType
<1>7. /\ stats'.accepted = stats.accepted + 1 /\ stats'.rejected = stats.rejected
      /\ stats'.attempts = stats.attempts /\ stats'.why = stats.why
      /\ stats'.linearizations = stats.linearizations
      /\ stats'.evaluations = stats.evaluations /\ stats'.cost = {value}
  BY <1>2 DEF IInv, StatsType
<1>8. WorkspaceTypeOK' /\ TrialFits' /\ ModelFits' /\ ResultFits'
  BY <1>1, <1>4 DEF IInv, WorkspaceTypeOK, TrialFits, ModelFits, ResultFits,
     Trying, Looping, Closing
<1>9. SpentFits'
  BY <1>1, <1>5, <1>7 DEF IInv, StatsType, SpentFits, PhaseFits, Ended
<1>10. PhaseFits'
  <2>1. Ended + 1 <= (stats.accepted + 1) * MaxTrials
    <3>1. (stats.accepted + 1) * MaxTrials = stats.accepted * MaxTrials + MaxTrials
      BY <1>5, Budget
    <3>2. stats.accepted * MaxTrials \in Nat
      BY <1>5, Budget
    <3>3. lm.tries + 1 <= MaxTrials /\ Ended <= stats.accepted * MaxTrials + lm.tries
      BY OptionsAreValid DEF IInv, LmType, PhaseFits, Trying
    <3>4. Ended \in Nat /\ lm.tries \in Nat /\ MaxTrials \in Nat
      BY OptionsAreValid DEF IInv, LmType, StatsType, Ended
    <3> QED BY <3>1, <3>2, <3>3, <3>4
  <2>2. stats'.accepted * MaxTrials = (stats.accepted + 1) * MaxTrials /\ Ended' = Ended + 1
    BY <1>7 DEF IInv, StatsType, Ended
  <2>3. result'.kind # "ok"
    BY <1>1 DEF IInv, ResultFits, Looping, Trying, NoResult
  <2>4. stats.attempts = Ended + 1 /\ Ended \in Nat
    BY DEF IInv, PhaseFits, StatsType, Ended
  <2>5. /\ stats'.linearizations <= stats'.accepted /\ stats'.accepted < stats'.evaluations
        /\ stats'.attempts = Ended' /\ Ended' <= stats'.accepted * MaxTrials
        /\ stats'.accepted > 0
    BY <1>7, <2>1, <2>2, <2>4 DEF IInv, StatsType, SpentFits, PhaseFits
  <2> QED BY <1>4, <2>3, <2>5 DEF PhaseFits, Looping, Trying
<1>11. CostIsTracked' /\ VerdictIsEarned' /\ CovarianceOfTheResult'
  BY <1>1, <1>4, <1>7 DEF IInv, CostIsTracked, ResultFits, NoResult, Looping, Trying,
     VerdictIsEarned, SuccessIsStationary, GivesUpLate, CovarianceOfTheResult
<1> QED BY <1>4, <1>6, <1>8, <1>9, <1>10, <1>11 DEF IInv

LEMMA JudgeStep == IInv /\ Judge => IInv'
BY AcceptStepStep, RejectStepStep DEF Judge

(* The observer was called. *)
LEMMA ObserveStep == IInv /\ Observe => IInv'
<1> SUFFICES ASSUME IInv, Observe PROVE IInv'
  OBVIOUS
<1>1. /\ lm.phase = "observe" /\ target' = {} /\ answer' = answer
      /\ UNCHANGED <<graph, estimate, target, shown, model, current, stats>>
  BY DEF IInv, Observe, TrialFits, problem
<1>2. WorkspaceTypeOK' /\ StatsType' /\ SpentFits'
  BY <1>1 DEF IInv, WorkspaceTypeOK, StatsType, SpentFits, Ended
<1>3. CASE Return(Panicked)
  BY <1>1, <1>2, <1>3, CallBreaks
<1>4. CASE Goto("linearize") /\ UNCHANGED result
  <2>1. LmType' /\ lm'.phase = "linearize" /\ lm'.cost = lm.cost /\ lm'.stalled = lm.stalled
    BY <1>4 DEF IInv, LmType, Goto, Phase
  <2>2. TrialFits' /\ ModelFits' /\ ResultFits' /\ PhaseFits'
    BY <1>1, <1>4, <2>1 DEF IInv, StatsType, TrialFits, ModelFits, ModelIsFresh,
       Here, ResultFits, NoResult, PhaseFits, Ended, Trying, Looping, Closing
  <2>3. CostIsTracked' /\ VerdictIsEarned' /\ CovarianceOfTheResult'
    BY <1>1, <1>4, <2>1 DEF IInv, StatsType, CostIsTracked, CostHere, ResultFits, NoResult,
       Looping, VerdictIsEarned, SuccessIsStationary, GivesUpLate, CovarianceOfTheResult, Here
  <2> QED BY <1>2, <2>1, <2>2, <2>3 DEF IInv
<1> QED BY <1>3, <1>4 DEF Observe

(* The model for the covariance. *)
LEMMA ModelForCovarianceStep == IInv /\ ModelForCovariance => IInv'
<1> SUFFICES ASSUME IInv, ModelForCovariance PROVE IInv'
  OBVIOUS
<1>1. /\ lm.phase = "covariance" /\ target' = {} /\ answer' = answer
      /\ UNCHANGED <<graph, estimate, target, stats>>
  BY DEF IInv, ModelForCovariance, TrialFits
<1>2. StatsType' /\ SpentFits'
  BY <1>1 DEF IInv, StatsType, SpentFits, Ended
<1>3. WorkspaceTypeOK'
  <2>1. CASE Linearize \/ LinearizeFails
    BY <1>1, <2>1, LinearizeTypes DEF IInv
  <2>2. CASE UNCHANGED <<shown, model, current>>
    BY <1>1, <2>2 DEF IInv, WorkspaceTypeOK
  <2> QED BY <2>1, <2>2 DEF ModelForCovariance
<1>4. CASE LinearizeFails /\ (Return(Failed("evaluation")) \/ Return(Panicked))
  BY <1>1, <1>2, <1>3, <1>4, CallBreaks
<1>5. CASE Goto("extract") /\ UNCHANGED result /\ ModelIsFresh'
  <2>1. LmType' /\ lm'.phase = "extract" /\ lm'.cost = lm.cost /\ lm'.stalled = lm.stalled
    BY <1>5 DEF IInv, LmType, Goto, Phase
  <2>2. TrialFits' /\ ModelFits' /\ ResultFits' /\ PhaseFits'
    BY <1>1, <1>5, <2>1 DEF IInv, StatsType, TrialFits, ModelFits,
       ResultFits, PhaseFits, Ended, Trying, Looping, Closing
  <2>3. CostIsTracked' /\ VerdictIsEarned' /\ CovarianceOfTheResult'
    BY <1>1, <1>5, <2>1 DEF IInv, StatsType, CostIsTracked, CostHere, ResultFits,
       Closing, VerdictIsEarned, SuccessIsStationary, GivesUpLate, CovarianceOfTheResult, Here
  <2> QED BY <1>2, <1>3, <2>1, <2>2, <2>3 DEF IInv
<1>6. ASSUME Linearize \/ (current /\ UNCHANGED <<shown, model, current>>) PROVE ModelIsFresh'
  BY <1>1, <1>6 DEF IInv, ModelFits, ModelIsFresh, Here, Linearize
<1> QED BY <1>4, <1>5, <1>6 DEF ModelForCovariance

(* The covariance is extracted. *)
LEMMA CovarianceStep == IInv /\ Covariance => IInv'
<1> SUFFICES ASSUME IInv, Covariance PROVE IInv'
  OBVIOUS
<1>1. /\ lm.phase = "extract" /\ target' = {}
      /\ UNCHANGED <<graph, estimate, target, shown, model, current, stats>>
      /\ lm' = Idle
  BY DEF IInv, Covariance, TrialFits, problem
<1>2. WorkspaceTypeOK' /\ StatsType' /\ SpentFits'
  BY <1>1 DEF IInv, WorkspaceTypeOK, StatsType, SpentFits, Ended
<1>3. CASE result' = Failed("information") /\ UNCHANGED answer
  <2>1. Return(Failed("information")) /\ answer' = {}
    BY <1>1, <1>3 DEF IInv, ResultFits, Return
  <2> QED BY <1>1, <1>2, <2>1, CallFails DEF Failed, NoResult
<1>4. CASE answer' = {model.of} /\ UNCHANGED result
  <2>1. LmType' /\ lm'.phase = "idle" /\ ~lm'.stalled
    BY <1>1, IdleFits DEF Idle
  <2>2. model.of = Here /\ Here' = Here /\ result.kind = "ok"
    BY <1>1 DEF IInv, ModelFits, ModelIsFresh, Here, ResultFits, Closing
  <2>3. TrialFits' /\ ModelFits' /\ ResultFits' /\ PhaseFits'
    BY <1>1, <1>4, <2>1, <2>2 DEF IInv, TrialFits, ModelFits, ResultFits, PhaseFits, Ended,
       StatsType, Trying, Looping, Closing
  <2>4. CostIsTracked' /\ VerdictIsEarned' /\ CovarianceOfTheResult'
    BY <1>1, <1>4, <2>1, <2>2 DEF IInv, CostIsTracked, CostHere, VerdictIsEarned,
       SuccessIsStationary, GivesUpLate, CovarianceOfTheResult
  <2> QED BY <1>2, <2>1, <2>3, <2>4 DEF IInv
<1> QED BY <1>3, <1>4 DEF Covariance

(* Between calls the problem is edited. *)
LEMMA EditStep == IInv /\ Edit => IInv'
<1> SUFFICES ASSUME IInv, Edit PROVE IInv'
  OBVIOUS
<1>1. /\ lm.phase = "idle" /\ target' = {} /\ result' = NoResult /\ answer' = {}
      /\ UNCHANGED <<lm, stats>>
  BY DEF IInv, Edit, EditProblem, TrialFits
<1>2. WorkspaceTypeOK'
  BY DEF IInv, Edit, EditProblem, WorkspaceTypeOK
<1>3. LmType' /\ StatsType' /\ SpentFits'
  BY <1>1 DEF IInv, LmType, StatsType, SpentFits, Ended
<1>4. TrialFits' /\ ModelFits' /\ ResultFits' /\ PhaseFits'
  BY <1>1 DEF IInv, TrialFits, ModelFits, ResultFits, PhaseFits, NoResult,
     Trying, Looping, Closing
<1>5. CostIsTracked' /\ VerdictIsEarned' /\ CovarianceOfTheResult'
  BY <1>1 DEF CostIsTracked, NoResult, VerdictIsEarned, SuccessIsStationary, GivesUpLate,
     CovarianceOfTheResult
<1> QED BY <1>2, <1>3, <1>4, <1>5 DEF IInv

(* The statistics of a call that has not started yet. *)
LEMMA NewStatsFit == stats' = NewStats => StatsType' /\ SpentFits'
<1> SUFFICES ASSUME stats' = NewStats PROVE StatsType' /\ SpentFits'
  OBVIOUS
<1>1. {} \in AtMostOne(Nat) /\ {} \in AtMostOne(Rejection)
  BY Single
<1>2. 0 \in 0..MaxIterations /\ InitialDamping \in MinDamping..MaxDamping
  BY OptionsAreValid
<1>3. StatsType'
  BY <1>1, <1>2 DEF StatsType, NewStats
<1>4. MaxIterations * MaxTrials \in Nat
  BY <1>2, Budget
<1> QED BY <1>3, <1>4 DEF SpentFits, Ended, NewStats

(* A call begins. *)
LEMMA OptimizeStep == ASSUME IInv, NEW wants \in BOOLEAN, Optimize(wants) PROVE IInv'
<1>1. /\ lm.phase = "idle" /\ target' = {} /\ answer' = {} /\ stats' = NewStats
      /\ UNCHANGED <<graph, estimate, target, shown>> /\ current' = FALSE
  BY DEF IInv, Optimize, TrialFits, problem, Prepare, PrepareFails
<1>2. StatsType' /\ SpentFits'
  BY <1>1, NewStatsFit
<1>3. WorkspaceTypeOK'
  BY <1>1 DEF IInv, WorkspaceTypeOK, Optimize, Prepare, PrepareFails, Model, Form
<1>4. CASE Return(Failed("prepare"))
  BY <1>1, <1>2, <1>3, <1>4, CallFails DEF Failed, NoResult
<1>5. CASE lm' = [Idle EXCEPT !.phase = "cost", !.wants = wants] /\ result' = NoResult
  <2>1. LmType' /\ lm'.phase = "cost" /\ ~lm'.stalled
    <3>1. 0 \in 0..(MaxTrials - 1) /\ InitialDamping \in MinDamping..MaxDamping
      BY OptionsAreValid
    <3> QED BY <1>5, <3>1 DEF LmType, Idle, Phase
  <2>2. TrialFits' /\ ModelFits' /\ ResultFits'
    BY <1>1, <1>5, <2>1 DEF TrialFits, ModelFits, ResultFits, Trying, Looping, Closing
  <2>3. PhaseFits'
    BY <1>1, <1>5, <2>1 DEF PhaseFits, Ended, NewStats, NoResult, Trying, Looping
  <2>4. CostIsTracked' /\ VerdictIsEarned' /\ CovarianceOfTheResult'
    BY <1>1, <1>5, <2>1 DEF CostIsTracked, NoResult, VerdictIsEarned, SuccessIsStationary,
       GivesUpLate, CovarianceOfTheResult
  <2> QED BY <1>2, <1>3, <2>1, <2>2, <2>3, <2>4 DEF IInv
<1> QED BY <1>4, <1>5 DEF Optimize

-----------------------------------------------------------------------------
LEMMA LMInit == Init => IInv
<1> SUFFICES ASSUME Init PROVE IInv
  OBVIOUS
<1>1. WorkspaceTypeOK
  BY DEF Init, WorkspaceInit, WorkspaceTypeOK, Model, Form, Here
<1>2. LmType /\ lm.phase = "idle" /\ ~lm.stalled
  <2>1. 0 \in 0..(MaxTrials - 1) /\ InitialDamping \in MinDamping..MaxDamping
    BY OptionsAreValid
  <2> QED BY <2>1 DEF Init, LmType, Idle, Phase
<1>3. StatsType /\ SpentFits
  <2>1. {} \in AtMostOne(Nat) /\ {} \in AtMostOne(Rejection)
    BY Single
  <2>2. 0 \in 0..MaxIterations /\ InitialDamping \in MinDamping..MaxDamping
    BY OptionsAreValid
  <2>3. MaxIterations * MaxTrials \in Nat
    BY <2>2, Budget
  <2> QED BY <2>1, <2>2, <2>3 DEF Init, StatsType, SpentFits, Ended, NewStats
<1>4. TrialFits /\ ModelFits /\ ResultFits /\ PhaseFits
  BY <1>2 DEF Init, WorkspaceInit, TrialFits, ModelFits, ResultFits, PhaseFits, NoResult,
     Trying, Looping, Closing
<1>5. CostIsTracked /\ VerdictIsEarned /\ CovarianceOfTheResult
  BY <1>2 DEF Init, CostIsTracked, NoResult, VerdictIsEarned, SuccessIsStationary, GivesUpLate,
     CovarianceOfTheResult
<1> QED BY <1>1, <1>2, <1>3, <1>4, <1>5 DEF IInv

LEMMA LMStep == IInv /\ [Next]_vars => IInv'
<1> SUFFICES ASSUME IInv, [Next]_vars PROVE IInv'
  OBVIOUS
<1>1. CASE UNCHANGED vars
  BY <1>1 DEF vars, problem, IInv, WorkspaceTypeOK, LmType, StatsType, TrialFits, ModelFits,
     ModelIsFresh, Here, CostHere, ResultFits, SpentFits, PhaseFits, Ended, CostIsTracked,
     VerdictIsEarned, SuccessIsStationary, GivesUpLate, CovarianceOfTheResult
<1>2. CASE Edit \/ \E wants \in BOOLEAN : Optimize(wants)
  BY <1>2, EditStep, OptimizeStep
<1>3. CASE Running
  BY <1>3, InitialCostStep, InitialCostFailsStep, NothingToOptimizeStep, RelinearizeStep,
     TestStep, GradientNotFiniteStep, SolveStep, SolveRejectedStep, SolveFailsStep,
     StagePanicsStep, TrialCostStep, TrialInvalidStep, TrialFailsStep, JudgeStep, ObserveStep,
     ModelForCovarianceStep, CovarianceStep DEF Running
<1> QED BY <1>1, <1>2, <1>3 DEF Next

LEMMA LMInvariant == Spec => []IInv
BY LMInit, LMStep, PTL DEF Spec

-----------------------------------------------------------------------------
LEMMA AtMostOneIsSmall ==
  ASSUME NEW S, NEW T \in AtMostOne(S)
  PROVE  T \subseteq S /\ Cardinality(T) <= 1
<1>1. Cardinality({}) = 0 /\ \A x : Cardinality({x}) = 1
  BY FS_EmptySet, FS_Singleton
<1>2. T = {} \/ \E x \in S : T = {x}
  BY DEF AtMostOne
<1> QED BY <1>1, <1>2

LEMMA CountersAreBounded ==
  ASSUME StatsType, SpentFits
  PROVE  /\ stats.rejected \in Counter /\ stats.attempts \in Counter
         /\ stats.evaluations \in Counter /\ stats.linearizations \in 0..(MaxIterations + 1)
<1>1. /\ stats.attempts \in Nat /\ stats.rejected \in Nat /\ stats.evaluations \in Nat
      /\ stats.linearizations \in Nat /\ stats.accepted \in 0..MaxIterations
  BY DEF StatsType
<1>2. /\ MaxIterations * MaxTrials \in Nat
      /\ (MaxIterations + 1) * MaxTrials = MaxIterations * MaxTrials + MaxTrials
  <2>1. MaxIterations \in 0..MaxIterations
    BY OptionsAreValid
  <2> QED BY <2>1, Budget
<1>3. /\ stats.rejected <= stats.attempts /\ stats.attempts <= MaxIterations * MaxTrials
      /\ stats.evaluations <= stats.attempts + 1
  BY <1>1 DEF SpentFits, Ended
<1>4. stats.linearizations \in 0..(MaxIterations + 1)
  BY <1>1, OptionsAreValid DEF SpentFits
<1> HIDE DEF Counter
<1>5. \A n \in Nat : n <= MaxIterations * MaxTrials + 1 => n \in Counter
  <2> DEFINE B == MaxIterations * MaxTrials
             C == (MaxIterations + 1) * MaxTrials
  <2>1. B \in Nat /\ C = B + MaxTrials /\ MaxTrials \in Nat
    BY <1>2, OptionsAreValid
  <2> HIDE DEF B, C
  <2>2. \A n \in Nat : n <= B + 1 => n \in 0..C + 1
    BY <2>1
  <2> QED BY <2>2 DEF B, C, Counter
<1> QED BY <1>1, <1>2, <1>3, <1>4, <1>5

(* The damping stays within its bounds, whatever the steps make of it, and *)
(* no call makes more attempts than its options allow                      *)
(* (levenberg_marquardt.rs:17-34, 251-343).                                *)
THEOREM LoopTypeCorrect == Spec => []TypeOK
<1>1. ASSUME IInv PROVE TypeOK
  <2>1. /\ stats.cost \subseteq Nat /\ Cardinality(stats.cost) <= 1
        /\ stats.why \subseteq Rejection /\ Cardinality(stats.why) <= 1
    BY <1>1, AtMostOneIsSmall DEF IInv, StatsType
  <2> QED BY <1>1, <2>1, CountersAreBounded DEF IInv, LmType, StatsType, TypeOK
<1> QED BY <1>1, LMInvariant, PTL

(* Wherever a call of optimize is and however the earlier ones ended: the  *)
(* cost it compares with is that of the accepted estimates, it solves only *)
(* for a fresh model, and the statistics add up (lines 210-343).           *)
THEOREM LoopIsSound == Spec => []LoopInvariant
<1>1. ASSUME IInv PROVE SolvesFreshModel
  BY <1>1 DEF IInv, ModelFits, SolvesFreshModel, Trying
<1>2. ASSUME IInv PROVE StatisticsAdd
  BY <1>2 DEF IInv, LmType, StatsType, Phase, SpentFits, PhaseFits, Ended, StatisticsAdd
<1>3. IInv => CostIsTracked
  BY DEF IInv
<1> QED BY <1>1, <1>2, <1>3, LMInvariant, LoopTypeCorrect, PTL DEF LoopInvariant

(* Success is reported only where the gradient vanishes, and a call gives  *)
(* up only after it has tried what the options allow (lines 230-343).      *)
THEOREM VerdictsAreEarned == Spec => []VerdictIsEarned
<1>1. IInv => VerdictIsEarned
  BY DEF IInv
<1> QED BY <1>1, LMInvariant, PTL

(* A covariance is one of the problem and the estimates the call ended     *)
(* with, whatever was linearized before (solver.rs:225-259).               *)
THEOREM CovarianceFitsTheResult == Spec => []CovarianceOfTheResult
<1>1. IInv => CovarianceOfTheResult
  BY DEF IInv
<1> QED BY <1>1, LMInvariant, PTL

(* The estimates move only when a step is accepted. *)
LEMMA OnlyAcceptanceMoves ==
  ASSUME lm.phase # "idle", [Next]_vars, estimate' # estimate
  PROVE  lm.phase = "judge" /\ \E e \in target : AcceptStep(Cost[graph][e])
<1>1. Running
  BY DEF Next, vars, problem, Edit, Optimize
<1>2. Judge
  BY <1>1 DEF Running, problem, InitialCost, InitialCostFails, NothingToOptimize, Relinearize,
     Test, GradientNotFinite, Solve, SolveRejected, SolveFails, StagePanics, Abort, TrialCost,
     TrialInvalid, TrialFails, Observe, ModelForCovariance, Covariance
<1> QED BY <1>2 DEF Judge, RejectStep, Abort

(* No call of optimize leaves the problem worse than it found it, neither  *)
(* by a step nor by an error or a panic (lines 196-345).                   *)
THEOREM NeverUphill == Spec => OnlyDownhill
<1>1. ASSUME IInv, [Next]_vars
      PROVE  [lm.phase # "idle" /\ estimate' # estimate => CostHere' < CostHere]_vars
  <2>1. ASSUME lm.phase # "idle", estimate' # estimate PROVE CostHere' < CostHere
    <3>1. PICK e \in target : lm.phase = "judge" /\ AcceptStep(Cost[graph][e])
      BY <1>1, <2>1, OnlyAcceptanceMoves
    <3> QED BY <1>1, <3>1, AcceptedCost
  <2> QED BY <2>1
<1> QED BY <1>1, LMInvariant, PTL DEF Spec, OnlyDownhill

(* What a step of the loop is to somebody who sees only the estimates.    *)
LEMMA EstimatesStep == IInv /\ [Next]_vars => [Estimates!Next]_(Estimates!vars)
<1> SUFFICES ASSUME IInv, [Next]_vars PROVE [Estimates!Next]_(Estimates!vars)
  OBVIOUS
<1> USE DEF Estimates!vars, Estimates!Next
<1>1. CASE UNCHANGED <<estimate, target, shown>>
  BY <1>1
<1>2. CASE Edit
  BY <1>2 DEF Edit, EditProblem, IInv, TrialFits, Estimates!Edit
<1>3. CASE InitialCost
  BY <1>3 DEF InitialCost, IInv, TrialFits, Estimates!Read
<1>4. CASE Relinearize \/ ModelForCovariance
  BY <1>4 DEF Relinearize, ModelForCovariance, Linearize, LinearizeFails, IInv, TrialFits,
     Estimates!Read
<1>5. CASE Solve
  BY <1>5 DEF Solve, IInv, TrialFits, Estimates!Begin
<1>6. CASE TrialCost
  BY <1>6 DEF TrialCost, Estimates!Evaluate
<1>7. CASE lm.phase \in {"trial", "judge"} /\ Abort
  <2>1. target # {}
    BY <1>7 DEF IInv, TrialFits
  <2> QED BY <1>7, <2>1 DEF Abort, Estimates!Abort
<1>8. CASE lm.phase = "judge" /\ \E e \in target : AcceptStep(Cost[graph][e])
  BY <1>8, AcceptedCost DEF AcceptStep, Estimates!Commit
<1> QED BY <1>1, <1>2, <1>3, <1>4, <1>5, <1>6, <1>7, <1>8
        DEF Next, vars, problem, Optimize, Running, InitialCostFails, NothingToOptimize, Test,
            GradientNotFinite, SolveRejected, SolveFails, StagePanics, TrialInvalid, TrialFails,
            Judge, RejectStep, Observe, Covariance

(* The loop implements EstimateStore: nobody can see half a step, or one   *)
(* that was taken back (levenberg_marquardt.rs:210-345).                   *)
THEOREM LoopRefinesEstimates == Spec => RefinesEstimates
<1>1. Init => Estimates!Init
  BY DEF Init, WorkspaceInit, Estimates!Init
<1> QED BY <1>1, EstimatesStep, LMInvariant, PTL DEF Spec, Estimates!Spec, RefinesEstimates
=============================================================================
