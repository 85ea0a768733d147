---------------------------- MODULE TrialStates ----------------------------
(***************************************************************************)
(* The accepted and the trial values of the state pools (storage.rs:27-43, *)
(* 73-171) and the guard that moves all of them together (optimization.rs: *)
(* 418-473).  Staging visits the pools one after the other and retracts    *)
(* one state at a time; a retraction may panic.  Acceptance visits them    *)
(* again, and the guard's drop once more, on success, error and unwinding. *)
(*                                                                         *)
(* A tangent has one component per state and names the version the state   *)
(* is retracted to: every version can be reached from every other one.     *)
(***************************************************************************)
EXTENDS Integers, Sequences

CONSTANTS Version,   \* values of a state
          Offset     \* where each pool's slice of a delta begins, in schema
                     \* order, and where the last one's ends

ASSUME OffsetAssumption ==
  /\ Offset \in Seq(Nat) /\ Len(Offset) >= 1
  /\ Offset[1] = 0
  /\ \A p, q \in 1..Len(Offset) : p <= q => Offset[p] <= Offset[q]

VARIABLES pool,   \* the pools, in schema order
          txn,    \* the trial that is running
          shown   \* the estimates as somebody read them last

trialVars == <<pool, txn, shown>>

NPools == Len(Offset) - 1
Width(p) == Offset[p + 1] - Offset[p]
Dimension == Offset[NPools + 1]

Tangent == [1..Dimension -> Version]

State == UNION {{p} \X (1..Width(p)) : p \in 1..NPools}
Estimate == [State -> Version]

(* Where a tangent moves all states to: each by its own component. *)
Moved(delta) == [s \in State |-> delta[Offset[s[1]] + s[2]]]

StatePool == [values : Seq(Version), trial : Seq(Version), active : BOOLEAN]

Phase == {"none", "stage", "retract", "evaluate", "accept", "reject"}

NoTrial == [phase |-> "none", at |-> 1, position |-> 0, delta |-> <<>>]

(* The estimates of all states. *)
Accepted == [s \in State |-> pool[s[1]].values[s[2]]]

(* StatePool::current_values *)
CurrentValues(p) == IF p.active THEN p.trial ELSE p.values

Visible == [s \in State |-> CurrentValues(pool[s[1]])[s[2]]]

-----------------------------------------------------------------------------
(* StatePool::reject_trial and accept_trial. *)
RejectTrial_KeepsFlag(p) == [p EXCEPT !.trial = <<>>]

RejectTrial(p) == [p EXCEPT !.active = FALSE, !.trial = <<>>]

AcceptTrial(p) ==
  IF p.active THEN [values |-> p.trial, trial |-> p.values, active |-> FALSE] ELSE p

-----------------------------------------------------------------------------
Fresh(values) == [values |-> values, trial |-> <<>>, active |-> FALSE]

TrialInit == /\ \E first \in Estimate :
                  pool = [p \in 1..NPools |-> Fresh([i \in 1..Width(p) |-> first[<<p, i>>]])]
             /\ txn = NoTrial
             /\ shown = Visible

NoTrialRuns == txn.phase = "none"

Begin(delta) ==
  /\ NoTrialRuns
  /\ txn' = [phase |-> "stage", at |-> 1, position |-> 0, delta |-> delta]
  /\ UNCHANGED <<pool, shown>>

(* Stage.pool: whatever the pool staged before is dropped.  Its slice of   *)
(* the delta exists, for both optimizers check the length of a step before *)
(* they begin a trial.                                                     *)
StageEnter ==
  /\ txn.phase = "stage"
  /\ txn.at <= NPools
  /\ txn' = [txn EXCEPT !.phase = "retract"]
  /\ pool' = [pool EXCEPT ![txn.at] = RejectTrial(@)]
  /\ UNCHANGED shown

(* The next state of the pool is retracted along its slice of the delta. *)
Retract ==
  /\ txn.phase = "retract"
  /\ Len(pool[txn.at].trial) < Len(pool[txn.at].values)
  /\ LET next == txn.delta[txn.position + Len(pool[txn.at].trial) + 1]
     IN  pool' = [pool EXCEPT ![txn.at].trial = Append(@, next)]
  /\ UNCHANGED <<txn, shown>>

RetractPanics ==
  /\ txn.phase = "retract"
  /\ Len(pool[txn.at].trial) < Len(pool[txn.at].values)
  /\ txn' = [txn EXCEPT !.phase = "reject", !.at = 1]
  /\ UNCHANGED <<pool, shown>>

StageLeave_KeepsPosition ==
  /\ txn.phase = "retract"
  /\ Len(pool[txn.at].trial) = Len(pool[txn.at].values)
  /\ pool' = [pool EXCEPT ![txn.at].active = TRUE]
  /\ txn' = [txn EXCEPT !.phase = "stage", !.at = @ + 1]
  /\ UNCHANGED shown

StageLeave ==
  /\ txn.phase = "retract"
  /\ Len(pool[txn.at].trial) = Len(pool[txn.at].values)
  /\ pool' = [pool EXCEPT ![txn.at].active = TRUE]
  /\ txn' = [txn EXCEPT !.phase = "stage", !.at = @ + 1,
                        !.position = @ + Len(pool[txn.at].values)]
  /\ UNCHANGED shown

StageDone ==
  /\ txn.phase = "stage"
  /\ txn.at > NPools
  /\ txn' = [txn EXCEPT !.phase = "evaluate"]
  /\ UNCHANGED <<pool, shown>>

(* A factor, or a caller between trials, reads the states. *)
Read ==
  /\ txn.phase \in {"none", "evaluate"}
  /\ shown' = Visible
  /\ UNCHANGED <<pool, txn>>

Accept ==
  /\ txn.phase = "evaluate"
  /\ txn' = [txn EXCEPT !.phase = "accept", !.at = 1]
  /\ UNCHANGED <<pool, shown>>

AcceptPool ==
  /\ txn.phase = "accept"
  /\ txn.at <= NPools
  /\ pool' = [pool EXCEPT ![txn.at] = AcceptTrial(@)]
  /\ txn' = [txn EXCEPT !.at = @ + 1]
  /\ UNCHANGED shown

(* The guard is dropped: after an evaluation that failed, panicked or did  *)
(* not convince, and after acceptance.                                     *)
Drop ==
  /\ \/ txn.phase = "evaluate"
     \/ txn.phase = "accept" /\ txn.at > NPools
  /\ txn' = [txn EXCEPT !.phase = "reject", !.at = 1]
  /\ UNCHANGED <<pool, shown>>

RejectPool ==
  /\ txn.phase = "reject"
  /\ txn.at <= NPools
  /\ pool' = [pool EXCEPT ![txn.at] = RejectTrial(@)]
  /\ txn' = [txn EXCEPT !.at = @ + 1]
  /\ UNCHANGED shown

End ==
  /\ txn.phase = "reject"
  /\ txn.at > NPools
  /\ txn' = NoTrial
  /\ UNCHANGED <<pool, shown>>

(* Problem::set, between trials. *)
SetState(p, i, v) ==
  /\ NoTrialRuns
  /\ pool' = [pool EXCEPT ![p].values[i] = v]
  /\ UNCHANGED <<txn, shown>>

(* prepare_trial, of all pools, at the start of an optimization. *)
PrepareTrials ==
  /\ NoTrialRuns
  /\ pool' = [p \in 1..NPools |-> RejectTrial(pool[p])]
  /\ UNCHANGED <<txn, shown>>

TrialStep == \/ StageEnter \/ Retract \/ RetractPanics \/ StageLeave \/ StageDone
             \/ AcceptPool \/ RejectPool \/ End

TrialNext == \/ \E delta \in Tangent : Begin(delta)
             \/ TrialStep \/ Read \/ Accept \/ Drop \/ PrepareTrials
             \/ \E p \in 1..NPools : \E i \in 1..Width(p), v \in Version : SetState(p, i, v)

TrialSpec == TrialInit /\ [][TrialNext]_trialVars

-----------------------------------------------------------------------------
(* Every pool keeps as many accepted values as it has states, and never    *)
(* more trial values than that (storage.rs:27-43, 141-171).                *)
TrialTypeOK ==
  /\ \A p \in 1..NPools : /\ pool[p] \in StatePool
                          /\ Len(pool[p].values) = Width(p)
                          /\ Len(pool[p].trial) <= Width(p)
  /\ DOMAIN pool = 1..NPools
  /\ txn.phase \in Phase /\ txn.at \in 1..(NPools + 1) /\ txn.position \in 0..Dimension
  /\ txn.delta \in Seq(Version)
  /\ shown \in Estimate

(* Outside a trial no pool shows trial values and no buffer holds any: the *)
(* guard has reached every pool, half staged ones included, however the    *)
(* trial ended (optimization.rs:464-473).                                  *)
NothingLeftBehind ==
  NoTrialRuns => \A p \in 1..NPools : ~pool[p].active /\ pool[p].trial = <<>>

(* No two pools show different trials at an evaluation: the pools showing  *)
(* trial values are, while staging, those already visited; at an           *)
(* evaluation, all; while accepting, those still to be visited.  A pool    *)
(* that shows trial values has one for every state.                        *)
StagedInOrder ==
  \A p \in 1..NPools :
    /\ pool[p].active => Len(pool[p].trial) = Width(p)
    /\ txn.phase \in {"stage", "retract"} => (pool[p].active <=> p < txn.at)
    /\ txn.phase = "evaluate" => pool[p].active
    /\ txn.phase = "accept" => (pool[p].active <=> p >= txn.at)
    /\ txn.phase = "reject" => (pool[p].active => p >= txn.at)

(* Trials begin from clean pools, visit them in order and clean up after  *)
(* themselves, in every interleaving of staging, panics, failures,         *)
(* acceptance and unwinding (storage.rs:73-171, optimization.rs:418-473).  *)
TrialInvariant == TrialTypeOK /\ NothingLeftBehind /\ StagedInOrder

(* All pools change together: a trial is committed whole or not at all,    *)
(* with every state given its own slice of the delta.                      *)
TrialInFlight == txn.phase \in {"stage", "retract", "evaluate"}

Estimates ==
  INSTANCE EstimateStore
    WITH estimate <- IF txn.phase = "accept" THEN Moved(txn.delta) ELSE Accepted,
         target   <- IF TrialInFlight THEN {Moved(txn.delta)} ELSE {}

(* Seen from outside, estimates move only as EstimateStore allows: to a    *)
(* target at once, or not at all, whichever pool is being staged, accepted *)
(* or dropped (optimization.rs:418-473).                                   *)
RefinesEstimates == Estimates!Spec
=============================================================================
