-------------------------- MODULE Evaluation_proofs --------------------------
(* Where the library runs the code of its users: the batch family that     *)
(* packs a selection for an evaluator (BatchPool), the trial transaction   *)
(* that moves the states there and back (TrialStates), and the sink that   *)
(* polices the evaluators (CheckedSink).  They share nothing but that;     *)
(* each has its own specification and its own invariant.                   *)
EXTENDS BatchPool, TrialStates, CheckedSink, DensePoolOps_proofs

(***************************************************************************)
(* Trials are atomic for any number of pools of any number of states and   *)
(* any values of them.                                                     *)
(*                                                                         *)
(* Inductive is only what also tells the values in the buffers: every      *)
(* value staged so far is the one the delta has for its state, because the *)
(* position in the delta is where the slice of the pool begins; while the  *)
(* trial is accepted, each pool has it either still as its trial or        *)
(* already as its accepted values.                                         *)
(***************************************************************************)

(* The value the running trial has for state i of pool p. *)
Staged(p, i) == txn.delta[Offset[p] + i]

HoldsTrial(p) == \A i \in 1..Len(pool[p].trial) : pool[p].trial[i] = Staged(p, i)

Types ==
  /\ pool \in [1..NPools -> StatePool]
  /\ \A p \in 1..NPools : /\ Len(pool[p].values) = Width(p)
                          /\ Len(pool[p].trial) <= Width(p)
  /\ txn \in [phase : Phase, at : 1..(NPools + 1), position : 0..Dimension, delta : Seq(Version)]
  /\ shown \in Estimate

(* The position in the delta is where the slice of the pool begins. *)
PositionFits ==
  /\ txn.phase # "none" => Len(txn.delta) = Dimension
  /\ txn.phase \in {"stage", "retract"} => txn.position = Offset[txn.at]
  /\ txn.phase = "retract" => txn.at <= NPools

(* Where the values of the running trial are. *)
ValuesFit ==
  \A p \in 1..NPools :
    /\ txn.phase \in {"stage", "retract"} /\ p < txn.at => HoldsTrial(p)
    /\ txn.phase = "retract" /\ p = txn.at => HoldsTrial(p)
    /\ txn.phase = "evaluate" => HoldsTrial(p)
    /\ txn.phase = "accept" /\ p >= txn.at => HoldsTrial(p)
    /\ txn.phase = "accept" /\ p < txn.at =>
         \A i \in 1..Width(p) : pool[p].values[i] = Staged(p, i)
    /\ txn.phase = "reject" /\ p < txn.at => ~pool[p].active /\ pool[p].trial = <<>>

TrialInv == Types /\ PositionFits /\ ValuesFit /\ NothingLeftBehind /\ StagedInOrder

-----------------------------------------------------------------------------
(* The slices are where the pools' widths put them. *)
LEMMA Slices ==
  /\ NPools \in Nat /\ Dimension \in Nat
  /\ \A p \in 1..(NPools + 1) : Offset[p] \in 0..Dimension
  /\ \A p \in 1..NPools : Width(p) \in Nat /\ Offset[p] + Width(p) = Offset[p + 1]
<1>1. NPools \in Nat /\ NPools + 1 = Len(Offset) /\ NPools + 1 \in 1..Len(Offset)
  BY OffsetAssumption DEF NPools
<1>2. \A p \in 1..(NPools + 1) : Offset[p] \in Nat /\ Offset[p] <= Offset[NPools + 1]
  BY <1>1, OffsetAssumption
<1>3. Dimension \in Nat
  BY <1>1, <1>2 DEF Dimension
<1>4. ASSUME NEW p \in 1..NPools
      PROVE  Width(p) \in Nat /\ Offset[p] + Width(p) = Offset[p + 1]
  <2>1. p \in 1..Len(Offset) /\ p + 1 \in 1..Len(Offset) /\ p <= p + 1
    BY <1>1
  <2>2. Offset[p] \in Nat /\ Offset[p + 1] \in Nat /\ Offset[p] <= Offset[p + 1]
    BY <2>1, OffsetAssumption
  <2> QED BY <2>2 DEF Width
<1> QED BY <1>1, <1>2, <1>3, <1>4 DEF Dimension

(* Every state of every pool has a component of its own in a tangent. *)
LEMMA SliceIsInDelta ==
  ASSUME NEW p \in 1..NPools, NEW i \in 1..Width(p)
  PROVE  Offset[p] + i \in 1..Dimension
<1>1. Offset[p] \in 0..Dimension /\ Offset[p + 1] \in 0..Dimension
  BY Slices
<1>2. Width(p) \in Nat /\ Offset[p] + Width(p) = Offset[p + 1] /\ Dimension \in Nat
  BY Slices
<1> QED BY <1>1, <1>2

LEMMA StateIsPair ==
  /\ \A p \in 1..NPools : \A i \in 1..Width(p) : <<p, i>> \in State
  /\ \A s \in State : s[1] \in 1..NPools /\ s[2] \in 1..Width(s[1])
BY DEF State

(* Tangents move estimates to estimates. *)
LEMMA MovedIsEstimate ==
  ASSUME NEW delta \in Seq(Version), Len(delta) = Dimension
  PROVE  Moved(delta) \in Estimate
<1>1. \A s \in State : delta[Offset[s[1]] + s[2]] \in Version
  BY StateIsPair, SliceIsInDelta
<1> QED BY <1>1 DEF Moved, Estimate

(* What the pools hold and what they show are estimates. *)
LEMMA PoolsHoldEstimates ==
  ASSUME Types, StagedInOrder
  PROVE  Accepted \in Estimate /\ Visible \in Estimate
<1>1. ASSUME NEW s \in State
      PROVE  pool[s[1]].values[s[2]] \in Version /\ CurrentValues(pool[s[1]])[s[2]] \in Version
  <2>1. s[1] \in 1..NPools /\ s[2] \in 1..Width(s[1])
    BY StateIsPair
  <2>2. /\ pool[s[1]] \in StatePool /\ Len(pool[s[1]].values) = Width(s[1])
        /\ pool[s[1]].active => Len(pool[s[1]].trial) = Width(s[1])
    BY <2>1 DEF Types, StagedInOrder
  <2> QED BY <2>1, <2>2 DEF StatePool, CurrentValues
<1> QED BY <1>1 DEF Accepted, Visible, Estimate

(* When all pools show their whole trial, a reader sees the moved states.  *)
LEMMA TrialIsVisible ==
  ASSUME \A p \in 1..NPools : /\ pool[p].active /\ Len(pool[p].trial) = Width(p)
                              /\ HoldsTrial(p)
  PROVE  Visible = Moved(txn.delta)
<1>1. ASSUME NEW s \in State
      PROVE  CurrentValues(pool[s[1]])[s[2]] = txn.delta[Offset[s[1]] + s[2]]
  BY StateIsPair DEF CurrentValues, HoldsTrial, Staged
<1> QED BY <1>1 DEF Visible, Moved

(* When no pool shows a trial, a reader sees what was accepted. *)
LEMMA AcceptedIsVisible ==
  ASSUME \A p \in 1..NPools : ~pool[p].active
  PROVE  Visible = Accepted
<1>1. \A s \in State : CurrentValues(pool[s[1]])[s[2]] = pool[s[1]].values[s[2]]
  BY StateIsPair DEF CurrentValues
<1> QED BY <1>1 DEF Visible, Accepted

-----------------------------------------------------------------------------
(* The steps that only move the transaction on. *)
LEMMA BeginStep == ASSUME TrialInv, NEW delta \in Tangent, Begin(delta) PROVE TrialInv'
<1>1. delta \in Seq(Version) /\ Len(delta) = Dimension
  BY Slices DEF Tangent
<1>2. /\ txn' = [phase |-> "stage", at |-> 1, position |-> 0, delta |-> delta]
      /\ UNCHANGED <<pool, shown>> /\ txn.phase = "none"
  BY DEF Begin, NoTrialRuns
<1>3. 1 \in 1..(NPools + 1) /\ 0 \in 0..Dimension /\ Offset[1] = 0
  BY Slices, OffsetAssumption
<1>4. Types' /\ PositionFits'
  BY <1>1, <1>2, <1>3 DEF TrialInv, Types, PositionFits, Phase
<1>5. ValuesFit' /\ NothingLeftBehind'
  BY <1>2 DEF ValuesFit, NothingLeftBehind, NoTrialRuns
<1>6. StagedInOrder'
  BY <1>2 DEF TrialInv, NothingLeftBehind, NoTrialRuns, StagedInOrder
<1> QED BY <1>4, <1>5, <1>6 DEF TrialInv

LEMMA RetractPanicsStep == TrialInv /\ RetractPanics => TrialInv'
<1> SUFFICES ASSUME TrialInv, RetractPanics PROVE TrialInv'
  OBVIOUS
<1>1. /\ txn.phase = "retract" /\ UNCHANGED <<pool, shown>>
      /\ txn' = [txn EXCEPT !.phase = "reject", !.at = 1]
      /\ 1 \in 1..(NPools + 1)
  BY Slices DEF RetractPanics
<1>2. Types' /\ txn'.phase = "reject" /\ txn'.at = 1 /\ txn'.delta = txn.delta
  BY <1>1 DEF TrialInv, Types, Phase
<1>3. PositionFits' /\ ValuesFit' /\ NothingLeftBehind' /\ StagedInOrder'
  BY <1>1, <1>2 DEF TrialInv, PositionFits, ValuesFit, NothingLeftBehind, NoTrialRuns, StagedInOrder
<1> QED BY <1>2, <1>3 DEF TrialInv

LEMMA StageDoneStep == TrialInv /\ StageDone => TrialInv'
<1> SUFFICES ASSUME TrialInv, StageDone PROVE TrialInv'
  OBVIOUS
<1>1. /\ txn.phase = "stage" /\ txn.at > NPools /\ UNCHANGED <<pool, shown>>
      /\ txn' = [txn EXCEPT !.phase = "evaluate"]
  BY DEF StageDone
<1>2. Types' /\ txn'.phase = "evaluate" /\ txn'.delta = txn.delta
  BY <1>1 DEF TrialInv, Types, Phase
<1>3. \A p \in 1..NPools : p < txn.at
  BY <1>1, Slices DEF TrialInv, Types
<1>4. PositionFits' /\ NothingLeftBehind' /\ StagedInOrder'
  BY <1>1, <1>2, <1>3 DEF TrialInv, PositionFits, NothingLeftBehind, NoTrialRuns, StagedInOrder
<1>5. ValuesFit'
  BY <1>1, <1>2, <1>3 DEF TrialInv, ValuesFit, HoldsTrial, Staged
<1> QED BY <1>2, <1>4, <1>5 DEF TrialInv

LEMMA ReadStep == TrialInv /\ Read => TrialInv'
<1> SUFFICES ASSUME TrialInv, Read PROVE TrialInv'
  OBVIOUS
<1>1. shown' \in Estimate /\ UNCHANGED <<pool, txn>>
  BY PoolsHoldEstimates DEF TrialInv, Read
<1> QED BY <1>1 DEF TrialInv, Types, PositionFits, ValuesFit, HoldsTrial, Staged,
               NothingLeftBehind, NoTrialRuns, StagedInOrder

LEMMA AcceptStep == TrialInv /\ Accept => TrialInv'
<1> SUFFICES ASSUME TrialInv, Accept PROVE TrialInv'
  OBVIOUS
<1>1. /\ txn.phase = "evaluate" /\ UNCHANGED <<pool, shown>>
      /\ txn' = [txn EXCEPT !.phase = "accept", !.at = 1]
      /\ 1 \in 1..(NPools + 1)
  BY Slices DEF Accept
<1>2. Types' /\ txn'.phase = "accept" /\ txn'.at = 1 /\ txn'.delta = txn.delta
  BY <1>1 DEF TrialInv, Types, Phase
<1>3. PositionFits' /\ NothingLeftBehind' /\ StagedInOrder'
  BY <1>1, <1>2 DEF TrialInv, PositionFits, NothingLeftBehind, NoTrialRuns, StagedInOrder
<1>4. ValuesFit'
  BY <1>1, <1>2 DEF TrialInv, ValuesFit, HoldsTrial, Staged
<1> QED BY <1>2, <1>3, <1>4 DEF TrialInv

LEMMA DropStep == TrialInv /\ Drop => TrialInv'
<1> SUFFICES ASSUME TrialInv, Drop PROVE TrialInv'
  OBVIOUS
<1>1. /\ txn.phase \in {"evaluate", "accept"} /\ UNCHANGED <<pool, shown>>
      /\ txn' = [txn EXCEPT !.phase = "reject", !.at = 1]
      /\ 1 \in 1..(NPools + 1)
  BY Slices DEF Drop
<1>2. Types' /\ txn'.phase = "reject" /\ txn'.at = 1 /\ txn'.delta = txn.delta
  BY <1>1 DEF TrialInv, Types, Phase
<1>3. PositionFits' /\ ValuesFit' /\ NothingLeftBehind' /\ StagedInOrder'
  BY <1>1, <1>2 DEF TrialInv, PositionFits, ValuesFit, NothingLeftBehind, NoTrialRuns, StagedInOrder
<1> QED BY <1>2, <1>3 DEF TrialInv

LEMMA EndStep == TrialInv /\ End => TrialInv'
<1> SUFFICES ASSUME TrialInv, End PROVE TrialInv'
  OBVIOUS
<1>1. /\ txn.phase = "reject" /\ txn.at > NPools /\ UNCHANGED <<pool, shown>> /\ txn' = NoTrial
  BY DEF End
<1>2. \A p \in 1..NPools : ~pool[p].active /\ pool[p].trial = <<>>
  <2>1. txn.at \in Nat /\ NPools \in Nat
    BY Slices DEF TrialInv, Types
  <2>2. \A p \in 1..NPools : p < txn.at
    BY <1>1, <2>1
  <2>3. \A p \in 1..NPools :
          txn.phase = "reject" /\ p < txn.at => ~pool[p].active /\ pool[p].trial = <<>>
    BY DEF TrialInv, ValuesFit
  <2> QED BY ONLY <1>1, <2>2, <2>3
<1>3. 1 \in 1..(NPools + 1) /\ 0 \in 0..Dimension /\ <<>> \in Seq(Version)
  BY Slices
<1>4. Types' /\ txn'.phase = "none"
  BY <1>1, <1>3 DEF TrialInv, Types, NoTrial, Phase
<1>5. PositionFits' /\ ValuesFit' /\ NothingLeftBehind' /\ StagedInOrder'
  BY <1>1, <1>2, <1>4 DEF TrialInv, PositionFits, ValuesFit, NothingLeftBehind, StagedInOrder
<1> QED BY <1>4, <1>5 DEF TrialInv

-----------------------------------------------------------------------------
(* A pool drops its trial. *)
LEMMA RejectedPool ==
  ASSUME NEW p \in StatePool
  PROVE  /\ RejectTrial(p) \in StatePool /\ RejectTrial(p).values = p.values
         /\ ~RejectTrial(p).active /\ RejectTrial(p).trial = <<>>
<1>1. <<>> \in Seq(Version)
  OBVIOUS
<1> QED BY <1>1 DEF StatePool, RejectTrial

(* Staging enters a pool, which forgets what it staged before. *)
LEMMA StageEnterStep == TrialInv /\ StageEnter => TrialInv'
<1> SUFFICES ASSUME TrialInv, StageEnter PROVE TrialInv'
  OBVIOUS
<1> DEFINE here == txn.at
<1>1. /\ txn.phase = "stage" /\ here \in 1..NPools /\ shown' = shown
      /\ txn' = [txn EXCEPT !.phase = "retract"]
      /\ pool' = [pool EXCEPT ![here] = RejectTrial(@)]
  BY Slices DEF TrialInv, Types, StageEnter
<1>2. /\ txn'.phase = "retract" /\ txn'.at = here /\ txn'.delta = txn.delta
      /\ txn'.position = txn.position
      /\ txn' \in [phase : Phase, at : 1..(NPools + 1), position : 0..Dimension,
                   delta : Seq(Version)]
  BY <1>1 DEF TrialInv, Types, Phase
<1>3. /\ pool' \in [1..NPools -> StatePool]
      /\ pool'[here].values = pool[here].values /\ ~pool'[here].active
      /\ pool'[here].trial = <<>>
      /\ \A p \in 1..NPools : p # here => pool'[p] = pool[p]
  <2>1. pool \in [1..NPools -> StatePool] /\ pool[here] \in StatePool
    BY <1>1 DEF TrialInv, Types
  <2> QED BY <1>1, <2>1, RejectedPool
<1>4. Types'
  BY <1>1, <1>2, <1>3, Slices, SMTT(40) DEF TrialInv, Types
<1>5. PositionFits'
  BY <1>1, <1>2 DEF TrialInv, PositionFits
<1>6. ValuesFit'
  BY <1>1, <1>2, <1>3 DEF TrialInv, ValuesFit, HoldsTrial, Staged
<1>7. NothingLeftBehind' /\ StagedInOrder'
  BY <1>1, <1>2, <1>3 DEF TrialInv, NothingLeftBehind, NoTrialRuns, StagedInOrder
<1> QED BY <1>4, <1>5, <1>6, <1>7 DEF TrialInv

(* A state is moved by its own component of the delta. *)
LEMMA RetractStep == TrialInv /\ Retract => TrialInv'
<1> SUFFICES ASSUME TrialInv, Retract PROVE TrialInv'
  OBVIOUS
<1> DEFINE here == txn.at
           done == Len(pool[here].trial)
           next == txn.delta[txn.position + done + 1]
<1>1. /\ txn.phase = "retract" /\ here \in 1..NPools /\ UNCHANGED <<txn, shown>>
      /\ txn.position = Offset[here] /\ Len(txn.delta) = Dimension
      /\ done < Len(pool[here].values)
      /\ pool' = [pool EXCEPT ![here].trial = Append(@, next)]
  BY Slices DEF TrialInv, Types, PositionFits, Retract
<1>2. /\ pool \in [1..NPools -> StatePool] /\ pool[here] \in StatePool
      /\ pool[here].trial \in Seq(Version) /\ done \in Nat /\ done + 1 \in 1..Width(here)
      /\ Len(pool[here].values) = Width(here)
  <2>1. pool \in [1..NPools -> StatePool] /\ Len(pool[here].values) = Width(here)
    BY <1>1 DEF TrialInv, Types
  <2>2. pool[here] \in StatePool /\ pool[here].trial \in Seq(Version)
    BY <1>1, <2>1 DEF StatePool
  <2>3. done \in Nat
    BY <2>2
  <2>4. Width(here) \in Nat /\ done < Width(here)
    BY <1>1, <2>1, Slices
  <2>5. done + 1 \in 1..Width(here)
    BY ONLY <2>3, <2>4
  <2> QED BY <2>1, <2>2, <2>3, <2>5
<1>3. next = Staged(here, done + 1) /\ next \in Version
  <2>1. Offset[here] + (done + 1) \in 1..Dimension
    BY <1>1, <1>2, SliceIsInDelta
  <2>2. Offset[here] + (done + 1) = txn.position + done + 1
    <3>1. Offset[here] \in Nat /\ done \in Nat
      BY <1>1, <1>2, Slices
    <3>2. \A o, d \in Nat : o + (d + 1) = o + d + 1
      OBVIOUS
    <3> HIDE DEF here, done
    <3> QED BY <1>1, <3>1, <3>2
  <2> QED BY <1>1, <2>1, <2>2 DEF TrialInv, Types, Staged
<1>4. /\ pool' \in [1..NPools -> StatePool]
      /\ pool'[here].values = pool[here].values /\ pool'[here].active = pool[here].active
      /\ pool'[here].trial = Append(pool[here].trial, next)
      /\ \A p \in 1..NPools : p # here => pool'[p] = pool[p]
  <2> HIDE DEF next, here
  <2>1. Append(pool[here].trial, next) \in Seq(Version)
    BY <1>2, <1>3
  <2> QED BY <1>1, <1>2, <2>1 DEF StatePool
<1>5. /\ Len(pool'[here].trial) = done + 1
      /\ \A i \in 1..(done + 1) :
           pool'[here].trial[i] = IF i = done + 1 THEN next ELSE pool[here].trial[i]
  <2> HIDE DEF next, here
  <2> QED BY <1>2, <1>4
<1> HIDE DEF next
<1>6. Types'
  <2>1. Len(pool'[here].values) = Width(here) /\ Len(pool'[here].trial) <= Width(here)
    BY <1>1, <1>2, <1>4, <1>5, Slices
  <2>2. \A p \in 1..NPools : Len(pool'[p].values) = Width(p) /\ Len(pool'[p].trial) <= Width(p)
    BY <1>4, <2>1 DEF TrialInv, Types
  <2> QED BY <1>1, <1>4, <2>2 DEF TrialInv, Types
<1>7. PositionFits'
  BY <1>1 DEF TrialInv, PositionFits
<1>8. ValuesFit'
  <2>1. HoldsTrial(here)'
    <3>1. \A i \in 1..done : pool[here].trial[i] = Staged(here, i)
      BY <1>1 DEF TrialInv, ValuesFit, HoldsTrial
    <3> QED BY <1>1, <1>2, <1>3, <1>5, <3>1, SMTT(40) DEF HoldsTrial, Staged
  <2>2. \A p \in 1..NPools : p < here => HoldsTrial(p)'
    BY <1>1, <1>4 DEF TrialInv, ValuesFit, HoldsTrial, Staged
  <2> QED BY <1>1, <2>1, <2>2 DEF ValuesFit
<1>9. NothingLeftBehind' /\ StagedInOrder'
  <2>1. ~pool[here].active
    BY <1>1 DEF TrialInv, StagedInOrder
  <2> QED BY <1>1, <1>4, <2>1 DEF TrialInv, NothingLeftBehind, NoTrialRuns, StagedInOrder
<1> QED BY <1>6, <1>7, <1>8, <1>9 DEF TrialInv

(* A pool is staged, and the slice of the next one begins. *)
LEMMA StageLeaveStep == TrialInv /\ StageLeave => TrialInv'
<1> SUFFICES ASSUME TrialInv, StageLeave PROVE TrialInv'
  OBVIOUS
<1> DEFINE here == txn.at
<1>1. /\ txn.phase = "retract" /\ here \in 1..NPools /\ shown' = shown
      /\ txn.position = Offset[here] /\ Len(txn.delta) = Dimension
      /\ Len(pool[here].values) = Width(here) /\ Len(pool[here].trial) = Width(here)
      /\ pool' = [pool EXCEPT ![here].active = TRUE]
      /\ txn' = [txn EXCEPT !.phase = "stage", !.at = @ + 1,
                            !.position = @ + Len(pool[here].values)]
  BY Slices DEF TrialInv, Types, PositionFits, StageLeave
<1>2. /\ here + 1 \in 1..(NPools + 1) /\ txn.position + Width(here) = Offset[here + 1]
      /\ Offset[here + 1] \in 0..Dimension
  BY <1>1, Slices
<1>3. /\ txn'.phase = "stage" /\ txn'.at = here + 1 /\ txn'.delta = txn.delta
      /\ txn'.position = Offset[here + 1]
      /\ txn' \in [phase : Phase, at : 1..(NPools + 1), position : 0..Dimension,
                   delta : Seq(Version)]
  BY <1>1, <1>2 DEF TrialInv, Types, Phase
<1>4. /\ pool' \in [1..NPools -> StatePool]
      /\ pool'[here].values = pool[here].values /\ pool'[here].active
      /\ pool'[here].trial = pool[here].trial
      /\ \A p \in 1..NPools : p # here => pool'[p] = pool[p]
  BY <1>1 DEF TrialInv, Types, StatePool
<1>5. Types'
  BY <1>1, <1>3, <1>4 DEF TrialInv, Types
<1>6. PositionFits'
  BY <1>1, <1>3 DEF PositionFits
<1>7. ValuesFit'
  <2>1. ASSUME NEW p \in 1..NPools, p < here + 1 PROVE HoldsTrial(p)'
    <3>1. HoldsTrial(p)
      BY <1>1, <2>1 DEF TrialInv, Types, ValuesFit
    <3> QED BY <1>3, <1>4, <3>1 DEF HoldsTrial, Staged
  <2> QED BY <1>3, <2>1 DEF ValuesFit
<1>8. NothingLeftBehind' /\ StagedInOrder'
  <2>1. \A p \in 1..NPools : (p < here + 1 <=> p < here \/ p = here)
    BY <1>1
  <2> QED BY <1>1, <1>3, <1>4, <2>1 DEF TrialInv, NothingLeftBehind, NoTrialRuns, StagedInOrder
<1> QED BY <1>5, <1>6, <1>7, <1>8 DEF TrialInv

(* A pool takes its trial for its values. *)
LEMMA AcceptPoolStep == TrialInv /\ AcceptPool => TrialInv'
<1> SUFFICES ASSUME TrialInv, AcceptPool PROVE TrialInv'
  OBVIOUS
<1> DEFINE here == txn.at
<1>1. /\ txn.phase = "accept" /\ here \in 1..NPools /\ shown' = shown
      /\ txn' = [txn EXCEPT !.at = @ + 1]
      /\ pool' = [pool EXCEPT ![here] = AcceptTrial(@)]
      /\ here + 1 \in 1..(NPools + 1)
  BY Slices DEF TrialInv, Types, AcceptPool
<1>2. /\ txn'.phase = "accept" /\ txn'.at = here + 1 /\ txn'.delta = txn.delta
      /\ txn' \in [phase : Phase, at : 1..(NPools + 1), position : 0..Dimension,
                   delta : Seq(Version)]
  BY <1>1 DEF TrialInv, Types, Phase
<1>3. /\ pool[here] \in StatePool /\ pool[here].active /\ HoldsTrial(here)
      /\ Len(pool[here].trial) = Width(here) /\ Len(pool[here].values) = Width(here)
  BY <1>1 DEF TrialInv, Types, ValuesFit, StagedInOrder
<1>4. /\ pool' \in [1..NPools -> StatePool]
      /\ pool'[here].values = pool[here].trial /\ ~pool'[here].active
      /\ pool'[here].trial = pool[here].values
      /\ \A p \in 1..NPools : p # here => pool'[p] = pool[p]
  BY <1>1, <1>3 DEF TrialInv, Types, StatePool, AcceptTrial
<1>5. Types'
  <2>1. \A p \in 1..NPools : Len(pool'[p].values) = Width(p) /\ Len(pool'[p].trial) <= Width(p)
    BY <1>3, <1>4, Slices DEF TrialInv, Types
  <2> QED BY <1>1, <1>2, <1>4, <2>1 DEF TrialInv, Types
<1>6. PositionFits'
  BY <1>1, <1>2 DEF TrialInv, PositionFits
<1>7. \A p \in 1..NPools : /\ p >= here + 1 => p >= here /\ p # here
                           /\ p < here + 1 => p < here \/ p = here
  BY <1>1
<1>8. ValuesFit'
  <2>1. ASSUME NEW p \in 1..NPools, p >= here + 1 PROVE HoldsTrial(p)'
    <3>1. HoldsTrial(p) /\ pool'[p] = pool[p]
      BY <1>1, <1>4, <1>7, <2>1 DEF TrialInv, ValuesFit
    <3> QED BY <1>2, <3>1 DEF HoldsTrial, Staged
  <2>2. ASSUME NEW p \in 1..NPools, p < here + 1
        PROVE  \A i \in 1..Width(p) : pool'[p].values[i] = Staged(p, i)'
    <3>1. CASE p = here
      BY <1>2, <1>3, <1>4, <3>1 DEF HoldsTrial, Staged
    <3>2. CASE p < here
      BY <1>1, <1>2, <1>4, <3>2 DEF TrialInv, ValuesFit, Staged
    <3> QED BY <1>7, <2>2, <3>1, <3>2
  <2> QED BY <1>2, <2>1, <2>2 DEF ValuesFit
<1>9. NothingLeftBehind' /\ StagedInOrder'
  BY <1>1, <1>2, <1>4, <1>7 DEF TrialInv, NothingLeftBehind, NoTrialRuns, StagedInOrder
<1> QED BY <1>5, <1>6, <1>8, <1>9 DEF TrialInv

(* The guard's drop reaches a pool. *)
LEMMA RejectPoolStep == TrialInv /\ RejectPool => TrialInv'
<1> SUFFICES ASSUME TrialInv, RejectPool PROVE TrialInv'
  OBVIOUS
<1> DEFINE here == txn.at
<1>1. /\ txn.phase = "reject" /\ here \in 1..NPools /\ shown' = shown
      /\ txn' = [txn EXCEPT !.at = @ + 1]
      /\ pool' = [pool EXCEPT ![here] = RejectTrial(@)]
      /\ here + 1 \in 1..(NPools + 1)
  BY Slices DEF TrialInv, Types, RejectPool
<1>2. /\ txn'.phase = "reject" /\ txn'.at = here + 1 /\ txn'.delta = txn.delta
      /\ txn' \in [phase : Phase, at : 1..(NPools + 1), position : 0..Dimension,
                   delta : Seq(Version)]
  BY <1>1 DEF TrialInv, Types, Phase
<1>3. /\ pool' \in [1..NPools -> StatePool]
      /\ pool'[here].values = pool[here].values /\ ~pool'[here].active
      /\ pool'[here].trial = <<>>
      /\ \A p \in 1..NPools : p # here => pool'[p] = pool[p]
  <2>1. pool \in [1..NPools -> StatePool] /\ pool[here] \in StatePool
    BY <1>1 DEF TrialInv, Types
  <2> QED BY <1>1, <2>1, RejectedPool
<1>4. Types'
  BY <1>1, <1>2, <1>3, Slices, SMTT(40) DEF TrialInv, Types
<1>5. PositionFits'
  BY <1>1, <1>2 DEF TrialInv, PositionFits
<1>6. \A p \in 1..NPools : /\ p >= here + 1 => p >= here /\ p # here
                           /\ p < here + 1 => p < here \/ p = here
                           /\ p >= here => p >= here + 1 \/ p = here
  BY <1>1
<1>7. ValuesFit'
  BY <1>1, <1>2, <1>3, <1>6 DEF TrialInv, ValuesFit
<1>8. NothingLeftBehind' /\ StagedInOrder'
  BY <1>1, <1>2, <1>3, <1>6 DEF TrialInv, NothingLeftBehind, NoTrialRuns, StagedInOrder
<1> QED BY <1>4, <1>5, <1>7, <1>8 DEF TrialInv

(* Between trials. *)
LEMMA SetStateStep ==
  ASSUME TrialInv, NEW p \in 1..NPools, NEW i \in 1..Width(p), NEW v \in Version, SetState(p, i, v)
  PROVE  TrialInv'
<1>1. /\ txn.phase = "none" /\ UNCHANGED <<txn, shown>>
      /\ pool' = [pool EXCEPT ![p].values[i] = v]
  BY DEF SetState, NoTrialRuns
<1>2. /\ pool \in [1..NPools -> StatePool] /\ pool[p] \in StatePool
      /\ pool[p].values \in Seq(Version) /\ Len(pool[p].values) = Width(p)
  BY DEF TrialInv, Types, StatePool
<1>3. /\ [pool[p].values EXCEPT ![i] = v] \in Seq(Version)
      /\ Len([pool[p].values EXCEPT ![i] = v]) = Width(p)
  BY <1>2
<1>4. /\ pool' \in [1..NPools -> StatePool]
      /\ Len(pool'[p].values) = Width(p)
      /\ pool'[p].active = pool[p].active /\ pool'[p].trial = pool[p].trial
      /\ \A q \in 1..NPools : q # p => pool'[q] = pool[q]
  BY <1>1, <1>2, <1>3 DEF StatePool
<1>5. Types'
  BY <1>1, <1>4 DEF TrialInv, Types
<1>6. PositionFits' /\ ValuesFit' /\ NothingLeftBehind' /\ StagedInOrder'
  BY <1>1, <1>4 DEF TrialInv, PositionFits, ValuesFit, NothingLeftBehind, NoTrialRuns, StagedInOrder
<1> QED BY <1>5, <1>6 DEF TrialInv

LEMMA PrepareTrialsStep == TrialInv /\ PrepareTrials => TrialInv'
<1> SUFFICES ASSUME TrialInv, PrepareTrials PROVE TrialInv'
  OBVIOUS
<1>1. /\ txn.phase = "none" /\ UNCHANGED <<txn, shown>>
      /\ pool' = [p \in 1..NPools |-> RejectTrial(pool[p])]
  BY DEF PrepareTrials, NoTrialRuns
<1>2. \A p \in 1..NPools : /\ pool'[p] \in StatePool /\ pool'[p].values = pool[p].values
                           /\ ~pool'[p].active /\ pool'[p].trial = <<>>
  BY <1>1, RejectedPool DEF TrialInv, Types
<1>3. Types'
  <2>1. pool' \in [1..NPools -> StatePool]
    BY <1>1, <1>2
  <2>2. \A p \in 1..NPools : Len(pool'[p].values) = Width(p) /\ Len(pool'[p].trial) <= Width(p)
    <3> TAKE p \in 1..NPools
    <3>1. Len(pool[p].values) = Width(p) /\ Width(p) \in Nat
      BY Slices DEF TrialInv, Types
    <3> QED BY <1>2, <3>1
  <2> QED BY <1>1, <2>1, <2>2 DEF TrialInv, Types
<1>4. PositionFits' /\ ValuesFit' /\ NothingLeftBehind' /\ StagedInOrder'
  BY <1>1, <1>2 DEF TrialInv, PositionFits, ValuesFit, NothingLeftBehind, NoTrialRuns, StagedInOrder
<1> QED BY <1>3, <1>4 DEF TrialInv

LEMMA TrialInitially == TrialInit => TrialInv
<1> SUFFICES ASSUME TrialInit PROVE TrialInv
  OBVIOUS
<1>1. PICK first \in Estimate :
        pool = [p \in 1..NPools |-> Fresh([i \in 1..Width(p) |-> first[<<p, i>>]])]
  BY DEF TrialInit
<1>2. ASSUME NEW p \in 1..NPools
      PROVE  /\ pool[p] \in StatePool /\ Len(pool[p].values) = Width(p)
             /\ ~pool[p].active /\ pool[p].trial = <<>>
  <2>1. \A i \in 1..Width(p) : first[<<p, i>>] \in Version
    BY StateIsPair DEF Estimate
  <2> DEFINE values == [i \in 1..Width(p) |-> first[<<p, i>>]]
  <2>2. values \in [1..Width(p) -> Version] /\ Width(p) \in Nat
    BY <2>1, Slices
  <2>3. pool[p] = Fresh(values)
    BY <1>1
  <2> HIDE DEF values
  <2>4. values \in Seq(Version) /\ Len(values) = Width(p) /\ <<>> \in Seq(Version)
    BY <2>2
  <2> QED BY <2>3, <2>4 DEF Fresh, StatePool
<1>3. /\ txn = NoTrial /\ 1 \in 1..(NPools + 1) /\ 0 \in 0..Dimension
      /\ <<>> \in Seq(Version)
  BY Slices DEF TrialInit
<1>4. pool \in [1..NPools -> StatePool]
  BY <1>1, <1>2
<1>5. txn.phase = "none" /\ txn \in [phase : Phase, at : 1..(NPools + 1),
                                     position : 0..Dimension, delta : Seq(Version)]
  BY <1>3 DEF NoTrial, Phase
<1>6. shown \in Estimate
  <2>1. ASSUME NEW s \in State PROVE CurrentValues(pool[s[1]])[s[2]] \in Version
    BY <1>2, StateIsPair DEF CurrentValues, StatePool
  <2> QED BY <2>1 DEF TrialInit, Visible, Estimate
<1>7. Types
  BY <1>2, <1>4, <1>5, <1>6, Slices DEF Types
<1>8. PositionFits /\ ValuesFit /\ NothingLeftBehind /\ StagedInOrder
  BY <1>2, <1>5 DEF PositionFits, ValuesFit, NothingLeftBehind, NoTrialRuns, StagedInOrder
<1> QED BY <1>7, <1>8 DEF TrialInv

LEMMA TrialsStep == TrialInv /\ [TrialNext]_trialVars => TrialInv'
<1> SUFFICES ASSUME TrialInv, [TrialNext]_trialVars PROVE TrialInv'
  OBVIOUS
<1>1. CASE UNCHANGED trialVars
  <2>1. pool' = pool /\ txn' = txn /\ shown' = shown
    BY <1>1 DEF trialVars
  <2>2. Types' /\ PositionFits'
    BY <2>1 DEF TrialInv, Types, PositionFits
  <2>3. ValuesFit'
    BY <2>1 DEF TrialInv, ValuesFit, HoldsTrial, Staged
  <2>4. NothingLeftBehind' /\ StagedInOrder'
    BY <2>1 DEF TrialInv, NothingLeftBehind, NoTrialRuns, StagedInOrder
  <2> QED BY <2>2, <2>3, <2>4 DEF TrialInv
<1>2. CASE TrialStep
  BY <1>2, StageEnterStep, RetractStep, RetractPanicsStep, StageLeaveStep, StageDoneStep,
     AcceptPoolStep, RejectPoolStep, EndStep DEF TrialStep
<1>3. CASE TrialNext /\ ~TrialStep
  BY <1>3, BeginStep, ReadStep, AcceptStep, DropStep, PrepareTrialsStep, SetStateStep
     DEF TrialNext
<1> QED BY <1>1, <1>2, <1>3

LEMMA TrialsInvariant == TrialSpec => []TrialInv
BY TrialInitially, TrialsStep, PTL DEF TrialSpec

-----------------------------------------------------------------------------
(* Trials begin from clean pools, visit them in order and leave nothing    *)
(* behind, whichever retraction panics and however they end                *)
(* (storage.rs:73-171, optimization.rs:418-473).                           *)
THEOREM TrialsCleanUp == TrialSpec => []TrialInvariant
<1>1. ASSUME TrialInv PROVE TrialInvariant
  <2>1. TrialTypeOK
    BY <1>1 DEF TrialInv, Types, TrialTypeOK
  <2> QED BY <1>1, <2>1 DEF TrialInv, TrialInvariant
<1> QED BY <1>1, TrialsInvariant, PTL

(* The accepted values are estimates, before and after a step. *)
LEMMA AcceptedIsEstimate == TrialInv => Accepted \in Estimate
BY PoolsHoldEstimates DEF TrialInv

(* Steps that leave the accepted values alone leave the estimates alone. *)
LEMMA SameValues ==
  ASSUME \A p \in 1..NPools : pool'[p].values = pool[p].values
  PROVE  Accepted' = Accepted
<1>1. \A s \in State : pool'[s[1]].values[s[2]] = pool[s[1]].values[s[2]]
  BY StateIsPair
<1> QED BY <1>1 DEF Accepted

(* All states are where the delta moves them once every pool was accepted. *)
LEMMA AcceptedIsMoved ==
  ASSUME TrialInv, txn.phase = "accept", txn.at > NPools
  PROVE  Accepted = Moved(txn.delta)
<1>1. ASSUME NEW s \in State
      PROVE  pool[s[1]].values[s[2]] = txn.delta[Offset[s[1]] + s[2]]
  <2>1. s[1] \in 1..NPools /\ s[2] \in 1..Width(s[1])
    BY StateIsPair
  <2>2. s[1] < txn.at
    BY <2>1, Slices DEF TrialInv, Types
  <2> QED BY <2>1, <2>2 DEF TrialInv, ValuesFit, Staged
<1> QED BY <1>1 DEF Accepted, Moved

(* What a step of a trial is to somebody who sees only the estimates. *)
LEMMA EstimatesStep == TrialInv /\ [TrialNext]_trialVars => [Estimates!Next]_(Estimates!vars)
<1> SUFFICES ASSUME TrialInv, [TrialNext]_trialVars PROVE [Estimates!Next]_(Estimates!vars)
  OBVIOUS
<1> USE DEF Estimates!vars, Estimates!Next, TrialInFlight
<1>1. CASE UNCHANGED trialVars
  BY <1>1 DEF trialVars, Accepted
<1>2. ASSUME NEW delta \in Tangent, Begin(delta) PROVE Estimates!Begin
  <2>1. Moved(delta) \in Estimate
    <3>1. delta \in Seq(Version) /\ Len(delta) = Dimension
      BY Slices DEF Tangent
    <3> QED BY <3>1, MovedIsEstimate
  <2>2. /\ txn.phase = "none" /\ txn'.phase = "stage" /\ txn'.delta = delta
        /\ Accepted' = Accepted /\ shown' = shown
    BY <1>2 DEF Begin, NoTrialRuns, Accepted
  <2>3. Moved(txn'.delta) = Moved(delta)
    BY <2>2
  <2> QED BY <2>1, <2>2, <2>3 DEF Estimates!Begin, Moved
<1>3. CASE StageEnter \/ Retract \/ StageLeave \/ StageDone
  <2>1. /\ TrialInFlight /\ TrialInFlight' /\ txn.phase # "accept" /\ txn'.phase # "accept"
        /\ txn'.delta = txn.delta /\ shown' = shown
    BY <1>3 DEF StageEnter, Retract, StageLeave, StageDone, TrialInv, Types
  <2>2. \A p \in 1..NPools : pool'[p].values = pool[p].values
    <3>1. pool \in [1..NPools -> StatePool]
      BY DEF TrialInv, Types
    <3>2. CASE StageEnter
      BY <3>1, <3>2, RejectedPool DEF StageEnter
    <3>3. CASE Retract
      BY <3>1, <3>3 DEF Retract, StatePool
    <3>4. CASE StageLeave
      BY <3>1, <3>4 DEF StageLeave, StatePool
    <3>5. CASE StageDone
      BY <3>5 DEF StageDone
    <3> QED BY <1>3, <3>2, <3>3, <3>4, <3>5
  <2> QED BY <2>1, <2>2, SameValues
<1>4. CASE Read
  <2>1. CASE txn.phase = "none"
    <3>1. Visible = Accepted
      BY <2>1, AcceptedIsVisible DEF TrialInv, NothingLeftBehind, NoTrialRuns
    <3> QED BY <1>4, <2>1, <3>1 DEF Read, Estimates!Read, Accepted
  <2>2. CASE txn.phase = "evaluate"
    <3>1. Visible = Moved(txn.delta)
      BY <2>2, TrialIsVisible DEF TrialInv, ValuesFit, StagedInOrder
    <3> QED BY <1>4, <2>2, <3>1 DEF Read, Estimates!Evaluate, Accepted
  <2> QED BY <1>4, <2>1, <2>2 DEF Read
<1>5. CASE Accept
  <2>1. /\ txn.phase = "evaluate" /\ txn'.phase = "accept" /\ txn'.delta = txn.delta
        /\ shown' = shown
    BY <1>5 DEF Accept, TrialInv, Types
  <2>2. Moved(txn'.delta) = Moved(txn.delta)
    BY <2>1
  <2> QED BY <2>1, <2>2 DEF Estimates!Commit, Moved
<1>6. CASE AcceptPool
  BY <1>6 DEF AcceptPool, TrialInv, Types
<1>7. CASE RetractPanics \/ (Drop /\ txn.phase = "evaluate")
  <2>1. /\ TrialInFlight /\ txn'.phase = "reject" /\ txn.phase # "accept"
        /\ Accepted' = Accepted /\ shown' = shown
    BY <1>7 DEF RetractPanics, Drop, TrialInv, Types, Accepted
  <2> QED BY <2>1 DEF Estimates!Abort
<1>8. CASE Drop /\ txn.phase = "accept"
  <2>1. /\ txn'.phase = "reject" /\ Accepted' = Accepted /\ shown' = shown
    BY <1>8 DEF Drop, TrialInv, Types, Accepted
  <2>2. Accepted = Moved(txn.delta)
    BY <1>8, AcceptedIsMoved DEF Drop
  <2> QED BY <1>8, <2>1, <2>2
<1>9. CASE RejectPool \/ End \/ PrepareTrials
  <2>1. /\ txn.phase \in {"reject", "none"} /\ txn'.phase \in {"reject", "none"}
        /\ shown' = shown
    BY <1>9 DEF RejectPool, End, PrepareTrials, NoTrialRuns, NoTrial, TrialInv, Types
  <2>2. \A p \in 1..NPools : pool'[p].values = pool[p].values
    BY <1>9, RejectedPool, ZenonT(40) DEF RejectPool, End, PrepareTrials, TrialInv, Types
  <2> QED BY <2>1, <2>2, SameValues
<1>10. ASSUME NEW p \in 1..NPools, NEW i \in 1..Width(p), NEW v \in Version, SetState(p, i, v)
       PROVE  Estimates!Edit
  <2>1. txn.phase = "none" /\ UNCHANGED <<txn, shown>>
    BY <1>10 DEF SetState, NoTrialRuns
  <2>2. TrialInv'
    BY <1>10, SetStateStep
  <2>3. Accepted' \in Estimate'
    <3>1. (TrialInv => Accepted \in Estimate)'
      BY AcceptedIsEstimate, PTL
    <3> QED BY <2>2, <3>1
  <2> QED BY <2>1, <2>3 DEF Estimates!Edit
<1> QED BY <1>1, <1>2, <1>3, <1>4, <1>5, <1>6, <1>7, <1>8, <1>9, <1>10
        DEF TrialNext, TrialStep, Drop

(* All pools change together: a trial is committed whole or not at all,    *)
(* every state by its own component of the delta, and no reader ever sees  *)
(* a part of it (optimization.rs:418-473).                                 *)
THEOREM TrialsAreAtomic == TrialSpec => RefinesEstimates
<1>1. TrialInit => Estimates!Init
  <2> SUFFICES ASSUME TrialInit PROVE Estimates!Init
    OBVIOUS
  <2>1. TrialInv /\ txn.phase = "none" /\ shown = Visible
    BY TrialInitially DEF TrialInit, NoTrial
  <2>2. Visible = Accepted /\ Accepted \in Estimate
    BY <2>1, AcceptedIsVisible, PoolsHoldEstimates DEF TrialInv, NothingLeftBehind, NoTrialRuns
  <2> QED BY <2>1, <2>2 DEF Estimates!Init, TrialInFlight
<1> QED BY <1>1, EstimatesStep, TrialsInvariant, PTL DEF TrialSpec, Estimates!Spec, RefinesEstimates
-----------------------------------------------------------------------------
(***************************************************************************)
(* The sink's verdicts are the protocol's, for any layout and evaluators   *)
(* that call it as often as they like with rows of any length.             *)
(*                                                                         *)
(* Inductive is only what also ties the sink's own buffers to the history: *)
(* it has seen exactly the factors whose callback has run, none of a unit  *)
(* not visited yet; a mark is never ahead of the emission; a scope that is *)
(* open belongs to the evaluator that runs.                                *)
(***************************************************************************)

SeenIsOpened ==
  \A f \in Factor : /\ opened[f] \in {0, 1}
                    /\ sink.seen[f] <=> opened[f] = 1

UnitsInOrder == \A f \in Factor : opened[f] = 1 => f < Position[unit + 1]

WithinUnit == within => /\ outcome = "running" /\ unit >= 1
                        /\ sink.allowed = UnitFactors(unit)

ScopeFits == sink.active # 0 => /\ opened[sink.active] = 1
                                /\ outcome = "running" => within

MarksAreOld == \A b \in Block : sink.block_marks[b] <= sink.emission

RefusalsAreKept == refused => sink.failed

SinkInv == /\ SinkTypeOK /\ RowsAreScoped /\ JudgedExactly /\ StandsOnlyIfWhole
           /\ SeenIsOpened /\ UnitsInOrder /\ WithinUnit /\ ScopeFits
           /\ MarksAreOld /\ RefusalsAreKept

-----------------------------------------------------------------------------
(* The units divide the factors of the layout among them. *)
LEMMA UnitsDivideFactors ==
  /\ NFactors \in Nat /\ Len(Units) \in Nat
  /\ \A u \in 1..(Len(Units) + 1) : Position[u] \in 1..(NFactors + 1)
  /\ Position[1] = 1 /\ Position[Len(Units) + 1] = NFactors + 1
  /\ \A u \in 1..Len(Units) :
       /\ Position[u] <= Position[u + 1]
       /\ UnitFactors(u) \subseteq Factor
       /\ Units[u] = "ordinary" => /\ Position[u + 1] = Position[u] + 1
                                   /\ Position[u] \in Factor
<1>1. NFactors \in Nat /\ Len(Units) \in Nat
  BY LayoutAssumption DEF NFactors
<1>2. Len(Position) = Len(Units) + 1 /\ Len(Position) \in 1..Len(Position)
  BY <1>1, LayoutAssumption
<1>3. ASSUME NEW u \in 1..(Len(Units) + 1)
      PROVE  Position[u] \in 1..(NFactors + 1)
  <2>1. Position[u] \in Nat /\ Position[1] <= Position[u] /\ Position[u] <= Position[Len(Position)]
    BY <1>1, <1>2, LayoutAssumption
  <2> QED BY <2>1, <1>1, LayoutAssumption
<1>4. ASSUME NEW u \in 1..Len(Units)
      PROVE  /\ Position[u] <= Position[u + 1]
             /\ UnitFactors(u) \subseteq Factor
             /\ Units[u] = "ordinary" => /\ Position[u + 1] = Position[u] + 1
                                         /\ Position[u] \in Factor
  <2>1. u \in 1..(Len(Units) + 1) /\ u + 1 \in 1..(Len(Units) + 1)
    BY <1>1
  <2>2. Position[u] \in 1..(NFactors + 1) /\ Position[u + 1] \in 1..(NFactors + 1)
    BY <2>1, <1>3
  <2>3. Position[u] <= Position[u + 1]
    BY <2>1, <1>1, <1>2, LayoutAssumption
  <2>4. UnitFactors(u) \subseteq Factor
    BY <2>2, <1>1 DEF UnitFactors, Factor
  <2>5. Units[u] = "ordinary" => Position[u + 1] = Position[u] + 1
    BY LayoutAssumption
  <2> QED BY <2>2, <2>3, <2>4, <2>5, <1>1 DEF Factor
<1> QED BY <1>1, <1>2, <1>3, <1>4, LayoutAssumption

(* A mark of an earlier emission is never the mark of the next one. *)
LEMMA MarksBelowEmission ==
  ASSUME SinkTypeOK, MarksAreOld
  PROVE  /\ Emission \in 1..MaxEmission
         /\ Marks \in [Block -> 0..MaxEmission]
         /\ \A b \in Block : Marks[b] < Emission
<1>1. /\ sink.emission \in 0..MaxEmission
      /\ sink.block_marks \in [Block -> 0..MaxEmission]
      /\ \A b \in Block : sink.block_marks[b] <= sink.emission
  BY DEF SinkTypeOK, Sink, MarksAreOld
<1>2. CASE sink.emission = MaxEmission
  BY <1>1, <1>2, BoundsAssumption DEF Emission, Marks, NoMarks
<1>3. CASE sink.emission # MaxEmission
  BY <1>1, <1>3, BoundsAssumption DEF Emission, Marks
<1> QED BY <1>2, <1>3

LEMMA MarkedIsBounded ==
  ASSUME SinkTypeOK, MarksAreOld, NEW blocks, NEW n
  PROVE  /\ Marked(blocks, n) \in [Block -> 0..MaxEmission]
         /\ \A b \in Block : Marked(blocks, n)[b] <= Emission
<1>1. /\ Emission \in 1..MaxEmission
      /\ Marks \in [Block -> 0..MaxEmission]
      /\ \A b \in Block : Marks[b] < Emission
  BY MarksBelowEmission
<1>2. ASSUME NEW b \in Block
      PROVE  Marked(blocks, n)[b] \in 0..MaxEmission /\ Marked(blocks, n)[b] <= Emission
  <2>1. Marked(blocks, n)[b] = IF \E i \in 1..n : blocks[i] = b THEN Emission ELSE Marks[b]
    BY DEF Marked
  <2>2. Marks[b] \in 0..MaxEmission /\ Marks[b] < Emission
    BY <1>1
  <2> QED BY <2>1, <2>2, <1>1, BoundsAssumption
<1> QED BY <1>2 DEF Marked

(* A legal row has no more blocks than its factor has dependencies. *)
LEMMA LegalRowsAreShort ==
  ASSUME NEW m \in Nat, NEW blocks \in [1..m -> Block],
         sink.active \in Factor, NEW sound \in BOOLEAN, LegalRow(blocks, sound)
  PROVE  m <= Cardinality(Deps[sink.active])
<1> DEFINE D == Deps[sink.active]
<1>1. IsFiniteSet(D)
  BY LayoutAssumption
<1>2. Cardinality(D) \in Nat
  BY <1>1, FS_CardinalityType
<1>3. IsFiniteSet(1..m) /\ Cardinality(1..m) = m
  BY FS_Interval
<1>4. blocks \in [1..m -> D] /\ \A i, j \in 1..m : blocks[i] = blocks[j] => i = j
  BY DEF LegalRow, Range, IsInjective
<1> HIDE DEF D
<1>5. ASSUME Cardinality(D) < m PROVE FALSE
  <2>1. \E i, j \in 1..m : i # j /\ blocks[i] = blocks[j]
    BY <1>1, <1>3, <1>4, <1>5, FS_PigeonHole
  <2> QED BY <2>1, <1>4
<1>6. m <= Cardinality(D)
  BY <1>5, <1>2
<1> QED BY <1>6 DEF D

(* All blocks of a row pass exactly when the row is over distinct          *)
(* dependencies of its factor.                                             *)
LEMMA LegalRowsPass ==
  ASSUME SinkTypeOK, MarksAreOld, sink.active # 0,
         NEW m \in Nat, NEW blocks \in [1..m -> Block],
         NEW n \in 0..m, Passing(blocks, n), Len(blocks) = m
  PROVE  /\ LegalRow(blocks, TRUE) <=> n = m
         /\ n = m => Range(blocks) \subseteq Deps[sink.active]
<1>1. /\ \A i \in 1..n : Passes(blocks, i)
      /\ n < m => ~Passes(blocks, n + 1)
  BY DEF Passing
<1>2. \A i \in 1..m : Marks[blocks[i]] # Emission
  <2>1. /\ Emission \in 1..MaxEmission /\ Marks \in [Block -> 0..MaxEmission]
        /\ \A b \in Block : Marks[b] < Emission
    BY MarksBelowEmission
  <2> QED BY <2>1
<1>3. ASSUME n = m PROVE LegalRow(blocks, TRUE) /\ Range(blocks) \subseteq Deps[sink.active]
  <2>1. \A i \in 1..m : blocks[i] \in Deps[sink.active] /\ \A j \in 1..(i - 1) : blocks[j] # blocks[i]
    BY <1>1, <1>3 DEF Passes
  <2>2. Range(blocks) \subseteq Deps[sink.active]
    BY <2>1 DEF Range
  <2>3. IsInjective(blocks)
    <3> SUFFICES ASSUME NEW i \in 1..m, NEW j \in 1..m, blocks[i] = blocks[j] PROVE i = j
      BY DEF IsInjective
    <3>1. ~(i < j) /\ ~(j < i)
      BY <2>1
    <3> QED BY <3>1
  <2> QED BY <2>2, <2>3 DEF LegalRow
<1>4. ASSUME n # m PROVE ~LegalRow(blocks, TRUE)
  <2>1. n + 1 \in 1..m /\ ~Passes(blocks, n + 1)
    BY <1>1, <1>4
  <2>2. \/ blocks[n + 1] \notin Deps[sink.active]
        \/ \E j \in 1..n : blocks[j] = blocks[n + 1]
    BY <2>1, <1>2 DEF Passes
  <2>3. CASE blocks[n + 1] \notin Deps[sink.active]
    BY <2>1, <2>3 DEF LegalRow, Range
  <2>4. CASE \E j \in 1..n : blocks[j] = blocks[n + 1]
    <3>1. PICK j \in 1..n : blocks[j] = blocks[n + 1]
      BY <2>4
    <3>2. j \in 1..m /\ j # n + 1
      BY <2>1
    <3>3. ~IsInjective(blocks)
      BY <3>1, <3>2, <2>1 DEF IsInjective
    <3> QED BY <3>3 DEF LegalRow
  <2> QED BY <2>2, <2>3, <2>4
<1> QED BY <1>3, <1>4

-----------------------------------------------------------------------------
(* The sink a linearization begins with satisfies every clause of SinkInv.    *)
LEMMA NewSinkFits ==
  ASSUME sink' = NewSink(NoMarks), opened' = [f \in Factor |-> 0], rows' = {},
         unit' = 0, within' = FALSE, refused' = FALSE, answer' = answer, JudgedExactly,
         outcome' # "ok"
  PROVE  /\ sink' \in Sink /\ RowsAreScoped' /\ JudgedExactly' /\ StandsOnlyIfWhole'
         /\ SeenIsOpened' /\ UnitsInOrder' /\ WithinUnit' /\ ScopeFits'
         /\ MarksAreOld' /\ RefusalsAreKept'
<1>1. NFactors \in Nat /\ 1 \in 1..(NFactors + 1) /\ 0 \in 0..NFactors /\ 0 \in 0..MaxEmission
  BY UnitsDivideFactors, BoundsAssumption
<1>2. /\ sink'.seen = [f \in Factor |-> FALSE] /\ sink'.block_marks = [b \in Block |-> 0]
      /\ sink'.emission = 0 /\ sink'.active = 0
  BY DEF NewSink, NoMarks
<1>3. sink' \in Sink
  <2>1. [f \in Factor |-> FALSE] \in [Factor -> BOOLEAN] /\ NoMarks \in [Block -> 0..MaxEmission]
    BY <1>1 DEF NoMarks
  <2>2. {} \in SUBSET Factor
    OBVIOUS
  <2> QED BY <1>1, <2>1, <2>2 DEF NewSink, Sink
<1>4. SeenIsOpened' /\ UnitsInOrder' /\ ScopeFits'
  BY <1>2 DEF SeenIsOpened, UnitsInOrder, ScopeFits
<1>5. RowsAreScoped' /\ JudgedExactly' /\ StandsOnlyIfWhole' /\ WithinUnit' /\ RefusalsAreKept'
  BY DEF RowsAreScoped, JudgedExactly, StandsOnlyIfWhole, WithinUnit, RefusalsAreKept
<1>6. MarksAreOld'
  BY <1>2 DEF MarksAreOld
<1> QED BY <1>3, <1>4, <1>5, <1>6

LEMMA SinkInitially == SinkInit => SinkInv
<1> SUFFICES ASSUME SinkInit PROVE SinkInv
  OBVIOUS
<1>1. NFactors \in Nat /\ 1 \in 1..(NFactors + 1) /\ 0 \in 0..NFactors /\ 0 \in 0..MaxEmission
      /\ 0 \in 0..MaxCalls /\ 0 \in 0..(MaxCalls + 1) /\ 0 \in 0..Len(Units)
  BY UnitsDivideFactors, BoundsAssumption
<1>2. sink = NewSink(NoMarks) /\ opened = [f \in Factor |-> 0]
  BY DEF SinkInit
<1>3. sink \in Sink
  <2>1. [f \in Factor |-> FALSE] \in [Factor -> BOOLEAN] /\ NoMarks \in [Block -> 0..MaxEmission]
    BY <1>1 DEF NoMarks
  <2>2. {} \in SUBSET Factor
    OBVIOUS
  <2> QED BY <1>1, <1>2, <2>1, <2>2 DEF NewSink, Sink
<1>4. opened \in [Factor -> 0..MaxCalls + 1]
  BY <1>1, <1>2
<1>5. SinkTypeOK
  BY <1>1, <1>3, <1>4 DEF SinkInit, SinkTypeOK
<1>6. SeenIsOpened /\ UnitsInOrder /\ ScopeFits /\ MarksAreOld
  BY <1>2 DEF NewSink, NoMarks, SeenIsOpened, UnitsInOrder, ScopeFits, MarksAreOld
<1>7. RowsAreScoped /\ JudgedExactly /\ StandsOnlyIfWhole /\ WithinUnit /\ RefusalsAreKept
  BY DEF SinkInit, RowsAreScoped, JudgedExactly, StandsOnlyIfWhole, WithinUnit, RefusalsAreKept
<1> QED BY <1>5, <1>6, <1>7 DEF SinkInv

LEMMA LinearizeStep == ASSUME SinkInv, Linearize PROVE SinkInv'
<1>1. /\ sink' = NewSink(NoMarks) /\ opened' = [f \in Factor |-> 0]
      /\ rows' = {} /\ unit' = 0 /\ within' = FALSE /\ refused' = FALSE
      /\ outcome' = "running" /\ calls' = 0 /\ answer' = answer
  BY DEF Linearize
<1>2. /\ sink' \in Sink /\ RowsAreScoped' /\ JudgedExactly' /\ StandsOnlyIfWhole'
      /\ SeenIsOpened' /\ UnitsInOrder' /\ WithinUnit' /\ ScopeFits'
      /\ MarksAreOld' /\ RefusalsAreKept'
  BY <1>1, NewSinkFits DEF SinkInv
<1>3. 0 \in 0..MaxCalls /\ 0 \in 0..(MaxCalls + 1) /\ 0 \in 0..Len(Units)
  BY UnitsDivideFactors, BoundsAssumption
<1>4. opened' \in [Factor -> 0..MaxCalls + 1]
  BY <1>1, <1>3
<1>5. SinkTypeOK'
  BY <1>1, <1>2, <1>3, <1>4 DEF SinkInv, SinkTypeOK
<1> QED BY <1>2, <1>5 DEF SinkInv

(* The callback of a factor is run for the first time. *)
LEMMA FirstOpening ==
  ASSUME SinkInv, NEW f \in Factor, opened[f] = 0,
         opened' = [opened EXCEPT ![f] = @ + 1],
         sink'.seen = [sink.seen EXCEPT ![f] = TRUE], sink'.active = f,
         rows' = rows, unit' \in 0..Len(Units), within' = TRUE, outcome' = "running",
         Position[unit + 1] <= Position[unit' + 1], f < Position[unit' + 1]
  PROVE  /\ opened' \in [Factor -> 0..MaxCalls + 1]
         /\ SeenIsOpened' /\ RowsAreScoped' /\ UnitsInOrder' /\ ScopeFits' /\ StandsOnlyIfWhole'
<1>1. opened \in [Factor -> 0..MaxCalls + 1] /\ sink.seen \in [Factor -> BOOLEAN]
      /\ rows \subseteq [factor : Factor, blocks : SUBSET Block] /\ unit \in 0..Len(Units)
  BY DEF SinkInv, SinkTypeOK, Sink
<1>2. opened'[f] = 1 /\ \A g \in Factor : g # f => opened'[g] = opened[g]
  BY <1>1
<1>3. 1 \in 0..(MaxCalls + 1)
  BY BoundsAssumption
<1>4. opened' \in [Factor -> 0..MaxCalls + 1]
  BY <1>1, <1>3
<1>5. SeenIsOpened'
  BY <1>1, <1>2 DEF SinkInv, SeenIsOpened
<1>6. RowsAreScoped'
  BY <1>1, <1>2 DEF SinkInv, RowsAreScoped
<1>7. UnitsInOrder'
  <2>1. /\ Position[unit + 1] \in 1..(NFactors + 1) /\ Position[unit' + 1] \in 1..(NFactors + 1)
        /\ NFactors \in Nat
    BY <1>1, UnitsDivideFactors
  <2>2. ASSUME NEW g \in Factor, opened'[g] = 1, g # f PROVE g < Position[unit' + 1]
    <3>1. opened[g] = 1 /\ g < Position[unit + 1]
      BY <1>2, <2>2 DEF SinkInv, UnitsInOrder
    <3> QED BY <2>1, <3>1 DEF Factor
  <2> QED BY <2>2 DEF UnitsInOrder
<1>8. ScopeFits' /\ StandsOnlyIfWhole'
  BY <1>2 DEF ScopeFits, StandsOnlyIfWhole
<1> QED BY <1>4, <1>5, <1>6, <1>7, <1>8

LEMMA NextUnitStep == ASSUME SinkInv, NextUnit PROVE SinkInv'
<1>1. /\ unit \in 0..Len(Units) /\ unit < Len(Units) /\ unit' = unit + 1
      /\ outcome = "running" /\ ~within /\ within' = (UnitFactors(unit + 1) # {})
      /\ UNCHANGED <<rows, outcome, calls, refused, answer>> /\ Turn(unit + 1)
      /\ sink \in Sink
  BY DEF NextUnit, Running, SinkInv, SinkTypeOK
<1>2. unit + 1 \in 1..Len(Units) /\ unit + 1 \in 0..Len(Units) /\ unit + 1 \in 1..(Len(Units) + 1)
      /\ (unit + 1) + 1 \in 1..(Len(Units) + 1)
  BY <1>1, UnitsDivideFactors
<1> DEFINE u == unit + 1
<1>3. /\ Position[u] \in 1..(NFactors + 1) /\ Position[u + 1] \in 1..(NFactors + 1)
      /\ Position[u] <= Position[u + 1] /\ UnitFactors(u) \subseteq Factor /\ NFactors \in Nat
  BY <1>2, UnitsDivideFactors
<1>4. sink.active = 0
  BY <1>1 DEF SinkInv, ScopeFits
<1> DEFINE lent == [sink EXCEPT !.allowed = UnitFactors(u), !.next_expected = Position[u]]
<1>5. CASE Units[u] = "ordinary"
  <2> DEFINE f == Position[u]
  <2>1. f \in Factor /\ Position[u + 1] = f + 1
    BY <1>2, <1>5, UnitsDivideFactors
  <2>2. /\ sink' = [lent EXCEPT !.next_expected = @ + 1, !.seen[Position[u]] = TRUE,
                                !.active = Position[u]]
        /\ opened' = [opened EXCEPT ![Position[u]] = @ + 1]
    BY <1>1, <1>5 DEF Turn
  <2>3. UnitFactors(u) = {f}
    BY <2>1, <1>3 DEF UnitFactors
  <2>4. within' = TRUE
    BY <2>3, <1>1
  <2>5. opened[f] = 0
    BY <2>1 DEF SinkInv, SeenIsOpened, UnitsInOrder, Factor
  <2>6. /\ sink'.seen = [sink.seen EXCEPT ![f] = TRUE] /\ sink'.active = f
        /\ sink'.allowed = UnitFactors(u) /\ sink'.next_expected = f + 1
        /\ sink'.block_marks = sink.block_marks /\ sink'.emission = sink.emission
        /\ sink'.failed = sink.failed
    BY <2>2, <1>1 DEF Sink
  <2>7. sink' \in Sink
    <3>1. f + 1 \in 1..(NFactors + 1) /\ f \in 0..NFactors
      BY <2>1, <1>3
    <3>2. [sink.seen EXCEPT ![f] = TRUE] \in [Factor -> BOOLEAN]
      BY <1>1 DEF Sink
    <3> QED BY <2>2, <3>1, <3>2, <1>1, <1>3 DEF Sink
  <2>8. f < Position[u + 1]
    BY <2>1 DEF Factor
  <2>9. /\ opened' \in [Factor -> 0..MaxCalls + 1]
        /\ SeenIsOpened' /\ RowsAreScoped' /\ UnitsInOrder' /\ ScopeFits' /\ StandsOnlyIfWhole'
    BY <1>1, <1>2, <1>3, <2>1, <2>2, <2>4, <2>5, <2>6, <2>8, FirstOpening
  <2>10. SinkTypeOK'
    BY <1>1, <1>2, <2>4, <2>7, <2>9 DEF SinkInv, SinkTypeOK
  <2>11. JudgedExactly' /\ WithinUnit' /\ MarksAreOld' /\ RefusalsAreKept'
    BY <1>1, <2>6 DEF SinkInv, JudgedExactly, WithinUnit, MarksAreOld, RefusalsAreKept, SinkTypeOK
  <2> QED BY <2>9, <2>10, <2>11 DEF SinkInv
<1>6. CASE Units[u] # "ordinary"
  <2>1. sink' = lent /\ opened' = opened
    BY <1>1, <1>6 DEF Turn
  <2>2. /\ sink'.seen = sink.seen /\ sink'.active = 0 /\ sink'.allowed = UnitFactors(u)
        /\ sink'.block_marks = sink.block_marks /\ sink'.emission = sink.emission
        /\ sink'.failed = sink.failed
    BY <2>1, <1>1, <1>4 DEF Sink
  <2>3. sink' \in Sink
    BY <2>1, <1>1, <1>3 DEF Sink
  <2>4. SinkTypeOK'
    BY <1>1, <1>2, <2>1, <2>3 DEF SinkInv, SinkTypeOK
  <2>5. UnitsInOrder'
    BY <1>1, <1>2, <1>3, <2>1 DEF SinkInv, UnitsInOrder, Factor
  <2>6. RowsAreScoped' /\ JudgedExactly' /\ StandsOnlyIfWhole' /\ SeenIsOpened'
    BY <1>1, <2>1, <2>2 DEF SinkInv, RowsAreScoped, JudgedExactly, StandsOnlyIfWhole, SeenIsOpened
  <2>7. WithinUnit' /\ ScopeFits' /\ MarksAreOld' /\ RefusalsAreKept'
    BY <1>1, <2>2 DEF SinkInv, WithinUnit, ScopeFits, MarksAreOld, RefusalsAreKept, SinkTypeOK
  <2> QED BY <2>4, <2>5, <2>6, <2>7 DEF SinkInv
<1> QED BY <1>5, <1>6

-----------------------------------------------------------------------------
(* Every factor in the range lent to the evaluator is one of the layout.   *)
LEMMA EvaluatorRuns ==
  ASSUME SinkInv, within
  PROVE  /\ unit \in 1..Len(Units) /\ outcome = "running"
         /\ sink.allowed = UnitFactors(unit) /\ UnitFactors(unit) \subseteq Factor
         /\ \A f \in UnitFactors(unit) : f < Position[unit + 1]
<1>1. unit \in 1..Len(Units) /\ outcome = "running" /\ sink.allowed = UnitFactors(unit)
  BY DEF SinkInv, WithinUnit, SinkTypeOK
<1>2. unit \in 1..(Len(Units) + 1) /\ unit + 1 \in 1..(Len(Units) + 1)
  BY <1>1, UnitsDivideFactors
<1>3. Position[unit] \in 1..(NFactors + 1) /\ Position[unit + 1] \in 1..(NFactors + 1) /\ NFactors \in Nat
  BY <1>2, UnitsDivideFactors
<1> QED BY <1>1, <1>3, UnitsDivideFactors DEF UnitFactors

LEMMA OpenScopeStep == ASSUME SinkInv, NEW f \in 0..NFactors, OpenScope(f) PROVE SinkInv'
<1> DEFINE granted == sink.active = 0 /\ f \in sink.allowed /\ ~sink.seen[f]
<1> DEFINE expected == IF sink.active = 0 /\ Expected(f) THEN sink.next_expected + 1
                                                         ELSE sink.next_expected
<1>1. /\ within /\ calls < MaxCalls /\ UNCHANGED <<unit, within, rows, outcome>>
      /\ calls' = calls + 1 /\ answer' = [legal |-> LegalScope(f), granted |-> granted]
      /\ refused' = (refused \/ ~granted)
      /\ opened' = IF granted THEN [opened EXCEPT ![f] = @ + 1] ELSE opened
  BY DEF OpenScope, MayCall, Answer
<1>2. sink' = [sink EXCEPT
                 !.next_expected = IF sink.active = 0 /\ Expected(f) THEN @ + 1 ELSE @,
                 !.seen   = IF granted THEN [@ EXCEPT ![f] = TRUE] ELSE @,
                 !.active = IF granted THEN f ELSE @,
                 !.failed = @ \/ ~granted]
  BY DEF OpenScope
<1>3. sink \in Sink /\ calls \in 0..MaxCalls /\ refused \in BOOLEAN
  BY DEF SinkInv, SinkTypeOK
<1>4. /\ unit \in 1..Len(Units) /\ outcome = "running"
      /\ sink.allowed = UnitFactors(unit) /\ UnitFactors(unit) \subseteq Factor
      /\ \A g \in UnitFactors(unit) : g < Position[unit + 1]
  BY <1>1, EvaluatorRuns
<1>5. /\ sink'.next_expected = expected
      /\ sink'.seen = (IF granted THEN [sink.seen EXCEPT ![f] = TRUE] ELSE sink.seen)
      /\ sink'.active = (IF granted THEN f ELSE sink.active)
      /\ sink'.failed = (sink.failed \/ ~granted)
      /\ sink'.allowed = sink.allowed /\ sink'.block_marks = sink.block_marks
      /\ sink'.emission = sink.emission
  BY <1>2, <1>3 DEF Sink
<1>6. LegalScope(f) <=> granted
  <2>1. CASE f \in UnitFactors(unit)
    <3>1. f \in Factor
      BY <1>4, <2>1
    <3>2. sink.seen[f] <=> opened[f] = 1
      BY <3>1 DEF SinkInv, SeenIsOpened
    <3>3. opened[f] \in {0, 1}
      BY <3>1 DEF SinkInv, SeenIsOpened
    <3> QED BY <2>1, <3>2, <3>3, <1>4 DEF LegalScope
  <2>2. CASE f \notin UnitFactors(unit)
    BY <2>2, <1>4 DEF LegalScope
  <2> QED BY <2>1, <2>2
<1>7. expected \in 1..(NFactors + 1)
  <2>1. sink.next_expected \in 1..(NFactors + 1) /\ NFactors \in Nat
    BY <1>3, UnitsDivideFactors DEF Sink
  <2>2. Expected(f) => sink.next_expected \in Factor
    BY <1>4 DEF Expected
  <2> QED BY <2>1, <2>2 DEF Factor
<1>8. sink' \in Sink
  <2>1. (IF granted THEN [sink.seen EXCEPT ![f] = TRUE] ELSE sink.seen) \in [Factor -> BOOLEAN]
    BY <1>3 DEF Sink
  <2>2. (IF granted THEN f ELSE sink.active) \in 0..NFactors
    BY <1>3 DEF Sink
  <2>3. (sink.failed \/ ~granted) \in BOOLEAN
    OBVIOUS
  <2> HIDE DEF granted, expected
  <2>4. sink' = [seen |-> sink'.seen, block_marks |-> sink.block_marks,
                 emission |-> sink.emission, allowed |-> sink.allowed,
                 next_expected |-> expected, active |-> sink'.active, failed |-> sink'.failed]
    BY <1>2, <1>3, <1>5 DEF Sink
  <2>5. /\ sink'.seen \in [Factor -> BOOLEAN] /\ sink'.active \in 0..NFactors
        /\ sink'.failed \in BOOLEAN
    BY <1>5, <2>1, <2>2, <2>3
  <2> QED BY <2>4, <2>5, <1>3, <1>7 DEF Sink
<1>9. JudgedExactly' /\ answer' \in [legal : BOOLEAN, granted : BOOLEAN]
  <2>1. LegalScope(f) \in BOOLEAN /\ granted \in BOOLEAN
    BY DEF LegalScope
  <2>2. LegalScope(f) = granted
    BY <1>6, <2>1
  <2> HIDE DEF granted
  <2> QED BY <1>1, <2>1, <2>2 DEF JudgedExactly
<1>10. calls' \in 0..MaxCalls
  BY <1>1, <1>3, BoundsAssumption
<1>11. WithinUnit' /\ MarksAreOld' /\ RefusalsAreKept'
  <2>1. WithinUnit' /\ MarksAreOld'
    BY <1>1, <1>4, <1>5 DEF SinkInv, WithinUnit, MarksAreOld, UnitFactors
  <2>2. RefusalsAreKept'
    BY <1>1, <1>5 DEF SinkInv, RefusalsAreKept
  <2> QED BY <2>1, <2>2
<1>12. /\ opened' \in [Factor -> 0..MaxCalls + 1]
       /\ SeenIsOpened' /\ RowsAreScoped' /\ UnitsInOrder' /\ ScopeFits' /\ StandsOnlyIfWhole'
  <2>1. CASE granted
    <3>1. f \in Factor /\ opened[f] = 0 /\ f < Position[unit + 1]
      BY <2>1, <1>4, <1>6 DEF LegalScope
    <3>2. unit \in 0..Len(Units) /\ Position[unit + 1] \in Nat
      BY <1>4, UnitsDivideFactors
    <3>3. Position[unit + 1] <= Position[unit' + 1]
      BY <1>1, <3>2
    <3> QED BY <1>1, <1>4, <1>5, <2>1, <3>1, <3>2, <3>3, FirstOpening
  <2>2. CASE ~granted
    <3>1. opened' = opened /\ sink'.seen = sink.seen /\ sink'.active = sink.active
      BY <2>2, <1>1, <1>5
    <3> HIDE DEF granted
    <3> QED BY <3>1, <1>1, <1>4 DEF SinkInv, SinkTypeOK, SeenIsOpened, RowsAreScoped, UnitsInOrder,
                                   ScopeFits, StandsOnlyIfWhole
  <2> QED BY <2>1, <2>2
<1>13. SinkTypeOK'
  <2>1. refused' \in BOOLEAN
    BY <1>1
  <2> HIDE DEF granted
  <2> QED BY <1>1, <1>8, <1>9, <1>10, <1>12, <2>1 DEF SinkInv, SinkTypeOK
<1> QED BY <1>9, <1>11, <1>12, <1>13 DEF SinkInv

-----------------------------------------------------------------------------
(* A call to residual changes of the sink only the marks, the emission and *)
(* whether it has failed, and opens nothing.                               *)
LEMMA ResidualEnds ==
  ASSUME SinkInv, within, calls < MaxCalls, UNCHANGED <<unit, within, outcome, opened>>,
         NEW legal \in BOOLEAN, NEW granted \in BOOLEAN, Answer(legal, granted), legal = granted,
         NEW emission \in 0..MaxEmission, NEW marks \in [Block -> 0..MaxEmission],
         \A b \in Block : marks[b] <= emission,
         sink' = [sink EXCEPT !.emission = emission, !.block_marks = marks,
                              !.failed = @ \/ ~granted],
         \/ rows' = rows
         \/ /\ sink.active # 0
            /\ \E bs \in SUBSET Deps[sink.active] :
                 rows' = rows \cup {[factor |-> sink.active, blocks |-> bs]}
  PROVE  SinkInv'
<1>1. /\ sink \in Sink /\ calls \in 0..MaxCalls /\ refused \in BOOLEAN
      /\ rows \subseteq [factor : Factor, blocks : SUBSET Block]
  BY DEF SinkInv, SinkTypeOK
<1>2. /\ calls' = calls + 1 /\ answer' = [legal |-> legal, granted |-> granted]
      /\ refused' = (refused \/ ~granted)
  BY DEF Answer
<1>3. /\ sink'.emission = emission /\ sink'.block_marks = marks
      /\ sink'.failed = (sink.failed \/ ~granted) /\ sink'.seen = sink.seen
      /\ sink'.allowed = sink.allowed /\ sink'.active = sink.active
  BY <1>1 DEF Sink
<1>4. sink' \in Sink
  BY <1>1 DEF Sink
<1>5. calls' \in 0..MaxCalls
  BY <1>1, <1>2, BoundsAssumption
<1>6. rows' \subseteq [factor : Factor, blocks : SUBSET Block] /\ RowsAreScoped'
  <2>1. CASE rows' = rows
    BY <1>1, <2>1 DEF SinkInv, RowsAreScoped
  <2>2. ASSUME sink.active # 0, NEW bs \in SUBSET Deps[sink.active],
               rows' = rows \cup {[factor |-> sink.active, blocks |-> bs]}
        PROVE  rows' \subseteq [factor : Factor, blocks : SUBSET Block] /\ RowsAreScoped'
    <3>1. sink.active \in Factor /\ opened[sink.active] = 1
      BY <1>1, <2>2, UnitsDivideFactors DEF Sink, Factor, SinkInv, ScopeFits
    <3>2. Deps[sink.active] \subseteq Block
      BY <3>1, LayoutAssumption DEF Factor, NFactors
    <3>3. [factor |-> sink.active, blocks |-> bs] \in [factor : Factor, blocks : SUBSET Block]
      BY <3>1, <3>2
    <3> QED BY <1>1, <2>2, <3>1, <3>3 DEF SinkInv, RowsAreScoped
  <2> QED BY <2>1, <2>2
<1>7. answer' \in [legal : BOOLEAN, granted : BOOLEAN] /\ JudgedExactly'
  BY <1>2 DEF JudgedExactly
<1>8. SinkTypeOK'
  BY <1>1, <1>2, <1>4, <1>5, <1>6, <1>7 DEF SinkInv, SinkTypeOK
<1>9. MarksAreOld' /\ RefusalsAreKept'
  BY <1>2, <1>3 DEF SinkInv, MarksAreOld, RefusalsAreKept
<1>10. SeenIsOpened' /\ UnitsInOrder' /\ WithinUnit' /\ ScopeFits'
  BY <1>3 DEF SinkInv, SeenIsOpened, UnitsInOrder, WithinUnit, ScopeFits
<1>11. StandsOnlyIfWhole'
  BY DEF SinkInv, WithinUnit, StandsOnlyIfWhole
<1> QED BY <1>6, <1>7, <1>8, <1>9, <1>10, <1>11 DEF SinkInv

LEMMA ResidualStep ==
  ASSUME SinkInv, NEW m \in 0..MaxBlocks, NEW blocks \in [1..m -> Block],
         NEW sound \in BOOLEAN, Residual(blocks, sound)
  PROVE  SinkInv'
<1>1. within /\ calls < MaxCalls /\ UNCHANGED <<unit, within, outcome, opened>>
  BY DEF Residual, MayCall
<1>2. /\ sink \in Sink /\ sink.emission \in 0..MaxEmission
      /\ sink.block_marks \in [Block -> 0..MaxEmission]
      /\ \A b \in Block : sink.block_marks[b] <= sink.emission
      /\ SinkTypeOK /\ MarksAreOld
  BY DEF SinkInv, SinkTypeOK, Sink, MarksAreOld
<1>3. m \in Nat /\ Len(blocks) = m
  BY BoundsAssumption
<1>4. Emission \in 0..MaxEmission
  BY <1>2, MarksBelowEmission, BoundsAssumption
<1>5. LegalRow(blocks, sound) \in BOOLEAN
  BY DEF LegalRow
<1>6. sink.active # 0 => sink.active \in Factor
  BY <1>2, UnitsDivideFactors DEF Sink, Factor
<1> DEFINE marked(k) == [sink EXCEPT !.emission = Emission, !.block_marks = Marked(blocks, k)]
(* Whatever was marked, a refusal of a row that is not legal is in order.  *)
<1>7. ASSUME ~LegalRow(blocks, sound), Answer(LegalRow(blocks, sound), FALSE), Refuse(sink)
      PROVE  SinkInv'
  <2>1. /\ rows' = rows
        /\ sink' = [sink EXCEPT !.emission = sink.emission, !.block_marks = sink.block_marks,
                                !.failed = @ \/ ~FALSE]
    BY <1>2, <1>7 DEF Refuse, Sink
  <2>2. LegalRow(blocks, sound) = FALSE
    BY <1>5, <1>7
  <2> QED BY <1>1, <1>2, <1>7, <2>1, <2>2, ResidualEnds
<1>8. ASSUME ~LegalRow(blocks, sound), Answer(LegalRow(blocks, sound), FALSE),
             NEW k \in Nat, Refuse(marked(k))
      PROVE  SinkInv'
  <2>1. /\ rows' = rows
        /\ sink' = [sink EXCEPT !.emission = Emission, !.block_marks = Marked(blocks, k),
                                !.failed = @ \/ ~FALSE]
    BY <1>2, <1>8 DEF Refuse, Sink
  <2>2. LegalRow(blocks, sound) = FALSE
    BY <1>5, <1>8
  <2>3. /\ Marked(blocks, k) \in [Block -> 0..MaxEmission]
        /\ \A b \in Block : Marked(blocks, k)[b] <= Emission
    BY <1>2, MarkedIsBounded
  <2> QED BY <1>1, <1>4, <1>8, <2>1, <2>2, <2>3, ResidualEnds
<1>9. CASE sink.active = 0 \/ Len(blocks) > Cardinality(Deps[sink.active])
  <2>1. Refuse(sink) /\ Answer(LegalRow(blocks, sound), FALSE)
    BY <1>9 DEF Residual
  <2>2. ASSUME LegalRow(blocks, sound) PROVE FALSE
    <3>1. sink.active # 0
      BY <2>2 DEF LegalRow
    <3>2. m <= Cardinality(Deps[sink.active])
      BY <1>3, <1>6, <2>2, <3>1, LegalRowsAreShort
    <3>3. Cardinality(Deps[sink.active]) \in Nat
      BY <1>6, <3>1, LayoutAssumption, FS_CardinalityType
    <3> QED BY <1>3, <1>9, <3>1, <3>2, <3>3
  <2> QED BY <1>7, <2>1, <2>2
<1>10. CASE ~(sink.active = 0 \/ Len(blocks) > Cardinality(Deps[sink.active]))
  <2>1. PICK n \in 0..Len(blocks) :
          /\ Passing(blocks, n)
          /\ \/ /\ sound /\ n = Len(blocks)
                /\ sink' = marked(n)
                /\ rows' = rows \cup {[factor |-> sink.active, blocks |-> Range(blocks)]}
                /\ Answer(LegalRow(blocks, sound), TRUE)
             \/ /\ sound /\ n < Len(blocks)
                /\ Refuse(marked(n))
                /\ Answer(LegalRow(blocks, sound), FALSE)
             \/ /\ ~sound
                /\ \/ Refuse(sink)
                   \/ \E k \in 0..n : Refuse(marked(k))
                /\ Answer(LegalRow(blocks, sound), FALSE)
    BY <1>10 DEF Residual
  <2>2. /\ LegalRow(blocks, TRUE) <=> n = m
        /\ n = m => Range(blocks) \subseteq Deps[sink.active]
    BY <1>2, <1>3, <1>10, <2>1, LegalRowsPass
  <2>3. n \in Nat
    BY <1>3
  <2>4. CASE /\ sound /\ n = Len(blocks)
             /\ sink' = marked(n)
             /\ rows' = rows \cup {[factor |-> sink.active, blocks |-> Range(blocks)]}
             /\ Answer(LegalRow(blocks, sound), TRUE)
    <3>1. LegalRow(blocks, sound) = TRUE
      BY <1>3, <1>5, <2>2, <2>4
    <3>2. sink' = [sink EXCEPT !.emission = Emission, !.block_marks = Marked(blocks, n),
                               !.failed = @ \/ ~TRUE]
      BY <1>2, <2>4 DEF Sink
    <3>3. /\ Marked(blocks, n) \in [Block -> 0..MaxEmission]
          /\ \A b \in Block : Marked(blocks, n)[b] <= Emission
      BY <1>2, MarkedIsBounded
    <3>4. Range(blocks) \in SUBSET Deps[sink.active] /\ sink.active # 0
      BY <1>3, <1>10, <2>2, <2>4
    <3> QED BY <1>1, <1>4, <2>4, <3>1, <3>2, <3>3, <3>4, ResidualEnds
  <2>5. CASE /\ sound /\ n < Len(blocks)
             /\ Refuse(marked(n))
             /\ Answer(LegalRow(blocks, sound), FALSE)
    <3>1. n # m /\ sound = TRUE
      BY <1>3, <2>3, <2>5
    <3>2. ~LegalRow(blocks, sound)
      BY <2>2, <3>1
    <3> QED BY <1>8, <2>3, <2>5, <3>2
  <2>6. CASE /\ ~sound
             /\ \/ Refuse(sink)
                \/ \E k \in 0..n : Refuse(marked(k))
             /\ Answer(LegalRow(blocks, sound), FALSE)
    <3>1. ~LegalRow(blocks, sound)
      BY <2>6 DEF LegalRow
    <3>2. 0..n \subseteq Nat
      BY <2>3
    <3> HIDE DEF marked
    <3> QED BY <1>7, <1>8, <2>6, <3>1, <3>2
  <2> QED BY <2>1, <2>4, <2>5, <2>6
<1> QED BY <1>9, <1>10

-----------------------------------------------------------------------------
(* A scope is closed, and the evaluator goes on or returns. *)
LEMMA ScopeCloses ==
  ASSUME SinkInv, within, NEW ok \in BOOLEAN, NEW w \in BOOLEAN, w => within,
         sink' = [sink EXCEPT !.active = 0, !.failed = @ \/ ~ok],
         refused' = (refused \/ ~ok), within' = w,
         UNCHANGED <<unit, rows, outcome, calls, opened, answer>>
  PROVE  SinkInv'
<1>1. sink \in Sink /\ refused \in BOOLEAN /\ 0 \in 0..NFactors
  BY UnitsDivideFactors DEF SinkInv, SinkTypeOK
<1>2. /\ sink'.active = 0 /\ sink'.failed = (sink.failed \/ ~ok) /\ sink'.seen = sink.seen
      /\ sink'.emission = sink.emission /\ sink'.block_marks = sink.block_marks
      /\ sink'.allowed = sink.allowed
  BY <1>1 DEF Sink
<1>3. sink' \in Sink
  BY <1>1 DEF Sink
<1>4. SinkTypeOK'
  BY <1>1, <1>3 DEF SinkInv, SinkTypeOK
<1>5. RowsAreScoped' /\ JudgedExactly' /\ StandsOnlyIfWhole'
  BY DEF SinkInv, WithinUnit, RowsAreScoped, JudgedExactly, StandsOnlyIfWhole
<1>6. SeenIsOpened' /\ UnitsInOrder' /\ WithinUnit' /\ ScopeFits' /\ MarksAreOld'
  BY <1>2 DEF SinkInv, SeenIsOpened, UnitsInOrder, WithinUnit, ScopeFits, MarksAreOld, UnitFactors
<1>7. RefusalsAreKept'
  BY <1>2 DEF SinkInv, RefusalsAreKept
<1> QED BY <1>4, <1>5, <1>6, <1>7 DEF SinkInv

LEMMA CloseScopeStep == ASSUME SinkInv, CloseScope PROVE SinkInv'
<1>1. PICK ok \in BOOLEAN : /\ sink' = [sink EXCEPT !.active = 0, !.failed = @ \/ ~ok]
                            /\ refused' = (refused \/ ~ok)
  BY DEF CloseScope
<1>2. within /\ within' = TRUE /\ UNCHANGED <<unit, rows, outcome, calls, opened, answer>>
  BY DEF CloseScope, SinkInv, SinkTypeOK
<1> QED BY <1>1, <1>2, ScopeCloses

LEMMA LeaveStep == ASSUME SinkInv, Leave PROVE SinkInv'
<1>1. /\ within /\ within' = FALSE /\ UNCHANGED <<unit, rows, outcome, calls, opened, refused, answer>>
      /\ sink' = [sink EXCEPT !.active = 0]
  BY DEF Leave
<1>2. sink \in Sink /\ refused \in BOOLEAN
  BY DEF SinkInv, SinkTypeOK
<1>3. (sink.failed \/ ~TRUE) = sink.failed /\ (refused \/ ~TRUE) = refused
  BY <1>2 DEF Sink
<1>4. sink' = [sink EXCEPT !.active = 0, !.failed = @ \/ ~TRUE] /\ refused' = (refused \/ ~TRUE)
  BY <1>1, <1>2, <1>3 DEF Sink
<1> QED BY <1>1, <1>4, ScopeCloses

LEMMA FailStep == ASSUME SinkInv, Fail PROVE SinkInv'
<1>1. /\ within' = FALSE /\ outcome' = "error"
      /\ UNCHANGED <<sink, unit, rows, calls, opened, refused, answer>>
  BY DEF Fail
<1>2. SinkTypeOK'
  BY <1>1 DEF SinkInv, SinkTypeOK
<1> QED BY <1>1, <1>2 DEF SinkInv, RowsAreScoped, JudgedExactly, StandsOnlyIfWhole, SeenIsOpened,
               UnitsInOrder, WithinUnit, ScopeFits, MarksAreOld, RefusalsAreKept

(* What stands is whole: every factor has been seen and nothing refused. *)
LEMMA ConcludeStep == ASSUME SinkInv, Conclude PROVE SinkInv'
<1>1. /\ outcome = "running" /\ ~within /\ outcome' \in {"ok", "error"}
      /\ outcome' = "ok" => Complete
      /\ UNCHANGED <<sink, unit, within, rows, calls, opened, refused, answer>>
  BY DEF Conclude, Running
<1>2. SinkTypeOK'
  BY <1>1 DEF SinkInv, SinkTypeOK
<1>3. StandsOnlyIfWhole'
  BY <1>1 DEF SinkInv, StandsOnlyIfWhole, Complete, SeenIsOpened, RefusalsAreKept
<1>4. ScopeFits'
  BY <1>1 DEF SinkInv, ScopeFits
<1> QED BY <1>1, <1>2, <1>3, <1>4 DEF SinkInv, RowsAreScoped, JudgedExactly, SeenIsOpened,
               UnitsInOrder, WithinUnit, MarksAreOld, RefusalsAreKept

LEMMA StutterStep == SinkInv /\ UNCHANGED sinkVars => SinkInv'
BY DEF SinkInv, sinkVars, SinkTypeOK, RowsAreScoped, JudgedExactly, StandsOnlyIfWhole, SeenIsOpened,
       UnitsInOrder, WithinUnit, ScopeFits, MarksAreOld, RefusalsAreKept, UnitFactors

(* The conjuncts of SinkInv hold in every state of every linearization. *)
LEMMA SinkInduction == SinkSpec => []SinkInv
<1>1. ASSUME SinkInv, [SinkNext]_sinkVars PROVE SinkInv'
  <2>1. CASE Linearize
    BY <1>1, <2>1, LinearizeStep
  <2>2. CASE NextUnit
    BY <1>1, <2>2, NextUnitStep
  <2>3. CASE CloseScope
    BY <1>1, <2>3, CloseScopeStep
  <2>4. CASE Leave
    BY <1>1, <2>4, LeaveStep
  <2>5. CASE Fail
    BY <1>1, <2>5, FailStep
  <2>6. CASE Conclude
    BY <1>1, <2>6, ConcludeStep
  <2>7. CASE \E f \in 0..NFactors : OpenScope(f)
    BY <1>1, <2>7, OpenScopeStep
  <2>8. CASE \E blocks \in UNION {[1..n -> Block] : n \in 0..MaxBlocks}, sound \in BOOLEAN :
               Residual(blocks, sound)
    BY <1>1, <2>8, ResidualStep
  <2>9. CASE UNCHANGED sinkVars
    BY <1>1, <2>9, StutterStep
  <2> QED BY <1>1, <2>1, <2>2, <2>3, <2>4, <2>5, <2>6, <2>7, <2>8, <2>9 DEF SinkNext
<1> QED BY <1>1, SinkInitially, PTL DEF SinkSpec

-----------------------------------------------------------------------------
(* The sink keeps within its buffers, and every row that reaches the       *)
(* backend is over distinct states its factor depends on and comes from a  *)
(* factor whose scope was opened, whatever the evaluators do: no index the *)
(* code takes from the layout, a mark or the expected order is out of      *)
(* bounds (optimization.rs:475-598).                                       *)
THEOREM SinkIsSound == SinkSpec => []SinkInvariant
<1>1. SinkInv => SinkInvariant
  BY DEF SinkInv, SinkInvariant
<1> QED BY <1>1, SinkInduction, PTL

(* Every call is granted exactly when the protocol allows it, however often*)
(* the emission counter has wrapped around, and a linearization reported to*)
(* stand holds every factor exactly once and saw no refusal                *)
(* (optimization.rs:215-251, 488-598).                                     *)
THEOREM VerdictsAreTheProtocols == SinkSpec => []VerdictsAreExact
<1>1. SinkInv => VerdictsAreExact
  BY DEF SinkInv, VerdictsAreExact
<1> QED BY <1>1, SinkInduction, PTL

-----------------------------------------------------------------------------
(***************************************************************************)
(* The directory and the batches of a family describe the same factors,    *)
(* for any number of batches, payloads and handles.                        *)
(*                                                                         *)
(* What the runs check is not inductive while a selection is packed, since *)
(* it says nothing of the order of the packed batch.  The invariant tells  *)
(* it by the directory, which no swap touches: the position an entry names *)
(* is the home of its payload.  Each logged swap leads from one arrangement*)
(* of the homes to the next, from every payload at home to the present     *)
(* one; so undoing the swaps, last first, leads back.                      *)
(***************************************************************************)

HandleAt(b, i) == Raw(locations, KeysOf(b)[i])
EntryOf(k)     == PoolGet(locations, k)
SlotOf(b)      == batches.keys[b].slot

NBatches == Len(batches.values)
Places(b) == 1..Len(KeysOf(b))

-----------------------------------------------------------------------------
(* The factors of the family, wherever their payloads lie: every packed    *)
(* key has an entry of its batch in the directory, no key is packed twice, *)
(* and every entry of the directory is packed somewhere.                   *)
PoolsFit == /\ batches \in Pools(Batch) /\ batches.id = BatchesId /\ PoolOk(batches)
            /\ locations \in Pools(Location) /\ locations.id = LocationsId /\ PoolOk(locations)

LengthsAgree ==
  \A b \in 1..NBatches : /\ Len(KeysOf(b)) = Len(batches.values[b].values)
                         /\ Len(KeysOf(b)) <= Capacity

PayloadsAreListed ==
  \A b \in 1..NBatches : \A i \in Places(b) :
    /\ Resolves(locations, HandleAt(b, i))
    /\ EntryOf(HandleAt(b, i)).batch_slot = SlotOf(b)

PayloadsAreDistinct ==
  \A b \in 1..NBatches : \A i, j \in Places(b) : HandleAt(b, i) = HandleAt(b, j) => i = j

EntriesArePacked ==
  \A k \in RawKey : Resolves(locations, k) =>
    \E b \in 1..NBatches : \E i \in Places(b) : HandleAt(b, i) = k

Family == /\ PoolsFit /\ LengthsAgree /\ PayloadsAreListed
          /\ PayloadsAreDistinct /\ EntriesArePacked

(* The position that the directory has for the payload at position i.      *)
HomeOf(b, i) == EntryOf(HandleAt(b, i)).dense_index

AtHome(b) == \A i \in Places(b) : HomeOf(b, i) = i

(* The evaluated payload at position i of batch b; factor k has payload e. *)
HeldAt(b, i) == [model |-> batches.values[b].model, payload |-> batches.values[b].values[i]]

Holds(k, e) == \E b \in 1..NBatches : \E i \in Places(b) : HandleAt(b, i) = k /\ HeldAt(b, i) = e

-----------------------------------------------------------------------------
InSelection == pass.mode \in {"pack", "evaluate", "restore"}

OthersAtHome == \A b \in 1..NBatches : ~Selecting(b) => AtHome(b)

PassFits ==
  /\ pass \in [mode : Mode, ids : SUBSET RawKey, batch : 0..(Capacity + 1),
               index : 0..(Capacity + 1), count : 0..Capacity,
               swaps : Seq((1..Capacity) \X (1..Capacity)), undo : 0..Capacity,
               outcome : Outcome]
  /\ reply.to \in {"factors", "batches", "caller"}

RemovalFits ==
  pass.mode = "remove" =>
    /\ pass.batch \in 1..(NBatches + 1)
    /\ pass.batch > NBatches => pass.index = 0
    /\ pass.batch <= NBatches => pass.index <= Len(KeysOf(pass.batch))

SelectionFits ==
  InSelection =>
    /\ pass.batch \in 1..NBatches
    /\ pass.count < pass.index /\ pass.index <= Len(KeysOf(pass.batch)) + 1
    /\ pass.mode # "pack" => pass.index > Len(KeysOf(pass.batch))
    /\ pass.mode = "evaluate" => pass.undo = Len(pass.swaps)
    /\ pass.mode = "restore" => pass.undo <= Len(pass.swaps)
    /\ Len(pass.swaps) <= pass.count
    /\ \A j \in 1..Len(pass.swaps) : /\ pass.swaps[j][1] \in Places(pass.batch)
                                     /\ pass.swaps[j][2] \in Places(pass.batch)

(* The homes of the payloads of the packed batch, in their present order.  *)
Homes == [i \in Places(pass.batch) |-> HomeOf(pass.batch, i)]

(* How many of the logged swaps are in effect. *)
InEffect == IF pass.mode = "restore" THEN pass.undo ELSE Len(pass.swaps)

Arrangements == [0..Len(pass.swaps) -> [Places(pass.batch) -> Places(pass.batch)]]

(* H has the homes before the first swap, after it, and so on. *)
Logged(H) ==
  /\ H[0] = [i \in Places(pass.batch) |-> i]
  /\ \A j \in 1..Len(pass.swaps) :
       H[j] = SwapIn(H[j - 1], pass.swaps[j][1], pass.swaps[j][2])
  /\ Homes = H[InEffect]

SwapsAreLogged == InSelection => \E H \in Arrangements : Logged(H)

(* Of the payloads already examined the selected ones are in front, in     *)
(* the order of their homes; the rest has not moved.                       *)
SelectionIsPacked ==
  pass.mode \in {"pack", "evaluate"} =>
    LET b == pass.batch
    IN  /\ \A i \in Places(b) : i >= pass.index => HomeOf(b, i) = i
        /\ \A i \in Places(b) : i < pass.index =>
             /\ HomeOf(b, i) < pass.index
             /\ HandleAt(b, i) \in pass.ids <=> i <= pass.count
        /\ \A i, j \in 1..pass.count : i < j => HomeOf(b, i) < HomeOf(b, j)

IInv == /\ Family /\ OthersAtHome /\ PassFits /\ RemovalFits /\ RemovalIsThorough
        /\ SelectionFits /\ SwapsAreLogged /\ SelectionIsPacked

-----------------------------------------------------------------------------
(* A batch and its slot name each other. *)
LEMMA BatchSlots ==
  ASSUME PoolsFit, NEW b \in 1..NBatches
  PROVE  /\ SlotOf(b) \in 1..Len(batches.slots)
         /\ batches.slots[SlotOf(b)].dense_index = b
         /\ AtSlot(batches, SlotOf(b)) = batches.values[b]
         /\ SlotOf(b) \in 1..Capacity
<1>1. /\ NBatches = Len(batches.keys) /\ Len(batches.keys) \in Nat /\ Len(batches.slots) \in Nat
      /\ \A i \in 1..Len(batches.keys) : batches.keys[i] \in LocalKey
  BY PoolTypes DEF PoolsFit, PoolOk, SizesAgree, NBatches
<1>2. /\ batches.keys[b].slot <= Len(batches.slots)
      /\ batches.slots[batches.keys[b].slot] = [generation  |-> batches.keys[b].generation,
                                                dense_index |-> b]
  BY <1>1 DEF PoolsFit, PoolOk, KeysIndexed
<1>3. batches.keys[b].slot \in 1..Capacity
  BY <1>1 DEF LocalKey
<1> QED BY <1>1, <1>2, <1>3 DEF SlotOf, AtSlot

LEMMA SlotsAreDistinct ==
  ASSUME PoolsFit, NEW b \in 1..NBatches, NEW c \in 1..NBatches, SlotOf(b) = SlotOf(c)
  PROVE  b = c
BY BatchSlots

(* The batch under a handle. *)
LEMMA BatchUnderHandle ==
  ASSUME PoolsFit, NEW h \in RawKey, Resolves(batches, h)
  PROVE  /\ PoolIndex(batches, h) \in 1..NBatches
         /\ SlotOf(PoolIndex(batches, h)) = h.slot
         /\ PoolGet(batches, h) = batches.values[PoolIndex(batches, h)]
<1>1. /\ PoolIndex(batches, h) \in 1..Len(batches.keys)
      /\ h = Raw(batches, batches.keys[PoolIndex(batches, h)])
      /\ Len(batches.keys) = Len(batches.values)
  BY ResolvedKeyIsPacked DEF PoolsFit, PoolOk, SizesAgree
<1> QED BY <1>1 DEF NBatches, SlotOf, Raw, PoolGet

LEMMA BatchParts ==
  ASSUME PoolsFit, NEW b \in 1..NBatches
  PROVE  /\ batches.values[b] \in Batch
         /\ KeysOf(b) \in Seq(LocalKey) /\ Len(KeysOf(b)) \in Nat
         /\ batches.values[b].values \in Seq(FactorPayload)
         /\ batches.values[b].model \in Model
         /\ \A i \in Places(b) : KeysOf(b)[i] \in LocalKey
         /\ NBatches \in Nat /\ NBatches <= Capacity
<1>1. batches.values[b] \in Batch /\ NBatches \in Nat /\ NBatches <= Capacity
  BY PoolTypes DEF PoolsFit, NBatches, PoolOk, SizesAgree
<1>2. KeysOf(b) \in Seq(LocalKey)
  BY <1>1 DEF Batch, KeysOf
<1> QED BY <1>1, <1>2 DEF Batch, KeysOf, Places

LEMMA HandlesAreRaw ==
  ASSUME PoolsFit, NEW b \in 1..NBatches, NEW i \in Places(b)
  PROVE  HandleAt(b, i) \in RawKey
BY BatchParts, PoolTypes DEF PoolsFit, HandleAt, Raw, RawKey, LocalKey

(* The entry of a live factor. *)
LEMMA EntryParts ==
  ASSUME PoolsFit, NEW k \in RawKey, Resolves(locations, k)
  PROVE  /\ EntryOf(k) \in Location
         /\ EntryOf(k).batch_slot \in 1..Capacity /\ EntryOf(k).dense_index \in 1..Capacity
         /\ EntryOf(k) = [batch_slot |-> EntryOf(k).batch_slot,
                          dense_index |-> EntryOf(k).dense_index]
<1>1. EntryOf(k) \in Location
  BY ResolvedKeyIsPacked DEF PoolsFit, EntryOf
<1> QED BY <1>1 DEF Location

LEMMA HomesAreIndices ==
  ASSUME PoolsFit, PayloadsAreListed, NEW b \in 1..NBatches, NEW i \in Places(b)
  PROVE  HomeOf(b, i) \in 1..Capacity
BY HandlesAreRaw, EntryParts DEF PayloadsAreListed, HomeOf

(* A factor is packed in one place only. *)
LEMMA PlacesAreDistinct ==
  ASSUME Family, NEW b \in 1..NBatches, NEW c \in 1..NBatches,
         NEW i \in Places(b), NEW j \in Places(c), HandleAt(b, i) = HandleAt(c, j)
  PROVE  b = c /\ i = j
<1>1. SlotOf(b) = SlotOf(c)
  BY DEF Family, PayloadsAreListed
<1>2. b = c
  BY <1>1, SlotsAreDistinct DEF Family
<1> QED BY <1>2 DEF Family, PayloadsAreDistinct

(* Where the directory says a factor is, unless its batch is packed. *)
LEMMA FactorAtHome ==
  ASSUME Family, OthersAtHome, NEW k \in RawKey, Resolves(locations, k)
  PROVE  \E b \in 1..NBatches :
           /\ EntryOf(k).batch_slot = SlotOf(b) /\ SlotOf(b) \in 1..Len(batches.slots)
           /\ batches.slots[SlotOf(b)].dense_index = b
           /\ AtSlot(batches, SlotOf(b)) = batches.values[b]
           /\ \E i \in Places(b) : HandleAt(b, i) = k
           /\ ~Selecting(b) => /\ EntryOf(k).dense_index \in Places(b)
                               /\ HandleAt(b, EntryOf(k).dense_index) = k
<1>1. PICK b \in 1..NBatches : \E i \in Places(b) : HandleAt(b, i) = k
  BY DEF Family, EntriesArePacked
<1>2. PICK i \in Places(b) : HandleAt(b, i) = k
  BY <1>1
<1>3. EntryOf(k).batch_slot = SlotOf(b)
  BY <1>2 DEF Family, PayloadsAreListed
<1>4. ~Selecting(b) => EntryOf(k).dense_index = i
  BY <1>2 DEF OthersAtHome, AtHome, HomeOf
<1> QED BY <1>1, <1>2, <1>3, <1>4, BatchSlots DEF Family

(* A batch has no more payloads than the directory has entries. *)
LEMMA BatchFitsDirectory ==
  ASSUME Family, NEW b \in 1..NBatches
  PROVE  Len(KeysOf(b)) <= Len(locations.values)
<1>1. PoolsFit /\ Len(KeysOf(b)) \in Nat /\ Len(locations.values) \in Nat
  BY BatchParts, PoolTypes DEF Family, PoolsFit
<1> DEFINE at == [i \in Places(b) |-> PoolIndex(locations, HandleAt(b, i))]
           m == Len(KeysOf(b))
           n == Len(locations.values)
<1>2. \A i \in Places(b) : /\ PoolIndex(locations, HandleAt(b, i)) \in 1..n
                           /\ HandleAt(b, i) = Raw(locations, locations.keys[at[i]])
  <2> SUFFICES ASSUME NEW i \in Places(b)
               PROVE  /\ PoolIndex(locations, HandleAt(b, i)) \in 1..n
                      /\ HandleAt(b, i) = Raw(locations, locations.keys[PoolIndex(locations, HandleAt(b, i))])
    OBVIOUS
  <2>1. HandleAt(b, i) \in RawKey /\ Resolves(locations, HandleAt(b, i))
    BY <1>1, HandlesAreRaw DEF Family, PayloadsAreListed
  <2>2. Len(locations.keys) = n
    BY <1>1 DEF PoolsFit, PoolOk, SizesAgree
  <2> QED BY <1>1, <2>1, <2>2, ResolvedKeyIsPacked DEF PoolsFit
<1>3. at \in [1..m -> 1..n]
  BY <1>2 DEF Places
<1>4. \A i, j \in 1..m : at[i] = at[j] => i = j
  BY <1>2 DEF Family, PayloadsAreDistinct, Places
<1>5. m \in Nat /\ n \in Nat
  BY <1>1
<1> HIDE DEF at, m, n
<1>6. /\ IsFiniteSet(1..m) /\ Cardinality(1..m) = m
      /\ IsFiniteSet(1..n) /\ Cardinality(1..n) = n
  BY <1>5, IntervalSize
<1>7. ASSUME n < m PROVE FALSE
  <2>1. Cardinality(1..n) < Cardinality(1..m)
    BY <1>6, <1>7
  <2>2. \E i, j \in 1..m : i # j /\ at[i] = at[j]
    BY <1>3, <1>6, <2>1, FS_PigeonHole
  <2> QED BY <1>4, <2>2
<1>8. ~(n < m)
  BY <1>7
<1> QED BY <1>5, <1>8 DEF m, n

-----------------------------------------------------------------------------
(* What the runs check follows. *)
LEMMA DirectoryIsOk == IInv => DirectoryOk
<1> SUFFICES ASSUME IInv PROVE DirectoryOk
  OBVIOUS
<1>1. PoolsFit /\ Family /\ OthersAtHome
  BY DEF IInv, Family
<1>2. TypeOK
  BY DEF IInv, Family, PoolsFit, PassFits, TypeOK
<1>3. ASSUME NEW b \in 1..NBatches
      PROVE  /\ Len(KeysOf(b)) = Len(batches.values[b].values)
             /\ ~Selecting(b) => \A i \in 1..Len(KeysOf(b)) : EntryLeadsHome(b, i)
  <2>1. Len(KeysOf(b)) = Len(batches.values[b].values)
    BY <1>1 DEF Family, LengthsAgree
  <2>2. ASSUME ~Selecting(b), NEW i \in Places(b)
        PROVE  EntryLeadsHome(b, i)
    <3>1. /\ Resolves(locations, HandleAt(b, i)) /\ HandleAt(b, i) \in RawKey
          /\ EntryOf(HandleAt(b, i)).batch_slot = SlotOf(b)
          /\ EntryOf(HandleAt(b, i)).dense_index = i
      BY <1>1, <2>2, HandlesAreRaw
         DEF Family, PayloadsAreListed, OthersAtHome, AtHome, HomeOf
    <3>2. EntryOf(HandleAt(b, i)) = [batch_slot |-> SlotOf(b), dense_index |-> i]
      BY <1>1, <3>1, EntryParts
    <3> QED BY <3>1, <3>2 DEF EntryLeadsHome, HandleAt, EntryOf, SlotOf
  <2> QED BY <2>1, <2>2 DEF Places
<1>4. ASSUME NEW l \in 1..Len(locations.values)
      PROVE  EntryIsPacked(l)
  <2> DEFINE k == Raw(locations, locations.keys[l])
  <2>1. Len(locations.keys) = Len(locations.values)
    BY <1>1 DEF PoolsFit, PoolOk, SizesAgree
  <2>2. /\ k \in RawKey /\ Resolves(locations, k) /\ PoolIndex(locations, k) = l
        /\ k.slot = locations.keys[l].slot /\ k.generation = locations.keys[l].generation
    BY <1>1, <2>1, PackedKeyResolves DEF PoolsFit
  <2>3. EntryOf(k) = locations.values[l]
    BY <2>2 DEF EntryOf, PoolGet
  <2> HIDE DEF k
  <2>4. PICK b \in 1..NBatches :
           /\ EntryOf(k).batch_slot = SlotOf(b) /\ SlotOf(b) \in 1..Len(batches.slots)
           /\ batches.slots[SlotOf(b)].dense_index = b
           /\ AtSlot(batches, SlotOf(b)) = batches.values[b]
           /\ \E i \in Places(b) : HandleAt(b, i) = k
           /\ ~Selecting(b) => /\ EntryOf(k).dense_index \in Places(b)
                               /\ HandleAt(b, EntryOf(k).dense_index) = k
    BY <1>1, <2>2, FactorAtHome
  <2>5. b # VACANT /\ Len(batches.slots) \in Nat /\ Len(KeysOf(b)) \in Nat
    BY <1>1, BatchParts, PoolTypes, PoolBounds DEF PoolsFit, VACANT
  <2>6. EntryOf(k).dense_index <= Len(KeysOf(b))
    <3>1. CASE ~Selecting(b)
      BY <2>4, <2>5, <3>1 DEF Places
    <3>2. CASE Selecting(b)
      <4>1. InSelection /\ b = pass.batch
        BY <3>2 DEF Selecting, InSelection
      <4>2. PICK i \in Places(b) : HandleAt(b, i) = k
        BY <2>4
      <4>3. PICK H \in Arrangements : Logged(H)
        BY <4>1 DEF IInv, SwapsAreLogged
      <4>4. Len(pass.swaps) \in Nat /\ InEffect \in 0..Len(pass.swaps)
        BY <4>1 DEF IInv, PassFits, SelectionFits, InEffect
      <4>5. Homes \in [Places(b) -> Places(b)]
        BY <4>1, <4>3, <4>4 DEF Logged, Arrangements
      <4>6. Homes[i] = EntryOf(k).dense_index
        BY <4>1, <4>2 DEF Homes, HomeOf
      <4>7. EntryOf(k).dense_index \in Places(b)
        BY <4>5, <4>6
      <4> QED BY <4>7, <2>5 DEF Places
    <3> QED BY <3>1, <3>2
  <2>7. ~Selecting(b) => KeysOf(b)[EntryOf(k).dense_index] = locations.keys[l]
    <3> SUFFICES ASSUME ~Selecting(b)
                 PROVE  KeysOf(b)[EntryOf(k).dense_index] = locations.keys[l]
      OBVIOUS
    <3>1. KeysOf(b)[EntryOf(k).dense_index] \in LocalKey /\ locations.keys[l] \in LocalKey
      BY <1>1, <2>1, <2>4, BatchParts, PoolTypes DEF PoolsFit
    <3>2. Raw(locations, KeysOf(b)[EntryOf(k).dense_index]) = k
      BY <2>4 DEF HandleAt
    <3> QED BY <2>2, <3>1, <3>2 DEF Raw, LocalKey
  <2> QED BY <2>3, <2>4, <2>5, <2>6, <2>7 DEF EntryIsPacked, KeysOf
<1> QED BY <1>1, <1>2, <1>3, <1>4 DEF DirectoryOk, PoolsFit, NBatches

LEMMA SelectionFollows == IInv => SelectionExact
<1> SUFFICES ASSUME IInv, pass.mode = "evaluate" PROVE SelectionExact
  BY DEF SelectionExact
<1> DEFINE b == pass.batch
           packed == [i \in 1..pass.count |-> Raw(locations, KeysOf(pass.batch)[i])]
           chosen == {k \in pass.ids : /\ Resolves(locations, k)
                                       /\ PoolGet(locations, k).batch_slot = batches.keys[pass.batch].slot}
<1>1. /\ Family /\ PoolsFit /\ b \in 1..NBatches /\ pass.ids \in SUBSET RawKey
      /\ pass.count \in Nat /\ pass.index \in Nat
      /\ pass.count < pass.index /\ pass.index <= Len(KeysOf(b)) + 1
      /\ pass.index > Len(KeysOf(b))
  BY DEF IInv, Family, SelectionFits, InSelection, PassFits
<1>2. Len(KeysOf(b)) \in Nat
  BY <1>1, BatchParts
<1>3. \A i \in 1..pass.count : i \in Places(b) /\ i < pass.index
  BY <1>1, <1>2 DEF Places
<1>4. \A i \in Places(b) : HandleAt(b, i) \in pass.ids <=> i <= pass.count
  <2>1. \A i \in Places(b) : i < pass.index
    BY <1>1, <1>2 DEF Places
  <2> QED BY <2>1 DEF IInv, SelectionIsPacked
<1>5. \A i \in 1..pass.count : packed[i] = HandleAt(b, i)
  BY DEF HandleAt
<1>6. ASSUME NEW i \in 1..pass.count PROVE packed[i] \in chosen
  <2>1. i \in Places(b) /\ HandleAt(b, i) \in pass.ids
    BY <1>1, <1>3, <1>4
  <2>2. Resolves(locations, HandleAt(b, i)) /\ EntryOf(HandleAt(b, i)).batch_slot = SlotOf(b)
    BY <1>1, <2>1 DEF Family, PayloadsAreListed
  <2> QED BY <1>5, <2>1, <2>2 DEF EntryOf, SlotOf
<1>7. ASSUME NEW k \in chosen PROVE \E i \in 1..pass.count : packed[i] = k
  <2>1. k \in RawKey /\ Resolves(locations, k) /\ EntryOf(k).batch_slot = SlotOf(b) /\ k \in pass.ids
    BY <1>1 DEF EntryOf, SlotOf
  <2>2. PICK c \in 1..NBatches : \E i \in Places(c) : HandleAt(c, i) = k
    BY <1>1, <2>1 DEF Family, EntriesArePacked
  <2>3. PICK i \in Places(c) : HandleAt(c, i) = k
    BY <2>2
  <2>4. c = b
    <3>1. SlotOf(c) = SlotOf(b)
      BY <1>1, <2>1, <2>3 DEF Family, PayloadsAreListed
    <3> QED BY <1>1, <3>1, SlotsAreDistinct
  <2>5. i <= pass.count
    BY <1>4, <2>1, <2>3, <2>4
  <2>6. i \in 1..pass.count
    BY <1>1, <1>2, <2>3, <2>5, <2>4 DEF Places
  <2> QED BY <1>5, <2>3, <2>4, <2>6
<1>8. {packed[i] : i \in 1..pass.count} = chosen
  BY <1>6, <1>7
<1>9. ASSUME NEW i \in 1..pass.count, NEW j \in 1..pass.count, i < j
      PROVE  PoolGet(locations, packed[i]).dense_index < PoolGet(locations, packed[j]).dense_index
  <2>1. HomeOf(b, i) < HomeOf(b, j)
    BY <1>9 DEF IInv, SelectionIsPacked
  <2> QED BY <1>5, <2>1 DEF HomeOf, EntryOf
<1> HIDE DEF packed, chosen
<1> QED BY <1>8, <1>9 DEF SelectionExact, packed, chosen

-----------------------------------------------------------------------------
(* The parts of the family, after an operation.                            *)

LEMMA SwapInProperties ==
  ASSUME NEW S, NEW s \in Seq(S), NEW x \in 1..Len(s), NEW y \in 1..Len(s)
  PROVE  /\ SwapIn(s, x, y) \in Seq(S)
         /\ Len(SwapIn(s, x, y)) = Len(s)
         /\ \A i \in 1..Len(s) : SwapIn(s, x, y)[i] = IF i = y THEN s[x]
                                                      ELSE IF i = x THEN s[y] ELSE s[i]
<1>1. Len(s) \in Nat /\ s \in [1..Len(s) -> S]
  OBVIOUS
<1>2. SwapIn(s, x, y) \in [1..Len(s) -> S]
  BY <1>1 DEF SwapIn
<1>3. SwapIn(s, x, y) \in Seq(S) /\ Len(SwapIn(s, x, y)) = Len(s)
  BY <1>1, <1>2
<1>4. \A i \in 1..Len(s) : SwapIn(s, x, y)[i] = IF i = y THEN s[x]
                                                ELSE IF i = x THEN s[y] ELSE s[i]
  BY <1>1 DEF SwapIn
<1> QED BY <1>3, <1>4

(* One batch is replaced by another one under the same handle. *)
WithBatch(n, v) == [batches EXCEPT !.values = [@ EXCEPT ![n] = v]]

LEMMA BatchReplaced ==
  ASSUME PoolsFit, NEW n \in 1..NBatches, NEW v \in Batch, NEW q, q = WithBatch(n, v)
  PROVE  /\ q \in Pools(Batch) /\ q.id = batches.id /\ PoolOk(q)
         /\ q.keys = batches.keys /\ q.slots = batches.slots /\ q.free_slots = batches.free_slots
         /\ q.values = [batches.values EXCEPT ![n] = v] /\ Len(q.values) = NBatches
<1> DEFINE h == Raw(batches, batches.keys[n])
<1>1. n \in 1..Len(batches.keys)
  BY DEF PoolsFit, PoolOk, SizesAgree, NBatches
<1>2. h \in RawKey /\ Resolves(batches, h) /\ PoolIndex(batches, h) = n
  BY <1>1, PackedKeyResolves DEF PoolsFit
<1> HIDE DEF h
<1>3. q = PoolSet(batches, h, v)
  BY <1>2, PoolSetOk DEF PoolsFit, WithBatch
<1>4. q \in Pools(Batch) /\ PoolOk(q)
  BY <1>2, <1>3, PoolSetOk DEF PoolsFit
<1>5. /\ q.id = batches.id /\ q.keys = batches.keys /\ q.slots = batches.slots
      /\ q.free_slots = batches.free_slots /\ q.values = [batches.values EXCEPT ![n] = v]
  BY DEF PoolsFit, Pools, WithBatch
<1>6. Len(q.values) = NBatches
  BY <1>5, PoolTypes DEF PoolsFit, NBatches
<1> QED BY <1>4, <1>5, <1>6

AllAtHome == \A b \in 1..NBatches : AtHome(b)

(* The batches are the same, whatever payloads they have. *)
SameBatches ==
  /\ batches'.id = batches.id /\ batches'.keys = batches.keys
  /\ batches'.slots = batches.slots /\ batches'.free_slots = batches.free_slots
  /\ NBatches' = NBatches
  /\ \A b \in 1..NBatches : batches'.values[b].model = batches.values[b].model

(* insert_into. *)
LEMMA InsertIntoKeepsFamily ==
  ASSUME Family, AllAtHome, NEW h \in RawKey, Resolves(batches, h), NEW v \in FactorPayload,
         CanReserve(locations, 1),
         locations' = PoolInsert(locations, [batch_slot  |-> h.slot,
                                             dense_index |-> Len(PoolGet(batches, h).values) + 1]),
         batches' = PoolSet(batches, h, [PoolGet(batches, h) EXCEPT
                                           !.values = Append(@, v),
                                           !.keys   = Append(@, NextKey(locations))])
  PROVE  /\ Family' /\ AllAtHome' /\ SameBatches
         /\ \A k, e : Holds(k, e) => Holds(k, e)'
         /\ \A k, e : k = Raw(locations, NextKey(locations)) =>
              (e = [model |-> PoolGet(batches, h).model, payload |-> v] => Holds(k, e)')
<1>a. PICK n : n = PoolIndex(batches, h)
  OBVIOUS
<1>b. PICK m : m = Len(KeysOf(n))
  OBVIOUS
<1>c. PICK new : new = Raw(locations, NextKey(locations))
  OBVIOUS
<1>d. PICK key : key = NextKey(locations)
  OBVIOUS
<1>e. PICK old : old = PoolGet(batches, h)
  OBVIOUS
<1>f. PICK at : at = [batch_slot |-> h.slot, dense_index |-> Len(old.values) + 1]
  OBVIOUS
<1>g. PICK put : put = [old EXCEPT !.values = Append(@, v), !.keys = Append(@, key)]
  OBVIOUS
<1>1. /\ PoolsFit /\ n \in 1..NBatches /\ SlotOf(n) = h.slot /\ old = batches.values[n]
      /\ h.slot \in 1..Capacity /\ NBatches \in Nat
  BY <1>a, <1>e, BatchUnderHandle, BatchSlots, BatchParts DEF Family
<1>2. /\ m \in Nat /\ m + 1 <= Capacity /\ Len(old.values) = m
      /\ Len(locations.values) \in Nat
  <2>1. m <= Len(locations.values) /\ m \in Nat /\ Len(locations.values) \in Nat
    BY <1>1, <1>b, BatchFitsDirectory, BatchParts, PoolTypes DEF PoolsFit
  <2>2. Len(locations.values) + 1 <= Capacity
    BY DEF CanReserve
  <2> QED BY <1>1, <1>b, <2>1, <2>2, PoolBounds DEF Family, LengthsAgree
<1>3. at \in Location /\ at.batch_slot = SlotOf(n) /\ at.dense_index = m + 1
  BY <1>1, <1>2, <1>f, PoolBounds DEF Location
<1>4. key \in LocalKey
  BY <1>1, <1>d, NextKeyProperties DEF PoolsFit
<1>5. put \in Batch /\ put.keys = Append(KeysOf(n), key) /\ put.model = old.model
      /\ put.values = Append(old.values, v)
  <2>1. /\ old \in Batch /\ old.keys = KeysOf(n) /\ old.keys \in Seq(LocalKey)
        /\ old.values \in Seq(FactorPayload) /\ old.model \in Model
    BY <1>1, BatchParts DEF KeysOf
  <2>2. Append(old.values, v) \in Seq(FactorPayload) /\ Append(old.keys, key) \in Seq(LocalKey)
    BY <1>4, <2>1
  <2>3. put = [model |-> old.model, values |-> Append(old.values, v),
               keys |-> Append(old.keys, key)]
    BY <1>g, <2>1 DEF Batch
  <2> QED BY <2>1, <2>2, <2>3 DEF Batch
<1>6. batches' = WithBatch(n, put)
  <2>1. batches' = PoolSet(batches, h, put)
    BY <1>d, <1>e, <1>g
  <2>2. batches \in Pools(Batch) /\ PoolOk(batches) /\ put \in Batch
    BY <1>1, <1>5 DEF PoolsFit
  <2>3. PoolSet(batches, h, put) =
          [batches EXCEPT !.values = [@ EXCEPT ![PoolIndex(batches, h)] = put]]
    BY <2>2, PoolSetOk
  <2> QED BY <1>a, <2>1, <2>3 DEF WithBatch
<1>7. /\ batches' \in Pools(Batch) /\ batches'.id = batches.id /\ PoolOk(batches')
      /\ batches'.keys = batches.keys /\ Len(batches'.values) = NBatches
      /\ batches'.slots = batches.slots /\ batches'.free_slots = batches.free_slots
      /\ batches'.values = [batches.values EXCEPT ![n] = put]
  BY <1>1, <1>5, <1>6, BatchReplaced
<1>8. /\ locations' = PoolInsert(locations, at)
      /\ locations' \in Pools(Location) /\ PoolOk(locations') /\ locations'.id = locations.id
      /\ new \in RawKey /\ Resolves(locations', new) /\ PoolGet(locations', new) = at
  BY <1>1, <1>3, <1>c, <1>e, <1>f, PoolInsertOk, InsertLookup DEF PoolsFit
<1>9. \A j \in RawKey :
        /\ Resolves(locations', j) <=> Resolves(locations, j) \/ j = new
        /\ Resolves(locations, j) => j # new /\ EntryOf(j)' = EntryOf(j)
  BY <1>1, <1>3, <1>8, <1>c, InsertResolves DEF PoolsFit, EntryOf
<1>10. /\ NBatches' = NBatches
       /\ \A b \in 1..NBatches : SlotOf(b)' = SlotOf(b)
       /\ \A b \in 1..NBatches : b # n => /\ batches'.values[b] = batches.values[b]
                                          /\ KeysOf(b)' = KeysOf(b)
       /\ KeysOf(n)' = Append(KeysOf(n), key) /\ batches'.values[n] = put
  <2>1. Len(batches.values) = NBatches /\ batches'.values = [batches.values EXCEPT ![n] = put]
    BY <1>7 DEF NBatches
  <2>2. \A b \in 1..NBatches : batches'.values[b] = IF b = n THEN put ELSE batches.values[b]
    <3>1. batches.values \in Seq(Batch)
      BY <1>1 DEF PoolsFit, Pools
    <3> QED BY <2>1, <3>1
  <2>3. put.keys = Append(KeysOf(n), key)
    BY <1>1, <1>5
  <2>4. NBatches' = NBatches /\ \A b \in 1..NBatches : SlotOf(b)' = SlotOf(b)
    BY <1>7 DEF NBatches, SlotOf
  <2>5. n \in 1..NBatches
    BY <1>1
  <2> QED BY <2>2, <2>3, <2>4, <2>5 DEF KeysOf
<1>11. Len(KeysOf(n)') = m + 1 /\ (\A i \in 1..m : KeysOf(n)'[i] = KeysOf(n)[i])
       /\ KeysOf(n)'[m + 1] = key
  <2>1. KeysOf(n) \in Seq(LocalKey) /\ Len(KeysOf(n)) = m
    BY <1>1, <1>b, BatchParts
  <2> QED BY <1>2, <1>4, <1>10, <2>1
<1>12. \A b \in 1..NBatches : \A i \in Places(b) : i \in Places(b)' /\ HandleAt(b, i)' = HandleAt(b, i)
  BY <1>2, <1>8, <1>10, <1>11, <1>b DEF HandleAt, Raw, Places
<1>13. \A b \in 1..NBatches : \A i \in Places(b)' :
         \/ i \in Places(b)
         \/ b = n /\ i = m + 1
  BY <1>2, <1>10, <1>11, <1>b DEF Places
<1>14. HandleAt(n, m + 1)' = new /\ m + 1 \in Places(n)'
  BY <1>2, <1>8, <1>11, <1>c, <1>d DEF HandleAt, Raw, Places
<1>15. PoolsFit'
  BY <1>1, <1>7, <1>8 DEF PoolsFit
<1>16. LengthsAgree'
  <2>1. ASSUME NEW b \in 1..NBatches
        PROVE  Len(KeysOf(b)') = Len(batches'.values[b].values) /\ Len(KeysOf(b)') <= Capacity
    <3>1. CASE b # n
      BY <1>10, <3>1 DEF Family, LengthsAgree
    <3>2. CASE b = n
      <4>1. Len(Append(batches.values[n].values, v)) = m + 1
        <5>1. batches.values[n].values \in Seq(FactorPayload) /\ Len(batches.values[n].values) = m
          BY <1>1, <1>2, BatchParts
        <5> QED BY <1>2, <5>1
      <4> QED BY <1>1, <1>2, <1>5, <1>10, <1>11, <3>2, <4>1
    <3> QED BY <3>1, <3>2
  <2> QED BY <1>10, <2>1 DEF LengthsAgree
<1>17. \A b \in 1..NBatches : \A i \in Places(b) :
         /\ HandleAt(b, i) \in RawKey /\ Resolves(locations, HandleAt(b, i))
         /\ EntryOf(HandleAt(b, i)).batch_slot = SlotOf(b)
         /\ EntryOf(HandleAt(b, i)).dense_index = i
  BY <1>1, HandlesAreRaw DEF Family, PayloadsAreListed, AllAtHome, AtHome, HomeOf
<1>18. ASSUME NEW b \in 1..NBatches, NEW i \in Places(b)'
       PROVE  /\ Resolves(locations', HandleAt(b, i)')
              /\ PoolGet(locations', HandleAt(b, i)').batch_slot = SlotOf(b)'
              /\ PoolGet(locations', HandleAt(b, i)').dense_index = i
  <2>1. CASE i \in Places(b)
    <3>1. HandleAt(b, i)' = HandleAt(b, i)
      BY <1>12, <2>1
    <3>2. PoolGet(locations', HandleAt(b, i)) = PoolGet(locations, HandleAt(b, i))
      BY <1>9, <1>17, <2>1 DEF EntryOf
    <3> QED BY <1>9, <1>10, <1>17, <2>1, <3>1, <3>2 DEF EntryOf
  <2>2. CASE b = n /\ i = m + 1
    BY <1>3, <1>8, <1>10, <1>14, <2>2
  <2> QED BY <1>13, <2>1, <2>2
<1>19. PayloadsAreListed' /\ AllAtHome'
  BY <1>10, <1>18 DEF PayloadsAreListed, AllAtHome, AtHome, HomeOf, EntryOf
<1>20. PayloadsAreDistinct'
  <2>1. ASSUME NEW b \in 1..NBatches, NEW i \in Places(b)', NEW j \in Places(b)',
               HandleAt(b, i)' = HandleAt(b, j)'
        PROVE  i = j
    BY <1>18, <2>1
  <2> QED BY <1>10, <2>1 DEF PayloadsAreDistinct
<1>21. EntriesArePacked'
  <2>1. ASSUME NEW k \in RawKey, Resolves(locations', k)
        PROVE  \E b \in 1..NBatches : \E i \in Places(b)' : HandleAt(b, i)' = k
    <3>1. CASE k = new
      BY <1>1, <1>14, <3>1
    <3>2. CASE Resolves(locations, k)
      <4>1. PICK b \in 1..NBatches : \E i \in Places(b) : HandleAt(b, i) = k
        BY <3>2 DEF Family, EntriesArePacked
      <4>2. PICK i \in Places(b) : HandleAt(b, i) = k
        BY <4>1
      <4> QED BY <1>12, <4>2
    <3> QED BY <1>9, <2>1, <3>1, <3>2
  <2> QED BY <1>10, <2>1 DEF EntriesArePacked
<1>22. SameBatches
  BY <1>1, <1>5, <1>7, <1>10 DEF SameBatches
<1>23. /\ \A b \in 1..NBatches : \A i \in Places(b) : HeldAt(b, i)' = HeldAt(b, i)
       /\ HeldAt(n, m + 1)' = [model |-> old.model, payload |-> v]
  <2>1. /\ \A i \in 1..m : Append(old.values, v)[i] = old.values[i]
        /\ Append(old.values, v)[m + 1] = v
    <3>1. old.values \in Seq(FactorPayload) /\ Len(old.values) = m
      BY <1>1, <1>2, BatchParts
    <3> QED BY <1>2, <3>1
  <2>2. ASSUME NEW b \in 1..NBatches, NEW i \in Places(b) PROVE HeldAt(b, i)' = HeldAt(b, i)
    <3>1. CASE b # n
      BY <1>10, <3>1 DEF HeldAt
    <3>2. CASE b = n
      <4>1. i \in 1..m
        BY <2>2, <3>2, <1>b DEF Places
      <4> QED BY <1>1, <1>5, <1>10, <2>1, <3>2, <4>1 DEF HeldAt
    <3> QED BY <3>1, <3>2
  <2> QED BY <1>5, <1>10, <2>1, <2>2 DEF HeldAt
<1>24. \A k, e : Holds(k, e) => Holds(k, e)'
  BY <1>10, <1>12, <1>23 DEF Holds
<1>25. Holds(new, [model |-> old.model, payload |-> v])'
  BY <1>1, <1>10, <1>14, <1>23 DEF Holds
<1>26. Family'
  BY <1>15, <1>16, <1>19, <1>20, <1>21 DEF Family
<1>27. \A k, e : k = Raw(locations, NextKey(locations)) =>
         (e = [model |-> PoolGet(batches, h).model, payload |-> v] => Holds(k, e)')
  BY <1>25, <1>c, <1>e
<1> QED BY <1>19, <1>22, <1>24, <1>26, <1>27

(* remove_factor: the last payload of the batch takes the place of the     *)
(* removed one, in the batch and in the directory.                         *)
LEMMA RemoveFactorKeepsFamily ==
  ASSUME Family, AllAtHome, NEW n \in 1..NBatches, NEW i \in Places(n),
         NEW k, k = HandleAt(n, i), RemoveFactor(k)
  PROVE  /\ Family' /\ AllAtHome' /\ NBatches' = NBatches /\ SameBatches
         /\ \A j, e : Holds(j, e) /\ j # k => Holds(j, e)'
         /\ locations'.id = locations.id /\ IssuedHandles(locations') = IssuedHandles(locations)
         /\ KeyStatus(locations', k) = "Stale"
         /\ \A j \in RawKey : j # k => KeyStatus(locations', j) = KeyStatus(locations, j)
         /\ k \in RawKey /\ Resolves(locations, k)
         /\ \A j \in RawKey : Resolves(locations', j) <=> Resolves(locations, j) /\ j # k
         /\ \A b \in 1..NBatches : b # n => /\ KeysOf(b)' = KeysOf(b)
                                            /\ \A j \in Places(b) : HandleAt(b, j)' = HandleAt(b, j)
         /\ Len(KeysOf(n)') = Len(KeysOf(n)) - 1
         /\ \A j \in 1..(Len(KeysOf(n)) - 1) :
              HandleAt(n, j)' = IF j = i THEN HandleAt(n, Len(KeysOf(n))) ELSE HandleAt(n, j)
<1>a. PICK m : m = Len(KeysOf(n))
  OBVIOUS
<1>b. PICK last : last = HandleAt(n, m)
  OBVIOUS
<1>c. PICK put : put = BatchWithout(k)
  OBVIOUS
<1>d. PICK fixed : fixed = IF i > Len(put.keys) THEN locations
                           ELSE PoolSet(locations, last,
                                        [PoolGet(locations, last) EXCEPT !.dense_index = i])
  OBVIOUS
<1>1. /\ PoolsFit /\ m \in Nat /\ i \in 1..m /\ m <= Capacity /\ i \in 1..Capacity
      /\ batches.values[n] \in Batch /\ batches.values[n].keys = KeysOf(n)
      /\ KeysOf(n) \in Seq(LocalKey) /\ batches.values[n].values \in Seq(FactorPayload)
      /\ Len(batches.values[n].values) = m /\ batches.values[n].model \in Model
  BY <1>a, BatchParts, PoolBounds DEF Family, LengthsAgree, Places, KeysOf
<1>2. \A b \in 1..NBatches : \A j \in Places(b) :
         /\ HandleAt(b, j) \in RawKey /\ Resolves(locations, HandleAt(b, j))
         /\ EntryOf(HandleAt(b, j)).batch_slot = SlotOf(b)
         /\ EntryOf(HandleAt(b, j)).dense_index = j
  BY <1>1, HandlesAreRaw DEF Family, PayloadsAreListed, AllAtHome, AtHome, HomeOf
<1>3. /\ k \in RawKey /\ Resolves(locations, k)
      /\ PoolGet(locations, k).batch_slot = SlotOf(n) /\ PoolGet(locations, k).dense_index = i
  BY <1>2 DEF EntryOf
<1>4. /\ batches.slots[SlotOf(n)].dense_index = n
      /\ AtSlot(batches, SlotOf(n)) = batches.values[n]
  BY <1>1, BatchSlots
<1>5. /\ SwapRemove(KeysOf(n), i) \in Seq(LocalKey) /\ Len(SwapRemove(KeysOf(n), i)) = m - 1
      /\ \A j \in 1..(m - 1) : SwapRemove(KeysOf(n), i)[j] = IF j = i THEN KeysOf(n)[m] ELSE KeysOf(n)[j]
  <2>1. PICK s : s = KeysOf(n)
    OBVIOUS
  <2>2. s \in Seq(LocalKey) /\ i \in 1..Len(s) /\ Len(s) = m
    BY <1>1, <1>a, <2>1
  <2>3. /\ SwapRemove(s, i) \in Seq(LocalKey) /\ Len(SwapRemove(s, i)) = Len(s) - 1
        /\ \A j \in 1..(Len(s) - 1) : SwapRemove(s, i)[j] = IF j = i THEN s[Len(s)] ELSE s[j]
    BY ONLY <2>2, SwapRemoveProperties
  <2> QED BY <2>1, <2>2, <2>3
<1>6. /\ SwapRemove(batches.values[n].values, i) \in Seq(FactorPayload)
      /\ Len(SwapRemove(batches.values[n].values, i)) = m - 1
  <2>1. PICK s : s = batches.values[n].values
    OBVIOUS
  <2>2. s \in Seq(FactorPayload) /\ i \in 1..Len(s) /\ Len(s) = m
    BY <1>1, <2>1
  <2>3. SwapRemove(s, i) \in Seq(FactorPayload) /\ Len(SwapRemove(s, i)) = Len(s) - 1
    BY ONLY <2>2, SwapRemoveProperties
  <2> QED BY <2>1, <2>2, <2>3
<1>7. put = [model |-> batches.values[n].model, values |-> SwapRemove(batches.values[n].values, i),
             keys |-> SwapRemove(KeysOf(n), i)]
  BY <1>1, <1>3, <1>4, <1>c DEF BatchWithout, BatchOf, Batch
<1>8. /\ put \in Batch /\ put.keys = SwapRemove(KeysOf(n), i) /\ Len(put.keys) = m - 1
      /\ Len(put.values) = m - 1
  BY <1>1, <1>5, <1>6, <1>7 DEF Batch
<1>9. batches' = WithBatch(n, put)
  <2>1. batches' = AtSlotSet(batches, SlotOf(n), put)
    BY <1>3, <1>c DEF RemoveFactor
  <2> QED BY <1>4, <2>1 DEF AtSlotSet, WithBatch
<1>10. /\ batches' \in Pools(Batch) /\ batches'.id = batches.id /\ PoolOk(batches')
       /\ batches'.keys = batches.keys /\ Len(batches'.values) = NBatches
       /\ batches'.slots = batches.slots /\ batches'.free_slots = batches.free_slots
       /\ batches'.values = [batches.values EXCEPT ![n] = put]
  <2>1. PoolsFit /\ put \in Batch
    BY <1>1, <1>8
  <2> QED BY <1>9, <2>1, BatchReplaced
<1>11. m \in Places(n) /\ last \in RawKey /\ Resolves(locations, last)
  <2>1. m \in Places(n)
    BY <1>1, <1>a DEF Places
  <2> QED BY <1>2, <1>b, <2>1
<1>12. locations' = PoolRemove(fixed, k)
  <2>1. ASSUME ~(i > Len(put.keys))
        PROVE  Raw(locations, put.keys[i]) = last
    <3>1. i \in 1..(m - 1)
      BY <1>1, <1>8, <2>1
    <3> QED BY <1>5, <1>8, <1>b, <3>1 DEF HandleAt
  <2>2. CASE i > Len(put.keys)
    BY <1>3, <1>c, <1>d, <2>2 DEF RemoveFactor
  <2>3. CASE ~(i > Len(put.keys))
    BY <1>3, <1>c, <1>d, <2>1, <2>3 DEF RemoveFactor
  <2> QED BY <2>2, <2>3
<1>13. /\ fixed \in Pools(Location) /\ PoolOk(fixed) /\ fixed.id = locations.id
       /\ \A j \in RawKey : KeyStatus(fixed, j) = KeyStatus(locations, j)
       /\ IssuedHandles(fixed) = IssuedHandles(locations)
       /\ \A j \in RawKey : Resolves(locations, j) =>
            /\ PoolGet(fixed, j).batch_slot = EntryOf(j).batch_slot
            /\ PoolGet(fixed, j).dense_index = IF j = last THEN i ELSE EntryOf(j).dense_index
  <2>1. CASE i > Len(put.keys)
    <3>1. i = m /\ k = last /\ fixed = locations
      BY <1>1, <1>8, <1>b, <1>d, <2>1
    <3> QED BY <1>1, <1>3, <3>1 DEF PoolsFit, EntryOf
  <2>2. CASE ~(i > Len(put.keys))
    <3>1. PICK e : e = [EntryOf(last) EXCEPT !.dense_index = i]
      OBVIOUS
    <3>2. e \in Location /\ e.batch_slot = EntryOf(last).batch_slot /\ e.dense_index = i
      BY <1>1, <1>11, <3>1, EntryParts DEF Location
    <3>3. /\ fixed = PoolSet(locations, last, e) /\ locations \in Pools(Location) /\ PoolOk(locations)
      BY <1>1, <1>d, <2>2, <3>1 DEF EntryOf, PoolsFit
    <3>4. /\ fixed \in Pools(Location) /\ PoolOk(fixed)
          /\ fixed = [locations EXCEPT !.values = [@ EXCEPT ![PoolIndex(locations, last)] = e]]
      BY <1>11, <3>2, <3>3, PoolSetOk
    <3>5. fixed.id = locations.id
      BY <3>3, <3>4 DEF Pools
    <3>6. ASSUME NEW j \in RawKey
          PROVE  /\ KeyStatus(fixed, j) = KeyStatus(locations, j)
                 /\ Resolves(locations, j) =>
                      PoolGet(fixed, j) = IF j = last THEN e ELSE EntryOf(j)
      BY <1>11, <3>2, <3>3, SetLookup DEF Resolves, EntryOf
    <3>7. IssuedHandles(fixed) = IssuedHandles(locations)
      BY <1>11, <3>2, <3>3, SetIssues
    <3> QED BY <3>2, <3>4, <3>5, <3>6, <3>7
  <2> QED BY <2>1, <2>2
<1>14. /\ locations' \in Pools(Location) /\ PoolOk(locations') /\ locations'.id = locations.id
       /\ IssuedHandles(locations') = IssuedHandles(locations)
       /\ KeyStatus(locations', k) = "Stale"
       /\ \A j \in RawKey : j # k => KeyStatus(locations', j) = KeyStatus(locations, j)
       /\ \A j \in RawKey : Resolves(locations', j) <=> Resolves(locations, j) /\ j # k
       /\ \A j \in RawKey : Resolves(locations, j) /\ j # k =>
            /\ PoolGet(locations', j).batch_slot = EntryOf(j).batch_slot
            /\ PoolGet(locations', j).dense_index = IF j = last THEN i ELSE EntryOf(j).dense_index
  <2>1. Resolves(fixed, k)
    BY <1>3, <1>13 DEF Resolves
  <2>2. locations' \in Pools(Location) /\ PoolOk(locations')
    BY <1>3, <1>12, <1>13, <2>1, PoolRemoveOk
  <2>3. /\ KeyStatus(locations', k) = "Stale" /\ locations'.id = fixed.id
        /\ \A j \in RawKey : j # k =>
             /\ KeyStatus(locations', j) = KeyStatus(fixed, j)
             /\ Resolves(fixed, j) => PoolGet(locations', j) = PoolGet(fixed, j)
    BY <1>3, <1>12, <1>13, <2>1, RemoveLookup
  <2>4. \A j \in RawKey : Resolves(locations', j) <=> Resolves(locations, j) /\ j # k
    BY <1>13, <2>3 DEF Resolves
  <2>5. IssuedHandles(locations') = IssuedHandles(locations)
    BY <1>3, <1>12, <1>13, <2>1, RemoveIssues
  <2>6. \A j \in RawKey : Resolves(locations, j) /\ j # k =>
          PoolGet(locations', j) = PoolGet(fixed, j)
    BY <1>13, <2>3 DEF Resolves
  <2>7. \A j \in RawKey : j # k => KeyStatus(locations', j) = KeyStatus(locations, j)
    BY <1>13, <2>3
  <2> QED BY <1>13, <2>2, <2>3, <2>4, <2>5, <2>6, <2>7
<1>15. /\ NBatches' = NBatches
       /\ \A b \in 1..NBatches : SlotOf(b)' = SlotOf(b)
       /\ \A b \in 1..NBatches : b # n => /\ batches'.values[b] = batches.values[b]
                                          /\ KeysOf(b)' = KeysOf(b)
       /\ KeysOf(n)' = SwapRemove(KeysOf(n), i) /\ batches'.values[n] = put
  BY <1>1, <1>8, <1>10 DEF NBatches, SlotOf, KeysOf
<1>16. Len(KeysOf(n)') = m - 1 /\ \A b \in 1..NBatches : b # n => Places(b)' = Places(b)
  BY <1>5, <1>15 DEF Places
<1>17. \A b \in 1..NBatches : b # n => \A j \in Places(b) : HandleAt(b, j)' = HandleAt(b, j)
  BY <1>14, <1>15 DEF HandleAt, Raw
<1>18. \A j \in 1..(m - 1) : HandleAt(n, j)' = IF j = i THEN last ELSE HandleAt(n, j)
  BY <1>5, <1>14, <1>15, <1>b DEF HandleAt, Raw
<1>19. \A j \in 1..(m - 1) : j \in Places(n) /\ j # m
  BY <1>1, <1>a DEF Places
<1>20. Places(n)' = 1..(m - 1)
  BY <1>16 DEF Places
<1>21. PoolsFit'
  BY <1>1, <1>10, <1>14 DEF PoolsFit
<1>22. LengthsAgree'
  <2>1. ASSUME NEW b \in 1..NBatches
        PROVE  Len(KeysOf(b)') = Len(batches'.values[b].values) /\ Len(KeysOf(b)') <= Capacity
    <3>1. CASE b # n
      BY <1>15, <3>1 DEF Family, LengthsAgree
    <3>2. CASE b = n
      BY <1>1, <1>8, <1>15, <1>16, <3>2, PoolBounds
    <3> QED BY <3>1, <3>2
  <2> QED BY <1>15, <2>1 DEF LengthsAgree
<1>23. ASSUME NEW b \in 1..NBatches, NEW j \in Places(b)'
       PROVE  /\ HandleAt(b, j)' \in RawKey /\ HandleAt(b, j)' # k
              /\ Resolves(locations, HandleAt(b, j)')
              /\ EntryOf(HandleAt(b, j)').batch_slot = SlotOf(b)
              /\ PoolGet(locations', HandleAt(b, j)').dense_index = j
  <2>1. CASE b # n
    <3>1. j \in Places(b) /\ HandleAt(b, j)' = HandleAt(b, j)
      BY <1>16, <1>17, <2>1
    <3>2. HandleAt(b, j) # k /\ HandleAt(b, j) # last
      BY <1>11, <1>b, <2>1, <3>1, PlacesAreDistinct
    <3>3. /\ HandleAt(b, j) \in RawKey /\ Resolves(locations, HandleAt(b, j))
          /\ EntryOf(HandleAt(b, j)).batch_slot = SlotOf(b)
          /\ EntryOf(HandleAt(b, j)).dense_index = j
      BY <1>2, <3>1
    <3> QED BY <1>14, <3>1, <3>2, <3>3
  <2>2. CASE b = n /\ j # i
    <3>1. j \in Places(n) /\ j # m /\ HandleAt(n, j)' = HandleAt(n, j)
      BY <1>18, <1>19, <1>20, <2>2
    <3>2. HandleAt(n, j) # k /\ HandleAt(n, j) # last
      BY <1>11, <1>b, <2>2, <3>1, PlacesAreDistinct
    <3>3. /\ HandleAt(n, j) \in RawKey /\ Resolves(locations, HandleAt(n, j))
          /\ EntryOf(HandleAt(n, j)).batch_slot = SlotOf(n)
          /\ EntryOf(HandleAt(n, j)).dense_index = j
      BY <1>2, <3>1
    <3> QED BY <1>14, <2>2, <3>1, <3>2, <3>3
  <2>3. CASE b = n /\ j = i
    <3>1. i # m /\ HandleAt(n, j)' = last
      BY <1>18, <1>19, <1>20, <2>3
    <3>2. last # k
      BY <1>11, <1>b, <3>1, PlacesAreDistinct
    <3>3. EntryOf(last).batch_slot = SlotOf(n)
      BY <1>2, <1>11, <1>b
    <3> QED BY <1>11, <1>14, <2>3, <3>1, <3>2, <3>3
  <2> QED BY <2>1, <2>2, <2>3
<1>24. \A b \in 1..NBatches : \A j \in Places(b)' :
         /\ Resolves(locations', HandleAt(b, j)')
         /\ PoolGet(locations', HandleAt(b, j)').batch_slot = SlotOf(b)'
         /\ PoolGet(locations', HandleAt(b, j)').dense_index = j
  BY <1>14, <1>15, <1>23
<1>25. PayloadsAreListed' /\ AllAtHome'
  BY <1>15, <1>24 DEF PayloadsAreListed, AllAtHome, AtHome, HomeOf, EntryOf
<1>26. PayloadsAreDistinct'
  <2>1. ASSUME NEW b \in 1..NBatches, NEW x \in Places(b)', NEW y \in Places(b)',
               HandleAt(b, x)' = HandleAt(b, y)'
        PROVE  x = y
    BY <1>24, <2>1
  <2> QED BY <1>15, <2>1 DEF PayloadsAreDistinct
<1>27. EntriesArePacked'
  <2>1. ASSUME NEW j \in RawKey, Resolves(locations', j)
        PROVE  \E b \in 1..NBatches : \E x \in Places(b)' : HandleAt(b, x)' = j
    <3>1. Resolves(locations, j) /\ j # k
      BY <1>14, <2>1
    <3>2. PICK b \in 1..NBatches : \E x \in Places(b) : HandleAt(b, x) = j
      BY <3>1 DEF Family, EntriesArePacked
    <3>3. PICK x \in Places(b) : HandleAt(b, x) = j
      BY <3>2
    <3>4. CASE b # n
      BY <1>16, <1>17, <3>3, <3>4
    <3>5. CASE b = n /\ x # m
      <4>1. x \in 1..(m - 1) /\ x # i
        BY <1>1, <1>a, <3>1, <3>3, <3>5 DEF Places
      <4> QED BY <1>18, <1>20, <3>3, <3>5, <4>1
    <3>6. CASE b = n /\ x = m
      <4>1. i \in 1..(m - 1) /\ j = last
        BY <1>1, <1>b, <3>1, <3>3, <3>6
      <4> QED BY <1>18, <1>20, <4>1
    <3> QED BY <3>4, <3>5, <3>6
  <2> QED BY <1>15, <2>1 DEF EntriesArePacked
<1>28. Family'
  BY <1>21, <1>22, <1>25, <1>26, <1>27 DEF Family
<1>29. SameBatches
  BY <1>1, <1>7, <1>10, <1>15 DEF SameBatches
<1>30. \A j, e : Holds(j, e) /\ j # k => Holds(j, e)'
  <2>1. \A l \in 1..(m - 1) : put.values[l] = IF l = i THEN batches.values[n].values[m]
                                                ELSE batches.values[n].values[l]
    <3>1. \A l \in 1..(m - 1) : SwapRemove(batches.values[n].values, i)[l] =
            IF l = i THEN batches.values[n].values[m] ELSE batches.values[n].values[l]
      <4>1. PICK s : s = batches.values[n].values
        OBVIOUS
      <4>2. s \in Seq(FactorPayload) /\ i \in 1..Len(s) /\ Len(s) = m
        BY <1>1, <4>1
      <4>3. \A l \in 1..(Len(s) - 1) : SwapRemove(s, i)[l] = IF l = i THEN s[Len(s)] ELSE s[l]
        BY ONLY <4>2, SwapRemoveProperties
      <4> QED BY <4>1, <4>2, <4>3
    <3> QED BY <1>7, <3>1
  <2>2. \A b \in 1..NBatches : b # n => \A x \in Places(b) : HeldAt(b, x)' = HeldAt(b, x)
    BY <1>15 DEF HeldAt
  <2>3. \A x \in 1..(m - 1) : HeldAt(n, x)' = IF x = i THEN HeldAt(n, m) ELSE HeldAt(n, x)
    BY <1>7, <1>15, <2>1 DEF HeldAt
  <2>4. ASSUME NEW b \in 1..NBatches, NEW x \in Places(b), HandleAt(b, x) # k
        PROVE  \E y \in Places(b)' : HandleAt(b, y)' = HandleAt(b, x) /\ HeldAt(b, y)' = HeldAt(b, x)
    <3>1. CASE b # n
      BY <1>16, <1>17, <2>2, <3>1
    <3>2. CASE b = n /\ x # m
      <4>1. x \in 1..(m - 1) /\ x # i
        BY <1>1, <1>a, <2>4, <3>2 DEF Places
      <4> QED BY <1>18, <1>20, <2>3, <3>2, <4>1
    <3>3. CASE b = n /\ x = m
      <4>1. i \in 1..(m - 1)
        BY <1>1, <2>4, <3>3
      <4> QED BY <1>18, <1>20, <1>b, <2>3, <3>3, <4>1
    <3> QED BY <3>1, <3>2, <3>3
  <2>5. ASSUME NEW j, NEW e, Holds(j, e), j # k PROVE Holds(j, e)'
    <3>1. PICK b \in 1..NBatches : \E x \in Places(b) : HandleAt(b, x) = j /\ HeldAt(b, x) = e
      BY <2>5 DEF Holds
    <3>2. PICK x \in Places(b) : HandleAt(b, x) = j /\ HeldAt(b, x) = e
      BY <3>1
    <3>3. PICK y \in Places(b)' : HandleAt(b, y)' = j /\ HeldAt(b, y)' = e
      BY <2>4, <2>5, <3>2
    <3> QED BY <1>15, <3>3 DEF Holds
  <2> QED BY <2>5
<1> QED BY <1>3, <1>10, <1>14, <1>15, <1>16, <1>17, <1>18, <1>25, <1>28, <1>29, <1>30, <1>a, <1>b

(* Batches move or come and go empty, the directory is what it was. *)
LEMMA SamePayloadsKeepFamily ==
  ASSUME Family, AllAtHome, PoolsFit',
         \A j \in RawKey : /\ Resolves(locations', j) <=> Resolves(locations, j)
                           /\ Resolves(locations, j) => PoolGet(locations', j) = PoolGet(locations, j),
         \A b \in 1..NBatches' :
           \/ batches'.values[b].keys = <<>> /\ batches'.values[b].values = <<>>
           \/ \E c \in 1..NBatches : /\ batches'.values[b] = batches.values[c]
                                     /\ batches'.keys[b].slot = batches.keys[c].slot,
         \A c \in 1..NBatches : \/ KeysOf(c) = <<>>
                                \/ \E b \in 1..NBatches' : batches'.values[b] = batches.values[c]
  PROVE  Family' /\ AllAtHome' /\ (\A k, e : Holds(k, e) => Holds(k, e)')
<1>1. locations'.id = locations.id /\ PoolsFit
  BY DEF Family, PoolsFit
<1>2. ASSUME NEW b \in 1..NBatches', NEW c \in 1..NBatches, batches'.values[b] = batches.values[c]
      PROVE  /\ KeysOf(b)' = KeysOf(c) /\ Places(b)' = Places(c)
             /\ \A i \in Places(c) : HandleAt(b, i)' = HandleAt(c, i)
  BY <1>1, <1>2 DEF KeysOf, Places, HandleAt, Raw
<1>3. ASSUME NEW b \in 1..NBatches', NEW i \in Places(b)'
      PROVE  \E c \in 1..NBatches : /\ batches'.values[b] = batches.values[c]
                                    /\ SlotOf(b)' = SlotOf(c) /\ i \in Places(c)
  <2>1. batches'.values[b].keys # <<>>
    BY <1>3 DEF Places, KeysOf
  <2>2. PICK c \in 1..NBatches : /\ batches'.values[b] = batches.values[c]
                                 /\ batches'.keys[b].slot = batches.keys[c].slot
    BY <2>1
  <2> QED BY <1>2, <2>2 DEF SlotOf
<1>4. LengthsAgree'
  <2>1. ASSUME NEW b \in 1..NBatches'
        PROVE  Len(KeysOf(b)') = Len(batches'.values[b].values) /\ Len(KeysOf(b)') <= Capacity
    <3>1. CASE batches'.values[b].keys = <<>> /\ batches'.values[b].values = <<>>
      BY <3>1, PoolBounds DEF KeysOf
    <3>2. CASE \E c \in 1..NBatches : batches'.values[b] = batches.values[c]
      BY <3>2, <1>2 DEF Family, LengthsAgree
    <3> QED BY <3>1, <3>2
  <2> QED BY <2>1 DEF LengthsAgree
<1>5. ASSUME NEW b \in 1..NBatches', NEW i \in Places(b)'
      PROVE  /\ Resolves(locations', HandleAt(b, i)')
             /\ PoolGet(locations', HandleAt(b, i)').batch_slot = SlotOf(b)'
             /\ PoolGet(locations', HandleAt(b, i)').dense_index = i
  <2>1. PICK c \in 1..NBatches : /\ batches'.values[b] = batches.values[c]
                                 /\ SlotOf(b)' = SlotOf(c) /\ i \in Places(c)
    BY <1>3
  <2>2. HandleAt(b, i)' = HandleAt(c, i) /\ HandleAt(c, i) \in RawKey
    BY <1>1, <1>2, <2>1, HandlesAreRaw
  <2>3. /\ Resolves(locations, HandleAt(c, i))
        /\ PoolGet(locations, HandleAt(c, i)).batch_slot = SlotOf(c)
        /\ PoolGet(locations, HandleAt(c, i)).dense_index = i
    BY <2>1 DEF Family, PayloadsAreListed, AllAtHome, AtHome, HomeOf, EntryOf
  <2> QED BY <2>1, <2>2, <2>3
<1>6. PayloadsAreListed' /\ AllAtHome'
  BY <1>5 DEF PayloadsAreListed, AllAtHome, AtHome, HomeOf, EntryOf
<1>7. PayloadsAreDistinct'
  <2>1. ASSUME NEW b \in 1..NBatches', NEW x \in Places(b)', NEW y \in Places(b)',
               HandleAt(b, x)' = HandleAt(b, y)'
        PROVE  x = y
    BY <1>5, <2>1
  <2> QED BY <2>1 DEF PayloadsAreDistinct
<1>8. EntriesArePacked'
  <2>1. ASSUME NEW k \in RawKey, Resolves(locations', k)
        PROVE  \E b \in 1..NBatches' : \E i \in Places(b)' : HandleAt(b, i)' = k
    <3>1. PICK c \in 1..NBatches : \E i \in Places(c) : HandleAt(c, i) = k
      BY <2>1 DEF Family, EntriesArePacked
    <3>2. PICK i \in Places(c) : HandleAt(c, i) = k
      BY <3>1
    <3>3. KeysOf(c) # <<>>
      BY <3>2 DEF Places
    <3>4. PICK b \in 1..NBatches' : batches'.values[b] = batches.values[c]
      BY <3>3
    <3> QED BY <1>2, <3>2, <3>4
  <2> QED BY <2>1 DEF EntriesArePacked
<1>9. ASSUME NEW k, NEW e, Holds(k, e) PROVE Holds(k, e)'
  <2>1. PICK c \in 1..NBatches : \E i \in Places(c) : HandleAt(c, i) = k /\ HeldAt(c, i) = e
    BY <1>9 DEF Holds
  <2>2. PICK i \in Places(c) : HandleAt(c, i) = k /\ HeldAt(c, i) = e
    BY <2>1
  <2>3. KeysOf(c) # <<>>
    BY <2>2 DEF Places
  <2>4. PICK b \in 1..NBatches' : batches'.values[b] = batches.values[c]
    BY <2>3
  <2>5. i \in Places(b)' /\ HandleAt(b, i)' = k /\ HeldAt(b, i)' = e
    BY <1>2, <2>2, <2>4 DEF HeldAt
  <2> QED BY <2>5 DEF Holds
<1>10. Family' /\ AllAtHome'
  BY <1>4, <1>6, <1>7, <1>8 DEF Family
<1> QED BY <1>9, <1>10

(* insert_batch. *)
LEMMA InsertBatchKeepsFamily ==
  ASSUME Family, AllAtHome, NEW v \in Batch, v.keys = <<>>, v.values = <<>>,
         CanReserve(batches, 1), batches' = PoolInsert(batches, v), locations' = locations
  PROVE  Family' /\ AllAtHome' /\ (\A k, e : Holds(k, e) => Holds(k, e)')
<1>1. PICK q, k, n : /\ q = batches' /\ k = NextKey(batches) /\ n = Len(batches.values) + 1
                     /\ Inserted(Batch, batches, v, q, k, n)
  BY PoolInsertFields DEF Family, PoolsFit
<1>2. /\ q \in Pools(Batch) /\ q.id = batches.id /\ n \in Nat \ {0} /\ NBatches = n - 1
      /\ Len(q.values) = n /\ q.values[n] = v
      /\ \A j \in 1..(n - 1) : q.values[j] = batches.values[j] /\ q.keys[j] = batches.keys[j]
  BY <1>1 DEF Inserted, NBatches
<1>3. PoolOk(q)
  BY <1>1, PoolInsertOk DEF Family, PoolsFit
<1>4. PoolsFit'
  BY <1>1, <1>2, <1>3 DEF Family, PoolsFit
<1>5. NBatches' = n
  BY <1>1, <1>2 DEF NBatches
<1>6. \A b \in 1..NBatches' :
           \/ batches'.values[b].keys = <<>> /\ batches'.values[b].values = <<>>
           \/ \E c \in 1..NBatches : /\ batches'.values[b] = batches.values[c]
                                     /\ batches'.keys[b].slot = batches.keys[c].slot
  <2>1. ASSUME NEW b \in 1..n
        PROVE  b = n \/ b \in 1..(n - 1)
    BY <1>2
  <2> QED BY <1>1, <1>2, <1>5, <2>1
<1>7. \A c \in 1..NBatches : \E b \in 1..NBatches' : batches'.values[b] = batches.values[c]
  BY <1>1, <1>2, <1>5
<1> QED BY <1>4, <1>6, <1>7, SamePayloadsKeepFamily

(* remove_empty: the last batch fills the gap. *)
LEMMA RemoveEmptyKeepsFamily ==
  ASSUME Family, AllAtHome, NEW h \in RawKey, Resolves(batches, h),
         PoolGet(batches, h).values = <<>>, batches' = PoolRemove(batches, h), locations' = locations
  PROVE  Family' /\ AllAtHome' /\ (\A k, e : Holds(k, e) => Holds(k, e)')
<1>1. PICK q, i, n : /\ q = batches' /\ i = PoolIndex(batches, h) /\ n = Len(batches.values)
                     /\ Removed(Batch, batches, h, q, i, n)
  BY PoolRemoveFields DEF Family, PoolsFit
<1>2. /\ q \in Pools(Batch) /\ q.id = batches.id /\ n \in Nat \ {0} /\ NBatches = n /\ i \in 1..n
      /\ Len(q.values) = n - 1
      /\ \A j \in 1..(n - 1) : /\ q.values[j] = IF j = i THEN batches.values[n] ELSE batches.values[j]
                               /\ q.keys[j] = IF j = i THEN batches.keys[n] ELSE batches.keys[j]
  BY <1>1 DEF Removed, NBatches
<1>3. PoolOk(q)
  BY <1>1, PoolRemoveOk DEF Family, PoolsFit
<1>4. PoolsFit'
  BY <1>1, <1>2, <1>3 DEF Family, PoolsFit
<1>5. NBatches' = n - 1
  BY <1>1, <1>2 DEF NBatches
<1>6. KeysOf(i) = <<>>
  <2>1. batches.values[i].values = <<>>
    BY <1>1 DEF PoolGet
  <2>2. Len(KeysOf(i)) = 0
    BY <1>2, <2>1 DEF Family, LengthsAgree
  <2>3. KeysOf(i) \in Seq(LocalKey)
    BY <1>2, BatchParts DEF Family
  <2> QED BY <2>2, <2>3, EmptySeq
<1>7. \A b \in 1..NBatches' :
           \E c \in 1..NBatches : /\ batches'.values[b] = batches.values[c]
                                  /\ batches'.keys[b].slot = batches.keys[c].slot
  <2>1. ASSUME NEW b \in 1..(n - 1)
        PROVE  \E c \in 1..n : /\ batches'.values[b] = batches.values[c]
                               /\ batches'.keys[b].slot = batches.keys[c].slot
    <3>1. n \in 1..n /\ b \in 1..n
      BY <1>2
    <3> QED BY <1>1, <1>2, <3>1
  <2> QED BY <1>2, <1>5, <2>1
<1>8. \A c \in 1..NBatches : \/ KeysOf(c) = <<>>
                             \/ \E b \in 1..NBatches' : batches'.values[b] = batches.values[c]
  <2>1. ASSUME NEW c \in 1..n, c # i
        PROVE  \E b \in 1..(n - 1) : batches'.values[b] = batches.values[c]
    <3>1. CASE c = n
      <4>1. i \in 1..(n - 1)
        BY <1>2, <2>1, <3>1
      <4> QED BY <1>1, <1>2, <3>1, <4>1
    <3>2. CASE c # n
      <4>1. c \in 1..(n - 1)
        BY <1>2, <2>1, <3>2
      <4> QED BY <1>1, <1>2, <2>1, <4>1
    <3> QED BY <3>1, <3>2
  <2> QED BY <1>2, <1>5, <1>6, <2>1
<1> QED BY <1>4, <1>7, <1>8, SamePayloadsKeepFamily

(* reserve and reserve_factors. *)
LEMMA ReserveKeepsFamily ==
  ASSUME Family, AllAtHome, NEW n \in Nat,
         \/ batches' = PoolReserve(batches, n) /\ locations' = locations
         \/ batches' = batches /\ locations' = PoolReserve(locations, n)
  PROVE  Family' /\ AllAtHome' /\ (\A k, e : Holds(k, e) => Holds(k, e)')
<1>1. /\ batches \in Pools(Batch) /\ PoolOk(batches)
      /\ locations \in Pools(Location) /\ PoolOk(locations)
      /\ batches.id = BatchesId /\ locations.id = LocationsId
  BY DEF Family, PoolsFit
<1>2. CASE batches' = PoolReserve(batches, n) /\ locations' = locations
  <2>1. PICK q : q = batches'
    OBVIOUS
  <2>2. /\ q \in Pools(Batch) /\ PoolOk(q) /\ q = [batches EXCEPT !.free_capacity = q.free_capacity]
    BY <1>1, <1>2, <2>1, PoolReserveOk
  <2>3. q.id = batches.id /\ q.values = batches.values /\ q.keys = batches.keys
    BY <1>1, <2>2 DEF Pools
  <2>4. PoolsFit'
    BY <1>1, <1>2, <2>1, <2>2, <2>3 DEF PoolsFit
  <2>5. NBatches' = NBatches
    BY <2>1, <2>3 DEF NBatches
  <2> QED BY <1>2, <2>1, <2>3, <2>4, <2>5, SamePayloadsKeepFamily
<1>3. CASE batches' = batches /\ locations' = PoolReserve(locations, n)
  <2>1. PICK q : q = locations'
    OBVIOUS
  <2>2. /\ q \in Pools(Location) /\ PoolOk(q)
        /\ q = [locations EXCEPT !.free_capacity = q.free_capacity]
    BY <1>1, <1>3, <2>1, PoolReserveOk
  <2>3. q.id = locations.id
    BY <1>1, <2>2 DEF Pools
  <2>4. \A j : KeyStatus(q, j) = KeyStatus(locations, j) /\ PoolGet(q, j) = PoolGet(locations, j)
    BY <1>1, <1>3, <2>1, ReserveLookup
  <2>5. PoolsFit'
    BY <1>1, <1>3, <2>1, <2>2, <2>3 DEF PoolsFit
  <2>6. \A j \in RawKey :
          /\ Resolves(locations', j) <=> Resolves(locations, j)
          /\ Resolves(locations, j) => PoolGet(locations', j) = PoolGet(locations, j)
    BY <2>1, <2>4 DEF Resolves
  <2>7. NBatches' = NBatches
    BY <1>3 DEF NBatches
  <2> QED BY <1>3, <2>5, <2>6, <2>7, SamePayloadsKeepFamily
<1> QED BY <1>2, <1>3

(* One swap of a packed selection: the directory does not notice it. *)
LEMMA SwapKeepsFamily ==
  ASSUME Family, NEW n \in 1..NBatches, NEW x \in Places(n), NEW y \in Places(n),
         batches' = SwapPayloads(n, x, y), locations' = locations
  PROVE  /\ Family'
         /\ NBatches' = NBatches /\ batches'.keys = batches.keys /\ SameBatches
         /\ \A k, e : Holds(k, e) => Holds(k, e)'
         /\ \A b \in 1..NBatches :
              /\ Places(b)' = Places(b) /\ Len(KeysOf(b)') = Len(KeysOf(b))
              /\ b # n => \A i \in Places(b) : /\ HandleAt(b, i)' = HandleAt(b, i)
                                               /\ HomeOf(b, i)' = HomeOf(b, i)
         /\ \A i \in Places(n) :
              /\ HandleAt(n, i)' = IF i = y THEN HandleAt(n, x)
                                   ELSE IF i = x THEN HandleAt(n, y) ELSE HandleAt(n, i)
              /\ HomeOf(n, i)' = IF i = y THEN HomeOf(n, x)
                                 ELSE IF i = x THEN HomeOf(n, y) ELSE HomeOf(n, i)
<1>a. PICK m : m = Len(KeysOf(n))
  OBVIOUS
<1>b. PICK old : old = batches.values[n]
  OBVIOUS
<1>c. PICK put : put = [old EXCEPT !.values = SwapIn(@, x, y), !.keys = SwapIn(@, x, y)]
  OBVIOUS
<1>1. /\ PoolsFit /\ m \in Nat /\ x \in 1..m /\ y \in 1..m /\ m <= Capacity
      /\ old \in Batch /\ old.keys = KeysOf(n)
      /\ KeysOf(n) \in Seq(LocalKey) /\ old.values \in Seq(FactorPayload)
      /\ Len(old.values) = m /\ old.model \in Model
  BY <1>a, <1>b, BatchParts DEF Family, LengthsAgree, Places, KeysOf
<1>2. /\ SwapIn(KeysOf(n), x, y) \in Seq(LocalKey) /\ Len(SwapIn(KeysOf(n), x, y)) = m
      /\ \A i \in 1..m : SwapIn(KeysOf(n), x, y)[i] =
           IF i = y THEN KeysOf(n)[x] ELSE IF i = x THEN KeysOf(n)[y] ELSE KeysOf(n)[i]
  <2>1. PICK s : s = KeysOf(n)
    OBVIOUS
  <2>2. s \in Seq(LocalKey) /\ x \in 1..Len(s) /\ y \in 1..Len(s) /\ Len(s) = m
    BY <1>1, <1>a, <2>1
  <2>3. SwapIn(s, x, y) \in Seq(LocalKey) /\ Len(SwapIn(s, x, y)) = Len(s)
    BY <2>2, SwapInProperties
  <2>4. ASSUME NEW i \in 1..Len(s)
        PROVE  SwapIn(s, x, y)[i] = IF i = y THEN s[x] ELSE IF i = x THEN s[y] ELSE s[i]
    <3>1. DOMAIN s = 1..Len(s)
      BY <2>2
    <3> QED BY <2>2, <2>4, <3>1 DEF SwapIn
  <2> QED BY <2>1, <2>2, <2>3, <2>4
<1>3. SwapIn(old.values, x, y) \in Seq(FactorPayload) /\ Len(SwapIn(old.values, x, y)) = m
  <2>1. PICK s : s = old.values
    OBVIOUS
  <2>2. s \in Seq(FactorPayload) /\ x \in 1..Len(s) /\ y \in 1..Len(s) /\ Len(s) = m
    BY <1>1, <2>1
  <2>3. SwapIn(s, x, y) \in Seq(FactorPayload) /\ Len(SwapIn(s, x, y)) = Len(s)
    BY ONLY <2>2, SwapInProperties
  <2> QED BY <2>1, <2>2, <2>3
<1>4. put = [model |-> old.model, values |-> SwapIn(old.values, x, y),
             keys |-> SwapIn(KeysOf(n), x, y)]
  BY <1>1, <1>c DEF Batch
<1>5. /\ put \in Batch /\ put.keys = SwapIn(KeysOf(n), x, y) /\ Len(put.keys) = m
      /\ Len(put.values) = m
  BY <1>1, <1>2, <1>3, <1>4 DEF Batch
<1>6. batches' = WithBatch(n, put)
  <2>1. batches \in Pools(Batch) /\ batches.values \in Seq(Batch) /\ n \in 1..Len(batches.values)
    BY <1>1, PoolTypes DEF PoolsFit, NBatches
  <2> QED BY <1>b, <1>c, <2>1 DEF SwapPayloads, WithBatch, Pools
<1>7. /\ batches' \in Pools(Batch) /\ batches'.id = batches.id /\ PoolOk(batches')
      /\ batches'.keys = batches.keys /\ Len(batches'.values) = NBatches
      /\ batches'.slots = batches.slots /\ batches'.free_slots = batches.free_slots
      /\ batches'.values = [batches.values EXCEPT ![n] = put]
  BY <1>1, <1>5, <1>6, BatchReplaced
<1>8. /\ NBatches' = NBatches
      /\ \A b \in 1..NBatches : SlotOf(b)' = SlotOf(b)
      /\ \A b \in 1..NBatches : b # n => /\ batches'.values[b] = batches.values[b]
                                         /\ KeysOf(b)' = KeysOf(b)
      /\ KeysOf(n)' = SwapIn(KeysOf(n), x, y) /\ batches'.values[n] = put
  BY <1>1, <1>5, <1>7 DEF NBatches, SlotOf, KeysOf
<1>9. \A b \in 1..NBatches : Places(b)' = Places(b) /\ Len(KeysOf(b)') = Len(KeysOf(b))
  BY <1>2, <1>8, <1>a DEF Places
<1>10. \A b \in 1..NBatches : b # n => \A i \in Places(b) : HandleAt(b, i)' = HandleAt(b, i)
  BY <1>8 DEF HandleAt
<1>11. \A i \in Places(n) : HandleAt(n, i)' = IF i = y THEN HandleAt(n, x)
                               ELSE IF i = x THEN HandleAt(n, y) ELSE HandleAt(n, i)
  BY <1>2, <1>8, <1>a DEF HandleAt, Places
<1>12. PoolsFit'
  BY <1>1, <1>7 DEF PoolsFit
<1>13. LengthsAgree'
  <2>1. ASSUME NEW b \in 1..NBatches
        PROVE  Len(KeysOf(b)') = Len(batches'.values[b].values) /\ Len(KeysOf(b)') <= Capacity
    <3>1. CASE b # n
      BY <1>8, <3>1 DEF Family, LengthsAgree
    <3>2. CASE b = n
      BY <1>1, <1>5, <1>8, <3>2
    <3> QED BY <3>1, <3>2
  <2> QED BY <1>8, <2>1 DEF LengthsAgree
<1>14. \A k : EntryOf(k)' = EntryOf(k)
  BY DEF EntryOf
<1>15. ASSUME NEW b \in 1..NBatches, NEW i \in Places(b)
       PROVE  \E j \in Places(b) : HandleAt(b, i)' = HandleAt(b, j)
  <2>1. CASE b # n
    BY <1>10, <2>1
  <2>2. CASE b = n
    BY <1>11, <2>2
  <2> QED BY <2>1, <2>2
<1>16. PayloadsAreListed'
  <2>1. ASSUME NEW b \in 1..NBatches, NEW i \in Places(b)
        PROVE  /\ Resolves(locations, HandleAt(b, i)')
               /\ PoolGet(locations, HandleAt(b, i)').batch_slot = SlotOf(b)
    BY <1>15 DEF Family, PayloadsAreListed, EntryOf
  <2> QED BY <1>8, <1>9, <2>1 DEF PayloadsAreListed, EntryOf
<1>17. PayloadsAreDistinct'
  <2>1. ASSUME NEW b \in 1..NBatches, NEW i \in Places(b), NEW j \in Places(b),
               HandleAt(b, i)' = HandleAt(b, j)'
        PROVE  i = j
    <3>1. CASE b # n
      BY <1>10, <2>1, <3>1 DEF Family, PayloadsAreDistinct
    <3>2. CASE b = n
      <4>1. \A k, l \in Places(n) : HandleAt(n, k) = HandleAt(n, l) => k = l
        BY DEF Family, PayloadsAreDistinct
      <4> QED BY <1>11, <2>1, <3>2, <4>1
    <3> QED BY <3>1, <3>2
  <2> QED BY <1>8, <1>9, <2>1 DEF PayloadsAreDistinct
<1>18. EntriesArePacked'
  <2>1. ASSUME NEW k \in RawKey, Resolves(locations, k)
        PROVE  \E b \in 1..NBatches : \E i \in Places(b) : HandleAt(b, i)' = k
    <3>1. PICK b \in 1..NBatches : \E i \in Places(b) : HandleAt(b, i) = k
      BY <2>1 DEF Family, EntriesArePacked
    <3>2. PICK i \in Places(b) : HandleAt(b, i) = k
      BY <3>1
    <3>3. CASE b # n
      BY <1>10, <3>2, <3>3
    <3>4. CASE b = n
      <4>1. PICK j \in Places(n) : j = IF i = x THEN y ELSE IF i = y THEN x ELSE i
        BY <3>4
      <4>2. HandleAt(n, j)' = k
        BY <1>11, <3>2, <3>4, <4>1
      <4> QED BY <4>2
    <3> QED BY <3>3, <3>4
  <2> QED BY <1>8, <1>9, <2>1 DEF EntriesArePacked
<1>19. \A i \in Places(n) : HomeOf(n, i)' = IF i = y THEN HomeOf(n, x)
                              ELSE IF i = x THEN HomeOf(n, y) ELSE HomeOf(n, i)
  <2>1. ASSUME NEW i \in Places(n) PROVE HomeOf(n, i)' = EntryOf(HandleAt(n, i)').dense_index
    BY <1>14 DEF HomeOf, EntryOf
  <2> QED BY <1>11, <2>1 DEF HomeOf
<1>20. \A b \in 1..NBatches : b # n => \A i \in Places(b) : HomeOf(b, i)' = HomeOf(b, i)
  BY <1>10, <1>14 DEF HomeOf, EntryOf
<1>21. Family'
  BY <1>12, <1>13, <1>16, <1>17, <1>18 DEF Family
<1>22. SameBatches
  BY <1>1, <1>4, <1>7, <1>8, <1>b DEF SameBatches
<1>23. /\ \A b \in 1..NBatches : b # n => \A i \in Places(b) : HeldAt(b, i)' = HeldAt(b, i)
       /\ \A i \in Places(n) : HeldAt(n, i)' = IF i = y THEN HeldAt(n, x)
                                 ELSE IF i = x THEN HeldAt(n, y) ELSE HeldAt(n, i)
  <2>1. \A i \in 1..m : put.values[i] = IF i = y THEN old.values[x]
                                         ELSE IF i = x THEN old.values[y] ELSE old.values[i]
    <3>1. DOMAIN old.values = 1..m
      BY <1>1
    <3> QED BY <1>1, <1>4, <3>1 DEF SwapIn
  <2>2. put.model = old.model
    BY <1>4
  <2> QED BY <1>1, <1>8, <1>a, <1>b, <2>1, <2>2 DEF HeldAt, Places
<1>24. ASSUME NEW b \in 1..NBatches, NEW i \in Places(b)
       PROVE  \E j \in Places(b)' : HandleAt(b, j)' = HandleAt(b, i) /\ HeldAt(b, j)' = HeldAt(b, i)
  <2>1. CASE b # n
    BY <1>9, <1>10, <1>23, <2>1
  <2>2. CASE b = n
    <3>1. PICK j \in Places(n) : j = IF i = x THEN y ELSE IF i = y THEN x ELSE i
      BY <2>2
    <3> QED BY <1>9, <1>11, <1>23, <2>2, <3>1
  <2> QED BY <2>1, <2>2
<1>25. ASSUME NEW k, NEW e, Holds(k, e) PROVE Holds(k, e)'
  <2>1. PICK b \in 1..NBatches : \E i \in Places(b) : HandleAt(b, i) = k /\ HeldAt(b, i) = e
    BY <1>25 DEF Holds
  <2>2. PICK i \in Places(b) : HandleAt(b, i) = k /\ HeldAt(b, i) = e
    BY <2>1
  <2>3. PICK j \in Places(b)' : HandleAt(b, j)' = k /\ HeldAt(b, j)' = e
    BY <1>24, <2>2
  <2> QED BY <1>8, <2>3 DEF Holds
<1> QED BY <1>7, <1>8, <1>9, <1>10, <1>11, <1>19, <1>20, <1>21, <1>22, <1>25

-----------------------------------------------------------------------------
(* Every action keeps the invariant.                                       *)
LEMMA AllIsAtHome ==
  ASSUME IInv, ~InSelection
  PROVE  AllAtHome /\ Family
BY DEF IInv, OthersAtHome, AllAtHome, Selecting, InSelection

LEMMA IdleSuffices ==
  ASSUME Family', AllAtHome', PassFits', pass'.mode = "idle"
  PROVE  IInv'
<1>1. ~InSelection' /\ pass'.mode # "remove" /\ pass'.mode \notin {"pack", "evaluate"}
  BY DEF InSelection
<1>2. OthersAtHome'
  BY DEF OthersAtHome, AllAtHome
<1>3. RemovalFits' /\ RemovalIsThorough' /\ SelectionFits' /\ SwapsAreLogged' /\ SelectionIsPacked'
  BY <1>1 DEF RemovalFits, RemovalIsThorough, SelectionFits, SwapsAreLogged, SelectionIsPacked
<1> QED BY <1>2, <1>3 DEF IInv

LEMMA InitIInv == Init => IInv
<1> SUFFICES ASSUME Init PROVE IInv
  OBVIOUS
<1>1. PoolsFit
  BY EmptyPoolOk, FamilyIdentity DEF Init, PoolsFit, EmptyPool
<1>2. NBatches = 0 /\ 1..NBatches = {} /\ Len(locations.slots) = 0
  BY DEF Init, NBatches, EmptyPool
<1>3. \A k \in RawKey : ~Resolves(locations, k)
  <2>1. \A k \in RawKey : k.slot \in Nat \ {0}
    BY PoolBounds DEF RawKey
  <2> QED BY <1>2, <2>1 DEF Resolves, KeyStatus
<1>4. Family
  BY <1>1, <1>2, <1>3
     DEF Family, LengthsAgree, PayloadsAreListed, PayloadsAreDistinct, EntriesArePacked
<1>5. OthersAtHome
  BY <1>2 DEF OthersAtHome
<1>6. PassFits
  BY PoolBounds DEF Init, NoPass, PassFits, Mode, Outcome
<1>7. RemovalFits /\ RemovalIsThorough /\ SelectionFits /\ SwapsAreLogged /\ SelectionIsPacked
  BY DEF Init, NoPass, RemovalFits, RemovalIsThorough, SelectionFits, SwapsAreLogged,
         SelectionIsPacked, InSelection
<1> QED BY <1>4, <1>5, <1>6, <1>7 DEF IInv

(* The calls made between passes. *)
LEMMA IdleKeepsIInv ==
  ASSUME IInv, Idle, Family', AllAtHome', UNCHANGED pass,
         reply'.to \in {"factors", "batches", "caller"}
  PROVE  IInv'
<1>1. PassFits' /\ pass'.mode = "idle"
  BY DEF IInv, PassFits, Idle
<1> QED BY <1>1, IdleSuffices

LEMMA NothingKeepsFamily ==
  ASSUME Family, AllAtHome, UNCHANGED <<batches, locations>>
  PROVE  Family' /\ AllAtHome'
<1>1. Family'
  BY DEF Family, PoolsFit, LengthsAgree, PayloadsAreListed, PayloadsAreDistinct, EntriesArePacked,
         HandleAt, EntryOf, SlotOf, NBatches, Places, KeysOf
<1>2. AllAtHome'
  BY DEF AllAtHome, AtHome, HomeOf, HandleAt, EntryOf, NBatches, Places, KeysOf
<1> QED BY <1>1, <1>2

LEMMA BatchCallKeepsIInv ==
  ASSUME IInv,
         \/ \E m \in Model : InsertBatch(m)
         \/ \E n \in ReserveSizes : ReserveBatches(n)
         \/ \E b \in BatchHandles : ReadModel(b) \/ RemoveEmpty(b) \/ RefuseBatch(b)
  PROVE  IInv'
<1>1. Idle /\ UNCHANGED pass /\ reply'.to \in {"factors", "batches", "caller"}
  <2>1. ASSUME NEW m \in Model, InsertBatch(m)
        PROVE  Idle /\ UNCHANGED pass /\ (\E what : ToBatches(what))
    BY <2>1 DEF InsertBatch
  <2>2. ASSUME NEW n \in ReserveSizes, ReserveBatches(n)
        PROVE  Idle /\ UNCHANGED pass /\ (\E what : ToCaller(what))
    BY <2>2 DEF ReserveBatches
  <2>3. ASSUME NEW b \in BatchHandles, ReadModel(b) \/ RemoveEmpty(b) \/ RefuseBatch(b)
        PROVE  Idle /\ UNCHANGED pass /\ (\E what : ToBatches(what) \/ ToCaller(what))
    BY <2>3 DEF ReadModel, RemoveEmpty, RefuseBatch
  <2>4. Idle /\ UNCHANGED pass /\ (\E what : ToBatches(what) \/ ToCaller(what))
    BY <2>1, <2>2, <2>3
  <2> QED BY <2>4 DEF ToBatches, ToCaller
<1>2. Family /\ AllAtHome
  BY <1>1, AllIsAtHome DEF Idle, InSelection
<1>3. ASSUME NEW m \in Model, InsertBatch(m)
      PROVE  Family' /\ AllAtHome'
  <2>1. PICK v : v = [model |-> m, values |-> <<>>, keys |-> <<>>]
    OBVIOUS
  <2>2. v \in Batch /\ v.keys = <<>> /\ v.values = <<>>
    BY <2>1 DEF Batch
  <2>3. CASE CanReserve(batches, 1)
    <3>1. batches' = PoolInsert(batches, v) /\ locations' = locations
      BY <1>3, <2>1, <2>3 DEF InsertBatch
    <3> QED BY <1>2, <2>2, <2>3, <3>1, InsertBatchKeepsFamily
  <2>4. CASE ~CanReserve(batches, 1)
    <3>1. UNCHANGED <<batches, locations>>
      BY <1>3, <2>4 DEF InsertBatch
    <3> QED BY <1>2, <3>1, NothingKeepsFamily
  <2> QED BY <2>3, <2>4
<1>4. ASSUME NEW n \in ReserveSizes, ReserveBatches(n)
      PROVE  Family' /\ AllAtHome'
  <2>1. n \in Nat /\ locations' = locations
    BY <1>4, FamilyIdentity DEF ReserveBatches
  <2>2. batches' = PoolReserve(batches, n) \/ batches' = batches
    BY <1>4 DEF ReserveBatches
  <2> QED BY <1>2, <2>1, <2>2, ReserveKeepsFamily, NothingKeepsFamily
<1>5. ASSUME NEW b \in BatchHandles, ReadModel(b) \/ RefuseBatch(b)
      PROVE  Family' /\ AllAtHome'
  <2>1. UNCHANGED <<batches, locations>>
    BY <1>5 DEF ReadModel, RefuseBatch
  <2> QED BY <1>2, <2>1, NothingKeepsFamily
<1>6. ASSUME NEW b \in BatchHandles, RemoveEmpty(b)
      PROVE  Family' /\ AllAtHome'
  <2>1. b \in RawKey /\ Resolves(batches, b) /\ locations' = locations
    BY <1>6, FamilyIdentity DEF RemoveEmpty, BatchHandles, IssuedHandles
  <2>2. CASE PoolGet(batches, b).values = <<>>
    <3>1. batches' = PoolRemove(batches, b)
      BY <1>6, <2>2 DEF RemoveEmpty
    <3> QED BY <1>2, <2>1, <2>2, <3>1, RemoveEmptyKeepsFamily
  <2>3. CASE PoolGet(batches, b).values # <<>>
    <3>1. UNCHANGED <<batches, locations>>
      BY <1>6, <2>3 DEF RemoveEmpty
    <3> QED BY <1>2, <3>1, NothingKeepsFamily
  <2> QED BY <2>2, <2>3
<1>7. Family' /\ AllAtHome'
  BY <1>3, <1>4, <1>5, <1>6
<1> QED BY <1>1, <1>7, IdleKeepsIInv

LEMMA FactorCallKeepsIInv ==
  ASSUME IInv,
         \/ \E b \in BatchHandles : \/ \E n \in ReserveSizes : ReserveFactors(b, n)
                                    \/ \E v \in FactorPayload : InsertInto(b, v)
         \/ \E k \in FactorHandles : FactorCost(k) \/ RefuseFactor(k) \/ RemoveOne(k)
  PROVE  IInv'
<1>1. Idle /\ UNCHANGED pass /\ reply'.to \in {"factors", "batches", "caller"}
  <2>1. ASSUME NEW b \in BatchHandles, NEW n \in ReserveSizes, ReserveFactors(b, n)
        PROVE  Idle /\ UNCHANGED pass /\ (\E what : ToCaller(what))
    BY <2>1 DEF ReserveFactors
  <2>2. ASSUME NEW b \in BatchHandles, NEW v \in FactorPayload, InsertInto(b, v)
        PROVE  Idle /\ UNCHANGED pass /\ (\E what : ToFactors(what))
    BY <2>2 DEF InsertInto
  <2>3. ASSUME NEW k \in FactorHandles, FactorCost(k) \/ RefuseFactor(k) \/ RemoveOne(k)
        PROVE  Idle /\ UNCHANGED pass /\ (\E what : ToFactors(what) \/ ToCaller(what))
    BY <2>3 DEF FactorCost, RefuseFactor, RemoveOne
  <2>4. Idle /\ UNCHANGED pass /\ (\E what : ToFactors(what) \/ ToCaller(what))
    BY <2>1, <2>2, <2>3
  <2> QED BY <2>4 DEF ToFactors, ToCaller
<1>2. Family /\ AllAtHome
  BY <1>1, AllIsAtHome DEF Idle, InSelection
<1>3. ASSUME NEW b \in BatchHandles, NEW n \in ReserveSizes, ReserveFactors(b, n)
      PROVE  Family' /\ AllAtHome'
  <2>1. n \in Nat /\ batches' = batches
    BY <1>3, FamilyIdentity DEF ReserveFactors
  <2>2. locations' = PoolReserve(locations, n) \/ locations' = locations
    BY <1>3 DEF ReserveFactors
  <2> QED BY <1>2, <2>1, <2>2, ReserveKeepsFamily, NothingKeepsFamily
<1>4. ASSUME NEW b \in BatchHandles, NEW v \in FactorPayload, InsertInto(b, v)
      PROVE  Family' /\ AllAtHome'
  <2>1. b \in RawKey /\ Resolves(batches, b)
    BY <1>4, FamilyIdentity DEF InsertInto, BatchHandles, IssuedHandles
  <2>2. CASE CanReserve(locations, 1)
    <3>1. /\ locations' = PoolInsert(locations, [batch_slot  |-> b.slot,
                                                 dense_index |-> Len(PoolGet(batches, b).values) + 1])
          /\ batches' = PoolSet(batches, b, [PoolGet(batches, b) EXCEPT
                                               !.values = Append(@, v),
                                               !.keys   = Append(@, NextKey(locations))])
      BY <1>4, <2>2 DEF InsertInto
    <3> QED BY <1>2, <2>1, <2>2, <3>1, InsertIntoKeepsFamily
  <2>3. CASE ~CanReserve(locations, 1)
    <3>1. UNCHANGED <<batches, locations>>
      BY <1>4, <2>3 DEF InsertInto
    <3> QED BY <1>2, <3>1, NothingKeepsFamily
  <2> QED BY <2>2, <2>3
<1>5. ASSUME NEW k \in FactorHandles, FactorCost(k) \/ RefuseFactor(k)
      PROVE  Family' /\ AllAtHome'
  <2>1. UNCHANGED <<batches, locations>>
    BY <1>5 DEF FactorCost, RefuseFactor
  <2> QED BY <1>2, <2>1, NothingKeepsFamily
<1>6. ASSUME NEW k \in FactorHandles, RemoveOne(k)
      PROVE  Family' /\ AllAtHome'
  <2>1. k \in RawKey /\ Resolves(locations, k) /\ RemoveFactor(k)
    BY <1>6, FamilyIdentity DEF RemoveOne, FactorHandles, IssuedHandles
  <2>2. PICK n \in 1..NBatches : \E i \in Places(n) : HandleAt(n, i) = k
    BY <1>2, <2>1 DEF Family, EntriesArePacked
  <2>3. PICK i \in Places(n) : HandleAt(n, i) = k
    BY <2>2
  <2> QED BY <1>2, <2>1, <2>3, RemoveFactorKeepsFamily
<1>7. Family' /\ AllAtHome'
  BY <1>3, <1>4, <1>5, <1>6
<1> QED BY <1>1, <1>7, IdleKeepsIInv

-----------------------------------------------------------------------------
(* remove_selected. *)

(* When every batch has been seen no selected handle resolves. *)
LEMMA SeenAllRemovedAll ==
  ASSUME Family, NEW ids \in SUBSET RawKey,
         \A b \in 1..NBatches : \A i \in Places(b) : HandleAt(b, i) \notin ids
  PROVE  \A k \in ids : ~Resolves(locations, k)
BY DEF Family, EntriesArePacked

LEMMA EnterRemovalKeepsIInv ==
  ASSUME IInv, ~InSelection, NEW ids \in SUBSET RawKey, NEW n \in 1..(NBatches + 1),
         EnterRemoval(ids, n), UNCHANGED <<batches, locations>>, ToCaller("ok"),
         \A b \in 1..NBatches : b < n => \A i \in Places(b) : HandleAt(b, i) \notin ids
  PROVE  IInv'
<1>1. Family /\ AllAtHome /\ Family' /\ AllAtHome'
  BY AllIsAtHome, NothingKeepsFamily
<1>2. /\ NBatches' = NBatches /\ NBatches \in Nat /\ NBatches <= Capacity /\ n \in Nat
      /\ \A b : KeysOf(b)' = KeysOf(b) /\ Places(b)' = Places(b)
      /\ \A b, i : HandleAt(b, i)' = HandleAt(b, i)
      /\ \A k : Resolves(locations', k) <=> Resolves(locations, k)
  <2>1. NBatches \in Nat /\ NBatches <= Capacity
    BY <1>1, PoolTypes DEF Family, PoolsFit, PoolOk, SizesAgree, NBatches
  <2> QED BY <2>1 DEF NBatches, KeysOf, Places, HandleAt
<1>3. n <= NBatches => Len(KeysOf(n)) \in 0..Capacity
  BY <1>1, <1>2, BatchParts, PoolBounds DEF Family, LengthsAgree
<1>4. /\ pass'.mode = "remove" /\ pass'.ids = ids /\ pass'.batch = n
      /\ pass'.index = IF n <= NBatches THEN Len(KeysOf(n)) ELSE 0
      /\ pass'.count = 0 /\ pass'.swaps = <<>> /\ pass'.undo = 0 /\ pass'.outcome = "ok"
      /\ pass' = [mode |-> "remove", ids |-> ids, batch |-> n, index |-> pass'.index,
                  count |-> 0, swaps |-> <<>>, undo |-> 0, outcome |-> "ok"]
  BY DEF EnterRemoval, NoPass, NBatches
<1>5. PassFits'
  <2>1. pass'.index \in 0..(Capacity + 1) /\ n \in 0..(Capacity + 1)
    BY <1>2, <1>3, <1>4, PoolBounds
  <2>2. pass' \in [mode : Mode, ids : SUBSET RawKey, batch : 0..(Capacity + 1),
               index : 0..(Capacity + 1), count : 0..Capacity,
               swaps : Seq((1..Capacity) \X (1..Capacity)), undo : 0..Capacity,
               outcome : Outcome]
    <3>1. <<>> \in Seq((1..Capacity) \X (1..Capacity)) /\ 0 \in 0..Capacity
      BY PoolBounds
    <3>2. "remove" \in Mode /\ "ok" \in Outcome
      BY DEF Mode, Outcome
    <3> QED BY <1>4, <2>1, <3>1, <3>2
  <2>3. reply'.to = "caller"
    BY DEF ToCaller
  <2> QED BY <2>2, <2>3 DEF PassFits
<1>6. ~InSelection' /\ OthersAtHome'
  BY <1>1, <1>4 DEF InSelection, OthersAtHome, AllAtHome
<1>7. SelectionFits' /\ SwapsAreLogged' /\ SelectionIsPacked'
  BY <1>4, <1>6 DEF SelectionFits, SwapsAreLogged, SelectionIsPacked
<1>8. RemovalFits'
  BY <1>2, <1>3, <1>4 DEF RemovalFits
<1>9. ASSUME NEW b \in 1..NBatches, NEW i \in Places(b), HandleAt(b, i) \in ids
      PROVE  b > n \/ (b = n /\ i <= pass'.index)
  <2>1. ~(b < n)
    BY <1>9
  <2> QED BY <1>2, <1>3, <1>4, <2>1 DEF Places
<1>10. n > NBatches => \A k \in ids : ~Resolves(locations, k)
  BY <1>1, <1>2, SeenAllRemovedAll
<1>11. RemovalIsThorough'
  <2>1. \A b \in 1..NBatches : \A i \in 1..Len(KeysOf(b)) :
          Raw(locations, KeysOf(b)[i]) \in ids => b > n \/ (b = n /\ i <= pass'.index)
    BY <1>9 DEF Places, HandleAt
  <2> QED BY <1>2, <1>4, <1>10, <2>1 DEF RemovalIsThorough, NBatches
<1> QED BY <1>1, <1>5, <1>6, <1>7, <1>8, <1>11 DEF IInv

LEMMA BeginRemovalKeepsIInv ==
  ASSUME IInv, NEW ids \in SUBSET IssuedHandles(locations), BeginRemoval(ids)
  PROVE  IInv'
<1>1. ~InSelection /\ ids \in SUBSET RawKey
  BY DEF BeginRemoval, Idle, InSelection, IssuedHandles
<1>2. NBatches \in Nat
  BY PoolTypes DEF IInv, Family, PoolsFit, NBatches
<1>3. 1 \in 1..(NBatches + 1) /\ \A b \in 1..NBatches : ~(b < 1)
  BY <1>2
<1> QED BY <1>1, <1>3, EnterRemovalKeepsIInv DEF BeginRemoval

LEMMA RemovalNextBatchKeepsIInv ==
  ASSUME IInv, RemovalNextBatch
  PROVE  IInv'
<1>1. /\ pass.mode = "remove" /\ pass.index = 0 /\ pass.batch <= NBatches
      /\ pass.ids \in SUBSET RawKey /\ pass.batch \in 1..(NBatches + 1)
      /\ NBatches \in Nat /\ ~InSelection /\ Family
  BY PoolTypes DEF RemovalNextBatch, NBatches, IInv, PassFits, RemovalFits, InSelection, Family,
     PoolsFit
<1>2. ASSUME NEW b \in 1..NBatches, b < pass.batch + 1, NEW i \in Places(b)
      PROVE  HandleAt(b, i) \notin pass.ids
  <2>1. HandleAt(b, i) \in pass.ids => b > pass.batch \/ (b = pass.batch /\ i <= pass.index)
    BY <1>1 DEF IInv, RemovalIsThorough, Places, HandleAt, NBatches
  <2>2. ~(i <= 0)
    BY <1>1, BatchParts DEF Family, Places
  <2> QED BY <1>1, <1>2, <2>1, <2>2
<1>3. pass.batch + 1 \in 1..(NBatches + 1)
  BY <1>1
<1>4. EnterRemoval(pass.ids, pass.batch + 1) /\ UNCHANGED <<batches, locations>> /\ ToCaller("ok")
  BY DEF RemovalNextBatch
<1> QED BY <1>1, <1>2, <1>3, <1>4, EnterRemovalKeepsIInv

LEMMA RemovalEndKeepsIInv ==
  ASSUME IInv, RemovalEnd
  PROVE  IInv'
<1>1. ~InSelection
  BY DEF RemovalEnd, InSelection
<1>2. Family' /\ AllAtHome'
  BY <1>1, AllIsAtHome, NothingKeepsFamily DEF RemovalEnd
<1>3. PassFits' /\ pass'.mode = "idle"
  BY PoolBounds DEF RemovalEnd, NoPass, PassFits, Mode, Outcome, ToCaller
<1> QED BY <1>2, <1>3, IdleSuffices

LEMMA RemovalStepKeepsIInv ==
  ASSUME IInv, RemovalStep
  PROVE  IInv'
<1>a. PICK n : n = pass.batch
  OBVIOUS
<1>b. PICK x : x = pass.index
  OBVIOUS
<1>c. PICK ids : ids = pass.ids
  OBVIOUS
<1>d. PICK m : m = Len(KeysOf(n))
  OBVIOUS
<1>1. /\ pass.mode = "remove" /\ x > 0 /\ ~InSelection /\ Family /\ AllAtHome
      /\ n \in 1..(NBatches + 1) /\ NBatches \in Nat /\ x \in 0..(Capacity + 1)
  BY <1>a, <1>b, AllIsAtHome, PoolTypes
     DEF RemovalStep, InSelection, IInv, PassFits, RemovalFits, Family, PoolsFit, NBatches
<1>2. n \in 1..NBatches /\ m \in Nat /\ x \in 1..m /\ x \in Places(n)
  <2>1. n \in 1..NBatches
    BY <1>1, <1>a, <1>b DEF IInv, RemovalFits
  <2>2. x <= m /\ m \in Nat
    BY <1>1, <2>1, <1>a, <1>b, <1>d, BatchParts DEF IInv, RemovalFits, Family
  <2> QED BY <1>1, <1>d, <2>1, <2>2, PoolBounds DEF Places
<1>3. PICK k : k = HandleAt(n, x)
  OBVIOUS
<1>4. \A b \in 1..NBatches : \A i \in Places(b) :
        HandleAt(b, i) \in ids => b > n \/ (b = n /\ i <= x)
  BY <1>1, <1>a, <1>b, <1>c DEF IInv, RemovalIsThorough, Places, HandleAt, NBatches
<1>5. /\ pass' = [pass EXCEPT !.index = @ - 1]
      /\ IF k \in ids THEN RemoveFactor(k) ELSE UNCHANGED <<batches, locations>>
      /\ ToCaller("ok")
  BY <1>3, <1>a, <1>b, <1>c DEF RemovalStep, HandleAt
<1>6. /\ pass'.mode = "remove" /\ pass'.ids = ids /\ pass'.batch = n /\ pass'.index = x - 1
      /\ PassFits'
  <2>1. /\ pass \in [mode : Mode, ids : SUBSET RawKey, batch : 0..(Capacity + 1),
               index : 0..(Capacity + 1), count : 0..Capacity,
               swaps : Seq((1..Capacity) \X (1..Capacity)), undo : 0..Capacity,
               outcome : Outcome]
    BY DEF IInv, PassFits
  <2>2. x - 1 \in 0..(Capacity + 1)
    BY <1>1, PoolBounds
  <2>3. /\ pass' \in [mode : Mode, ids : SUBSET RawKey, batch : 0..(Capacity + 1),
               index : 0..(Capacity + 1), count : 0..Capacity,
               swaps : Seq((1..Capacity) \X (1..Capacity)), undo : 0..Capacity,
               outcome : Outcome]
        /\ pass'.mode = "remove" /\ pass'.ids = ids /\ pass'.batch = n /\ pass'.index = x - 1
    BY <1>1, <1>5, <1>a, <1>b, <1>c, <2>1, <2>2
  <2>4. reply'.to = "caller"
    BY <1>5 DEF ToCaller
  <2> QED BY <2>3, <2>4 DEF PassFits
<1>7. /\ Family' /\ AllAtHome' /\ NBatches' = NBatches
      /\ Len(KeysOf(n)') \in Nat /\ x - 1 <= Len(KeysOf(n)')
      /\ \A b \in 1..NBatches : \A i \in Places(b)' :
           HandleAt(b, i)' \in ids => b > n \/ (b = n /\ i <= x - 1)
  <2>1. CASE k \notin ids
    <3>1. UNCHANGED <<batches, locations>>
      BY <1>5, <2>1
    <3>2. Family' /\ AllAtHome' /\ NBatches' = NBatches /\ Len(KeysOf(n)') = m
      BY <1>1, <1>d, <3>1, NothingKeepsFamily DEF NBatches, KeysOf
    <3>3. \A b, i : Places(b)' = Places(b) /\ HandleAt(b, i)' = HandleAt(b, i)
      BY <3>1 DEF Places, HandleAt, KeysOf
    <3>4. ASSUME NEW b \in 1..NBatches, NEW i \in Places(b), HandleAt(b, i) \in ids
          PROVE  b > n \/ (b = n /\ i <= x - 1)
      <4>1. b > n \/ (b = n /\ i <= x)
        BY <1>4, <3>4
      <4>2. i \in Nat
        BY <1>1, BatchParts DEF Family, Places
      <4>3. b = n => i # x
        BY <1>3, <2>1, <3>4
      <4> QED BY <1>1, <4>1, <4>2, <4>3
    <3>5. Len(KeysOf(n)') \in Nat /\ x - 1 <= Len(KeysOf(n)')
      BY <1>2, <3>2
    <3>6. \A b \in 1..NBatches : \A i \in Places(b)' :
            HandleAt(b, i)' \in ids => b > n \/ (b = n /\ i <= x - 1)
      BY <3>3, <3>4
    <3> QED BY <3>2, <3>5, <3>6
  <2>2. CASE k \in ids
    <3>1. /\ Family' /\ AllAtHome' /\ NBatches' = NBatches
          /\ \A b \in 1..NBatches : b # n => /\ KeysOf(b)' = KeysOf(b)
                                             /\ \A j \in Places(b) : HandleAt(b, j)' = HandleAt(b, j)
          /\ Len(KeysOf(n)') = m - 1
          /\ \A j \in 1..(m - 1) : HandleAt(n, j)' = IF j = x THEN HandleAt(n, m) ELSE HandleAt(n, j)
      <4>1. RemoveFactor(k)
        BY <1>5, <2>2
      <4> QED BY <1>1, <1>2, <1>3, <1>d, <4>1, RemoveFactorKeepsFamily
    <3>2. ASSUME NEW b \in 1..NBatches, NEW i \in Places(b)', HandleAt(b, i)' \in ids
          PROVE  b > n \/ (b = n /\ i <= x - 1)
      <4>1. CASE b # n
        BY <1>4, <3>1, <3>2, <4>1 DEF Places
      <4>2. CASE b = n
        <5>1. i \in 1..(m - 1) /\ i \in Places(n) /\ m \in Places(n)
          BY <1>2, <1>d, <3>1, <3>2, <4>2 DEF Places
        <5>2. CASE i = x
          <6>1. HandleAt(n, m) \in ids
            BY <3>1, <3>2, <4>2, <5>1, <5>2
          <6>2. m <= x
            BY <1>2, <1>4, <5>1, <6>1
          <6> QED BY <1>2, <5>1, <5>2, <6>2
        <5>3. CASE i # x
          <6>1. HandleAt(n, i) \in ids
            BY <3>1, <3>2, <4>2, <5>1, <5>3
          <6>2. i <= x
            BY <1>2, <1>4, <5>1, <6>1
          <6> QED BY <1>2, <4>2, <5>1, <5>3, <6>2
        <5> QED BY <5>2, <5>3
      <4> QED BY <4>1, <4>2
    <3> QED BY <1>2, <3>1, <3>2
  <2> QED BY <2>1, <2>2
<1>8. ~InSelection' /\ OthersAtHome'
  BY <1>6, <1>7 DEF InSelection, OthersAtHome, AllAtHome
<1>9. SelectionFits' /\ SwapsAreLogged' /\ SelectionIsPacked'
  BY <1>6, <1>8 DEF SelectionFits, SwapsAreLogged, SelectionIsPacked
<1>10. RemovalFits'
  <2>1. n <= NBatches' /\ ~(n > NBatches') /\ n \in 1..(NBatches' + 1)
    BY <1>1, <1>2, <1>7
  <2> QED BY <1>6, <1>7, <2>1 DEF RemovalFits
<1>11. RemovalIsThorough'
  <2>1. \A b \in 1..NBatches' : \A i \in 1..Len(KeysOf(b)') :
          Raw(locations, KeysOf(b)[i])' \in ids => b > n \/ (b = n /\ i <= x - 1)
    BY <1>7 DEF Places, HandleAt
  <2>2. ~(n > NBatches')
    BY <1>1, <1>2, <1>7
  <2> QED BY <1>6, <2>1, <2>2 DEF RemovalIsThorough, NBatches
<1> QED BY <1>6, <1>7, <1>8, <1>9, <1>10, <1>11 DEF IInv

-----------------------------------------------------------------------------
(* with_selected. *)
PassRecord == [mode : Mode, ids : SUBSET RawKey, batch : 0..(Capacity + 1),
               index : 0..(Capacity + 1), count : 0..Capacity,
               swaps : Seq((1..Capacity) \X (1..Capacity)), undo : 0..Capacity,
               outcome : Outcome]

LEMMA NoPassFits == NoPass \in PassRecord
<1>1. <<>> \in Seq((1..Capacity) \X (1..Capacity)) /\ 0 \in 0..Capacity /\ 0 \in 0..(Capacity + 1)
  BY PoolBounds
<1>2. "idle" \in Mode /\ "ok" \in Outcome
  BY DEF Mode, Outcome
<1> QED BY <1>1, <1>2 DEF NoPass, PassRecord

LEMMA TurnToKeepsIInv ==
  ASSUME IInv, AllAtHome, NEW ids \in SUBSET RawKey, NEW n \in Nat \ {0},
         TurnTo(ids, n), UNCHANGED <<batches, locations>>, reply'.to = "caller"
  PROVE  IInv'
<1>1. Family /\ Family' /\ AllAtHome'
  BY NothingKeepsFamily DEF IInv
<1>2. CASE ~(n <= NBatches)
  <2>1. pass' = NoPass
    BY <1>2 DEF TurnTo, NBatches
  <2>2. PassFits' /\ pass'.mode = "idle"
    BY <2>1, NoPassFits DEF PassFits, PassRecord, NoPass
  <2> QED BY <1>1, <2>2, IdleSuffices
<1>3. CASE n <= NBatches
  <2>1. /\ n \in 1..NBatches /\ NBatches \in Nat /\ NBatches <= Capacity
        /\ Len(KeysOf(n)) \in Nat /\ n \in 0..(Capacity + 1)
    <3>1. NBatches \in Nat /\ NBatches <= Capacity
      BY <1>1, PoolTypes DEF Family, PoolsFit, PoolOk, SizesAgree, NBatches
    <3> QED BY <1>1, <1>3, <3>1, BatchParts, PoolBounds DEF Family
  <2>2. /\ NBatches' = NBatches
        /\ \A b : KeysOf(b)' = KeysOf(b) /\ Places(b)' = Places(b)
        /\ \A b, i : HandleAt(b, i)' = HandleAt(b, i)
        /\ \A b, i : HomeOf(b, i)' = HomeOf(b, i)
    BY DEF NBatches, KeysOf, Places, HandleAt, HomeOf, EntryOf
  <2>3. pass' = [mode |-> "pack", ids |-> ids, batch |-> n, index |-> 1,
                 count |-> 0, swaps |-> <<>>, undo |-> 0, outcome |-> "ok"]
    BY <1>3 DEF TurnTo, NoPass, NBatches
  <2>4. pass' \in PassRecord
    <3>1. <<>> \in Seq((1..Capacity) \X (1..Capacity)) /\ 0 \in 0..Capacity /\ 1 \in 0..(Capacity + 1)
      BY PoolBounds
    <3>2. "pack" \in Mode /\ "ok" \in Outcome
      BY DEF Mode, Outcome
    <3> QED BY <2>1, <2>3, <3>1, <3>2 DEF PassRecord
  <2>5. PassFits'
    BY <2>4 DEF PassFits, PassRecord
  <2>6. OthersAtHome'
    BY <1>1 DEF OthersAtHome, AllAtHome
  <2>7. RemovalFits' /\ RemovalIsThorough'
    BY <2>3 DEF RemovalFits, RemovalIsThorough
  <2>8. SelectionFits'
    <3>1. Len(pass'.swaps) = 0 /\ 1..Len(pass'.swaps) = {}
      BY <2>3
    <3> QED BY <2>1, <2>2, <2>3, <3>1 DEF SelectionFits
  <2>9. \A i \in Places(n) : HomeOf(n, i) = i /\ i \in Nat \ {0}
    BY <2>1 DEF AllAtHome, AtHome, Places
  <2>10. SwapsAreLogged'
    <3>1. PICK H : H = [j \in 0..0 |-> [i \in Places(n) |-> i]]
      OBVIOUS
    <3>2. /\ Homes' = [i \in Places(n) |-> i] /\ InEffect' = 0 /\ Len(pass'.swaps) = 0
          /\ 0 \in 0..0 /\ 1..0 = {}
      BY <2>2, <2>3, <2>9 DEF Homes, InEffect
    <3>3. H \in Arrangements'
      BY <2>2, <2>3, <3>1, <3>2 DEF Arrangements
    <3>4. Logged(H)'
      BY <2>2, <2>3, <3>1, <3>2 DEF Logged
    <3> QED BY <3>3, <3>4 DEF SwapsAreLogged
  <2>11. SelectionIsPacked'
    <3>1. \A i \in Places(n) : ~(i < 1)
      BY <2>9
    <3>2. /\ \A i \in Places(n) : i >= 1 => HomeOf(n, i)' = i
          /\ 1..0 = {}
      BY <2>2, <2>9
    <3> QED BY <2>2, <2>3, <3>1, <3>2 DEF SelectionIsPacked
  <2> QED BY <1>1, <2>5, <2>6, <2>7, <2>8, <2>10, <2>11 DEF IInv
<1> QED BY <1>2, <1>3

LEMMA BeginSelectionKeepsIInv ==
  ASSUME IInv, NEW ids \in SUBSET IssuedHandles(locations), BeginSelection(ids)
  PROVE  IInv'
<1>1. AllAtHome /\ ids \in SUBSET RawKey
  BY AllIsAtHome DEF BeginSelection, Idle, InSelection, IssuedHandles
<1>2. TurnTo(ids, 1) /\ UNCHANGED <<batches, locations>> /\ reply'.to = "caller" /\ 1 \in Nat \ {0}
  BY DEF BeginSelection, ToCaller
<1> QED BY <1>1, <1>2, TurnToKeepsIInv

(* What the invariant says of a packed batch. *)
LEMMA PackedBatch ==
  ASSUME IInv, InSelection
  PROVE  /\ Family /\ PoolsFit /\ pass \in PassRecord /\ pass.batch \in 1..NBatches
         /\ pass.count \in 0..Capacity /\ pass.index \in 0..(Capacity + 1)
         /\ pass.undo \in 0..Capacity
         /\ pass.swaps \in Seq((1..Capacity) \X (1..Capacity)) /\ Len(pass.swaps) \in Nat
         /\ Len(KeysOf(pass.batch)) \in Nat /\ Len(KeysOf(pass.batch)) <= Capacity
         /\ pass.count < pass.index /\ pass.index <= Len(KeysOf(pass.batch)) + 1
         /\ Len(pass.swaps) <= pass.count
         /\ \A j \in 1..Len(pass.swaps) : /\ pass.swaps[j][1] \in Places(pass.batch)
                                          /\ pass.swaps[j][2] \in Places(pass.batch)
         /\ \E H \in Arrangements : Logged(H)
         /\ pass.mode # "remove" /\ pass.mode # "idle"
<1>1. /\ Family /\ PoolsFit /\ pass \in PassRecord /\ pass.batch \in 1..NBatches
  BY DEF IInv, Family, PassFits, PassRecord, SelectionFits
<1>2. /\ pass.count \in 0..Capacity /\ pass.index \in 0..(Capacity + 1)
      /\ pass.undo \in 0..Capacity
      /\ pass.swaps \in Seq((1..Capacity) \X (1..Capacity))
  BY <1>1 DEF PassRecord
<1>3. Len(KeysOf(pass.batch)) \in Nat /\ Len(KeysOf(pass.batch)) <= Capacity
  BY <1>1, BatchParts DEF Family, LengthsAgree
<1>4. pass.mode # "remove" /\ pass.mode # "idle"
  BY DEF InSelection
<1>5. Len(pass.swaps) \in Nat
  BY <1>2
<1>6. /\ pass.count < pass.index /\ pass.index <= Len(KeysOf(pass.batch)) + 1
      /\ Len(pass.swaps) <= pass.count
      /\ \A j \in 1..Len(pass.swaps) : /\ pass.swaps[j][1] \in Places(pass.batch)
                                       /\ pass.swaps[j][2] \in Places(pass.batch)
  BY DEF IInv, SelectionFits
<1>7. \E H \in Arrangements : Logged(H)
  BY DEF IInv, SwapsAreLogged
<1> QED BY <1>1, <1>2, <1>3, <1>4, <1>5, <1>6, <1>7

LEMMA RestoredKeepsIInv ==
  ASSUME IInv, Restored
  PROVE  IInv'
<1>1. pass.mode = "restore" /\ pass.undo = 0 /\ InSelection
  BY DEF Restored, InSelection
<1>2. PICK H \in Arrangements : Logged(H)
  BY <1>1, PackedBatch
<1>3. AllAtHome
  <2>1. Homes = [i \in Places(pass.batch) |-> i]
    BY <1>1, <1>2 DEF Logged, InEffect
  <2>2. AtHome(pass.batch)
    BY <2>1 DEF AtHome, Homes
  <2>3. ASSUME NEW b \in 1..NBatches, b # pass.batch PROVE AtHome(b)
    BY <2>3 DEF IInv, OthersAtHome, Selecting
  <2> QED BY <2>2, <2>3 DEF AllAtHome
<1>4. UNCHANGED <<batches, locations>> /\ reply'.to = "caller"
  BY DEF Restored, ToCaller
<1>5. CASE pass.outcome = "ok"
  <2>1. TurnTo(pass.ids, pass.batch + 1)
    BY <1>5 DEF Restored
  <2>2. pass.ids \in SUBSET RawKey /\ pass.batch + 1 \in Nat \ {0}
    BY <1>1, PackedBatch DEF PassRecord
  <2> QED BY <1>3, <1>4, <2>1, <2>2, TurnToKeepsIInv
<1>6. CASE pass.outcome # "ok"
  <2>1. pass' = NoPass
    BY <1>6 DEF Restored
  <2>2. PassFits' /\ pass'.mode = "idle"
    BY <1>4, <2>1, NoPassFits DEF PassFits, PassRecord, NoPass
  <2>3. Family' /\ AllAtHome'
    BY <1>3, <1>4, NothingKeepsFamily DEF IInv
  <2> QED BY <2>2, <2>3, IdleSuffices
<1> QED BY <1>5, <1>6

(* The steps of a selection that move no payload. *)
LEMMA StillSelected ==
  ASSUME IInv, InSelection, UNCHANGED <<batches, locations>>, InSelection',
         pass'.batch = pass.batch, pass'.swaps = pass.swaps, pass'.ids = pass.ids,
         InEffect' = InEffect, PassFits', SelectionFits', SelectionIsPacked'
  PROVE  IInv'
<1>1. /\ NBatches' = NBatches
      /\ \A b : KeysOf(b)' = KeysOf(b) /\ Places(b)' = Places(b)
      /\ \A b, i : HandleAt(b, i)' = HandleAt(b, i)
      /\ \A b, i : HomeOf(b, i)' = HomeOf(b, i)
  BY DEF NBatches, KeysOf, Places, HandleAt, HomeOf, EntryOf
<1>2. Family'
  BY DEF IInv, Family, PoolsFit, LengthsAgree, PayloadsAreListed, PayloadsAreDistinct,
         EntriesArePacked, HandleAt, EntryOf, SlotOf, NBatches, Places, KeysOf
<1>3. OthersAtHome'
  <2>1. ASSUME NEW b \in 1..NBatches, b # pass.batch PROVE AtHome(b)
    BY <2>1 DEF IInv, OthersAtHome, Selecting
  <2>2. ASSUME NEW b \in 1..NBatches, ~Selecting(b)' PROVE AtHome(b)'
    <3>1. b # pass.batch
      BY <2>2 DEF Selecting, InSelection
    <3> QED BY <1>1, <2>1, <3>1 DEF AtHome
  <2> QED BY <1>1, <2>2 DEF OthersAtHome
<1>4. RemovalFits' /\ RemovalIsThorough'
  BY DEF InSelection, RemovalFits, RemovalIsThorough
<1>5. SwapsAreLogged'
  <2>1. PICK H \in Arrangements : Logged(H)
    BY PackedBatch
  <2>2. Arrangements' = Arrangements /\ Homes' = Homes
    BY <1>1 DEF Arrangements, Homes
  <2>3. Logged(H)'
    BY <1>1, <2>1, <2>2 DEF Logged
  <2> QED BY <2>1, <2>2, <2>3 DEF SwapsAreLogged
<1> QED BY <1>2, <1>3, <1>4, <1>5 DEF IInv

LEMMA PackedKeepsIInv ==
  ASSUME IInv, Packed
  PROVE  IInv'
<1>1. /\ pass.mode = "pack" /\ InSelection /\ pass.index > Len(KeysOf(pass.batch))
      /\ UNCHANGED <<batches, locations>> /\ reply'.to = "caller"
      /\ pass' = [pass EXCEPT !.mode = IF pass.count > 0 THEN "evaluate" ELSE "restore",
                              !.undo = Len(pass.swaps)]
  BY DEF Packed, InSelection, ToCaller
<1>2. /\ pass \in PassRecord /\ pass.batch \in 1..NBatches
      /\ Len(pass.swaps) \in Nat /\ Len(pass.swaps) <= pass.count /\ pass.count \in 0..Capacity
  BY <1>1, PackedBatch
<1>3. /\ pass'.mode = (IF pass.count > 0 THEN "evaluate" ELSE "restore")
      /\ pass'.undo = Len(pass.swaps) /\ pass'.batch = pass.batch /\ pass'.swaps = pass.swaps
      /\ pass'.ids = pass.ids /\ pass'.index = pass.index /\ pass'.count = pass.count
      /\ pass' \in PassRecord
  <2>1. Len(pass.swaps) \in 0..Capacity
    BY <1>2, PoolBounds
  <2>2. "evaluate" \in Mode /\ "restore" \in Mode
    BY DEF Mode
  <2> QED BY <1>1, <1>2, <2>1, <2>2 DEF PassRecord
<1>4. PassFits' /\ InSelection' /\ InEffect' = InEffect
  BY <1>1, <1>3 DEF PassFits, PassRecord, InSelection, InEffect
<1>5. /\ NBatches' = NBatches
      /\ \A b : KeysOf(b)' = KeysOf(b) /\ Places(b)' = Places(b)
      /\ \A b, i : HandleAt(b, i)' = HandleAt(b, i)
      /\ \A b, i : HomeOf(b, i)' = HomeOf(b, i)
  BY <1>1 DEF NBatches, KeysOf, Places, HandleAt, HomeOf, EntryOf
<1>6. SelectionFits'
  BY <1>1, <1>2, <1>3, <1>5 DEF IInv, SelectionFits
<1>7. SelectionIsPacked'
  BY <1>1, <1>3, <1>5 DEF IInv, SelectionIsPacked
<1> QED BY <1>1, <1>3, <1>4, <1>6, <1>7, StillSelected

LEMMA EvaluateKeepsIInv ==
  ASSUME IInv, NEW o \in Outcome, Evaluate(o)
  PROVE  IInv'
<1>1. /\ pass.mode = "evaluate" /\ InSelection
      /\ UNCHANGED <<batches, locations>> /\ reply'.to = "caller"
      /\ pass' = [pass EXCEPT !.mode = "restore", !.outcome = o]
  BY DEF Evaluate, InSelection, ToCaller
<1>2. /\ pass \in PassRecord /\ pass.undo = Len(pass.swaps) /\ Len(pass.swaps) \in Nat
  BY <1>1, PackedBatch DEF IInv, SelectionFits
<1>3. /\ pass'.mode = "restore"
      /\ pass'.undo = pass.undo /\ pass'.batch = pass.batch /\ pass'.swaps = pass.swaps
      /\ pass'.ids = pass.ids /\ pass'.index = pass.index /\ pass'.count = pass.count
      /\ pass' \in PassRecord
  <2>1. "restore" \in Mode
    BY DEF Mode
  <2> QED BY <1>1, <1>2, <2>1 DEF PassRecord
<1>4. PassFits' /\ InSelection' /\ InEffect' = InEffect
  BY <1>1, <1>2, <1>3 DEF PassFits, PassRecord, InSelection, InEffect
<1>5. NBatches' = NBatches /\ \A b : KeysOf(b)' = KeysOf(b) /\ Places(b)' = Places(b)
  BY <1>1 DEF NBatches, KeysOf, Places
<1>6. SelectionFits'
  BY <1>1, <1>2, <1>3, <1>5 DEF IInv, SelectionFits
<1>7. SelectionIsPacked'
  BY <1>3 DEF SelectionIsPacked
<1> QED BY <1>1, <1>3, <1>4, <1>6, <1>7, StillSelected

(* The steps of a selection that swap two payloads. *)
LEMMA SwapInSelection ==
  ASSUME IInv, InSelection, InSelection', pass'.batch = pass.batch,
         NEW x \in Places(pass.batch), NEW y \in Places(pass.batch),
         batches' = SwapPayloads(pass.batch, x, y), locations' = locations
  PROVE  /\ Family' /\ OthersAtHome' /\ RemovalFits' /\ RemovalIsThorough'
         /\ NBatches' = NBatches
         /\ Places(pass.batch)' = Places(pass.batch)
         /\ Len(KeysOf(pass.batch)') = Len(KeysOf(pass.batch))
         /\ Homes' = SwapIn(Homes, x, y)
         /\ \A i \in Places(pass.batch) :
              /\ HandleAt(pass.batch, i)' = IF i = y THEN HandleAt(pass.batch, x)
                                            ELSE IF i = x THEN HandleAt(pass.batch, y)
                                            ELSE HandleAt(pass.batch, i)
              /\ HomeOf(pass.batch, i)' = IF i = y THEN HomeOf(pass.batch, x)
                                          ELSE IF i = x THEN HomeOf(pass.batch, y)
                                          ELSE HomeOf(pass.batch, i)
<1>a. PICK n : n = pass.batch
  OBVIOUS
<1>1. n \in 1..NBatches /\ Family /\ x \in Places(n) /\ y \in Places(n) /\ pass'.batch = n
  BY <1>a, PackedBatch
<1>2. /\ Family'
      /\ NBatches' = NBatches /\ batches'.keys = batches.keys
      /\ \A b \in 1..NBatches :
           /\ Places(b)' = Places(b) /\ Len(KeysOf(b)') = Len(KeysOf(b))
           /\ b # n => \A i \in Places(b) : /\ HandleAt(b, i)' = HandleAt(b, i)
                                            /\ HomeOf(b, i)' = HomeOf(b, i)
      /\ \A i \in Places(n) :
           /\ HandleAt(n, i)' = IF i = y THEN HandleAt(n, x)
                                ELSE IF i = x THEN HandleAt(n, y) ELSE HandleAt(n, i)
           /\ HomeOf(n, i)' = IF i = y THEN HomeOf(n, x)
                              ELSE IF i = x THEN HomeOf(n, y) ELSE HomeOf(n, i)
  <2>1. batches' = SwapPayloads(n, x, y)
    BY <1>a
  <2> QED BY <1>1, <2>1, SwapKeepsFamily
<1>3. OthersAtHome'
  <2>1. ASSUME NEW b \in 1..NBatches, b # n PROVE AtHome(b)
    BY <2>1, <1>a DEF IInv, OthersAtHome, Selecting
  <2>2. ASSUME NEW b \in 1..NBatches, ~Selecting(b)' PROVE AtHome(b)'
    <3>1. b # n
      BY <1>1, <2>2 DEF Selecting, InSelection
    <3> QED BY <1>2, <2>1, <3>1 DEF AtHome
  <2> QED BY <1>2, <2>2 DEF OthersAtHome
<1>4. RemovalFits' /\ RemovalIsThorough'
  BY DEF InSelection, RemovalFits, RemovalIsThorough
<1>5. Homes' = SwapIn(Homes, x, y)
  <2>1. Homes' = [i \in Places(n) |-> HomeOf(n, i)']
    BY <1>1, <1>2 DEF Homes
  <2>2. SwapIn(Homes, x, y) = [i \in Places(n) |-> IF i = y THEN HomeOf(n, x)
                                ELSE IF i = x THEN HomeOf(n, y) ELSE HomeOf(n, i)]
    BY <1>1, <1>a DEF Homes, SwapIn
  <2> QED BY <1>2, <2>1, <2>2
<1>6. Places(n)' = Places(n) /\ Len(KeysOf(n)') = Len(KeysOf(n))
  BY <1>1, <1>2
<1> QED BY <1>2, <1>3, <1>4, <1>5, <1>6, <1>a

LEMMA SwapInTypes ==
  ASSUME NEW S, NEW h \in [S -> S], NEW x \in S, NEW y \in S
  PROVE  SwapIn(h, x, y) \in [S -> S] /\ SwapIn(SwapIn(h, x, y), x, y) = h
<1>1. SwapIn(h, x, y) \in [S -> S]
  BY DEF SwapIn
<1>2. \A i \in S : SwapIn(h, x, y)[i] = IF i = y THEN h[x] ELSE IF i = x THEN h[y] ELSE h[i]
  BY DEF SwapIn
<1>3. SwapIn(SwapIn(h, x, y), x, y) \in [S -> S]
  BY <1>1 DEF SwapIn
<1>4. \A i \in S : SwapIn(SwapIn(h, x, y), x, y)[i] =
                     IF i = y THEN SwapIn(h, x, y)[x]
                     ELSE IF i = x THEN SwapIn(h, x, y)[y] ELSE SwapIn(h, x, y)[i]
  BY <1>1 DEF SwapIn
<1>5. \A i \in S : SwapIn(SwapIn(h, x, y), x, y)[i] = h[i]
  BY <1>2, <1>4
<1> QED BY <1>1, <1>3, <1>5

LEMMA UndoKeepsIInv ==
  ASSUME IInv, Undo
  PROVE  IInv'
<1>a. PICK n : n = pass.batch
  OBVIOUS
<1>b. PICK u : u = pass.undo
  OBVIOUS
<1>c. PICK x : x = pass.swaps[u][1]
  OBVIOUS
<1>d. PICK y : y = pass.swaps[u][2]
  OBVIOUS
<1>e. PICK L : L = Len(pass.swaps)
  OBVIOUS
<1>1. /\ pass.mode = "restore" /\ InSelection /\ u > 0 /\ locations' = locations
      /\ reply'.to = "caller" /\ batches' = SwapPayloads(n, x, y)
      /\ pass' = [pass EXCEPT !.undo = u - 1]
  BY <1>a, <1>b, <1>c, <1>d DEF Undo, InSelection, ToCaller
<1>2. /\ pass \in PassRecord /\ n \in 1..NBatches /\ u \in 0..Capacity /\ L \in Nat /\ u <= L
      /\ \A j \in 1..L : pass.swaps[j][1] \in Places(n) /\ pass.swaps[j][2] \in Places(n)
  BY <1>1, <1>a, <1>b, <1>e, PackedBatch DEF IInv, SelectionFits
<1>3. u \in 1..L /\ x \in Places(n) /\ y \in Places(n) /\ u - 1 \in 0..L /\ u - 1 <= L
  BY <1>1, <1>2, <1>c, <1>d, PoolBounds
<1>4. /\ pass'.mode = "restore" /\ pass'.undo = u - 1 /\ pass'.batch = n
      /\ pass'.swaps = pass.swaps /\ pass'.ids = pass.ids /\ pass'.index = pass.index
      /\ pass'.count = pass.count /\ pass' \in PassRecord
  <2>1. u - 1 \in 0..Capacity
    BY <1>2, <1>3, PoolBounds
  <2> QED BY <1>1, <1>2, <1>a, <2>1 DEF PassRecord
<1>5. PassFits' /\ InSelection'
  BY <1>1, <1>4 DEF PassFits, PassRecord, InSelection
<1>6. /\ Family' /\ OthersAtHome' /\ RemovalFits' /\ RemovalIsThorough'
      /\ NBatches' = NBatches /\ Places(n)' = Places(n)
      /\ Len(KeysOf(n)') = Len(KeysOf(n)) /\ Homes' = SwapIn(Homes, x, y)
  BY <1>1, <1>3, <1>4, <1>5, <1>a, SwapInSelection
<1>7. SelectionFits'
  <2>1. /\ n \in 1..NBatches' /\ pass.count < pass.index
        /\ pass.index <= Len(KeysOf(n)') + 1 /\ pass.index > Len(KeysOf(n)')
        /\ L <= pass.count
        /\ \A j \in 1..L : /\ pass.swaps[j][1] \in Places(n)'
                           /\ pass.swaps[j][2] \in Places(n)'
    BY <1>1, <1>2, <1>6, <1>a, <1>e DEF IInv, SelectionFits
  <2>2. /\ pass'.mode # "evaluate" /\ Len(pass'.swaps) = L
    BY <1>4, <1>e
  <2> QED BY <1>3, <1>4, <2>1, <2>2 DEF SelectionFits
<1>8. SelectionIsPacked'
  BY <1>4 DEF SelectionIsPacked
<1>9. SwapsAreLogged'
  <2>1. PICK H \in Arrangements : Logged(H)
    BY <1>1, PackedBatch
  <2>2. /\ H \in [0..L -> [Places(n) -> Places(n)]] /\ H[0] = [i \in Places(n) |-> i]
        /\ \A j \in 1..L : H[j] = SwapIn(H[j - 1], pass.swaps[j][1], pass.swaps[j][2])
        /\ Homes = H[u]
    BY <1>1, <2>1, <1>a, <1>b, <1>e DEF Arrangements, Logged, InEffect
  <2>3. H[u - 1] \in [Places(n) -> Places(n)] /\ H[u] = SwapIn(H[u - 1], x, y)
    BY <1>3, <1>c, <1>d, <2>2
  <2>4. Homes' = H[u - 1]
    BY <1>3, <1>6, <2>2, <2>3, SwapInTypes
  <2>5. InEffect' = u - 1
    BY <1>4 DEF InEffect
  <2>6. H \in Arrangements'
    BY <1>4, <1>6, <1>e, <2>2 DEF Arrangements
  <2>7. Logged(H)'
    BY <1>4, <1>6, <1>e, <2>2, <2>4, <2>5 DEF Logged
  <2> QED BY <2>6, <2>7 DEF SwapsAreLogged
<1> QED BY <1>5, <1>6, <1>7, <1>8, <1>9 DEF IInv

(* The next payload is not selected: it stays where it is. *)
LEMMA PassOverKeepsIInv ==
  ASSUME IInv, pass.mode = "pack", pass.index <= Len(KeysOf(pass.batch)),
         HandleAt(pass.batch, pass.index) \notin pass.ids,
         pass' = [pass EXCEPT !.index = @ + 1],
         UNCHANGED <<batches, locations>>, reply'.to = "caller"
  PROVE  IInv'
<1>a. PICK n : n = pass.batch
  OBVIOUS
<1>b. PICK x : x = pass.index
  OBVIOUS
<1>1. /\ InSelection /\ pass \in PassRecord /\ n \in 1..NBatches
      /\ Len(KeysOf(n)) \in Nat /\ Len(KeysOf(n)) <= Capacity
      /\ pass.count \in Nat /\ pass.count < x /\ x \in Nat /\ x <= Len(KeysOf(n))
      /\ Len(pass.swaps) <= pass.count
  <2>1. InSelection
    BY DEF InSelection
  <2> QED BY <1>a, <1>b, <2>1, PackedBatch, PoolBounds
<1>2. /\ pass'.mode = "pack" /\ pass'.undo = pass.undo /\ pass'.batch = n
      /\ pass'.swaps = pass.swaps /\ pass'.ids = pass.ids /\ pass'.index = x + 1
      /\ pass'.count = pass.count /\ pass' \in PassRecord
  <2>1. x + 1 \in 0..(Capacity + 1)
    BY <1>1, PoolBounds
  <2> QED BY <1>1, <1>a, <1>b, <2>1 DEF PassRecord
<1>3. PassFits' /\ InSelection' /\ InEffect' = InEffect
  BY <1>2 DEF PassFits, PassRecord, InSelection, InEffect
<1>4. /\ NBatches' = NBatches
      /\ \A b : KeysOf(b)' = KeysOf(b) /\ Places(b)' = Places(b)
      /\ \A b, i : HandleAt(b, i)' = HandleAt(b, i)
      /\ \A b, i : HomeOf(b, i)' = HomeOf(b, i)
  BY DEF NBatches, KeysOf, Places, HandleAt, HomeOf, EntryOf
<1>5. SelectionFits'
  <2>1. /\ n \in 1..NBatches' /\ pass.count < x + 1 /\ x + 1 <= Len(KeysOf(n)') + 1
        /\ \A j \in 1..Len(pass.swaps) : /\ pass.swaps[j][1] \in Places(n)'
                                         /\ pass.swaps[j][2] \in Places(n)'
    BY <1>1, <1>4, <1>a DEF IInv, SelectionFits
  <2> QED BY <1>1, <1>2, <2>1 DEF SelectionFits
<1>6. SelectionIsPacked'
  <2>1. /\ \A i \in Places(n) : i >= x => HomeOf(n, i) = i
        /\ \A i \in Places(n) : i < x => /\ HomeOf(n, i) < x
                                         /\ HandleAt(n, i) \in pass.ids <=> i <= pass.count
        /\ \A i, j \in 1..pass.count : i < j => HomeOf(n, i) < HomeOf(n, j)
    BY <1>a, <1>b DEF IInv, SelectionIsPacked
  <2>2. Places(n) \subseteq Nat
    BY <1>1 DEF Places
  <2>3. ASSUME NEW i \in Places(n), i < x + 1
        PROVE  HomeOf(n, i) < x + 1 /\ (HandleAt(n, i) \in pass.ids <=> i <= pass.count)
    <3>1. CASE i < x
      <4>1. HomeOf(n, i) \in Int
        BY <1>1, <2>3, HomesAreIndices, PoolBounds DEF IInv, Family
      <4> QED BY <1>1, <2>1, <2>3, <3>1, <4>1
    <3>2. CASE i = x
      <4>1. HomeOf(n, i) = x /\ HandleAt(n, i) \notin pass.ids
        BY <1>1, <2>1, <2>3, <3>2, <1>a, <1>b
      <4> QED BY <1>1, <3>2, <4>1
    <3> QED BY <1>1, <2>2, <2>3, <3>1, <3>2
  <2>4. \A i \in Places(n) : i >= x + 1 => HomeOf(n, i) = i
    BY <1>1, <2>1, <2>2
  <2> QED BY <1>2, <1>4, <2>1, <2>3, <2>4 DEF SelectionIsPacked
<1> QED BY <1>1, <1>2, <1>3, <1>5, <1>6, <1>a, StillSelected

(* The next payload is selected and already at the end of the selected ones. *)
LEMMA TakeInPlaceKeepsIInv ==
  ASSUME IInv, pass.mode = "pack", pass.index <= Len(KeysOf(pass.batch)),
         HandleAt(pass.batch, pass.index) \in pass.ids, pass.index = pass.count + 1,
         pass' = [pass EXCEPT !.index = @ + 1, !.count = pass.index],
         UNCHANGED <<batches, locations>>, reply'.to = "caller"
  PROVE  IInv'
<1>a. PICK n : n = pass.batch
  OBVIOUS
<1>b. PICK x : x = pass.index
  OBVIOUS
<1>1. /\ InSelection /\ pass \in PassRecord /\ n \in 1..NBatches
      /\ Len(KeysOf(n)) \in Nat /\ Len(KeysOf(n)) <= Capacity
      /\ pass.count \in Nat /\ pass.count = x - 1 /\ x \in Nat /\ x <= Len(KeysOf(n))
      /\ Len(pass.swaps) <= pass.count /\ Len(pass.swaps) \in Nat
  <2>1. InSelection
    BY DEF InSelection
  <2> QED BY <1>a, <1>b, <2>1, PackedBatch, PoolBounds
<1>2. /\ pass'.mode = "pack" /\ pass'.undo = pass.undo /\ pass'.batch = n
      /\ pass'.swaps = pass.swaps /\ pass'.ids = pass.ids /\ pass'.index = x + 1
      /\ pass'.count = x /\ pass' \in PassRecord
  <2>1. x + 1 \in 0..(Capacity + 1) /\ x \in 0..Capacity
    BY <1>1, PoolBounds
  <2> QED BY <1>1, <1>a, <1>b, <2>1 DEF PassRecord
<1>3. PassFits' /\ InSelection' /\ InEffect' = InEffect
  BY <1>2 DEF PassFits, PassRecord, InSelection, InEffect
<1>4. /\ NBatches' = NBatches
      /\ \A b : KeysOf(b)' = KeysOf(b) /\ Places(b)' = Places(b)
      /\ \A b, i : HandleAt(b, i)' = HandleAt(b, i)
      /\ \A b, i : HomeOf(b, i)' = HomeOf(b, i)
  BY DEF NBatches, KeysOf, Places, HandleAt, HomeOf, EntryOf
<1>5. SelectionFits'
  <2>1. /\ n \in 1..NBatches' /\ x < x + 1 /\ x + 1 <= Len(KeysOf(n)') + 1
        /\ Len(pass.swaps) <= x
        /\ \A j \in 1..Len(pass.swaps) : /\ pass.swaps[j][1] \in Places(n)'
                                         /\ pass.swaps[j][2] \in Places(n)'
    BY <1>1, <1>4, <1>a DEF IInv, SelectionFits
  <2> QED BY <1>1, <1>2, <2>1 DEF SelectionFits
<1>6. SelectionIsPacked'
  <2>1. /\ \A i \in Places(n) : i >= x => HomeOf(n, i) = i
        /\ \A i \in Places(n) : i < x => /\ HomeOf(n, i) < x
                                         /\ HandleAt(n, i) \in pass.ids <=> i <= pass.count
        /\ \A i, j \in 1..pass.count : i < j => HomeOf(n, i) < HomeOf(n, j)
    BY <1>a, <1>b DEF IInv, SelectionIsPacked
  <2>2. Places(n) = 1..Len(KeysOf(n))
    BY DEF Places
  <2>3. \A i \in Places(n) : HomeOf(n, i) \in Int
    BY <1>1, HomesAreIndices, PoolBounds DEF IInv, Family
  <2>4. x \in Places(n) /\ HomeOf(n, x) = x /\ HandleAt(n, x) \in pass.ids
    BY <1>1, <2>1, <2>2, <1>a, <1>b
  <2>5. ASSUME NEW i \in Places(n), i < x + 1
        PROVE  HomeOf(n, i) < x + 1 /\ (HandleAt(n, i) \in pass.ids <=> i <= x)
    <3>1. CASE i < x
      BY <1>1, <2>1, <2>2, <2>3, <3>1
    <3>2. CASE i = x
      BY <1>1, <2>4, <3>2
    <3> QED BY <1>1, <2>2, <2>5, <3>1, <3>2
  <2>6. \A i \in Places(n) : i >= x + 1 => HomeOf(n, i) = i
    BY <1>1, <2>1, <2>2
  <2>7. ASSUME NEW i \in 1..x, NEW j \in 1..x, i < j
        PROVE  HomeOf(n, i) < HomeOf(n, j)
    <3>1. i \in Places(n) /\ i < x
      BY <1>1, <2>2, <2>7
    <3>2. CASE j = x
      BY <2>1, <2>4, <3>1, <3>2
    <3>3. CASE j # x
      <4>1. i \in 1..pass.count /\ j \in 1..pass.count
        BY <1>1, <2>7, <3>3
      <4> QED BY <2>1, <2>7, <4>1
    <3> QED BY <3>2, <3>3
  <2> QED BY <1>2, <1>4, <2>5, <2>6, <2>7 DEF SelectionIsPacked
<1> QED BY <1>1, <1>2, <1>3, <1>5, <1>6, <1>a, StillSelected

(* The next payload is selected and changes places with the first one that *)
(* is not.                                                                 *)
LEMMA TakeBySwapKeepsIInv ==
  ASSUME IInv, pass.mode = "pack", pass.index <= Len(KeysOf(pass.batch)),
         HandleAt(pass.batch, pass.index) \in pass.ids,
         NEW y, y = pass.count + 1, pass.index # y,
         pass' = [pass EXCEPT !.index = @ + 1, !.count = y,
                              !.swaps = Append(@, <<pass.index, y>>)],
         batches' = SwapPayloads(pass.batch, pass.index, y), locations' = locations,
         reply'.to = "caller"
  PROVE  IInv'
<1>a. PICK n : n = pass.batch
  OBVIOUS
<1>b. PICK x : x = pass.index
  OBVIOUS
<1>c. PICK L : L = Len(pass.swaps)
  OBVIOUS
<1>d. PICK m : m = Len(KeysOf(n))
  OBVIOUS
<1>1. /\ InSelection /\ pass \in PassRecord /\ n \in 1..NBatches
      /\ m \in Nat /\ m <= Capacity /\ Family
      /\ pass.count \in Nat /\ pass.count < x /\ x \in Nat /\ x <= m
      /\ L <= pass.count /\ L \in Nat
      /\ pass.swaps \in Seq((1..Capacity) \X (1..Capacity))
      /\ \A j \in 1..L : pass.swaps[j][1] \in Places(n) /\ pass.swaps[j][2] \in Places(n)
  <2>1. InSelection
    BY DEF InSelection
  <2> QED BY <1>a, <1>b, <1>c, <1>d, <2>1, PackedBatch, PoolBounds
<1>2. /\ y \in Nat /\ y < x /\ x \in 1..m /\ y \in 1..m /\ x \in Places(n) /\ y \in Places(n)
      /\ x \in 1..Capacity /\ y \in 1..Capacity
  BY <1>1, <1>b, <1>d, PoolBounds DEF Places
<1>3. PICK log : log = Append(pass.swaps, <<x, y>>)
  OBVIOUS
<1>4. /\ log \in Seq((1..Capacity) \X (1..Capacity)) /\ Len(log) = L + 1
      /\ \A j \in 1..L : log[j] = pass.swaps[j]
      /\ log[L + 1] = <<x, y>>
  <2>1. <<x, y>> \in (1..Capacity) \X (1..Capacity)
    BY <1>2
  <2> QED BY <1>1, <1>3, <1>c, <2>1
<1>5. /\ pass'.mode = "pack" /\ pass'.undo = pass.undo /\ pass'.batch = n
      /\ pass'.swaps = log /\ pass'.ids = pass.ids /\ pass'.index = x + 1
      /\ pass'.count = y /\ pass' \in PassRecord
  <2>1. x + 1 \in 0..(Capacity + 1) /\ y \in 0..Capacity
    BY <1>1, <1>2, PoolBounds
  <2> QED BY <1>1, <1>3, <1>4, <1>a, <1>b, <2>1 DEF PassRecord
<1>6. PassFits' /\ InSelection'
  BY <1>5 DEF PassFits, PassRecord, InSelection
<1>7. /\ Family' /\ OthersAtHome' /\ RemovalFits' /\ RemovalIsThorough'
      /\ NBatches' = NBatches /\ Places(n)' = Places(n)
      /\ Len(KeysOf(n)') = m /\ Homes' = SwapIn(Homes, x, y)
      /\ \A i \in Places(n) :
           /\ HandleAt(n, i)' = IF i = y THEN HandleAt(n, x)
                                ELSE IF i = x THEN HandleAt(n, y) ELSE HandleAt(n, i)
           /\ HomeOf(n, i)' = IF i = y THEN HomeOf(n, x)
                              ELSE IF i = x THEN HomeOf(n, y) ELSE HomeOf(n, i)
  BY <1>1, <1>2, <1>5, <1>6, <1>a, <1>b, <1>d, SwapInSelection
<1>8. SelectionFits'
  <2>1. \A j \in 1..(L + 1) : /\ log[j][1] \in Places(n)' /\ log[j][2] \in Places(n)'
    <3>1. ASSUME NEW j \in 1..(L + 1) PROVE j = L + 1 \/ j \in 1..L
      <4>1. L \in Nat
        BY <1>1
      <4> QED BY ONLY <3>1, <4>1
    <3>2. ASSUME NEW j \in 1..(L + 1) PROVE log[j][1] \in Places(n) /\ log[j][2] \in Places(n)
      <4>1. CASE j = L + 1
        BY <1>2, <1>4, <4>1
      <4>2. CASE j \in 1..L
        BY <1>1, <1>4, <4>2
      <4> QED BY <3>1, <4>1, <4>2
    <3> QED BY <1>7, <3>2
  <2>2. n \in 1..NBatches' /\ y < x + 1 /\ x + 1 <= Len(KeysOf(n)') + 1 /\ L + 1 <= y
    BY <1>1, <1>2, <1>7
  <2> QED BY <1>4, <1>5, <2>1, <2>2 DEF SelectionFits
<1>9. SwapsAreLogged'
  <2>1. PICK H \in Arrangements : Logged(H)
    BY <1>1, PackedBatch
  <2>2. /\ H \in [0..L -> [Places(n) -> Places(n)]] /\ H[0] = [i \in Places(n) |-> i]
        /\ \A j \in 1..L : H[j] = SwapIn(H[j - 1], pass.swaps[j][1], pass.swaps[j][2])
        /\ Homes = H[L]
    BY <1>1, <2>1, <1>a, <1>c DEF Arrangements, Logged, InEffect
  <2>3. PICK G : G = [j \in 0..(L + 1) |-> IF j = L + 1 THEN SwapIn(H[L], x, y) ELSE H[j]]
    OBVIOUS
  <2>4. /\ \A j \in 0..L : G[j] = H[j]
        /\ G[L + 1] = SwapIn(H[L], x, y)
    BY <1>1, <2>3
  <2>5. H[L] \in [Places(n) -> Places(n)] /\ SwapIn(H[L], x, y) \in [Places(n) -> Places(n)]
    <3>1. H[L] \in [Places(n) -> Places(n)]
      BY <1>1, <2>2
    <3> QED BY <1>2, <3>1, SwapInTypes
  <2>6. G \in [0..(L + 1) -> [Places(n) -> Places(n)]]
    <3>1. ASSUME NEW j \in 0..(L + 1), j # L + 1 PROVE j \in 0..L
      <4>1. L \in Nat
        BY <1>1
      <4> QED BY ONLY <3>1, <4>1
    <3> QED BY <2>2, <2>3, <2>5, <3>1
  <2>7. ASSUME NEW j \in 1..(L + 1)
        PROVE  G[j] = SwapIn(G[j - 1], log[j][1], log[j][2])
    <3>1. CASE j = L + 1
      <4>1. L \in Nat
        BY <1>1
      <4>2. j - 1 = L /\ L \in 0..L
        BY ONLY <2>7, <3>1, <4>1
      <4> QED BY <1>4, <2>4, <3>1, <4>2
    <3>2. CASE j # L + 1
      <4>1. L \in Nat
        BY <1>1
      <4>2. j \in 1..L /\ j \in 0..L /\ j - 1 \in 0..L
        BY ONLY <2>7, <3>2, <4>1
      <4> QED BY <1>4, <2>2, <2>4, <4>2
    <3> QED BY <3>1, <3>2
  <2>8. G[0] = [i \in Places(n) |-> i] /\ Homes' = G[L + 1]
    <3>1. 0 \in 0..L
      BY <1>1
    <3> QED BY <1>7, <2>2, <2>4, <3>1
  <2>9. InEffect' = L + 1
    BY <1>4, <1>5 DEF InEffect
  <2>10. G \in Arrangements'
    BY <1>4, <1>5, <1>7, <2>6 DEF Arrangements
  <2>11. Logged(G)'
    <3>1. G[0] = [i \in Places(n)' |-> i]
      BY <1>7, <2>8
    <3>2. pass'.swaps = log /\ Len(pass'.swaps) = L + 1 /\ pass'.batch = n
      BY <1>4, <1>5
    <3> QED BY <2>7, <2>8, <2>9, <3>1, <3>2 DEF Logged
  <2> QED BY <2>10, <2>11 DEF SwapsAreLogged
<1>10. SelectionIsPacked'
  <2>1. /\ \A i \in Places(n) : i >= x => HomeOf(n, i) = i
        /\ \A i \in Places(n) : i < x => /\ HomeOf(n, i) < x
                                         /\ HandleAt(n, i) \in pass.ids <=> i <= pass.count
        /\ \A i, j \in 1..pass.count : i < j => HomeOf(n, i) < HomeOf(n, j)
    BY <1>a, <1>b DEF IInv, SelectionIsPacked
  <2>2. Places(n) = 1..m
    BY <1>d DEF Places
  <2>3. \A i \in Places(n) : HomeOf(n, i) \in Int
    BY <1>1, HomesAreIndices, PoolBounds DEF Family, PoolsFit
  <2>4. /\ HomeOf(n, y)' = x /\ HandleAt(n, y)' \in pass.ids
        /\ HomeOf(n, x)' < x /\ HandleAt(n, x)' \notin pass.ids
    <3>1. HomeOf(n, x) = x /\ HandleAt(n, x) \in pass.ids
      BY <1>1, <1>2, <2>1, <1>a, <1>b
    <3>2. HomeOf(n, y) < x /\ HandleAt(n, y) \notin pass.ids
      BY <1>1, <1>2, <2>1
    <3> QED BY <1>2, <1>7, <3>1, <3>2
  <2>5. \A i \in Places(n) : i # x /\ i # y => /\ HomeOf(n, i)' = HomeOf(n, i)
                                               /\ HandleAt(n, i)' = HandleAt(n, i)
    BY <1>7
  <2>6. ASSUME NEW i \in Places(n), i < x + 1
        PROVE  HomeOf(n, i)' < x + 1 /\ (HandleAt(n, i)' \in pass.ids <=> i <= y)
    <3>1. CASE i = x
      <4>1. HomeOf(n, x)' \in Int
        BY <1>2, <1>7, <2>3
      <4> QED BY <1>1, <1>2, <2>4, <3>1, <4>1
    <3>2. CASE i = y
      BY <1>1, <1>2, <2>4, <3>2
    <3>3. CASE i # x /\ i # y
      <4>1. i \in Nat /\ i < x
        BY <1>1, <2>2, <2>6, <3>3
      <4>2. HomeOf(n, i) < x /\ (HandleAt(n, i) \in pass.ids <=> i <= pass.count)
        BY <2>1, <4>1
      <4>3. i <= pass.count <=> i <= y
        BY <1>1, <3>3, <4>1
      <4> QED BY <1>1, <2>3, <2>5, <3>3, <4>2, <4>3
    <3> QED BY <3>1, <3>2, <3>3
  <2>7. ASSUME NEW i \in Places(n), i >= x + 1
        PROVE  HomeOf(n, i)' = i
    <3>1. i # x /\ i # y /\ i >= x
      BY <1>1, <1>2, <2>2, <2>7
    <3> QED BY <2>1, <2>5, <3>1
  <2>8. ASSUME NEW i \in 1..y, NEW j \in 1..y, i < j
        PROVE  HomeOf(n, i)' < HomeOf(n, j)'
    <3>1. i \in 1..pass.count /\ i \in Places(n) /\ i # x /\ i # y /\ i < x
      BY <1>1, <1>2, <2>2, <2>8
    <3>2. CASE j = y
      BY <2>1, <2>4, <2>5, <3>1, <3>2
    <3>3. CASE j # y
      <4>1. j \in 1..pass.count /\ j \in Places(n) /\ j # x
        BY <1>1, <1>2, <2>2, <2>8, <3>3
      <4> QED BY <2>1, <2>5, <2>8, <3>1, <3>3, <4>1
    <3> QED BY <3>2, <3>3
  <2> QED BY <1>5, <1>7, <2>6, <2>7, <2>8 DEF SelectionIsPacked
<1> QED BY <1>6, <1>7, <1>8, <1>9, <1>10 DEF IInv

LEMMA PackStepKeepsIInv ==
  ASSUME IInv, PackStep
  PROVE  IInv'
<1>1. /\ pass.mode = "pack" /\ pass.index <= Len(KeysOf(pass.batch))
      /\ locations' = locations /\ reply'.to = "caller"
  BY DEF PackStep, ToCaller
<1>2. CASE HandleAt(pass.batch, pass.index) \notin pass.ids
  <2>1. pass' = [pass EXCEPT !.index = @ + 1] /\ UNCHANGED batches
    BY <1>2 DEF PackStep, HandleAt
  <2> QED BY <1>1, <1>2, <2>1, PassOverKeepsIInv
<1>3. CASE HandleAt(pass.batch, pass.index) \in pass.ids /\ pass.index = pass.count + 1
  <2>1. UNCHANGED batches
    BY <1>3 DEF PackStep, HandleAt
  <2>2. pass' = [pass EXCEPT !.index = @ + 1, !.count = pass.index, !.swaps = @]
    BY <1>3 DEF PackStep, HandleAt
  <2>3. pass \in PassRecord
    BY <1>1, PackedBatch DEF InSelection
  <2>4. pass' = [pass EXCEPT !.index = @ + 1, !.count = pass.index]
    BY <2>2, <2>3 DEF PassRecord
  <2> QED BY <1>1, <1>3, <2>1, <2>4, TakeInPlaceKeepsIInv
<1>4. CASE HandleAt(pass.batch, pass.index) \in pass.ids /\ pass.index # pass.count + 1
  <2>1. batches' = SwapPayloads(pass.batch, pass.index, pass.count + 1)
    BY <1>4 DEF PackStep, HandleAt
  <2>2. pass' = [pass EXCEPT !.index = @ + 1, !.count = pass.count + 1,
                             !.swaps = Append(@, <<pass.index, pass.count + 1>>)]
    BY <1>4 DEF PackStep, HandleAt
  <2> QED BY <1>1, <1>4, <2>1, <2>2, TakeBySwapKeepsIInv
<1> QED BY <1>2, <1>3, <1>4

-----------------------------------------------------------------------------
LEMMA NextKeepsIInv == IInv /\ [Next]_vars => IInv'
<1> SUFFICES ASSUME IInv, [Next]_vars PROVE IInv'
  OBVIOUS
<1>1. ASSUME \/ \E m \in Model : InsertBatch(m)
             \/ \E n \in ReserveSizes : ReserveBatches(n)
             \/ \E b \in BatchHandles : ReadModel(b) \/ RemoveEmpty(b) \/ RefuseBatch(b)
      PROVE  IInv'
  BY <1>1, BatchCallKeepsIInv
<1>2. ASSUME \/ \E b \in BatchHandles : \/ \E n \in ReserveSizes : ReserveFactors(b, n)
                                        \/ \E v \in FactorPayload : InsertInto(b, v)
             \/ \E k \in FactorHandles : FactorCost(k) \/ RefuseFactor(k) \/ RemoveOne(k)
      PROVE  IInv'
  BY <1>2, FactorCallKeepsIInv
<1>3. ASSUME NEW ids \in SUBSET IssuedHandles(locations), BeginRemoval(ids) \/ BeginSelection(ids)
      PROVE  IInv'
  BY <1>3, BeginRemovalKeepsIInv, BeginSelectionKeepsIInv
<1>4. ASSUME RemovalStep \/ RemovalNextBatch \/ RemovalEnd
      PROVE  IInv'
  BY <1>4, RemovalStepKeepsIInv, RemovalNextBatchKeepsIInv, RemovalEndKeepsIInv
<1>5. ASSUME PackStep \/ Packed \/ (\E o \in Outcome : Evaluate(o)) \/ Undo \/ Restored
      PROVE  IInv'
  BY <1>5, PackStepKeepsIInv, PackedKeepsIInv, EvaluateKeepsIInv, UndoKeepsIInv, RestoredKeepsIInv
<1>6. CASE UNCHANGED vars
  <2>1. UNCHANGED <<batches, locations, pass, reply>>
    BY <1>6 DEF vars
  <2>2. Family' /\ NBatches' = NBatches
    BY <2>1 DEF IInv, Family, PoolsFit, LengthsAgree, PayloadsAreListed, PayloadsAreDistinct,
       EntriesArePacked, HandleAt, EntryOf, SlotOf, NBatches, Places, KeysOf
  <2>3. /\ \A b : KeysOf(b)' = KeysOf(b) /\ Places(b)' = Places(b)
        /\ \A b, i : HandleAt(b, i)' = HandleAt(b, i) /\ HomeOf(b, i)' = HomeOf(b, i)
    BY <2>1 DEF KeysOf, Places, HandleAt, HomeOf, EntryOf
  <2>4. OthersAtHome'
    BY <2>1, <2>2, <2>3 DEF IInv, OthersAtHome, AtHome, Selecting
  <2>5. PassFits' /\ RemovalFits' /\ SelectionFits'
    BY <2>1, <2>2, <2>3 DEF IInv, PassFits, RemovalFits, SelectionFits, InSelection
  <2>6. RemovalIsThorough'
    BY <2>1 DEF IInv, RemovalIsThorough, KeysOf
  <2>7. SwapsAreLogged'
    <3>1. Arrangements' = Arrangements /\ Homes' = Homes /\ InEffect' = InEffect
      BY <2>1, <2>3 DEF Arrangements, Homes, InEffect
    <3>2. \A H : Logged(H)' <=> Logged(H)
      BY <2>1, <2>3, <3>1 DEF Logged
    <3> QED BY <2>1, <3>1, <3>2 DEF IInv, SwapsAreLogged, InSelection
  <2>8. SelectionIsPacked'
    BY <2>1, <2>3 DEF IInv, SelectionIsPacked
  <2> QED BY <2>2, <2>4, <2>5, <2>6, <2>7, <2>8 DEF IInv
<1>7. CASE Next
  BY <1>7, <1>1, <1>2, <1>3, <1>4, <1>5 DEF Next
<1> QED BY <1>6, <1>7

LEMMA Invariance == Spec => []IInv
BY InitIInv, NextKeepsIInv, PTL DEF Spec

(* What every operation on a family finds and leaves, in the middle of     *)
(* passes too: directory and batches agree, and a removal misses nothing   *)
(* (storage.rs:272-450).                                                   *)
THEOREM FamilyStaysConsistent == Spec => []BatchInvariant
<1>1. IInv => BatchInvariant
  BY DirectoryIsOk DEF IInv, BatchInvariant
<1> QED BY <1>1, Invariance, PTL

(* The evaluator of with_selected is shown the selected payloads of each   *)
(* batch, all of them, once each and in the order of the batch             *)
(* (storage.rs:275-323).                                                   *)
THEOREM EvaluatorSeesTheSelection == Spec => []SelectionExact
BY SelectionFollows, Invariance, PTL

-----------------------------------------------------------------------------
(* The family implements two handle stores.                                *)
LiveKeys == {k \in RawKey : Resolves(locations, k)}

(* What the store of factors has is what the batches hold. *)
HeldFactors == /\ LiveFactors = [k \in LiveKeys |-> LiveFactors[k]]
               /\ \A k \in LiveKeys : \E e \in Evaluated : Holds(k, e)
               /\ \A k, e : Holds(k, e) => k \in LiveKeys /\ LiveFactors[k] = e

LEMMA HeldIsLive == Family => HeldFactors
<1> SUFFICES ASSUME Family PROVE HeldFactors
  OBVIOUS
<1>1. ASSUME NEW b \in 1..NBatches, NEW i \in Places(b)
      PROVE  /\ HandleAt(b, i) \in LiveKeys /\ HandleAt(b, i) \in IssuedHandles(locations)
             /\ HeldAt(b, i) \in Evaluated
  <2>1. HandleAt(b, i) \in LiveKeys
    BY HandlesAreRaw DEF Family, PayloadsAreListed, LiveKeys
  <2>2. HandleAt(b, i) \in IssuedHandles(locations)
    BY <2>1, PackedIsIssued DEF Family, PoolsFit, LiveKeys
  <2>3. /\ batches.values[b].model \in Model /\ batches.values[b].values \in Seq(FactorPayload)
        /\ i \in 1..Len(batches.values[b].values)
    BY BatchParts DEF Family, LengthsAgree, Places
  <2>4. batches.values[b].values[i] \in FactorPayload
    BY <2>3
  <2> QED BY <2>1, <2>2, <2>3, <2>4 DEF Evaluated, HeldAt
<1>2. ASSUME NEW b \in 1..NBatches, NEW k
      PROVE  PackedIn(batches.values[b], k) <=> \E i \in Places(b) : HandleAt(b, i) = k
  BY DEF PackedIn, Places, HandleAt, KeysOf
<1>3. DOMAIN LiveFactors = LiveKeys
  <2>1. DOMAIN LiveFactors = {j \in IssuedHandles(locations) :
            \E b \in 1..NBatches : \E i \in Places(b) : HandleAt(b, i) = j}
    BY <1>2 DEF LiveFactors, NBatches
  <2>2. ASSUME NEW j \in LiveKeys
        PROVE  \E b \in 1..NBatches : \E i \in Places(b) : HandleAt(b, i) = j
    BY DEF Family, EntriesArePacked, LiveKeys
  <2> QED BY <1>1, <2>1, <2>2
<1>4. ASSUME NEW b \in 1..NBatches, NEW i \in Places(b)
      PROVE  LiveFactors[HandleAt(b, i)] = HeldAt(b, i)
  <2>1. PICK k : k = HandleAt(b, i)
    OBVIOUS
  <2>2. PICK c : c = CHOOSE d \in 1..NBatches : PackedIn(batches.values[d], k)
    OBVIOUS
  <2>3. c \in 1..NBatches /\ PackedIn(batches.values[c], k)
    <3>1. \E d \in 1..NBatches : PackedIn(batches.values[d], k)
      BY <1>2, <2>1
    <3> QED BY <2>2, <3>1
  <2>4. c = b
    <3>1. PICK j \in Places(c) : HandleAt(c, j) = k
      BY <1>2, <2>3
    <3> QED BY <2>1, <2>3, <3>1, PlacesAreDistinct
  <2>5. LiveFactors[k] = EvaluatedBy(batches.values[b], k)
    <3>1. k \in DOMAIN LiveFactors
      BY <1>1, <1>3, <2>1
    <3> QED BY <2>2, <2>4, <3>1 DEF LiveFactors, NBatches
  <2>6. \A e : (\E j \in 1..Len(batches.values[b].keys) :
                  /\ Raw(locations, batches.values[b].keys[j]) = k
                  /\ e = [model |-> batches.values[b].model,
                          payload |-> batches.values[b].values[j]])
               <=> e = HeldAt(b, i)
    <3>1. \A j \in Places(b) : HandleAt(b, j) = k <=> j = i
      BY <2>1 DEF Family, PayloadsAreDistinct
    <3> QED BY <3>1 DEF HeldAt, HandleAt, Places, KeysOf
  <2>7. HeldAt(b, i) \in Evaluated
    BY <1>1
  <2>8. EvaluatedBy(batches.values[b], k) = HeldAt(b, i)
    BY <2>6, <2>7 DEF EvaluatedBy
  <2> QED BY <2>1, <2>5, <2>8
<1>5. \A k \in LiveKeys : \E e \in Evaluated : Holds(k, e)
  BY <1>1 DEF Family, EntriesArePacked, LiveKeys, Holds
<1>6. \A k, e : Holds(k, e) => k \in LiveKeys /\ LiveFactors[k] = e
  BY <1>1, <1>4 DEF Holds
<1>7. LiveFactors = [k \in LiveKeys |-> LiveFactors[k]]
  BY <1>3 DEF LiveFactors
<1> QED BY <1>5, <1>6, <1>7 DEF HeldFactors

LEMMA SameFactorsLive ==
  ASSUME Family, Family', LiveKeys' = LiveKeys,
         \A k, e : Holds(k, e) => Holds(k, e)'
  PROVE  LiveFactors' = LiveFactors
<1>1. HeldFactors /\ HeldFactors'
  <2>1. (Family => HeldFactors)'
    BY HeldIsLive, PTL
  <2> QED BY <2>1, HeldIsLive
<1>2. LiveFactors = [k \in LiveKeys |-> LiveFactors[k]]
  BY <1>1 DEF HeldFactors
<1>3. LiveFactors' = [k \in LiveKeys |-> LiveFactors'[k]]
  BY <1>1 DEF HeldFactors
<1>4. ASSUME NEW k \in LiveKeys PROVE LiveFactors'[k] = LiveFactors[k]
  <2>1. PICK e : Holds(k, e)
    BY <1>1 DEF HeldFactors
  <2>2. LiveFactors[k] = e /\ Holds(k, e)'
    BY <1>1, <2>1 DEF HeldFactors
  <2>3. LiveFactors'[k] = e
    BY <1>1, <2>2 DEF HeldFactors
  <2> QED BY <2>2, <2>3
<1> QED BY <1>2, <1>3, <1>4

LEMMA FactorsNothing ==
  ASSUME Family, Family', \A k, e : Holds(k, e) => Holds(k, e)',
         IssuedHandles(locations') = IssuedHandles(locations),
         \A k \in RawKey : KeyStatus(locations', k) = KeyStatus(locations, k),
         reply'.to # "factors" \/ reply'.what \in {Factors!Done, Factors!Panic}
  PROVE  Factors!Nothing
<1>1. LiveKeys' = LiveKeys
  BY DEF LiveKeys, Resolves
<1>2. LiveFactors' = LiveFactors
  BY <1>1, SameFactorsLive
<1>3. Retired(locations)' = Retired(locations)
  BY DEF Retired, IssuedHandles
<1>4. (IF reply'.to = "factors" THEN reply'.what ELSE Quiet) \in {Factors!Done, Factors!Panic}
  BY DEF Quiet, Factors!Done
<1> QED BY <1>2, <1>3, <1>4 DEF Factors!Nothing

LEMMA SameBatchesLive ==
  ASSUME Family, SameBatches
  PROVE  LiveBatches' = LiveBatches /\ Retired(batches)' = Retired(batches)
<1>1. /\ \A k : KeyStatus(batches', k) = KeyStatus(batches, k)
      /\ \A k : PoolIndex(batches', k) = PoolIndex(batches, k)
      /\ IssuedHandles(batches') = IssuedHandles(batches)
  BY SameSlotsSameIssued DEF SameBatches, KeyStatus, PoolIndex
<1>2. ASSUME NEW k \in IssuedHandles(batches), Resolves(batches, k)
      PROVE  PoolGet(batches', k).model = PoolGet(batches, k).model
  <2>1. k \in RawKey
    BY DEF IssuedHandles
  <2>2. PoolIndex(batches, k) \in 1..NBatches
    BY <1>2, <2>1, BatchUnderHandle DEF Family
  <2> QED BY <1>1, <2>2 DEF SameBatches, PoolGet
<1>3. {j \in IssuedHandles(batches') : Resolves(batches', j)} =
        {j \in IssuedHandles(batches) : Resolves(batches, j)}
  BY <1>1 DEF Resolves
<1>4. LiveBatches' = LiveBatches
  BY <1>2, <1>3 DEF LiveBatches
<1>5. Retired(batches)' = Retired(batches)
  BY <1>1 DEF Retired
<1> QED BY <1>4, <1>5

LEMMA BatchesNothing ==
  ASSUME Family, SameBatches,
         reply'.to # "batches" \/ reply'.what \in {Batches!Done, Batches!Panic}
  PROVE  Batches!Nothing
<1>1. LiveBatches' = LiveBatches /\ Retired(batches)' = Retired(batches)
  BY SameBatchesLive
<1>2. (IF reply'.to = "batches" THEN reply'.what ELSE Quiet) \in {Batches!Done, Batches!Panic}
  BY DEF Quiet, Batches!Done
<1> QED BY <1>1, <1>2 DEF Batches!Nothing

(* Steps that change neither pool. *)
LEMMA NothingHeldChanges ==
  ASSUME UNCHANGED <<batches, locations>>
  PROVE  /\ SameBatches
         /\ \A k, e : Holds(k, e) => Holds(k, e)'
         /\ IssuedHandles(locations') = IssuedHandles(locations)
         /\ \A k \in RawKey : KeyStatus(locations', k) = KeyStatus(locations, k)
         /\ LiveFactors' = LiveFactors /\ Retired(locations)' = Retired(locations)
         /\ LiveBatches' = LiveBatches /\ Retired(batches)' = Retired(batches)
<1>1. SameBatches
  BY DEF SameBatches, NBatches
<1>2. \A k, e : Holds(k, e) => Holds(k, e)'
  BY DEF Holds, HandleAt, HeldAt, Places, KeysOf, NBatches
<1>3. LiveFactors' = LiveFactors
  BY DEF LiveFactors, PackedIn, EvaluatedBy
<1>4. LiveBatches' = LiveBatches
  BY DEF LiveBatches
<1> QED BY <1>1, <1>2, <1>3, <1>4

LEMMA QuietStep ==
  ASSUME Family, Family', UNCHANGED <<batches, locations>>,
         reply'.to = "caller"
  PROVE  Factors!Nothing /\ Batches!Nothing
BY NothingHeldChanges, FactorsNothing, BatchesNothing

(* A handle that is refused was released or belongs elsewhere. *)
LEMMA RefusalIsTrue ==
  ASSUME NEW V, NEW p \in Pools(V), PoolOk(p),
         NEW k \in IssuedHandles(p) \cup {j \in RawKey : j.pool # p.id}, ~Resolves(p, k)
  PROVE  /\ k \in RawKey
         /\ KeyStatus(p, k) = IF k \in Retired(p) THEN "Stale" ELSE "ForeignSolver"
<1>1. CASE k \in IssuedHandles(p)
  <2>1. k \in RawKey /\ KeyStatus(p, k) = "Stale"
    BY <1>1, IssuedIsResolvedOrStale DEF Resolves
  <2> QED BY <1>1, <2>1 DEF Retired
<1>2. CASE k \in RawKey /\ k.pool # p.id
  <2>1. KeyStatus(p, k) = "ForeignSolver" /\ k \notin IssuedHandles(p)
    BY <1>2 DEF KeyStatus, IssuedHandles
  <2> QED BY <1>2, <2>1 DEF Retired
<1> QED BY <1>1, <1>2

-----------------------------------------------------------------------------
(* The calls on factors, as steps of the store of factors. *)
LEMMA InsertIsCreate ==
  ASSUME Family, AllAtHome, Family', NEW h \in RawKey, Resolves(batches, h), NEW v \in FactorPayload,
         CanReserve(locations, 1),
         locations' = PoolInsert(locations, [batch_slot  |-> h.slot,
                                             dense_index |-> Len(PoolGet(batches, h).values) + 1]),
         batches' = PoolSet(batches, h, [PoolGet(batches, h) EXCEPT
                                           !.values = Append(@, v),
                                           !.keys   = Append(@, NextKey(locations))]),
         ToFactors(Factors!Handle(Raw(locations, NextKey(locations))))
  PROVE  (\E k \in RawKey : \E e \in Evaluated : Factors!Create(k, e)) /\ Batches!Nothing
<1>a. PICK new : new = Raw(locations, NextKey(locations))
  OBVIOUS
<1>b. PICK held : held = [model |-> PoolGet(batches, h).model, payload |-> v]
  OBVIOUS
<1>c. PICK at : at = [batch_slot |-> h.slot, dense_index |-> Len(PoolGet(batches, h).values) + 1]
  OBVIOUS
<1>1. /\ SameBatches
      /\ \A k, e : Holds(k, e) => Holds(k, e)'
      /\ Holds(new, held)'
  <2>1. /\ SameBatches
        /\ \A k, e : Holds(k, e) => Holds(k, e)'
        /\ \A k, e : k = Raw(locations, NextKey(locations)) =>
             (e = [model |-> PoolGet(batches, h).model, payload |-> v] => Holds(k, e)')
    BY InsertIntoKeepsFamily
  <2> QED BY <1>a, <1>b, <2>1
<1>2. /\ PoolsFit /\ PoolIndex(batches, h) \in 1..NBatches /\ h.slot \in 1..Capacity
      /\ PoolGet(batches, h) = batches.values[PoolIndex(batches, h)]
  BY BatchUnderHandle DEF Family, RawKey
<1>3. PoolGet(batches, h).model \in Model
  BY <1>2, BatchParts
<1>4. held \in Evaluated
  BY <1>3, <1>b DEF Evaluated
<1>5. at \in Location
  <2>1. /\ Len(KeysOf(PoolIndex(batches, h))) <= Len(locations.values)
        /\ Len(KeysOf(PoolIndex(batches, h))) = Len(PoolGet(batches, h).values)
        /\ Len(KeysOf(PoolIndex(batches, h))) \in Nat
    BY <1>2, BatchFitsDirectory, BatchParts DEF Family, LengthsAgree
  <2>2. Len(locations.values) + 1 <= Capacity /\ Len(locations.values) \in Nat
    BY <1>2, PoolTypes DEF CanReserve, PoolsFit
  <2>3. Len(PoolGet(batches, h).values) + 1 \in 1..Capacity
    BY <2>1, <2>2, PoolBounds
  <2> QED BY <1>2, <1>c, <2>3 DEF Location
<1>6. locations \in Pools(Location) /\ PoolOk(locations) /\ locations' = PoolInsert(locations, at)
  BY <1>2, <1>c DEF PoolsFit
<1>7. /\ new \in RawKey /\ new \notin IssuedHandles(locations)
      /\ IssuedHandles(locations') = IssuedHandles(locations) \cup {new}
      /\ ~Resolves(locations, new) /\ Resolves(locations', new)
  BY <1>5, <1>6, <1>a, InsertIssues, InsertLookup
<1>8. \A j \in RawKey : Resolves(locations', j) <=> Resolves(locations, j) \/ j = new
  BY <1>5, <1>6, <1>a, InsertResolves
<1>9. LiveKeys' = LiveKeys \cup {new} /\ new \notin LiveKeys
  BY <1>7, <1>8 DEF LiveKeys
<1>10. HeldFactors /\ HeldFactors'
  <2>1. (Family => HeldFactors)'
    BY HeldIsLive, PTL
  <2> QED BY <2>1, HeldIsLive
<1>11. DOMAIN LiveFactors = LiveKeys
  BY <1>10 DEF HeldFactors
<1>12. LiveFactors' = [j \in DOMAIN LiveFactors \cup {new} |-> IF j = new THEN held ELSE LiveFactors[j]]
  <2>1. LiveFactors' = [j \in LiveKeys' |-> LiveFactors'[j]]
    BY <1>10 DEF HeldFactors
  <2>2. LiveFactors'[new] = held
    BY <1>1, <1>10 DEF HeldFactors
  <2>3. ASSUME NEW j \in LiveKeys PROVE LiveFactors'[j] = LiveFactors[j]
    <3>1. PICK e : Holds(j, e)
      BY <1>10 DEF HeldFactors
    <3>2. LiveFactors[j] = e /\ LiveFactors'[j] = e
      BY <1>1, <1>10, <3>1 DEF HeldFactors
    <3> QED BY <3>2
  <2>4. \A j \in LiveKeys \cup {new} :
          LiveFactors'[j] = IF j = new THEN held ELSE LiveFactors[j]
    BY <1>9, <2>2, <2>3
  <2>5. LiveFactors' = [j \in LiveKeys \cup {new} |-> IF j = new THEN held ELSE LiveFactors[j]]
    BY <1>9, <2>1, <2>4
  <2> QED BY <1>11, <2>5
<1>13. Retired(locations)' = Retired(locations) /\ new \notin Retired(locations)
  <2>1. KeyStatus(locations', new) # "Stale" /\ new \notin Retired(locations)
    BY <1>7 DEF Resolves, Retired
  <2>2. ASSUME NEW j \in IssuedHandles(locations)
        PROVE  KeyStatus(locations', j) = "Stale" <=> KeyStatus(locations, j) = "Stale"
    <3>1. j \in RawKey /\ j # new /\ KeyStatus(locations, j) \in {"ok", "Stale"}
      BY <1>6, <1>7, IssuedIsResolvedOrStale
    <3>2. KeyStatus(locations', j) \in {"ok", "Stale"}
      <4>1. locations' \in Pools(Location) /\ j \in IssuedHandles(locations')
        BY <1>5, <1>6, <1>7, PoolInsertOk
      <4> QED BY <4>1, IssuedIsResolvedOrStale
    <3> QED BY <1>8, <3>1, <3>2 DEF Resolves
  <2> QED BY <1>7, <2>1, <2>2 DEF Retired
<1>14. /\ (IF reply'.to = "factors" THEN reply'.what ELSE Quiet) = Factors!Handle(new)
       /\ reply'.to # "batches"
  BY <1>a DEF ToFactors
<1>15. Factors!Create(new, held)
  BY <1>9, <1>11, <1>12, <1>13, <1>14 DEF Factors!Create
<1>16. Batches!Nothing
  BY <1>1, <1>14, BatchesNothing
<1> QED BY <1>4, <1>7, <1>15, <1>16

LEMMA RemovalIsRelease ==
  ASSUME Family, AllAtHome, Family', NEW n \in 1..NBatches, NEW i \in Places(n),
         NEW k, k = HandleAt(n, i), RemoveFactor(k),
         reply' = [to |-> "factors", what |-> Factors!Done] \/ reply'.to = "caller"
  PROVE  (\E j \in RawKey : Factors!Release(j)) /\ Batches!Nothing
<1>1. /\ SameBatches /\ k \in RawKey /\ Resolves(locations, k)
      /\ \A j, e : Holds(j, e) /\ j # k => Holds(j, e)'
      /\ IssuedHandles(locations') = IssuedHandles(locations)
      /\ KeyStatus(locations', k) = "Stale"
      /\ \A j \in RawKey : j # k => KeyStatus(locations', j) = KeyStatus(locations, j)
      /\ \A j \in RawKey : Resolves(locations', j) <=> Resolves(locations, j) /\ j # k
  BY RemoveFactorKeepsFamily
<1>2. HeldFactors /\ HeldFactors'
  <2>1. (Family => HeldFactors)'
    BY HeldIsLive, PTL
  <2> QED BY <2>1, HeldIsLive
<1>3. LiveKeys' = LiveKeys \ {k} /\ k \in LiveKeys
  BY <1>1 DEF LiveKeys
<1>4. DOMAIN LiveFactors = LiveKeys
  BY <1>2 DEF HeldFactors
<1>5. LiveFactors' = [j \in DOMAIN LiveFactors \ {k} |-> LiveFactors[j]]
  <2>1. LiveFactors' = [j \in LiveKeys' |-> LiveFactors'[j]]
    BY <1>2 DEF HeldFactors
  <2>2. ASSUME NEW j \in LiveKeys \ {k} PROVE LiveFactors'[j] = LiveFactors[j]
    <3>1. PICK e : Holds(j, e)
      BY <1>2 DEF HeldFactors
    <3>2. LiveFactors[j] = e /\ LiveFactors'[j] = e
      BY <1>1, <1>2, <3>1 DEF HeldFactors
    <3> QED BY <3>2
  <2>3. LiveFactors' = [j \in LiveKeys \ {k} |-> LiveFactors[j]]
    BY <1>3, <2>1, <2>2
  <2> QED BY <1>4, <2>3
<1>6. k \in IssuedHandles(locations)
  BY <1>1, PackedIsIssued DEF Family, PoolsFit
<1>7. Retired(locations)' = Retired(locations) \cup {k}
  <2>1. \A j \in IssuedHandles(locations) : j \in RawKey
    BY DEF IssuedHandles
  <2> QED BY <1>1, <1>6, <2>1 DEF Retired
<1>8. /\ (IF reply'.to = "factors" THEN reply'.what ELSE Quiet) = Factors!Done
      /\ reply'.to # "batches"
  BY DEF Quiet, Factors!Done
<1>9. Factors!Release(k)
  BY <1>3, <1>4, <1>5, <1>7, <1>8 DEF Factors!Release, Factors!Restrict
<1>10. Batches!Nothing
  BY <1>1, <1>8, BatchesNothing
<1> QED BY <1>1, <1>9, <1>10

LEMMA FactorCallRefines ==
  ASSUME IInv, IInv',
         \/ \E b \in BatchHandles : \/ \E n \in ReserveSizes : ReserveFactors(b, n)
                                    \/ \E v \in FactorPayload : InsertInto(b, v)
         \/ \E k \in FactorHandles : FactorCost(k) \/ RefuseFactor(k) \/ RemoveOne(k)
  PROVE  /\ Factors!Nothing \/ (\E k \in RawKey : \/ \E e \in Evaluated : Factors!Create(k, e)
                                                  \/ Factors!Read(k) \/ Factors!Release(k)
                                                  \/ Factors!Refuse(k))
         /\ Batches!Nothing
<1>1. Idle
  BY DEF ReserveFactors, InsertInto, FactorCost, RefuseFactor, RemoveOne
<1>2. Family /\ AllAtHome /\ Family'
  BY <1>1, AllIsAtHome DEF Idle, InSelection, IInv
<1>3. locations \in Pools(Location) /\ PoolOk(locations) /\ locations.id = LocationsId
  BY <1>2 DEF Family, PoolsFit
<1>4. ASSUME NEW b \in BatchHandles, NEW n \in ReserveSizes, ReserveFactors(b, n)
      PROVE  Factors!Nothing /\ Batches!Nothing
  <2>1. n \in Nat /\ batches' = batches /\ reply'.to = "caller"
    BY <1>4, FamilyIdentity DEF ReserveFactors, ToCaller
  <2>2. CASE locations' = locations
    BY <1>2, <2>1, <2>2, QuietStep
  <2>3. CASE locations' = PoolReserve(locations, n)
    <3>1. \A k, e : Holds(k, e) => Holds(k, e)'
      BY <1>2, <2>1, <2>3, ReserveKeepsFamily
    <3>2. IssuedHandles(locations') = IssuedHandles(locations)
      BY <1>3, <2>1, <2>3, ReserveIssues
    <3>3. \A k \in RawKey : KeyStatus(locations', k) = KeyStatus(locations, k)
      BY <1>3, <2>1, <2>3, ReserveLookup
    <3>4. SameBatches
      BY <2>1 DEF SameBatches, NBatches
    <3> QED BY <1>2, <2>1, <3>1, <3>2, <3>3, <3>4, FactorsNothing, BatchesNothing
  <2> QED BY <1>4, <2>2, <2>3 DEF ReserveFactors
<1>5. ASSUME NEW b \in BatchHandles, NEW v \in FactorPayload, InsertInto(b, v)
      PROVE  /\ Factors!Nothing \/ (\E k \in RawKey : \E e \in Evaluated : Factors!Create(k, e))
             /\ Batches!Nothing
  <2>1. b \in RawKey /\ Resolves(batches, b)
    BY <1>5, FamilyIdentity DEF InsertInto, BatchHandles, IssuedHandles
  <2>2. CASE CanReserve(locations, 1)
    <3>1. /\ locations' = PoolInsert(locations, [batch_slot  |-> b.slot,
                                                 dense_index |-> Len(PoolGet(batches, b).values) + 1])
          /\ batches' = PoolSet(batches, b, [PoolGet(batches, b) EXCEPT
                                               !.values = Append(@, v),
                                               !.keys   = Append(@, NextKey(locations))])
          /\ ToFactors(Factors!Handle(Raw(locations, NextKey(locations))))
      BY <1>5, <2>2 DEF InsertInto
    <3> QED BY <1>2, <2>1, <2>2, <3>1, InsertIsCreate
  <2>3. CASE ~CanReserve(locations, 1)
    <3>1. UNCHANGED <<batches, locations>> /\ ToFactors(Factors!Panic)
      BY <1>5, <2>3 DEF InsertInto
    <3>2. reply'.to = "factors" /\ reply'.what = Factors!Panic
      BY <3>1 DEF ToFactors
    <3> QED BY <1>2, <3>1, <3>2, NothingHeldChanges, FactorsNothing, BatchesNothing
  <2> QED BY <2>2, <2>3
<1>6. ASSUME NEW k \in FactorHandles, FactorCost(k)
      PROVE  Factors!Nothing \/ Factors!Read(k)
  <2>1. k \in RawKey /\ Resolves(locations, k) /\ UNCHANGED <<batches, locations>>
    BY <1>6, FamilyIdentity DEF FactorCost, FactorHandles, IssuedHandles
  <2>2. PICK e : e = [model   |-> BatchOf(k).model,
                      payload |-> BatchOf(k).values[PoolGet(locations, k).dense_index]]
    OBVIOUS
  <2>3. CASE ToFactors(Factors!Payload(k, e))
    <3>1. PICK b \in 1..NBatches :
            /\ EntryOf(k).batch_slot = SlotOf(b)
            /\ AtSlot(batches, SlotOf(b)) = batches.values[b]
            /\ ~Selecting(b) => /\ EntryOf(k).dense_index \in Places(b)
                                /\ HandleAt(b, EntryOf(k).dense_index) = k
      BY <1>2, <2>1, FactorAtHome DEF IInv
    <3>2. ~Selecting(b)
      BY <1>1 DEF Idle, Selecting
    <3>3. Holds(k, e)
      BY <2>2, <3>1, <3>2 DEF Holds, HeldAt, BatchOf, EntryOf
    <3>4. k \in DOMAIN LiveFactors /\ LiveFactors[k] = e
      BY <1>2, <3>3, HeldIsLive DEF HeldFactors
    <3>5. (IF reply'.to = "factors" THEN reply'.what ELSE Quiet) = Factors!Payload(k, LiveFactors[k])
      BY <2>3, <3>4 DEF ToFactors
    <3>6. LiveFactors' = LiveFactors /\ Retired(locations)' = Retired(locations)
      BY <2>1, NothingHeldChanges
    <3> QED BY <3>4, <3>5, <3>6 DEF Factors!Read
  <2>4. CASE ToCaller("error")
    <3>1. reply'.to = "caller"
      BY <2>4 DEF ToCaller
    <3> QED BY <1>2, <2>1, <3>1, QuietStep
  <2> QED BY <1>6, <2>2, <2>3, <2>4 DEF FactorCost
<1>7. ASSUME NEW k \in FactorHandles, FactorCost(k) \/ RefuseFactor(k)
      PROVE  k \in RawKey /\ Batches!Nothing
  <2>1. k \in RawKey /\ UNCHANGED <<batches, locations>>
    BY <1>7, FamilyIdentity DEF FactorCost, RefuseFactor, FactorHandles, IssuedHandles
  <2>2. reply'.to # "batches"
    BY <1>7 DEF FactorCost, RefuseFactor, ToFactors, ToCaller
  <2> QED BY <1>2, <2>1, <2>2, NothingHeldChanges, BatchesNothing
<1>8. ASSUME NEW k \in FactorHandles, RefuseFactor(k)
      PROVE  Factors!Refuse(k)
  <2>1. /\ ~Resolves(locations, k) /\ UNCHANGED <<batches, locations>>
        /\ ToFactors(Factors!Refusal(k, KeyStatus(locations, k)))
    BY <1>8 DEF RefuseFactor
  <2>2. k \in IssuedHandles(locations) \cup {j \in RawKey : j.pool # locations.id}
    BY <1>3, FamilyIdentity DEF FactorHandles
  <2>3. KeyStatus(locations, k) = IF k \in Retired(locations) THEN "Stale" ELSE "ForeignSolver"
    BY <1>3, <2>1, <2>2, RefusalIsTrue
  <2>4. k \notin DOMAIN LiveFactors
    BY <1>2, <2>1, HeldIsLive DEF HeldFactors, LiveKeys
  <2>5. LiveFactors' = LiveFactors /\ Retired(locations)' = Retired(locations)
    BY <2>1, NothingHeldChanges
  <2>6. (IF reply'.to = "factors" THEN reply'.what ELSE Quiet)
          = Factors!Refusal(k, IF k \in Retired(locations) THEN "Stale" ELSE "ForeignSolver")
    BY <2>1, <2>3 DEF ToFactors
  <2> QED BY <2>4, <2>5, <2>6 DEF Factors!Refuse
<1>9. ASSUME NEW k \in FactorHandles, RemoveOne(k)
      PROVE  (\E j \in RawKey : Factors!Release(j)) /\ Batches!Nothing
  <2>1. k \in RawKey /\ Resolves(locations, k) /\ RemoveFactor(k) /\ ToFactors(Factors!Done)
    BY <1>9, FamilyIdentity DEF RemoveOne, FactorHandles, IssuedHandles
  <2>2. PICK n \in 1..NBatches : \E i \in Places(n) : HandleAt(n, i) = k
    BY <1>2, <2>1 DEF Family, EntriesArePacked
  <2>3. PICK i \in Places(n) : HandleAt(n, i) = k
    BY <2>2
  <2>4. reply' = [to |-> "factors", what |-> Factors!Done]
    BY <2>1 DEF ToFactors
  <2> QED BY <1>2, <2>1, <2>3, <2>4, RemovalIsRelease
<1> QED BY <1>4, <1>5, <1>6, <1>7, <1>8, <1>9

LEMMA LiveBatchModels ==
  /\ DOMAIN LiveBatches = {j \in IssuedHandles(batches) : Resolves(batches, j)}
  /\ \A k \in DOMAIN LiveBatches : LiveBatches[k] = PoolGet(batches, k).model
BY DEF LiveBatches

(* The calls on batches, as steps of the store of batches. *)
LEMMA InsertBatchIsCreate ==
  ASSUME Family, NEW m \in Model, NEW v, v = [model |-> m, values |-> <<>>, keys |-> <<>>],
         CanReserve(batches, 1), batches' = PoolInsert(batches, v),
         ToBatches(Batches!Handle(Raw(batches, NextKey(batches))))
  PROVE  \E k \in RawKey : Batches!Create(k, m)
<1>a. PICK new : new = Raw(batches, NextKey(batches))
  OBVIOUS
<1>1. batches \in Pools(Batch) /\ PoolOk(batches) /\ v \in Batch /\ v.model = m
  BY DEF Family, PoolsFit, Batch
<1>2. /\ new \in RawKey /\ new \notin IssuedHandles(batches)
      /\ IssuedHandles(batches') = IssuedHandles(batches) \cup {new}
      /\ Resolves(batches', new) /\ PoolGet(batches', new) = v
      /\ batches' \in Pools(Batch)
  BY <1>1, <1>a, InsertIssues, InsertLookup, PoolInsertOk
<1>3. ASSUME NEW j \in IssuedHandles(batches)
      PROVE  /\ j \in RawKey /\ j # new
             /\ Resolves(batches', j) <=> Resolves(batches, j)
             /\ Resolves(batches, j) => PoolGet(batches', j) = PoolGet(batches, j)
             /\ KeyStatus(batches', j) = "Stale" <=> KeyStatus(batches, j) = "Stale"
  <2>1. j \in RawKey /\ j # new /\ KeyStatus(batches, j) \in {"ok", "Stale"}
    BY <1>1, <1>2, IssuedIsResolvedOrStale
  <2>2. KeyStatus(batches', j) \in {"ok", "Stale"}
    BY <1>2, IssuedIsResolvedOrStale
  <2>3. /\ Resolves(batches', j) <=> Resolves(batches, j)
        /\ Resolves(batches, j) => PoolGet(batches', j) = PoolGet(batches, j)
    BY <1>1, <1>a, <2>1, InsertResolves
  <2> QED BY <2>1, <2>2, <2>3 DEF Resolves
<1>4. DOMAIN LiveBatches = {j \in IssuedHandles(batches) : Resolves(batches, j)}
  BY LiveBatchModels
<1>5. {j \in IssuedHandles(batches') : Resolves(batches', j)} = DOMAIN LiveBatches \cup {new}
  BY <1>2, <1>3, <1>4
<1>6. LiveBatches' = [j \in DOMAIN LiveBatches \cup {new} |-> IF j = new THEN m ELSE LiveBatches[j]]
  <2>1. LiveBatches' = [j \in {i \in IssuedHandles(batches') : Resolves(batches', i)} |->
                          PoolGet(batches', j).model]
    BY DEF LiveBatches
  <2>2. ASSUME NEW j \in DOMAIN LiveBatches \cup {new}
        PROVE  PoolGet(batches', j).model = IF j = new THEN m ELSE LiveBatches[j]
    <3>1. CASE j = new
      BY <1>1, <1>2, <3>1
    <3>2. CASE j # new
      <4>1. j \in IssuedHandles(batches) /\ Resolves(batches, j)
        BY <1>4, <2>2, <3>2
      <4> QED BY <1>3, <3>2, <4>1, LiveBatchModels
    <3> QED BY <3>1, <3>2
  <2> QED BY <1>5, <2>1, <2>2
<1>7. Retired(batches)' = Retired(batches) /\ new \notin Retired(batches)
  <2>1. KeyStatus(batches', new) # "Stale"
    BY <1>2 DEF Resolves
  <2> QED BY <1>2, <1>3, <2>1 DEF Retired
<1>8. (IF reply'.to = "batches" THEN reply'.what ELSE Quiet) = Batches!Handle(new)
  BY <1>a DEF ToBatches
<1>9. Batches!Create(new, m)
  BY <1>2, <1>4, <1>6, <1>7, <1>8 DEF Batches!Create
<1> QED BY <1>2, <1>9

LEMMA RemoveEmptyIsRelease ==
  ASSUME Family, NEW h \in RawKey, Resolves(batches, h),
         batches' = PoolRemove(batches, h), ToBatches(Batches!Done)
  PROVE  Batches!Release(h)
<1>1. batches \in Pools(Batch) /\ PoolOk(batches)
  BY DEF Family, PoolsFit
<1>2. /\ h \in IssuedHandles(batches) /\ IssuedHandles(batches') = IssuedHandles(batches)
      /\ KeyStatus(batches', h) = "Stale"
      /\ \A j \in RawKey : j # h =>
           /\ KeyStatus(batches', j) = KeyStatus(batches, j)
           /\ Resolves(batches, j) => PoolGet(batches', j) = PoolGet(batches, j)
  BY <1>1, PackedIsIssued, RemoveIssues, RemoveLookup
<1>3. /\ DOMAIN LiveBatches = {j \in IssuedHandles(batches) : Resolves(batches, j)}
      /\ h \in DOMAIN LiveBatches /\ IssuedHandles(batches) \subseteq RawKey
  BY <1>2, LiveBatchModels DEF IssuedHandles
<1>4. {j \in IssuedHandles(batches') : Resolves(batches', j)} = DOMAIN LiveBatches \ {h}
  BY <1>2, <1>3 DEF Resolves
<1>5. LiveBatches' = [j \in DOMAIN LiveBatches \ {h} |-> LiveBatches[j]]
  <2>1. LiveBatches' = [j \in DOMAIN LiveBatches \ {h} |-> PoolGet(batches', j).model]
    BY <1>4 DEF LiveBatches
  <2>2. ASSUME NEW j \in DOMAIN LiveBatches \ {h}
        PROVE  PoolGet(batches', j).model = LiveBatches[j]
    BY <1>2, <1>3, LiveBatchModels
  <2> QED BY <2>1, <2>2
<1>6. Retired(batches)' = Retired(batches) \cup {h}
  BY <1>2, <1>3 DEF Retired
<1>7. (IF reply'.to = "batches" THEN reply'.what ELSE Quiet) = Batches!Done
  BY DEF ToBatches
<1> QED BY <1>3, <1>5, <1>6, <1>7 DEF Batches!Release, Batches!Restrict

LEMMA BatchCallRefines ==
  ASSUME IInv, IInv',
         \/ \E m \in Model : InsertBatch(m)
         \/ \E n \in ReserveSizes : ReserveBatches(n)
         \/ \E b \in BatchHandles : ReadModel(b) \/ RemoveEmpty(b) \/ RefuseBatch(b)
  PROVE  /\ Batches!Nothing \/ (\E k \in RawKey : \/ \E m \in Model : Batches!Create(k, m)
                                                  \/ Batches!Read(k) \/ Batches!Release(k)
                                                  \/ Batches!Refuse(k))
         /\ Factors!Nothing
<1>1. Idle
  BY DEF InsertBatch, ReserveBatches, ReadModel, RemoveEmpty, RefuseBatch
<1>2. Family /\ AllAtHome /\ Family'
  BY <1>1, AllIsAtHome DEF Idle, InSelection, IInv
<1>3. batches \in Pools(Batch) /\ PoolOk(batches) /\ batches.id = BatchesId
  BY <1>2 DEF Family, PoolsFit
<1>4. ASSUME locations' = locations, reply'.to # "factors", \A k, e : Holds(k, e) => Holds(k, e)'
      PROVE  Factors!Nothing
  BY <1>2, <1>4, FactorsNothing
<1>5. ASSUME NEW m \in Model, InsertBatch(m)
      PROVE  /\ Batches!Nothing \/ \E k \in RawKey : Batches!Create(k, m)
             /\ Factors!Nothing
  <2>1. PICK v : v = [model |-> m, values |-> <<>>, keys |-> <<>>]
    OBVIOUS
  <2>2. v \in Batch /\ v.keys = <<>> /\ v.values = <<>>
    BY <2>1 DEF Batch
  <2>3. CASE CanReserve(batches, 1)
    <3>1. /\ batches' = PoolInsert(batches, v) /\ locations' = locations
          /\ ToBatches(Batches!Handle(Raw(batches, NextKey(batches))))
      BY <1>5, <2>1, <2>3 DEF InsertBatch
    <3>2. \E k \in RawKey : Batches!Create(k, m)
      BY <1>2, <2>1, <2>3, <3>1, InsertBatchIsCreate
    <3>3. reply'.to # "factors"
      BY <3>1 DEF ToBatches
    <3>4. \A k, e : Holds(k, e) => Holds(k, e)'
      BY <1>2, <2>2, <2>3, <3>1, InsertBatchKeepsFamily
    <3> QED BY <1>4, <3>1, <3>2, <3>3, <3>4
  <2>4. CASE ~CanReserve(batches, 1)
    <3>1. UNCHANGED <<batches, locations>> /\ ToBatches(Batches!Panic)
      BY <1>5, <2>4 DEF InsertBatch
    <3>2. reply'.to = "batches" /\ reply'.what = Batches!Panic
      BY <3>1 DEF ToBatches
    <3> QED BY <1>2, <3>1, <3>2, NothingHeldChanges, FactorsNothing, BatchesNothing
  <2> QED BY <2>3, <2>4
<1>6. ASSUME NEW n \in ReserveSizes, ReserveBatches(n)
      PROVE  Batches!Nothing /\ Factors!Nothing
  <2>1. n \in Nat /\ locations' = locations /\ reply'.to = "caller"
    BY <1>6, FamilyIdentity DEF ReserveBatches, ToCaller
  <2>2. CASE batches' = batches
    BY <1>2, <2>1, <2>2, QuietStep
  <2>3. CASE batches' = PoolReserve(batches, n)
    <3>1. PICK q : q = batches'
      OBVIOUS
    <3>2. q = [batches EXCEPT !.free_capacity = q.free_capacity]
      BY <1>3, <2>1, <2>3, <3>1, PoolReserveOk
    <3>3. /\ q.id = batches.id /\ q.keys = batches.keys /\ q.slots = batches.slots
          /\ q.free_slots = batches.free_slots /\ q.values = batches.values
      BY <1>3, <3>2 DEF Pools
    <3>4. SameBatches
      BY <3>1, <3>3 DEF SameBatches, NBatches
    <3>5. \A k, e : Holds(k, e) => Holds(k, e)'
      BY <1>2, <2>1, <2>3, ReserveKeepsFamily
    <3> QED BY <1>2, <1>4, <2>1, <3>4, <3>5, BatchesNothing
  <2> QED BY <1>6, <2>2, <2>3 DEF ReserveBatches
<1>7. ASSUME NEW b \in BatchHandles, ReadModel(b)
      PROVE  b \in RawKey /\ Batches!Read(b) /\ Factors!Nothing
  <2>1. /\ b \in RawKey /\ b \in IssuedHandles(batches) /\ Resolves(batches, b)
        /\ UNCHANGED <<batches, locations>>
        /\ ToBatches(Batches!Payload(b, PoolGet(batches, b).model))
    BY <1>3, <1>7, PackedIsIssued, FamilyIdentity DEF ReadModel, BatchHandles, IssuedHandles
  <2>2. b \in DOMAIN LiveBatches /\ LiveBatches[b] = PoolGet(batches, b).model
    BY <2>1, LiveBatchModels
  <2>3. /\ (IF reply'.to = "batches" THEN reply'.what ELSE Quiet) = Batches!Payload(b, LiveBatches[b])
        /\ reply'.to # "factors"
    BY <2>1, <2>2 DEF ToBatches
  <2>4. LiveBatches' = LiveBatches /\ Retired(batches)' = Retired(batches)
    BY <2>1, NothingHeldChanges
  <2>5. Factors!Nothing
    BY <1>4, <2>1, <2>3, NothingHeldChanges
  <2> QED BY <2>1, <2>2, <2>3, <2>4, <2>5 DEF Batches!Read
<1>8. ASSUME NEW b \in BatchHandles, RemoveEmpty(b)
      PROVE  b \in RawKey /\ (Batches!Release(b) \/ Batches!Nothing) /\ Factors!Nothing
  <2>1. b \in RawKey /\ Resolves(batches, b) /\ locations' = locations
    BY <1>8, FamilyIdentity DEF RemoveEmpty, BatchHandles, IssuedHandles
  <2>2. CASE PoolGet(batches, b).values = <<>>
    <3>1. batches' = PoolRemove(batches, b) /\ ToBatches(Batches!Done)
      BY <1>8, <2>2 DEF RemoveEmpty
    <3>2. Batches!Release(b)
      BY <1>2, <2>1, <3>1, RemoveEmptyIsRelease
    <3>3. \A k, e : Holds(k, e) => Holds(k, e)'
      BY <1>2, <2>1, <2>2, <3>1, RemoveEmptyKeepsFamily
    <3>4. reply'.to # "factors"
      BY <3>1 DEF ToBatches
    <3> QED BY <1>4, <2>1, <3>2, <3>3, <3>4
  <2>3. CASE PoolGet(batches, b).values # <<>>
    <3>1. UNCHANGED <<batches, locations>> /\ reply'.to = "caller"
      BY <1>8, <2>3 DEF RemoveEmpty, ToCaller
    <3> QED BY <1>2, <2>1, <3>1, QuietStep
  <2> QED BY <2>2, <2>3
<1>9. ASSUME NEW b \in BatchHandles, RefuseBatch(b)
      PROVE  b \in RawKey /\ Batches!Refuse(b) /\ Factors!Nothing
  <2>1. /\ ~Resolves(batches, b) /\ UNCHANGED <<batches, locations>>
        /\ ToBatches(Batches!Refusal(b, KeyStatus(batches, b)))
    BY <1>9 DEF RefuseBatch
  <2>2. b \in IssuedHandles(batches) \cup {j \in RawKey : j.pool # batches.id}
    BY <1>3, FamilyIdentity DEF BatchHandles
  <2>3. /\ b \in RawKey
        /\ KeyStatus(batches, b) = IF b \in Retired(batches) THEN "Stale" ELSE "ForeignSolver"
    BY <1>3, <2>1, <2>2, RefusalIsTrue
  <2>4. b \notin DOMAIN LiveBatches
    BY <2>1, LiveBatchModels
  <2>5. LiveBatches' = LiveBatches /\ Retired(batches)' = Retired(batches)
    BY <2>1, NothingHeldChanges
  <2>6. /\ (IF reply'.to = "batches" THEN reply'.what ELSE Quiet)
             = Batches!Refusal(b, IF b \in Retired(batches) THEN "Stale" ELSE "ForeignSolver")
        /\ reply'.to # "factors"
    BY <2>1, <2>3 DEF ToBatches
  <2>7. Factors!Nothing
    BY <1>4, <2>1, <2>6, NothingHeldChanges
  <2> QED BY <2>3, <2>4, <2>5, <2>6, <2>7 DEF Batches!Refuse
<1> QED BY <1>5, <1>6, <1>7, <1>8, <1>9

-----------------------------------------------------------------------------
(* A removal pass releases one factor at a time; the swaps of a selection  *)
(* and of its undoing change neither store.                                *)
LEMMA RemovalPassRefines ==
  ASSUME IInv, IInv', RemovalStep
  PROVE  /\ Factors!Nothing \/ (\E k \in RawKey : Factors!Release(k))
         /\ Batches!Nothing
<1>1. /\ pass.mode = "remove" /\ pass.index > 0 /\ ~InSelection /\ Family /\ AllAtHome /\ Family'
      /\ pass.batch \in 1..(NBatches + 1) /\ pass.index \in 0..(Capacity + 1)
      /\ reply'.to = "caller"
  BY AllIsAtHome DEF RemovalStep, InSelection, IInv, PassFits, RemovalFits, ToCaller
<1>2. pass.batch \in 1..NBatches /\ pass.index \in Places(pass.batch)
  <2>1. NBatches \in Nat
    BY <1>1, PoolTypes DEF Family, PoolsFit, NBatches
  <2>2. pass.batch \in 1..NBatches
    BY <1>1, <2>1 DEF IInv, RemovalFits
  <2>3. pass.index <= Len(KeysOf(pass.batch)) /\ Len(KeysOf(pass.batch)) \in Nat
    BY <1>1, <2>1, <2>2, BatchParts DEF IInv, RemovalFits, Family
  <2> QED BY <1>1, <2>2, <2>3, PoolBounds DEF Places
<1>3. PICK k : k = HandleAt(pass.batch, pass.index)
  OBVIOUS
<1>4. CASE k \in pass.ids
  <2>1. RemoveFactor(k)
    BY <1>3, <1>4 DEF RemovalStep, HandleAt
  <2> QED BY <1>1, <1>2, <1>3, <2>1, RemovalIsRelease
<1>5. CASE k \notin pass.ids
  <2>1. UNCHANGED <<batches, locations>>
    BY <1>3, <1>5 DEF RemovalStep, HandleAt
  <2> QED BY <1>1, <2>1, QuietStep
<1> QED BY <1>4, <1>5

LEMMA SwapIsQuiet ==
  ASSUME Family, Family', NEW n \in 1..NBatches, NEW x \in Places(n), NEW y \in Places(n),
         batches' = SwapPayloads(n, x, y), locations' = locations, reply'.to = "caller"
  PROVE  Factors!Nothing /\ Batches!Nothing
<1>1. SameBatches /\ \A k, e : Holds(k, e) => Holds(k, e)'
  BY SwapKeepsFamily
<1> QED BY <1>1, FactorsNothing, BatchesNothing

LEMMA SelectionRefines ==
  ASSUME IInv, IInv', PackStep \/ Undo
  PROVE  Factors!Nothing /\ Batches!Nothing
<1>1. Family /\ Family' /\ locations' = locations /\ reply'.to = "caller" /\ InSelection
  BY DEF IInv, PackStep, Undo, ToCaller, InSelection
<1>2. /\ pass.batch \in 1..NBatches /\ Len(KeysOf(pass.batch)) \in Nat
      /\ pass.count \in 0..Capacity /\ pass.index \in 0..(Capacity + 1)
      /\ pass.count < pass.index /\ Len(pass.swaps) \in Nat /\ pass.undo \in 0..Capacity
      /\ \A j \in 1..Len(pass.swaps) : /\ pass.swaps[j][1] \in Places(pass.batch)
                                       /\ pass.swaps[j][2] \in Places(pass.batch)
  BY <1>1, PackedBatch
<1>3. ASSUME PackStep, batches' # batches
      PROVE  Factors!Nothing /\ Batches!Nothing
  <2>1. /\ batches' = SwapPayloads(pass.batch, pass.index, pass.count + 1)
        /\ pass.index <= Len(KeysOf(pass.batch))
    BY <1>3 DEF PackStep
  <2>2. pass.index \in Places(pass.batch) /\ pass.count + 1 \in Places(pass.batch)
    BY <1>2, <2>1, PoolBounds DEF Places
  <2> QED BY <1>1, <1>2, <2>1, <2>2, SwapIsQuiet
<1>4. ASSUME Undo
      PROVE  Factors!Nothing /\ Batches!Nothing
  <2>1. PICK j : j = pass.undo
    OBVIOUS
  <2>2. /\ batches' = SwapPayloads(pass.batch, pass.swaps[j][1], pass.swaps[j][2])
        /\ pass.mode = "restore" /\ j > 0
    BY <1>4, <2>1 DEF Undo
  <2>3. j <= Len(pass.swaps)
    BY <1>1, <2>1, <2>2 DEF IInv, SelectionFits
  <2>4. j \in 1..Len(pass.swaps)
    BY <1>2, <2>1, <2>2, <2>3, PoolBounds
  <2> QED BY <1>1, <1>2, <2>2, <2>4, SwapIsQuiet
<1>5. CASE batches' = batches
  BY <1>1, <1>5, QuietStep
<1> QED BY <1>3, <1>4, <1>5

LEMMA PassStepRefines ==
  ASSUME IInv, IInv',
         \/ \E ids \in SUBSET IssuedHandles(locations) : BeginRemoval(ids) \/ BeginSelection(ids)
         \/ RemovalNextBatch \/ RemovalEnd \/ Packed \/ Restored
         \/ \E o \in Outcome : Evaluate(o)
  PROVE  Factors!Nothing /\ Batches!Nothing
<1>1. UNCHANGED <<batches, locations>> /\ reply'.to = "caller"
  <2>1. UNCHANGED <<batches, locations>> /\ (\E what : ToCaller(what))
    BY DEF BeginRemoval, BeginSelection, RemovalNextBatch, RemovalEnd, Packed, Restored, Evaluate
  <2> QED BY <2>1 DEF ToCaller
<1>2. Family /\ Family'
  BY DEF IInv
<1> QED BY <1>1, <1>2, QuietStep

LEMMA StutterRefines ==
  ASSUME UNCHANGED vars
  PROVE  UNCHANGED Factors!vars /\ UNCHANGED Batches!vars
<1>1. UNCHANGED <<batches, locations>> /\ reply' = reply
  BY DEF vars
<1>2. /\ LiveFactors' = LiveFactors /\ Retired(locations)' = Retired(locations)
      /\ LiveBatches' = LiveBatches /\ Retired(batches)' = Retired(batches)
  BY <1>1, NothingHeldChanges
<1> QED BY <1>1, <1>2 DEF Factors!vars, Batches!vars

LEMMA NextRefines ==
  IInv /\ IInv' /\ [Next]_vars => [Factors!Next]_(Factors!vars) /\ [Batches!Next]_(Batches!vars)
<1> SUFFICES ASSUME IInv, IInv', [Next]_vars
             PROVE  [Factors!Next]_(Factors!vars) /\ [Batches!Next]_(Batches!vars)
  OBVIOUS
<1>1. ASSUME \/ \E m \in Model : InsertBatch(m)
             \/ \E n \in ReserveSizes : ReserveBatches(n)
             \/ \E b \in BatchHandles : ReadModel(b) \/ RemoveEmpty(b) \/ RefuseBatch(b)
      PROVE  Factors!Next /\ Batches!Next
  BY <1>1, BatchCallRefines DEF Factors!Next, Batches!Next
<1>2. ASSUME \/ \E b \in BatchHandles : \/ \E n \in ReserveSizes : ReserveFactors(b, n)
                                        \/ \E v \in FactorPayload : InsertInto(b, v)
             \/ \E k \in FactorHandles : FactorCost(k) \/ RefuseFactor(k) \/ RemoveOne(k)
      PROVE  Factors!Next /\ Batches!Next
  BY <1>2, FactorCallRefines DEF Factors!Next, Batches!Next
<1>3. ASSUME \/ \E ids \in SUBSET IssuedHandles(locations) : BeginRemoval(ids) \/ BeginSelection(ids)
             \/ RemovalNextBatch \/ RemovalEnd \/ Packed \/ Restored
             \/ \E o \in Outcome : Evaluate(o)
      PROVE  Factors!Next /\ Batches!Next
  BY <1>3, PassStepRefines DEF Factors!Next, Batches!Next
<1>4. ASSUME RemovalStep PROVE Factors!Next /\ Batches!Next
  BY <1>4, RemovalPassRefines DEF Factors!Next, Batches!Next
<1>5. ASSUME PackStep \/ Undo PROVE Factors!Next /\ Batches!Next
  BY <1>5, SelectionRefines DEF Factors!Next, Batches!Next
<1>6. CASE UNCHANGED vars
  BY <1>6, StutterRefines
<1>7. ASSUME Next PROVE Factors!Next /\ Batches!Next
  BY <1>1, <1>2, <1>3, <1>4, <1>5, <1>7 DEF Next
<1> QED BY <1>6, <1>7

LEMMA InitRefines == Init => Factors!Init /\ Batches!Init
<1> SUFFICES ASSUME Init PROVE Factors!Init /\ Batches!Init
  OBVIOUS
<1>1. /\ IssuedHandles(batches) = {} /\ IssuedHandles(locations) = {}
      /\ reply.to = "caller"
  <2>1. \A k \in RawKey : k.slot \in Nat \ {0}
    BY PoolBounds DEF RawKey
  <2>2. Len(batches.slots) = 0 /\ Len(locations.slots) = 0
    BY DEF Init, EmptyPool
  <2> QED BY <2>1, <2>2 DEF Init, IssuedHandles
<1>2. LiveFactors = [k \in {} |-> {}] /\ LiveBatches = [k \in {} |-> {}]
  BY <1>1 DEF LiveFactors, LiveBatches
<1>3. Retired(locations) = {} /\ Retired(batches) = {}
  BY <1>1 DEF Retired
<1> QED BY <1>1, <1>2, <1>3 DEF Factors!Init, Batches!Init, Quiet, Factors!Done, Batches!Done

(* A family implements a store of factors and a store of batches.  Whatever*)
(* is moved, swapped or half way through a pass, a factor handle keeps its *)
(* payload and its batch's model; a removed handle of either kind is stale *)
(* for good and never reaches a newcomer (storage.rs:238-450).             *)
THEOREM FamilyRefinesStores == Spec => StoresRefined
<1>1. Spec => Factors!Spec /\ Batches!Spec
  BY InitRefines, NextRefines, Invariance, PTL DEF Spec, Factors!Spec, Batches!Spec
<1> QED BY <1>1 DEF StoresRefined, FactorsRefineStore, BatchesRefineStore
==============================================================================
