-------------------------- MODULE Marginalization --------------------------
(***************************************************************************)
(* The graph edits of a problem and marginalization over it (solver.rs,    *)
(* marginalization.rs): planning the affected front, collecting its rows,  *)
(* a pending prior behind a guard, and publication.                        *)
(*                                                                         *)
(* A state or a factor is its handle, which DensePool shows to be issued   *)
(* once.  A state pool is the sequence of its handles in dense order; the  *)
(* order fixes the columns of a prior and removal changes it.  The priors  *)
(* live in a dense pool of their own.  Of the numbers in a prior the model *)
(* keeps which factors they tell of, and whether any row is left.          *)
(***************************************************************************)
EXTENDS DensePoolOps, FiniteSets, SequencesExt

CONSTANTS State,      \* handles of states
          Factor,     \* handles of ordinary and batched factors
          PoolOf,     \* the state pool of a state, in schema order
          Width,      \* tangent dimension of the states of a pool
          Deps,       \* the states a factor depends on
          PriorsId    \* identity of the pool of priors

NPools == Len(Width)

ASSUME GraphData == /\ IsFiniteSet(State)
                    /\ Width \in Seq(Nat \ {0})
                    /\ PoolOf \in [State -> 1..NPools]
                    /\ Deps \in [Factor -> SUBSET State]
                    /\ PriorsId \in PoolId

VARIABLES pools,     \* StatePool.entries of each pool: its handles in dense order
          anchors,   \* StatePool.anchors of each pool
          factors,   \* live factors
          entries,   \* Priors.entries
          spare,     \* Priors.spare: [buffers, capacity]
          constant,  \* Priors.constant: factors of which nothing else is left
          run,       \* the marginalization that is running
          result,    \* how the last call ended: refused is any error, or a panic
          issued,    \* handles issued so far
          told       \* factors inserted and not taken out again by the caller

graph == <<pools, anchors, factors>>
priors == <<entries, spare, constant>>
history == <<issued, told>>
vars == <<graph, priors, run, result, history>>

Live == UNION {Range(pools[p]) : p \in 1..NPools}

(* The part of a sequence that is in a set, in its order. *)
Keep(s, S) ==
  LET kept[i \in 0..Len(s)] ==
        IF i = 0 THEN <<>>
        ELSE IF s[i] \in S THEN Append(kept[i - 1], s[i]) ELSE kept[i - 1]
  IN  kept[Len(s)]

(* All states, pool after pool: Layout visiting the schema. *)
Blocks == FlattenSeq(pools)

(* The column where each block of a layout begins; one past the last, the  *)
(* dimension.                                                              *)
Offsets(blocks) ==
  LET at[i \in 1..(Len(blocks) + 1)] ==
        IF i = 1 THEN 0 ELSE at[i - 1] + Width[PoolOf[blocks[i - 1]]]
  IN  at

Block  == [id : State, start : Nat]
Prior  == [blocks : Seq(Block), holds : SUBSET Factor]
Anchor == [prior : RawKey, state : State, column : Nat]

EmptyPrior == [blocks |-> <<>>, holds |-> {}]

Phase == {"idle", "collect", "reduce", "capture", "delete_factors", "delete_states",
          "delete_priors", "rollback"}

(* remove, affected (factors and priors) and the layout are Planning; new  *)
(* is the pending prior; at is the pool or the prior of a pass.            *)
NoRun == [phase |-> "idle", remove |-> {}, affected |-> {}, absorbed |-> {},
          layout |-> <<>>, new |-> {}, rows |-> 0, at |-> 0]

Idle == run.phase = "idle"

BlockIds(prior) == {prior.blocks[i].id : i \in 1..Len(prior.blocks)}

PriorKeys == {Raw(entries, entries.keys[i]) : i \in 1..Len(entries.keys)}

Init == /\ pools = [p \in 1..NPools |-> <<>>]
        /\ anchors = [p \in 1..NPools |-> <<>>]
        /\ factors = {}
        /\ entries = EmptyPool(PriorsId)
        /\ spare = [buffers |-> <<>>, capacity |-> 0]
        /\ constant = {}
        /\ run = NoRun
        /\ result = "ok"
        /\ issued = {} /\ told = {}

-----------------------------------------------------------------------------
(* Edits of the graph, between marginalizations. *)
AddState(s) ==
  /\ Idle /\ s \notin issued
  /\ pools' = [pools EXCEPT ![PoolOf[s]] = Append(@, s)]
  /\ issued' = issued \cup {s}
  /\ result' = "ok"
  /\ UNCHANGED <<anchors, factors, priors, run, told>>

(* The factor keeps its handle to itself unless all it depends on resolves. *)
AddFactor(f) ==
  /\ Idle /\ f \notin issued
  /\ IF Deps[f] \subseteq Live
       THEN /\ factors' = factors \cup {f}
            /\ issued' = issued \cup {f} /\ told' = told \cup {f}
            /\ result' = "ok"
       ELSE /\ result' = "refused"
            /\ UNCHANGED <<factors, issued, told>>
  /\ UNCHANGED <<pools, anchors, priors, run>>

RemoveFactor(f) ==
  /\ Idle /\ f \in issued
  /\ IF f \in factors
       THEN /\ factors' = factors \ {f}
            /\ told' = told \ {f}
            /\ result' = "ok"
       ELSE /\ result' = "refused"
            /\ UNCHANGED <<factors, told>>
  /\ UNCHANGED <<pools, anchors, priors, run, issued>>

-----------------------------------------------------------------------------
(* Validation and planning.  The front is made of the terms that mention a *)
(* removed state; its layout puts the removed states first and then, in    *)
(* schema order, the other states that those terms mention.                *)
Touching(R) == {f \in factors : Deps[f] \cap R # {}}

PriorsTouching(R) == {k \in PriorKeys : BlockIds(PoolGet(entries, k)) \cap R # {}}

FrontLayout(R) ==
  LET touched == UNION ({Deps[f] : f \in Touching(R)}
                        \cup {BlockIds(PoolGet(entries, k)) : k \in PriorsTouching(R)})
  IN  Keep(Blocks, R) \o Keep(Blocks, touched \ R)

Plan_FactorsOnly(R) ==
  run' = [NoRun EXCEPT !.phase = "collect", !.remove = R, !.affected = Touching(R),
                       !.layout = FrontLayout(R)]

Plan(R) ==
  run' = [NoRun EXCEPT !.phase = "collect", !.remove = R, !.affected = Touching(R),
                       !.absorbed = PriorsTouching(R), !.layout = FrontLayout(R)]

Marginalize(R) ==
  /\ Idle
  /\ \/ /\ R = {} /\ result' = "ok"
        /\ UNCHANGED run
     \/ /\ ~(R \subseteq Live) /\ result' = "refused"
        /\ UNCHANGED run
     \/ /\ R # {} /\ R \subseteq Live
        /\ Plan(R)
        /\ UNCHANGED result
  /\ UNCHANGED <<graph, priors, history>>

(* A factor's cost or linearization, or the geometry of a prior's anchor,  *)
(* is refused, or panics.                                                  *)
CollectFails ==
  /\ run.phase = "collect"
  /\ run' = NoRun
  /\ result' = "refused"
  /\ UNCHANGED <<graph, priors, history>>

(* spare.reserve, then spare.pop().unwrap_or_default() *)
SpareReserved ==
  LET needed == Len(spare.buffers) + Cardinality(run.absorbed) + 1
  IN  IF spare.capacity >= needed THEN spare.capacity ELSE needed

SparePopped == [buffers |-> IF spare.buffers = <<>> THEN <<>> ELSE ButLast(spare.buffers),
                capacity |-> SpareReserved]

Recycled == IF spare.buffers = <<>> THEN EmptyPrior ELSE Last(spare.buffers)

(* From here on the guard Pending is alive. *)
InsertPending ==
  /\ run.phase = "collect" /\ CanReserve(entries, 1)
  /\ entries' = PoolInsert(entries, Recycled)
  /\ spare' = SparePopped
  /\ run' = [run EXCEPT !.phase = "reduce", !.new = {Raw(entries, NextKey(entries))}]
  /\ UNCHANGED <<graph, constant, result, history>>

(* The pool of priors cannot grow; the recycled buffer is lost. *)
InsertPanics ==
  /\ run.phase = "collect" /\ ~CanReserve(entries, 1)
  /\ spare' = SparePopped
  /\ run' = NoRun
  /\ result' = "refused"
  /\ UNCHANGED <<graph, entries, constant, history>>

-----------------------------------------------------------------------------
New == CHOOSE k \in RawKey : k \in run.new

Tells == run.affected
           \cup UNION {PoolGet(entries, k).holds : k \in run.absorbed}

Separator == Keep(run.layout, State \ run.remove)

RemovedDof == Offsets(run.layout)[Len(run.layout) - Len(Separator) + 1]

ColumnOf(s) == LET i == CHOOSE i \in 1..Len(run.layout) : run.layout[i] = s
               IN  Offsets(run.layout)[i] - RemovedDof

NewBlocks == [i \in 1..Len(Separator) |->
                [id |-> Separator[i], start |-> ColumnOf(Separator[i])]]

(* Elimination leaves at most as many rows as the separator has columns. *)
Reduce ==
  /\ run.phase = "reduce"
  /\ \E rows \in 0..1 :
       /\ Separator = <<>> => rows = 0
       /\ run' = [run EXCEPT !.rows = rows, !.at = 1,
                             !.phase = IF rows > 0 THEN "capture" ELSE "delete_factors"]
  /\ entries' = PoolSet(entries, New, [blocks |-> NewBlocks, holds |-> Tells])
  /\ UNCHANGED <<graph, spare, constant, result, history>>

(* A number that is not finite, before the blocks of the recycled buffer   *)
(* are replaced or, in the sum of the constants, after; or a panic.        *)
ReduceFails ==
  /\ run.phase = "reduce"
  /\ entries' \in {PoolSet(entries, New, [blocks |-> NewBlocks, holds |-> Tells]),
                   PoolSet(entries, New, [PoolGet(entries, New) EXCEPT !.holds = Tells])}
  /\ run' = [run EXCEPT !.phase = "rollback"]
  /\ result' = "refused"
  /\ UNCHANGED <<graph, spare, constant, history>>

(* The anchors pool p contributes, in dense order. *)
Captured(p) ==
  LET of == Keep(pools[p], Range(Separator))
  IN  [i \in 1..Len(of) |-> [prior |-> New, state |-> of[i], column |-> ColumnOf(of[i])]]

CaptureAnchors ==
  /\ run.phase = "capture"
  /\ anchors' = [anchors EXCEPT ![run.at] = @ \o Captured(run.at)]
  /\ run' = IF run.at < NPools THEN [run EXCEPT !.at = @ + 1]
            ELSE [run EXCEPT !.phase = "delete_factors"]
  /\ UNCHANGED <<pools, factors, priors, result, history>>

(* An inverse is not finite, or panics, with some anchors in place. *)
CaptureFails ==
  /\ run.phase = "capture"
  /\ \E n \in 0..(Len(Captured(run.at)) - 1) :
       anchors' = [anchors EXCEPT ![run.at] = @ \o SubSeq(Captured(run.at), 1, n)]
  /\ run' = [run EXCEPT !.phase = "rollback"]
  /\ result' = "refused"
  /\ UNCHANGED <<pools, factors, priors, history>>

(* Pending's drop. *)
Without(as, keys) == Keep(as, {a \in Range(as) : a.prior \notin keys})

Rollback_KeepsAnchors ==
  /\ run.phase = "rollback"
  /\ entries' = PoolRemove(entries, New)
  /\ spare' = [spare EXCEPT !.buffers = Append(@, PoolGet(entries, New))]
  /\ run' = NoRun
  /\ UNCHANGED <<graph, constant, result, history>>

Rollback ==
  /\ run.phase = "rollback"
  /\ anchors' = [p \in 1..NPools |-> Without(anchors[p], run.new)]
  /\ entries' = PoolRemove(entries, New)
  /\ spare' = [spare EXCEPT !.buffers = Append(@, PoolGet(entries, New))]
  /\ run' = NoRun
  /\ UNCHANGED <<pools, factors, constant, result, history>>

-----------------------------------------------------------------------------
(* Publication: none of these steps can fail. *)
DeleteFactors ==
  /\ run.phase = "delete_factors"
  /\ factors' = factors \ run.affected
  /\ run' = [run EXCEPT !.phase = "delete_states", !.at = 1]
  /\ UNCHANGED <<pools, anchors, priors, result, history>>

(* remove_selected: backwards, each removal swaps the last payload in. *)
RemoveSelected(s, R) ==
  LET after[i \in 0..Len(s)] ==
        IF i = Len(s) THEN s
        ELSE LET t == after[i + 1]
             IN  IF t[i + 1] \in R THEN SwapRemove(t, i + 1) ELSE t
  IN  after[0]

DeleteStates ==
  /\ run.phase = "delete_states"
  /\ anchors' = [anchors EXCEPT ![run.at] = Without(@, run.absorbed)]
  /\ pools' = [pools EXCEPT ![run.at] = RemoveSelected(@, run.remove)]
  /\ run' = IF run.at < NPools THEN [run EXCEPT !.at = @ + 1]
            ELSE [run EXCEPT !.phase = "delete_priors", !.at = Len(entries.keys)]
  /\ UNCHANGED <<factors, priors, result, history>>

Recycle(k) == /\ entries' = PoolRemove(entries, k)
              /\ spare' = [spare EXCEPT !.buffers = Append(@, PoolGet(entries, k))]

DeletePrior_LeavesFirst ==
  /\ run.phase = "delete_priors" /\ run.at > 0
  /\ LET k == Raw(entries, entries.keys[run.at])
     IN  IF k \in run.absorbed /\ run.at > 1 THEN Recycle(k) ELSE UNCHANGED <<entries, spare>>
  /\ run' = [run EXCEPT !.at = @ - 1]
  /\ UNCHANGED <<graph, constant, result, history>>

DeletePrior ==
  /\ run.phase = "delete_priors" /\ run.at > 0
  /\ LET k == Raw(entries, entries.keys[run.at])
     IN  IF k \in run.absorbed THEN Recycle(k) ELSE UNCHANGED <<entries, spare>>
  /\ run' = [run EXCEPT !.at = @ - 1]
  /\ UNCHANGED <<graph, constant, result, history>>

(* A replacement without rows is taken back; only its constant stays. *)
Publish_DropsConstant ==
  /\ run.phase = "delete_priors" /\ run.at = 0
  /\ IF run.rows = 0 THEN Recycle(New) ELSE UNCHANGED <<entries, spare>>
  /\ run' = NoRun
  /\ result' = "ok"
  /\ UNCHANGED <<graph, constant, history>>

Publish ==
  /\ run.phase = "delete_priors" /\ run.at = 0
  /\ IF run.rows = 0
       THEN /\ Recycle(New)
            /\ constant' = constant \cup PoolGet(entries, New).holds
       ELSE UNCHANGED priors
  /\ run' = NoRun
  /\ result' = "ok"
  /\ UNCHANGED <<graph, history>>

-----------------------------------------------------------------------------
Step == \/ CollectFails \/ InsertPending \/ InsertPanics
        \/ Reduce \/ ReduceFails \/ CaptureAnchors \/ CaptureFails \/ Rollback
        \/ DeleteFactors \/ DeleteStates \/ DeletePrior \/ Publish

Next == \/ \E s \in State : AddState(s)
        \/ \E f \in Factor : AddFactor(f) \/ RemoveFactor(f)
        \/ \E R \in SUBSET State : Marginalize(R)
        \/ Step

Spec == Init /\ [][Next]_vars

-----------------------------------------------------------------------------
Run == [phase : Phase, remove : SUBSET State, affected : SUBSET Factor,
        absorbed : SUBSET RawKey, layout : Seq(State), new : SUBSET RawKey,
        rows : 0..1, at : Nat]

(* Every variable has its type, and a pool anchors only its own states.    *)
(* (StatePool, Priors, Planning)                                           *)
TypeOK ==
  /\ pools \in [1..NPools -> Seq(State)]
  /\ anchors \in [1..NPools -> Seq(Anchor)]
  /\ \A p \in 1..NPools : \A a \in Range(anchors[p]) : PoolOf[a.state] = p
  /\ factors \subseteq Factor
  /\ entries \in Pools(Prior)
  /\ spare \in [buffers : Seq(Prior), capacity : Nat]
  /\ constant \subseteq Factor
  /\ run \in Run
  /\ issued \subseteq State \cup Factor /\ told \subseteq Factor
  /\ result \in {"ok", "refused"}

(* Between calls nothing names what is gone: factors and priors depend on  *)
(* live states, anchors belong to live priors and live states; so neither  *)
(* a layout nor the evaluation of a prior fails with a KeyError, whatever  *)
(* was removed or rolled back before.  (Dependencies::check, DeleteStates) *)
ReferencesResolve ==
  Idle => /\ \A f \in factors : Deps[f] \subseteq Live
          /\ \A k \in PriorKeys : BlockIds(PoolGet(entries, k)) \subseteq Live
          /\ \A p \in 1..NPools : \A a \in Range(anchors[p]) :
               Resolves(entries, a.prior) /\ a.state \in Range(pools[p])

(* Between calls each block of each prior has exactly one anchor, in the   *)
(* pool of its state and at its column, and there are no other anchors: a  *)
(* failed marginalization leaves none behind, a second one loses none.     *)
(* (CaptureAnchors, Pending::drop, DeleteStates)                           *)
AnchorsMatch ==
  Idle => \A p \in 1..NPools :
    LET expected == {e \in PriorKeys \X (1..Cardinality(State)) :
                       LET blocks == PoolGet(entries, e[1]).blocks
                       IN  e[2] <= Len(blocks) /\ PoolOf[blocks[e[2]].id] = p}
    IN  /\ Len(anchors[p]) = Cardinality(expected)
        /\ Range(anchors[p]) =
             {LET block == PoolGet(entries, e[1]).blocks[e[2]]
              IN  [prior |-> e[1], state |-> block.id, column |-> block.start] : e \in expected}

(* While a prior is pending, the buffers that publication or rollback hand *)
(* back fit the spare list and the freed slots fit the free list: nothing  *)
(* is allocated where the code cannot fail any more.                       *)
(* (marginalization.rs:651-653, 695-719)                                   *)
ReturnsFit ==
  run.new # {} =>
    LET returned == {k \in run.absorbed : Resolves(entries, k)} \cup run.new
    IN  /\ Len(spare.buffers) + Cardinality(returned) <= spare.capacity
        /\ Len(entries.free_slots) + Cardinality(returned) <= entries.free_capacity

(* Every edit and every marginalization, however it ends, leaves a graph   *)
(* in which everything that is named is there, and every prior has its     *)
(* anchors: what the next layout, evaluation or marginalization relies on; *)
(* and until it ends, publication and rollback have room to hand back.     *)
(* (Problem, Marginalizer::run, Pending::drop)                             *)
GraphInvariant == TypeOK /\ ReferencesResolve /\ AnchorsMatch /\ ReturnsFit

(* Between calls a prior is over exactly the live states that the factors  *)
(* it stands for depend on, however many marginalizations lie between.     *)
(* (planning in Marginalizer::run)                                         *)
SeparatorIsExact ==
  Idle => \A k \in PriorKeys :
    LET prior == PoolGet(entries, k)
    IN  BlockIds(prior) = Live \cap UNION {Deps[f] : f \in prior.holds}

(* Between calls every factor the caller has inserted and not removed is   *)
(* told by exactly one term: itself, one prior, or the constant; and no    *)
(* other factor is.  (Marginalizer::run, from collection to publication)   *)
InformationOnce ==
  Idle => /\ told = factors \cup constant \cup UNION {PoolGet(entries, k).holds : k \in PriorKeys}
          /\ factors \cap constant = {}
          /\ \A k \in PriorKeys :
               LET holds == PoolGet(entries, k).holds
               IN  /\ holds \cap (factors \cup constant) = {}
                   /\ \A l \in PriorKeys \ {k} : holds \cap PoolGet(entries, l).holds = {}

(* The graph as its users see it.  A marginalization takes effect when     *)
(* publication begins: from then on what it is about to delete is gone.    *)
Published == run.phase \in {"delete_states", "delete_priors"}

PriorInGraph(k) == IF k \in run.new THEN Published /\ run.rows > 0
                   ELSE ~(Published /\ k \in run.absorbed)

PriorTerm(k) == [scope |-> BlockIds(PoolGet(entries, k)),
                 tells |-> PoolGet(entries, k).holds, prior |-> TRUE]

Information == INSTANCE InformationGraph WITH
  states <- Live \ (IF Published THEN run.remove ELSE {}),
  terms  <- {[scope |-> Deps[f], tells |-> {f}, prior |-> FALSE] : f \in factors}
              \cup {PriorTerm(k) : k \in {q \in PriorKeys : PriorInGraph(q)}},
  reply  <- IF Published THEN "ok" ELSE result,
  spent  <- constant \cup (IF Published /\ run.rows = 0 THEN PoolGet(entries, New).holds ELSE {})

(* Marginalization is atomic: the detailed steps implement the graph in    *)
(* which it is one step, and a call changes nothing when it ends in an     *)
(* error or a panic.  (solver.rs:289)                                      *)
RefinesInformationGraph == Information!Spec
=============================================================================
