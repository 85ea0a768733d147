------------------------------ MODULE BatchPool ------------------------------
(***************************************************************************)
(* A family of batches (storage.rs:238-450): one pool of batches, each     *)
(* with its packed payloads, and one directory that leads from a factor    *)
(* handle to the slot of its batch and the payload's position there.       *)
(*                                                                         *)
(* Two operations run for several steps: remove_selected, one payload at a *)
(* time, and with_selected, which packs the selected payloads of a batch   *)
(* to its front, hands them to an evaluator that may fail or panic, and    *)
(* undoes its swaps when the guard is dropped.                             *)
(***************************************************************************)
EXTENDS DensePoolOps, FiniteSets

CONSTANTS Model,         \* shared batch models
          FactorPayload,      \* factor payloads
          BatchesId,     \* identity of the pool of batches
          LocationsId,   \* identity of the directory
          ForeignKeys,   \* handles of other problems
          ReserveSizes,  \* what callers reserve room for
          MaxIssued      \* bound: handles ever issued, of batches and of factors

ASSUME FamilyIdentity ==
  /\ BatchesId \in PoolId /\ LocationsId \in PoolId /\ BatchesId # LocationsId
  /\ ForeignKeys \subseteq {k \in RawKey : k.pool \notin {BatchesId, LocationsId}}
  /\ ReserveSizes \subseteq Nat
  /\ MaxIssued \in Nat

VARIABLES batches,    \* DensePool of batches
          locations,  \* DensePool of locations, the directory
          pass,       \* the running with_selected or remove_selected
          reply       \* what the last call returned, and which handles it is about

vars == <<batches, locations, pass, reply>>

Location  == [batch_slot : 1..Capacity, dense_index : 1..Capacity]
Batch     == [model : Model, values : Seq(FactorPayload), keys : Seq(LocalKey)]
Evaluated == [model : Model, payload : FactorPayload]

Mode    == {"idle", "remove", "pack", "evaluate", "restore"}
Outcome == {"ok", "error", "panic"}

NoPass == [mode |-> "idle", ids |-> {}, batch |-> 0, index |-> 0, count |-> 0,
           swaps |-> <<>>, undo |-> 0, outcome |-> "ok"]

Idle == pass.mode = "idle"

-----------------------------------------------------------------------------
(* The payload a packed local key stands for, wherever it lies at present. *)
PackedIn(b, k) == \E i \in 1..Len(b.keys) : Raw(locations, b.keys[i]) = k

EvaluatedBy(b, k) ==
  CHOOSE e \in Evaluated :
    \E i \in 1..Len(b.keys) : /\ Raw(locations, b.keys[i]) = k
                              /\ e = [model |-> b.model, payload |-> b.values[i]]

LiveFactors ==
  [k \in {j \in IssuedHandles(locations) :
            \E b \in 1..Len(batches.values) : PackedIn(batches.values[b], j)}
     |-> LET b == CHOOSE c \in 1..Len(batches.values) : PackedIn(batches.values[c], k)
         IN  EvaluatedBy(batches.values[b], k)]

LiveBatches ==
  [k \in {j \in IssuedHandles(batches) : Resolves(batches, j)} |-> PoolGet(batches, k).model]

Retired(p) == {k \in IssuedHandles(p) : KeyStatus(p, k) = "Stale"}

(* The family is two handle stores, and every call is a step of both.      *)
Quiet == [kind |-> "done"]

Factors == INSTANCE HandleStore
             WITH Key <- RawKey, Value <- Evaluated, live <- LiveFactors,
                  retired <- Retired(locations),
                  reply <- IF reply.to = "factors" THEN reply.what ELSE Quiet

Batches == INSTANCE HandleStore
             WITH Key <- RawKey, Value <- Model, live <- LiveBatches,
                  retired <- Retired(batches),
                  reply <- IF reply.to = "batches" THEN reply.what ELSE Quiet

ToFactors(what) == reply' = [to |-> "factors", what |-> what]
ToBatches(what) == reply' = [to |-> "batches", what |-> what]
ToCaller(what)  == reply' = [to |-> "caller", what |-> what]

Init == /\ batches = EmptyPool(BatchesId)
        /\ locations = EmptyPool(LocationsId)
        /\ pass = NoPass
        /\ reply = [to |-> "caller", what |-> "ok"]

-----------------------------------------------------------------------------
(* Batches: insert_batch, reserve, model, remove_empty. *)

(* The bound: a pool that could issue a handle has not issued too many.    *)
MayIssue(p) == CanReserve(p, 1) => Cardinality(IssuedHandles(p)) < MaxIssued

InsertBatch(m) ==
  /\ Idle /\ MayIssue(batches)
  /\ IF CanReserve(batches, 1)
       THEN /\ batches' = PoolInsert(batches, [model |-> m, values |-> <<>>, keys |-> <<>>])
            /\ ToBatches(Batches!Handle(Raw(batches, NextKey(batches))))
       ELSE /\ ToBatches(Batches!Panic)
            /\ UNCHANGED batches
  /\ UNCHANGED <<locations, pass>>

ReserveBatches(n) ==
  /\ Idle
  /\ IF CanReserve(batches, n)
       THEN batches' = PoolReserve(batches, n) /\ ToCaller("ok")
       ELSE batches' = batches /\ ToCaller("panic")
  /\ UNCHANGED <<locations, pass>>

ReadModel(b) ==
  /\ Idle
  /\ Resolves(batches, b)
  /\ ToBatches(Batches!Payload(b, PoolGet(batches, b).model))
  /\ UNCHANGED <<batches, locations, pass>>

RemoveEmpty(b) ==
  /\ Idle
  /\ Resolves(batches, b)
  /\ IF PoolGet(batches, b).values = <<>>
       THEN batches' = PoolRemove(batches, b) /\ ToBatches(Batches!Done)
       ELSE batches' = batches /\ ToCaller("BatchNotEmpty")
  /\ UNCHANGED <<locations, pass>>

(* What model, remove_empty, reserve_factors and insert_into say of a      *)
(* handle that does not resolve.                                           *)
RefuseBatch(b) ==
  /\ Idle
  /\ ~Resolves(batches, b)
  /\ ToBatches(Batches!Refusal(b, KeyStatus(batches, b)))
  /\ UNCHANGED <<batches, locations, pass>>

-----------------------------------------------------------------------------
(* Factors: reserve_factors, insert_into, factor_cost, remove_factor. *)

ReserveFactors(b, n) ==
  /\ Idle
  /\ Resolves(batches, b)
  /\ IF CanReserve(locations, n)
       THEN locations' = PoolReserve(locations, n) /\ ToCaller("ok")
       ELSE locations' = locations /\ ToCaller("panic")
  /\ UNCHANGED <<batches, pass>>

(* insert_into publishes the location before it pushes the payload: the    *)
(* position it writes is where the payload will be.                        *)
InsertInto(b, v) ==
  /\ Idle /\ MayIssue(locations)
  /\ Resolves(batches, b)
  /\ LET old == PoolGet(batches, b)
         at  == [batch_slot |-> b.slot, dense_index |-> Len(old.values) + 1]
     IN  IF CanReserve(locations, 1)
           THEN /\ locations' = PoolInsert(locations, at)
                /\ batches' = PoolSet(batches, b,
                                [old EXCEPT !.values = Append(@, v),
                                            !.keys = Append(@, NextKey(locations))])
                /\ ToFactors(Factors!Handle(Raw(locations, NextKey(locations))))
           ELSE /\ ToFactors(Factors!Panic)
                /\ UNCHANGED <<batches, locations>>
  /\ UNCHANGED pass

(* The batch and the position the directory gives for a factor. *)
BatchOf(k) == AtSlot(batches, PoolGet(locations, k).batch_slot)

(* factor_cost evaluates one payload through its batch's model, unless the *)
(* evaluator fails.                                                        *)
FactorCost(k) ==
  /\ Idle
  /\ Resolves(locations, k)
  /\ \/ ToFactors(Factors!Payload(k, [model   |-> BatchOf(k).model,
                                      payload |-> BatchOf(k).values[PoolGet(locations, k).dense_index]]))
     \/ ToCaller("error")
  /\ UNCHANGED <<batches, locations, pass>>

RefuseFactor(k) ==
  /\ Idle
  /\ ~Resolves(locations, k)
  /\ ToFactors(Factors!Refusal(k, KeyStatus(locations, k)))
  /\ UNCHANGED <<batches, locations, pass>>

(* remove_factor: the payload that takes the removed one's place gets its  *)
(* new position in the directory before the removed entry is retired.      *)
BatchWithout(k) ==
  LET i == PoolGet(locations, k).dense_index
  IN  [BatchOf(k) EXCEPT !.values = SwapRemove(@, i), !.keys = SwapRemove(@, i)]

RemoveFactor(k) ==
  LET at    == PoolGet(locations, k)
      keys  == BatchWithout(k).keys
      moved == Raw(locations, keys[at.dense_index])
      fixed == IF at.dense_index > Len(keys) THEN locations
               ELSE PoolSet(locations, moved,
                            [PoolGet(locations, moved) EXCEPT !.dense_index = at.dense_index])
  IN  /\ batches' = AtSlotSet(batches, at.batch_slot, BatchWithout(k))
      /\ locations' = PoolRemove(fixed, k)

RemoveOne(k) ==
  /\ Idle
  /\ Resolves(locations, k)
  /\ RemoveFactor(k)
  /\ ToFactors(Factors!Done)
  /\ UNCHANGED pass

-----------------------------------------------------------------------------
(* remove_selected: every batch in turn, its packed keys backwards.  The   *)
(* handles it finds resolve: the code expects it.                          *)

KeysOf(b) == batches.values[b].keys

(* The loop turns to batch b, if there is one. *)
EnterRemoval(ids, b) ==
  pass' = [NoPass EXCEPT !.mode = "remove", !.ids = ids, !.batch = b,
                         !.index = IF b <= Len(batches.values) THEN Len(KeysOf(b)) ELSE 0]

BeginRemoval(ids) ==
  /\ Idle
  /\ EnterRemoval(ids, 1)
  /\ ToCaller("ok")
  /\ UNCHANGED <<batches, locations>>

RemovalStep ==
  /\ pass.mode = "remove"
  /\ pass.index > 0
  /\ LET k == Raw(locations, KeysOf(pass.batch)[pass.index])
     IN  IF k \in pass.ids THEN RemoveFactor(k) ELSE UNCHANGED <<batches, locations>>
  /\ pass' = [pass EXCEPT !.index = @ - 1]
  /\ ToCaller("ok")

RemovalNextBatch ==
  /\ pass.mode = "remove"
  /\ pass.batch <= Len(batches.values)
  /\ pass.index = 0
  /\ EnterRemoval(pass.ids, pass.batch + 1)
  /\ ToCaller("ok")
  /\ UNCHANGED <<batches, locations>>

RemovalEnd ==
  /\ pass.mode = "remove"
  /\ pass.batch > Len(batches.values)
  /\ pass' = NoPass
  /\ ToCaller("ok")
  /\ UNCHANGED <<batches, locations>>

-----------------------------------------------------------------------------
(* with_selected. *)

SwapIn(s, i, j) == [s EXCEPT ![i] = s[j], ![j] = s[i]]

SwapPayloads_KeysOnly(b, i, j) == [batches EXCEPT !.values[b].keys = SwapIn(@, i, j)]

SwapPayloads(b, i, j) ==
  [batches EXCEPT !.values[b].values = SwapIn(@, i, j), !.values[b].keys = SwapIn(@, i, j)]

(* The loop turns to batch b with an empty swap log, or has seen them all. *)
TurnTo(ids, b) ==
  pass' = IF b <= Len(batches.values)
            THEN [NoPass EXCEPT !.mode = "pack", !.ids = ids, !.batch = b, !.index = 1]
            ELSE NoPass

BeginSelection(ids) ==
  /\ Idle
  /\ TurnTo(ids, 1)
  /\ ToCaller("ok")
  /\ UNCHANGED <<batches, locations>>

(* One payload is examined, and swapped to the end of the selected ones.   *)
PackStep_SwapsWithFirst ==
  /\ pass.mode = "pack"
  /\ pass.index <= Len(KeysOf(pass.batch))
  /\ IF Raw(locations, KeysOf(pass.batch)[pass.index]) \notin pass.ids
       THEN /\ pass' = [pass EXCEPT !.index = @ + 1]
            /\ UNCHANGED batches
       ELSE /\ pass' = [pass EXCEPT !.index = @ + 1, !.count = @ + 1,
                          !.swaps = IF pass.index = 1 THEN @ ELSE Append(@, <<pass.index, 1>>)]
            /\ batches' = SwapPayloads(pass.batch, pass.index, 1)
  /\ ToCaller("ok")
  /\ UNCHANGED locations

PackStep ==
  /\ pass.mode = "pack"
  /\ pass.index <= Len(KeysOf(pass.batch))
  /\ LET at == pass.count + 1
     IN  IF Raw(locations, KeysOf(pass.batch)[pass.index]) \notin pass.ids
           THEN /\ pass' = [pass EXCEPT !.index = @ + 1]
                /\ UNCHANGED batches
           ELSE /\ pass' = [pass EXCEPT !.index = @ + 1, !.count = at,
                              !.swaps = IF pass.index = at THEN @
                                        ELSE Append(@, <<pass.index, at>>)]
                /\ batches' = IF pass.index = at THEN batches
                              ELSE SwapPayloads(pass.batch, pass.index, at)
  /\ ToCaller("ok")
  /\ UNCHANGED locations

(* Nothing selected here: the guard is dropped without an evaluation. *)
Packed ==
  /\ pass.mode = "pack"
  /\ pass.index > Len(KeysOf(pass.batch))
  /\ pass' = [pass EXCEPT !.mode = IF pass.count > 0 THEN "evaluate" ELSE "restore",
                          !.undo = Len(pass.swaps)]
  /\ ToCaller("ok")
  /\ UNCHANGED <<batches, locations>>

(* The evaluator sees the states and the packed slice, and may fail. *)
Evaluate(outcome) ==
  /\ pass.mode = "evaluate"
  /\ pass' = [pass EXCEPT !.mode = "restore", !.outcome = outcome]
  /\ ToCaller("ok")
  /\ UNCHANGED <<batches, locations>>

(* Drop: the logged swaps, last first. *)
Undo_Forwards ==
  /\ pass.mode = "restore"
  /\ pass.undo > 0
  /\ LET swap == pass.swaps[Len(pass.swaps) + 1 - pass.undo]
     IN  batches' = SwapPayloads(pass.batch, swap[1], swap[2])
  /\ pass' = [pass EXCEPT !.undo = @ - 1]
  /\ ToCaller("ok")
  /\ UNCHANGED locations

Undo ==
  /\ pass.mode = "restore"
  /\ pass.undo > 0
  /\ LET swap == pass.swaps[pass.undo]
     IN  batches' = SwapPayloads(pass.batch, swap[1], swap[2])
  /\ pass' = [pass EXCEPT !.undo = @ - 1]
  /\ ToCaller("ok")
  /\ UNCHANGED locations

(* After the drop an error or a panic ends the pass. *)
Restored ==
  /\ pass.mode = "restore"
  /\ pass.undo = 0
  /\ IF pass.outcome = "ok" THEN TurnTo(pass.ids, pass.batch + 1) ELSE pass' = NoPass
  /\ ToCaller(pass.outcome)
  /\ UNCHANGED <<batches, locations>>

-----------------------------------------------------------------------------
BatchHandles  == IssuedHandles(batches) \cup ForeignKeys
FactorHandles == IssuedHandles(locations) \cup ForeignKeys

Next == \/ \E m \in Model : InsertBatch(m)
        \/ \E n \in ReserveSizes : ReserveBatches(n)
        \/ \E b \in BatchHandles : \/ ReadModel(b) \/ RemoveEmpty(b) \/ RefuseBatch(b)
                                   \/ \E n \in ReserveSizes : ReserveFactors(b, n)
                                   \/ \E v \in FactorPayload : InsertInto(b, v)
        \/ \E k \in FactorHandles : FactorCost(k) \/ RefuseFactor(k) \/ RemoveOne(k)
        \/ \E ids \in SUBSET IssuedHandles(locations) : BeginRemoval(ids) \/ BeginSelection(ids)
        \/ RemovalStep \/ RemovalNextBatch \/ RemovalEnd
        \/ PackStep \/ Packed \/ (\E o \in Outcome : Evaluate(o)) \/ Undo \/ Restored

Spec == Init /\ [][Next]_vars

-----------------------------------------------------------------------------
(* The pool, its handles and the packed selection are of their types: the  *)
(* fields of BatchPool and of the pack guard (storage.rs:240-323).          *)
TypeOK ==
  /\ batches \in Pools(Batch) /\ batches.id = BatchesId
  /\ locations \in Pools(Location) /\ locations.id = LocationsId
  /\ pass \in [mode : Mode, ids : SUBSET RawKey, batch : 0..(Capacity + 1),
               index : 0..(Capacity + 1), count : 0..Capacity,
               swaps : Seq((1..Capacity) \X (1..Capacity)), undo : 0..Capacity,
               outcome : Outcome]
  /\ reply.to \in {"factors", "batches", "caller"}

(* storage.rs:275-276 "restoring the exact order even on panic": outside   *)
(* with_selected the directory and the packed payloads describe each other.*)
(* As with_selected never writes the directory, this also says that every  *)
(* batch is back in the order it had before.                               *)
Selecting(b) == pass.mode \in {"pack", "evaluate", "restore"} /\ b = pass.batch

EntryLeadsHome(b, i) ==
  LET k == Raw(locations, KeysOf(b)[i])
  IN  /\ Resolves(locations, k)
      /\ PoolGet(locations, k) = [batch_slot |-> batches.keys[b].slot, dense_index |-> i]

EntryIsPacked(l) ==
  LET at == locations.values[l]
      s  == at.batch_slot
  IN  /\ s <= Len(batches.slots)
      /\ batches.slots[s].dense_index # VACANT
      /\ at.dense_index <= Len(AtSlot(batches, s).keys)
      /\ ~Selecting(batches.slots[s].dense_index) =>
           AtSlot(batches, s).keys[at.dense_index] = locations.keys[l]

(* The directory and the batches describe the same factors: every payload  *)
(* of a batch has the directory entry that its key names, at its position, *)
(* and every entry points at a payload, except that the swaps of a packed  *)
(* selection are not in the directory while it is evaluated                *)
(* (storage.rs:281-323, 431-449).                                          *)
DirectoryOk ==
  /\ TypeOK
  /\ PoolOk(batches) /\ PoolOk(locations)
  /\ \A b \in 1..Len(batches.values) :
       /\ Len(KeysOf(b)) = Len(batches.values[b].values)
       /\ ~Selecting(b) => \A i \in 1..Len(KeysOf(b)) : EntryLeadsHome(b, i)
  /\ \A l \in 1..Len(locations.values) : EntryIsPacked(l)

(* The evaluator is shown exactly the selected payloads of the batch, each *)
(* once and in the order the batch has them: the sink expects the order of *)
(* the layout, which was taken from the batch (marginalization.rs:753-762).*)
SelectionExact ==
  pass.mode = "evaluate" =>
    LET shown  == [i \in 1..pass.count |-> Raw(locations, KeysOf(pass.batch)[i])]
        slot   == batches.keys[pass.batch].slot
        chosen == {k \in pass.ids : /\ Resolves(locations, k)
                                    /\ PoolGet(locations, k).batch_slot = slot}
    IN  /\ {shown[i] : i \in 1..pass.count} = chosen
        /\ \A i, j \in 1..pass.count :
             i < j => PoolGet(locations, shown[i]).dense_index
                        < PoolGet(locations, shown[j]).dense_index

(* remove_selected leaves no selected payload in the batches it is done    *)
(* with nor behind the position it looks at; when it has seen every batch, *)
(* no selected handle resolves.                                            *)
RemovalIsThorough ==
  pass.mode = "remove" =>
    /\ \A b \in 1..Len(batches.values) : \A i \in 1..Len(KeysOf(b)) :
         Raw(locations, KeysOf(b)[i]) \in pass.ids =>
           b > pass.batch \/ (b = pass.batch /\ i <= pass.index)
    /\ pass.batch > Len(batches.values) => \A k \in pass.ids : ~Resolves(locations, k)

(* What every operation on a batch family finds and leaves, in the middle  *)
(* of passes too: the two pools agree, and a removal misses nothing        *)
(* (storage.rs:272-450).                                                   *)
BatchInvariant == DirectoryOk /\ RemovalIsThorough

(* Factors and batches are each a handle store: whatever is moved, swapped *)
(* or half way through a pass, a live factor handle keeps its own payload  *)
(* and its batch's model, and a removed one is stale for good.             *)
FactorsRefineStore == Factors!Spec

(* The same of batch handles: remove_empty retires one for good and moves  *)
(* no batch under the handle of another (storage.rs:340-347).              *)
BatchesRefineStore == Batches!Spec

(* Both at once: slots of batches and of the directory are reused          *)
(* independently, and no stale handle of either kind reaches a newcomer.   *)
StoresRefined == FactorsRefineStore /\ BatchesRefineStore

(* storage.rs:354-355 "Empty batches stay alive and reusable until this    *)
(* pool is dropped": a batch handle, once issued, resolves from then on.   *)
BatchesStayAlive == \A b \in IssuedHandles(batches) : Resolves(batches, b)
=============================================================================
