------------------------------ MODULE DensePool ------------------------------
(***************************************************************************)
(* One DensePool (dense.rs) and its callers.  The handles a caller can     *)
(* present are those some pool issued: handles have no public constructor. *)
(* StatePool::remove_selected and FactorPool::remove_selected (storage.rs) *)
(* run here too, one iteration of their loop a step.                       *)
(***************************************************************************)
EXTENDS DensePoolOps

CONSTANTS Value,        \* payloads
          Self,         \* the identity of this pool
          ForeignKeys   \* handles issued by other pools

ASSUME PoolIdentity == /\ Self \in PoolId
                       /\ ForeignKeys \subseteq {k \in RawKey : k.pool # Self}

VARIABLES pool,    \* the pool
          issued,  \* every handle the pool has handed out
          sweep,   \* the running remove_selected: its ids and the position it looks at
          reply    \* what the last call returned, and of which handle

vars == <<pool, issued, sweep, reply>>

Idle == [ids |-> {}, index |-> 0]

(* What callers are promised: a handle is live while it resolves, to the   *)
(* payload it resolves to, and retired once the pool calls it stale.       *)
Live    == [k \in {j \in issued : Resolves(pool, j)} |-> PoolGet(pool, k)]
Retired == {k \in issued : KeyStatus(pool, k) = "Stale"}

Store == INSTANCE HandleStore WITH Key <- RawKey, live <- Live, retired <- Retired

Init == /\ pool = EmptyPool(Self)
        /\ issued = {}
        /\ sweep = Idle
        /\ reply = Store!Done

Presentable == issued \cup ForeignKeys

Reserve(n) ==
  /\ sweep.index = 0
  /\ IF CanReserve(pool, n)
       THEN pool' = PoolReserve(pool, n) /\ reply' = Store!Done
       ELSE pool' = pool /\ reply' = Store!Panic
  /\ UNCHANGED <<issued, sweep>>

Insert(v) ==
  /\ sweep.index = 0
  /\ CanReserve(pool, 1)
  /\ pool' = PoolInsert(pool, v)
  /\ issued' = issued \cup {Raw(pool, NextKey(pool))}
  /\ reply' = Store!Handle(Raw(pool, NextKey(pool)))
  /\ UNCHANGED sweep

(* insert reserves first: at the end of the index space it panics before   *)
(* it has touched anything.                                                *)
InsertExhausted ==
  /\ sweep.index = 0
  /\ ~CanReserve(pool, 1)
  /\ reply' = Store!Panic
  /\ UNCHANGED <<pool, issued, sweep>>

Set(k, v) ==
  /\ sweep.index = 0
  /\ Resolves(pool, k)
  /\ pool' = PoolSet(pool, k, v)
  /\ reply' = Store!Done
  /\ UNCHANGED <<issued, sweep>>

Get(k) ==
  /\ sweep.index = 0
  /\ Resolves(pool, k)
  /\ reply' = Store!Payload(k, PoolGet(pool, k))
  /\ UNCHANGED <<pool, issued, sweep>>

Remove(k) ==
  /\ sweep.index = 0
  /\ Resolves(pool, k)
  /\ pool' = PoolRemove(pool, k)
  /\ reply' = Store!Payload(k, PoolGet(pool, k))
  /\ UNCHANGED <<issued, sweep>>

(* get, get_mut, index and remove refuse a handle alike. *)
Refuse(k) ==
  /\ sweep.index = 0
  /\ ~Resolves(pool, k)
  /\ reply' = Store!Refusal(k, KeyStatus(pool, k))
  /\ UNCHANGED <<pool, issued, sweep>>

(* remove_selected walks the packed keys backwards, removing as it goes. *)
BeginSweep(ids) ==
  /\ sweep.index = 0
  /\ sweep' = [ids |-> ids, index |-> Len(pool.keys)]
  /\ reply' = Store!Done
  /\ UNCHANGED <<pool, issued>>

SweepStep ==
  /\ sweep.index > 0
  /\ LET k == Raw(pool, pool.keys[sweep.index])
     IN  pool' = IF k \in sweep.ids THEN PoolRemove(pool, k) ELSE pool
  /\ sweep' = [sweep EXCEPT !.index = @ - 1]
  /\ reply' = Store!Done
  /\ UNCHANGED issued

Next == \/ \E n \in 0..VACANT : Reserve(n)
        \/ \E v \in Value : Insert(v)
        \/ InsertExhausted
        \/ \E k \in Presentable : \/ \E v \in Value : Set(k, v)
                                  \/ Get(k) \/ Remove(k) \/ Refuse(k)
        \/ \E ids \in SUBSET issued : BeginSweep(ids)
        \/ SweepStep

Spec == Init /\ [][Next]_vars

-----------------------------------------------------------------------------
(* Type invariant. *)
TypeOK == /\ pool \in Pools(Value)
          /\ pool.id = Self
          /\ issued \subseteq {k \in RawKey : k.pool = Self}
          /\ sweep \in [ids : SUBSET RawKey, index : 0..Capacity]
          /\ reply \in Store!Reply

(* dense.rs:162-185, the check of the unit tests: packed keys, slots and   *)
(* free list describe the same set of payloads after every call and after  *)
(* every iteration of a removal loop.                                      *)
StructureOk == PoolOk(pool)

(* dense.rs:51-52 "The free list can hold every slot, so deleting entries  *)
(* never grows it": with what reserve granted, remove never allocates, so  *)
(* it cannot fail half way.                                                *)
RemovalNeverAllocates == Len(pool.free_slots) <= pool.free_capacity

(* The slots remember every handle the pool ever gave out: each at its     *)
(* slot's generation or behind it, and strictly behind while the slot waits*)
(* on the free list.  So the next payload there gets a handle nobody holds,*)
(* and no generation is skipped.                                           *)
SlotsRememberHandles == issued = IssuedHandles(pool)

(* remove_selected removes while it iterates: whatever lies behind the     *)
(* position it looks at has been dealt with, although swap_remove moves    *)
(* payloads backwards, and once it has ended no selected handle resolves.  *)
SweepIsThorough ==
  /\ sweep.index <= Len(pool.keys) /\ sweep.ids \subseteq issued
  /\ \A k \in sweep.ids : Resolves(pool, k) => PoolIndex(pool, k) <= sweep.index

(* What holds of a pool between any two calls and between any two removals*)
(* of a loop: its buffers describe the same payloads (dense.rs:162-185),   *)
(* the slots know every handle given out, a loop of removals has dealt with*)
(* what lies behind it, and the next removal has room for what it frees.   *)
PoolInvariant == /\ TypeOK
                 /\ StructureOk
                 /\ SlotsRememberHandles
                 /\ SweepIsThorough
                 /\ RemovalNeverAllocates

(* No slot leaks: insert is refused only when every slot is live or has    *)
(* issued its last generation.                                             *)
RefusedOnlyWhenSpent ==
  ~CanReserve(pool, 1) =>
    \A s \in 1..Capacity :
      \/ \E k \in issued : k.slot = s /\ Resolves(pool, k)
      \/ [pool |-> Self, slot |-> s, generation |-> MaxGeneration] \in issued

(* Every call is a step of the handle store or invisible to it: a released *)
(* handle stays refused for ever, a live one keeps its own payload whatever*)
(* moves, and each reply is the one the store gives.                       *)
RefinesHandleStore == Store!Spec
=============================================================================
