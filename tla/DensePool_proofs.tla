-------------------------- MODULE DensePool_proofs --------------------------
(***************************************************************************)
(* The safety of DensePool for every capacity, generation width and set of *)
(* payloads: the inductive invariant, the invariants it implies, and that  *)
(* the pool implements HandleStore.  What tells the handles of two pools   *)
(* apart is that no two were created with one identity: the second part    *)
(* proves this of the counter, for any number of threads and identities.   *)
(***************************************************************************)
EXTENDS DensePool, PoolIds, DensePoolOps_proofs

(* Structure alone is not inductive: a handle is fresh only because none   *)
(* was issued ahead of its slot, and a sweep is thorough only because its  *)
(* ids cannot be issued anew.                                              *)
IInv == TypeOK /\ StructureOk /\ SlotsRememberHandles /\ SweepIsThorough

LEMMA InitIInv == Init => IInv
<1> SUFFICES ASSUME Init PROVE IInv
  OBVIOUS
<1>1. pool \in Pools(Value) /\ PoolOk(pool) /\ pool.id = Self
  BY EmptyPoolOk, PoolIdentity DEF Init, EmptyPool
<1>2. reply \in Store!Reply
  BY DEF Init, Store!Done, Store!Reply
<1>3. TypeOK
  BY <1>1, <1>2, PoolBounds DEF Init, TypeOK, Idle
<1>4. SlotsRememberHandles /\ SweepIsThorough
  BY EmptySeq DEF Init, EmptyPool, Idle, SlotsRememberHandles, IssuedHandles, SweepIsThorough, RawKey
<1>5. QED
  BY <1>1, <1>3, <1>4 DEF IInv, StructureOk

-----------------------------------------------------------------------------
(* The inductive step, one lemma per action. *)

LEMMA ReserveKeepsIInv ==
  ASSUME IInv, NEW n \in 0..VACANT, Reserve(n)
  PROVE  IInv'
<1>1. pool \in Pools(Value) /\ PoolOk(pool) /\ pool.id = Self /\ n \in Nat
  BY DEF IInv, TypeOK, StructureOk
<1>2. CASE pool' = pool
  BY <1>2 DEF IInv, TypeOK, StructureOk, SlotsRememberHandles, SweepIsThorough, Reserve,
              Store!Reply, Store!Done, Store!Panic
<1>3. CASE pool' = PoolReserve(pool, n)
  <2>1. /\ pool' \in Pools(Value) /\ PoolOk(pool')
        /\ pool' = [pool EXCEPT !.free_capacity = pool'.free_capacity]
    BY <1>1, <1>3, PoolReserveOk
  <2>2. /\ pool'.id = pool.id /\ pool'.keys = pool.keys /\ pool'.slots = pool.slots
        /\ pool'.free_slots = pool.free_slots
    BY <1>1, <2>1 DEF Pools
  <2>3. reply' \in Store!Reply
    BY DEF Reserve, Store!Reply, Store!Done, Store!Panic
  <2>4. TypeOK'
    BY <1>1, <2>1, <2>2, <2>3 DEF IInv, TypeOK, Reserve
  <2>5. SlotsRememberHandles'
    BY <2>2, SameSlotsSameIssued DEF IInv, SlotsRememberHandles, Reserve
  <2>6. SweepIsThorough'
    BY <2>2 DEF IInv, SweepIsThorough, Reserve, Resolves, KeyStatus, PoolIndex
  <2>7. QED
    BY <2>1, <2>4, <2>5, <2>6 DEF IInv, StructureOk
<1>4. QED
  BY <1>2, <1>3 DEF Reserve

LEMMA InsertKeepsIInv ==
  ASSUME IInv, NEW v \in Value, Insert(v)
  PROVE  IInv'
<1>1. /\ pool \in Pools(Value) /\ PoolOk(pool) /\ pool.id = Self /\ CanReserve(pool, 1)
      /\ pool' = PoolInsert(pool, v)
  BY DEF IInv, TypeOK, StructureOk, Insert
<1>2. PICK new : new = Raw(pool, NextKey(pool))
  OBVIOUS
<1>3. /\ new \in RawKey /\ new.pool = Self /\ pool'.id = Self
      /\ \A j \in RawKey : j # new /\ j.slot <= Len(pool.slots) =>
           KeyStatus(pool', j) = KeyStatus(pool, j)
  BY <1>1, <1>2, InsertLookup
<1>4. pool' \in Pools(Value) /\ PoolOk(pool')
  BY <1>1, PoolInsertOk
<1>5. TypeOK'
  <2>1. reply' = Store!Handle(new) /\ issued' = issued \cup {new} /\ sweep' = sweep
    BY <1>2 DEF Insert
  <2>2. reply' \in Store!Reply
    BY <1>3, <2>1 DEF Store!Reply
  <2>3. QED
    BY <1>3, <1>4, <2>1, <2>2 DEF IInv, TypeOK
<1>6. new \notin issued
  BY <1>1, <1>2, InsertIssues DEF IInv, SlotsRememberHandles
<1>7. SweepIsThorough'
  <2>1. /\ sweep' = sweep /\ sweep.ids \subseteq issued /\ issued \subseteq issued'
        /\ sweep.index = 0 /\ issued \subseteq RawKey
    BY DEF IInv, TypeOK, SweepIsThorough, Insert
  <2>2. ASSUME NEW h \in sweep.ids PROVE ~Resolves(pool', h)
    <3>1. h \in RawKey /\ h # new /\ h.slot <= Len(pool.slots)
      BY <1>6, <2>1 DEF IInv, SlotsRememberHandles, IssuedHandles
    <3>2. ~Resolves(pool, h)
      <4>1. SUFFICES ASSUME Resolves(pool, h) PROVE FALSE
        OBVIOUS
      <4>2. PoolIndex(pool, h) <= 0
        BY <2>1, <4>1 DEF IInv, SweepIsThorough
      <4>3. PoolIndex(pool, h) \in 1..Len(pool.keys)
        BY <1>1, <3>1, <4>1, ResolvedKeyIsPacked
      <4>4. QED
        BY <4>2, <4>3
    <3>3. QED
      BY <1>3, <3>1, <3>2 DEF Resolves
  <2>3. 0 <= Len(pool'.keys)
    BY <1>4, PoolTypes
  <2>4. QED
    BY <2>1, <2>2, <2>3 DEF SweepIsThorough
<1>8. QED
  <2>1. issued' = issued \cup {new}
    BY <1>2 DEF Insert
  <2>2. SlotsRememberHandles'
    BY <1>1, <1>2, <2>1, InsertIssues DEF IInv, SlotsRememberHandles
  <2>3. QED
    BY <1>4, <1>5, <1>7, <2>2 DEF IInv, StructureOk

LEMMA SetKeepsIInv ==
  ASSUME IInv, NEW k \in Presentable, NEW v \in Value, Set(k, v)
  PROVE  IInv'
<1>1. /\ pool \in Pools(Value) /\ PoolOk(pool) /\ pool.id = Self /\ Resolves(pool, k)
      /\ pool' = PoolSet(pool, k, v) /\ k \in RawKey
  BY PoolIdentity DEF IInv, TypeOK, StructureOk, Set, Presentable
<1>2. /\ pool' = [pool EXCEPT !.values = [@ EXCEPT ![PoolIndex(pool, k)] = v]]
      /\ pool' \in Pools(Value) /\ PoolOk(pool')
  BY <1>1, PoolSetOk
<1>3. /\ pool'.id = pool.id /\ pool'.keys = pool.keys /\ pool'.slots = pool.slots
      /\ pool'.free_slots = pool.free_slots
  BY <1>1, <1>2 DEF Pools
<1>4. reply' \in Store!Reply
  BY DEF Set, Store!Reply, Store!Done
<1>5. TypeOK'
  BY <1>1, <1>2, <1>3, <1>4 DEF IInv, TypeOK, Set
<1>6. SlotsRememberHandles'
  BY <1>3, SameSlotsSameIssued DEF IInv, SlotsRememberHandles, Set
<1>7. SweepIsThorough'
  BY <1>3 DEF IInv, SweepIsThorough, Set, Resolves, KeyStatus, PoolIndex
<1>8. QED
  BY <1>2, <1>5, <1>6, <1>7 DEF IInv, StructureOk

LEMMA RemoveKeepsIInv ==
  ASSUME IInv, NEW k \in Presentable, Remove(k)
  PROVE  IInv'
<1>1. /\ pool \in Pools(Value) /\ PoolOk(pool) /\ pool.id = Self /\ Resolves(pool, k)
      /\ pool' = PoolRemove(pool, k) /\ k \in RawKey
  BY PoolIdentity DEF IInv, TypeOK, StructureOk, Remove, Presentable
<1>2. pool' \in Pools(Value) /\ PoolOk(pool')
  BY <1>1, PoolRemoveOk
<1>3. /\ KeyStatus(pool', k) = "Stale" /\ pool'.id = Self
      /\ \A j \in RawKey : j # k => KeyStatus(pool', j) = KeyStatus(pool, j)
  BY <1>1, RemoveLookup
<1>4. PoolGet(pool, k) \in Value
  BY <1>1, ResolvedKeyIsPacked
<1>5. TypeOK'
  <2>1. reply' \in Store!Reply
    BY <1>1, <1>4 DEF Remove, Store!Reply
  <2>2. QED
    BY <1>2, <1>3, <2>1 DEF IInv, TypeOK, Remove
<1>6. SlotsRememberHandles'
  BY <1>1, RemoveIssues DEF IInv, SlotsRememberHandles, Remove
<1>7. SweepIsThorough'
  <2>1. /\ sweep' = sweep /\ issued' = issued /\ sweep.ids \subseteq issued
        /\ sweep.index = 0 /\ sweep.ids \subseteq RawKey
    BY DEF IInv, TypeOK, SweepIsThorough, Remove
  <2>2. ASSUME NEW h \in sweep.ids PROVE ~Resolves(pool', h)
    <3>1. CASE h = k
      BY <1>3, <3>1 DEF Resolves
    <3>2. CASE h # k
      <4>1. SUFFICES ASSUME Resolves(pool, h) PROVE FALSE
        BY <1>3, <2>1, <3>2 DEF Resolves
      <4>2. PoolIndex(pool, h) <= 0
        BY <2>1, <4>1 DEF IInv, SweepIsThorough
      <4>3. PoolIndex(pool, h) \in 1..Len(pool.keys)
        BY <1>1, <2>1, <4>1, ResolvedKeyIsPacked
      <4>4. QED
        BY <4>2, <4>3
    <3>3. QED
      BY <3>1, <3>2
  <2>3. 0 <= Len(pool'.keys)
    BY <1>2, PoolTypes
  <2>4. QED
    BY <2>1, <2>2, <2>3 DEF SweepIsThorough
<1>8. QED
  BY <1>2, <1>5, <1>6, <1>7 DEF IInv, StructureOk

LEMMA SweepStepKeepsIInv ==
  ASSUME IInv, SweepStep
  PROVE  IInv'
<1>1. /\ pool \in Pools(Value) /\ PoolOk(pool) /\ pool.id = Self
      /\ sweep.index \in 1..Len(pool.keys) /\ Len(pool.keys) \in Nat
      /\ sweep \in [ids : SUBSET RawKey, index : 0..Capacity]
      /\ sweep.ids \subseteq issued
  BY PoolTypes DEF IInv, TypeOK, StructureOk, SweepIsThorough, SweepStep
<1>2. PICK k : k = Raw(pool, pool.keys[sweep.index])
  OBVIOUS
<1>3. k \in RawKey /\ Resolves(pool, k) /\ PoolIndex(pool, k) = sweep.index
  BY <1>1, <1>2, PackedKeyResolves
<1>4. /\ pool' = IF k \in sweep.ids THEN PoolRemove(pool, k) ELSE pool
      /\ issued' = issued /\ reply' = Store!Done
      /\ sweep' = [sweep EXCEPT !.index = @ - 1]
  BY <1>2 DEF SweepStep
<1>5. /\ sweep'.ids = sweep.ids /\ sweep'.index = sweep.index - 1
      /\ sweep' \in [ids : SUBSET RawKey, index : 0..Capacity]
  <2>1. PICK i : i = sweep.index - 1
    OBVIOUS
  <2>2. i \in 0..Capacity
    BY <1>1, <2>1, PoolBounds
  <2>3. sweep' = [ids |-> sweep.ids, index |-> i] /\ sweep.ids \in SUBSET RawKey
    BY <1>1, <1>4, <2>1
  <2>4. QED
    BY <2>1, <2>2, <2>3
<1>6. reply' \in Store!Reply
  BY <1>4 DEF Store!Reply
<1>7. ASSUME NEW h \in sweep.ids, Resolves(pool, h), h # k
      PROVE  PoolIndex(pool, h) \in 1..Len(pool.keys) /\ PoolIndex(pool, h) < sweep.index
  <2>1. h \in RawKey
    BY <1>1
  <2>2. /\ PoolIndex(pool, h) \in 1..Len(pool.keys)
        /\ h = Raw(pool, pool.keys[PoolIndex(pool, h)])
    BY <1>1, <1>7, <2>1, ResolvedKeyIsPacked
  <2>3. PoolIndex(pool, h) <= sweep.index
    BY <1>7 DEF IInv, SweepIsThorough
  <2>4. PoolIndex(pool, h) # sweep.index
    BY <1>2, <1>7, <2>2
  <2>5. QED
    BY <1>1, <2>2, <2>3, <2>4
<1>8. CASE k \in sweep.ids
  <2>1. pool' = PoolRemove(pool, k)
    BY <1>4, <1>8
  <2>2. pool' \in Pools(Value) /\ PoolOk(pool')
    BY <1>1, <1>3, <2>1, PoolRemoveOk
  <2>3. /\ KeyStatus(pool', k) = "Stale"
        /\ pool'.id = pool.id
        /\ \A j \in RawKey : j # k =>
             /\ KeyStatus(pool', j) = KeyStatus(pool, j)
             /\ Resolves(pool, j) =>
                  PoolIndex(pool', j) = IF PoolIndex(pool, j) = Len(pool.keys)
                                          THEN PoolIndex(pool, k) ELSE PoolIndex(pool, j)
    BY <1>1, <1>3, <2>1, RemoveLookup
  <2>4. Len(pool'.keys) = Len(pool.keys) - 1
    <3>1. PICK i, n : Removed(Value, pool, k, pool', i, n)
      BY <1>1, <1>3, <2>1, PoolRemoveFields
    <3>2. QED
      BY <3>1 DEF Removed
  <2>5. TypeOK'
    BY <1>1, <1>4, <1>5, <1>6, <2>2, <2>3 DEF IInv, TypeOK
  <2>6. SlotsRememberHandles'
    BY <1>1, <1>3, <1>4, <2>1, RemoveIssues DEF IInv, SlotsRememberHandles
  <2>7. ASSUME NEW h \in sweep.ids, Resolves(pool', h)
        PROVE  PoolIndex(pool', h) <= sweep.index - 1
    <3>1. h \in RawKey /\ h # k
      BY <1>1, <2>3, <2>7 DEF Resolves
    <3>2. Resolves(pool, h)
      BY <2>3, <2>7, <3>1 DEF Resolves
    <3>3. PoolIndex(pool, h) \in 1..Len(pool.keys) /\ PoolIndex(pool, h) < sweep.index
      BY <1>7, <3>1, <3>2
    <3>4. PoolIndex(pool, h) # Len(pool.keys)
      BY <1>1, <3>3
    <3>5. PoolIndex(pool', h) = PoolIndex(pool, h)
      BY <2>3, <3>1, <3>2, <3>4
    <3>6. QED
      BY <1>1, <3>3, <3>5
  <2>8. SweepIsThorough'
    BY <1>1, <1>4, <1>5, <2>4, <2>7 DEF SweepIsThorough
  <2>9. QED
    BY <2>2, <2>5, <2>6, <2>8 DEF IInv, StructureOk
<1>9. CASE k \notin sweep.ids
  <2>1. pool' = pool
    BY <1>4, <1>9
  <2>2. TypeOK'
    BY <1>1, <1>4, <1>5, <1>6, <2>1 DEF IInv, TypeOK
  <2>3. SlotsRememberHandles'
    BY <1>4, <2>1 DEF IInv, SlotsRememberHandles
  <2>4. ASSUME NEW h \in sweep.ids, Resolves(pool, h)
        PROVE  PoolIndex(pool, h) <= sweep.index - 1
    BY <1>1, <1>7, <1>9, <2>4
  <2>5. SweepIsThorough'
    BY <1>1, <1>4, <1>5, <2>1, <2>4 DEF SweepIsThorough
  <2>6. QED
    BY <2>1, <2>2, <2>3, <2>5 DEF IInv, StructureOk
<1>10. QED
  BY <1>8, <1>9

LEMMA BeginSweepKeepsIInv ==
  ASSUME IInv, NEW ids \in SUBSET issued, BeginSweep(ids)
  PROVE  IInv'
<1>1. /\ pool \in Pools(Value) /\ PoolOk(pool) /\ issued \subseteq RawKey
      /\ pool' = pool /\ issued' = issued /\ reply' = Store!Done
      /\ sweep' = [ids |-> ids, index |-> Len(pool.keys)]
  BY DEF IInv, TypeOK, StructureOk, BeginSweep
<1>2. Len(pool.keys) \in 0..Capacity
  BY <1>1, PoolTypes, PoolBounds DEF PoolOk, SizesAgree
<1>3. reply' \in Store!Reply
  BY <1>1 DEF Store!Reply
<1>4. TypeOK'
  BY <1>1, <1>2, <1>3 DEF IInv, TypeOK
<1>5. SweepIsThorough'
  <2>1. ASSUME NEW h \in ids, Resolves(pool, h) PROVE PoolIndex(pool, h) <= Len(pool.keys)
    BY <1>1, <1>2, <2>1, ResolvedKeyIsPacked
  <2>2. QED
    BY <1>1, <1>2, <2>1 DEF SweepIsThorough
<1>6. QED
  BY <1>1, <1>4, <1>5 DEF IInv, StructureOk, SlotsRememberHandles

(* What a refusal says is one of the three errors of the library. *)
LEMMA RefusalIsAnError ==
  ASSUME NEW k \in RawKey, ~Resolves(pool, k)
  PROVE  Store!Refusal(k, KeyStatus(pool, k)) \in Store!Reply
<1>1. KeyStatus(pool, k) \in Store!Error
  BY DEF Resolves, KeyStatus, Store!Error
<1>2. QED
  BY <1>1 DEF Store!Reply

(* A step that leaves the pool, its history and the sweep alone. *)
LEMMA QuietKeepsIInv ==
  ASSUME IInv, UNCHANGED <<pool, issued, sweep>>, reply' \in Store!Reply
  PROVE  IInv'
BY DEF IInv, TypeOK, StructureOk, SlotsRememberHandles, SweepIsThorough

LEMMA GetKeepsIInv ==
  ASSUME IInv, NEW k \in Presentable, Get(k)
  PROVE  IInv'
<1>1. pool \in Pools(Value) /\ PoolOk(pool) /\ Resolves(pool, k) /\ k \in RawKey
  BY PoolIdentity DEF IInv, TypeOK, StructureOk, Get, Presentable
<1>2. reply' \in Store!Reply
  BY <1>1, ResolvedKeyIsPacked DEF Get, Store!Reply
<1>3. QED
  BY <1>2, QuietKeepsIInv DEF Get

(* The inductive invariant is preserved by every step. *)
LEMMA NextKeepsIInv == IInv /\ [Next]_vars => IInv'
<1> SUFFICES ASSUME IInv, [Next]_vars PROVE IInv'
  OBVIOUS
<1>1. CASE UNCHANGED vars
  BY <1>1, QuietKeepsIInv DEF vars, IInv, TypeOK
<1>2. ASSUME NEW n \in 0..VACANT, Reserve(n) PROVE IInv'
  BY <1>2, ReserveKeepsIInv
<1>3. ASSUME NEW v \in Value, Insert(v) PROVE IInv'
  BY <1>3, InsertKeepsIInv
<1>4. CASE InsertExhausted
  BY <1>4, QuietKeepsIInv DEF InsertExhausted, Store!Reply
<1>5. ASSUME NEW k \in Presentable, NEW v \in Value, Set(k, v) PROVE IInv'
  BY <1>5, SetKeepsIInv
<1>6. ASSUME NEW k \in Presentable, Remove(k) PROVE IInv'
  BY <1>6, RemoveKeepsIInv
<1>7. ASSUME NEW k \in Presentable, Refuse(k) PROVE IInv'
  <2>1. k \in RawKey
    BY PoolIdentity DEF IInv, TypeOK, Presentable
  <2>2. reply' \in Store!Reply
    BY <1>7, <2>1, RefusalIsAnError DEF Refuse
  <2>3. QED
    BY <1>7, <2>2, QuietKeepsIInv DEF Refuse
<1>11. ASSUME NEW k \in Presentable, Get(k) PROVE IInv'
  BY <1>11, GetKeepsIInv
<1>8. ASSUME NEW ids \in SUBSET issued, BeginSweep(ids) PROVE IInv'
  BY <1>8, BeginSweepKeepsIInv
<1>9. CASE SweepStep
  BY <1>9, SweepStepKeepsIInv
<1>10. QED
  BY <1>1, <1>2, <1>3, <1>4, <1>5, <1>6, <1>7, <1>8, <1>9, <1>11 DEF Next

-----------------------------------------------------------------------------
LEMMA Invariance == Spec => []IInv
<1>1. QED
  BY InitIInv, NextKeepsIInv, PTL DEF Spec

(* The state of the pool always has its types (dense.rs:8-33). *)
THEOREM TypeCorrect == Spec => []TypeOK
<1>1. IInv => TypeOK
  BY DEF IInv
<1>2. QED
  BY <1>1, Invariance, PTL

(* The packed payloads, the slots and the free list describe the same set  *)
(* of payloads after every call (the check of dense.rs:162-185).           *)
THEOREM StructureIsKept == Spec => []StructureOk
<1>1. IInv => StructureOk
  BY DEF IInv
<1>2. QED
  BY <1>1, Invariance, PTL

(* remove never has to allocate (dense.rs:51-52). *)
THEOREM RemovalIsInfallible == Spec => []RemovalNeverAllocates
<1>1. IInv => RemovalNeverAllocates
  <2> SUFFICES ASSUME IInv PROVE RemovalNeverAllocates
    OBVIOUS
  <2>1. pool \in Pools(Value) /\ FreeVacant(pool) /\ FreeReserved(pool)
    BY DEF IInv, TypeOK, StructureOk, PoolOk
  <2>2. Len(pool.free_slots) <= Len(pool.slots)
    BY <2>1, FreeListFits
  <2>3. QED
    BY <2>1, <2>2, PoolTypes DEF FreeReserved, RemovalNeverAllocates
<1>2. QED
  BY <1>1, Invariance, PTL

(* The slots remember exactly the handles issued, so none is issued twice  *)
(* (dense.rs:66-72 and 128-133).                                           *)
THEOREM NoHandleIsIssuedTwice == Spec => []SlotsRememberHandles
<1>1. IInv => SlotsRememberHandles
  BY DEF IInv
<1>2. QED
  BY <1>1, Invariance, PTL

(* insert refuses only when every slot is live or spent (dense.rs:36-57,   *)
(* 122-138): a full pool has a payload behind each of its slots, and of an *)
(* exhausted index space every vacant slot has issued its last handle.     *)
THEOREM NoSlotLeaks == Spec => []RefusedOnlyWhenSpent
<1>1. ASSUME IInv, ~CanReserve(pool, 1), NEW s \in 1..Capacity
      PROVE  \/ \E k \in issued : k.slot = s /\ Resolves(pool, k)
             \/ [pool |-> Self, slot |-> s, generation |-> MaxGeneration] \in issued
  <2>1. /\ pool \in Pools(Value) /\ PoolOk(pool) /\ pool.id = Self /\ Self \in PoolId
        /\ issued = IssuedHandles(pool)
    BY <1>1, PoolIdentity DEF IInv, TypeOK, StructureOk, SlotsRememberHandles
  <2>2. /\ Len(pool.values) \in Nat /\ Len(pool.keys) = Len(pool.values)
        /\ Len(pool.slots) \in Nat /\ Len(pool.free_slots) \in Nat
        /\ Len(pool.values) <= Capacity /\ Len(pool.slots) <= Capacity
    BY <2>1, PoolTypes DEF PoolOk, SizesAgree
  <2>3. SUFFICES ASSUME ~\E i \in 1..Len(pool.keys) : pool.keys[i].slot = s
                 PROVE  [pool |-> Self, slot |-> s, generation |-> MaxGeneration] \in issued
    <3>1. ASSUME NEW i \in 1..Len(pool.keys), pool.keys[i].slot = s
          PROVE  \E k \in issued : k.slot = s /\ Resolves(pool, k)
      <4>1. PICK k : k = Raw(pool, pool.keys[i])
        OBVIOUS
      <4>2. k \in RawKey /\ Resolves(pool, k) /\ k.slot = s
        BY <2>1, <3>1, <4>1, PackedKeyResolves
      <4>3. QED
        BY <2>1, <4>2, PackedIsIssued
    <3>2. QED
      BY <3>1
  <2>4. Len(pool.values) # Capacity
    <3> SUFFICES ASSUME Len(pool.values) = Capacity PROVE FALSE
      OBVIOUS
    <3> DEFINE f == [i \in 1..Capacity |-> pool.keys[i].slot]
    <3>0. \A i \in 1..Capacity : f[i] = pool.keys[i].slot
      OBVIOUS
    <3>5. f \in [1..Capacity -> (1..Capacity) \ {s}]
      BY <2>1, <2>2, <2>3, PoolTypes DEF LocalKey
    <3> HIDE DEF f
    <3>2. ASSUME NEW i \in 1..Capacity, NEW j \in 1..Capacity, f[i] = f[j]
          PROVE  i = j
      <4>1. ASSUME NEW l \in 1..Len(pool.keys)
            PROVE  pool.slots[pool.keys[l].slot].dense_index = l
        <5>1. pool.slots[pool.keys[l].slot] = [generation |-> pool.keys[l].generation,
                                               dense_index |-> l]
          BY <2>1 DEF PoolOk, KeysIndexed
        <5>2. QED
          BY <5>1
      <4>2. i \in 1..Len(pool.keys) /\ j \in 1..Len(pool.keys)
        BY <2>2
      <4>3. /\ pool.slots[pool.keys[i].slot].dense_index = i
            /\ pool.slots[pool.keys[j].slot].dense_index = j
        BY <4>1, <4>2
      <4>4. QED
        BY <3>0, <3>2, <4>3
    <3>3. /\ IsFiniteSet(1..Capacity) /\ Cardinality(1..Capacity) = Capacity
      BY IntervalSize, PoolBounds
    <3>4. /\ IsFiniteSet((1..Capacity) \ {s})
          /\ Cardinality((1..Capacity) \ {s}) = Capacity - 1
      BY <3>3, FS_RemoveElement
    <3>6. Cardinality((1..Capacity) \ {s}) < Cardinality(1..Capacity)
      BY <3>3, <3>4, PoolBounds
    <3>7. \E i, j \in 1..Capacity : i # j /\ f[i] = f[j]
      BY <3>3, <3>4, <3>5, <3>6, FS_PigeonHole
    <3>8. QED
      BY <3>2, <3>7
  <2>5. Len(pool.free_slots) = 0 /\ Len(pool.slots) = Capacity
    <3>1. Len(pool.values) + 1 <= Capacity /\ ~(SlotsAfter(pool, 1) <= Capacity)
      BY <1>1, <2>2, <2>4, PoolBounds DEF CanReserve
    <3>2. CASE 1 > Len(pool.free_slots)
      <4>1. SlotsAfter(pool, 1) = Len(pool.slots) + (1 - Len(pool.free_slots))
        BY <3>2 DEF SlotsAfter
      <4>2. Len(pool.free_slots) = 0
        BY <2>2, <3>2
      <4>3. SlotsAfter(pool, 1) = Len(pool.slots) + 1
        BY <2>2, <4>1, <4>2
      <4>4. ~(Len(pool.slots) + 1 <= Capacity)
        BY <3>1, <4>3
      <4>5. QED
        BY <2>2, <4>2, <4>4, PoolBounds
    <3>3. CASE ~(1 > Len(pool.free_slots))
      <4>1. SlotsAfter(pool, 1) = Len(pool.slots) + 0
        BY <3>3 DEF SlotsAfter
      <4>2. QED
        BY <2>2, <3>1, <4>1, PoolBounds
    <3>4. QED
      BY <3>2, <3>3
  <2>6. ~FreeAt(pool, s) /\ s \in 1..Len(pool.slots)
    BY <2>5 DEF FreeAt
  <2>7. pool.slots[s].dense_index = VACANT
    <3> SUFFICES ASSUME pool.slots[s].dense_index # VACANT PROVE FALSE
      OBVIOUS
    <3>1. /\ pool.slots[s].dense_index \in 1..Len(pool.keys)
          /\ pool.keys[pool.slots[s].dense_index].slot = s
      BY <2>1, <2>6, PoolTypes, SlotTypes DEF PoolOk, SlotsOccupied
    <3>2. QED
      BY <2>3, <3>1
  <2>8. pool.slots[s].generation = MaxGeneration
    BY <2>1, <2>6, <2>7 DEF PoolOk, VacantFree
  <2>9. PICK k : k = [pool |-> Self, slot |-> s, generation |-> MaxGeneration]
    OBVIOUS
  <2>10. k \in RawKey /\ k.pool = Self /\ k.slot = s /\ k.generation = MaxGeneration
    BY <2>1, <2>9, PoolBounds DEF RawKey
  <2>11. s <= Len(pool.slots) /\ k.generation <= pool.slots[s].generation
    BY <2>6, <2>8, <2>10, PoolBounds
  <2>12. k \in IssuedHandles(pool)
    BY <2>1, <2>6, <2>10, <2>11 DEF IssuedHandles
  <2>13. QED
    BY <2>1, <2>9, <2>12
<1>2. IInv => RefusedOnlyWhenSpent
  BY <1>1 DEF RefusedOnlyWhenSpent
<1>3. QED
  BY <1>2, Invariance, PTL

(* remove_selected leaves no selected payload behind, although the removal *)
(* moves payloads while it iterates (storage.rs:58-68 and 191-201).        *)
THEOREM SweepsAreThorough == Spec => []SweepIsThorough
<1>1. IInv => SweepIsThorough
  BY DEF IInv
<1>2. QED
  BY <1>1, Invariance, PTL

(* All of the above at once, after every call and after every removal of a  *)
(* loop of removals (dense.rs, storage.rs:58-68 and 228-236).              *)
THEOREM PoolsStayConsistent == Spec => []PoolInvariant
<1>1. IInv /\ RemovalNeverAllocates => PoolInvariant
  BY DEF IInv, PoolInvariant
<1>2. QED
  BY <1>1, Invariance, RemovalIsInfallible, PTL

-----------------------------------------------------------------------------
(* The pool implements the handle store: one lemma per action, naming the  *)
(* step of the store it is.                                                *)

LEMMA SameLookupsSameStore ==
  ASSUME issued' = issued,
         \A j \in issued : /\ KeyStatus(pool', j) = KeyStatus(pool, j)
                           /\ Resolves(pool, j) => PoolGet(pool', j) = PoolGet(pool, j)
  PROVE  Live' = Live /\ Retired' = Retired
<1>1. {j \in issued' : Resolves(pool', j)} = {j \in issued : Resolves(pool, j)}
  BY DEF Resolves
<1>2. \A j \in {i \in issued : Resolves(pool, i)} : PoolGet(pool', j) = PoolGet(pool, j)
  OBVIOUS
<1>3. Live' = Live
  BY <1>1, <1>2 DEF Live
<1>4. Retired' = Retired
  BY DEF Retired
<1>5. QED
  BY <1>3, <1>4

LEMMA ReserveIsNothing ==
  ASSUME IInv, NEW n \in 0..VACANT, Reserve(n)
  PROVE  Store!Nothing
<1>1. pool \in Pools(Value) /\ PoolOk(pool) /\ n \in Nat
  BY DEF IInv, TypeOK, StructureOk
<1>2. \A j \in issued : /\ KeyStatus(pool', j) = KeyStatus(pool, j)
                        /\ PoolGet(pool', j) = PoolGet(pool, j)
  BY <1>1, ReserveLookup DEF Reserve
<1>3. reply' \in {Store!Done, Store!Panic} /\ issued' = issued
  BY DEF Reserve
<1>4. QED
  BY <1>2, <1>3, SameLookupsSameStore DEF Store!Nothing

LEMMA InsertIsCreate ==
  ASSUME IInv, NEW v \in Value, Insert(v)
  PROVE  \E k \in RawKey : Store!Create(k, v)
<1>1. /\ pool \in Pools(Value) /\ PoolOk(pool) /\ CanReserve(pool, 1)
      /\ pool' = PoolInsert(pool, v) /\ issued \subseteq RawKey
  BY DEF IInv, TypeOK, StructureOk, Insert
<1>2. PICK new : new = Raw(pool, NextKey(pool))
  OBVIOUS
<1>3. new \in RawKey /\ Resolves(pool', new) /\ PoolGet(pool', new) = v
  BY <1>1, <1>2, InsertLookup
<1>4. new \notin issued /\ issued' = issued \cup {new} /\ reply' = Store!Handle(new)
  BY <1>1, <1>2, InsertIssues DEF IInv, SlotsRememberHandles, Insert
<1>5. ASSUME NEW j \in issued
      PROVE  /\ KeyStatus(pool', j) = KeyStatus(pool, j)
             /\ Resolves(pool, j) => PoolGet(pool', j) = PoolGet(pool, j)
  <2>1. j \in RawKey /\ j # new /\ j.slot <= Len(pool.slots)
    BY <1>1, <1>4 DEF IInv, SlotsRememberHandles, IssuedHandles
  <2>2. QED
    BY <1>1, <1>2, <2>1, InsertLookup
<1>6. DOMAIN Live = {j \in issued : Resolves(pool, j)}
  BY DEF Live
<1>7. {j \in issued' : Resolves(pool', j)} = DOMAIN Live \cup {new}
  BY <1>3, <1>4, <1>5, <1>6 DEF Resolves
<1>8. Live' = [j \in DOMAIN Live \cup {new} |-> IF j = new THEN v ELSE Live[j]]
  <2>1. ASSUME NEW j \in DOMAIN Live \cup {new}
        PROVE  PoolGet(pool', j) = IF j = new THEN v ELSE Live[j]
    BY <1>3, <1>5, <1>6 DEF Live
  <2>2. Live' = [j \in {i \in issued' : Resolves(pool', i)} |-> PoolGet(pool', j)]
    BY DEF Live
  <2>3. QED
    BY <1>7, <2>1, <2>2
<1>9. Retired' = Retired
  BY <1>3, <1>4, <1>5 DEF Retired, Resolves
<1>10. new \notin DOMAIN Live \cup Retired
  BY <1>4, <1>6 DEF Retired
<1>11. QED
  BY <1>3, <1>4, <1>8, <1>9, <1>10 DEF Store!Create

LEMMA SetIsUpdate ==
  ASSUME IInv, NEW k \in Presentable, NEW v \in Value, Set(k, v)
  PROVE  k \in RawKey /\ Store!Update(k, v)
<1>1. /\ pool \in Pools(Value) /\ PoolOk(pool) /\ pool.id = Self /\ Resolves(pool, k)
      /\ pool' = PoolSet(pool, k, v) /\ issued' = issued /\ reply' = Store!Done
      /\ issued \subseteq RawKey
  BY DEF IInv, TypeOK, StructureOk, Set
<1>2. k \in issued /\ k \in RawKey
  BY <1>1, PoolIdentity DEF Presentable, Resolves, KeyStatus
<1>3. ASSUME NEW j \in issued
      PROVE  /\ KeyStatus(pool', j) = KeyStatus(pool, j)
             /\ Resolves(pool, j) => PoolGet(pool', j) = IF j = k THEN v ELSE PoolGet(pool, j)
  BY <1>1, <1>2, SetLookup
<1>4. DOMAIN Live = {j \in issued : Resolves(pool, j)} /\ k \in DOMAIN Live
  BY <1>1, <1>2 DEF Live
<1>5. {j \in issued' : Resolves(pool', j)} = DOMAIN Live
  BY <1>1, <1>3, <1>4 DEF Resolves
<1>6. Live' = [Live EXCEPT ![k] = v]
  <2>1. Live' = [j \in DOMAIN Live |-> PoolGet(pool', j)]
    BY <1>5 DEF Live
  <2>2. ASSUME NEW j \in DOMAIN Live
        PROVE  PoolGet(pool', j) = IF j = k THEN v ELSE Live[j]
    BY <1>3, <1>4 DEF Live
  <2>3. Live' = [j \in DOMAIN Live |-> IF j = k THEN v ELSE Live[j]]
    BY <2>1, <2>2
  <2>4. QED
    BY <1>4, <2>3
<1>7. Retired' = Retired
  BY <1>1, <1>3 DEF Retired
<1>8. QED
  BY <1>1, <1>2, <1>4, <1>6, <1>7 DEF Store!Update

(* Remove, and the removing iterations of a sweep. *)
LEMMA RemovalIsRelease ==
  ASSUME IInv, NEW k \in issued, Resolves(pool, k), pool' = PoolRemove(pool, k),
         issued' = issued, reply' \in {Store!Payload(k, PoolGet(pool, k)), Store!Done}
  PROVE  k \in RawKey /\ Store!Release(k)
<1>1. /\ pool \in Pools(Value) /\ PoolOk(pool) /\ issued \subseteq RawKey /\ k \in RawKey
  BY DEF IInv, TypeOK, StructureOk
<1>2. KeyStatus(pool', k) = "Stale"
  BY <1>1, RemoveLookup
<1>3. ASSUME NEW j \in issued, j # k
      PROVE  /\ KeyStatus(pool', j) = KeyStatus(pool, j)
             /\ Resolves(pool, j) => PoolGet(pool', j) = PoolGet(pool, j)
  BY <1>1, <1>3, RemoveLookup
<1>4. /\ DOMAIN Live = {j \in issued : Resolves(pool, j)} /\ k \in DOMAIN Live
      /\ Live[k] = PoolGet(pool, k)
  BY DEF Live
<1>5. {j \in issued' : Resolves(pool', j)} = DOMAIN Live \ {k}
  BY <1>2, <1>3, <1>4 DEF Resolves
<1>6. Live' = [j \in DOMAIN Live \ {k} |-> Live[j]]
  <2>1. Live' = [j \in DOMAIN Live \ {k} |-> PoolGet(pool', j)]
    BY <1>5 DEF Live
  <2>2. ASSUME NEW j \in DOMAIN Live \ {k}
        PROVE  PoolGet(pool', j) = Live[j]
    BY <1>3, <1>4 DEF Live
  <2>3. QED
    BY <2>1, <2>2
<1>7. Retired' = Retired \cup {k}
  BY <1>2, <1>3 DEF Retired
<1>8. QED
  BY <1>1, <1>4, <1>6, <1>7 DEF Store!Release, Store!Restrict

LEMMA GetIsRead ==
  ASSUME IInv, NEW k \in Presentable, Get(k)
  PROVE  k \in RawKey /\ Store!Read(k)
<1>1. /\ pool.id = Self /\ issued \subseteq RawKey /\ Resolves(pool, k)
      /\ pool' = pool /\ issued' = issued /\ reply' = Store!Payload(k, PoolGet(pool, k))
  BY DEF IInv, TypeOK, Get
<1>2. k \in issued /\ k \in RawKey
  BY <1>1, PoolIdentity DEF Presentable, Resolves, KeyStatus
<1>3. k \in DOMAIN Live /\ Live[k] = PoolGet(pool, k)
  BY <1>1, <1>2 DEF Live
<1>4. QED
  BY <1>1, <1>2, <1>3, SameLookupsSameStore DEF Store!Read

LEMMA SweepStepIsReleaseOrNothing ==
  ASSUME IInv, SweepStep
  PROVE  (\E k \in RawKey : Store!Release(k)) \/ Store!Nothing
<1>1. /\ pool \in Pools(Value) /\ PoolOk(pool)
      /\ sweep.index \in 1..Len(pool.keys) /\ sweep.ids \subseteq issued
  BY PoolTypes DEF IInv, TypeOK, StructureOk, SweepIsThorough, SweepStep
<1>2. PICK k : k = Raw(pool, pool.keys[sweep.index])
  OBVIOUS
<1>3. Resolves(pool, k)
  BY <1>1, <1>2, PackedKeyResolves
<1>4. /\ pool' = IF k \in sweep.ids THEN PoolRemove(pool, k) ELSE pool
      /\ issued' = issued /\ reply' = Store!Done
  BY <1>2 DEF SweepStep
<1>5. CASE k \in sweep.ids
  BY <1>1, <1>3, <1>4, <1>5, RemovalIsRelease
<1>6. CASE k \notin sweep.ids
  BY <1>4, <1>6, SameLookupsSameStore DEF Store!Nothing
<1>7. QED
  BY <1>5, <1>6

LEMMA RefuseIsRefuse ==
  ASSUME IInv, NEW k \in Presentable, Refuse(k)
  PROVE  k \in RawKey /\ Store!Refuse(k)
<1>1. /\ issued \subseteq {j \in RawKey : j.pool = Self} /\ pool.id = Self
      /\ pool' = pool /\ issued' = issued /\ ~Resolves(pool, k)
      /\ reply' = Store!Refusal(k, KeyStatus(pool, k))
  BY DEF IInv, TypeOK, Refuse
<1>2. k \notin DOMAIN Live
  BY <1>1 DEF Live
<1>3. Live' = Live /\ Retired' = Retired
  BY <1>1, SameLookupsSameStore
<1>4. CASE k \in issued
  <2>1. k \in RawKey /\ k.pool = pool.id /\ k.slot <= Len(pool.slots)
    BY <1>1, <1>4 DEF IInv, SlotsRememberHandles, IssuedHandles
  <2>2. ~(k.slot > Len(pool.slots))
    BY <2>1, PoolTypes DEF IInv, TypeOK, RawKey
  <2>3. KeyStatus(pool, k) = "Stale"
    BY <1>1, <2>1, <2>2 DEF Resolves, KeyStatus
  <2>4. k \in Retired
    BY <1>4, <2>3 DEF Retired
  <2>5. QED
    BY <1>1, <1>2, <1>3, <2>1, <2>3, <2>4 DEF Store!Refuse
<1>5. CASE k \in ForeignKeys
  <2>1. k \in RawKey /\ k.pool # pool.id /\ k \notin Retired
    BY <1>1, <1>5, PoolIdentity DEF Retired
  <2>2. KeyStatus(pool, k) = "ForeignSolver"
    BY <2>1 DEF KeyStatus
  <2>3. QED
    BY <1>1, <1>2, <1>3, <2>1, <2>2 DEF Store!Refuse
<1>6. QED
  BY <1>4, <1>5 DEF Presentable

LEMMA NextRefines == IInv /\ [Next]_vars => [Store!Next]_(Store!vars)
<1> SUFFICES ASSUME IInv, [Next]_vars PROVE Store!Next \/ UNCHANGED Store!vars
  OBVIOUS
<1>1. CASE UNCHANGED vars
  BY <1>1, SameLookupsSameStore DEF vars, Store!vars
<1>2. ASSUME NEW n \in 0..VACANT, Reserve(n) PROVE Store!Next
  BY <1>2, ReserveIsNothing DEF Store!Next
<1>3. ASSUME NEW v \in Value, Insert(v) PROVE Store!Next
  BY <1>3, InsertIsCreate DEF Store!Next
<1>4. CASE InsertExhausted
  <2>1. Store!Nothing
    BY <1>4, SameLookupsSameStore DEF InsertExhausted, Store!Nothing
  <2>2. QED
    BY <2>1 DEF Store!Next
<1>5. ASSUME NEW k \in Presentable, NEW v \in Value, Set(k, v) PROVE Store!Next
  BY <1>5, SetIsUpdate DEF Store!Next
<1>6. ASSUME NEW k \in Presentable, Remove(k) PROVE Store!Next
  <2>1. Resolves(pool, k) /\ k \in issued
    BY <1>6, PoolIdentity DEF Remove, Presentable, Resolves, KeyStatus, IInv, TypeOK
  <2>2. k \in RawKey /\ Store!Release(k)
    BY <1>6, <2>1, RemovalIsRelease DEF Remove
  <2>3. QED
    BY <2>2 DEF Store!Next
<1>7. ASSUME NEW k \in Presentable, Refuse(k) PROVE Store!Next
  BY <1>7, RefuseIsRefuse DEF Store!Next
<1>11. ASSUME NEW k \in Presentable, Get(k) PROVE Store!Next
  BY <1>11, GetIsRead DEF Store!Next
<1>8. ASSUME NEW ids \in SUBSET issued, BeginSweep(ids) PROVE Store!Next
  <2>1. Store!Nothing
    BY <1>8, SameLookupsSameStore DEF BeginSweep, Store!Nothing
  <2>2. QED
    BY <2>1 DEF Store!Next
<1>9. CASE SweepStep
  BY <1>9, SweepStepIsReleaseOrNothing DEF Store!Next
<1>10. QED
  BY <1>1, <1>2, <1>3, <1>4, <1>5, <1>6, <1>7, <1>8, <1>9, <1>11 DEF Next

(* Every call on a pool is a step of the handle store or invisible to it:  *)
(* for every capacity, a released handle is refused for ever and a live    *)
(* one keeps its own payload (key.rs:1-36 and dense.rs:35-138).            *)
THEOREM PoolRefinesStore == Spec => RefinesHandleStore
<1>1. Init => Store!Init
  <2> SUFFICES ASSUME Init PROVE Store!Init
    OBVIOUS
  <2>1. issued = {} /\ reply = Store!Done
    BY DEF Init
  <2>2. Live = [k \in {} |-> {}] /\ Retired = {}
    BY <2>1 DEF Live, Retired
  <2>3. QED
    BY <2>1, <2>2 DEF Store!Init
<1>2. QED
  BY <1>1, NextRefines, Invariance, PTL DEF Spec, RefinesHandleStore, Store!Spec

-----------------------------------------------------------------------------
(* The identities of pools.  That none is given away twice is not          *)
(* inductive: it needs that none at or above the counter was ever given    *)
(* away, and that no thread has seen a later counter than there is now.    *)

(* The identities below the counter, and no others, were given away, each  *)
(* once; and no thread has seen a later counter than there is.             *)
CounterIsExact ==
  /\ \A id \in Id : pools[id] = IF id < counter THEN 1 ELSE 0
  /\ \A t \in Thread : /\ seen[t] <= counter
                       /\ call[t] = "update" => seen[t] >= 1
                       /\ call[t] = "panic" => counter = MaxId

CounterInv == IdsTypeOK /\ CounterIsExact

(* The counter starts with nothing given away. *)
LEMMA CounterStarts == IdsInit => CounterInv
BY IdBound DEF IdsInit, CounterInv, IdsTypeOK, CounterIsExact, Id

(* A thread that finds the counter, first or after a failed exchange, has  *)
(* seen no later one.                                                      *)
LEMMA FindStep ==
  ASSUME CounterInv, NEW t \in Thread, Load(t) \/ Retry(t)
  PROVE  CounterInv'
<1>1. counter \in Id /\ counter >= 1 /\ counter <= MaxId /\ MaxId \in Nat
  BY IdBound DEF CounterInv, IdsTypeOK, Id
<1>2. /\ seen' = [seen EXCEPT ![t] = counter] /\ counter' = counter /\ pools' = pools
      /\ \/ call' = [call EXCEPT ![t] = "update"]
         \/ call' = call
  BY DEF Load, Retry
<1>3. IdsTypeOK'
  BY <1>1, <1>2 DEF CounterInv, IdsTypeOK, Id
<1>4. CounterIsExact'
  BY <1>1, <1>2 DEF CounterInv, IdsTypeOK, CounterIsExact, Id
<1> QED BY <1>3, <1>4 DEF CounterInv

(* The addition overflows only at the last value of the counter. *)
LEMMA ExhaustedStep ==
  ASSUME CounterInv, NEW t \in Thread, Exhausted(t)
  PROVE  CounterInv'
<1>1. /\ call' = [call EXCEPT ![t] = "panic"]
      /\ counter' = counter /\ pools' = pools /\ seen' = seen
  BY DEF Exhausted
<1>2. counter = MaxId
  BY IdBound DEF Exhausted, CheckedAdd, CounterInv, IdsTypeOK, CounterIsExact, Id
<1>3. IdsTypeOK'
  BY <1>1 DEF CounterInv, IdsTypeOK
<1>4. CounterIsExact'
  BY <1>1, <1>2 DEF CounterInv, IdsTypeOK, CounterIsExact
<1> QED BY <1>3, <1>4 DEF CounterInv

(* A successful exchange gives away the identity the counter stood at,     *)
(* which nobody had.                                                       *)
LEMMA ExchangeStep ==
  ASSUME CounterInv, NEW t \in Thread, Exchange(t)
  PROVE  CounterInv'
<1>1. /\ counter \in 1..(MaxId - 1) /\ MaxId \in Nat
      /\ seen[t] = counter /\ counter' = counter + 1
  BY IdBound DEF Exchange, CheckedAdd, CounterInv, IdsTypeOK, CounterIsExact, Id
<1>2. /\ pools' = [pools EXCEPT ![counter] = @ + 1]
      /\ call' = [call EXCEPT ![t] = "issued"] /\ seen' = seen
  <2>1. seen[t] # 0 /\ seen[t] = counter
    BY <1>1
  <2>2. pools' = [pools EXCEPT ![seen[t]] = @ + 1]
    BY <2>1 DEF Exchange
  <2>3. call' = [call EXCEPT ![t] = "issued"] /\ seen' = seen
    BY <2>1 DEF Exchange
  <2> QED BY <2>1, <2>2, <2>3
<1>3. IdsTypeOK'
  BY <1>1, <1>2 DEF CounterInv, IdsTypeOK, Id
<1>4. \A id \in Id : pools'[id] = IF id < counter' THEN 1 ELSE 0
  <2> SUFFICES ASSUME NEW id \in Id
               PROVE  pools'[id] = IF id < counter' THEN 1 ELSE 0
    OBVIOUS
  <2>1. pools \in [Id -> Nat] /\ pools[id] = IF id < counter THEN 1 ELSE 0
    BY DEF CounterInv, IdsTypeOK, CounterIsExact
  <2>2. CASE id = counter
    BY <1>1, <1>2, <2>1, <2>2 DEF Id
  <2>3. CASE id # counter
    BY <1>1, <1>2, <2>1, <2>3 DEF Id
  <2> QED BY <2>2, <2>3
<1>5. \A u \in Thread : /\ seen'[u] <= counter'
                        /\ call'[u] = "update" => seen'[u] >= 1
                        /\ call'[u] = "panic" => counter' = MaxId
  BY <1>1, <1>2 DEF CounterInv, IdsTypeOK, CounterIsExact, Id
<1> QED BY <1>3, <1>4, <1>5 DEF CounterInv, CounterIsExact

(* Every step of every thread keeps the counter exact. *)
LEMMA CounterStep == CounterInv /\ [IdsNext]_idsVars => CounterInv'
<1> SUFFICES ASSUME CounterInv, [IdsNext]_idsVars PROVE CounterInv'
  OBVIOUS
<1>1. CASE UNCHANGED idsVars
  BY <1>1 DEF CounterInv, IdsTypeOK, CounterIsExact, idsVars
<1>2. CASE IdsNext
  BY <1>2, FindStep, ExhaustedStep, ExchangeStep DEF IdsNext
<1> QED BY <1>1, <1>2

(* The counter is exact in every reachable state. *)
LEMMA CounterInvariant == IdsSpec => []CounterInv
BY CounterStarts, CounterStep, PTL DEF IdsSpec

(* The counter never leaves 1..u64::MAX, whatever the threads do. *)
THEOREM IdsTypeCorrect == IdsSpec => []IdsTypeOK
<1>1. CounterInv => IdsTypeOK
  BY DEF CounterInv
<1> QED BY <1>1, CounterInvariant, PTL

(* allocate (key.rs:18-23) never gives two pools one identity, for any     *)
(* number of threads and in any interleaving of their updates.             *)
THEOREM NoIdentityIsShared == IdsSpec => []IdentitiesAreUnique
<1>1. CounterInv => IdentitiesAreUnique
  BY DEF CounterInv, IdsTypeOK, CounterIsExact, IdentitiesAreUnique
<1> QED BY <1>1, CounterInvariant, PTL

(* allocate panics only when the identities are used up (key.rs:19-21). *)
THEOREM NoIdentityIsLost == IdsSpec => []PanicsOnlyWhenSpent
<1>1. CounterInv => PanicsOnlyWhenSpent
  BY IdBound DEF CounterInv, IdsTypeOK, CounterIsExact, PanicsOnlyWhenSpent, Id
<1> QED BY <1>1, CounterInvariant, PTL
=============================================================================
