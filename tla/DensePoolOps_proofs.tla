------------------------ MODULE DensePoolOps_proofs ------------------------
(***************************************************************************)
(* What the operators of DensePoolOps return and preserve, for every       *)
(* Capacity, MaxGeneration and payload set.  The components built on pools *)
(* cite these lemmas.                                                      *)
(***************************************************************************)
EXTENDS DensePoolOps, FiniteSetTheorems, SequenceTheorems, TLAPS

(* swap_remove shortens by one and moves only the last element. *)
LEMMA SwapRemoveProperties ==
  ASSUME NEW S, NEW s \in Seq(S), NEW i \in 1..Len(s)
  PROVE  /\ SwapRemove(s, i) \in Seq(S)
         /\ Len(SwapRemove(s, i)) = Len(s) - 1
         /\ \A j \in 1..(Len(s) - 1) : SwapRemove(s, i)[j] = IF j = i THEN s[Len(s)] ELSE s[j]
<1>1. Len(s) - 1 \in Nat /\ \A j \in 1..Len(s) : s[j] \in S
  BY LenProperties, ElementOfSeq
<1>2. \A j \in 1..(Len(s) - 1) : (IF j = i THEN s[Len(s)] ELSE s[j]) \in S
  BY <1>1
<1>3. SwapRemove(s, i) \in [1..(Len(s) - 1) -> S]
  BY <1>2 DEF SwapRemove
<1>4. SwapRemove(s, i) \in Seq(S)
  BY <1>1, <1>3, SeqDef
<1>5. QED
  BY <1>1, <1>3, <1>4, LenProperties DEF SwapRemove

(* pop shortens by one and moves nothing. *)
LEMMA ButLastProperties ==
  ASSUME NEW S, NEW s \in Seq(S), s # <<>>
  PROVE  /\ ButLast(s) \in Seq(S)
         /\ Len(ButLast(s)) = Len(s) - 1
         /\ \A j \in 1..(Len(s) - 1) : ButLast(s)[j] = s[j]
<1>1. Len(s) - 1 \in Nat /\ \A j \in 1..Len(s) : s[j] \in S
  BY LenProperties, ElementOfSeq, EmptySeq
<1>2. ButLast(s) \in [1..(Len(s) - 1) -> S]
  BY <1>1 DEF ButLast
<1>3. ButLast(s) \in Seq(S)
  BY <1>1, <1>2, SeqDef
<1>4. QED
  BY <1>1, <1>2, <1>3, LenProperties DEF ButLast

LEMMA IntervalSize ==
  ASSUME NEW n \in Nat
  PROVE  IsFiniteSet(1..n) /\ Cardinality(1..n) = n
<1>1. 1 \in Int /\ n \in Int
  OBVIOUS
<1>2. IsFiniteSet(1..n) /\ Cardinality(1..n) = IF 1 > n THEN 0 ELSE n - 1 + 1
  BY <1>1, FS_Interval, Zenon
<1>3. QED
  BY <1>2

(* The types of a pool's parts, element by element. *)
LEMMA PoolTypes ==
  ASSUME NEW V, NEW p \in Pools(V)
  PROVE  /\ p.id \in PoolId /\ p.free_capacity \in Nat
         /\ p.values \in Seq(V) /\ p.keys \in Seq(LocalKey)
         /\ p.slots \in Seq(Slot) /\ p.free_slots \in Seq(1..Capacity)
         /\ Len(p.values) \in Nat /\ Len(p.keys) \in Nat
         /\ Len(p.slots) \in Nat /\ Len(p.free_slots) \in Nat
         /\ \A i \in 1..Len(p.values) : p.values[i] \in V
         /\ \A i \in 1..Len(p.keys) : p.keys[i] \in LocalKey
         /\ \A i \in 1..Len(p.slots) : p.slots[i] \in Slot
         /\ \A i \in 1..Len(p.free_slots) : p.free_slots[i] \in 1..Capacity
<1>1. /\ p.id \in PoolId /\ p.free_capacity \in Nat
      /\ p.values \in Seq(V) /\ p.keys \in Seq(LocalKey)
      /\ p.slots \in Seq(Slot) /\ p.free_slots \in Seq(1..Capacity)
  BY DEF Pools
<1>2. QED
  BY <1>1, LenProperties, ElementOfSeq

LEMMA SlotTypes ==
  ASSUME NEW e \in Slot
  PROVE  /\ e.generation \in 0..MaxGeneration
         /\ e.dense_index \in 1..VACANT
         /\ e.dense_index # VACANT => e.dense_index \in 1..Capacity
         /\ e = [generation |-> e.generation, dense_index |-> e.dense_index]
BY PoolBounds DEF Slot, VACANT

(* The free list fits among the slots: its entries are distinct slots. *)
LEMMA FreeListFits ==
  ASSUME NEW V, NEW p \in Pools(V), FreeVacant(p)
  PROVE  Len(p.free_slots) <= Len(p.slots)
<1>1. PICK f \in Seq(1..Capacity) : f = p.free_slots
  BY DEF Pools
<1>2. PICK n \in Nat : n = Len(p.slots)
  BY LenProperties DEF Pools
<1>3. Len(f) \in Nat /\ f \in [1..Len(f) -> 1..Capacity]
  BY <1>1, LenProperties
<1>4. f \in [1..Len(f) -> 1..n]
  BY <1>1, <1>2, <1>3 DEF FreeVacant
<1>5. \A i, j \in 1..Len(f) : f[i] = f[j] => i = j
  BY <1>1 DEF FreeVacant
<1>6. f \in Injection(1..Len(f), 1..n)
  BY <1>3, <1>4, <1>5 DEF Injection, IsInjective
<1>7. IsFiniteSet(1..n) /\ Cardinality(1..n) = n
  BY <1>2, IntervalSize
<1>8. Cardinality(1..Len(f)) = Len(f)
  BY <1>3, IntervalSize
<1>9. Cardinality(1..Len(f)) <= Cardinality(1..n)
  BY <1>6, <1>7, FS_Injection
<1>10. QED
  BY <1>1, <1>2, <1>7, <1>8, <1>9

(* The empty pool is well formed. *)
LEMMA EmptyPoolOk ==
  ASSUME NEW V, NEW id \in PoolId
  PROVE  EmptyPool(id) \in Pools(V) /\ PoolOk(EmptyPool(id))
BY PoolBounds, EmptySeq
DEF EmptyPool, Pools, PoolOk, SizesAgree, KeysIndexed, SlotsOccupied, FreeVacant,
    VacantFree, FreeReserved

(* reserve changes the granted capacity and nothing else. *)
LEMMA PoolReserveOk ==
  ASSUME NEW V, NEW p \in Pools(V), PoolOk(p), NEW n \in Nat
  PROVE  /\ PoolReserve(p, n) \in Pools(V)
         /\ PoolOk(PoolReserve(p, n))
         /\ PoolReserve(p, n) = [p EXCEPT !.free_capacity = PoolReserve(p, n).free_capacity]
         /\ SlotsAfter(p, n) <= PoolReserve(p, n).free_capacity
<1>1. Len(p.slots) \in Nat /\ Len(p.free_slots) \in Nat /\ p.free_capacity \in Nat
  BY LenProperties DEF Pools
<1>2. SlotsAfter(p, n) \in Nat /\ Len(p.slots) <= SlotsAfter(p, n)
  <2>1. PICK a \in Nat, b \in Nat : a = Len(p.slots) /\ b = Len(p.free_slots)
    BY <1>1
  <2>2. CASE n > b
    <3>1. SlotsAfter(p, n) = a + (n - b)
      BY <2>1, <2>2 DEF SlotsAfter
    <3>2. QED
      BY <2>1, <2>2, <3>1
  <2>3. CASE ~(n > b)
    <3>1. SlotsAfter(p, n) = a + 0
      BY <2>1, <2>3 DEF SlotsAfter
    <3>2. QED
      BY <2>1, <3>1
  <2>4. QED
    BY <2>2, <2>3
<1>3. PoolReserve(p, n) \in Pools(V)
  BY <1>1, <1>2 DEF PoolReserve, Pools
<1>4. PoolReserve(p, n) = [p EXCEPT !.free_capacity = PoolReserve(p, n).free_capacity]
  BY DEF PoolReserve, Pools
<1>5. SlotsAfter(p, n) <= PoolReserve(p, n).free_capacity
  BY <1>1, <1>2 DEF PoolReserve, Pools
<1>6. PoolOk(PoolReserve(p, n))
  BY <1>1, <1>2, <1>5
  DEF PoolReserve, Pools, PoolOk, SizesAgree, KeysIndexed, SlotsOccupied, FreeVacant,
      VacantFree, FreeAt, FreeReserved
<1>7. QED
  BY <1>3, <1>4, <1>5, <1>6

(* Writing through a handle that resolves disturbs no identity. *)
LEMMA PoolSetOk ==
  ASSUME NEW V, NEW p \in Pools(V), PoolOk(p), NEW k \in RawKey, Resolves(p, k), NEW v \in V
  PROVE  /\ PoolIndex(p, k) \in 1..Len(p.values)
         /\ PoolSet(p, k, v) = [p EXCEPT !.values = [@ EXCEPT ![PoolIndex(p, k)] = v]]
         /\ PoolSet(p, k, v) \in Pools(V)
         /\ PoolOk(PoolSet(p, k, v))
<1>1. k.slot \in 1..Len(p.slots) /\ p.slots[k.slot].dense_index # VACANT
  BY PoolTypes DEF Resolves, KeyStatus, RawKey
<1>2. PoolIndex(p, k) \in 1..Len(p.values)
  <2>1. p.slots[k.slot].dense_index \in 1..Capacity
    BY <1>1, PoolTypes, SlotTypes
  <2>2. p.slots[k.slot].dense_index <= Len(p.keys) /\ Len(p.keys) = Len(p.values)
    BY <1>1 DEF PoolOk, SlotsOccupied, SizesAgree
  <2>3. QED
    BY <2>1, <2>2, PoolTypes DEF PoolIndex
<1>3. [p.values EXCEPT ![PoolIndex(p, k)] = v] \in Seq(V)
      /\ Len([p.values EXCEPT ![PoolIndex(p, k)] = v]) = Len(p.values)
  BY <1>2, PoolTypes, ExceptSeq
<1>4. PoolSet(p, k, v) = [p EXCEPT !.values = [@ EXCEPT ![PoolIndex(p, k)] = v]]
  BY DEF PoolSet
<1>5. PoolSet(p, k, v) \in Pools(V)
  BY <1>3, <1>4 DEF Pools
<1>6. PoolOk(PoolSet(p, k, v))
  BY <1>3, <1>4
  DEF Pools, PoolOk, SizesAgree, KeysIndexed, SlotsOccupied, FreeVacant, VacantFree, FreeAt,
      FreeReserved
<1>7. QED
  BY <1>2, <1>4, <1>5, <1>6

(* The handle about to be issued: a new slot, or a vacant one of the free  *)
(* list at its present generation.                                         *)
LEMMA NextKeyProperties ==
  ASSUME NEW V, NEW p \in Pools(V), PoolOk(p), CanReserve(p, 1)
  PROVE  /\ NextKey(p) \in LocalKey
         /\ p.free_slots = <<>> =>
              NextKey(p) = [slot |-> Len(p.slots) + 1, generation |-> 0]
         /\ p.free_slots # <<>> =>
              /\ Len(p.free_slots) \in Nat \ {0}
              /\ NextKey(p).slot = p.free_slots[Len(p.free_slots)]
              /\ NextKey(p).slot \in 1..Len(p.slots)
              /\ p.slots[NextKey(p).slot] = [generation  |-> NextKey(p).generation,
                                             dense_index |-> VACANT]
<1>1. CASE p.free_slots = <<>>
  <2>1. Len(p.slots) + 1 \in 1..Capacity
    <3>1. Len(p.slots) \in Nat
      BY LenProperties DEF Pools
    <3>2. Len(p.free_slots) = 0
      BY <1>1, EmptySeq
    <3>3. SlotsAfter(p, 1) = Len(p.slots) + 1
      BY <3>1, <3>2 DEF SlotsAfter
    <3>4. QED
      BY <3>1, <3>3, PoolBounds DEF CanReserve
  <2>2. NextKey(p) = [slot |-> Len(p.slots) + 1, generation |-> 0]
    BY <1>1 DEF NextKey
  <2>3. NextKey(p) \in LocalKey
    BY <2>1, <2>2, PoolBounds DEF LocalKey
  <2>4. QED
    BY <1>1, <2>2, <2>3
<1>2. CASE p.free_slots # <<>>
  <2>1. Len(p.free_slots) \in Nat \ {0} /\ Len(p.slots) \in Nat
    BY <1>2, EmptySeq, PoolTypes
  <2>2. PICK s : s = p.free_slots[Len(p.free_slots)]
    OBVIOUS
  <2>3. s \in 1..Len(p.slots) /\ p.slots[s].dense_index = VACANT /\ s \in 1..Capacity
    <3>1. s \in 1..Capacity
      BY <2>1, <2>2, PoolTypes
    <3>2. s <= Len(p.slots) /\ p.slots[s].dense_index = VACANT
      BY <2>1, <2>2 DEF PoolOk, FreeVacant
    <3>3. QED
      BY <2>1, <3>1, <3>2
  <2>4. p.slots[s] \in Slot
    BY <2>3, PoolTypes
  <2>5. NextKey(p) = [slot |-> s, generation |-> p.slots[s].generation]
    BY <1>2, <2>2 DEF NextKey
  <2>6. NextKey(p) \in LocalKey
    BY <2>3, <2>4, <2>5 DEF LocalKey, Slot
  <2>7. p.slots[s] = [generation |-> p.slots[s].generation, dense_index |-> VACANT]
    BY <2>3, <2>4 DEF Slot
  <2>8. QED
    BY <1>2, <2>1, <2>2, <2>3, <2>5, <2>6, <2>7
<1>3. QED
  BY <1>1, <1>2

(* insert, buffer by buffer: one payload and key more, the slot of the new *)
(* handle k points at them and has left the free list, no other slot       *)
(* changed.  q is the pool after, n the new payload's position.            *)
Inserted(V, p, v, q, k, n) ==
  /\ q \in Pools(V) /\ q.id = p.id /\ n \in Nat \ {0} /\ k \in LocalKey
  /\ Len(p.values) = n - 1 /\ Len(p.keys) = n - 1
  /\ Len(q.values) = n /\ Len(q.keys) = n /\ n <= Capacity
  /\ q.values[n] = v /\ q.keys[n] = k
  /\ \A j \in 1..(n - 1) : q.values[j] = p.values[j] /\ q.keys[j] = p.keys[j]
  /\ Len(p.slots) <= Len(q.slots) /\ Len(q.slots) <= Capacity
  /\ k.slot \in 1..Len(q.slots)
  /\ q.slots[k.slot] = [generation |-> k.generation, dense_index |-> n]
  /\ \A s \in 1..Len(q.slots) :
       s # k.slot => s \in 1..Len(p.slots) /\ q.slots[s] = p.slots[s]
  /\ k.slot \in 1..Len(p.slots) =>
       p.slots[k.slot] = [generation |-> k.generation, dense_index |-> VACANT]
  /\ k.slot \notin 1..Len(p.slots) => k.generation = 0
  /\ \A j \in 1..Len(q.free_slots) :
       /\ j \in 1..Len(p.free_slots)
       /\ q.free_slots[j] = p.free_slots[j]
       /\ q.free_slots[j] # k.slot
  /\ \A j \in 1..Len(p.free_slots) :
       p.free_slots[j] # k.slot => j \in 1..Len(q.free_slots)
  /\ Len(q.slots) <= q.free_capacity

LEMMA PoolInsertFields ==
  ASSUME NEW V, NEW p \in Pools(V), PoolOk(p), CanReserve(p, 1), NEW v \in V
  PROVE  Inserted(V, p, v, PoolInsert(p, v), NextKey(p), Len(p.values) + 1)
<1> SUFFICES ASSUME NEW q, q = PoolInsert(p, v), NEW k, k = NextKey(p),
                    NEW n, n = Len(p.values) + 1
             PROVE  Inserted(V, p, v, q, k, n)
  OBVIOUS
<1> DEFINE r == PoolReserve(p, 1)
<1>1. /\ r \in Pools(V) /\ PoolOk(r) /\ SlotsAfter(p, 1) <= r.free_capacity
      /\ r = [p EXCEPT !.free_capacity = r.free_capacity]
  BY PoolReserveOk
<1>2. /\ r.id = p.id /\ r.values = p.values /\ r.keys = p.keys
      /\ r.slots = p.slots /\ r.free_slots = p.free_slots /\ r.free_capacity \in Nat
  <2>1. r.free_capacity \in Nat
    BY <1>1, PoolTypes
  <2>2. QED
    BY <1>1, <2>1 DEF Pools
<1>3. /\ n \in Nat \ {0} /\ n - 1 = Len(p.values) /\ n - 1 = Len(p.keys)
      /\ n <= Capacity /\ n \in 1..VACANT
  BY PoolTypes, PoolBounds DEF PoolOk, SizesAgree, CanReserve, VACANT
<1>4. k \in LocalKey
  BY NextKeyProperties
<1>5. /\ Append(p.values, v) \in Seq(V) /\ Len(Append(p.values, v)) = n
      /\ Append(p.values, v)[n] = v
      /\ \A j \in 1..(n - 1) : Append(p.values, v)[j] = p.values[j]
  BY <1>3, PoolTypes, AppendProperties
<1>6. /\ Append(p.keys, k) \in Seq(LocalKey) /\ Len(Append(p.keys, k)) = n
      /\ Append(p.keys, k)[n] = k
      /\ \A j \in 1..(n - 1) : Append(p.keys, k)[j] = p.keys[j]
  BY <1>3, <1>4, PoolTypes, AppendProperties
<1>7. CASE p.free_slots = <<>>
  <2> DEFINE e == [generation |-> 0, dense_index |-> n]
             slots == Append(p.slots, e)
  <2>1. k = [slot |-> Len(p.slots) + 1, generation |-> 0]
    BY <1>7, NextKeyProperties
  <2>2. e \in Slot
    BY <1>3, PoolBounds DEF Slot
  <2>3. /\ slots \in Seq(Slot) /\ Len(slots) = Len(p.slots) + 1
        /\ slots[Len(p.slots) + 1] = e
        /\ \A j \in 1..Len(p.slots) : slots[j] = p.slots[j]
    BY <2>2, PoolTypes, AppendProperties
  <2>4. Len(p.free_slots) = 0
    BY <1>7, EmptySeq
  <2>5. SlotsAfter(p, 1) = Len(p.slots) + 1
    BY <2>4, PoolTypes DEF SlotsAfter
  <2>6. q = [r EXCEPT !.values = Append(p.values, v), !.keys = Append(p.keys, k), !.slots = slots]
    BY <1>2, <1>7 DEF PoolInsert
  <2>7. /\ q.id = p.id /\ q.values = Append(p.values, v) /\ q.keys = Append(p.keys, k)
        /\ q.slots = slots /\ q.free_slots = p.free_slots /\ q.free_capacity = r.free_capacity
    BY <1>1, <1>2, <2>6 DEF Pools
  <2>8. q \in Pools(V)
    BY <1>1, <1>5, <1>6, <2>3, <2>6 DEF Pools
  <2>9. /\ Len(p.slots) \in Nat /\ Len(slots) <= Capacity
        /\ k.slot = Len(p.slots) + 1 /\ k.generation = 0
    BY <2>1, <2>3, <2>5, PoolTypes DEF CanReserve
  <2> HIDE DEF slots, e, r
  <2>10. /\ Len(p.slots) <= Len(q.slots) /\ Len(q.slots) <= Capacity
         /\ k.slot \in 1..Len(q.slots)
         /\ k.slot \notin 1..Len(p.slots)
         /\ Len(q.slots) <= q.free_capacity
    BY <1>1, <2>3, <2>5, <2>7, <2>9
  <2>11. q.slots[k.slot] = [generation |-> k.generation, dense_index |-> n]
    BY <2>3, <2>7, <2>9 DEF e
  <2>12. \A s \in 1..Len(q.slots) :
           s # k.slot => s \in 1..Len(p.slots) /\ q.slots[s] = p.slots[s]
    BY <2>3, <2>7, <2>9, SMTT(40)
  <2>13. QED
    BY <1>3, <1>4, <1>5, <1>6, <2>4, <2>7, <2>8, <2>9, <2>10, <2>11, <2>12 DEF Inserted
<1>8. CASE p.free_slots # <<>>
  <2> DEFINE e == [p.slots[k.slot] EXCEPT !.dense_index = n]
             slots == [p.slots EXCEPT ![k.slot] = e]
             free == ButLast(p.free_slots)
  <2>1. /\ Len(p.free_slots) \in Nat \ {0}
        /\ k.slot = p.free_slots[Len(p.free_slots)]
        /\ k.slot \in 1..Len(p.slots)
        /\ p.slots[k.slot] = [generation |-> k.generation, dense_index |-> VACANT]
    BY <1>8, NextKeyProperties
  <2>2. e = [generation |-> k.generation, dense_index |-> n] /\ e \in Slot
    BY <1>3, <1>4, <2>1 DEF Slot, LocalKey
  <2>3. /\ slots \in Seq(Slot) /\ Len(slots) = Len(p.slots)
        /\ \A j \in 1..Len(p.slots) : slots[j] = IF j = k.slot THEN e ELSE p.slots[j]
    BY <2>1, <2>2, PoolTypes, ExceptSeq
  <2>4. /\ free \in Seq(1..Capacity) /\ Len(free) = Len(p.free_slots) - 1
        /\ \A j \in 1..(Len(p.free_slots) - 1) : free[j] = p.free_slots[j]
    BY <1>8, PoolTypes, ButLastProperties
  <2>5. SlotsAfter(p, 1) = Len(p.slots)
    <3>1. ~(1 > Len(p.free_slots))
      BY <2>1
    <3>2. SlotsAfter(p, 1) = Len(p.slots) + 0
      BY <3>1 DEF SlotsAfter
    <3>3. QED
      BY <3>2, PoolTypes
  <2>6. q = [r EXCEPT !.values = Append(p.values, v), !.keys = Append(p.keys, k),
                      !.slots = slots, !.free_slots = free]
    BY <1>2, <1>8 DEF PoolInsert
  <2>7. /\ q.id = p.id /\ q.values = Append(p.values, v) /\ q.keys = Append(p.keys, k)
        /\ q.slots = slots /\ q.free_slots = free /\ q.free_capacity = r.free_capacity
    BY <1>1, <1>2, <2>6 DEF Pools
  <2>8. q \in Pools(V)
    BY <1>1, <1>5, <1>6, <2>3, <2>4, <2>6 DEF Pools
  <2>9. \A j \in 1..Len(p.free_slots) :
          j # Len(p.free_slots) <=> p.free_slots[j] # k.slot
    BY <2>1, PoolTypes DEF PoolOk, FreeVacant
  <2> HIDE DEF slots, e, r, free
  <2>10. /\ Len(p.slots) <= Len(q.slots) /\ Len(q.slots) <= Capacity
         /\ k.slot \in 1..Len(q.slots)
         /\ Len(q.slots) <= q.free_capacity
    BY <1>1, <2>1, <2>3, <2>5, <2>7, PoolTypes, SMTT(40) DEF PoolOk, SizesAgree
  <2>11. q.slots[k.slot] = [generation |-> k.generation, dense_index |-> n]
    BY <2>1, <2>2, <2>3, <2>7
  <2>12. \A s \in 1..Len(q.slots) :
           s # k.slot => s \in 1..Len(p.slots) /\ q.slots[s] = p.slots[s]
    BY <2>3, <2>7
  <2>13. \A j \in 1..Len(q.free_slots) :
           /\ j \in 1..Len(p.free_slots)
           /\ q.free_slots[j] = p.free_slots[j]
           /\ q.free_slots[j] # k.slot
    BY <2>1, <2>4, <2>7, <2>9
  <2>14. \A j \in 1..Len(p.free_slots) :
           p.free_slots[j] # k.slot => j \in 1..Len(q.free_slots)
    BY <2>1, <2>4, <2>7, <2>9
  <2>15. QED
    BY <1>3, <1>4, <1>5, <1>6, <2>1, <2>7, <2>8, <2>10, <2>11, <2>12, <2>13, <2>14
    DEF Inserted
<1>9. QED
  BY <1>7, <1>8

(* insert preserves the structure. *)
LEMMA PoolInsertOk ==
  ASSUME NEW V, NEW p \in Pools(V), PoolOk(p), CanReserve(p, 1), NEW v \in V
  PROVE  PoolInsert(p, v) \in Pools(V) /\ PoolOk(PoolInsert(p, v))
<1>1. PICK q, k, n : /\ q = PoolInsert(p, v) /\ k = NextKey(p) /\ n = Len(p.values) + 1
                     /\ Inserted(V, p, v, q, k, n)
  BY PoolInsertFields
<1>2. q \in Pools(V) /\ n \in Nat \ {0} /\ k \in LocalKey /\ n <= Capacity
  BY <1>1 DEF Inserted
<1>3. /\ Len(q.values) = n /\ Len(q.keys) = n /\ q.keys[n] = k
      /\ Len(p.keys) = n - 1
      /\ \A j \in 1..(n - 1) : q.keys[j] = p.keys[j]
  BY <1>1, PoolTypes DEF Inserted, PoolOk, SizesAgree
<1>4. /\ Len(p.slots) <= Len(q.slots) /\ Len(q.slots) <= Capacity
      /\ k.slot \in 1..Len(q.slots)
      /\ q.slots[k.slot] = [generation |-> k.generation, dense_index |-> n]
      /\ \A s \in 1..Len(q.slots) :
           s # k.slot => s \in 1..Len(p.slots) /\ q.slots[s] = p.slots[s]
      /\ Len(q.slots) <= q.free_capacity
  BY <1>1 DEF Inserted
<1>4a. Len(p.slots) \in Nat /\ Len(q.slots) \in Nat
  BY <1>2, PoolTypes
<1>5. k.slot \in 1..Len(p.slots) => p.slots[k.slot].dense_index = VACANT
  BY <1>1 DEF Inserted
<1>6. /\ \A j \in 1..Len(q.free_slots) :
           /\ j \in 1..Len(p.free_slots)
           /\ q.free_slots[j] = p.free_slots[j]
           /\ q.free_slots[j] # k.slot
      /\ \A j \in 1..Len(p.free_slots) :
           p.free_slots[j] # k.slot => j \in 1..Len(q.free_slots)
  BY <1>1 DEF Inserted
<1>7. SizesAgree(q) /\ FreeReserved(q)
  BY <1>2, <1>3, <1>4 DEF SizesAgree, FreeReserved
<1>8. KeysIndexed(q)
  <2> SUFFICES ASSUME NEW i \in 1..Len(q.keys)
               PROVE  /\ q.keys[i].slot <= Len(q.slots)
                      /\ q.slots[q.keys[i].slot] =
                           [generation |-> q.keys[i].generation, dense_index |-> i]
    BY DEF KeysIndexed
  <2>1. CASE i = n
    BY <1>3, <1>4, <2>1
  <2>2. CASE i # n
    <3>1. i \in 1..Len(p.keys) /\ q.keys[i] = p.keys[i]
      BY <1>2, <1>3, <2>2
    <3>2. /\ p.keys[i].slot \in 1..Len(p.slots)
          /\ p.slots[p.keys[i].slot] = [generation |-> p.keys[i].generation, dense_index |-> i]
      BY <3>1, PoolTypes, SMTT(40) DEF PoolOk, KeysIndexed, LocalKey
    <3>3. i # VACANT
      BY <1>2, <1>3, PoolBounds DEF VACANT
    <3>4. p.keys[i].slot # k.slot
      BY <1>5, <3>2, <3>3
    <3>5. p.keys[i].slot \in 1..Len(q.slots)
      BY <1>4, <1>4a, <3>2
    <3>6. QED
      BY <1>4, <3>1, <3>2, <3>4, <3>5
  <2>3. QED
    BY <2>1, <2>2
<1>9. SlotsOccupied(q)
  <2> SUFFICES ASSUME NEW s \in 1..Len(q.slots), q.slots[s].dense_index # VACANT
               PROVE  /\ q.slots[s].dense_index <= Len(q.keys)
                      /\ q.keys[q.slots[s].dense_index].slot = s
    BY DEF SlotsOccupied
  <2>1. CASE s = k.slot
    BY <1>2, <1>3, <1>4, <2>1
  <2>2. CASE s # k.slot
    <3>1. s \in 1..Len(p.slots) /\ q.slots[s] = p.slots[s]
      BY <1>4, <2>2
    <3>2. /\ p.slots[s].dense_index <= Len(p.keys)
          /\ p.keys[p.slots[s].dense_index].slot = s
      BY <3>1 DEF PoolOk, SlotsOccupied
    <3>3. p.slots[s].dense_index \in 1..Capacity
      BY <3>1, PoolTypes, SlotTypes
    <3>4. QED
      BY <1>2, <1>3, <3>1, <3>2, <3>3
  <2>3. QED
    BY <2>1, <2>2
<1>10. FreeVacant(q)
  <2>1. ASSUME NEW i \in 1..Len(q.free_slots)
        PROVE  /\ q.free_slots[i] <= Len(q.slots)
               /\ q.slots[q.free_slots[i]].dense_index = VACANT
    <3>1. /\ i \in 1..Len(p.free_slots) /\ q.free_slots[i] = p.free_slots[i]
          /\ p.free_slots[i] # k.slot
      BY <1>6
    <3>2. p.free_slots[i] \in 1..Len(p.slots) /\ p.slots[p.free_slots[i]].dense_index = VACANT
      BY <3>1, PoolTypes DEF PoolOk, FreeVacant
    <3>3. p.free_slots[i] \in 1..Len(q.slots)
      BY <1>4, <1>4a, <3>2
    <3>4. QED
      BY <1>4, <3>1, <3>2, <3>3
  <2>2. \A i, j \in 1..Len(q.free_slots) : q.free_slots[i] = q.free_slots[j] => i = j
    BY <1>6 DEF PoolOk, FreeVacant
  <2>3. QED
    BY <2>1, <2>2 DEF FreeVacant
<1>11. VacantFree(q)
  <2> SUFFICES ASSUME NEW s \in 1..Len(q.slots), q.slots[s].dense_index = VACANT
               PROVE  \/ q.slots[s].generation = MaxGeneration
                      \/ \E i \in 1..Len(q.free_slots) : q.free_slots[i] = s
    BY DEF VacantFree, FreeAt
  <2>1. s # k.slot
    BY <1>2, <1>4, PoolBounds DEF VACANT
  <2>2. s \in 1..Len(p.slots) /\ q.slots[s] = p.slots[s]
    BY <1>4, <2>1
  <2>3. CASE p.slots[s].generation = MaxGeneration
    BY <2>2, <2>3
  <2>4. CASE \E i \in 1..Len(p.free_slots) : p.free_slots[i] = s
    BY <1>6, <2>1, <2>4
  <2>5. QED
    BY <2>2, <2>3, <2>4 DEF PoolOk, VacantFree, FreeAt
<1>12. QED
  BY <1>1, <1>2, <1>7, <1>8, <1>9, <1>10, <1>11 DEF PoolOk

(* remove, buffer by buffer: the last payload fills the gap at i and its   *)
(* slot says so, the slot of k is vacant at its next generation and free   *)
(* unless it was at its last.  q is the pool after, n the payloads before. *)
Removed(V, p, k, q, i, n) ==
  /\ q \in Pools(V) /\ q.id = p.id /\ n \in Nat \ {0} /\ i \in 1..n
  /\ n = Len(p.values) /\ n = Len(p.keys)
  /\ p.keys[i] = [slot |-> k.slot, generation |-> k.generation]
  /\ p.keys[n].slot \in 1..Len(p.slots)
  /\ p.keys[n].slot = k.slot => i = n
  /\ Len(q.values) = n - 1 /\ Len(q.keys) = n - 1
  /\ \A j \in 1..(n - 1) : /\ q.values[j] = IF j = i THEN p.values[n] ELSE p.values[j]
                           /\ q.keys[j] = IF j = i THEN p.keys[n] ELSE p.keys[j]
  /\ Len(q.slots) = Len(p.slots) /\ k.slot \in 1..Len(p.slots)
  /\ p.slots[k.slot] = [generation |-> k.generation, dense_index |-> i]
  /\ q.slots[k.slot].dense_index = VACANT
  /\ k.generation < MaxGeneration =>
       /\ q.slots[k.slot].generation = k.generation + 1
       /\ q.free_slots = Append(p.free_slots, k.slot)
  /\ ~(k.generation < MaxGeneration) =>
       /\ q.slots[k.slot].generation = k.generation
       /\ q.free_slots = p.free_slots
  /\ p.keys[n].slot # k.slot =>
       q.slots[p.keys[n].slot] = [generation |-> p.slots[p.keys[n].slot].generation, dense_index |-> i]
  /\ \A s \in 1..Len(p.slots) :
       s # k.slot /\ s # p.keys[n].slot => q.slots[s] = p.slots[s]
  /\ q.free_capacity = p.free_capacity

LEMMA VacatedProperties ==
  ASSUME NEW e \in Slot
  PROVE  /\ Vacated(e) \in Slot
         /\ Vacated(e).dense_index = VACANT
         /\ e.generation < MaxGeneration => Vacated(e).generation = e.generation + 1
         /\ ~(e.generation < MaxGeneration) => Vacated(e).generation = e.generation
<1>1. e.generation \in 0..MaxGeneration /\ VACANT \in 1..VACANT
  BY PoolBounds, SlotTypes DEF VACANT
<1>2. CASE e.generation < MaxGeneration
  <2>1. Vacated(e) = [generation |-> e.generation + 1, dense_index |-> VACANT]
    BY <1>2 DEF Vacated
  <2>2. e.generation + 1 \in 0..MaxGeneration
    BY <1>1, <1>2, PoolBounds
  <2>3. QED
    BY <1>1, <1>2, <2>1, <2>2 DEF Slot
<1>3. CASE ~(e.generation < MaxGeneration)
  <2>1. Vacated(e) = [generation |-> e.generation, dense_index |-> VACANT]
    BY <1>3 DEF Vacated
  <2>2. QED
    BY <1>1, <1>3, <2>1 DEF Slot
<1>4. QED
  BY <1>2, <1>3

LEMMA PoolRemoveFields ==
  ASSUME NEW V, NEW p \in Pools(V), PoolOk(p), NEW k \in RawKey, Resolves(p, k)
  PROVE  Removed(V, p, k, PoolRemove(p, k), PoolIndex(p, k), Len(p.values))
<1> SUFFICES ASSUME NEW q, q = PoolRemove(p, k), NEW i, i = PoolIndex(p, k),
                    NEW n, n = Len(p.values)
             PROVE  Removed(V, p, k, q, i, n)
  OBVIOUS
<1> DEFINE slots == SlotsAfterRemoval(p, k.slot, i)
           m == p.keys[n].slot
           free == IF k.generation < MaxGeneration THEN Append(p.free_slots, k.slot)
                   ELSE p.free_slots
<1>1. /\ k.slot \in 1..Len(p.slots) /\ k.slot \in 1..Capacity
      /\ p.slots[k.slot].generation = k.generation
      /\ p.slots[k.slot].dense_index # VACANT
      /\ k.generation \in 0..MaxGeneration
  BY PoolTypes DEF Resolves, KeyStatus, RawKey
<1>2. /\ n = Len(p.keys) /\ n \in Nat /\ Len(p.slots) \in Nat /\ n <= Capacity
  BY PoolTypes DEF PoolOk, SizesAgree
<1>3. i \in 1..n
  <2>1. p.slots[k.slot].dense_index \in 1..Capacity
    BY <1>1, PoolTypes, SlotTypes
  <2>2. p.slots[k.slot].dense_index <= Len(p.keys)
    BY <1>1 DEF PoolOk, SlotsOccupied
  <2>3. QED
    BY <1>2, <2>1, <2>2 DEF PoolIndex
<1>4. n \in Nat \ {0} /\ n \in 1..n
  BY <1>2, <1>3
<1>5. p.keys[i] = [slot |-> k.slot, generation |-> k.generation]
  <2>1. p.keys[i].slot = k.slot
    BY <1>1 DEF PoolOk, SlotsOccupied, PoolIndex
  <2>2. p.slots[p.keys[i].slot] = [generation |-> p.keys[i].generation, dense_index |-> i]
    BY <1>2, <1>3 DEF PoolOk, KeysIndexed
  <2>3. p.keys[i].generation = k.generation
    BY <1>1, <2>1, <2>2
  <2>4. p.keys[i] \in LocalKey
    BY <1>2, <1>3, PoolTypes
  <2>5. QED
    BY <2>1, <2>3, <2>4 DEF LocalKey
<1>6. p.slots[k.slot] = [generation |-> k.generation, dense_index |-> i]
  BY <1>2, <1>3, <1>5 DEF PoolOk, KeysIndexed
<1>7. /\ m \in 1..Len(p.slots)
      /\ p.slots[m] = [generation |-> p.keys[n].generation, dense_index |-> n]
  <2>1. n \in 1..Len(p.keys) /\ m \in 1..Capacity
    BY <1>2, <1>4, PoolTypes DEF LocalKey
  <2>2. m <= Len(p.slots)
    BY <2>1 DEF PoolOk, KeysIndexed
  <2>3. p.slots[m] = [generation |-> p.keys[n].generation, dense_index |-> n]
    BY <2>1 DEF PoolOk, KeysIndexed
  <2>4. QED
    BY <1>2, <2>1, <2>2, <2>3
<1>8. m = k.slot => i = n
  BY <1>6, <1>7
<1>9. /\ SwapRemove(p.values, i) \in Seq(V) /\ Len(SwapRemove(p.values, i)) = n - 1
      /\ \A j \in 1..(n - 1) :
           SwapRemove(p.values, i)[j] = IF j = i THEN p.values[n] ELSE p.values[j]
  <2>1. p.values \in Seq(V) /\ i \in 1..Len(p.values) /\ n = Len(p.values)
    BY <1>3, PoolTypes
  <2>2. /\ SwapRemove(p.values, i) \in Seq(V)
        /\ Len(SwapRemove(p.values, i)) = Len(p.values) - 1
        /\ \A j \in 1..(Len(p.values) - 1) : SwapRemove(p.values, i)[j] =
             IF j = i THEN p.values[Len(p.values)] ELSE p.values[j]
    BY <2>1, SwapRemoveProperties, ZenonT(40)
  <2>3. QED
    BY <2>1, <2>2, Zenon
<1>10. /\ SwapRemove(p.keys, i) \in Seq(LocalKey) /\ Len(SwapRemove(p.keys, i)) = n - 1
       /\ \A j \in 1..(n - 1) :
            SwapRemove(p.keys, i)[j] = IF j = i THEN p.keys[n] ELSE p.keys[j]
  <2>1. p.keys \in Seq(LocalKey) /\ i \in 1..Len(p.keys) /\ n = Len(p.keys)
    BY <1>2, <1>3, PoolTypes
  <2>2. /\ SwapRemove(p.keys, i) \in Seq(LocalKey)
        /\ Len(SwapRemove(p.keys, i)) = Len(p.keys) - 1
        /\ \A j \in 1..(Len(p.keys) - 1) : SwapRemove(p.keys, i)[j] =
             IF j = i THEN p.keys[Len(p.keys)] ELSE p.keys[j]
    BY <2>1, SwapRemoveProperties, ZenonT(40)
  <2>3. QED
    BY <2>1, <2>2, Zenon
<1>11. \A t \in 1..Len(p.slots) :
         slots[t] = IF t = k.slot THEN Vacated(p.slots[t])
                    ELSE IF t = m THEN [p.slots[t] EXCEPT !.dense_index = i]
                    ELSE p.slots[t]
  BY <1>1, <1>2 DEF SlotsAfterRemoval
<1> HIDE DEF slots
<1>12. slots[k.slot] = Vacated(p.slots[k.slot])
  BY <1>1, <1>11
<1>13. /\ slots[k.slot] \in Slot
       /\ slots[k.slot].dense_index = VACANT
       /\ k.generation < MaxGeneration => slots[k.slot].generation = k.generation + 1
       /\ ~(k.generation < MaxGeneration) => slots[k.slot].generation = k.generation
  BY <1>1, <1>12, PoolTypes, VacatedProperties
<1>15. m # k.slot => slots[m] = [generation |-> p.slots[m].generation, dense_index |-> i]
  BY <1>7, <1>11
<1>16. \A s \in 1..Len(p.slots) : s # k.slot /\ s # m => slots[s] = p.slots[s]
  BY <1>11
<1>17. \A t \in 1..Len(p.slots) : slots[t] \in Slot
  <2> SUFFICES ASSUME NEW t \in 1..Len(p.slots) PROVE slots[t] \in Slot
    OBVIOUS
  <2>1. /\ VACANT \in 1..VACANT /\ i \in 1..VACANT
    BY <1>2, <1>3, PoolBounds DEF VACANT
  <2>2. CASE t = k.slot
    BY <1>13, <2>2
  <2>3. CASE t # k.slot /\ t = m
    <3>1. slots[t] = [generation |-> p.slots[m].generation, dense_index |-> i]
      BY <1>15, <2>3
    <3>2. p.slots[m].generation \in 0..MaxGeneration
      BY <1>7, PoolTypes, SlotTypes
    <3>3. QED
      BY <2>1, <3>1, <3>2, SMTT(40) DEF Slot
  <2>4. CASE t # k.slot /\ t # m
    BY <1>16, <2>4, PoolTypes
  <2>5. QED
    BY <2>2, <2>3, <2>4
<1>18. slots \in Seq(Slot) /\ Len(slots) = Len(p.slots)
  <2>1. slots \in [1..Len(p.slots) -> Slot]
    BY <1>17 DEF slots, SlotsAfterRemoval
  <2>2. slots \in Seq(Slot)
    BY <1>2, <2>1, SeqDef
  <2>3. QED
    BY <1>2, <2>1, <2>2, LenProperties
<1>19. free \in Seq(1..Capacity)
  BY <1>1, PoolTypes, AppendProperties
<1> HIDE DEF m, free
<1>20. q = [p EXCEPT !.values = SwapRemove(p.values, i), !.keys = SwapRemove(p.keys, i),
                     !.slots = slots, !.free_slots = free]
  BY DEF PoolRemove, slots, free
<1>21. /\ q.id = p.id /\ q.values = SwapRemove(p.values, i) /\ q.keys = SwapRemove(p.keys, i)
       /\ q.slots = slots /\ q.free_slots = free /\ q.free_capacity = p.free_capacity
  BY <1>20 DEF Pools
<1>22. q \in Pools(V)
  BY <1>9, <1>10, <1>18, <1>19, <1>20 DEF Pools
<1>23. /\ k.generation < MaxGeneration => q.free_slots = Append(p.free_slots, k.slot)
       /\ ~(k.generation < MaxGeneration) => q.free_slots = p.free_slots
  BY <1>21 DEF free
<1>24. QED
  BY <1>1, <1>2, <1>3, <1>4, <1>5, <1>6, <1>7, <1>8, <1>9, <1>10, <1>13, <1>15,
     <1>16, <1>18, <1>21, <1>22, <1>23 DEF Removed, m

(* remove preserves the structure. *)
LEMMA PoolRemoveOk ==
  ASSUME NEW V, NEW p \in Pools(V), PoolOk(p), NEW k \in RawKey, Resolves(p, k)
  PROVE  PoolRemove(p, k) \in Pools(V) /\ PoolOk(PoolRemove(p, k))
<1>1. PICK q, i, n : q = PoolRemove(p, k) /\ Removed(V, p, k, q, i, n)
  BY PoolRemoveFields
<1> DEFINE m == p.keys[n].slot
<1>2. /\ q \in Pools(V) /\ n \in Nat \ {0} /\ i \in 1..n /\ n = Len(p.keys)
      /\ p.keys[i] = [slot |-> k.slot, generation |-> k.generation]
      /\ m \in 1..Len(p.slots) /\ k.slot \in 1..Len(p.slots)
      /\ m = k.slot => i = n
      /\ Len(q.values) = n - 1 /\ Len(q.keys) = n - 1 /\ Len(q.slots) = Len(p.slots)
      /\ q.free_capacity = p.free_capacity
      /\ p.slots[k.slot] = [generation |-> k.generation, dense_index |-> i]
      /\ q.slots[k.slot].dense_index = VACANT
      /\ m # k.slot => q.slots[m] = [generation |-> p.slots[m].generation, dense_index |-> i]
  BY <1>1 DEF Removed
<1>3. /\ \A j \in 1..(n - 1) : q.keys[j] = IF j = i THEN p.keys[n] ELSE p.keys[j]
      /\ \A s \in 1..Len(p.slots) : s # k.slot /\ s # m => q.slots[s] = p.slots[s]
  BY <1>1 DEF Removed
<1>4. /\ n <= Capacity /\ Len(p.slots) \in Nat /\ Len(p.slots) <= Capacity
      /\ n \in 1..Len(p.keys) /\ VACANT = Capacity + 1 /\ i # VACANT
      /\ p.slots[m] = [generation |-> p.keys[n].generation, dense_index |-> n]
  <2>1. n <= Capacity /\ n \in 1..Len(p.keys) /\ Len(p.slots) \in Nat /\ Len(p.slots) <= Capacity
    BY <1>2, PoolTypes DEF PoolOk, SizesAgree
  <2>2. p.slots[m] = [generation |-> p.keys[n].generation, dense_index |-> n]
    BY <2>1 DEF PoolOk, KeysIndexed
  <2>3. QED
    BY <1>2, <2>1, <2>2, PoolBounds DEF VACANT
<1> HIDE DEF m
<1>5. SizesAgree(q)
  BY <1>2, <1>4, PoolBounds DEF SizesAgree
<1>6. FreeReserved(q)
  BY <1>2 DEF PoolOk, FreeReserved
<1>7. KeysIndexed(q)
  <2> SUFFICES ASSUME NEW j \in 1..Len(q.keys)
               PROVE  /\ q.keys[j].slot <= Len(q.slots)
                      /\ q.slots[q.keys[j].slot] =
                           [generation |-> q.keys[j].generation, dense_index |-> j]
    BY DEF KeysIndexed
  <2>1. j \in 1..(n - 1) /\ j # n /\ j \in 1..Len(p.keys)
    BY <1>2
  <2>2. CASE j = i
    <3>1. q.keys[j] = p.keys[n] /\ m # k.slot /\ q.keys[j].slot = m
      BY <1>2, <1>3, <2>1, <2>2 DEF m
    <3>2. q.slots[m] = [generation |-> p.keys[n].generation, dense_index |-> i]
      BY <1>2, <1>4, <3>1
    <3>3. QED
      BY <1>2, <1>4, <2>2, <3>1, <3>2
  <2>3. CASE j # i
    <3>1. q.keys[j] = p.keys[j]
      BY <1>3, <2>1, <2>3
    <3>2. /\ p.keys[j].slot <= Len(p.slots)
          /\ p.slots[p.keys[j].slot] = [generation |-> p.keys[j].generation, dense_index |-> j]
      BY <2>1 DEF PoolOk, KeysIndexed
    <3>3. p.keys[j].slot # k.slot /\ p.keys[j].slot # m
      BY <1>2, <1>4, <2>1, <2>3, <3>2, SMTT(40)
    <3>4. p.keys[j].slot \in 1..Len(p.slots)
      <4>1. p.keys[j].slot \in 1..Capacity
        BY <2>1, PoolTypes DEF LocalKey
      <4>2. QED
        BY <1>4, <3>2, <4>1
    <3>5. QED
      BY <1>2, <1>3, <3>1, <3>2, <3>3, <3>4, SMTT(40)
  <2>4. QED
    BY <2>2, <2>3
<1>8. SlotsOccupied(q)
  <2> SUFFICES ASSUME NEW s \in 1..Len(q.slots), q.slots[s].dense_index # VACANT
               PROVE  /\ q.slots[s].dense_index <= Len(q.keys)
                      /\ q.keys[q.slots[s].dense_index].slot = s
    BY DEF SlotsOccupied
  <2>1. s # k.slot /\ s \in 1..Len(p.slots)
    BY <1>2
  <2>2. CASE s = m
    <3>1. q.slots[s].dense_index = i
      BY <1>2, <2>1, <2>2
    <3>2. i # n
      BY <1>2, <2>1, <2>2 DEF m
    <3>3. i \in 1..(n - 1) /\ q.keys[i] = p.keys[n]
      BY <1>2, <1>3, <3>2, SMTT(40)
    <3>4. QED
      BY <1>2, <2>2, <3>1, <3>3 DEF m
  <2>3. CASE s # m
    <3>1. q.slots[s] = p.slots[s]
      BY <1>3, <2>1, <2>3
    <3> DEFINE d == p.slots[s].dense_index
    <3>2. d <= Len(p.keys) /\ p.keys[d].slot = s
      BY <2>1, <3>1 DEF PoolOk, SlotsOccupied
    <3>3. d \in 1..Capacity
      BY <2>1, <3>1, PoolTypes, SlotTypes
    <3> HIDE DEF d
    <3>4. d # n /\ d # i
      BY <1>2, <2>1, <2>3, <3>2 DEF m
    <3>5. d \in 1..(n - 1) /\ q.keys[d] = p.keys[d]
      BY <1>2, <1>3, <3>2, <3>3, <3>4
    <3>6. QED
      BY <1>2, <3>1, <3>2, <3>5 DEF d
  <2>4. QED
    BY <2>2, <2>3
<1>9. \A s \in 1..Len(p.slots) :
        /\ p.slots[s].dense_index = VACANT => q.slots[s] = p.slots[s] /\ s # k.slot
        /\ q.slots[s].dense_index = VACANT /\ s # k.slot => q.slots[s] = p.slots[s]
  <2> SUFFICES ASSUME NEW s \in 1..Len(p.slots)
               PROVE  /\ p.slots[s].dense_index = VACANT => q.slots[s] = p.slots[s] /\ s # k.slot
                      /\ q.slots[s].dense_index = VACANT /\ s # k.slot => q.slots[s] = p.slots[s]
    OBVIOUS
  <2>1. n # VACANT
    BY <1>2, <1>4, PoolBounds
  <2>2. p.slots[s].dense_index = VACANT => s # k.slot /\ s # m
    BY <1>2, <1>4, <2>1
  <2>3. q.slots[s].dense_index = VACANT /\ s # k.slot => s # m
    BY <1>2, <1>4
  <2>4. QED
    BY <1>3, <2>2, <2>3
<1>10. CASE k.generation < MaxGeneration
  <2>1. q.free_slots = Append(p.free_slots, k.slot)
    BY <1>1, <1>10 DEF Removed
  <2> DEFINE f == Len(p.free_slots)
  <2>2. /\ f \in Nat /\ Len(q.free_slots) = f + 1 /\ q.free_slots[f + 1] = k.slot
        /\ \A j \in 1..f : q.free_slots[j] = p.free_slots[j]
    <3>1. k.slot \in 1..Capacity /\ p.free_slots \in Seq(1..Capacity)
      BY <1>2, <1>4, PoolTypes, PoolBounds
    <3>2. QED
      BY <2>1, <3>1, PoolTypes, AppendProperties
  <2>3. \A j \in 1..f : p.free_slots[j] \in 1..Len(p.slots)
                        /\ p.slots[p.free_slots[j]].dense_index = VACANT
    BY <1>4, PoolTypes DEF PoolOk, FreeVacant
  <2>4. \A j \in 1..f : p.free_slots[j] # k.slot
                        /\ q.slots[p.free_slots[j]].dense_index = VACANT
    BY <1>9, <2>3
  <2> HIDE DEF f
  <2>5. FreeVacant(q)
    <3>1. ASSUME NEW j \in 1..Len(q.free_slots)
          PROVE  /\ q.free_slots[j] <= Len(q.slots)
                 /\ q.slots[q.free_slots[j]].dense_index = VACANT
      <4>1. CASE j = f + 1
        <5>1. q.free_slots[j] = k.slot /\ Len(q.slots) = Len(p.slots)
          BY <1>2, <2>2, <4>1
        <5>2. QED
          BY <1>2, <1>4, <5>1
      <4>2. CASE j \in 1..f
        <5>1. q.free_slots[j] = p.free_slots[j] /\ Len(q.slots) = Len(p.slots)
          BY <1>2, <2>2, <4>2
        <5>2. QED
          BY <1>4, <2>3, <2>4, <4>2, <5>1
      <4>3. QED
        BY <2>2, <4>1, <4>2
    <3>2. ASSUME NEW a \in 1..Len(q.free_slots), NEW b \in 1..Len(q.free_slots),
                 q.free_slots[a] = q.free_slots[b]
          PROVE  a = b
      <4>1. CASE a \in 1..f /\ b \in 1..f
        BY <2>2, <3>2, <4>1 DEF PoolOk, FreeVacant, f
      <4>2. CASE a = f + 1 \/ b = f + 1
        BY <2>2, <2>4, <3>2, <4>2
      <4>3. QED
        BY <2>2, <4>1, <4>2
    <3>3. QED
      BY <3>1, <3>2 DEF FreeVacant
  <2>6. VacantFree(q)
    <3> SUFFICES ASSUME NEW s \in 1..Len(q.slots), q.slots[s].dense_index = VACANT
                 PROVE  \/ q.slots[s].generation = MaxGeneration
                        \/ \E j \in 1..Len(q.free_slots) : q.free_slots[j] = s
      BY DEF VacantFree, FreeAt
    <3>1. CASE s = k.slot
      BY <2>2, <3>1
    <3>2. CASE s # k.slot
      <4>1. s \in 1..Len(p.slots) /\ q.slots[s] = p.slots[s]
        BY <1>2, <1>9, <3>2
      <4>2. \/ p.slots[s].generation = MaxGeneration
            \/ \E j \in 1..f : p.free_slots[j] = s
        BY <4>1 DEF PoolOk, VacantFree, FreeAt, f
      <4>3. QED
        BY <2>2, <4>1, <4>2
    <3>3. QED
      BY <3>1, <3>2
  <2>7. QED
    BY <1>1, <1>2, <1>5, <1>6, <1>7, <1>8, <2>5, <2>6 DEF PoolOk
<1>11. CASE ~(k.generation < MaxGeneration)
  <2>1. q.free_slots = p.free_slots /\ q.slots[k.slot].generation = k.generation
    BY <1>1, <1>11 DEF Removed
  <2>2. k.generation = MaxGeneration
    BY <1>11, PoolBounds DEF RawKey
  <2>3. FreeVacant(q)
    <3>1. \A j \in 1..Len(p.free_slots) : p.free_slots[j] \in 1..Len(p.slots)
                        /\ p.slots[p.free_slots[j]].dense_index = VACANT
      BY <1>4, PoolTypes DEF PoolOk, FreeVacant
    <3>2. \A j \in 1..Len(p.free_slots) : q.slots[p.free_slots[j]].dense_index = VACANT
      BY <1>9, <3>1
    <3>3. QED
      BY <1>2, <2>1, <3>1, <3>2 DEF PoolOk, FreeVacant
  <2>4. VacantFree(q)
    BY <1>2, <1>9, <2>1, <2>2, SMTT(40) DEF PoolOk, VacantFree, FreeAt
  <2>5. QED
    BY <1>1, <1>2, <1>5, <1>6, <1>7, <1>8, <2>3, <2>4 DEF PoolOk
<1>12. QED
  BY <1>10, <1>11

-----------------------------------------------------------------------------
(* What a lookup answers before and after each operation. *)

(* A packed key resolves to its own position. *)
LEMMA PackedKeyResolves ==
  ASSUME NEW V, NEW p \in Pools(V), PoolOk(p), NEW i \in 1..Len(p.keys)
  PROVE  /\ Raw(p, p.keys[i]) \in RawKey
         /\ Resolves(p, Raw(p, p.keys[i]))
         /\ PoolIndex(p, Raw(p, p.keys[i])) = i
         /\ Raw(p, p.keys[i]).slot = p.keys[i].slot
         /\ Raw(p, p.keys[i]).generation = p.keys[i].generation
<1> DEFINE k == Raw(p, p.keys[i])
<1>1. /\ k.pool = p.id /\ k.slot = p.keys[i].slot /\ k.generation = p.keys[i].generation
      /\ k = [pool |-> p.id, slot |-> p.keys[i].slot, generation |-> p.keys[i].generation]
  BY DEF Raw
<1>2. p.keys[i] \in LocalKey /\ p.id \in PoolId
  BY PoolTypes
<1>3. k \in RawKey
  BY <1>1, <1>2 DEF LocalKey, RawKey
<1>4. /\ p.keys[i].slot <= Len(p.slots)
      /\ p.slots[k.slot] = [generation |-> k.generation, dense_index |-> i]
  BY <1>1 DEF PoolOk, KeysIndexed
<1>5. i # VACANT
  BY PoolTypes, PoolBounds DEF VACANT, PoolOk, SizesAgree
<1>6. ~(k.slot > Len(p.slots))
  BY <1>1, <1>2, <1>4, PoolTypes, SMTT(40) DEF LocalKey
<1>7. Resolves(p, k)
  BY <1>1, <1>4, <1>5, <1>6 DEF Resolves, KeyStatus
<1>8. QED
  BY <1>1, <1>3, <1>4, <1>7 DEF PoolIndex

(* A handle that resolves is the packed key at its position. *)
LEMMA ResolvedKeyIsPacked ==
  ASSUME NEW V, NEW p \in Pools(V), PoolOk(p), NEW k \in RawKey, Resolves(p, k)
  PROVE  /\ PoolIndex(p, k) \in 1..Len(p.keys)
         /\ PoolGet(p, k) \in V
         /\ k = Raw(p, p.keys[PoolIndex(p, k)])
<1>1. PICK q, i, n : i = PoolIndex(p, k) /\ Removed(V, p, k, q, i, n)
  BY PoolRemoveFields
<1>2. /\ i \in 1..Len(p.keys) /\ i \in 1..Len(p.values)
      /\ p.keys[i] = [slot |-> k.slot, generation |-> k.generation]
  BY <1>1 DEF Removed
<1>3. k.pool = p.id
  BY DEF Resolves, KeyStatus
<1>4. k = [pool |-> k.pool, slot |-> k.slot, generation |-> k.generation]
  BY DEF RawKey
<1>5. QED
  BY <1>1, <1>2, <1>3, <1>4, PoolTypes DEF Raw, PoolGet

LEMMA ReserveLookup ==
  ASSUME NEW V, NEW p \in Pools(V), PoolOk(p), NEW n \in Nat, NEW j
  PROVE  /\ KeyStatus(PoolReserve(p, n), j) = KeyStatus(p, j)
         /\ PoolIndex(PoolReserve(p, n), j) = PoolIndex(p, j)
         /\ PoolGet(PoolReserve(p, n), j) = PoolGet(p, j)
<1> DEFINE r == PoolReserve(p, n)
<1>1. r = [p EXCEPT !.free_capacity = r.free_capacity]
  BY PoolReserveOk
<1> HIDE DEF r
<1>2. r.id = p.id /\ r.values = p.values /\ r.slots = p.slots
  BY <1>1 DEF Pools
<1>3. QED
  BY <1>2 DEF r, KeyStatus, PoolIndex, PoolGet

LEMMA SetLookup ==
  ASSUME NEW V, NEW p \in Pools(V), PoolOk(p), NEW k \in RawKey, Resolves(p, k), NEW v \in V,
         NEW j \in RawKey
  PROVE  /\ KeyStatus(PoolSet(p, k, v), j) = KeyStatus(p, j)
         /\ PoolIndex(PoolSet(p, k, v), j) = PoolIndex(p, j)
         /\ Resolves(p, j) => PoolGet(PoolSet(p, k, v), j) = IF j = k THEN v ELSE PoolGet(p, j)
<1> DEFINE q == PoolSet(p, k, v)
<1>1. q = [p EXCEPT !.values = [@ EXCEPT ![PoolIndex(p, k)] = v]]
  BY PoolSetOk
<1>2. /\ q.id = p.id /\ q.slots = p.slots
      /\ q.values = [p.values EXCEPT ![PoolIndex(p, k)] = v]
  BY <1>1 DEF Pools
<1>3. KeyStatus(q, j) = KeyStatus(p, j) /\ PoolIndex(q, j) = PoolIndex(p, j)
  BY <1>2 DEF KeyStatus, PoolIndex
<1>4. ASSUME Resolves(p, j)
      PROVE  PoolGet(q, j) = IF j = k THEN v ELSE PoolGet(p, j)
  <2>1. /\ PoolIndex(p, k) \in 1..Len(p.values)
        /\ PoolIndex(p, j) \in 1..Len(p.values)
        /\ j # k => PoolIndex(p, j) # PoolIndex(p, k)
    BY <1>4, ResolvedKeyIsPacked DEF PoolOk, SizesAgree
  <2>2. \A i \in 1..Len(p.values) :
          q.values[i] = IF i = PoolIndex(p, k) THEN v ELSE p.values[i]
    BY <1>2, <2>1, PoolTypes, ExceptSeq
  <2>3. QED
    BY <1>3, <2>1, <2>2 DEF PoolGet
<1>5. QED
  BY <1>3, <1>4

(* insert: the new handle resolves to the new payload and did not resolve  *)
(* before; every other handle with a slot in the pool answers as before.   *)
LEMMA InsertLookup ==
  ASSUME NEW V, NEW p \in Pools(V), PoolOk(p), CanReserve(p, 1), NEW v \in V,
         NEW q, q = PoolInsert(p, v), NEW new, new = Raw(p, NextKey(p))
  PROVE  /\ new \in RawKey /\ new.pool = p.id /\ q.id = p.id
         /\ ~Resolves(p, new)
         /\ Resolves(q, new) /\ PoolGet(q, new) = v
         /\ \A j \in RawKey : j # new /\ j.slot <= Len(p.slots) =>
              /\ KeyStatus(q, j) = KeyStatus(p, j)
              /\ Resolves(p, j) => PoolGet(q, j) = PoolGet(p, j)
<1>1. PICK k, n : /\ k = NextKey(p) /\ n = Len(p.values) + 1 /\ Inserted(V, p, v, q, k, n)
  BY PoolInsertFields
<1>2. /\ q \in Pools(V) /\ q.id = p.id /\ n \in Nat \ {0} /\ k \in LocalKey /\ n <= Capacity
      /\ q.values[n] = v
      /\ k.slot \in 1..Len(q.slots)
      /\ q.slots[k.slot] = [generation |-> k.generation, dense_index |-> n]
      /\ k.slot \in 1..Len(p.slots) =>
           p.slots[k.slot] = [generation |-> k.generation, dense_index |-> VACANT]
  BY <1>1 DEF Inserted
<1>3. /\ \A s \in 1..Len(q.slots) :
           s # k.slot => s \in 1..Len(p.slots) /\ q.slots[s] = p.slots[s]
      /\ Len(p.slots) <= Len(q.slots)
      /\ \A j \in 1..(n - 1) : q.values[j] = p.values[j]
  BY <1>1 DEF Inserted
<1>4. Len(p.slots) \in Nat /\ Len(q.slots) \in Nat /\ n # VACANT
  BY <1>2, PoolTypes, PoolBounds DEF VACANT
<1>5. /\ new = [pool |-> p.id, slot |-> k.slot, generation |-> k.generation]
      /\ new.pool = p.id /\ new.slot = k.slot /\ new.generation = k.generation
  BY <1>1 DEF Raw
<1>6. new \in RawKey
  BY <1>2, <1>5, PoolTypes DEF RawKey, LocalKey
<1>7. ~Resolves(p, new)
  <2>1. k.slot \in Nat \ {0}
    BY <1>2 DEF LocalKey
  <2>2. CASE k.slot > Len(p.slots)
    BY <1>5, <2>2 DEF Resolves, KeyStatus
  <2>3. CASE k.slot \in 1..Len(p.slots)
    BY <1>2, <1>5, <2>3 DEF Resolves, KeyStatus
  <2>4. QED
    BY <1>4, <2>1, <2>2, <2>3
<1>8. Resolves(q, new) /\ PoolGet(q, new) = v
  <2>1. ~(new.slot > Len(q.slots))
    BY <1>2, <1>4, <1>5
  <2>2. QED
    BY <1>2, <1>4, <1>5, <2>1 DEF Resolves, KeyStatus, PoolGet, PoolIndex
<1>9. ASSUME NEW j \in RawKey, j # new, j.slot <= Len(p.slots)
      PROVE  /\ KeyStatus(q, j) = KeyStatus(p, j)
             /\ Resolves(p, j) => PoolGet(q, j) = PoolGet(p, j)
  <2>1. /\ j.slot \in 1..Len(p.slots) /\ j.slot \in 1..Len(q.slots)
        /\ ~(j.slot > Len(p.slots)) /\ ~(j.slot > Len(q.slots))
    BY <1>3, <1>4, <1>9 DEF RawKey
  <2>2. CASE j.slot # k.slot
    <3>1. q.slots[j.slot] = p.slots[j.slot]
      BY <1>3, <2>1, <2>2
    <3>2. KeyStatus(q, j) = KeyStatus(p, j) /\ PoolIndex(q, j) = PoolIndex(p, j)
      BY <1>2, <2>1, <3>1 DEF KeyStatus, PoolIndex
    <3>3. ASSUME Resolves(p, j) PROVE PoolGet(q, j) = PoolGet(p, j)
      <4>1. PoolIndex(p, j) \in 1..Len(p.values)
        BY <3>3, ResolvedKeyIsPacked DEF PoolOk, SizesAgree
      <4>2. PoolIndex(p, j) \in 1..(n - 1)
        BY <1>1, <4>1, PoolTypes
      <4>3. QED
        BY <1>3, <3>2, <4>2 DEF PoolGet
    <3>4. QED
      BY <3>2, <3>3
  <2>3. CASE j.slot = k.slot
    <3>1. CASE j.pool # p.id
      BY <1>2, <3>1 DEF KeyStatus, Resolves
    <3>2. CASE j.pool = p.id
      <4>1. j = [pool |-> p.id, slot |-> k.slot, generation |-> j.generation]
        BY <2>3, <3>2 DEF RawKey
      <4>2. j.generation # k.generation
        BY <1>5, <1>9, <4>1
      <4>3. KeyStatus(q, j) = "Stale" /\ KeyStatus(p, j) = "Stale"
        BY <1>2, <2>1, <2>3, <3>2, <4>2 DEF KeyStatus
      <4>4. QED
        BY <4>3 DEF Resolves
    <3>3. QED
      BY <3>1, <3>2
  <2>4. QED
    BY <2>2, <2>3
<1>10. QED
  BY <1>2, <1>5, <1>6, <1>7, <1>8, <1>9

(* insert adds the new handle to those that resolve, and no other. *)
LEMMA InsertResolves ==
  ASSUME NEW V, NEW p \in Pools(V), PoolOk(p), CanReserve(p, 1), NEW v \in V,
         NEW q, q = PoolInsert(p, v), NEW j \in RawKey
  PROVE  /\ Resolves(q, j) <=> Resolves(p, j) \/ j = Raw(p, NextKey(p))
         /\ Resolves(p, j) => j # Raw(p, NextKey(p)) /\ PoolGet(q, j) = PoolGet(p, j)
<1> DEFINE new == Raw(p, NextKey(p))
<1>1. /\ q.id = p.id /\ ~Resolves(p, new) /\ Resolves(q, new) /\ q \in Pools(V) /\ PoolOk(q)
      /\ \A k \in RawKey : k # new /\ k.slot <= Len(p.slots) =>
           /\ KeyStatus(q, k) = KeyStatus(p, k)
           /\ Resolves(p, k) => PoolGet(q, k) = PoolGet(p, k)
  BY InsertLookup, PoolInsertOk
<1> HIDE DEF new
<1>2. ASSUME Resolves(p, j)
      PROVE  j # new /\ Resolves(q, j) /\ PoolGet(q, j) = PoolGet(p, j)
  <2>1. ~(j.slot > Len(p.slots)) /\ j.slot \in 1..Capacity /\ Len(p.slots) \in Nat
    BY <1>2, PoolTypes DEF Resolves, KeyStatus, RawKey
  <2>2. j # new
    BY <1>1, <1>2
  <2> QED BY <1>1, <1>2, <2>1, <2>2, PoolBounds DEF Resolves
<1>3. ASSUME Resolves(q, j), j # new
      PROVE  Resolves(p, j)
  <2>1. Inserted(V, p, v, q, NextKey(p), Len(p.values) + 1)
    BY PoolInsertFields
  <2>2. j.slot \in 1..Capacity /\ ~(j.slot > Len(q.slots)) /\ Len(q.slots) \in Nat /\ Len(p.slots) \in Nat
    BY <1>1, <1>3, PoolTypes DEF Resolves, KeyStatus, RawKey
  <2>3. j.slot \in 1..Len(q.slots) /\ j.pool = q.id
    BY <1>3, <2>2, PoolBounds DEF Resolves, KeyStatus
  <2>4. ASSUME j.slot = NextKey(p).slot PROVE FALSE
    <3>1. q.slots[j.slot] = [generation |-> NextKey(p).generation, dense_index |-> Len(p.values) + 1]
      BY <2>1, <2>4 DEF Inserted
    <3>2. j.generation = NextKey(p).generation
      BY <1>3, <3>1 DEF Resolves, KeyStatus
    <3>3. j = new
      BY <1>1, <2>3, <2>4, <3>2 DEF new, Raw, RawKey
    <3> QED BY <1>3, <3>3
  <2>5. j.slot \in 1..Len(p.slots)
    BY <2>1, <2>3, <2>4 DEF Inserted
  <2>6. j.slot <= Len(p.slots)
    BY <2>5
  <2> QED BY <1>1, <1>3, <2>6 DEF Resolves
<1> QED BY <1>1, <1>2, <1>3 DEF new

(* remove: the handle turns stale, and every other handle answers as       *)
(* before, although the last payload has moved to position i.              *)
LEMMA RemoveLookup ==
  ASSUME NEW V, NEW p \in Pools(V), PoolOk(p), NEW k \in RawKey, Resolves(p, k),
         NEW q, q = PoolRemove(p, k)
  PROVE  /\ KeyStatus(q, k) = "Stale"
         /\ q.id = p.id
         /\ \A j \in RawKey : j # k =>
              /\ KeyStatus(q, j) = KeyStatus(p, j)
              /\ Resolves(p, j) =>
                   /\ PoolGet(q, j) = PoolGet(p, j)
                   /\ PoolIndex(q, j) = IF PoolIndex(p, j) = Len(p.keys) THEN PoolIndex(p, k)
                                        ELSE PoolIndex(p, j)
<1>1. PICK i, n : i = PoolIndex(p, k) /\ Removed(V, p, k, q, i, n)
  BY PoolRemoveFields
<1> DEFINE m == p.keys[n].slot
<1>2. /\ q.id = p.id /\ n \in Nat \ {0} /\ i \in 1..n /\ n = Len(p.keys) /\ n = Len(p.values)
      /\ p.keys[i] = [slot |-> k.slot, generation |-> k.generation]
      /\ m \in 1..Len(p.slots) /\ k.slot \in 1..Len(p.slots)
      /\ Len(q.slots) = Len(p.slots)
      /\ q.slots[k.slot].dense_index = VACANT
      /\ m # k.slot => q.slots[m] = [generation |-> p.slots[m].generation, dense_index |-> i]
  BY <1>1 DEF Removed
<1>3. /\ \A j \in 1..(n - 1) : q.values[j] = IF j = i THEN p.values[n] ELSE p.values[j]
      /\ \A s \in 1..Len(p.slots) : s # k.slot /\ s # m => q.slots[s] = p.slots[s]
  BY <1>1 DEF Removed
<1>4. n \in 1..Len(p.keys) /\ p.slots[m] = [generation |-> p.keys[n].generation, dense_index |-> n]
  BY <1>2 DEF PoolOk, KeysIndexed
<1>5. i # VACANT /\ n # VACANT /\ Len(p.slots) \in Nat
  BY <1>2, PoolTypes, PoolBounds DEF PoolOk, SizesAgree, VACANT
<1> HIDE DEF m
<1>6. k.pool = p.id
  BY DEF Resolves, KeyStatus
<1>7. KeyStatus(q, k) = "Stale"
  <2>1. ~(k.slot > Len(q.slots))
    BY <1>2, <1>5
  <2>2. QED
    BY <1>2, <1>6, <2>1 DEF KeyStatus
<1>8. ASSUME NEW j \in RawKey, j # k
      PROVE  /\ KeyStatus(q, j) = KeyStatus(p, j)
             /\ Resolves(p, j) =>
                  /\ PoolGet(q, j) = PoolGet(p, j)
                  /\ PoolIndex(q, j) = IF PoolIndex(p, j) = n THEN i ELSE PoolIndex(p, j)
  <2>1. CASE j.pool # p.id \/ j.slot > Len(p.slots)
    BY <1>2, <2>1 DEF KeyStatus, Resolves
  <2>2. CASE j.pool = p.id /\ j.slot \in 1..Len(p.slots)
    <3>1. ~(j.slot > Len(p.slots)) /\ ~(j.slot > Len(q.slots))
      BY <1>2, <1>5, <2>2
    <3>2. CASE j.slot = k.slot
      <4>1. j = [pool |-> p.id, slot |-> k.slot, generation |-> j.generation]
            /\ k = [pool |-> p.id, slot |-> k.slot, generation |-> k.generation]
        BY <1>6, <2>2, <3>2 DEF RawKey
      <4>2. j.generation # k.generation
        BY <1>8, <4>1
      <4>3. p.slots[k.slot].generation = k.generation
        BY DEF Resolves, KeyStatus
      <4>4. KeyStatus(q, j) = "Stale" /\ KeyStatus(p, j) = "Stale"
        BY <1>2, <2>2, <3>1, <3>2, <4>2, <4>3 DEF KeyStatus
      <4>5. QED
        BY <4>4 DEF Resolves
    <3>3. CASE j.slot # k.slot /\ j.slot = m
      <4>1. /\ q.slots[j.slot] = [generation |-> p.slots[m].generation, dense_index |-> i]
            /\ p.slots[j.slot] = [generation |-> p.keys[n].generation, dense_index |-> n]
        BY <1>2, <1>4, <3>3
      <4>2. KeyStatus(q, j) = KeyStatus(p, j)
        BY <1>2, <1>4, <1>5, <2>2, <3>1, <3>3, <4>1 DEF KeyStatus
      <4>3. i # n
        BY <1>2, <3>3 DEF m
      <4>4. i \in 1..(n - 1) /\ q.values[i] = p.values[n]
        BY <1>2, <1>3, <4>3
      <4>5. PoolIndex(q, j) = i /\ PoolIndex(p, j) = n
        BY <4>1 DEF PoolIndex
      <4>6. QED
        BY <4>2, <4>4, <4>5 DEF PoolGet
    <3>4. CASE j.slot # k.slot /\ j.slot # m
      <4>1. q.slots[j.slot] = p.slots[j.slot]
        BY <1>3, <2>2, <3>4
      <4>2. KeyStatus(q, j) = KeyStatus(p, j) /\ PoolIndex(q, j) = PoolIndex(p, j)
        BY <1>2, <3>1, <4>1 DEF KeyStatus, PoolIndex
      <4>3. ASSUME Resolves(p, j)
            PROVE  PoolIndex(p, j) # n /\ PoolGet(q, j) = PoolGet(p, j)
        <5>1. PoolIndex(p, j) \in 1..n /\ j = Raw(p, p.keys[PoolIndex(p, j)])
          BY <1>2, <4>3, ResolvedKeyIsPacked
        <5>2. p.keys[PoolIndex(p, j)].slot = j.slot
          BY <5>1 DEF Raw
        <5>3. PoolIndex(p, j) # n /\ PoolIndex(p, j) # i
          BY <1>2, <3>4, <5>2 DEF m
        <5>4. PoolIndex(p, j) \in 1..(n - 1)
          BY <1>2, <5>1, <5>3
        <5>5. q.values[PoolIndex(p, j)] = p.values[PoolIndex(p, j)]
          BY <1>3, <5>3, <5>4
        <5>6. QED
          BY <4>2, <5>3, <5>5 DEF PoolGet
      <4>4. QED
        BY <4>2, <4>3
    <3>5. QED
      BY <3>2, <3>3, <3>4
  <2>3. QED
    BY <1>5, <2>1, <2>2 DEF RawKey
<1>9. QED
  BY <1>1, <1>2, <1>7, <1>8

-----------------------------------------------------------------------------
(* What the operations do to the set of issued handles. *)

LEMMA SameSlotsSameIssued ==
  ASSUME NEW p, NEW q, q.id = p.id, q.slots = p.slots, q.free_slots = p.free_slots
  PROVE  IssuedHandles(q) = IssuedHandles(p)
BY DEF IssuedHandles, FreeAt

LEMMA ReserveIssues ==
  ASSUME NEW V, NEW p \in Pools(V), PoolOk(p), NEW n \in Nat
  PROVE  IssuedHandles(PoolReserve(p, n)) = IssuedHandles(p)
<1>1. PICK q : q = PoolReserve(p, n)
  OBVIOUS
<1>2. q = [p EXCEPT !.free_capacity = q.free_capacity]
  BY <1>1, PoolReserveOk
<1>3. q.id = p.id /\ q.slots = p.slots /\ q.free_slots = p.free_slots
  BY <1>2 DEF Pools
<1>4. QED
  BY <1>1, <1>3, SameSlotsSameIssued

LEMMA SetIssues ==
  ASSUME NEW V, NEW p \in Pools(V), PoolOk(p), NEW k \in RawKey, Resolves(p, k), NEW v \in V
  PROVE  IssuedHandles(PoolSet(p, k, v)) = IssuedHandles(p)
<1>1. PICK q : q = PoolSet(p, k, v)
  OBVIOUS
<1>2. q = [p EXCEPT !.values = [@ EXCEPT ![PoolIndex(p, k)] = v]]
  BY <1>1, PoolSetOk
<1>3. q.id = p.id /\ q.slots = p.slots /\ q.free_slots = p.free_slots
  BY <1>2 DEF Pools
<1>4. QED
  BY <1>1, <1>3, SameSlotsSameIssued

LEMMA PackedIsIssued ==
  ASSUME NEW V, NEW p \in Pools(V), PoolOk(p), NEW k \in RawKey, Resolves(p, k)
  PROVE  k \in IssuedHandles(p)
<1>1. /\ k.pool = p.id /\ k.slot \in 1..Capacity /\ k.generation \in Nat
      /\ k.slot <= Len(p.slots) /\ p.slots[k.slot].generation = k.generation
      /\ p.slots[k.slot].dense_index # VACANT
  BY PoolTypes, PoolBounds DEF Resolves, KeyStatus, RawKey
<1>2. ~FreeAt(p, k.slot)
  BY <1>1 DEF PoolOk, FreeVacant, FreeAt
<1>3. QED
  BY <1>1, <1>2 DEF IssuedHandles

LEMMA IssuedIsResolvedOrStale ==
  ASSUME NEW V, NEW p \in Pools(V), NEW k \in IssuedHandles(p)
  PROVE  k \in RawKey /\ KeyStatus(p, k) \in {"ok", "Stale"}
<1>1. k \in RawKey /\ k.pool = p.id /\ k.slot <= Len(p.slots)
  BY DEF IssuedHandles
<1>2. ~(k.slot > Len(p.slots))
  BY <1>1, PoolTypes DEF RawKey
<1>3. QED
  BY <1>1, <1>2 DEF KeyStatus

(* insert issues one new handle, the next one. *)
LEMMA InsertIssues ==
  ASSUME NEW V, NEW p \in Pools(V), PoolOk(p), CanReserve(p, 1), NEW v \in V
  PROVE  /\ Raw(p, NextKey(p)) \notin IssuedHandles(p)
         /\ IssuedHandles(PoolInsert(p, v)) = IssuedHandles(p) \cup {Raw(p, NextKey(p))}
<1>1. PICK q, k, n : /\ q = PoolInsert(p, v) /\ k = NextKey(p)
                     /\ Inserted(V, p, v, q, k, n)
  BY PoolInsertFields
<1>2. PICK new : new = Raw(p, k)
  OBVIOUS
<1>3. /\ q.id = p.id /\ k \in LocalKey /\ new.pool = p.id
      /\ new.slot = k.slot /\ new.generation = k.generation
  BY <1>1, <1>2 DEF Inserted, Raw
<1>4. new \in RawKey
  BY <1>1, <1>2, InsertLookup
<1>5. /\ k.slot \in 1..Len(q.slots)
      /\ q.slots[k.slot].generation = k.generation
      /\ \A s \in 1..Len(q.slots) :
           s # k.slot => s \in 1..Len(p.slots) /\ q.slots[s] = p.slots[s]
      /\ k.slot \in 1..Len(p.slots) => p.slots[k.slot].generation = k.generation
      /\ k.slot \notin 1..Len(p.slots) => k.generation = 0
      /\ Len(p.slots) <= Len(q.slots)
  BY <1>1 DEF Inserted
<1>6. Len(p.slots) \in Nat /\ Len(q.slots) \in Nat
  BY <1>1, PoolTypes DEF Inserted
<1>7. ~FreeAt(q, k.slot)
  BY <1>1 DEF Inserted, FreeAt
<1>8. k.slot \in 1..Len(p.slots) => FreeAt(p, k.slot)
  <2>1. CASE p.free_slots = <<>>
    <3>1. k = [slot |-> Len(p.slots) + 1, generation |-> 0]
      BY <1>1, <2>1, NextKeyProperties
    <3>2. k.slot = Len(p.slots) + 1
      BY <3>1
    <3>3. QED
      BY <1>6, <3>2
  <2>2. CASE p.free_slots # <<>>
    <3>1. /\ Len(p.free_slots) \in Nat \ {0}
          /\ k.slot = p.free_slots[Len(p.free_slots)]
      BY <1>1, <2>2, NextKeyProperties
    <3>2. QED
      BY <3>1 DEF FreeAt
  <2>3. QED
    BY <2>1, <2>2
<1>9. \A s \in 1..Len(p.slots) : s # k.slot => (FreeAt(q, s) <=> FreeAt(p, s))
  <2>1. CASE p.free_slots = <<>>
    <3>1. Len(p.free_slots) = 0
      BY <2>1, EmptySeq
    <3>2. ASSUME NEW s PROVE ~FreeAt(p, s) /\ ~FreeAt(q, s)
      BY <1>1, <3>1 DEF Inserted, FreeAt
    <3>3. QED
      BY <3>2
  <2>2. CASE p.free_slots # <<>>
    <3>1. PICK m \in Nat \ {0} : m = Len(p.free_slots) /\ k.slot = p.free_slots[m]
      BY <1>1, <2>2, NextKeyProperties
    <3>2. /\ Len(q.free_slots) = m - 1
          /\ \A j \in 1..(m - 1) : q.free_slots[j] = p.free_slots[j]
      <4>1. q.free_slots = ButLast(p.free_slots)
        <5>1. PoolReserve(p, 1) \in Pools(V)
          BY PoolReserveOk
        <5>2. PoolReserve(p, 1).free_slots = p.free_slots
          BY DEF PoolReserve, Pools
        <5>3. QED
          BY <1>1, <2>2, <5>1, <5>2 DEF PoolInsert, Pools
      <4>2. QED
        BY <2>2, <3>1, <4>1, ButLastProperties, PoolTypes
    <3>3. QED
      BY <3>1, <3>2, SMTT(40) DEF FreeAt
  <2>3. QED
    BY <2>1, <2>2
<1>10. new \notin IssuedHandles(p)
  <2>1. CASE k.slot \in 1..Len(p.slots)
    BY <1>3, <1>5, <1>8, <2>1, PoolBounds DEF IssuedHandles, LocalKey
  <2>2. CASE k.slot \notin 1..Len(p.slots)
    BY <1>3, <1>6, <2>2 DEF IssuedHandles, LocalKey
  <2>3. QED
    BY <2>1, <2>2
<1>11. ASSUME NEW h \in IssuedHandles(q) PROVE h = new \/ h \in IssuedHandles(p)
  <2>1. /\ h \in RawKey /\ h.pool = p.id /\ h.slot \in 1..Len(q.slots)
        /\ h.generation \in 0..MaxGeneration /\ h.generation <= q.slots[h.slot].generation
        /\ FreeAt(q, h.slot) => h.generation < q.slots[h.slot].generation
    BY <1>3, <1>6 DEF IssuedHandles, RawKey
  <2>2. CASE h.slot # k.slot
    <3>1. h.slot \in 1..Len(p.slots) /\ q.slots[h.slot] = p.slots[h.slot]
      BY <1>5, <2>1, <2>2
    <3>2. QED
      BY <1>6, <1>9, <2>1, <2>2, <3>1 DEF IssuedHandles
  <2>3. CASE h.slot = k.slot /\ h.generation = k.generation
    BY <1>3, <1>4, <2>1, <2>3 DEF RawKey
  <2>4. CASE h.slot = k.slot /\ h.generation # k.generation
    <3>1. h.generation < k.generation /\ k.generation \in 0..MaxGeneration
      BY <1>3, <1>5, <2>1, <2>4, PoolBounds DEF LocalKey
    <3>2. k.slot \in 1..Len(p.slots)
      BY <1>5, <2>1, <3>1
    <3>3. QED
      BY <1>5, <1>6, <2>1, <2>4, <3>1, <3>2 DEF IssuedHandles
  <2>5. QED
    BY <2>2, <2>3, <2>4
<1>12. ASSUME NEW h \in IssuedHandles(p) PROVE h \in IssuedHandles(q)
  <2>1. /\ h \in RawKey /\ h.pool = p.id /\ h.slot \in 1..Len(p.slots)
        /\ h.generation \in 0..MaxGeneration /\ h.generation <= p.slots[h.slot].generation
        /\ FreeAt(p, h.slot) => h.generation < p.slots[h.slot].generation
    BY <1>6 DEF IssuedHandles, RawKey
  <2>2. h.slot <= Len(q.slots) /\ h.slot \in 1..Len(q.slots)
    BY <1>5, <1>6, <2>1
  <2>3. CASE h.slot # k.slot
    BY <1>3, <1>5, <1>9, <2>1, <2>2, <2>3 DEF IssuedHandles
  <2>4. CASE h.slot = k.slot
    BY <1>3, <1>5, <1>7, <2>1, <2>2, <2>4 DEF IssuedHandles
  <2>5. QED
    BY <2>3, <2>4
<1>13. new \in IssuedHandles(q)
  <2>1. new.slot <= Len(q.slots) /\ new.generation <= q.slots[new.slot].generation
    BY <1>3, <1>5, <1>6, PoolBounds DEF LocalKey
  <2>2. QED
    BY <1>3, <1>4, <1>7, <2>1 DEF IssuedHandles
<1>14. QED
  BY <1>1, <1>2, <1>10, <1>11, <1>12, <1>13

(* remove issues none and forgets none. *)
LEMMA RemoveIssues ==
  ASSUME NEW V, NEW p \in Pools(V), PoolOk(p), NEW k \in RawKey, Resolves(p, k)
  PROVE  IssuedHandles(PoolRemove(p, k)) = IssuedHandles(p)
<1>1. PICK q, i, n : q = PoolRemove(p, k) /\ Removed(V, p, k, q, i, n)
  BY PoolRemoveFields
<1>2. /\ q.id = p.id /\ Len(q.slots) = Len(p.slots) /\ k.slot \in 1..Len(p.slots)
      /\ p.slots[k.slot] = [generation |-> k.generation, dense_index |-> i]
      /\ p.keys[n].slot # k.slot =>
           q.slots[p.keys[n].slot] =
             [generation |-> p.slots[p.keys[n].slot].generation, dense_index |-> i]
      /\ i \in 1..n /\ n = Len(p.keys)
  BY <1>1 DEF Removed
<1>3. \A s \in 1..Len(p.slots) :
        s # k.slot /\ s # p.keys[n].slot => q.slots[s] = p.slots[s]
  BY <1>1 DEF Removed
<1>4. /\ k.generation < MaxGeneration =>
           /\ q.slots[k.slot].generation = k.generation + 1
           /\ q.free_slots = Append(p.free_slots, k.slot)
      /\ ~(k.generation < MaxGeneration) =>
           /\ q.slots[k.slot].generation = k.generation
           /\ q.free_slots = p.free_slots
  BY <1>1 DEF Removed
<1>5. k.generation \in 0..MaxGeneration /\ k.slot \in 1..Capacity
  BY DEF RawKey
<1>6. /\ Len(p.free_slots) \in Nat /\ p.free_slots \in Seq(1..Capacity)
      /\ Len(p.slots) \in Nat
  BY PoolTypes
<1>7. ASSUME NEW s \in 1..Len(p.slots), s # k.slot
      PROVE  q.slots[s].generation = p.slots[s].generation
  <2>1. CASE s = p.keys[n].slot
    BY <1>2, <1>7, <2>1
  <2>2. CASE s # p.keys[n].slot
    BY <1>3, <1>7, <2>2
  <2>3. QED
    BY <2>1, <2>2
<1>8. ~FreeAt(p, k.slot)
  <2>1. i # VACANT
    <3>1. Len(p.keys) \in Nat /\ Len(p.keys) <= Capacity
      BY PoolTypes DEF PoolOk, SizesAgree
    <3>2. QED
      BY <1>2, <3>1, PoolBounds DEF VACANT
  <2>2. QED
    BY <1>2, <2>1 DEF PoolOk, FreeVacant, FreeAt
<1>9. \A s : s # k.slot => (FreeAt(q, s) <=> FreeAt(p, s))
  <2>1. CASE k.generation < MaxGeneration
    <3>1. /\ Len(q.free_slots) = Len(p.free_slots) + 1
          /\ q.free_slots[Len(p.free_slots) + 1] = k.slot
          /\ \A j \in 1..Len(p.free_slots) : q.free_slots[j] = p.free_slots[j]
      BY <1>4, <1>5, <1>6, <2>1, AppendProperties, SMTT(40)
    <3>2. QED
      BY <1>6, <3>1 DEF FreeAt
  <2>2. CASE ~(k.generation < MaxGeneration)
    BY <1>4, <2>2 DEF FreeAt
  <2>3. QED
    BY <2>1, <2>2
<1>10. ASSUME NEW h \in RawKey, h.slot <= Len(p.slots)
       PROVE  /\ h.generation <= q.slots[h.slot].generation
              /\ FreeAt(q, h.slot) => h.generation < q.slots[h.slot].generation
              <=>
              /\ h.generation <= p.slots[h.slot].generation
              /\ FreeAt(p, h.slot) => h.generation < p.slots[h.slot].generation
  <2>1. h.slot \in 1..Len(p.slots) /\ h.generation \in 0..MaxGeneration
    BY <1>6, <1>10 DEF RawKey
  <2>2. CASE h.slot # k.slot
    BY <1>7, <1>9, <2>1, <2>2
  <2>3. CASE h.slot = k.slot /\ k.generation < MaxGeneration
    <3>1. FreeAt(q, k.slot)
      <4>1. Len(q.free_slots) = Len(p.free_slots) + 1 /\ q.free_slots[Len(p.free_slots) + 1] = k.slot
        BY <1>4, <1>5, <1>6, <2>3, AppendProperties
      <4>2. QED
        BY <1>6, <4>1 DEF FreeAt
    <3>2. q.slots[h.slot].generation = k.generation + 1 /\ p.slots[h.slot].generation = k.generation
      BY <1>2, <1>4, <2>3
    <3>3. QED
      BY <1>5, <1>8, <2>1, <2>3, <3>1, <3>2, PoolBounds
  <2>4. CASE h.slot = k.slot /\ ~(k.generation < MaxGeneration)
    <3>1. ~FreeAt(q, k.slot)
      BY <1>4, <1>8, <2>4 DEF FreeAt
    <3>2. q.slots[h.slot].generation = p.slots[h.slot].generation
      BY <1>2, <1>4, <2>4
    <3>3. QED
      BY <1>8, <2>4, <3>1, <3>2
  <2>5. QED
    BY <2>2, <2>3, <2>4
<1>11. ASSUME NEW h \in RawKey
       PROVE  h \in IssuedHandles(q) <=> h \in IssuedHandles(p)
  <2>1. CASE h.slot <= Len(p.slots)
    BY <1>2, <1>10, <2>1 DEF IssuedHandles
  <2>2. CASE ~(h.slot <= Len(p.slots))
    BY <1>2, <2>2 DEF IssuedHandles
  <2>3. QED
    BY <2>1, <2>2
<1>12. QED
  BY <1>1, <1>11 DEF IssuedHandles
=============================================================================
