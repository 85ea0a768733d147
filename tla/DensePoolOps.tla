---------------------------- MODULE DensePoolOps ----------------------------
(***************************************************************************)
(* The generational dense pool of dense.rs as operators on a pool record,  *)
(* so that the components built on it (state pools, batches and their      *)
(* directory, priors) compose the same definitions.                        *)
(*                                                                         *)
(* Positions and slots are counted from 1 where the code counts from 0:    *)
(* the code's index i is i + 1 here, and its sentinel VACANT = u32::MAX is *)
(* Capacity + 1.  Capacity and MaxGeneration stand for u32::MAX; the code  *)
(* never compares one with the other.                                      *)
(***************************************************************************)
EXTENDS Integers, Sequences

CONSTANTS Capacity,       \* most slots, and most live payloads, of a pool
          MaxGeneration,  \* last generation of a slot
          PoolId          \* pool identities of the process

ASSUME PoolBounds == /\ Capacity \in Nat \ {0}
                     /\ MaxGeneration \in Nat

VACANT == Capacity + 1

LocalKey == [slot : 1..Capacity, generation : 0..MaxGeneration]
RawKey   == [pool : PoolId, slot : 1..Capacity, generation : 0..MaxGeneration]
Slot     == [generation : 0..MaxGeneration, dense_index : 1..VACANT]

Pools(V) == [id : PoolId, values : Seq(V), keys : Seq(LocalKey), slots : Seq(Slot),
             free_slots : Seq(1..Capacity), free_capacity : Nat]

EmptyPool(id) == [id |-> id, values |-> <<>>, keys |-> <<>>, slots |-> <<>>,
                  free_slots |-> <<>>, free_capacity |-> 0]

Raw(p, local) == [pool |-> p.id, slot |-> local.slot, generation |-> local.generation]

-----------------------------------------------------------------------------
(* Vec::swap_remove and Vec::pop. *)
SwapRemove(s, i) == [j \in 1..(Len(s) - 1) |-> IF j = i THEN s[Len(s)] ELSE s[j]]
ButLast(s)       == [j \in 1..(Len(s) - 1) |-> s[j]]

-----------------------------------------------------------------------------
(* Slots the pool has after reserving room for n more payloads. *)
SlotsAfter(p, n) ==
  Len(p.slots) + (IF n > Len(p.free_slots) THEN n - Len(p.free_slots) ELSE 0)

(* reserve asserts this; it panics, with nothing changed, when it is false. *)
CanReserve(p, n) == /\ Len(p.values) + n <= Capacity
                    /\ SlotsAfter(p, n) <= Capacity

(* Of the four buffers only the capacity of the free list matters: removal *)
(* pushes on it.  Vec::reserve grants at least what is asked, here no more.*)
PoolReserve(p, n) ==
  [p EXCEPT !.free_capacity = IF @ >= SlotsAfter(p, n) THEN @ ELSE SlotsAfter(p, n)]

(* The identity the next payload gets: the slot freed last, at the         *)
(* generation its last removal left, or a new slot.                        *)
NextKey(p) ==
  IF p.free_slots = <<>>
    THEN [slot |-> Len(p.slots) + 1, generation |-> 0]
    ELSE LET s == p.free_slots[Len(p.free_slots)]
         IN  [slot |-> s, generation |-> p.slots[s].generation]

PoolInsert(p, v) ==
  LET r == PoolReserve(p, 1)
      k == NextKey(p)
      i == Len(p.values) + 1
  IN  IF p.free_slots = <<>>
        THEN [r EXCEPT !.values = Append(@, v),
                       !.keys   = Append(@, k),
                       !.slots  = Append(@, [generation |-> 0, dense_index |-> i])]
        ELSE [r EXCEPT !.values = Append(@, v),
                       !.keys   = Append(@, k),
                       !.slots  = [@ EXCEPT ![k.slot].dense_index = i],
                       !.free_slots = ButLast(@)]

-----------------------------------------------------------------------------
(* Why a handle is refused, in the order the code asks; "ok" when it is not. *)
KeyStatus_SlotOnly(p, k) ==
  IF k.pool # p.id THEN "ForeignSolver"
  ELSE IF k.slot > Len(p.slots) THEN "Unknown"
  ELSE IF p.slots[k.slot].dense_index = VACANT THEN "Stale"
  ELSE "ok"

KeyStatus(p, k) ==
  IF k.pool # p.id THEN "ForeignSolver"
  ELSE IF k.slot > Len(p.slots) THEN "Unknown"
  ELSE IF \/ p.slots[k.slot].generation # k.generation
          \/ p.slots[k.slot].dense_index = VACANT THEN "Stale"
  ELSE "ok"

Resolves(p, k)  == KeyStatus(p, k) = "ok"
PoolIndex(p, k) == p.slots[k.slot].dense_index
PoolGet(p, k)   == p.values[PoolIndex(p, k)]
AtSlot(p, s)    == p.values[p.slots[s].dense_index]

(* The handles the pool has issued so far, as its slots tell: every        *)
(* generation up to the slot's own, but for the one a free slot has yet to *)
(* issue.                                                                  *)
FreeAt(p, s) == \E i \in 1..Len(p.free_slots) : p.free_slots[i] = s

IssuedHandles(p) ==
  {k \in RawKey : /\ k.pool = p.id
                  /\ k.slot <= Len(p.slots)
                  /\ k.generation <= p.slots[k.slot].generation
                  /\ FreeAt(p, k.slot) => k.generation < p.slots[k.slot].generation}

PoolSet(p, k, v)    == [p EXCEPT !.values[PoolIndex(p, k)] = v]
AtSlotSet(p, s, v)  == [p EXCEPT !.values[p.slots[s].dense_index] = v]

(* A vacated slot moves to its next generation, unless it has none left. *)
Vacated(slot) ==
  [generation  |-> IF slot.generation < MaxGeneration THEN slot.generation + 1
                   ELSE slot.generation,
   dense_index |-> VACANT]

(* The slots once the payload of slot s at position i is swapped out: the  *)
(* payload that takes its place is re-indexed.                             *)
SlotsAfterRemoval(p, s, i) ==
  LET moved == p.keys[Len(p.keys)].slot
  IN  [t \in 1..Len(p.slots) |-> IF t = s THEN Vacated(p.slots[t])
                                ELSE IF t = moved THEN [p.slots[t] EXCEPT !.dense_index = i]
                                ELSE p.slots[t]]

PoolRemove_NoRepair(p, k) ==
  LET i == PoolIndex(p, k)
  IN  [p EXCEPT !.values = SwapRemove(@, i),
                !.keys   = SwapRemove(@, i),
                !.slots  = [@ EXCEPT ![k.slot] = Vacated(@)],
                !.free_slots = IF k.generation < MaxGeneration THEN Append(@, k.slot) ELSE @]

PoolRemove_NeverFrees(p, k) ==
  LET i == PoolIndex(p, k)
  IN  [p EXCEPT !.values = SwapRemove(@, i),
                !.keys   = SwapRemove(@, i),
                !.slots  = SlotsAfterRemoval(p, k.slot, i)]

(* A slot at its last generation is retired: it is not put on the free list. *)
PoolRemove(p, k) ==
  LET i == PoolIndex(p, k)
  IN  [p EXCEPT !.values = SwapRemove(@, i),
                !.keys   = SwapRemove(@, i),
                !.slots  = SlotsAfterRemoval(p, k.slot, i),
                !.free_slots = IF k.generation < MaxGeneration THEN Append(@, k.slot) ELSE @]

-----------------------------------------------------------------------------
(* The structural invariant, in named parts. *)
SizesAgree(p) == /\ Len(p.keys) = Len(p.values)
                 /\ Len(p.values) <= Capacity
                 /\ Len(p.slots) <= Capacity

(* Every packed key and its slot name each other. *)
KeysIndexed(p) ==
  \A i \in 1..Len(p.keys) :
    /\ p.keys[i].slot <= Len(p.slots)
    /\ p.slots[p.keys[i].slot] = [generation |-> p.keys[i].generation, dense_index |-> i]

SlotsOccupied(p) ==
  \A s \in 1..Len(p.slots) :
    p.slots[s].dense_index # VACANT =>
      /\ p.slots[s].dense_index <= Len(p.keys)
      /\ p.keys[p.slots[s].dense_index].slot = s

(* The free list holds vacant slots, each once ... *)
FreeVacant(p) ==
  /\ \A i \in 1..Len(p.free_slots) :
       /\ p.free_slots[i] <= Len(p.slots)
       /\ p.slots[p.free_slots[i]].dense_index = VACANT
  /\ \A i, j \in 1..Len(p.free_slots) : p.free_slots[i] = p.free_slots[j] => i = j

(* ... and every vacant slot that can still issue a handle. *)
VacantFree(p) ==
  \A s \in 1..Len(p.slots) :
    p.slots[s].dense_index = VACANT =>
      \/ p.slots[s].generation = MaxGeneration
      \/ FreeAt(p, s)

FreeReserved(p) == Len(p.slots) <= p.free_capacity

PoolOk(p) == /\ SizesAgree(p)
             /\ KeysIndexed(p)
             /\ SlotsOccupied(p)
             /\ FreeVacant(p)
             /\ VacantFree(p)
             /\ FreeReserved(p)
=============================================================================
