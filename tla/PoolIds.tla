------------------------------- MODULE PoolIds -------------------------------
(***************************************************************************)
(* The process-wide counter from which every pool takes its identity       *)
(* (src/src/key.rs:12-24).  Problems are built on any thread, so this is   *)
(* the one place of the library where threads meet.  fetch_update of the   *)
(* standard library loads the counter, computes the next value, and then   *)
(* exchanges the two if the counter still is what it loaded, or else       *)
(* starts over from what it found; the exchange may also fail without a    *)
(* reason.  Orderings are relaxed, but there is a single atomic variable,  *)
(* whose changes are totally ordered.  The names are such that one module  *)
(* can extend this one and that of a pool.                                 *)
(***************************************************************************)
EXTENDS Naturals

CONSTANTS Thread, MaxId  \* MaxId stands for u64::MAX

ASSUME IdBound == MaxId \in Nat \ {0}

VARIABLES
  counter,  \* the static NEXT
  seen,     \* of a thread within allocate: the value it last found
  call,     \* of a thread: what allocate does, or did last
  pools     \* history: how many pools were ever given an identity

idsVars == <<counter, seen, call, pools>>

Id == 1..MaxId

IdsInit ==
  /\ counter = 1
  /\ seen = [t \in Thread |-> 0]
  /\ call = [t \in Thread |-> "idle"]
  /\ pools = [id \in Id |-> 0]

(* With one identity too few.                                              *)
CheckedAdd_TooEarly(id) == id + 1 < MaxId

(* The closure given to fetch_update: None when the addition overflows.    *)
CheckedAdd(id) == id < MaxId

(* The first load of fetch_update.                                         *)
Load(t) ==
  /\ call[t] # "update"
  /\ seen' = [seen EXCEPT ![t] = counter]
  /\ call' = [call EXCEPT ![t] = "update"]
  /\ UNCHANGED <<counter, pools>>

(* The closure has answered None, and expect panics.                       *)
Exhausted(t) ==
  /\ call[t] = "update" /\ ~CheckedAdd(seen[t])
  /\ call' = [call EXCEPT ![t] = "panic"]
  /\ UNCHANGED <<counter, seen, pools>>

(* With a load and a store in place of fetch_update.                       *)
Exchange_Stored(t) ==
  /\ call[t] = "update" /\ CheckedAdd(seen[t])
  /\ counter' = seen[t] + 1
  /\ pools' = IF seen[t] = 0 THEN pools ELSE [pools EXCEPT ![seen[t]] = @ + 1]
  /\ call' = [call EXCEPT ![t] = IF seen[t] = 0 THEN "panic" ELSE "issued"]
  /\ UNCHANGED seen

(* The weak exchange finds what the thread loaded: the thread takes it as  *)
(* its identity, of which NonZeroU64 demands that it is not zero.          *)
Exchange(t) ==
  /\ call[t] = "update" /\ CheckedAdd(seen[t])
  /\ counter = seen[t]
  /\ counter' = seen[t] + 1
  /\ pools' = IF seen[t] = 0 THEN pools ELSE [pools EXCEPT ![seen[t]] = @ + 1]
  /\ call' = [call EXCEPT ![t] = IF seen[t] = 0 THEN "panic" ELSE "issued"]
  /\ UNCHANGED seen

(* It finds another value, or fails spuriously, and the thread goes on     *)
(* from the value it found.                                                *)
Retry(t) ==
  /\ call[t] = "update" /\ CheckedAdd(seen[t])
  /\ seen' = [seen EXCEPT ![t] = counter]
  /\ UNCHANGED <<counter, call, pools>>

IdsNext == \E t \in Thread : Load(t) \/ Exhausted(t) \/ Exchange(t) \/ Retry(t)

IdsSpec == IdsInit /\ [][IdsNext]_idsVars

-----------------------------------------------------------------------------
(* The counter, the threads and the history are of their types; above all  *)
(* the counter never leaves 1..u64::MAX.                                   *)
IdsTypeOK ==
  /\ counter \in Id
  /\ seen \in [Thread -> 0..MaxId]
  /\ call \in [Thread -> {"idle", "update", "issued", "panic"}]
  /\ pools \in [Id -> Nat]

(* No two pools share an identity, however threads interleave within       *)
(* fetch_update and also at the end of the counter: a handle of one pool   *)
(* is foreign to every other (key.rs:18-23, dense.rs:88-100).              *)
IdentitiesAreUnique == \A id \in Id : pools[id] <= 1

(* allocate panics only when every identity below u64::MAX was given away; *)
(* a thread that loses a race never loses an identity (key.rs:19-21).      *)
PanicsOnlyWhenSpent ==
  (\E t \in Thread : call[t] = "panic") => \A id \in 1..(MaxId - 1) : pools[id] = 1
=============================================================================
