---------------------------- MODULE HandleStore ----------------------------
(***************************************************************************)
(* What every generational pool of the library promises its callers: a     *)
(* partial map from handles to payloads in which a handle, once released,  *)
(* is refused for ever and never names another payload.  Nothing here says *)
(* how payloads are packed, moved or indexed.                              *)
(***************************************************************************)
EXTENDS Functions

CONSTANTS Key,    \* every handle that exists in the process
          Value   \* payloads

VARIABLES live,     \* the payload of each handle that is in use
          retired,  \* the handles that were in use and no longer are
          reply     \* what the last call returned, and of which handle

vars == <<live, retired, reply>>

(* Replies.  Records of different shapes keep them comparable. *)
Handle(k)     == [kind |-> "key", key |-> k]
Payload(k, v) == [kind |-> "value", key |-> k, value |-> v]
Refusal(k, e) == [kind |-> "error", key |-> k, error |-> e]
Done          == [kind |-> "done"]
Panic         == [kind |-> "panic"]

Error == {"ForeignSolver", "Unknown", "Stale"}

Reply == {Handle(k) : k \in Key} \cup {Payload(k, v) : k \in Key, v \in Value}
         \cup {Refusal(k, e) : k \in Key, e \in Error} \cup {Done, Panic}

Init == /\ live = [k \in {} |-> {}]
        /\ retired = {}
        /\ reply = Done

(* A new handle is fresh: neither in use nor ever used before. *)
Create(k, v) ==
  /\ reply' = Handle(k)
  /\ k \notin DOMAIN live \cup retired
  /\ live' = [j \in DOMAIN live \cup {k} |-> IF j = k THEN v ELSE live[j]]
  /\ UNCHANGED retired

(* The payload returned is the one stored under this handle. *)
Release(k) ==
  /\ k \in DOMAIN live
  /\ reply' \in {Payload(k, live[k]), Done}
  /\ live' = Restrict(live, DOMAIN live \ {k})
  /\ retired' = retired \cup {k}

(* The payload read is the one stored under this handle. *)
Read(k) ==
  /\ k \in DOMAIN live
  /\ reply' = Payload(k, live[k])
  /\ UNCHANGED <<live, retired>>

Update(k, v) ==
  /\ reply' = Done
  /\ k \in DOMAIN live
  /\ live' = [live EXCEPT ![k] = v]
  /\ UNCHANGED retired

(* A handle that was released is stale; one that is not of this store is   *)
(* foreign.  No caller is ever told "Unknown".                             *)
Refuse(k) ==
  /\ k \notin DOMAIN live
  /\ reply' = Refusal(k, IF k \in retired THEN "Stale" ELSE "ForeignSolver")
  /\ UNCHANGED <<live, retired>>

(* The call changes nothing but what the caller is told. *)
Nothing ==
  /\ reply' \in {Done, Panic}
  /\ UNCHANGED <<live, retired>>

Next == \/ Nothing
        \/ \E k \in Key : \/ \E v \in Value : Create(k, v) \/ Update(k, v)
                          \/ Read(k)
                          \/ Release(k)
                          \/ Refuse(k)

Spec == Init /\ [][Next]_vars
=============================================================================
