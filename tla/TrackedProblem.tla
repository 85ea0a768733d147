--------------------------- MODULE TrackedProblem ---------------------------
(***************************************************************************)
(* The change journal around a problem (tracked.rs).  The problem is the   *)
(* information graph, which Marginalization implements, together with the  *)
(* values of its states.  Every mutation goes through the wrapper, which   *)
(* records it once it has succeeded; an optimization voids the journal     *)
(* before it starts, as it changes estimates whether or not it succeeds.   *)
(***************************************************************************)
EXTENDS Naturals, Sequences

CONSTANTS State, Factor,  \* handles
          Version,        \* values of a state
          MaxChanges      \* bound: entries of the journal

ASSUME ChangesBound == MaxChanges \in Nat \ {0}

VARIABLES states, terms, spent, reply,  \* the problem; see InformationGraph
          value,       \* the accepted estimates of the live states
          changes,     \* the journal
          optimizing,  \* an optimizer is at work on the problem
          issued,      \* handles issued so far
          base         \* the problem after its last change that no entry can tell

graph == <<states, terms, spent, reply>>
trackedVars == <<graph, value, changes, optimizing, issued, base>>

Graph == INSTANCE InformationGraph

Entry(kind, id) == [kind |-> kind, id |-> id]

Rebuild == [kind |-> "Rebuild"]

ProblemChange == {Rebuild} \cup [kind : {"StateAdded", "StateSet"}, id : State]
                           \cup [kind : {"FactorAdded", "FactorRemoved"}, id : Factor]

Factors == {f \in Factor : \E t \in terms : ~t.prior /\ t.tells = {f}}

(* What an observer of the problem keeps of it: which states and factors   *)
(* there are, and the estimates.                                           *)
Snapshot == [states |-> states, factors |-> Factors, value |-> value]

TrackedInit == /\ Graph!Init
               /\ value = [s \in {} |-> 0]
               /\ changes = <<Rebuild>>
               /\ optimizing = FALSE
               /\ issued = {}
               /\ base = Snapshot

CanRecord == ~optimizing /\ Len(changes) < MaxChanges

Record(change) == changes' = Append(changes, change) /\ UNCHANGED <<optimizing, base>>

(* An edit that fails returns before it is recorded. *)
Refused == Graph!Refuse /\ UNCHANGED <<value, changes, optimizing, base>>

(* invalidate_all *)
Void == changes' = <<Rebuild>>

-----------------------------------------------------------------------------
Add(s, v) ==
  /\ CanRecord /\ s \notin issued
  /\ Graph!AddState(s)
  /\ value' = [q \in states \cup {s} |-> IF q = s THEN v ELSE value[q]]
  /\ issued' = issued \cup {s}
  /\ Record(Entry("StateAdded", s))

Set(s, v) ==
  /\ CanRecord /\ s \in issued
  /\ \/ /\ s \in states
        /\ value' = [value EXCEPT ![s] = v]
        /\ reply' = "ok" /\ UNCHANGED <<states, terms, spent>>
        /\ Record(Entry("StateSet", s))
     \/ s \notin states /\ Refused
  /\ UNCHANGED issued

(* add_factor and add_factor_to; batches themselves are not recorded. *)
AddFactor(f, scope) ==
  /\ CanRecord /\ f \notin issued /\ scope \subseteq issued
  /\ \/ /\ Graph!AddFactor(f, scope)
        /\ issued' = issued \cup {f}
        /\ Record(Entry("FactorAdded", f))
        /\ UNCHANGED value
     \/ /\ ~(scope \subseteq states)
        /\ Refused
        /\ UNCHANGED issued

RemoveFactor(f) ==
  /\ CanRecord /\ f \in issued
  /\ \/ /\ Graph!RemoveFactor(f)
        /\ Record(Entry("FactorRemoved", f))
        /\ UNCHANGED value
     \/ f \notin Factors /\ Refused
  /\ UNCHANGED issued

(* invalidate_all, called by the owner of data shared with evaluators. *)
InvalidateAll == /\ ~optimizing
                 /\ Void
                 /\ base' = Snapshot
                 /\ UNCHANGED <<graph, value, optimizing, issued>>

(* A failed marginalization is not recorded, nor one of no states. *)
Marginalize_Unrecorded(R) ==
  /\ ~optimizing /\ R \subseteq issued
  /\ Graph!Marginalize(R)
  /\ value' = [s \in states \ R |-> value[s]]
  /\ base' = Snapshot'
  /\ UNCHANGED <<changes, optimizing, issued>>

Marginalize(R) ==
  /\ ~optimizing /\ R \subseteq issued
  /\ \/ /\ Graph!Marginalize(R)
        /\ value' = [s \in states \ R |-> value[s]]
        /\ IF R = {} THEN UNCHANGED <<changes, base>>
                     ELSE Void /\ base' = Snapshot'
        /\ UNCHANGED optimizing
     \/ Refused
  /\ UNCHANGED issued

(* run_batch voids the journal and then works on the problem, which is     *)
(* borrowed until it returns or panics.                                    *)
BeginOptimize_Recorded == /\ ~optimizing
                          /\ optimizing' = TRUE
                          /\ UNCHANGED <<graph, value, changes, issued, base>>

BeginOptimize == /\ ~optimizing
                 /\ optimizing' = TRUE
                 /\ Void
                 /\ UNCHANGED <<graph, value, issued, base>>

MoveEstimates == /\ optimizing
                 /\ value' \in [states -> Version]
                 /\ UNCHANGED <<graph, changes, optimizing, issued, base>>

EndOptimize == /\ optimizing
               /\ optimizing' = FALSE
               /\ reply' \in {"ok", "refused"} /\ UNCHANGED <<states, terms, spent>>
               /\ base' = Snapshot
               /\ UNCHANGED <<value, changes, issued>>

TrackedNext == \/ InvalidateAll \/ BeginOptimize \/ MoveEstimates \/ EndOptimize
               \/ \E s \in State, v \in Version : Add(s, v) \/ Set(s, v)
               \/ \E f \in Factor : RemoveFactor(f) \/ \E scope \in SUBSET State : AddFactor(f, scope)
               \/ \E R \in SUBSET State : Marginalize(R)

TrackedSpec == TrackedInit /\ [][TrackedNext]_trackedVars

-----------------------------------------------------------------------------
(* Every variable has its type, and each live state has an estimate.       *)
(* (TrackedProblem)                                                        *)
TrackedTypeOK == /\ states \subseteq State /\ terms \subseteq Graph!Term /\ spent \subseteq Factor
                 /\ value \in [states -> Version]
                 /\ changes \in Seq(ProblemChange) /\ optimizing \in BOOLEAN
                 /\ issued \subseteq State \cup Factor

(* What one entry makes of a problem of which is known: the states and     *)
(* factors there are, the states whose estimate is not that of the base,   *)
(* and whether each entry could apply to what those before it had made.    *)
Applied(before, change) ==
  CASE change.kind = "StateAdded" ->
         [before EXCEPT !.states = @ \cup {change.id}, !.set = @ \cup {change.id},
                        !.legal = @ /\ change.id \notin before.states]
    [] change.kind = "StateSet" ->
         [before EXCEPT !.set = @ \cup {change.id},
                        !.legal = @ /\ change.id \in before.states]
    [] change.kind = "FactorAdded" ->
         [before EXCEPT !.factors = @ \cup {change.id},
                        !.legal = @ /\ change.id \notin before.factors]
    [] change.kind = "FactorRemoved" ->
         [before EXCEPT !.factors = @ \ {change.id},
                        !.legal = @ /\ change.id \in before.factors]
    [] OTHER -> [before EXCEPT !.legal = FALSE]

(* What a journal makes of the problem it was begun with. *)
Replay(from, entries) ==
  LET made[n \in 1..Len(entries)] ==
        IF n = 1 THEN [states |-> from.states, factors |-> from.factors, set |-> {},
                       legal |-> entries[1] = Rebuild]
        ELSE Applied(made[n - 1], entries[n])
  IN  made[Len(entries)]

(* Whoever rebuilds where the journal says so and applies the entries that *)
(* follow, in order, arrives at the problem as it is: no success is        *)
(* missing, no refusal is recorded, and nothing that entries cannot tell   *)
(* (marginalization, a step of an optimizer) hides behind them.            *)
(* (TrackedProblem, tracked.rs:11)                                         *)
JournalReplays ==
  ~optimizing =>
    LET after == Replay(base, changes)
    IN  /\ after.legal
        /\ after.states = states
        /\ after.factors = Factors
        /\ \A s \in states \ after.set : value[s] = base.value[s]

(* The problem and its journal stay in step through every success, refusal *)
(* and void (tracked.rs:45-267).                                           *)
JournalInvariant == TrackedTypeOK /\ JournalReplays

(* While estimates move the journal holds nothing but the order to rebuild,*)
(* so that it is right even if the optimizer panics.  (run_batch)          *)
VoidedFirst == [][optimizing /\ value' # value => changes = <<Rebuild>>]_trackedVars
=============================================================================
