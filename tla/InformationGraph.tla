-------------------------- MODULE InformationGraph --------------------------
(***************************************************************************)
(* What marginalization promises (marginalization.rs, solver.rs:275-320):  *)
(* a graph of terms over states, each telling what some of the inserted    *)
(* factors tell.  Marginalizing states replaces all terms that mention one *)
(* of them, in one step, by a single prior over the other states they      *)
(* mention; or by a constant, when nothing depends on those any more.      *)
(***************************************************************************)
EXTENDS Naturals

CONSTANTS State,   \* handles of states
          Factor   \* handles of factors

VARIABLES states,  \* the live states
          terms,   \* the terms of the objective
          spent,   \* factors of which only a constant is left
          reply    \* how the last call ended

graphVars == <<states, terms, spent, reply>>

Term == [scope : SUBSET State, tells : SUBSET Factor, prior : BOOLEAN]

Ordinary(f, scope) == [scope |-> scope, tells |-> {f}, prior |-> FALSE]

Init == states = {} /\ terms = {} /\ spent = {} /\ reply = "ok"

AddState(s) == /\ s \notin states
               /\ states' = states \cup {s}
               /\ reply' = "ok"
               /\ UNCHANGED <<terms, spent>>

(* A factor is inserted once, and only over live states. *)
AddFactor(f, scope) ==
  /\ scope \subseteq states
  /\ f \notin spent /\ \A t \in terms : f \notin t.tells
  /\ terms' = terms \cup {Ordinary(f, scope)}
  /\ reply' = "ok"
  /\ UNCHANGED <<states, spent>>

(* A prior is not a factor: it cannot be taken out by hand. *)
RemoveFactor(f) ==
  \E t \in terms : /\ ~t.prior /\ t.tells = {f}
                   /\ terms' = terms \ {t}
                   /\ reply' = "ok"
                   /\ UNCHANGED <<states, spent>>

Marginalize(R) ==
  LET merged == {t \in terms : t.scope \cap R # {}}
      scope  == (UNION {t.scope : t \in merged}) \ R
      tells  == UNION {t.tells : t \in merged}
  IN  /\ R \subseteq states
      /\ reply' = "ok"
      /\ states' = states \ R
      /\ \/ /\ scope # {}
            /\ terms' = (terms \ merged) \cup {[scope |-> scope, tells |-> tells, prior |-> TRUE]}
            /\ spent' = spent
         \/ /\ terms' = terms \ merged
            /\ spent' = spent \cup tells

(* A call that is refused, fails or panics changes nothing. *)
Refuse == reply' = "refused" /\ UNCHANGED <<states, terms, spent>>

Next == \/ \E s \in State : AddState(s)
        \/ \E f \in Factor : RemoveFactor(f) \/ \E scope \in SUBSET State : AddFactor(f, scope)
        \/ \E R \in SUBSET State : Marginalize(R)
        \/ Refuse

Spec == Init /\ [][Next]_graphVars
=============================================================================
