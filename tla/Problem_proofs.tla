--------------------------- MODULE Problem_proofs ---------------------------
(* What a problem offers beside its graph: the journal of its changes      *)
(* (TrackedProblem) and its covariances (CovarianceQueries).  The two are  *)
(* specified apart and share only the lemmas about recursion.              *)
(*                                                                         *)
(* The journal is right because every entry turns the account that the     *)
(* entries before it give into that of the problem after it; what entries  *)
(* cannot tell voids it, and begins the account anew.                      *)
(*                                                                         *)
(* A matrix names its blocks because of an invariant of the workspaces: a  *)
(* call lays out its own before it uses it, and from then on what is marked*)
(* as current in it is a model of that problem as it is.  That columns of a*)
(* layout lead back to the blocks they were taken for is a fact about      *)
(* layouts, proved first.                                                  *)
EXTENDS TrackedProblem, CovarianceQueries, TLAPS, WellFoundedInduction, SequenceTheorems

(* A set with 0 that has with every number its successor has all of them. *)
LEMMA SetInduction ==
  ASSUME NEW S, 0 \in S, \A n \in Nat : n \in S => n + 1 \in S
  PROVE  Nat \subseteq S
<1> DEFINE T == Nat \ S
           R == OpToRel(<, Nat)
<1> SUFFICES ASSUME T # {} PROVE FALSE
  OBVIOUS
<1>1. IsWellFoundedOn(R, Nat)
  BY NatLessThanWellFounded
<1>2. T \subseteq Nat
  OBVIOUS
<1> HIDE DEF T, R
<1>3. \E x \in T : \A y \in T : ~ (<<y, x>> \in R)
  BY <1>1, <1>2, WFMin
<1>4. PICK x \in T : \A y \in T : ~ (<<y, x>> \in R)
  BY <1>3
<1>5. x \in Nat /\ x # 0
  BY <1>2 DEF T
<1>6. x - 1 \in Nat /\ x - 1 + 1 = x
  BY <1>5
<1>7. <<x - 1, x>> \in R
  BY <1>5, <1>6 DEF R, OpToRel
<1>8. x - 1 \notin T
  BY <1>4, <1>7
<1> QED BY <1>8, <1>6 DEF T

(* f starts at a and goes on, up to n, as h says. *)
Unfolds(f, n, A, a, h) ==
  /\ f \in [0..n -> A]
  /\ f[0] = a
  /\ \A i \in 1..n : f[i] = h[i][f[i - 1]]

(* Step functions unfold: what recursion up to n defines is there. *)
LEMMA RecursionExists ==
  ASSUME NEW A, NEW a \in A, NEW h \in [Nat -> [A -> A]], NEW n \in Nat
  PROVE  \E f : Unfolds(f, n, A, a, h)
<1> DEFINE S == {m \in Nat : \E f \in [0..m -> A] :
                               f[0] = a /\ \A i \in 1..m : f[i] = h[i][f[i - 1]]}
<1>1. 0 \in S
  <2> DEFINE g == [i \in 0..0 |-> a]
  <2>1. g \in [0..0 -> A] /\ g[0] = a /\ \A i \in 1..0 : g[i] = h[i][g[i - 1]]
    OBVIOUS
  <2> QED BY <2>1
<1>2. ASSUME NEW m \in Nat, m \in S PROVE m + 1 \in S
  <2>1. PICK f \in [0..m -> A] : f[0] = a /\ \A i \in 1..m : f[i] = h[i][f[i - 1]]
    BY <1>2
  <2> DEFINE g == [i \in 0..(m + 1) |-> IF i <= m THEN f[i] ELSE h[m + 1][f[m]]]
  <2>2. g \in [0..(m + 1) -> A]
    BY <2>1
  <2>3. g[0] = a
    BY <2>1
  <2>4. ASSUME NEW i \in 1..(m + 1) PROVE g[i] = h[i][g[i - 1]]
    <3>1. CASE i <= m
      BY <3>1, <2>1
    <3>2. CASE i = m + 1
      BY <3>2
    <3> QED BY <3>1, <3>2
  <2> HIDE DEF g
  <2>5. \E f2 \in [0..(m + 1) -> A] :
           f2[0] = a /\ \A i \in 1..(m + 1) : f2[i] = h[i][f2[i - 1]]
    BY <2>2, <2>3, <2>4
  <2> QED BY <2>5
<1> HIDE DEF S
<1>3. n \in S
  BY <1>1, <1>2, SetInduction
<1> QED BY <1>3 DEF S, Unfolds

-----------------------------------------------------------------------------
(***************************************************************************)
(* The journal.                                                            *)
(***************************************************************************)
Account == [states : SUBSET State, factors : SUBSET Factor, set : SUBSET State, legal : BOOLEAN]

Begun(from, first) == [states |-> from.states, factors |-> from.factors, set |-> {},
                       legal |-> first = Rebuild]

(* An entry leads from one account of the problem to another. *)
LEMMA AppliedTyped ==
  ASSUME NEW before \in Account, NEW change \in ProblemChange
  PROVE  Applied(before, change) \in Account
<1>1. CASE change = Rebuild
  <2>1. change.kind = "Rebuild"
    BY <1>1 DEF Rebuild
  <2>2. Applied(before, change) = [before EXCEPT !.legal = FALSE]
    BY ONLY <2>1 DEF Applied
  <2> QED BY <2>2 DEF Account
<1>2. CASE change \in [kind : {"StateAdded", "StateSet"}, id : State]
  <2>1. change.kind \in {"StateAdded", "StateSet"} /\ change.id \in State
    BY <1>2
  <2>2. CASE change.kind = "StateAdded"
    <3>1. Applied(before, change) =
            [before EXCEPT !.states = @ \cup {change.id}, !.set = @ \cup {change.id},
                           !.legal = @ /\ change.id \notin before.states]
      BY ONLY <2>2 DEF Applied
    <3>2. PICK ok \in BOOLEAN : ok = (before.legal /\ change.id \notin before.states)
      OBVIOUS
    <3>3. Applied(before, change) = [before EXCEPT !.states = @ \cup {change.id}, !.set = @ \cup {change.id}, !.legal = ok]
      BY <3>1, <3>2
    <3>4. PICK x \in SUBSET State : x = before.states \cup {change.id}
      <4>1. before.states \cup {change.id} \in SUBSET State
        BY <2>1 DEF Account
      <4> QED BY <4>1
    <3>5. PICK y \in SUBSET State : y = before.set \cup {change.id}
      <4>1. before.set \cup {change.id} \in SUBSET State
        BY <2>1 DEF Account
      <4> QED BY <4>1
    <3>6. Applied(before, change) = [before EXCEPT !.states = x, !.set = y, !.legal = ok]
      BY ONLY <3>3, <3>4, <3>5
    <3> QED BY <3>2, <3>6 DEF Account
  <2>3. CASE change.kind = "StateSet"
    <3>1. Applied(before, change) =
            [before EXCEPT !.set = @ \cup {change.id},
                           !.legal = @ /\ change.id \in before.states]
      BY ONLY <2>3 DEF Applied
    <3>2. PICK ok \in BOOLEAN : ok = (before.legal /\ change.id \in before.states)
      OBVIOUS
    <3>3. Applied(before, change) = [before EXCEPT !.set = @ \cup {change.id}, !.legal = ok]
      BY <3>1, <3>2
    <3>4. PICK x \in SUBSET State : x = before.set \cup {change.id}
      <4>1. before.set \cup {change.id} \in SUBSET State
        BY <2>1 DEF Account
      <4> QED BY <4>1
    <3>5. Applied(before, change) = [before EXCEPT !.set = x, !.legal = ok]
      BY ONLY <3>3, <3>4
    <3> QED BY <3>2, <3>5 DEF Account
  <2> QED BY <2>1, <2>2, <2>3
<1>3. CASE change \in [kind : {"FactorAdded", "FactorRemoved"}, id : Factor]
  <2>1. change.kind \in {"FactorAdded", "FactorRemoved"} /\ change.id \in Factor
    BY <1>3
  <2>2. CASE change.kind = "FactorAdded"
    <3>1. Applied(before, change) =
            [before EXCEPT !.factors = @ \cup {change.id},
                           !.legal = @ /\ change.id \notin before.factors]
      BY ONLY <2>2 DEF Applied
    <3>2. PICK ok \in BOOLEAN : ok = (before.legal /\ change.id \notin before.factors)
      OBVIOUS
    <3>3. Applied(before, change) = [before EXCEPT !.factors = @ \cup {change.id}, !.legal = ok]
      BY <3>1, <3>2
    <3>4. PICK x \in SUBSET Factor : x = before.factors \cup {change.id}
      <4>1. before.factors \cup {change.id} \in SUBSET Factor
        BY <2>1 DEF Account
      <4> QED BY <4>1
    <3>5. Applied(before, change) = [before EXCEPT !.factors = x, !.legal = ok]
      BY ONLY <3>3, <3>4
    <3> QED BY <3>2, <3>5 DEF Account
  <2>3. CASE change.kind = "FactorRemoved"
    <3>1. Applied(before, change) =
            [before EXCEPT !.factors = @ \ {change.id},
                           !.legal = @ /\ change.id \in before.factors]
      BY ONLY <2>3 DEF Applied
    <3>2. PICK ok \in BOOLEAN : ok = (before.legal /\ change.id \in before.factors)
      OBVIOUS
    <3>3. Applied(before, change) = [before EXCEPT !.factors = @ \ {change.id}, !.legal = ok]
      BY <3>1, <3>2
    <3> QED BY <3>2, <3>3, <2>1 DEF Account
  <2> QED BY <2>1, <2>2, <2>3
<1> QED BY <1>1, <1>2, <1>3 DEF ProblemChange

(* f tells what the prefixes of a journal make of the base. *)
Accounts(f, from, s) ==
  /\ f \in [1..Len(s) -> Account]
  /\ f[1] = Begun(from, s[1])
  /\ \A n \in 2..Len(s) : f[n] = Applied(f[n - 1], s[n])

(* Replaying goes over the entries of the journal. *)
LEMMA ReplayIsStepwise ==
  ASSUME NEW from, from.states \in SUBSET State, from.factors \in SUBSET Factor,
         NEW s \in Seq(ProblemChange), Len(s) >= 1
  PROVE  \E f : Accounts(f, from, s) /\ Replay(from, s) = f[Len(s)]
<1>1. PICK l \in Nat : l = Len(s) /\ l >= 1
  OBVIOUS
<1>2. \A n \in 1..l : s[n] \in ProblemChange
  BY <1>1
<1>3. PICK b : b = Begun(from, s[1])
  OBVIOUS
<1>4. b \in Account
  BY <1>3 DEF Begun, Account
<1> DEFINE h == [i \in Nat |-> [q \in Account |->
                   IF i \in 1..(l - 1) THEN Applied(q, s[i + 1]) ELSE q]]
<1>5. h \in [Nat -> [Account -> Account]]
  <2>1. ASSUME NEW i \in Nat, NEW q \in Account
        PROVE  (IF i \in 1..(l - 1) THEN Applied(q, s[i + 1]) ELSE q) \in Account
    <3>1. CASE i \in 1..(l - 1)
      <4>1. s[i + 1] \in ProblemChange
        BY <3>1, <1>1, <1>2
      <4>2. Applied(q, s[i + 1]) \in Account
        BY <4>1, AppliedTyped
      <4> QED BY <3>1, <4>2
    <3>2. CASE i \notin 1..(l - 1)
      BY <3>2
    <3> QED BY <3>1, <3>2
  <2> QED BY <2>1
<1>6. PICK u : Unfolds(u, l - 1, Account, b, h)
  <2> HIDE DEF h
  <2>1. PICK k \in Nat : k = l - 1
    BY <1>1
  <2>2. \E u : Unfolds(u, k, Account, b, h)
    BY ONLY <2>1, <1>4, <1>5, RecursionExists
  <2> QED BY ONLY <2>1, <2>2
<1> DEFINE f == [n \in 1..l |-> u[n - 1]]
<1>7. \A n \in 1..l : f[n] \in Account
  BY <1>6, <1>1 DEF Unfolds
<1>8. f[1] = b
  BY <1>6, <1>1 DEF Unfolds
<1>9. ASSUME NEW n \in 2..l PROVE f[n] = Applied(f[n - 1], s[n])
  <2>1. n - 1 \in 1..(l - 1) /\ n - 1 \in Nat /\ n - 1 + 1 = n /\ n \in 1..l /\ n - 1 \in 1..l
    BY <1>1
  <2>2. f[n] = u[n - 1] /\ f[n - 1] = u[n - 1 - 1] /\ u[n - 1 - 1] \in Account
    BY <2>1, <1>7
  <2>3. u[n - 1] = h[n - 1][u[n - 1 - 1]]
    BY <2>1, <1>6 DEF Unfolds
  <2>4. h[n - 1][u[n - 1 - 1]] = Applied(u[n - 1 - 1], s[n])
    BY <2>1, <2>2
  <2> QED BY ONLY <2>2, <2>3, <2>4
<1>10. DOMAIN f = 1..l
  OBVIOUS
<1>11. f = [n \in 1..l |-> f[n]]
  OBVIOUS
<1> HIDE DEF f
<1>12. \A n \in 1..l : f[n] = IF n = 1 THEN b ELSE Applied(f[n - 1], s[n])
  BY <1>8, <1>9, <1>1
<1>13. f = [n \in 1..l |-> IF n = 1 THEN b ELSE Applied(f[n - 1], s[n])]
  BY <1>11, <1>12
<1> DEFINE g == CHOOSE g : g = [n \in 1..l |-> IF n = 1 THEN b ELSE Applied(g[n - 1], s[n])]
<1>14. g = [n \in 1..l |-> IF n = 1 THEN b ELSE Applied(g[n - 1], s[n])]
  BY <1>13
<1>15. Replay(from, s) = g[Len(s)]
  BY <1>1, <1>3 DEF Replay, Begun
<1> HIDE DEF g
<1>16. \A n \in 1..l : g[n] = IF n = 1 THEN b ELSE Applied(g[n - 1], s[n])
  BY ONLY <1>14, Zenon
<1>17. g[1] = b /\ \A n \in 2..l : g[n] = Applied(g[n - 1], s[n])
  BY <1>16, <1>1
<1> DEFINE M == {m \in Nat : m + 1 <= l => g[m + 1] \in Account}
<1>18. 0 \in M
  BY <1>17, <1>4
<1>19. ASSUME NEW m \in Nat, m \in M PROVE m + 1 \in M
  <2> SUFFICES ASSUME m + 1 + 1 <= l PROVE g[m + 1 + 1] \in Account
    OBVIOUS
  <2>1. PICK n \in 2..l : n = m + 1 + 1
    BY <1>1
  <2>2. g[m + 1] \in Account /\ n - 1 = m + 1 /\ n \in 1..l
    BY <1>19, <2>1, <1>1
  <2>3. g[n] = Applied(g[m + 1], s[n])
    BY <1>17, <2>2
  <2>4. s[n] \in ProblemChange
    BY <1>2, <2>2
  <2>5. Applied(g[m + 1], s[n]) \in Account
    BY ONLY <2>2, <2>4, AppliedTyped
  <2> QED BY <2>1, <2>3, <2>5
<1>20. Nat \subseteq M
  <2> HIDE DEF M
  <2> QED BY <1>18, <1>19, SetInduction
<1>21. ASSUME NEW n \in 1..l PROVE g[n] \in Account
  <2>1. n - 1 \in Nat /\ n - 1 + 1 = n /\ n <= l
    BY <1>1
  <2>2. n - 1 \in M
    BY ONLY <1>20, <2>1
  <2> QED BY <2>1, <2>2
<1>22. g \in [1..l -> Account]
  BY <1>14, <1>21
<1>23. Accounts(g, from, s)
  BY <1>1, <1>3, <1>17, <1>22 DEF Accounts
<1> QED BY <1>15, <1>23

(* The order to rebuild alone gives the base. *)
LEMMA ReplayBegins ==
  ASSUME NEW from, from.states \in SUBSET State, from.factors \in SUBSET Factor
  PROVE  /\ <<Rebuild>> \in Seq(ProblemChange)
         /\ Replay(from, <<Rebuild>>) =
              [states |-> from.states, factors |-> from.factors, set |-> {}, legal |-> TRUE]
<1>1. PICK s : s = <<Rebuild>>
  OBVIOUS
<1>2. s \in Seq(ProblemChange) /\ Len(s) = 1 /\ s[1] = Rebuild
  BY <1>1 DEF ProblemChange
<1>3. PICK f : Accounts(f, from, s) /\ Replay(from, s) = f[Len(s)]
  <2>1. Len(s) >= 1
    BY <1>2
  <2> QED BY <1>2, <2>1, ReplayIsStepwise
<1>4. Replay(from, s) = Begun(from, Rebuild)
  BY <1>2, <1>3 DEF Accounts
<1> QED BY <1>1, <1>2, <1>4 DEF Begun

(* One entry more is applied to what the others have made. *)
LEMMA ReplayContinues ==
  ASSUME NEW from, from.states \in SUBSET State, from.factors \in SUBSET Factor,
         NEW s \in Seq(ProblemChange), Len(s) >= 1, NEW change \in ProblemChange
  PROVE  /\ Replay(from, s) \in Account
         /\ Replay(from, Append(s, change)) = Applied(Replay(from, s), change)
<1>1. PICK l \in Nat : l = Len(s) /\ l >= 1
  OBVIOUS
<1>2. PICK t \in Seq(ProblemChange) : t = Append(s, change)
  <2>1. Append(s, change) \in Seq(ProblemChange)
    OBVIOUS
  <2> QED BY ONLY <2>1
<1>3. Len(t) = l + 1 /\ t[l + 1] = change /\ \A n \in 1..l : t[n] = s[n]
  BY <1>1, <1>2
<1>4. PICK f : Accounts(f, from, s) /\ Replay(from, s) = f[l]
  BY <1>1, ReplayIsStepwise
<1>5. PICK g : Accounts(g, from, t) /\ Replay(from, t) = g[l + 1]
  <2>1. Len(t) >= 1
    BY <1>1, <1>3
  <2> QED BY <1>3, <2>1, ReplayIsStepwise
<1>6. f[1] = g[1]
  BY <1>1, <1>3, <1>4, <1>5 DEF Accounts
<1> DEFINE M == {m \in Nat : m + 1 <= l => f[m + 1] = g[m + 1]}
<1>7. 0 \in M
  BY <1>6
<1>8. ASSUME NEW m \in Nat, m \in M PROVE m + 1 \in M
  <2> SUFFICES ASSUME m + 1 + 1 <= l PROVE f[m + 1 + 1] = g[m + 1 + 1]
    OBVIOUS
  <2>1. PICK n : n = m + 1 + 1
    OBVIOUS
  <2>2. f[m + 1] = g[m + 1] /\ n - 1 = m + 1 /\ n \in 2..l /\ n \in 2..(l + 1) /\ n \in 1..l
    BY <1>8, <2>1, <1>1
  <2>3. f[n] = Applied(f[n - 1], s[n]) /\ g[n] = Applied(g[n - 1], t[n]) /\ t[n] = s[n]
    BY <2>2, <1>1, <1>3, <1>4, <1>5 DEF Accounts
  <2> QED BY ONLY <2>1, <2>2, <2>3
<1>9. Nat \subseteq M
  <2> HIDE DEF M
  <2> QED BY <1>7, <1>8, SetInduction
<1>10. f[l] = g[l]
  <2>1. l - 1 \in Nat /\ l - 1 + 1 = l
    BY <1>1
  <2>2. l - 1 \in M
    BY ONLY <1>9, <2>1
  <2> QED BY <2>1, <2>2
<1>11. g[l + 1] = Applied(g[l], change)
  <2>1. l + 1 \in 2..Len(t) /\ l + 1 - 1 = l
    BY <1>1, <1>3
  <2> QED BY <2>1, <1>3, <1>5 DEF Accounts
<1>12. f[l] \in Account
  BY <1>1, <1>4 DEF Accounts
<1> QED BY ONLY <1>2, <1>4, <1>5, <1>10, <1>11, <1>12

-----------------------------------------------------------------------------
(***************************************************************************)
(* The inductive invariant.                                                *)
(***************************************************************************)
BaseTyped == base.states \in SUBSET State /\ base.factors \in SUBSET Factor

(* The journal has begun, and an optimizer works behind an empty one. *)
JournalBegun == /\ Len(changes) >= 1
                /\ optimizing => changes = <<Rebuild>>

(* What is there was issued: an entry never adds what is there already. *)
HandlesIssued == states \subseteq issued /\ Factors \subseteq issued

(* A factor is one term: once that is taken out, the factor is gone. *)
OrdinaryOnce == \A t, u \in terms : ~t.prior /\ ~u.prior /\ t.tells = u.tells => t = u

TInv == /\ TrackedTypeOK /\ JournalReplays
        /\ BaseTyped /\ JournalBegun /\ HandlesIssued /\ OrdinaryOnce

(* The account that a journal gives when nothing is at work. *)
LEMMA AccountIsTrue ==
  ASSUME TInv, ~optimizing
  PROVE  \E a \in Account :
           /\ a = Replay(base, changes)
           /\ a.legal /\ a.states = states /\ a.factors = Factors
           /\ \A s \in states \ a.set : value[s] = base.value[s]
<1>1. PICK f : Accounts(f, base, changes) /\ Replay(base, changes) = f[Len(changes)]
  BY ReplayIsStepwise DEF TInv, TrackedTypeOK, BaseTyped, JournalBegun
<1>2. Len(changes) \in 1..Len(changes)
  <2>1. changes \in Seq(ProblemChange) /\ Len(changes) >= 1
    BY DEF TInv, TrackedTypeOK, JournalBegun
  <2> QED BY <2>1
<1>3. Replay(base, changes) \in Account
  BY <1>1, <1>2 DEF Accounts
<1> QED BY <1>3 DEF TInv, JournalReplays

(* An entry that is true of the step it records keeps the journal true. *)
LEMMA RecordedFits ==
  ASSUME TInv, ~optimizing, NEW change \in ProblemChange, Record(change)
  PROVE  /\ changes' \in Seq(ProblemChange) /\ optimizing' = FALSE
         /\ BaseTyped' /\ JournalBegun' /\ base' = base
         /\ \A a \in Account : a = Replay(base, changes) =>
              Replay(base', changes') = Applied(a, change)
<1>1. changes' = Append(changes, change) /\ UNCHANGED <<optimizing, base>>
  BY DEF Record
<1>2. changes \in Seq(ProblemChange) /\ Len(changes) >= 1
  BY DEF TInv, TrackedTypeOK, JournalBegun
<1>3. base.states \in SUBSET State /\ base.factors \in SUBSET Factor
  BY DEF TInv, BaseTyped
<1>4. Replay(base, Append(changes, change)) = Applied(Replay(base, changes), change)
  BY ONLY <1>2, <1>3, change \in ProblemChange, ReplayContinues
<1>5. changes' \in Seq(ProblemChange) /\ Len(changes') >= 1
  BY <1>1, <1>2
<1>6. Replay(base', changes') = Applied(Replay(base, changes), change)
  BY ONLY <1>1, <1>4
<1> QED BY <1>1, <1>3, <1>5, <1>6 DEF BaseTyped, JournalBegun

(* Where the problem stays, so does what is said of it. *)
LEMMA UnrecordedFits ==
  ASSUME TInv, UNCHANGED <<changes, optimizing, base>>,
         states' = states, Factors' = Factors, value' = value
  PROVE  JournalReplays' /\ BaseTyped' /\ JournalBegun'
<1>1. BaseTyped' /\ JournalBegun'
  BY DEF TInv, BaseTyped, JournalBegun
<1>2. JournalReplays'
  BY DEF TInv, JournalReplays
<1> QED BY <1>1, <1>2

(* A void journal is true of the problem it was voided at. *)
LEMMA VoidFits ==
  ASSUME Void, base' = Snapshot', optimizing' = FALSE,
         states' \in SUBSET State
  PROVE  changes' \in Seq(ProblemChange) /\ JournalReplays' /\ BaseTyped' /\ JournalBegun'
<1>1. changes' = <<Rebuild>>
  BY DEF Void
<1>2. base'.states = states' /\ base'.factors = Factors' /\ base'.value = value'
  BY DEF Snapshot
<1>3. Factors' \in SUBSET Factor
  BY DEF Factors
<1>4. BaseTyped'
  BY <1>2, <1>3 DEF BaseTyped
<1>5. PICK b : b = base'
  OBVIOUS
<1>6. /\ <<Rebuild>> \in Seq(ProblemChange)
      /\ Replay(b, <<Rebuild>>) =
           [states |-> b.states, factors |-> b.factors, set |-> {}, legal |-> TRUE]
  <2>1. b.states \in SUBSET State /\ b.factors \in SUBSET Factor
    BY <1>4, <1>5 DEF BaseTyped
  <2> QED BY ONLY <2>1, ReplayBegins
<1>7. Replay(base', changes') =
        [states |-> states', factors |-> Factors', set |-> {}, legal |-> TRUE]
  BY ONLY <1>1, <1>2, <1>5, <1>6
<1>8. JournalReplays'
  BY <1>7, <1>2 DEF JournalReplays
<1>9. JournalBegun'
  BY <1>1 DEF JournalBegun
<1> QED BY <1>1, <1>4, <1>6, <1>8, <1>9

(* Factors after an insertion, and after a removal. *)
LEMMA FactorAdded ==
  ASSUME NEW f \in Factor, NEW scope, terms' = terms \cup {Graph!Ordinary(f, scope)}
  PROVE  Factors' = Factors \cup {f}
<1>1. PICK new : new = Graph!Ordinary(f, scope)
  OBVIOUS
<1>2. ~new.prior /\ new.tells = {f}
  BY <1>1 DEF Graph!Ordinary
<1>3. terms' = terms \cup {new}
  BY <1>1
<1>4. \A g \in Factor : g \in Factors' <=> g \in Factors \cup {f}
  BY ONLY <1>2, <1>3, f \in Factor DEF Factors
<1> QED BY <1>4 DEF Factors

LEMMA FactorRemoved ==
  ASSUME OrdinaryOnce, NEW f \in Factor, NEW t \in terms, ~t.prior, t.tells = {f},
         terms' = terms \ {t}
  PROVE  Factors' = Factors \ {f} /\ f \in Factors
<1>1. \A g \in Factor : g \in Factors' <=> g \in Factors \ {f}
  <2> SUFFICES ASSUME NEW g \in Factor PROVE g \in Factors' <=> g \in Factors \ {f}
    OBVIOUS
  <2>1. CASE g = f
    <3>1. ASSUME NEW u \in terms', ~u.prior, u.tells = {f} PROVE FALSE
      BY <3>1 DEF OrdinaryOnce
    <3> QED BY <2>1, <3>1 DEF Factors
  <2>2. CASE g # f
    <3>1. t.tells # {g}
      BY <2>2
    <3> QED BY <2>2, <3>1 DEF Factors
  <2> QED BY <2>1, <2>2
<1> QED BY <1>1 DEF Factors

LEMMA TrackedStarts == TrackedInit => TInv
<1> SUFFICES ASSUME TrackedInit PROVE TInv
  OBVIOUS
<1>1. states = {} /\ terms = {} /\ spent = {} /\ issued = {} /\ changes = <<Rebuild>>
      /\ optimizing = FALSE /\ base = Snapshot
  BY DEF TrackedInit, Graph!Init
<1>2. Factors = {}
  BY <1>1 DEF Factors
<1>3. value \in [states -> Version]
  BY <1>1 DEF TrackedInit
<1>4. base.states = {} /\ base.factors = {}
  BY <1>1, <1>2 DEF Snapshot
<1>5. <<Rebuild>> \in Seq(ProblemChange) /\ Replay(base, <<Rebuild>>) =
              [states |-> base.states, factors |-> base.factors, set |-> {}, legal |-> TRUE]
  <2>1. base.states \in SUBSET State /\ base.factors \in SUBSET Factor
    BY <1>4
  <2> QED BY ONLY <2>1, ReplayBegins
<1>6. TrackedTypeOK
  BY <1>1, <1>3, <1>5 DEF TrackedTypeOK
<1>7. JournalReplays
  BY <1>1, <1>2, <1>4, <1>5 DEF JournalReplays
<1>8. BaseTyped /\ JournalBegun /\ HandlesIssued /\ OrdinaryOnce
  BY <1>1, <1>2, <1>4 DEF BaseTyped, JournalBegun, HandlesIssued, OrdinaryOnce
<1> QED BY <1>6, <1>7, <1>8 DEF TInv

-----------------------------------------------------------------------------
(***************************************************************************)
(* One lemma for each action.                                              *)
(***************************************************************************)
LEMMA AddFits ==
  ASSUME TInv, NEW s \in State, NEW v \in Version, Add(s, v)
  PROVE  TInv'
<1>1. /\ s \notin issued /\ ~optimizing
      /\ states' = states \cup {s} /\ UNCHANGED <<terms, spent>>
      /\ value' = [q \in states \cup {s} |-> IF q = s THEN v ELSE value[q]]
      /\ issued' = issued \cup {s}
      /\ Record(Entry("StateAdded", s))
  BY DEF Add, CanRecord, Graph!AddState
<1>2. /\ states \subseteq State /\ value \in [states -> Version] /\ states \subseteq issued
      /\ terms \subseteq Graph!Term /\ spent \subseteq Factor /\ issued \subseteq State \cup Factor
  BY DEF TInv, TrackedTypeOK, HandlesIssued
<1>3. PICK change \in ProblemChange : change = Entry("StateAdded", s)
  BY DEF Entry, ProblemChange
<1>4. change.kind = "StateAdded" /\ change.id = s
  BY <1>3 DEF Entry
<1>5. PICK a \in Account :
           /\ a = Replay(base, changes)
           /\ a.legal /\ a.states = states /\ a.factors = Factors
           /\ \A q \in states \ a.set : value[q] = base.value[q]
  BY <1>1, AccountIsTrue
<1>6. /\ changes' \in Seq(ProblemChange) /\ optimizing' = FALSE
      /\ BaseTyped' /\ JournalBegun' /\ base' = base
      /\ Replay(base', changes') = Applied(a, change)
  BY <1>1, <1>3, <1>5, RecordedFits
<1>7. Factors' = Factors
  BY <1>1 DEF Factors
<1>8. value' \in [states' -> Version] /\ \A q \in states : value'[q] = value[q]
  BY <1>1, <1>2
<1>9. JournalReplays'
  <2>1. Applied(a, change) = [a EXCEPT !.states = @ \cup {s}, !.set = @ \cup {s},
                                       !.legal = @ /\ s \notin a.states]
    BY ONLY <1>4 DEF Applied
  <2>2. PICK b : b = Applied(a, change)
    OBVIOUS
  <2>3. b.states = states' /\ b.set = a.set \cup {s} /\ b.factors = Factors'
    BY ONLY <2>1, <2>2, <1>1, <1>5, <1>7, a \in Account DEF Account
  <2>4. b.legal
    <3>1. b.legal = (a.legal /\ s \notin a.states)
      BY ONLY <2>1, <2>2, a \in Account DEF Account
    <3> QED BY ONLY <3>1, <1>1, <1>2, <1>5
  <2>5. \A q \in states' \ b.set : value'[q] = base'.value[q]
    BY <2>3, <1>1, <1>5, <1>6, <1>8
  <2> QED BY <1>6, <2>2, <2>3, <2>4, <2>5 DEF JournalReplays
<1>10. TrackedTypeOK'
  BY <1>1, <1>2, <1>6, <1>8 DEF TrackedTypeOK
<1>11. HandlesIssued' /\ OrdinaryOnce'
  BY <1>1, <1>7 DEF TInv, HandlesIssued, OrdinaryOnce
<1> QED BY <1>6, <1>9, <1>10, <1>11 DEF TInv

(* An edit that is refused leaves everything as it was. *)
LEMMA RefusedFits ==
  ASSUME TInv, Refused, UNCHANGED issued
  PROVE  TInv'
<1>1. UNCHANGED <<states, terms, spent, value, changes, optimizing, base, issued>>
  BY DEF Refused, Graph!Refuse
<1>2. Factors' = Factors
  BY <1>1 DEF Factors
<1>3. JournalReplays' /\ BaseTyped' /\ JournalBegun'
  BY <1>1, <1>2, UnrecordedFits
<1>4. TrackedTypeOK' /\ HandlesIssued' /\ OrdinaryOnce'
  BY <1>1, <1>2 DEF TInv, TrackedTypeOK, HandlesIssued, OrdinaryOnce
<1> QED BY <1>3, <1>4 DEF TInv

LEMMA SetFits ==
  ASSUME TInv, NEW s \in State, NEW v \in Version, Set(s, v)
  PROVE  TInv'
<1>1. CASE s \notin states /\ Refused
  BY <1>1, RefusedFits DEF Set
<1>2. CASE s \in states /\ ~(s \notin states /\ Refused)
  <2>1. /\ ~optimizing
        /\ value' = [value EXCEPT ![s] = v]
        /\ UNCHANGED <<states, terms, spent, issued>>
        /\ Record(Entry("StateSet", s))
    BY <1>2 DEF Set, CanRecord
  <2>2. /\ states \subseteq State /\ value \in [states -> Version]
        /\ terms \subseteq Graph!Term /\ spent \subseteq Factor /\ issued \subseteq State \cup Factor
    BY DEF TInv, TrackedTypeOK
  <2>3. PICK change \in ProblemChange : change = Entry("StateSet", s)
    BY DEF Entry, ProblemChange
  <2>4. change.kind = "StateSet" /\ change.id = s
    BY <2>3 DEF Entry
  <2>5. PICK a \in Account :
             /\ a = Replay(base, changes)
             /\ a.legal /\ a.states = states /\ a.factors = Factors
             /\ \A q \in states \ a.set : value[q] = base.value[q]
    BY <2>1, AccountIsTrue
  <2>6. /\ changes' \in Seq(ProblemChange) /\ optimizing' = FALSE
        /\ BaseTyped' /\ JournalBegun' /\ base' = base
        /\ Replay(base', changes') = Applied(a, change)
    BY <2>1, <2>3, <2>5, RecordedFits
  <2>7. Factors' = Factors
    BY <2>1 DEF Factors
  <2>8. value' \in [states' -> Version] /\ \A q \in states \ {s} : value'[q] = value[q]
    BY <2>1, <2>2
  <2>9. JournalReplays'
    <3>1. Applied(a, change) = [a EXCEPT !.set = @ \cup {s}, !.legal = @ /\ s \in a.states]
      BY ONLY <2>4 DEF Applied
    <3>2. PICK b : b = Applied(a, change)
      OBVIOUS
    <3>3. b.states = states' /\ b.set = a.set \cup {s} /\ b.factors = Factors'
      BY ONLY <3>1, <3>2, <2>1, <2>5, <2>7, a \in Account DEF Account
    <3>4. b.legal
      <4>1. b.legal = (a.legal /\ s \in a.states)
        BY ONLY <3>1, <3>2, a \in Account DEF Account
      <4> QED BY ONLY <4>1, <1>2, <2>5
    <3>5. \A q \in states' \ b.set : value'[q] = base'.value[q]
      BY <3>3, <2>1, <2>5, <2>6, <2>8
    <3> QED BY <2>6, <3>2, <3>3, <3>4, <3>5 DEF JournalReplays
  <2>10. TrackedTypeOK'
    BY <2>1, <2>2, <2>6, <2>8 DEF TrackedTypeOK
  <2>11. HandlesIssued' /\ OrdinaryOnce'
    BY <2>1, <2>7 DEF TInv, HandlesIssued, OrdinaryOnce
  <2> QED BY <2>6, <2>9, <2>10, <2>11 DEF TInv
<1> QED BY <1>1, <1>2 DEF Set

LEMMA AddFactorTracked ==
  ASSUME TInv, NEW f \in Factor, NEW scope \in SUBSET State, AddFactor(f, scope)
  PROVE  TInv'
<1>1. CASE ~(scope \subseteq states) /\ Refused /\ UNCHANGED issued
  BY <1>1, RefusedFits
<1>2. CASE Graph!AddFactor(f, scope) /\ issued' = issued \cup {f}
           /\ Record(Entry("FactorAdded", f)) /\ UNCHANGED value
  <2>1. /\ ~optimizing /\ f \notin issued
        /\ terms' = terms \cup {Graph!Ordinary(f, scope)}
        /\ \A t \in terms : f \notin t.tells
        /\ UNCHANGED <<states, spent>>
    BY <1>2 DEF AddFactor, CanRecord, Graph!AddFactor
  <2>2. /\ states \subseteq State /\ value \in [states -> Version] /\ Factors \subseteq issued
        /\ terms \subseteq Graph!Term /\ spent \subseteq Factor /\ issued \subseteq State \cup Factor
    BY DEF TInv, TrackedTypeOK, HandlesIssued
  <2>3. PICK change \in ProblemChange : change = Entry("FactorAdded", f)
    BY DEF Entry, ProblemChange
  <2>4. change.kind = "FactorAdded" /\ change.id = f
    BY <2>3 DEF Entry
  <2>5. PICK a \in Account :
             /\ a = Replay(base, changes)
             /\ a.legal /\ a.states = states /\ a.factors = Factors
             /\ \A q \in states \ a.set : value[q] = base.value[q]
    BY <2>1, AccountIsTrue
  <2>6. /\ changes' \in Seq(ProblemChange) /\ optimizing' = FALSE
        /\ BaseTyped' /\ JournalBegun' /\ base' = base
        /\ Replay(base', changes') = Applied(a, change)
    BY <1>2, <2>1, <2>3, <2>5, RecordedFits
  <2>7. Factors' = Factors \cup {f}
    BY <2>1, FactorAdded
  <2>9. JournalReplays'
    <3>1. Applied(a, change) = [a EXCEPT !.factors = @ \cup {f}, !.legal = @ /\ f \notin a.factors]
      BY ONLY <2>4 DEF Applied
    <3>2. PICK b : b = Applied(a, change)
      OBVIOUS
    <3>3. b.states = states' /\ b.set = a.set /\ b.factors = Factors'
      BY ONLY <3>1, <3>2, <2>1, <2>5, <2>7, a \in Account DEF Account
    <3>4. b.legal
      <4>1. b.legal = (a.legal /\ f \notin a.factors)
        BY ONLY <3>1, <3>2, a \in Account DEF Account
      <4> QED BY ONLY <4>1, <2>1, <2>2, <2>5
    <3>5. \A q \in states' \ b.set : value'[q] = base'.value[q]
      BY <3>3, <1>2, <2>1, <2>5, <2>6
    <3> QED BY <2>6, <3>2, <3>3, <3>4, <3>5 DEF JournalReplays
  <2>10. TrackedTypeOK'
    <3>1. Graph!Ordinary(f, scope) \in Graph!Term
      BY DEF Graph!Ordinary, Graph!Term
    <3> QED BY <1>2, <2>1, <2>2, <2>6, <3>1 DEF TrackedTypeOK
  <2>11. HandlesIssued'
    BY <1>2, <2>1, <2>2, <2>7 DEF TInv, HandlesIssued
  <2>12. OrdinaryOnce'
    <3>1. PICK new : new = Graph!Ordinary(f, scope)
      OBVIOUS
    <3>2. new.tells = {f} /\ terms' = terms \cup {new}
      BY <2>1, <3>1 DEF Graph!Ordinary
    <3>3. \A t \in terms : t.tells # {f}
      BY <2>1
    <3> QED BY <3>2, <3>3 DEF TInv, OrdinaryOnce
  <2> QED BY <2>6, <2>9, <2>10, <2>11, <2>12 DEF TInv
<1> QED BY <1>1, <1>2 DEF AddFactor

LEMMA RemoveFactorTracked ==
  ASSUME TInv, NEW f \in Factor, RemoveFactor(f)
  PROVE  TInv'
<1>1. CASE f \notin Factors /\ Refused /\ UNCHANGED issued
  BY <1>1, RefusedFits
<1>2. CASE Graph!RemoveFactor(f) /\ Record(Entry("FactorRemoved", f)) /\ UNCHANGED <<value, issued>>
  <2>1. PICK t \in terms : /\ ~t.prior /\ t.tells = {f}
                           /\ terms' = terms \ {t}
                           /\ UNCHANGED <<states, spent>>
    BY <1>2 DEF Graph!RemoveFactor
  <2>2. /\ states \subseteq State /\ value \in [states -> Version] /\ Factors \subseteq issued
        /\ terms \subseteq Graph!Term /\ spent \subseteq Factor /\ issued \subseteq State \cup Factor
        /\ ~optimizing /\ OrdinaryOnce
    BY DEF TInv, TrackedTypeOK, HandlesIssued, RemoveFactor, CanRecord
  <2>3. PICK change \in ProblemChange : change = Entry("FactorRemoved", f)
    BY DEF Entry, ProblemChange
  <2>4. change.kind = "FactorRemoved" /\ change.id = f
    BY <2>3 DEF Entry
  <2>5. PICK a \in Account :
             /\ a = Replay(base, changes)
             /\ a.legal /\ a.states = states /\ a.factors = Factors
             /\ \A q \in states \ a.set : value[q] = base.value[q]
    BY <2>2, AccountIsTrue
  <2>6. /\ changes' \in Seq(ProblemChange) /\ optimizing' = FALSE
        /\ BaseTyped' /\ JournalBegun' /\ base' = base
        /\ Replay(base', changes') = Applied(a, change)
    BY <1>2, <2>2, <2>3, <2>5, RecordedFits
  <2>7. Factors' = Factors \ {f} /\ f \in Factors
    BY <2>1, <2>2, FactorRemoved
  <2>9. JournalReplays'
    <3>1. Applied(a, change) = [a EXCEPT !.factors = @ \ {f}, !.legal = @ /\ f \in a.factors]
      BY ONLY <2>4 DEF Applied
    <3>2. PICK b : b = Applied(a, change)
      OBVIOUS
    <3>3. b.states = states' /\ b.set = a.set /\ b.factors = Factors'
      BY ONLY <3>1, <3>2, <2>1, <2>5, <2>7, a \in Account DEF Account
    <3>4. b.legal
      <4>1. b.legal = (a.legal /\ f \in a.factors)
        BY ONLY <3>1, <3>2, a \in Account DEF Account
      <4> QED BY ONLY <4>1, <2>7, <2>5
    <3>5. \A q \in states' \ b.set : value'[q] = base'.value[q]
      BY <3>3, <1>2, <2>1, <2>5, <2>6
    <3> QED BY <2>6, <3>2, <3>3, <3>4, <3>5 DEF JournalReplays
  <2>10. TrackedTypeOK'
    BY <1>2, <2>1, <2>2, <2>6 DEF TrackedTypeOK
  <2>11. HandlesIssued'
    BY <1>2, <2>1, <2>7 DEF TInv, HandlesIssued
  <2>12. OrdinaryOnce'
    BY <2>1, <2>2 DEF OrdinaryOnce
  <2> QED BY <2>6, <2>9, <2>10, <2>11, <2>12 DEF TInv
<1> QED BY <1>1, <1>2 DEF RemoveFactor

LEMMA MarginalizeTracked ==
  ASSUME TInv, NEW R \in SUBSET State, Marginalize(R)
  PROVE  TInv'
<1>1. CASE Refused /\ UNCHANGED issued
  BY <1>1, RefusedFits
<1>2. CASE /\ Graph!Marginalize(R)
           /\ value' = [s \in states \ R |-> value[s]]
           /\ IF R = {} THEN UNCHANGED <<changes, base>> ELSE Void /\ base' = Snapshot'
           /\ UNCHANGED <<optimizing, issued>>
  <2>1. /\ states \subseteq State /\ value \in [states -> Version] /\ HandlesIssued
        /\ terms \subseteq Graph!Term /\ spent \subseteq Factor /\ issued \subseteq State \cup Factor
        /\ changes \in Seq(ProblemChange) /\ ~optimizing /\ OrdinaryOnce
    BY DEF TInv, TrackedTypeOK, Marginalize
  <2>2. PICK merged : merged = {t \in terms : t.scope \cap R # {}}
    OBVIOUS
  <2>3. PICK scope : scope = (UNION {t.scope : t \in merged}) \ R
    OBVIOUS
  <2>4. PICK tells : tells = UNION {t.tells : t \in merged}
    OBVIOUS
  <2>5. PICK new : new = [scope |-> scope, tells |-> tells, prior |-> TRUE]
    OBVIOUS
  <2>6. /\ states' = states \ R
        /\ \/ terms' = (terms \ merged) \cup {new} /\ spent' = spent /\ scope # {}
           \/ terms' = terms \ merged /\ spent' = spent \cup tells
    BY <1>2, <2>2, <2>3, <2>4, <2>5 DEF Graph!Marginalize
  <2>7. merged \subseteq terms /\ scope \in SUBSET State /\ tells \in SUBSET Factor
    BY <2>1, <2>2, <2>3, <2>4 DEF Graph!Term
  <2>8. new \in Graph!Term /\ new.prior
    BY <2>5, <2>7 DEF Graph!Term
  <2>9. terms' \subseteq Graph!Term /\ spent' \subseteq Factor
    BY <2>1, <2>6, <2>7, <2>8
  <2>10. \A t \in terms' : ~t.prior => t \in terms
    BY <2>6, <2>8
  <2>11. OrdinaryOnce'
    BY <2>1, <2>10 DEF OrdinaryOnce
  <2>12. Factors' \subseteq Factors
    BY <2>10 DEF Factors
  <2>13. HandlesIssued'
    BY <1>2, <2>1, <2>6, <2>12 DEF HandlesIssued
  <2>14. value' \in [states' -> Version]
    BY <1>2, <2>1, <2>6
  <2>15. changes' \in Seq(ProblemChange) /\ JournalReplays' /\ BaseTyped' /\ JournalBegun'
    <3>1. CASE R = {}
      <4>1. merged = {}
        BY <2>2, <3>1
      <4>2. scope = {} /\ tells = {}
        BY <2>3, <2>4, <4>1
      <4>3. terms' = terms /\ states' = states
        BY <2>6, <3>1, <4>1, <4>2
      <4>4. Factors' = Factors
        BY <4>3 DEF Factors
      <4>5. value' = value
        BY <1>2, <2>1, <3>1
      <4>6. UNCHANGED <<changes, optimizing, base>>
        BY <1>2, <3>1
      <4> QED BY <2>1, <4>3, <4>4, <4>5, <4>6, UnrecordedFits
    <3>2. CASE R # {}
      <4>1. Void /\ base' = Snapshot' /\ optimizing' = FALSE /\ states' \in SUBSET State
        <5>1. optimizing' = FALSE
          BY <1>2, <2>1 DEF TInv, TrackedTypeOK
        <5> QED BY <1>2, <2>1, <2>6, <3>2, <5>1
      <4> QED BY <4>1, VoidFits
    <3> QED BY <3>1, <3>2
  <2>16. TrackedTypeOK'
    <3>1. optimizing' \in BOOLEAN
      BY <1>2 DEF TInv, TrackedTypeOK
    <3> QED BY <1>2, <2>1, <2>6, <2>9, <2>14, <2>15, <3>1 DEF TrackedTypeOK
  <2> QED BY <2>11, <2>13, <2>15, <2>16 DEF TInv
<1> QED BY <1>1, <1>2 DEF Marginalize

LEMMA InvalidateAllFits ==
  ASSUME TInv, InvalidateAll
  PROVE  TInv'
<1>1. Void /\ base' = Snapshot /\ UNCHANGED <<states, terms, spent, value, optimizing, issued>>
      /\ ~optimizing
  BY DEF InvalidateAll, graph
<1>2. Factors' = Factors
  BY <1>1 DEF Factors
<1>3. base' = Snapshot'
  BY <1>1, <1>2 DEF Snapshot
<1>4. optimizing' = FALSE
  BY <1>1 DEF TInv, TrackedTypeOK
<1>5. states' \in SUBSET State
  BY <1>1 DEF TInv, TrackedTypeOK
<1>6. changes' \in Seq(ProblemChange) /\ JournalReplays' /\ BaseTyped' /\ JournalBegun'
  BY <1>1, <1>3, <1>4, <1>5, VoidFits
<1>7. TrackedTypeOK' /\ HandlesIssued' /\ OrdinaryOnce'
  BY <1>1, <1>2, <1>6 DEF TInv, TrackedTypeOK, HandlesIssued, OrdinaryOnce
<1> QED BY <1>6, <1>7 DEF TInv

LEMMA BeginOptimizeFits ==
  ASSUME TInv, BeginOptimize
  PROVE  TInv'
<1>1. optimizing' = TRUE /\ changes' = <<Rebuild>>
      /\ UNCHANGED <<states, terms, spent, value, issued, base>>
  BY DEF BeginOptimize, Void, graph
<1>2. Factors' = Factors
  BY <1>1 DEF Factors
<1>3. changes' \in Seq(ProblemChange) /\ JournalBegun' /\ JournalReplays'
  BY <1>1 DEF JournalBegun, JournalReplays, ProblemChange
<1>4. BaseTyped' /\ HandlesIssued' /\ OrdinaryOnce'
  BY <1>1, <1>2 DEF TInv, BaseTyped, HandlesIssued, OrdinaryOnce
<1>5. TrackedTypeOK'
  BY <1>1, <1>3 DEF TInv, TrackedTypeOK
<1> QED BY <1>3, <1>4, <1>5 DEF TInv

LEMMA MoveEstimatesFits ==
  ASSUME TInv, MoveEstimates
  PROVE  TInv'
<1>1. /\ optimizing /\ value' \in [states -> Version]
      /\ UNCHANGED <<states, terms, spent, changes, optimizing, issued, base>>
  BY DEF MoveEstimates, graph
<1>2. Factors' = Factors
  BY <1>1 DEF Factors
<1>3. JournalReplays'
  BY <1>1 DEF JournalReplays
<1>4. BaseTyped' /\ JournalBegun' /\ HandlesIssued' /\ OrdinaryOnce'
  BY <1>1, <1>2 DEF TInv, BaseTyped, JournalBegun, HandlesIssued, OrdinaryOnce
<1>5. TrackedTypeOK'
  BY <1>1 DEF TInv, TrackedTypeOK
<1> QED BY <1>3, <1>4, <1>5 DEF TInv

LEMMA EndOptimizeFits ==
  ASSUME TInv, EndOptimize
  PROVE  TInv'
<1>1. /\ optimizing /\ optimizing' = FALSE /\ base' = Snapshot
      /\ UNCHANGED <<states, terms, spent, value, changes, issued>>
  BY DEF EndOptimize
<1>2. Factors' = Factors
  BY <1>1 DEF Factors
<1>3. base' = Snapshot'
  BY <1>1, <1>2 DEF Snapshot
<1>4. Void
  BY <1>1 DEF TInv, JournalBegun, Void
<1>5. states' \in SUBSET State
  BY <1>1 DEF TInv, TrackedTypeOK
<1>6. changes' \in Seq(ProblemChange) /\ JournalReplays' /\ BaseTyped' /\ JournalBegun'
  BY <1>1, <1>3, <1>4, <1>5, VoidFits
<1>7. TrackedTypeOK' /\ HandlesIssued' /\ OrdinaryOnce'
  BY <1>1, <1>2, <1>6 DEF TInv, TrackedTypeOK, HandlesIssued, OrdinaryOnce
<1> QED BY <1>6, <1>7 DEF TInv

LEMMA TrackedStutters ==
  ASSUME TInv, UNCHANGED trackedVars
  PROVE  TInv'
<1>1. UNCHANGED <<states, terms, spent, value, changes, optimizing, issued, base>>
  BY DEF trackedVars, graph
<1>2. Factors' = Factors
  BY <1>1 DEF Factors
<1>3. JournalReplays' /\ BaseTyped' /\ JournalBegun'
  BY <1>1, <1>2, UnrecordedFits
<1>4. TrackedTypeOK' /\ HandlesIssued' /\ OrdinaryOnce'
  BY <1>1, <1>2 DEF TInv, TrackedTypeOK, HandlesIssued, OrdinaryOnce
<1> QED BY <1>3, <1>4 DEF TInv

LEMMA TrackedStep == TInv /\ [TrackedNext]_trackedVars => TInv'
<1> SUFFICES ASSUME TInv, [TrackedNext]_trackedVars PROVE TInv'
  OBVIOUS
<1>1. CASE InvalidateAll
  BY <1>1, InvalidateAllFits
<1>2. CASE BeginOptimize
  BY <1>2, BeginOptimizeFits
<1>3. CASE MoveEstimates
  BY <1>3, MoveEstimatesFits
<1>4. CASE EndOptimize
  BY <1>4, EndOptimizeFits
<1>5. CASE \E s \in State, v \in Version : Add(s, v) \/ Set(s, v)
  BY <1>5, AddFits, SetFits
<1>6. CASE \E f \in Factor : RemoveFactor(f) \/ \E scope \in SUBSET State : AddFactor(f, scope)
  BY <1>6, RemoveFactorTracked, AddFactorTracked
<1>7. CASE \E R \in SUBSET State : Marginalize(R)
  BY <1>7, MarginalizeTracked
<1>8. CASE UNCHANGED trackedVars
  BY <1>8, TrackedStutters
<1> QED BY <1>1, <1>2, <1>3, <1>4, <1>5, <1>6, <1>7, <1>8 DEF TrackedNext

LEMMA TrackedStays == TrackedSpec => []TInv
BY TrackedStarts, TrackedStep, PTL DEF TrackedSpec

(* Whoever rebuilds at the order to rebuild and applies the entries that   *)
(* follow arrives at the problem as it is, after any number of successes,  *)
(* refusals and voids, for any states, factors and estimates.              *)
(* (JournalInvariant)                                                      *)
THEOREM JournalsReplay == TrackedSpec => []JournalInvariant
<1>1. TInv => JournalInvariant
  BY DEF TInv, JournalInvariant
<1> QED BY <1>1, TrackedStays, PTL

(* Estimates never move while the journal holds more than the order to     *)
(* rebuild.  (VoidedFirst)                                                 *)
THEOREM VoidsComeFirst == TrackedSpec => VoidedFirst
<1>1. TInv => (optimizing /\ value' # value => changes = <<Rebuild>>)
  BY DEF TInv, JournalBegun
<1> QED BY <1>1, TrackedStays, PTL DEF VoidedFirst, TrackedSpec

-----------------------------------------------------------------------------
(***************************************************************************)
(* Sequences of sequences, end to end.  FlattenSeq is recursive; what it   *)
(* computes is found prefix by prefix.                                     *)
(***************************************************************************)
JoinsPrefixes(f, T, s) ==
  /\ f \in [0..Len(s) -> Seq(T)]
  /\ f[0] = <<>>
  /\ \A i \in 1..Len(s) : f[i] = f[i - 1] \o s[i]

(* FlattenSeq goes over the prefixes of its sequence. *)
LEMMA FlattenIsPrefixwise ==
  ASSUME NEW T, NEW s \in Seq(Seq(T))
  PROVE  \E f : JoinsPrefixes(f, T, s) /\ FlattenSeq(s) = f[Len(s)]
<1>1. Len(s) \in Nat /\ <<>> \in Seq(T) /\ \A i \in 1..Len(s) : s[i] \in Seq(T)
  BY LenProperties, ElementOfSeq
<1> DEFINE h == [i \in Nat |-> [q \in Seq(T) |-> IF i \in 1..Len(s) THEN q \o s[i] ELSE q]]
<1>2. h \in [Nat -> [Seq(T) -> Seq(T)]]
  BY <1>1, ConcatProperties
<1>3. PICK f : Unfolds(f, Len(s), Seq(T), <<>>, h)
  <2> HIDE DEF h
  <2> QED BY <1>1, <1>2, RecursionExists
<1>4. JoinsPrefixes(f, T, s)
  <2>1. f \in [0..Len(s) -> Seq(T)] /\ f[0] = <<>> /\ \A i \in 1..Len(s) : f[i] = h[i][f[i - 1]]
    BY <1>3 DEF Unfolds
  <2>2. ASSUME NEW i \in 1..Len(s) PROVE f[i] = f[i - 1] \o s[i]
    <3>1. i - 1 \in 0..Len(s) /\ i \in Nat
      BY <1>1
    <3> QED BY <3>1, <2>1
  <2> QED BY <2>1, <2>2 DEF JoinsPrefixes
<1>5. CASE Len(s) = 0
  <2>1. s = <<>> /\ FlattenSeq(s) = s
    BY <1>5, EmptySeq DEF FlattenSeq
  <2> QED BY <1>4, <1>5, <2>1 DEF JoinsPrefixes
<1>6. CASE Len(s) # 0
  <2> DEFINE b == [i \in 1..Len(s) |-> f[i]]
             g == CHOOSE g : g = [i \in 1..Len(s) |-> IF i = 1 THEN s[i] ELSE g[i - 1] \o s[i]]
  <2>1. \A i \in 1..Len(s) : b[i] = IF i = 1 THEN s[i] ELSE b[i - 1] \o s[i]
    <3> SUFFICES ASSUME NEW i \in 1..Len(s)
                 PROVE  b[i] = IF i = 1 THEN s[i] ELSE b[i - 1] \o s[i]
      OBVIOUS
    <3>1. b[i] = f[i - 1] \o s[i] /\ s[i] \in Seq(T)
      BY <1>1, <1>4 DEF JoinsPrefixes
    <3>2. CASE i = 1
      <4>3. i - 1 = 0 /\ f[0] = <<>>
        BY <3>2, <1>4 DEF JoinsPrefixes
      <4>1. b[i] = <<>> \o s[i]
        BY ONLY <3>1, <4>3
      <4>2. <<>> \o s[i] = s[i]
        BY <3>1, ConcatEmptySeq
      <4> QED BY <3>2, <4>1, <4>2
    <3>3. CASE i # 1
      <4>1. i - 1 \in 1..Len(s)
        BY <3>3, <1>1
      <4> QED BY <3>1, <3>3, <4>1
    <3> QED BY <3>2, <3>3
  <2>2. b = [i \in 1..Len(s) |-> IF i = 1 THEN s[i] ELSE b[i - 1] \o s[i]]
    BY <2>1, Zenon
  <2> HIDE DEF b
  <2>3. g = [i \in 1..Len(s) |-> IF i = 1 THEN s[i] ELSE g[i - 1] \o s[i]]
    BY <2>2
  <2>4. FlattenSeq(s) = g[Len(s)]
    BY <1>6 DEF FlattenSeq
  <2> HIDE DEF g
  <2>5. \A i \in 1..Len(s) : g[i] = IF i = 1 THEN s[i] ELSE g[i - 1] \o s[i]
    BY <2>3, Zenon
  <2> DEFINE P == {m \in Nat : m \in 1..Len(s) => g[m] = b[m]}
  <2>6. 0 \in P
    OBVIOUS
  <2>7. ASSUME NEW m \in Nat, m \in P PROVE m + 1 \in P
    <3> SUFFICES ASSUME m + 1 \in 1..Len(s) PROVE g[m + 1] = b[m + 1]
      OBVIOUS
    <3>1. CASE m = 0
      BY <3>1, <2>1, <2>5
    <3>2. CASE m # 0
      <4>1. m \in 1..Len(s) /\ m + 1 - 1 = m /\ m + 1 # 1
        BY <3>2, <1>1
      <4>2. g[m] = b[m]
        BY <4>1, <2>7
      <4>3. g[m + 1] = g[m] \o s[m + 1] /\ b[m + 1] = b[m] \o s[m + 1]
        <5>1. PICK k \in 1..Len(s) : k = m + 1
          OBVIOUS
        <5>2. k # 1 /\ k - 1 = m
          BY <5>1, <4>1
        <5>3. /\ g[k] = IF k = 1 THEN s[k] ELSE g[k - 1] \o s[k]
              /\ b[k] = IF k = 1 THEN s[k] ELSE b[k - 1] \o s[k]
          BY ONLY <2>1, <2>5, k \in 1..Len(s)
        <5>4. g[k] = g[k - 1] \o s[k] /\ b[k] = b[k - 1] \o s[k]
          BY ONLY <5>2, <5>3
        <5> QED BY ONLY <5>1, <5>2, <5>4
      <4> QED BY <4>2, <4>3
    <3> QED BY <3>1, <3>2
  <2> HIDE DEF P
  <2>8. Len(s) \in P
    BY <1>1, <2>6, <2>7, SetInduction
  <2>9. Len(s) \in 1..Len(s)
    BY <1>1, <1>6
  <2>10. FlattenSeq(s) = f[Len(s)]
    BY <2>4, <2>8, <2>9 DEF P, b
  <2> QED BY <1>4, <2>10
<1> QED BY <1>5, <1>6

(* What is in a concatenation, and what of. *)
LEMMA ConcatToSet ==
  ASSUME NEW T, NEW q \in Seq(T), NEW t \in Seq(T)
  PROVE  q \o t \in Seq(T) /\ ToSet(q \o t) = ToSet(q) \cup ToSet(t)
<1>1. PICK r \in Seq(T) : r = q \o t
  BY ConcatProperties
<1>2. PICK m \in Nat, n \in Nat : m = Len(q) /\ n = Len(t)
  BY LenProperties
<1>3. /\ Len(r) = m + n
      /\ \A i \in 1..(m + n) : r[i] = IF i <= m THEN q[i] ELSE t[i - m]
  BY ONLY <1>1, <1>2, q \in Seq(T), t \in Seq(T), ConcatProperties
<1>4. DOMAIN r = 1..(m + n) /\ DOMAIN q = 1..m /\ DOMAIN t = 1..n
  BY <1>2, <1>3, LenProperties
<1>5. \A i \in 1..(m + n) : i <= m => i \in 1..m /\ r[i] = q[i]
  BY ONLY <1>2, <1>3
<1>6. \A i \in 1..(m + n) : ~(i <= m) => i - m \in 1..n /\ r[i] = t[i - m]
  BY ONLY <1>2, <1>3
<1>7. \A i \in 1..m : i \in 1..(m + n) /\ i <= m
  BY ONLY <1>2
<1>8. \A i \in 1..n : i + m \in 1..(m + n) /\ ~(i + m <= m) /\ i + m - m = i
  BY ONLY <1>2
<1>9. \A i \in 1..n : r[i + m] = t[i]
  BY ONLY <1>6, <1>8
<1>10. \A x : /\ x \in ToSet(r) <=> \E i \in 1..(m + n) : r[i] = x
              /\ x \in ToSet(q) <=> \E i \in 1..m : q[i] = x
              /\ x \in ToSet(t) <=> \E i \in 1..n : t[i] = x
  BY <1>4 DEF ToSet
<1>11. ASSUME NEW x \in ToSet(r) PROVE x \in ToSet(q) \cup ToSet(t)
  BY ONLY <1>11, <1>5, <1>6, <1>10
<1>12. ASSUME NEW x \in ToSet(q) PROVE x \in ToSet(r)
  BY ONLY <1>12, <1>5, <1>7, <1>10
<1>13. ASSUME NEW x \in ToSet(t) PROVE x \in ToSet(r)
  BY ONLY <1>13, <1>8, <1>9, <1>10
<1>14. ToSet(r) = ToSet(q) \cup ToSet(t)
  BY ONLY <1>11, <1>12, <1>13
<1> QED BY ONLY <1>1, <1>14

LEMMA FlattenToSet ==
  ASSUME NEW T, NEW s \in Seq(Seq(T))
  PROVE  /\ FlattenSeq(s) \in Seq(T)
         /\ ToSet(FlattenSeq(s)) = UNION {ToSet(s[i]) : i \in 1..Len(s)}
<1>1. PICK f : JoinsPrefixes(f, T, s) /\ FlattenSeq(s) = f[Len(s)]
  BY FlattenIsPrefixwise
<1>2. /\ f \in [0..Len(s) -> Seq(T)] /\ f[0] = <<>>
      /\ \A i \in 1..Len(s) : f[i] = f[i - 1] \o s[i]
      /\ Len(s) \in Nat /\ \A i \in 1..Len(s) : s[i] \in Seq(T)
  BY <1>1, LenProperties, ElementOfSeq DEF JoinsPrefixes
<1> DEFINE P == {m \in Nat : m <= Len(s) => ToSet(f[m]) = UNION {ToSet(s[i]) : i \in 1..m}}
<1>3. 0 \in P
  <2>1. ToSet(f[0]) = {}
    BY <1>2, EmptySeq DEF ToSet
  <2>2. \A i : i \notin 1..0
    OBVIOUS
  <2> QED BY <2>1, <2>2
<1>4. ASSUME NEW m \in Nat, m \in P PROVE m + 1 \in P
  <2> SUFFICES ASSUME m + 1 <= Len(s)
               PROVE  ToSet(f[m + 1]) = UNION {ToSet(s[i]) : i \in 1..(m + 1)}
    OBVIOUS
  <2>1. PICK n \in 1..Len(s) : n = m + 1
    BY <1>2
  <2>2. n - 1 = m /\ m \in 0..Len(s) /\ m <= Len(s)
    BY <2>1, <1>2
  <2>3. f[n] = f[m] \o s[n] /\ f[m] \in Seq(T) /\ s[n] \in Seq(T)
    BY ONLY <1>2, <2>2, n \in 1..Len(s)
  <2>4. ToSet(f[n]) = ToSet(f[m]) \cup ToSet(s[n])
    BY ONLY <2>3, ConcatToSet
  <2>5. ToSet(f[m]) = UNION {ToSet(s[i]) : i \in 1..m}
    BY ONLY <1>4, <2>2
  <2>6. \A i : i \in 1..n <=> i \in 1..m \/ i = n
    BY <2>1
  <2>7. ToSet(f[n]) = UNION {ToSet(s[i]) : i \in 1..n}
    BY ONLY <2>4, <2>5, <2>6
  <2> QED BY ONLY <2>1, <2>7
<1>5. Len(s) \in P
  <2> HIDE DEF P
  <2> QED BY <1>2, <1>3, <1>4, SetInduction
<1>6. ToSet(f[Len(s)]) = UNION {ToSet(s[i]) : i \in 1..Len(s)} /\ f[Len(s)] \in Seq(T)
  BY <1>2, <1>5
<1> QED BY ONLY <1>1, <1>6

(* r is q with g applied to each element. *)
Mapped(q, g, r) == /\ Len(r) = Len(q)
                   /\ \A i \in 1..Len(q) : r[i] = g[q[i]]

LEMMA MappedJoin ==
  ASSUME NEW T, NEW U, NEW g, NEW q1 \in Seq(T), NEW q2 \in Seq(T),
         NEW r1 \in Seq(U), NEW r2 \in Seq(U), Mapped(q1, g, r1), Mapped(q2, g, r2)
  PROVE  Mapped(q1 \o q2, g, r1 \o r2)
<1>1. PICK m \in Nat, n \in Nat : m = Len(q1) /\ n = Len(q2)
  BY LenProperties
<1>2. m = Len(r1) /\ n = Len(r2)
  BY <1>1 DEF Mapped
<1>3. PICK q : q = q1 \o q2
  OBVIOUS
<1>4. PICK r : r = r1 \o r2
  OBVIOUS
<1>5. Len(q) = m + n /\ \A i \in 1..(m + n) : q[i] = IF i <= m THEN q1[i] ELSE q2[i - m]
  BY ONLY <1>1, <1>3, q1 \in Seq(T), q2 \in Seq(T), ConcatProperties
<1>6. Len(r) = m + n /\ \A i \in 1..(m + n) : r[i] = IF i <= m THEN r1[i] ELSE r2[i - m]
  BY ONLY <1>2, <1>4, r1 \in Seq(U), r2 \in Seq(U), ConcatProperties
<1>7. ASSUME NEW i \in 1..(m + n) PROVE r[i] = g[q[i]]
  <2>1. CASE i <= m
    <3>1. i \in 1..m
      BY <2>1
    <3>2. r1[i] = g[q1[i]]
      BY ONLY <3>1, <1>1, Mapped(q1, g, r1) DEF Mapped
    <3> QED BY ONLY <2>1, <3>2, <1>5, <1>6, i \in 1..(m + n)
  <2>2. CASE ~(i <= m)
    <3>1. i - m \in 1..n
      BY <2>2
    <3>2. r2[i - m] = g[q2[i - m]]
      BY ONLY <3>1, <1>1, Mapped(q2, g, r2) DEF Mapped
    <3> QED BY ONLY <2>2, <3>2, <1>5, <1>6, i \in 1..(m + n)
  <2> QED BY <2>1, <2>2
<1>8. Mapped(q, g, r)
  BY ONLY <1>5, <1>6, <1>7 DEF Mapped
<1> QED BY ONLY <1>3, <1>4, <1>8

(* What is mapped piece by piece is mapped as a whole. *)
LEMMA FlattenMapped ==
  ASSUME NEW T, NEW U, NEW g, NEW s \in Seq(Seq(T)), NEW t \in Seq(Seq(U)),
         Len(t) = Len(s), \A i \in 1..Len(s) : Mapped(s[i], g, t[i])
  PROVE  Mapped(FlattenSeq(s), g, FlattenSeq(t))
<1>1. PICK f : JoinsPrefixes(f, T, s) /\ FlattenSeq(s) = f[Len(s)]
  BY FlattenIsPrefixwise
<1>2. PICK h : JoinsPrefixes(h, U, t) /\ FlattenSeq(t) = h[Len(t)]
  BY FlattenIsPrefixwise
<1>3. PICK n \in Nat : n = Len(s) /\ n = Len(t)
  BY LenProperties
<1>4. /\ f \in [0..n -> Seq(T)] /\ f[0] = <<>>
      /\ \A i \in 1..n : f[i] = f[i - 1] \o s[i]
      /\ \A i \in 1..n : s[i] \in Seq(T)
  BY <1>1, <1>3, ElementOfSeq DEF JoinsPrefixes
<1>5. /\ h \in [0..n -> Seq(U)] /\ h[0] = <<>>
      /\ \A i \in 1..n : h[i] = h[i - 1] \o t[i]
      /\ \A i \in 1..n : t[i] \in Seq(U)
  BY <1>2, <1>3, ElementOfSeq DEF JoinsPrefixes
<1> DEFINE P == {m \in Nat : m <= n => Mapped(f[m], g, h[m])}
<1>6. 0 \in P
  <2>1. Len(<<>>) = 0
    BY EmptySeq
  <2>2. \A i : i \notin 1..0
    OBVIOUS
  <2> QED BY <2>1, <2>2, <1>4, <1>5 DEF Mapped
<1>7. ASSUME NEW m \in Nat, m \in P PROVE m + 1 \in P
  <2> SUFFICES ASSUME m + 1 <= n PROVE Mapped(f[m + 1], g, h[m + 1])
    OBVIOUS
  <2>1. PICK k \in 1..n : k = m + 1
    OBVIOUS
  <2>2. k - 1 = m /\ m \in 0..n /\ m <= n
    BY <2>1
  <2>3. f[k] = f[m] \o s[k] /\ f[m] \in Seq(T) /\ s[k] \in Seq(T)
    BY ONLY <1>4, <2>2, k \in 1..n
  <2>4. h[k] = h[m] \o t[k] /\ h[m] \in Seq(U) /\ t[k] \in Seq(U)
    BY ONLY <1>5, <2>2, k \in 1..n
  <2>5. Mapped(f[m], g, h[m])
    BY ONLY <1>7, <2>2
  <2>6. Mapped(s[k], g, t[k])
    BY <1>3
  <2>7. Mapped(f[m] \o s[k], g, h[m] \o t[k])
    BY ONLY <2>3, <2>4, <2>5, <2>6, MappedJoin
  <2> QED BY ONLY <2>1, <2>3, <2>4, <2>7
<1>8. n \in P
  <2> HIDE DEF P
  <2> QED BY <1>6, <1>7, SetInduction
<1> QED BY <1>1, <1>2, <1>3, <1>8

-----------------------------------------------------------------------------
(* The columns of a layout: each block begins where the last one ends. *)
Columns(at, blocks) ==
  /\ at \in [1..(Len(blocks) + 1) -> Nat]
  /\ at[1] = 0
  /\ \A i \in 1..Len(blocks) : at[i + 1] = at[i] + Coordinates(blocks[i])

(* A state has some columns. *)
LEMMA WidthOfState ==
  ASSUME NEW b \in Block
  PROVE  Coordinates(b) \in Nat \ {0}
<1>1. Width \in Seq(Nat \ {0})
  BY WidthAssumption
<1>2. Home[b].pool \in DOMAIN Width
  BY HomeAssumption
<1>3. Home[b].pool \in 1..Len(Width)
  BY <1>1, <1>2, LenProperties
<1> QED BY <1>1, <1>3, ElementOfSeq DEF Coordinates

(* Offsets is recursive on the blocks; this is what it computes. *)
LEMMA OffsetsAreColumns ==
  ASSUME NEW blocks \in Seq(Block)
  PROVE  Columns(Offsets(blocks), blocks)
<1>1. PICK n \in Nat : n = Len(blocks)
  BY LenProperties
<1> DEFINE w == [i \in Nat |-> IF i \in 1..n THEN Coordinates(blocks[i]) ELSE 0]
           h == [i \in Nat |-> [a \in Nat |-> a + w[i]]]
<1>2. \A i \in 1..n : Coordinates(blocks[i]) \in Nat
  BY <1>1, ElementOfSeq, WidthOfState
<1>3. w \in [Nat -> Nat] /\ \A i \in 1..n : w[i] = Coordinates(blocks[i])
  BY <1>2
<1> HIDE DEF w
<1>4. h \in [Nat -> [Nat -> Nat]]
  <2>1. \A i \in Nat : w[i] \in Nat
    BY <1>3
  <2>2. \A i \in Nat : \A a \in Nat : a + w[i] \in Nat
    BY <2>1
  <2> QED BY <2>2
<1>5. PICK f : Unfolds(f, n, Nat, 0, h)
  <2> HIDE DEF h
  <2> QED BY <1>4, RecursionExists
<1>6. /\ f \in [0..n -> Nat] /\ f[0] = 0
      /\ \A i \in 1..n : f[i] = f[i - 1] + w[i]
  <2>1. f \in [0..n -> Nat] /\ f[0] = 0 /\ \A i \in 1..n : f[i] = h[i][f[i - 1]]
    BY <1>5 DEF Unfolds
  <2>2. \A i \in 1..n : f[i - 1] \in Nat
    BY <2>1
  <2>3. \A i \in 1..n : h[i][f[i - 1]] = f[i - 1] + w[i]
    BY <2>2
  <2> QED BY ONLY <2>1, <2>2, <2>3
<1> HIDE DEF h
<1> DEFINE b == [i \in 1..(n + 1) |-> f[i - 1]]
           at == CHOOSE at : at = [i \in 1..(n + 1) |->
                   IF i = 1 THEN 0 ELSE at[i - 1] + Coordinates(blocks[i - 1])]
<1>7. b = [i \in 1..(n + 1) |->
             IF i = 1 THEN 0 ELSE b[i - 1] + Coordinates(blocks[i - 1])]
  <2>1. ASSUME NEW i \in 1..(n + 1)
        PROVE  b[i] = IF i = 1 THEN 0 ELSE b[i - 1] + Coordinates(blocks[i - 1])
    <3>1. CASE i = 1
      BY <3>1, <1>6
    <3>2. CASE i # 1
      <4>1. PICK j \in 1..n : j = i - 1
        BY <3>2
      <4>2. f[j] = f[j - 1] + w[j] /\ w[j] = Coordinates(blocks[j])
        BY ONLY <1>3, <1>6, j \in 1..n
      <4>3. b[i] = f[j] /\ b[j] = f[j - 1]
        BY <4>1
      <4> QED BY ONLY <3>2, <4>1, <4>2, <4>3
    <3> QED BY <3>1, <3>2
  <2> QED BY <2>1, Zenon
<1>8. at = [i \in 1..(n + 1) |->
              IF i = 1 THEN 0 ELSE at[i - 1] + Coordinates(blocks[i - 1])]
  <2> HIDE DEF b
  <2> QED BY <1>7
<1>9. Offsets(blocks) = at
  BY <1>1 DEF Offsets
<1> HIDE DEF at
<1>10. \A i \in 1..(n + 1) :
         at[i] = IF i = 1 THEN 0 ELSE at[i - 1] + Coordinates(blocks[i - 1])
  BY ONLY <1>8, Zenon
<1>11. \A i \in 1..n : at[i + 1] = at[i] + Coordinates(blocks[i])
  <2> SUFFICES ASSUME NEW i \in 1..n PROVE at[i + 1] = at[i] + Coordinates(blocks[i])
    OBVIOUS
  <2>1. i + 1 \in 1..(n + 1) /\ i + 1 # 1 /\ (i + 1) - 1 = i
    BY <1>1
  <2> QED BY ONLY <2>1, <1>10
<1> DEFINE P == {m \in Nat : m <= n => at[m + 1] \in Nat}
<1>12. 0 \in P
  <2>1. 0 + 1 = 1 /\ 1 \in 1..(n + 1)
    BY <1>1
  <2>2. at[0 + 1] = 0
    BY <1>10, <2>1
  <2> QED BY <2>2
<1>13. ASSUME NEW m \in Nat, m \in P PROVE m + 1 \in P
  <2> SUFFICES ASSUME m + 1 <= n PROVE at[(m + 1) + 1] \in Nat
    OBVIOUS
  <2>1. PICK i \in 1..n : i = m + 1
    BY <1>1
  <2>2. at[i] \in Nat
    BY <1>13, <2>1, <1>1
  <2>3. at[i + 1] \in Nat
    BY <2>2, <1>11, <1>2
  <2> QED BY <2>1, <2>3
<1>14. Nat \subseteq P
  <2> HIDE DEF P
  <2> QED BY <1>12, <1>13, SetInduction
<1>15. \A i \in 1..(n + 1) : at[i] \in Nat
  <2> SUFFICES ASSUME NEW i \in 1..(n + 1) PROVE at[i] \in Nat
    OBVIOUS
  <2>1. PICK m \in Nat : m <= n /\ i = m + 1
    <3>1. i - 1 \in Nat /\ i - 1 <= n /\ i = (i - 1) + 1
      BY <1>1
    <3> QED BY <3>1
  <2> QED BY <2>1, <1>14
<1>16. at \in [1..(n + 1) -> Nat]
  BY <1>8, <1>15
<1>17. at[1] = 0
  BY <1>10, <1>1
<1> QED BY <1>1, <1>9, <1>11, <1>16, <1>17 DEF Columns

(* Later blocks begin at later columns. *)
LEMMA ColumnsAscend ==
  ASSUME NEW blocks \in Seq(Block), NEW at, Columns(at, blocks),
         NEW i \in 1..(Len(blocks) + 1), NEW j \in 1..(Len(blocks) + 1), i <= j
  PROVE  at[i] <= at[j]
<1>1. PICK n \in Nat : n = Len(blocks)
  BY LenProperties
<1>2. /\ \A k \in 1..(n + 1) : at[k] \in Nat
      /\ \A k \in 1..n : at[k + 1] = at[k] + Coordinates(blocks[k])
      /\ \A k \in 1..n : Coordinates(blocks[k]) \in Nat
  BY <1>1, ElementOfSeq, WidthOfState DEF Columns
<1> DEFINE P == {m \in Nat : i + m <= n + 1 => at[i] <= at[i + m]}
<1>3. 0 \in P
  BY <1>1, <1>2
<1>4. ASSUME NEW m \in Nat, m \in P PROVE m + 1 \in P
  <2> SUFFICES ASSUME i + (m + 1) <= n + 1 PROVE at[i] <= at[i + (m + 1)]
    OBVIOUS
  <2>1. PICK k \in 1..n : k = i + m
    BY <1>1
  <2>2. at[i] <= at[k] /\ i + (m + 1) = k + 1
    BY <1>4, <2>1, <1>1
  <2>3. at[k] <= at[k + 1] /\ at[i] \in Nat /\ at[k] \in Nat /\ at[k + 1] \in Nat
    <3>1. i \in 1..(n + 1) /\ k \in 1..(n + 1) /\ k + 1 \in 1..(n + 1) /\ k \in 1..n
      BY <1>1
    <3>2. \A l \in 1..(n + 1) : at[l] \in Nat
      BY <1>1, <1>2
    <3>3. at[k + 1] = at[k] + Coordinates(blocks[k]) /\ Coordinates(blocks[k]) \in Nat
      BY ONLY <1>2, <3>1
    <3>4. at[i] \in Nat /\ at[k] \in Nat /\ at[k + 1] \in Nat
      BY ONLY <3>1, <3>2
    <3> QED BY ONLY <3>3, <3>4
  <2> QED BY ONLY <2>2, <2>3
<1>5. Nat \subseteq P
  <2> HIDE DEF P
  <2> QED BY <1>3, <1>4, SetInduction
<1>6. j - i \in Nat /\ i + (j - i) = j /\ j <= n + 1
  BY <1>1
<1> QED BY <1>5, <1>6

(* The columns that a block has belong to it, and to no other one. *)
LEMMA ColumnBelongs ==
  ASSUME NEW layout \in Seq(Block), NEW i \in 1..Len(layout),
         NEW k \in Nat, k < Coordinates(layout[i])
  PROVE  /\ Offsets(layout)[i] + k \in Nat
         /\ NameAt(layout, Offsets(layout)[i] + k) = <<layout[i], k>>
<1>1. PICK at : at = Offsets(layout) /\ Columns(at, layout)
  BY OffsetsAreColumns
<1>2. PICK n \in Nat : n = Len(layout) /\ DOMAIN layout = 1..n
  BY LenProperties
<1>3. /\ \A j \in 1..(n + 1) : at[j] \in Nat
      /\ \A j \in 1..n : at[j + 1] = at[j] + Coordinates(layout[j])
      /\ \A j \in 1..n : Coordinates(layout[j]) \in Nat
  BY <1>1, <1>2, ElementOfSeq, WidthOfState DEF Columns
<1>4. i \in 1..n /\ i \in 1..(n + 1) /\ i + 1 \in 1..(n + 1)
  BY <1>2
<1>5. /\ at[i] \in Nat /\ at[i + 1] \in Nat
      /\ at[i + 1] = at[i] + Coordinates(layout[i]) /\ Coordinates(layout[i]) \in Nat
  BY ONLY <1>3, <1>4
<1>6. PICK c \in Nat : c = at[i] + k
  BY <1>5
<1>7. at[i] <= c /\ c < at[i + 1]
  BY ONLY <1>5, <1>6, k \in Nat, k < Coordinates(layout[i])
<1>8. ASSUME NEW j \in 1..n, at[j] <= c, c < at[j + 1] PROVE j = i
  <2>1. j \in 1..(n + 1) /\ j + 1 \in 1..(n + 1)
    BY <1>2
  <2>2. at[j] \in Nat /\ at[j + 1] \in Nat
    BY ONLY <2>1, <1>3
  <2>3. ~(j < i)
    <3> SUFFICES ASSUME j < i PROVE FALSE
      OBVIOUS
    <3>1. j + 1 <= i
      OBVIOUS
    <3>2. at[j + 1] <= at[i]
      BY ONLY <3>1, <2>1, <1>1, <1>2, <1>4, layout \in Seq(Block), ColumnsAscend
    <3> QED BY ONLY <3>2, <2>2, <1>5, <1>7, <1>8
  <2>4. ~(i < j)
    <3> SUFFICES ASSUME i < j PROVE FALSE
      OBVIOUS
    <3>1. i + 1 <= j
      BY <1>2
    <3>2. at[i + 1] <= at[j]
      BY ONLY <3>1, <2>1, <1>1, <1>2, <1>4, layout \in Seq(Block), ColumnsAscend
    <3> QED BY ONLY <3>2, <2>2, <1>5, <1>7, <1>8
  <2> QED BY ONLY <2>3, <2>4, <1>2, <1>4, j \in 1..n
<1>9. (CHOOSE j \in DOMAIN layout : at[j] <= c /\ c < at[j + 1]) = i
  BY ONLY <1>2, <1>4, <1>7, <1>8
<1>10. c - at[i] = k
  BY ONLY <1>5, <1>6, k \in Nat
<1>11. NameAt(layout, c) = <<layout[i], k>>
  BY ONLY <1>1, <1>9, <1>10 DEF NameAt
<1> QED BY ONLY <1>1, <1>6, <1>11

(* The columns of a request are named as the request is. *)
LEMMA ColumnsNamed ==
  ASSUME NEW layout \in Seq(Block), NEW request \in Seq(Block),
         ToSet(request) \subseteq ToSet(layout)
  PROVE  /\ ColumnsOf(layout, request) \in Seq(Nat)
         /\ Named(request) = [c \in DOMAIN ColumnsOf(layout, request) |->
                                NameAt(layout, ColumnsOf(layout, request)[c])]
<1> DEFINE Place(b) == CHOOSE j \in DOMAIN layout : layout[j] = b
           g == [c \in Nat |-> NameAt(layout, c)]
           U == {NameAt(layout, c) : c \in Nat}
<1>1. PICK n \in Nat : n = Len(request) /\ DOMAIN request = 1..n
  BY LenProperties
<1>2. PICK s : s = [i \in 1..n |-> [k \in 1..Coordinates(request[i]) |->
                                      Offsets(layout)[Place(request[i])] + k - 1]]
  OBVIOUS
<1>3. PICK t : t = [i \in 1..n |-> [k \in 1..Coordinates(request[i]) |-> <<request[i], k - 1>>]]
  OBVIOUS
<1>4. ColumnsOf(layout, request) = FlattenSeq(s)
  BY <1>1, <1>2 DEF ColumnsOf
<1>5. Named(request) = FlattenSeq(t)
  BY <1>1, <1>3 DEF Named
<1>6. ASSUME NEW i \in 1..n
      PROVE  s[i] \in Seq(Nat) /\ t[i] \in Seq(U) /\ Mapped(s[i], g, t[i])
  <2>1. PICK b \in Block : b = request[i]
    BY <1>1, ElementOfSeq
  <2>2. PICK j \in 1..Len(layout) : j = Place(b) /\ layout[j] = b
    <3>1. b \in ToSet(request)
      BY <1>1, <2>1 DEF ToSet
    <3>2. \E j \in DOMAIN layout : layout[j] = b
      BY <3>1 DEF ToSet
    <3>3. DOMAIN layout = 1..Len(layout)
      BY LenProperties
    <3> QED BY <3>2, <3>3
  <2>3. PICK w \in Nat : w = Coordinates(b)
    BY WidthOfState
  <2>4. PICK o : o = Offsets(layout)[j]
    OBVIOUS
  <2>5. ASSUME NEW k \in 1..w
        PROVE  o + k - 1 \in Nat /\ NameAt(layout, o + k - 1) = <<b, k - 1>>
    <3>1. PICK l \in Nat : l = k - 1 /\ l < w
      OBVIOUS
    <3>2. o \in Nat
      <4>1. j \in 1..(Len(layout) + 1) /\ Columns(Offsets(layout), layout)
        BY OffsetsAreColumns, LenProperties
      <4> QED BY <4>1, <2>4 DEF Columns
    <3>3. o + k - 1 = o + l
      BY <3>1, <3>2
    <3>4. o + l \in Nat /\ NameAt(layout, o + l) = <<b, l>>
      BY <3>1, <2>2, <2>3, <2>4, ColumnBelongs
    <3> QED BY ONLY <3>1, <3>3, <3>4
  <2>6. s[i] = [k \in 1..w |-> o + k - 1]
    BY ONLY <1>2, <2>1, <2>2, <2>3, <2>4, i \in 1..n
  <2>7. t[i] = [k \in 1..w |-> <<b, k - 1>>]
    BY ONLY <1>3, <2>1, <2>3, i \in 1..n
  <2>8. \A k \in 1..w : s[i][k] = o + k - 1 /\ t[i][k] = <<b, k - 1>>
    BY ONLY <2>6, <2>7
  <2>9. \A k \in 1..w : s[i][k] \in Nat /\ t[i][k] = g[s[i][k]] /\ t[i][k] \in U
    BY <2>5, <2>8
  <2> HIDE DEF g, U
  <2>10. s[i] \in [1..w -> Nat] /\ t[i] \in [1..w -> U]
    BY ONLY <2>6, <2>7, <2>9, <2>8
  <2>11. s[i] \in Seq(Nat) /\ t[i] \in Seq(U)
    BY ONLY <2>10, w \in Nat, SeqDef
  <2>12. Len(s[i]) = w /\ Len(t[i]) = w
    BY ONLY <2>10, <2>11, w \in Nat
  <2> QED BY ONLY <2>9, <2>11, <2>12 DEF Mapped
<1>7. s \in Seq(Seq(Nat)) /\ t \in Seq(Seq(U)) /\ Len(s) = n /\ Len(t) = n
  <2> HIDE DEF g, U, Place
  <2>1. s \in [1..n -> Seq(Nat)] /\ t \in [1..n -> Seq(U)]
    <3>1. DOMAIN s = 1..n /\ DOMAIN t = 1..n
      BY <1>2, <1>3
    <3>2. s = [i \in 1..n |-> s[i]] /\ t = [i \in 1..n |-> t[i]]
      BY <1>2, <1>3, <3>1
    <3> QED BY ONLY <1>6, <3>2
  <2>2. s \in Seq(Seq(Nat)) /\ t \in Seq(Seq(U))
    BY ONLY <2>1, SeqDef, n \in Nat
  <2> QED BY ONLY <2>1, <2>2, n \in Nat
<1>8. PICK q : q = FlattenSeq(s) /\ q \in Seq(Nat)
  BY <1>7, FlattenToSet
<1>9. PICK r : r = FlattenSeq(t) /\ r \in Seq(U)
  <2> HIDE DEF U
  <2> QED BY <1>7, FlattenToSet
<1>10. Mapped(q, g, r)
  <2> HIDE DEF g, U
  <2>1. \A i \in 1..Len(s) : Mapped(s[i], g, t[i])
    BY <1>6, <1>7
  <2>2. Mapped(FlattenSeq(s), g, FlattenSeq(t))
    BY ONLY <2>1, <1>7, FlattenMapped
  <2> QED BY ONLY <2>2, <1>8, <1>9
<1>11. r = [c \in DOMAIN q |-> NameAt(layout, q[c])]
  <2>1. DOMAIN q = 1..Len(q) /\ DOMAIN r = 1..Len(r) /\ \A c \in 1..Len(q) : q[c] \in Nat
    <3> HIDE DEF U
    <3> QED BY <1>8, <1>9, LenProperties, ElementOfSeq
  <2>2. Len(r) = Len(q) /\ \A c \in 1..Len(q) : r[c] = NameAt(layout, q[c])
    BY <1>10, <2>1 DEF Mapped
  <2>3. r = [c \in DOMAIN r |-> r[c]]
    <3> HIDE DEF U
    <3> QED BY <1>9, LenProperties
  <2> QED BY ONLY <2>1, <2>2, <2>3
<1> QED BY ONLY <1>4, <1>5, <1>8, <1>9, <1>11

-----------------------------------------------------------------------------
(***************************************************************************)
(* The invariant.                                                          *)
(***************************************************************************)
Models == {NoModel} \cup [problem : Problem, layout : Seq(Block), version : Nat]

Workspaces == [layout : Seq(Block), current : BOOLEAN, model : Models]

Matrices == {NoMatrix} \cup [columns : Seq(Nat), from : Models, asked : Seq(Block)]

Selections == [columns : Seq(Nat), tolerance : Tolerance \cup {0}]

Calls == {Idle} \cup [phase : {"prepare", "optimize", "model", "select", "compute"},
                      problem : Problem, by : Method \cup {Query},
                      request : Seq(Block), wants : BOOLEAN]

QueryTypes == /\ pools \in [Problem -> [DOMAIN Width -> Seq(Block)]]
              /\ version \in [Problem -> Nat]
              /\ own \in [Problem -> Workspaces] /\ shared \in [Method -> Workspaces]
              /\ selected \in [Problem -> Selections]
              /\ call \in Calls
              /\ refused \in {"no", "before"}
              /\ matrix \in [Problem -> Matrices]

(* A pool holds the keys that name it. *)
AtHome == \A p \in Problem, f \in DOMAIN Width : \A b \in ToSet(pools[p][f]) :
            Home[b] = [problem |-> p, pool |-> f]

(* What MatrixNamesItsBlocks says of one problem. *)
MatrixFits(p) ==
  matrix[p] # NoMatrix =>
    /\ matrix[p].from # NoModel
    /\ matrix[p].from.problem = p /\ matrix[p].from.version = version[p]
    /\ matrix[p].from.layout = LayoutOf(p)
    /\ Named(matrix[p].asked) = [c \in DOMAIN matrix[p].columns |->
                                   NameAt(matrix[p].from.layout, matrix[p].columns[c])]

(* A call has been let through, and holds the problem.                     *)
CallFits == call.phase # "idle" => /\ matrix[call.problem] = NoMatrix
                                   /\ refused = "no"
                                   /\ Legitimate(call.problem, call.request)

(* The model of a problem as it is. *)
ModelOf(p) == [problem |-> p, layout |-> LayoutOf(p), version |-> version[p]]

(* Once prepared, the workspace is laid out as the problem is, and what is *)
(* marked as current is: whatever problem the workspace has been used for  *)
(* before.                                                                 *)
WorkspaceFits == call.phase \in {"optimize", "model", "select", "compute"} =>
                   /\ Here.layout = LayoutOf(call.problem)
                   /\ Here.current => Here.model = ModelOf(call.problem)

(* What the phases of a call have done when the next one begins; queries   *)
(* select before they linearize, optimizations after.                      *)
PhaseFits ==
  /\ call.phase = "optimize" => call.by # Query
  /\ call.phase = "compute" \/ (call.phase = "select" /\ call.by # Query) => Here.current
  /\ call.phase = "compute" \/ (call.phase = "model" /\ call.by = Query) =>
       selected[call.problem].columns = ColumnsOf(LayoutOf(call.problem), call.request)

QInv == /\ QueryTypes /\ AtHome /\ MatrixNamesItsBlocks
        /\ CallFits /\ WorkspaceFits /\ PhaseFits

LEMMA MatricesFit == MatrixNamesItsBlocks <=> \A p \in Problem : MatrixFits(p)
BY DEF MatrixNamesItsBlocks, MatrixFits

(* A set of numbers that is not empty has a least one. *)
LEMMA LeastExists ==
  ASSUME NEW S, S \subseteq Nat, S # {}
  PROVE  Min(S) \in S
<1> DEFINE M == {m \in Nat : \A y \in S : m <= y}
<1>1. \E x \in S : \A y \in S : x <= y
  <2> SUFFICES ASSUME ~ \E x \in S : \A y \in S : x <= y PROVE FALSE
    OBVIOUS
  <2>1. 0 \in M
    OBVIOUS
  <2>2. ASSUME NEW m \in Nat, m \in M PROVE m + 1 \in M
    <3>1. m \notin S
      BY <2>2
    <3>2. \A y \in S : m <= y /\ m # y /\ y \in Nat
      BY <2>2, <3>1
    <3>3. \A y \in S : m + 1 <= y
      BY <3>2
    <3> QED BY <3>3
  <2> HIDE DEF M
  <2>3. Nat \subseteq M
    BY <2>1, <2>2, SetInduction
  <2>4. PICK y \in S : TRUE
    OBVIOUS
  <2>5. y \in Nat /\ y + 1 \in M
    BY <2>3, <2>4
  <2> QED BY <2>5, <2>4 DEF M
<1> HIDE DEF M
<1> QED BY <1>1 DEF Min

(* The layout of a problem names its live states. *)
LEMMA LayoutIsLive ==
  ASSUME QueryTypes, NEW p \in Problem
  PROVE  LayoutOf(p) \in Seq(Block) /\ ToSet(LayoutOf(p)) = Live(p)
<1>1. PICK n \in Nat : n = Len(Width) /\ DOMAIN Width = 1..n
  BY WidthAssumption, LenProperties
<1>2. PICK s : s = pools[p]
  OBVIOUS
<1>3. s \in [1..n -> Seq(Block)]
  BY <1>1, <1>2 DEF QueryTypes
<1>4. s \in Seq(Seq(Block)) /\ Len(s) = n
  BY ONLY <1>3, n \in Nat, SeqDef
<1>5. FlattenSeq(s) \in Seq(Block) /\ ToSet(FlattenSeq(s)) = UNION {ToSet(s[i]) : i \in 1..Len(s)}
  BY <1>4, FlattenToSet
<1> QED BY <1>1, <1>2, <1>4, <1>5 DEF LayoutOf, Live

(* A live state resolves, and nothing else does. *)
LEMMA LiveResolves ==
  ASSUME AtHome, NEW p \in Problem, NEW b
  PROVE  KeyStatus(p, b) = "ok" <=> b \in Live(p)
<1>1. ASSUME b \in Live(p) PROVE Home[b].problem = p
  <2>1. PICK f \in DOMAIN Width : b \in ToSet(pools[p][f])
    BY <1>1 DEF Live
  <2>2. Home[b] = [problem |-> p, pool |-> f]
    BY <2>1 DEF AtHome
  <2> QED BY <2>2
<1> QED BY <1>1 DEF KeyStatus

(* A request that is let through is legitimate, and one that is legitimate *)
(* is let through.                                                         *)
LEMMA VerdictIsExact ==
  ASSUME AtHome, NEW p \in Problem, NEW request \in Seq(Block), NEW legal \in BOOLEAN
  PROVE  Verdict(p, request, legal) = "ok" <=> legal /\ Legitimate(p, request)
<1>1. PICK n \in Nat : n = Len(request) /\ DOMAIN request = 1..n
  BY LenProperties
<1>2. PICK twice \in BOOLEAN :
        twice <=> \E i \in DOMAIN request : \E j \in 1..(i - 1) : request[i] = request[j]
  OBVIOUS
<1>3. ~twice <=> IsInjective(request)
  <2>1. ASSUME ~twice, NEW i \in 1..n, NEW j \in 1..n, request[i] = request[j] PROVE i = j
    <3>1. ~(j < i) /\ ~(i < j)
      BY <1>1, <1>2, <2>1
    <3> QED BY <3>1
  <2>2. ASSUME IsInjective(request), NEW i \in 1..n, NEW j \in 1..(i - 1)
        PROVE  request[i] # request[j]
    BY <1>1, <2>2 DEF IsInjective
  <2> QED BY <1>1, <1>2, <2>1, <2>2 DEF IsInjective
<1>4. PICK unresolved : unresolved = {i \in DOMAIN request : KeyStatus(p, request[i]) # "ok"}
  OBVIOUS
<1>5. unresolved = {} <=> ToSet(request) \subseteq Live(p)
  BY <1>4, LiveResolves DEF ToSet
<1>6. unresolved # {} => KeyStatus(p, request[Min(unresolved)]) # "ok"
  <2> SUFFICES ASSUME unresolved # {} PROVE KeyStatus(p, request[Min(unresolved)]) # "ok"
    OBVIOUS
  <2>1. unresolved \subseteq Nat
    BY <1>1, <1>4
  <2>2. Min(unresolved) \in unresolved
    BY <2>1, LeastExists
  <2> QED BY <2>2, <1>4
<1>7. Verdict(p, request, legal) = IF ~legal THEN "InvalidRankTolerance"
                                   ELSE IF twice THEN "DuplicateCovarianceBlock"
                                   ELSE IF unresolved = {} THEN "ok"
                                   ELSE KeyStatus(p, request[Min(unresolved)])
  BY <1>2, <1>4 DEF Verdict
<1>8. Legitimate(p, request) <=> ~twice /\ unresolved = {}
  BY <1>3, <1>5 DEF Legitimate
<1> QED BY ONLY <1>6, <1>7, <1>8

(* What leaves a problem as it is leaves its matrix right. *)
LEMMA MatrixKept ==
  ASSUME NEW p, MatrixFits(p), matrix'[p] = matrix[p],
         pools'[p] = pools[p], version'[p] = version[p]
  PROVE  MatrixFits(p)'
BY DEF MatrixFits, LayoutOf

LEMMA MatrixDropped ==
  ASSUME NEW p, matrix'[p] = NoMatrix
  PROVE  MatrixFits(p)'
BY DEF MatrixFits, NoMatrix

LEMMA SameMatrices ==
  ASSUME MatrixNamesItsBlocks, UNCHANGED <<pools, version, matrix>>
  PROVE  MatrixNamesItsBlocks'
BY DEF MatrixNamesItsBlocks, LayoutOf

-----------------------------------------------------------------------------
(***************************************************************************)
(* Edits between the calls.                                                *)
(***************************************************************************)
LEMMA QueriesStart == Init => QInv
<1> SUFFICES ASSUME Init PROVE QInv
  OBVIOUS
<1>1. /\ pools = Initial /\ version = [p \in Problem |-> 0]
      /\ own = [p \in Problem |-> NewWorkspace] /\ shared = [m \in Method |-> NewWorkspace]
      /\ selected = [p \in Problem |-> [columns |-> <<>>, tolerance |-> 0]]
      /\ call = Idle /\ refused = "no" /\ matrix = [p \in Problem |-> NoMatrix]
  BY DEF Init
<1>2. call.phase = "idle"
  BY <1>1 DEF Idle
<1>3. QueryTypes
  <2>1. <<>> \in Seq(Block) /\ <<>> \in Seq(Nat)
    BY EmptySeq
  <2>2. NewWorkspace \in Workspaces
    BY <2>1 DEF NewWorkspace, Workspaces, Models
  <2>3. [columns |-> <<>>, tolerance |-> 0] \in Selections
    BY <2>1 DEF Selections
  <2>4. NoMatrix \in Matrices /\ Idle \in Calls
    BY DEF Matrices, Calls
  <2>5. pools \in [Problem -> [DOMAIN Width -> Seq(Block)]]
    BY <1>1, InitialAssumption
  <2> QED BY <1>1, <2>2, <2>3, <2>4, <2>5 DEF QueryTypes
<1>4. AtHome
  BY <1>1, InitialAssumption DEF AtHome
<1>5. MatrixNamesItsBlocks
  BY <1>1 DEF MatrixNamesItsBlocks
<1> QED BY <1>2, <1>3, <1>4, <1>5 DEF QInv, CallFits, WorkspaceFits, PhaseFits

(* An edit of p leaves the other problems and their matrices alone. *)
LEMMA EditFits ==
  ASSUME QInv, NEW p \in Problem, Edit(p),
         pools' \in [Problem -> [DOMAIN Width -> Seq(Block)]], AtHome',
         version' \in [Problem -> Nat],
         \A q \in Problem : q # p => pools'[q] = pools[q] /\ version'[q] = version[q]
  PROVE  QInv'
<1>1. /\ call = Idle /\ matrix' = [matrix EXCEPT ![p] = NoMatrix] /\ refused' = "no"
      /\ UNCHANGED <<own, shared, selected, call>>
  BY DEF Edit
<1>2. call'.phase = "idle"
  BY <1>1 DEF Idle
<1>3. matrix \in [Problem -> Matrices]
  BY DEF QInv, QueryTypes
<1>4. /\ matrix' \in [Problem -> Matrices] /\ matrix'[p] = NoMatrix
      /\ \A q \in Problem : q # p => matrix'[q] = matrix[q]
  BY <1>1, <1>3 DEF Matrices
<1>5. QueryTypes'
  BY <1>1, <1>4 DEF QInv, QueryTypes
<1>6. MatrixNamesItsBlocks'
  <2>1. ASSUME NEW q \in Problem PROVE MatrixFits(q)'
    <3>1. CASE q = p
      BY <3>1, <1>4, MatrixDropped
    <3>2. CASE q # p
      <4>1. MatrixFits(q)
        BY MatricesFit DEF QInv
      <4> QED BY <3>2, <4>1, <1>4, MatrixKept
    <3> QED BY <3>1, <3>2
  <2> QED BY <2>1 DEF MatrixNamesItsBlocks, MatrixFits
<1> QED BY <1>2, <1>5, <1>6 DEF QInv, CallFits, WorkspaceFits, PhaseFits

(* A pool is replaced by another one whose keys name it. *)
LEMMA PoolReplaced ==
  ASSUME QInv, NEW p \in Problem, NEW f \in DOMAIN Width, NEW new \in Seq(Block),
         \A b \in ToSet(new) : Home[b] = [problem |-> p, pool |-> f],
         pools' = [pools EXCEPT ![p][f] = new], Edit(p), UNCHANGED version
  PROVE  QInv'
<1>1. pools \in [Problem -> [DOMAIN Width -> Seq(Block)]] /\ version \in [Problem -> Nat] /\ AtHome
  BY DEF QInv, QueryTypes
<1>2. PICK row \in [DOMAIN Width -> Seq(Block)] :
        /\ row = [pools[p] EXCEPT ![f] = new]
        /\ row[f] = new /\ \A g \in DOMAIN Width : g # f => row[g] = pools[p][g]
  <2>1. PICK before \in [DOMAIN Width -> Seq(Block)] : before = pools[p]
    BY <1>1
  <2>2. PICK row : row = [before EXCEPT ![f] = new]
    OBVIOUS
  <2>3. /\ row \in [DOMAIN Width -> Seq(Block)]
        /\ row[f] = new /\ \A g \in DOMAIN Width : g # f => row[g] = before[g]
    BY ONLY <2>2, before \in [DOMAIN Width -> Seq(Block)], new \in Seq(Block), f \in DOMAIN Width
  <2> QED BY ONLY <2>1, <2>2, <2>3
<1>3. /\ pools' \in [Problem -> [DOMAIN Width -> Seq(Block)]]
      /\ pools'[p] = row /\ \A q \in Problem : q # p => pools'[q] = pools[q]
  BY <1>1, <1>2
<1>4. AtHome'
  <2> SUFFICES ASSUME NEW q \in Problem, NEW g \in DOMAIN Width, NEW b \in ToSet(pools'[q][g])
               PROVE  Home[b] = [problem |-> q, pool |-> g]
    BY DEF AtHome
  <2>1. CASE q = p /\ g = f
    BY <2>1, <1>2, <1>3
  <2>2. CASE ~(q = p /\ g = f)
    <3>1. pools'[q][g] = pools[q][g]
      BY <2>2, <1>2, <1>3
    <3> QED BY <3>1, <1>1 DEF AtHome
  <2> QED BY <2>1, <2>2
<1> QED BY <1>1, <1>3, <1>4, EditFits

LEMMA AddStateFits == ASSUME QInv, NEW b \in Block, AddState(b) PROVE QInv'
<1>1. PICK p \in Problem, f \in DOMAIN Width : Home[b] = [problem |-> p, pool |-> f]
  BY HomeAssumption
<1>2. PICK pool : pool = pools[p][f] /\ pool \in Seq(Block)
  BY DEF QInv, QueryTypes
<1>3. PICK new : new = Append(pool, b)
  OBVIOUS
<1>4. pools' = [pools EXCEPT ![p][f] = new] /\ Edit(p) /\ UNCHANGED version
  BY <1>1, <1>2, <1>3 DEF AddState
<1>5. new \in Seq(Block) /\ ToSet(new) = ToSet(pool) \cup {b}
  <2>1. /\ new \in Seq(Block) /\ Len(new) = Len(pool) + 1
        /\ \A i \in 1..Len(pool) : new[i] = pool[i]
        /\ new[Len(pool) + 1] = b
    BY <1>2, <1>3, AppendProperties
  <2>2. PICK n \in Nat : n = Len(pool)
    BY <1>2, LenProperties
  <2>3. DOMAIN new = 1..(n + 1) /\ DOMAIN pool = 1..n
    BY <1>2, <2>1, <2>2, LenProperties
  <2>4. \A i : i \in 1..(n + 1) <=> i \in 1..n \/ i = n + 1
    BY ONLY n \in Nat
  <2> QED BY <2>1, <2>2, <2>3, <2>4 DEF ToSet
<1>6. \A c \in ToSet(new) : Home[c] = [problem |-> p, pool |-> f]
  BY <1>1, <1>2, <1>5 DEF QInv, AtHome
<1> QED BY <1>4, <1>5, <1>6, PoolReplaced

(* swap_remove keeps what it does not remove, and adds nothing. *)
LEMMA SwapRemoveKeeps ==
  ASSUME NEW pool \in Seq(Block), NEW i \in 1..Len(pool)
  PROVE  /\ Front([pool EXCEPT ![i] = Last(pool)]) \in Seq(Block)
         /\ ToSet(Front([pool EXCEPT ![i] = Last(pool)])) \subseteq ToSet(pool)
<1>1. PICK n \in Nat : n = Len(pool) /\ DOMAIN pool = 1..n
  BY LenProperties
<1>2. n \in 1..n /\ i \in 1..n
  BY <1>1
<1>3. PICK last \in Block : last = pool[n] /\ last = Last(pool)
  BY <1>1, <1>2, ElementOfSeq DEF Last
<1>4. PICK moved : moved = [pool EXCEPT ![i] = last]
  OBVIOUS
<1>5. /\ moved \in Seq(Block) /\ Len(moved) = n
      /\ \A j \in 1..n : moved[j] = IF j = i THEN last ELSE pool[j]
  BY ONLY <1>1, <1>4, pool \in Seq(Block), i \in 1..Len(pool), last \in Block, ExceptSeq
<1>6. PICK front : front = Front(moved)
  OBVIOUS
<1>7. front = SubSeq(moved, 1, n - 1)
  BY <1>5, <1>6 DEF Front
<1>8. \A j \in 1..(n - 1) : moved[j] \in Block
  <2>1. \A j \in 1..(n - 1) : j \in 1..n
    BY <1>1
  <2> QED BY <2>1, <1>5, ElementOfSeq
<1>9. /\ front \in Seq(Block)
      /\ Len(front) = IF 1 <= n - 1 THEN (n - 1) - 1 + 1 ELSE 0
      /\ \A j \in 1..((n - 1) - 1 + 1) : front[j] = moved[1 + j - 1]
  <2>1. 1 \in Int /\ n - 1 \in Int
    BY <1>1
  <2> QED BY ONLY <2>1, <1>7, <1>8, SubSeqProperties
<1>10. Len(front) = n - 1
  BY <1>2, <1>9
<1>11. \A j \in 1..(n - 1) : front[j] = moved[j]
  BY <1>9
<1>12. ToSet(front) \subseteq ToSet(pool)
  <2> SUFFICES ASSUME NEW j \in 1..(n - 1) PROVE front[j] \in ToSet(pool)
    BY <1>9, <1>10, LenProperties DEF ToSet
  <2>1. j \in 1..n
    BY <1>1
  <2>2. front[j] = last \/ front[j] = pool[j]
    BY <2>1, <1>5, <1>11
  <2>3. last \in ToSet(pool) /\ pool[j] \in ToSet(pool)
    BY <1>1, <1>2, <1>3, <2>1 DEF ToSet
  <2> QED BY <2>2, <2>3
<1> QED BY ONLY <1>3, <1>4, <1>6, <1>9, <1>12

LEMMA RemoveStateFits == ASSUME QInv, NEW b \in Block, RemoveState(b) PROVE QInv'
<1>1. PICK p \in Problem, f \in DOMAIN Width : Home[b] = [problem |-> p, pool |-> f]
  BY HomeAssumption
<1>2. PICK pool : pool = pools[p][f] /\ pool \in Seq(Block)
  BY DEF QInv, QueryTypes
<1>3. PICK i : i = CHOOSE k \in DOMAIN pool : pool[k] = b
  OBVIOUS
<1>4. PICK new : new = Front([pool EXCEPT ![i] = Last(pool)])
  OBVIOUS
<1>5. b \in Live(p) /\ pools' = [pools EXCEPT ![p][f] = new] /\ Edit(p) /\ UNCHANGED version
  BY <1>1, <1>2, <1>3, <1>4 DEF RemoveState
<1>6. b \in ToSet(pool)
  <2>1. PICK g \in DOMAIN Width : b \in ToSet(pools[p][g])
    BY <1>5 DEF Live
  <2>2. Home[b] = [problem |-> p, pool |-> g]
    BY <2>1 DEF QInv, AtHome
  <2>3. g = f
    BY <1>1, <2>2
  <2> QED BY <1>2, <2>1, <2>3
<1>7. i \in 1..Len(pool)
  <2>1. \E k \in DOMAIN pool : pool[k] = b
    BY <1>6 DEF ToSet
  <2>2. i \in DOMAIN pool
    BY <1>3, <2>1
  <2> QED BY <2>2, <1>2, LenProperties
<1>8. new \in Seq(Block) /\ ToSet(new) \subseteq ToSet(pool)
  BY <1>2, <1>4, <1>7, SwapRemoveKeeps
<1>9. \A c \in ToSet(new) : Home[c] = [problem |-> p, pool |-> f]
  BY <1>2, <1>8 DEF QInv, AtHome
<1> QED BY <1>5, <1>8, <1>9, PoolReplaced

LEMMA ChangeFits == ASSUME QInv, NEW p \in Problem, Change(p) PROVE QInv'
<1>1. version' = [version EXCEPT ![p] = @ + 1] /\ Edit(p) /\ UNCHANGED pools
  BY DEF Change
<1>2. version \in [Problem -> Nat] /\ pools \in [Problem -> [DOMAIN Width -> Seq(Block)]] /\ AtHome
  BY DEF QInv, QueryTypes
<1>3. /\ version' \in [Problem -> Nat]
      /\ \A q \in Problem : q # p => version'[q] = version[q]
  BY <1>1, <1>2
<1>4. AtHome'
  BY <1>1, <1>2 DEF AtHome
<1> QED BY <1>1, <1>2, <1>3, <1>4, EditFits

-----------------------------------------------------------------------------
(***************************************************************************)
(* The steps of a call.                                                    *)
(***************************************************************************)
Phases == {"prepare", "optimize", "model", "select", "compute"}

LEMMA CallTyped ==
  ASSUME QueryTypes, call.phase # "idle"
  PROVE  /\ call \in [phase : Phases, problem : Problem, by : Method \cup {Query},
                      request : Seq(Block), wants : BOOLEAN]
         /\ Here \in Workspaces
<1>1. call \in [phase : Phases, problem : Problem, by : Method \cup {Query},
                request : Seq(Block), wants : BOOLEAN]
  <2>1. Idle.phase = "idle"
    BY DEF Idle
  <2>2. call \in Calls /\ call # Idle
    BY <2>1 DEF QueryTypes
  <2> QED BY <2>2 DEF Calls, Phases
<1>2. Here \in Workspaces
  <2>1. own \in [Problem -> Workspaces] /\ shared \in [Method -> Workspaces]
    BY DEF QueryTypes
  <2>2. call.problem \in Problem /\ (call.by # Query => call.by \in Method)
    BY <1>1
  <2> QED BY <2>1, <2>2 DEF Here
<1> QED BY <1>1, <1>2

(* The call goes on to phase ph. *)
GoesOn(ph) == /\ call' \in Calls /\ call'.phase = ph
              /\ call'.problem = call.problem /\ call'.by = call.by
              /\ call'.request = call.request

LEMMA GotoGoesOn ==
  ASSUME QueryTypes, call.phase # "idle", NEW ph \in Phases, Goto(ph)
  PROVE  GoesOn(ph) /\ refused' = refused
<1>1. call \in [phase : Phases, problem : Problem, by : Method \cup {Query},
                request : Seq(Block), wants : BOOLEAN]
  BY CallTyped
<1>2. call' = [call EXCEPT !.phase = ph] /\ refused' = refused
  BY DEF Goto
<1>3. /\ call' \in [phase : Phases, problem : Problem, by : Method \cup {Query},
                    request : Seq(Block), wants : BOOLEAN]
      /\ call'.phase = ph /\ call'.problem = call.problem /\ call'.by = call.by
      /\ call'.request = call.request
  BY <1>1, <1>2
<1> QED BY <1>2, <1>3 DEF GoesOn, Calls, Phases

LEMMA StaysOn ==
  ASSUME QueryTypes, UNCHANGED call
  PROVE  GoesOn(call.phase)
BY DEF QueryTypes, GoesOn

LEMMA HereReplaced ==
  ASSUME QueryTypes, call.phase # "idle", NEW w \in Workspaces, HereBecomes(w)
  PROVE  /\ own' \in [Problem -> Workspaces] /\ shared' \in [Method -> Workspaces]
         /\ \A ph : GoesOn(ph) => Here' = w
<1>1. own \in [Problem -> Workspaces] /\ shared \in [Method -> Workspaces]
  BY DEF QueryTypes
<1>2. call.problem \in Problem /\ (call.by # Query => call.by \in Method)
  BY CallTyped
<1>3. CASE call.by = Query
  <2>1. own' = [own EXCEPT ![call.problem] = w] /\ shared' = shared
    BY <1>3 DEF HereBecomes
  <2>2. own' \in [Problem -> Workspaces] /\ own'[call.problem] = w
    BY <2>1, <1>1, <1>2
  <2> QED BY <2>1, <2>2, <1>1, <1>3 DEF GoesOn, Here
<1>4. CASE call.by # Query
  <2>1. shared' = [shared EXCEPT ![call.by] = w] /\ own' = own
    BY <1>4 DEF HereBecomes
  <2>2. shared' \in [Method -> Workspaces] /\ shared'[call.by] = w
    BY <2>1, <1>1, <1>2, <1>4
  <2> QED BY <2>1, <2>2, <1>1, <1>4 DEF GoesOn, Here
<1> QED BY <1>3, <1>4

LEMMA HereKept ==
  ASSUME UNCHANGED <<own, shared>>, NEW ph, GoesOn(ph)
  PROVE  Here' = Here
BY DEF GoesOn, Here

(* A call that returns leaves nothing but its workspaces behind. *)
LEMMA ReturnFits ==
  ASSUME QInv, call' = Idle, UNCHANGED <<pools, version>>, MatrixNamesItsBlocks',
         matrix' \in [Problem -> Matrices], refused' = refused,
         own' \in [Problem -> Workspaces], shared' \in [Method -> Workspaces],
         selected' \in [Problem -> Selections]
  PROVE  QInv'
<1>1. call'.phase = "idle" /\ call' \in Calls
  BY DEF Idle, Calls
<1>2. QueryTypes'
  BY <1>1 DEF QInv, QueryTypes
<1>3. AtHome'
  BY DEF QInv, AtHome
<1> QED BY <1>1, <1>2, <1>3 DEF QInv, CallFits, WorkspaceFits, PhaseFits

(* A call that goes on finds its workspace, w, as its next phase needs it. *)
LEMMA CallContinues ==
  ASSUME QInv, call.phase # "idle", NEW ph \in Phases, GoesOn(ph),
         UNCHANGED <<pools, matrix, refused>>,
         version' \in [Problem -> Nat], MatrixNamesItsBlocks',
         own' \in [Problem -> Workspaces], shared' \in [Method -> Workspaces],
         selected' \in [Problem -> Selections],
         NEW w, Here' = w, w.layout = LayoutOf(call.problem),
         w.current => w.model = [problem |-> call.problem, layout |-> LayoutOf(call.problem),
                                 version |-> version'[call.problem]],
         ph = "optimize" => call.by # Query,
         ph = "compute" \/ (ph = "select" /\ call.by # Query) => w.current,
         ph = "compute" \/ (ph = "model" /\ call.by = Query) =>
           selected'[call.problem].columns = ColumnsOf(LayoutOf(call.problem), call.request)
  PROVE  QInv'
<1>1. /\ call' \in Calls /\ call'.phase = ph /\ ph # "idle"
      /\ call'.problem = call.problem /\ call'.by = call.by /\ call'.request = call.request
  BY DEF GoesOn, Phases
<1>2. QueryTypes'
  BY <1>1 DEF QInv, QueryTypes
<1>3. AtHome'
  BY DEF QInv, AtHome
<1>4. CallFits'
  BY <1>1 DEF QInv, CallFits, Legitimate, Live
<1>5. LayoutOf(call.problem)' = LayoutOf(call.problem)
  BY <1>1 DEF LayoutOf
<1>6. ModelOf(call.problem)' = [problem |-> call.problem, layout |-> LayoutOf(call.problem),
                                version |-> version'[call.problem]]
  BY <1>1, <1>5 DEF ModelOf
<1>7. WorkspaceFits'
  BY <1>1, <1>5, <1>6 DEF WorkspaceFits
<1>8. PhaseFits'
  BY <1>1, <1>5 DEF PhaseFits, Query
<1> QED BY <1>2, <1>3, <1>4, <1>7, <1>8 DEF QInv

(* As CallContinues, where the problem itself is not touched. *)
LEMMA CallProceeds ==
  ASSUME QInv, call.phase # "idle", NEW ph \in Phases, GoesOn(ph),
         UNCHANGED <<pools, version, matrix, refused>>,
         own' \in [Problem -> Workspaces], shared' \in [Method -> Workspaces],
         selected' \in [Problem -> Selections],
         NEW w, Here' = w, w.layout = LayoutOf(call.problem),
         w.current => w.model = ModelOf(call.problem),
         ph = "optimize" => call.by # Query,
         ph = "compute" \/ (ph = "select" /\ call.by # Query) => w.current,
         ph = "compute" \/ (ph = "model" /\ call.by = Query) =>
           selected'[call.problem].columns = ColumnsOf(LayoutOf(call.problem), call.request)
  PROVE  QInv'
<1>1. MatrixNamesItsBlocks'
  BY SameMatrices DEF QInv
<1>2. version' \in [Problem -> Nat]
  BY DEF QInv, QueryTypes
<1>3. w.current => w.model = [problem |-> call.problem, layout |-> LayoutOf(call.problem),
                              version |-> version'[call.problem]]
  BY DEF ModelOf
<1> QED BY <1>1, <1>2, <1>3, CallContinues

(* The matrix of p cannot be looked at any more. *)
LEMMA MatrixReleased ==
  ASSUME QInv, NEW p \in Problem, matrix' = [matrix EXCEPT ![p] = NoMatrix],
         UNCHANGED <<pools, version>>
  PROVE  /\ matrix' \in [Problem -> Matrices] /\ matrix'[p] = NoMatrix
         /\ MatrixNamesItsBlocks'
<1>1. matrix \in [Problem -> Matrices]
  BY DEF QInv, QueryTypes
<1>2. /\ matrix' \in [Problem -> Matrices] /\ matrix'[p] = NoMatrix
      /\ \A q \in Problem : q # p => matrix'[q] = matrix[q]
  BY <1>1 DEF Matrices
<1>3. ASSUME NEW q \in Problem PROVE MatrixFits(q)'
  <2>1. CASE q = p
    BY <2>1, <1>2, MatrixDropped
  <2>2. CASE q # p
    <3>1. MatrixFits(q)
      BY MatricesFit DEF QInv
    <3> QED BY <2>2, <3>1, <1>2, MatrixKept
  <2> QED BY <2>1, <2>2
<1> QED BY <1>2, <1>3 DEF MatrixNamesItsBlocks, MatrixFits

LEMMA StartFits ==
  ASSUME QInv, NEW p \in Problem, NEW by \in Method \cup {Query},
         NEW request \in Seq(Block), NEW wants \in BOOLEAN,
         Start(p, by, request, wants), Legitimate(p, request),
         matrix' = [matrix EXCEPT ![p] = NoMatrix],
         UNCHANGED <<pools, version, own, shared>>, selected' \in [Problem -> Selections]
  PROVE  QInv'
<1>1. /\ call' = [phase |-> "prepare", problem |-> p, by |-> by, request |-> request,
                  wants |-> wants]
      /\ refused' = "no"
  BY DEF Start
<1>2. call' \in Calls
  BY <1>1 DEF Calls
<1>3. /\ call'.phase = "prepare" /\ call'.problem = p /\ call'.request = request
  BY <1>1
<1>4. matrix' \in [Problem -> Matrices] /\ matrix'[p] = NoMatrix /\ MatrixNamesItsBlocks'
  BY MatrixReleased
<1>5. QueryTypes'
  BY <1>1, <1>2, <1>4 DEF QInv, QueryTypes
<1>6. AtHome'
  BY DEF QInv, AtHome
<1>7. CallFits'
  BY <1>1, <1>3, <1>4 DEF CallFits, Legitimate, Live
<1>8. WorkspaceFits' /\ PhaseFits'
  BY <1>3 DEF WorkspaceFits, PhaseFits
<1> QED BY <1>4, <1>5, <1>6, <1>7, <1>8 DEF QInv

LEMMA BeginFits ==
  ASSUME QInv, NEW p \in Problem, NEW by \in Method \cup {Query}, NEW request \in Request,
         NEW tolerance \in Tolerance, NEW legal \in BOOLEAN,
         Begin(p, by, request, tolerance, legal)
  PROVE  QInv'
<1>1. request \in Seq(Block)
  BY RequestAssumption
<1>2. /\ call = Idle /\ matrix' = [matrix EXCEPT ![p] = NoMatrix]
      /\ UNCHANGED <<pools, version, own, shared>>
  BY DEF Begin, keys
<1>3. CASE Verdict(p, request, legal) = "ok"
  <2>1. /\ selected' = [selected EXCEPT ![p].tolerance = tolerance]
        /\ Start(p, by, request, TRUE)
    BY <1>3 DEF Begin
  <2>2. selected' \in [Problem -> Selections]
    <3>1. selected \in [Problem -> Selections]
      BY DEF QInv, QueryTypes
    <3> QED BY <2>1, <3>1 DEF Selections
  <2>3. Legitimate(p, request)
    BY <1>1, <1>3, VerdictIsExact DEF QInv
  <2> QED BY <1>1, <1>2, <2>1, <2>2, <2>3, StartFits
<1>4. CASE Verdict(p, request, legal) # "ok"
  <2>1. refused' = "before" /\ UNCHANGED <<selected, call>>
    BY <1>4 DEF Begin
  <2>2. matrix' \in [Problem -> Matrices] /\ MatrixNamesItsBlocks'
    BY <1>2, MatrixReleased
  <2>3. call'.phase = "idle"
    BY <1>2, <2>1 DEF Idle
  <2>4. QueryTypes'
    BY <1>2, <2>1, <2>2 DEF QInv, QueryTypes
  <2>5. AtHome'
    BY <1>2 DEF QInv, AtHome
  <2> QED BY <2>2, <2>3, <2>4, <2>5 DEF QInv, CallFits, WorkspaceFits, PhaseFits
<1> QED BY <1>3, <1>4

LEMMA OptimizeFits ==
  ASSUME QInv, NEW p \in Problem, NEW m \in Method, Optimize(p, m)
  PROVE  QInv'
<1>1. /\ matrix' = [matrix EXCEPT ![p] = NoMatrix] /\ Start(p, m, <<>>, FALSE)
      /\ UNCHANGED <<pools, version, own, shared, selected>>
  BY DEF Optimize, keys
<1>2. <<>> \in Seq(Block) /\ DOMAIN <<>> = {}
  <2>1. <<>> \in Seq(Block) /\ Len(<<>>) = 0
    BY EmptySeq
  <2> QED BY <2>1
<1>3. Legitimate(p, <<>>)
  BY <1>2 DEF Legitimate, IsInjective, ToSet
<1>4. selected' \in [Problem -> Selections]
  BY <1>1 DEF QInv, QueryTypes
<1> QED BY <1>1, <1>2, <1>3, <1>4, StartFits

LEMMA LayoutTyped ==
  ASSUME QInv, call.phase # "idle"
  PROVE  /\ LayoutOf(call.problem) \in Seq(Block)
         /\ ModelOf(call.problem) \in Models
<1>1. call.problem \in Problem
  BY CallTyped DEF QInv
<1>2. LayoutOf(call.problem) \in Seq(Block)
  BY <1>1, LayoutIsLive DEF QInv
<1>3. version[call.problem] \in Nat
  BY <1>1 DEF QInv, QueryTypes
<1> QED BY <1>1, <1>2, <1>3 DEF ModelOf, Models

(* What a step that fails leaves of a workspace. *)
LEMMA FailedStepFits ==
  ASSUME QInv, call.phase # "idle", NEW w \in Workspaces, HereBecomes(w), Return,
         UNCHANGED <<pools, version, selected, matrix>>
  PROVE  QInv'
<1>1. call' = Idle /\ refused' = refused
  BY DEF Return
<1>2. own' \in [Problem -> Workspaces] /\ shared' \in [Method -> Workspaces]
  BY HereReplaced DEF QInv
<1>3. MatrixNamesItsBlocks'
  BY SameMatrices DEF QInv
<1>4. matrix' \in [Problem -> Matrices] /\ selected' \in [Problem -> Selections]
  BY DEF QInv, QueryTypes
<1> QED BY <1>1, <1>2, <1>3, <1>4, ReturnFits

LEMMA PrepareFits == ASSUME QInv, Prepare PROVE QInv'
<1>1. PICK w : w = [layout |-> LayoutOf(call.problem), current |-> FALSE, model |-> NoModel]
  OBVIOUS
<1>2. PICK ph : ph = IF call.by = Query THEN "select" ELSE "optimize"
  OBVIOUS
<1>3. /\ call.phase = "prepare" /\ HereBecomes(w) /\ Goto(ph)
      /\ UNCHANGED <<pools, version, selected, matrix>>
  BY <1>1, <1>2 DEF Prepare, keys
<1>4. call.phase # "idle" /\ ph \in Phases
  BY <1>2, <1>3 DEF Phases
<1>5. w \in Workspaces
  BY <1>1, <1>4, LayoutTyped DEF Workspaces, Models
<1>6. GoesOn(ph) /\ refused' = refused
  BY <1>3, <1>4, GotoGoesOn DEF QInv
<1>7. own' \in [Problem -> Workspaces] /\ shared' \in [Method -> Workspaces] /\ Here' = w
  BY <1>3, <1>4, <1>5, <1>6, HereReplaced DEF QInv
<1>8. selected' \in [Problem -> Selections]
  BY <1>3 DEF QInv, QueryTypes
<1>9. w.layout = LayoutOf(call.problem) /\ ~w.current
  BY <1>1
<1>10. /\ ph = "optimize" => call.by # Query
       /\ ~(ph = "compute" \/ (ph = "select" /\ call.by # Query))
       /\ ~(ph = "compute" \/ (ph = "model" /\ call.by = Query))
  BY <1>2
<1> QED BY <1>3, <1>4, <1>6, <1>7, <1>8, <1>9, <1>10, CallProceeds

LEMMA PrepareFailsFits == ASSUME QInv, PrepareFails PROVE QInv'
<1>1. /\ call.phase = "prepare" /\ Return /\ UNCHANGED <<pools, version, selected, matrix>>
      /\ \/ HereBecomes(Here)
         \/ HereBecomes([Here EXCEPT !.layout = LayoutOf(call.problem), !.current = FALSE])
  BY DEF PrepareFails, keys
<1>2. Here \in Workspaces /\ LayoutOf(call.problem) \in Seq(Block)
  BY <1>1, CallTyped, LayoutTyped DEF QInv
<1>3. [Here EXCEPT !.layout = LayoutOf(call.problem), !.current = FALSE] \in Workspaces
  BY <1>2 DEF Workspaces
<1> QED BY <1>1, <1>2, <1>3, FailedStepFits

(* A workspace that is linearized, or that an evaluation was interrupted in. *)
LEMMA LinearizedIs ==
  ASSUME QInv, call.phase # "idle", Here.layout = LayoutOf(call.problem)
  PROVE  /\ Linearized(Here) \in Workspaces
         /\ Linearized(Here).layout = LayoutOf(call.problem)
         /\ Linearized(Here).current
         /\ Linearized(Here).model = ModelOf(call.problem)
<1>1. Here \in Workspaces /\ ModelOf(call.problem) \in Models
  BY CallTyped, LayoutTyped DEF QInv
<1>2. PICK model \in Models : model = ModelOf(call.problem)
  BY <1>1
<1>3. Linearized(Here) = [Here EXCEPT !.current = TRUE, !.model = model]
  BY <1>2 DEF Linearized, ModelOf
<1> QED BY <1>1, <1>2, <1>3 DEF Workspaces

LEMMA InterruptedIs ==
  ASSUME QInv, call.phase # "idle"
  PROVE  Interrupted(Here) \in Workspaces
<1>1. Here \in Workspaces
  BY CallTyped DEF QInv
<1> QED BY <1>1 DEF Interrupted, Workspaces, Models

LEMMA IterateFits == ASSUME QInv, Iterate PROVE QInv'
<1>1. /\ call.phase = "optimize" /\ HereBecomes(Linearized(Here))
      /\ UNCHANGED <<pools, version, selected, call, refused, matrix>>
  BY DEF Iterate, keys
<1>2. call.phase # "idle" /\ call.phase \in Phases /\ GoesOn(call.phase)
  BY <1>1, StaysOn DEF QInv, Phases
<1>3. Here.layout = LayoutOf(call.problem) /\ call.by # Query
  BY <1>1 DEF QInv, WorkspaceFits, PhaseFits
<1>4. PICK w \in Workspaces :
        /\ w = Linearized(Here) /\ w.layout = LayoutOf(call.problem)
        /\ w.model = ModelOf(call.problem)
  BY <1>2, <1>3, LinearizedIs
<1>5. own' \in [Problem -> Workspaces] /\ shared' \in [Method -> Workspaces] /\ Here' = w
  BY <1>1, <1>2, <1>4, HereReplaced DEF QInv
<1>6. selected' \in [Problem -> Selections]
  BY <1>1 DEF QInv, QueryTypes
<1>7. ~(call.phase = "compute") /\ ~(call.phase = "select") /\ ~(call.phase = "model")
  BY <1>1
<1> QED BY <1>1, <1>2, <1>3, <1>4, <1>5, <1>6, <1>7, CallProceeds

LEMMA AcceptStepFits == ASSUME QInv, AcceptStep PROVE QInv'
<1>1. /\ call.phase = "optimize" /\ HereBecomes([Here EXCEPT !.current = FALSE])
      /\ version' = [version EXCEPT ![call.problem] = @ + 1]
      /\ UNCHANGED <<pools, selected, call, refused, matrix>>
  BY DEF AcceptStep, keys
<1>2. call.phase # "idle" /\ call.phase \in Phases /\ GoesOn(call.phase)
  BY <1>1, StaysOn DEF QInv, Phases
<1>3. Here.layout = LayoutOf(call.problem) /\ call.by # Query
  BY <1>1 DEF QInv, WorkspaceFits, PhaseFits
<1>4. Here \in Workspaces /\ call.problem \in Problem
  BY <1>2, CallTyped DEF QInv
<1>5. PICK w \in Workspaces : w = [Here EXCEPT !.current = FALSE]
  BY <1>4 DEF Workspaces
<1>6. w.layout = LayoutOf(call.problem) /\ ~w.current
  BY <1>3, <1>4, <1>5 DEF Workspaces
<1>7. own' \in [Problem -> Workspaces] /\ shared' \in [Method -> Workspaces] /\ Here' = w
  BY <1>1, <1>2, <1>5, HereReplaced DEF QInv
<1>8. /\ version' \in [Problem -> Nat]
      /\ \A p \in Problem : p # call.problem => version'[p] = version[p]
  BY <1>1, <1>4 DEF QInv, QueryTypes
<1>9. MatrixNamesItsBlocks'
  <2>1. ASSUME NEW p \in Problem PROVE MatrixFits(p)'
    <3>1. CASE p = call.problem
      <4>1. matrix'[p] = NoMatrix
        BY <3>1, <1>1, <1>2 DEF QInv, CallFits
      <4> QED BY <4>1, MatrixDropped
    <3>2. CASE p # call.problem
      <4>1. MatrixFits(p)
        BY MatricesFit DEF QInv
      <4> QED BY <3>2, <4>1, <1>1, <1>8, MatrixKept
    <3> QED BY <3>1, <3>2
  <2> QED BY <2>1 DEF MatrixNamesItsBlocks, MatrixFits
<1>10. selected' \in [Problem -> Selections]
  BY <1>1 DEF QInv, QueryTypes
<1>11. ~(call.phase = "compute") /\ ~(call.phase = "select") /\ ~(call.phase = "model")
  BY <1>1
<1> QED BY <1>1, <1>2, <1>3, <1>6, <1>7, <1>8, <1>9, <1>10, <1>11, CallContinues

(* A call returns and leaves everything else as it is. *)
LEMMA PlainReturnFits ==
  ASSUME QInv, Return, UNCHANGED <<pools, version, own, shared, matrix>>,
         selected' \in [Problem -> Selections]
  PROVE  QInv'
<1>1. call' = Idle /\ refused' = refused
  BY DEF Return
<1>2. /\ own' \in [Problem -> Workspaces] /\ shared' \in [Method -> Workspaces]
      /\ matrix' \in [Problem -> Matrices]
  BY DEF QInv, QueryTypes
<1>3. MatrixNamesItsBlocks'
  BY SameMatrices DEF QInv
<1> QED BY <1>1, <1>2, <1>3, ReturnFits

LEMMA ConvergeFits == ASSUME QInv, Converge PROVE QInv'
<1>1. /\ call.phase = "optimize" /\ UNCHANGED <<pools, version, own, shared, selected, matrix>>
      /\ IF call.wants THEN Goto("model") ELSE Return
  BY DEF Converge, keys
<1>2. selected' \in [Problem -> Selections]
  BY <1>1 DEF QInv, QueryTypes
<1>3. CASE ~call.wants
  BY <1>1, <1>2, <1>3, PlainReturnFits
<1>4. CASE call.wants
  <2>1. call.phase # "idle" /\ "model" \in Phases /\ Goto("model")
    BY <1>1, <1>4 DEF Phases
  <2>2. GoesOn("model") /\ refused' = refused
    BY <2>1, GotoGoesOn DEF QInv
  <2>3. Here' = Here
    BY <1>1, <2>2, HereKept
  <2>4. own' \in [Problem -> Workspaces] /\ shared' \in [Method -> Workspaces]
    BY <1>1 DEF QInv, QueryTypes
  <2>5. /\ Here.layout = LayoutOf(call.problem) /\ call.by # Query
        /\ Here.current => Here.model = ModelOf(call.problem)
    BY <1>1 DEF QInv, WorkspaceFits, PhaseFits
  <2> QED BY <1>1, <1>2, <2>1, <2>2, <2>3, <2>4, <2>5, CallProceeds
<1> QED BY <1>3, <1>4

LEMMA OptimizeFailsFits == ASSUME QInv, OptimizeFails PROVE QInv'
<1>1. /\ call.phase = "optimize" /\ Return /\ UNCHANGED <<pools, version, selected, matrix>>
      /\ \/ HereBecomes([Here EXCEPT !.model = NoModel])
         \/ HereBecomes(Here)
  BY DEF OptimizeFails, keys
<1>2. Here \in Workspaces
  BY <1>1, CallTyped DEF QInv
<1>3. [Here EXCEPT !.model = NoModel] \in Workspaces
  BY <1>2 DEF Workspaces, Models
<1> QED BY <1>1, <1>2, <1>3, FailedStepFits

LEMMA EvaluationFailsFits == ASSUME QInv, EvaluationFails PROVE QInv'
<1>1. /\ call.phase \in {"optimize", "model"} /\ HereBecomes(Interrupted(Here)) /\ Return
      /\ UNCHANGED <<pools, version, selected, matrix>>
  BY DEF EvaluationFails, keys
<1>2. call.phase # "idle"
  BY <1>1
<1>3. Interrupted(Here) \in Workspaces
  BY <1>2, InterruptedIs
<1> QED BY <1>1, <1>2, <1>3, FailedStepFits

LEMMA LinearizeForCovarianceFits == ASSUME QInv, LinearizeForCovariance PROVE QInv'
<1>1. PICK w : w = IF call.by = Query \/ ~Here.current THEN Linearized(Here) ELSE Here
  OBVIOUS
<1>2. PICK ph : ph = IF call.by = Query THEN "compute" ELSE "select"
  OBVIOUS
<1>3. /\ call.phase = "model" /\ HereBecomes(w) /\ Goto(ph)
      /\ UNCHANGED <<pools, version, selected, matrix>>
  BY <1>1, <1>2 DEF LinearizeForCovariance, keys
<1>4. call.phase # "idle" /\ ph \in Phases
  BY <1>2, <1>3 DEF Phases
<1>5. GoesOn(ph) /\ refused' = refused
  BY <1>3, <1>4, GotoGoesOn DEF QInv
<1>6. /\ Here.layout = LayoutOf(call.problem)
      /\ Here.current => Here.model = ModelOf(call.problem)
      /\ call.by = Query =>
           selected[call.problem].columns = ColumnsOf(LayoutOf(call.problem), call.request)
  BY <1>3 DEF QInv, WorkspaceFits, PhaseFits
<1>7. /\ Linearized(Here) \in Workspaces
      /\ Linearized(Here).layout = LayoutOf(call.problem) /\ Linearized(Here).current
      /\ Linearized(Here).model = ModelOf(call.problem)
  BY <1>4, <1>6, LinearizedIs
<1>8. Here \in Workspaces
  BY <1>4, CallTyped DEF QInv
<1>9. /\ w \in Workspaces /\ w.layout = LayoutOf(call.problem) /\ w.current
      /\ w.model = ModelOf(call.problem)
  BY ONLY <1>1, <1>6, <1>7, <1>8
<1>10. own' \in [Problem -> Workspaces] /\ shared' \in [Method -> Workspaces] /\ Here' = w
  BY <1>3, <1>4, <1>5, <1>9, HereReplaced DEF QInv
<1>11. selected' \in [Problem -> Selections] /\ selected' = selected
  BY <1>3 DEF QInv, QueryTypes
<1>12. /\ ~(ph = "optimize")
       /\ ph = "compute" \/ (ph = "model" /\ call.by = Query) => call.by = Query
  BY <1>2
<1>13. ph = "compute" \/ (ph = "model" /\ call.by = Query) =>
         selected'[call.problem].columns = ColumnsOf(LayoutOf(call.problem), call.request)
  BY ONLY <1>6, <1>11, <1>12
<1> QED BY ONLY QInv, <1>3, <1>4, <1>5, <1>9, <1>10, <1>11, <1>12, <1>13, CallProceeds

(* The names a call was let through with are still in its layout. *)
LEMMA RequestInLayout ==
  ASSUME QInv, call.phase = "select"
  PROVE  /\ call.problem \in Problem /\ call.request \in Seq(Block)
         /\ Here.layout = LayoutOf(call.problem)
         /\ ToSet(call.request) \subseteq ToSet(LayoutOf(call.problem))
         /\ InLayout(call.request)
         /\ ColumnsOf(LayoutOf(call.problem), call.request) \in Seq(Nat)
<1>1. call.problem \in Problem /\ call.request \in Seq(Block)
  BY CallTyped DEF QInv
<1>2. Here.layout = LayoutOf(call.problem) /\ Legitimate(call.problem, call.request)
  BY DEF QInv, WorkspaceFits, CallFits
<1>3. /\ LayoutOf(call.problem) \in Seq(Block)
      /\ ToSet(LayoutOf(call.problem)) = Live(call.problem)
  BY <1>1, LayoutIsLive DEF QInv
<1>4. ToSet(call.request) \subseteq ToSet(LayoutOf(call.problem))
  BY <1>2, <1>3 DEF Legitimate
<1>5. InLayout(call.request)
  <2>1. DOMAIN call.request = 1..Len(call.request) /\ Len(call.request) \in Nat
    BY <1>1, LenProperties
  <2>2. ASSUME NEW i \in DOMAIN call.request, NEW j \in 1..(i - 1)
        PROVE  call.request[i] # call.request[j]
    <3>1. j \in DOMAIN call.request /\ j # i
      BY <2>1
    <3> QED BY <3>1, <1>2 DEF Legitimate, IsInjective
  <2>3. \A i \in DOMAIN call.request : call.request[i] \in ToSet(Here.layout)
    BY <1>2, <1>4 DEF ToSet
  <2> QED BY <2>2, <2>3 DEF InLayout
<1> QED BY <1>1, <1>2, <1>3, <1>4, <1>5, ColumnsNamed

(* The columns of the request are stored. *)
LEMMA ColumnsStored ==
  ASSUME QInv, call.phase = "select",
         selected' = [selected EXCEPT ![call.problem].columns =
                        ColumnsOf(Here.layout, call.request)]
  PROVE  /\ selected' \in [Problem -> Selections]
         /\ selected'[call.problem].columns = ColumnsOf(LayoutOf(call.problem), call.request)
<1>1. PICK columns \in Seq(Nat) : columns = ColumnsOf(LayoutOf(call.problem), call.request)
  BY RequestInLayout
<1>2. call.problem \in Problem /\ selected \in [Problem -> Selections]
  BY RequestInLayout DEF QInv, QueryTypes
<1>3. selected' = [selected EXCEPT ![call.problem].columns = columns]
  BY <1>1, RequestInLayout
<1> QED BY <1>1, <1>2, <1>3, ZenonT(40) DEF Selections

LEMMA SelectFits == ASSUME QInv, Select PROVE QInv'
<1>1. call.phase = "select" /\ UNCHANGED <<pools, version, own, shared, matrix>>
  BY DEF Select, keys
<1>2. PICK ph : ph = IF call.by = Query THEN "model" ELSE "compute"
  OBVIOUS
<1>3. /\ selected' = [selected EXCEPT ![call.problem].columns =
                        ColumnsOf(Here.layout, call.request)]
      /\ Goto(ph)
  BY <1>1, <1>2, RequestInLayout DEF Select
<1>4. call.phase # "idle" /\ ph \in Phases
  BY <1>1, <1>2 DEF Phases
<1>5. GoesOn(ph) /\ refused' = refused
  BY <1>3, <1>4, GotoGoesOn DEF QInv
<1>6. Here' = Here
  BY <1>1, <1>5, HereKept
<1>7. /\ selected' \in [Problem -> Selections]
      /\ selected'[call.problem].columns = ColumnsOf(LayoutOf(call.problem), call.request)
  BY <1>1, <1>3, ColumnsStored
<1>8. own' \in [Problem -> Workspaces] /\ shared' \in [Method -> Workspaces]
  BY <1>1 DEF QInv, QueryTypes
<1>9. /\ Here.layout = LayoutOf(call.problem)
      /\ Here.current => Here.model = ModelOf(call.problem)
      /\ call.by # Query => Here.current
  BY <1>1 DEF QInv, WorkspaceFits, PhaseFits
<1>10. ~(ph = "optimize") /\ (ph = "compute" \/ (ph = "select" /\ call.by # Query) => Here.current)
  BY <1>2, <1>9
<1> QED BY ONLY QInv, <1>1, <1>4, <1>5, <1>6, <1>7, <1>8, <1>9, <1>10, CallProceeds

LEMMA SelectFailsFits == ASSUME QInv, SelectFails PROVE QInv'
<1>1. /\ call.phase = "select" /\ Return /\ UNCHANGED <<pools, version, own, shared, matrix>>
      /\ selected' = [selected EXCEPT ![call.problem].columns =
                        ColumnsOf(Here.layout, call.request)]
  BY DEF SelectFails, keys
<1> QED BY <1>1, ColumnsStored, PlainReturnFits

(* A workspace after its matrix was factored, or could not be. *)
LEMMA LeftTyped ==
  ASSUME NEW w \in Workspaces, NEW model \in Models
  PROVE  /\ [w EXCEPT !.model = model] \in Workspaces
         /\ [w EXCEPT !.model = NoModel] \in Workspaces
BY DEF Workspaces, Models

LEMMA ExtractFits == ASSUME QInv, NEW ok \in BOOLEAN, Extract(ok) PROVE QInv'
<1> DEFINE Left(w) == IF ok THEN w ELSE [w EXCEPT !.model = NoModel]
<1>1. PICK model : model = Here.model
  OBVIOUS
<1>2. /\ call.phase = "compute" /\ call' = Idle /\ refused' = refused
      /\ UNCHANGED <<pools, version, selected>>
      /\ IF call.by \in caching
         THEN /\ own' = [own EXCEPT ![call.problem] = Left([@ EXCEPT !.model = model])]
              /\ UNCHANGED shared
         ELSE HereBecomes(Left(Here))
      /\ IF ok THEN matrix' = [matrix EXCEPT ![call.problem] =
                                 [columns |-> selected[call.problem].columns,
                                  from |-> model, asked |-> call.request]]
         ELSE UNCHANGED matrix
  BY <1>1, Zenon DEF Extract, Assembled, Return, keys
<1>3. /\ call.phase # "idle" /\ call.problem \in Problem /\ call.request \in Seq(Block)
      /\ Here \in Workspaces
  BY <1>2, CallTyped DEF QInv
<1>4. /\ Here.layout = LayoutOf(call.problem) /\ Here.current
      /\ model = ModelOf(call.problem)
      /\ selected[call.problem].columns = ColumnsOf(LayoutOf(call.problem), call.request)
  BY <1>1, <1>2 DEF QInv, WorkspaceFits, PhaseFits
<1>5. model \in Models
  BY <1>3, <1>4, LayoutTyped
<1>6. own' \in [Problem -> Workspaces] /\ shared' \in [Method -> Workspaces]
  <2>1. own \in [Problem -> Workspaces] /\ shared \in [Method -> Workspaces]
    BY DEF QInv, QueryTypes
  <2>2. CASE call.by \in caching
    <3>1. PICK before \in Workspaces : before = own[call.problem]
      BY <1>3, <2>1
    <3>2. PICK after : after = Left([before EXCEPT !.model = model])
      OBVIOUS
    <3>3. after \in Workspaces
      <4>1. [before EXCEPT !.model = model] \in Workspaces
        BY <1>5, LeftTyped
      <4>2. Left([before EXCEPT !.model = model]) \in Workspaces
        BY <4>1, <1>5, LeftTyped
      <4> QED BY <3>2, <4>2
    <3>4. own' = [own EXCEPT ![call.problem] = after] /\ shared' = shared
      <4>1. own' = [own EXCEPT ![call.problem] = Left([own[call.problem] EXCEPT !.model = model])]
        BY <1>2, <2>2
      <4> QED BY <1>2, <2>2, <3>1, <3>2, <4>1
    <3> HIDE DEF Left
    <3> QED BY <2>1, <3>3, <3>4
  <2>3. CASE call.by \notin caching
    <3>1. HereBecomes(Left(Here))
      BY <1>2, <2>3
    <3>2. Left(Here) \in Workspaces
      BY <1>3, <1>5, LeftTyped
    <3> HIDE DEF Left
    <3> QED BY <1>3, <3>1, <3>2, HereReplaced DEF QInv
  <2> QED BY <2>2, <2>3
<1>7. selected' \in [Problem -> Selections]
  BY <1>2 DEF QInv, QueryTypes
<1>8. matrix' \in [Problem -> Matrices] /\ MatrixNamesItsBlocks'
  <2>1. matrix \in [Problem -> Matrices]
    BY DEF QInv, QueryTypes
  <2>2. CASE ~ok
    <3>1. UNCHANGED <<pools, version, matrix>>
      BY <1>2, <2>2
    <3> QED BY <2>1, <3>1, SameMatrices DEF QInv
  <2>3. CASE ok
    <3>1. PICK layout : layout = LayoutOf(call.problem) /\ layout \in Seq(Block)
      BY <1>3, LayoutTyped
    <3>2. PICK columns : columns = ColumnsOf(layout, call.request)
      OBVIOUS
    <3>3. ToSet(call.request) \subseteq ToSet(layout)
      <4>1. Legitimate(call.problem, call.request)
        BY <1>3 DEF QInv, CallFits
      <4>2. ToSet(layout) = Live(call.problem)
        BY <1>3, <3>1, LayoutIsLive DEF QInv
      <4> QED BY <4>1, <4>2 DEF Legitimate
    <3>4. /\ columns \in Seq(Nat)
          /\ Named(call.request) = [c \in DOMAIN columns |-> NameAt(layout, columns[c])]
      BY <1>3, <3>1, <3>2, <3>3, ColumnsNamed
    <3>5. PICK result : result = [columns |-> columns, from |-> model, asked |-> call.request]
      OBVIOUS
    <3>6. result \in Matrices
      BY <1>3, <1>5, <3>4, <3>5 DEF Matrices
    <3>7. matrix' = [matrix EXCEPT ![call.problem] = result]
      BY <1>2, <1>4, <2>3, <3>1, <3>2, <3>5
    <3>8. /\ matrix' \in [Problem -> Matrices] /\ matrix'[call.problem] = result
          /\ \A p \in Problem : p # call.problem => matrix'[p] = matrix[p]
      BY ONLY <2>1, <3>6, <3>7, <1>3
    <3>9. ASSUME NEW p \in Problem PROVE MatrixFits(p)'
      <4>1. CASE p = call.problem
        <5>1. /\ matrix'[p] = result /\ result.columns = columns
              /\ result.from = model /\ result.asked = call.request
          BY <3>5, <3>8, <4>1
        <5>2. /\ model.problem = p /\ model.layout = layout
              /\ model.version = version'[p] /\ model # NoModel
          <6>1. model = [problem |-> p, layout |-> layout, version |-> version[p]]
            BY <1>4, <3>1, <4>1 DEF ModelOf
          <6>2. DOMAIN model # DOMAIN NoModel
            <7>1. "layout" \in DOMAIN model
              BY <6>1
            <7>2. "layout" \notin DOMAIN NoModel
              BY DEF NoModel
            <7> QED BY <7>1, <7>2
          <6> QED BY <1>2, <6>1, <6>2
        <5>3. LayoutOf(p)' = layout
          BY <1>2, <3>1, <4>1 DEF LayoutOf
        <5>4. Named(call.request) = [c \in DOMAIN columns |-> NameAt(layout, columns[c])]
          BY <3>4
        <5>5. /\ matrix'[p].from # NoModel /\ matrix'[p].from.problem = p
              /\ matrix'[p].from.version = version'[p]
              /\ matrix'[p].from.layout = LayoutOf(p)'
              /\ Named(matrix'[p].asked) = [c \in DOMAIN matrix'[p].columns |->
                                              NameAt(matrix'[p].from.layout, matrix'[p].columns[c])]
          BY ONLY <5>1, <5>2, <5>3, <5>4
        <5> QED BY <5>5 DEF MatrixFits, NoModel, NoMatrix
      <4>2. CASE p # call.problem
        <5>1. MatrixFits(p)
          BY MatricesFit DEF QInv
        <5> QED BY <4>2, <5>1, <1>2, <3>8, MatrixKept
      <4> QED BY <4>1, <4>2
    <3> QED BY <3>8, <3>9 DEF MatrixNamesItsBlocks, MatrixFits
  <2> QED BY <2>2, <2>3
<1> QED BY ONLY QInv, <1>2, <1>6, <1>7, <1>8, ReturnFits

LEMMA QueriesStutter == ASSUME QInv, UNCHANGED vars PROVE QInv'
BY DEF QInv, vars, QueryTypes, AtHome, MatrixNamesItsBlocks, CallFits, WorkspaceFits, PhaseFits,
       Legitimate, Live, LayoutOf, ModelOf, Here, Query

LEMMA QueryStep == QInv /\ [Next]_vars => QInv'
<1> SUFFICES ASSUME QInv, [Next]_vars PROVE QInv'
  OBVIOUS
<1>1. ASSUME NEW b \in Block, AddState(b) \/ RemoveState(b) PROVE QInv'
  BY <1>1, AddStateFits, RemoveStateFits
<1>2. ASSUME NEW p \in Problem, Change(p) PROVE QInv'
  BY <1>2, ChangeFits
<1>3. ASSUME NEW p \in Problem, NEW by \in Method \cup {Query}, NEW r \in Request,
             NEW t \in Tolerance, NEW legal \in BOOLEAN, Begin(p, by, r, t, legal)
      PROVE  QInv'
  BY <1>3, BeginFits
<1>4. ASSUME NEW p \in Problem, NEW m \in Method, Optimize(p, m) PROVE QInv'
  BY <1>4, OptimizeFits
<1>5. CASE Prepare \/ PrepareFails
  BY <1>5, PrepareFits, PrepareFailsFits
<1>6. CASE Iterate \/ AcceptStep \/ Converge \/ OptimizeFails \/ EvaluationFails
  BY <1>6, IterateFits, AcceptStepFits, ConvergeFits, OptimizeFailsFits, EvaluationFailsFits
<1>7. CASE LinearizeForCovariance \/ Select \/ SelectFails
  BY <1>7, LinearizeForCovarianceFits, SelectFits, SelectFailsFits
<1>8. ASSUME NEW ok \in BOOLEAN, Extract(ok) PROVE QInv'
  BY <1>8, ExtractFits
<1>9. CASE UNCHANGED vars
  BY <1>9, QueriesStutter
<1> QED BY <1>1, <1>2, <1>3, <1>4, <1>5, <1>6, <1>7, <1>8, <1>9 DEF Next

LEMMA QueriesStay == Spec => []QInv
<1>1. Init => QInv
  BY QueriesStart
<1>2. QInv /\ [Next]_vars => QInv'
  BY QueryStep
<1> QED BY <1>1, <1>2, PTL DEF Spec

(* As long as a matrix can be looked at, its rows and columns are those of *)
(* the states asked for and its model is that of the problem as it is: for *)
(* any problems, methods, pools and requests (covariance.rs:66-176,        *)
(* solver.rs:200-273).                                                     *)
THEOREM MatricesNameTheirBlocks == Spec => []MatrixNamesItsBlocks
<1>1. QInv => MatrixNamesItsBlocks
  BY DEF QInv
<1> QED BY <1>1, QueriesStay, PTL

(* What JudgedBeforehand says of a state. *)
RequestsJudged == \A p \in Problem, r \in Request :
                    Verdict(p, r, TRUE) = "ok" <=> Legitimate(p, r)

(* Only the beginning of a call refuses, and it changes nothing else. *)
LEMMA RefusalsChangeNothing ==
  ASSUME QInv, [Next]_vars, refused' = "before"
  PROVE  UNCHANGED <<keys, version, own, shared, selected>> \/ UNCHANGED vars
<1>1. ASSUME NEW p, Edit(p) PROVE FALSE
  BY <1>1 DEF Edit
<1>2. ASSUME NEW b \in Block, AddState(b) \/ RemoveState(b) PROVE FALSE
  BY <1>1, <1>2 DEF AddState, RemoveState
<1>3. ASSUME NEW p \in Problem, Change(p) PROVE FALSE
  BY <1>1, <1>3 DEF Change
<1>4. ASSUME NEW p \in Problem, NEW by \in Method \cup {Query}, NEW r \in Request,
             NEW t \in Tolerance, NEW legal \in BOOLEAN, Begin(p, by, r, t, legal)
      PROVE  UNCHANGED <<keys, version, own, shared, selected>>
  <2>1. CASE Verdict(p, r, legal) = "ok"
    <3>1. refused' = "no"
      BY <1>4, <2>1 DEF Begin, Start
    <3> QED BY <3>1
  <2>2. CASE Verdict(p, r, legal) # "ok"
    BY <1>4, <2>2 DEF Begin
  <2> QED BY <2>1, <2>2
<1>5. ASSUME NEW p \in Problem, NEW m \in Method, Optimize(p, m) PROVE FALSE
  BY <1>5 DEF Optimize, Start
<1>6. ASSUME call.phase # "idle", refused' = refused PROVE FALSE
  BY <1>6 DEF QInv, CallFits
<1>7. CASE Prepare \/ PrepareFails
  BY <1>6, <1>7 DEF Prepare, PrepareFails, Goto, Return
<1>8. CASE Iterate \/ AcceptStep \/ Converge \/ OptimizeFails \/ EvaluationFails
  BY <1>6, <1>8 DEF Iterate, AcceptStep, Converge, OptimizeFails, EvaluationFails, Goto, Return
<1>9. CASE LinearizeForCovariance \/ Select \/ SelectFails
  BY <1>6, <1>9 DEF LinearizeForCovariance, Select, SelectFails, Goto, Return
<1>10. ASSUME NEW ok \in BOOLEAN, Extract(ok) PROVE FALSE
  <2>1. call.phase = "compute" /\ refused' = refused
    BY <1>10 DEF Extract, Return
  <2> QED BY <1>6, <2>1
<1> QED BY <1>2, <1>3, <1>4, <1>5, <1>7, <1>8, <1>9, <1>10 DEF Next

(* Requests are judged before anything is evaluated, for exactly what they *)
(* are, and never afterwards (solver.rs:235, 261-273).                     *)
THEOREM RequestsAreJudgedBeforehand == Spec => JudgedBeforehand
<1> DEFINE Judged ==
      /\ pools' # pools => \A p \in Problem, r \in Request :
                             (Verdict(p, r, TRUE) = "ok" <=> Legitimate(p, r))'
      /\ refused' # "late"
      /\ refused' = "before" => UNCHANGED <<keys, version, own, shared, selected>>
<1>1. QInv => RequestsJudged
  <2>1. Request \subseteq Seq(Block)
    BY RequestAssumption
  <2> QED BY <2>1, VerdictIsExact DEF QInv, RequestsJudged
<1>2. QInv /\ QInv' /\ RequestsJudged' /\ [Next]_vars => [Judged]_vars
  <2> SUFFICES ASSUME QInv, QInv', RequestsJudged', [Next]_vars, ~UNCHANGED vars
               PROVE  Judged
    OBVIOUS
  <2>1. \A p \in Problem, r \in Request : (Verdict(p, r, TRUE) = "ok" <=> Legitimate(p, r))'
    BY DEF RequestsJudged
  <2>2. refused' # "late"
    BY DEF QInv, QueryTypes
  <2>3. refused' = "before" => UNCHANGED <<keys, version, own, shared, selected>>
    BY RefusalsChangeNothing
  <2> QED BY <2>1, <2>2, <2>3
<1>3. [][Judged]_vars <=> JudgedBeforehand
  BY DEF JudgedBeforehand
<1> HIDE DEF Judged
<1> QED BY <1>1, <1>2, <1>3, QueriesStay, PTL DEF Spec
=============================================================================
