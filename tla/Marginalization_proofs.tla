----------------------- MODULE Marginalization_proofs -----------------------
(* Edits and marginalizations keep a graph whole, its priors exact and its *)
(* information counted once; and marginalization is atomic.  For any       *)
(* states, factors and dependencies, any number of pools of any width, and *)
(* whatever fails or panics.                                               *)
(*                                                                         *)
(* What the runs check speaks of the times between calls.  The inductive   *)
(* invariant says it of the graph as InformationGraph sees it, at every    *)
(* step: the front and the pending prior are in it until publication       *)
(* begins, their replacement from then on.  So a single step changes the   *)
(* graph, DeleteFactors, and every other step of a marginalization has to  *)
(* leave it alone (SameGraph).  What the steps before have planned and     *)
(* what the steps after have left to delete is told by the phase           *)
(* (RunFits), and which anchors are in place by the pool that the pass has *)
(* come to (AnchorsFit).                                                   *)
EXTENDS Marginalization, DensePoolOps_proofs, WellFoundedInduction

(***************************************************************************)
(* Recursion on the natural numbers.  The library states induction for an  *)
(* operator, which the provers cannot instantiate; here it is for a set.   *)
(***************************************************************************)
LEMMA SetInduction ==
  ASSUME NEW S, 0 \in S, \A n \in Nat : n \in S => n + 1 \in S
  PROVE  Nat \subseteq S
<1> DEFINE T == Nat \ S
           R == OpToRel(<, Nat)
<1> SUFFICES ASSUME T # {} PROVE FALSE
  OBVIOUS
<1>1. IsWellFoundedOn(R, Nat)
  BY NatLessThanWellFounded
<1>2. T \subseteq Nat
  OBVIOUS
<1> HIDE DEF T, R
<1>3. \E x \in T : \A y \in T : ~ (<<y, x>> \in R)
  BY <1>1, <1>2, WFMin
<1>4. PICK x \in T : \A y \in T : ~ (<<y, x>> \in R)
  BY <1>3
<1>5. x \in Nat /\ x # 0
  BY <1>2 DEF T
<1>6. x - 1 \in Nat /\ x - 1 + 1 = x
  BY <1>5
<1>7. <<x - 1, x>> \in R
  BY <1>5, <1>6 DEF R, OpToRel
<1>8. x - 1 \notin T
  BY <1>4, <1>7
<1> QED BY <1>8, <1>6 DEF T

(* f starts at a and goes on, up to n, as h says. *)
Unfolds(f, n, A, a, h) ==
  /\ f \in [0..n -> A]
  /\ f[0] = a
  /\ \A i \in 1..n : f[i] = h[i][f[i - 1]]

(* Step functions unfold: what recursion up to n defines is there. *)
LEMMA RecursionExists ==
  ASSUME NEW A, NEW a \in A, NEW h \in [Nat -> [A -> A]], NEW n \in Nat
  PROVE  \E f : Unfolds(f, n, A, a, h)
<1> DEFINE S == {m \in Nat : \E f \in [0..m -> A] :
                               f[0] = a /\ \A i \in 1..m : f[i] = h[i][f[i - 1]]}
<1>1. 0 \in S
  <2> DEFINE g == [i \in 0..0 |-> a]
  <2>1. g \in [0..0 -> A] /\ g[0] = a /\ \A i \in 1..0 : g[i] = h[i][g[i - 1]]
    OBVIOUS
  <2> QED BY <2>1
<1>2. ASSUME NEW m \in Nat, m \in S PROVE m + 1 \in S
  <2>1. PICK f \in [0..m -> A] : f[0] = a /\ \A i \in 1..m : f[i] = h[i][f[i - 1]]
    BY <1>2
  <2> DEFINE g == [i \in 0..(m + 1) |-> IF i <= m THEN f[i] ELSE h[m + 1][f[m]]]
  <2>2. g \in [0..(m + 1) -> A]
    BY <2>1
  <2>3. g[0] = a
    BY <2>1
  <2>4. ASSUME NEW i \in 1..(m + 1) PROVE g[i] = h[i][g[i - 1]]
    <3>1. CASE i <= m
      BY <3>1, <2>1
    <3>2. CASE i = m + 1
      BY <3>2
    <3> QED BY <3>1, <3>2
  <2> HIDE DEF g
  <2>5. \E f2 \in [0..(m + 1) -> A] :
           f2[0] = a /\ \A i \in 1..(m + 1) : f2[i] = h[i][f2[i - 1]]
    BY <2>2, <2>3, <2>4
  <2> QED BY <2>5
<1> HIDE DEF S
<1>3. n \in S
  BY <1>1, <1>2, SetInduction
<1> QED BY <1>3 DEF S, Unfolds

(* f keeps of each prefix of s what is in S. *)
KeepsPrefixes(f, T, s, S) ==
  /\ f \in [0..Len(s) -> Seq(T)]
  /\ f[0] = <<>>
  /\ \A i \in 1..Len(s) : f[i] = IF s[i] \in S THEN Append(f[i - 1], s[i]) ELSE f[i - 1]

(* Keep goes over the prefixes of its sequence. *)
LEMMA KeepIsPrefixwise ==
  ASSUME NEW T, NEW s \in Seq(T), NEW S
  PROVE  \E f : KeepsPrefixes(f, T, s, S) /\ Keep(s, S) = f[Len(s)]
<1> DEFINE h == [i \in Nat |-> [q \in Seq(T) |->
                   IF i \in 1..Len(s) /\ s[i] \in S THEN Append(q, s[i]) ELSE q]]
<1>1. h \in [Nat -> [Seq(T) -> Seq(T)]]
  OBVIOUS
<1>2. <<>> \in Seq(T) /\ Len(s) \in Nat
  OBVIOUS
<1>3. PICK f : Unfolds(f, Len(s), Seq(T), <<>>, h)
  <2> HIDE DEF h
  <2> QED BY <1>1, <1>2, RecursionExists
<1>4. ASSUME NEW i \in 1..Len(s)
      PROVE  f[i] = IF s[i] \in S THEN Append(f[i - 1], s[i]) ELSE f[i - 1]
  <2>1. i - 1 \in 0..Len(s) /\ i \in Nat
    BY <1>2
  <2>2. f[i - 1] \in Seq(T)
    BY <1>3, <2>1 DEF Unfolds
  <2> QED BY <1>3, <2>2, <2>1 DEF Unfolds
<1>5. f = [i \in 0..Len(s) |->
            IF i = 0 THEN <<>>
            ELSE IF s[i] \in S THEN Append(f[i - 1], s[i]) ELSE f[i - 1]]
  <2> DEFINE b == [i \in 0..Len(s) |->
            IF i = 0 THEN <<>>
            ELSE IF s[i] \in S THEN Append(f[i - 1], s[i]) ELSE f[i - 1]]
  <2>1. ASSUME NEW i \in 0..Len(s) PROVE f[i] = b[i]
    <3>1. CASE i = 0
      BY <3>1, <1>3 DEF Unfolds
    <3>2. CASE i # 0
      <4>1. i \in 1..Len(s)
        BY <3>2, <1>2
      <4> QED BY <4>1, <3>2, <1>4
    <3> QED BY <3>1, <3>2
  <2>2. DOMAIN b = 0..Len(s) /\ b = [i \in DOMAIN b |-> b[i]]
    OBVIOUS
  <2>3. DOMAIN f = 0..Len(s) /\ f = [i \in DOMAIN f |-> f[i]]
    BY <1>3 DEF Unfolds
  <2> HIDE DEF b
  <2>4. f = b
    BY <2>1, <2>2, <2>3
  <2> QED BY <2>4 DEF b
<1> DEFINE g == CHOOSE g : g = [i \in 0..Len(s) |->
                                  IF i = 0 THEN <<>>
                                  ELSE IF s[i] \in S THEN Append(g[i - 1], s[i]) ELSE g[i - 1]]
<1>6. g = [i \in 0..Len(s) |->
                                  IF i = 0 THEN <<>>
                                  ELSE IF s[i] \in S THEN Append(g[i - 1], s[i]) ELSE g[i - 1]]
  BY <1>5
<1>7. Keep(s, S) = g[Len(s)]
  BY DEF Keep
<1> HIDE DEF g
<1>8. g[0] = <<>> /\ \A i \in 1..Len(s) : g[i] = IF s[i] \in S THEN Append(g[i - 1], s[i]) ELSE g[i - 1]
  <2>1. ASSUME NEW i \in 0..Len(s)
        PROVE  g[i] = IF i = 0 THEN <<>>
                      ELSE IF s[i] \in S THEN Append(g[i - 1], s[i]) ELSE g[i - 1]
    BY ONLY <1>6, <2>1, Zenon
  <2>2. 0 \in 0..Len(s) /\ \A i \in 1..Len(s) : i \in 0..Len(s) /\ i # 0
    BY <1>2
  <2> QED BY ONLY <2>1, <2>2
<1> DEFINE P == {m \in Nat : m <= Len(s) => g[m] \in Seq(T)}
<1>9. ASSUME NEW m \in Nat, m \in P PROVE m + 1 \in P
  <2> SUFFICES ASSUME m + 1 <= Len(s) PROVE g[m + 1] \in Seq(T)
    OBVIOUS
  <2>1. g[m] \in Seq(T) /\ m + 1 \in 1..Len(s) /\ m + 1 - 1 = m
    BY <1>9, <1>2
  <2>2. s[m + 1] \in T
    BY <2>1
  <2>3. g[m + 1] = IF s[m + 1] \in S THEN Append(g[m], s[m + 1]) ELSE g[m]
    BY <1>8, <2>1
  <2> QED BY ONLY <2>1, <2>2, <2>3
<1>10. 0 \in P
  BY <1>8, <1>2
<1>11. Nat \subseteq P
  <2> HIDE DEF P
  <2> QED BY <1>9, <1>10, SetInduction
<1>12. g \in [0..Len(s) -> Seq(T)]
  <2>1. \A m \in 0..Len(s) : g[m] \in Seq(T)
    BY <1>11, <1>2
  <2> QED BY <2>1, <1>6
<1> QED BY <1>7, <1>8, <1>12 DEF KeepsPrefixes
(***************************************************************************)
(* Sequences.                                                              *)
(***************************************************************************)
(* The elements of a sequence are distinct. *)
Distinct(s) == \A i, j \in 1..Len(s) : s[i] = s[j] => i = j

(* The elements of a sequence. *)
LEMMA RangeIsImage ==
  ASSUME NEW T, NEW s \in Seq(T)
  PROVE  /\ Range(s) = {s[i] : i \in 1..Len(s)}
         /\ Range(s) \subseteq T
         /\ \A x : x \in Range(s) <=> \E i \in 1..Len(s) : s[i] = x
<1>1. DOMAIN s = 1..Len(s) /\ \A i \in 1..Len(s) : s[i] \in T
  BY LenProperties, ElementOfSeq
<1> QED BY <1>1 DEF Range

(* What it is to be one of them. *)
LEMMA InRange ==
  ASSUME NEW T, NEW s \in Seq(T), NEW x
  PROVE  x \in Range(s) <=> \E i \in 1..Len(s) : s[i] = x
<1>1. DOMAIN s = 1..Len(s)
  BY LenProperties
<1> QED BY ONLY <1>1 DEF Range

(* Keep keeps just the elements in the set, and as distinct as they were. *)
LEMMA KeepProperties ==
  ASSUME NEW T, NEW s \in Seq(T), NEW S
  PROVE  /\ Keep(s, S) \in Seq(T)
         /\ Range(Keep(s, S)) = Range(s) \cap S
         /\ Distinct(s) => Distinct(Keep(s, S))
<1>0. PICK f : KeepsPrefixes(f, T, s, S) /\ Keep(s, S) = f[Len(s)]
  BY KeepIsPrefixwise
<1>1. /\ f \in [0..Len(s) -> Seq(T)]
      /\ f[0] = <<>>
      /\ \A i \in 1..Len(s) : f[i] = IF s[i] \in S THEN Append(f[i - 1], s[i]) ELSE f[i - 1]
      /\ Keep(s, S) = f[Len(s)]
  BY <1>0 DEF KeepsPrefixes
<1>2. Len(s) \in Nat
  OBVIOUS
<1> DEFINE Has(q, m) == \A x : (\E i \in 1..Len(q) : q[i] = x) <=> x \in S /\ \E j \in 1..m : s[j] = x
           P == {m \in Nat : m <= Len(s) => /\ Has(f[m], m)
                                            /\ Distinct(s) => Distinct(f[m])}
<1>3. 0 \in P
  BY <1>1, <1>2 DEF Distinct
<1>4. ASSUME NEW m \in Nat, m \in P PROVE m + 1 \in P
  <2> SUFFICES ASSUME m + 1 <= Len(s)
               PROVE  Has(f[m + 1], m + 1) /\ (Distinct(s) => Distinct(f[m + 1]))
    OBVIOUS
  <2>1. m \in 0..Len(s) /\ m + 1 \in 1..Len(s) /\ m + 1 - 1 = m
    BY <1>2
  <2>2. PICK q \in Seq(T) : q = f[m]
    BY <1>1, <2>1
  <2>3. PICK x \in T : x = s[m + 1]
    BY <2>1
  <2>7. f[m + 1] = IF x \in S THEN Append(q, x) ELSE q
    BY <1>1, <2>1, <2>2, <2>3
  <2>4. Has(q, m) /\ (Distinct(s) => Distinct(q))
    BY <1>4, <2>1, <2>2
  <2>5. CASE x \notin S
    <3>1. f[m + 1] = q
      BY ONLY <2>7, <2>5
    <3>2. Has(q, m + 1)
      BY <2>3, <2>4, <2>5
    <3> QED BY <3>1, <3>2, <2>4
  <2>6. CASE x \in S
    <3>1. f[m + 1] = Append(q, x)
      BY ONLY <2>7, <2>6
    <3> DEFINE r == Append(q, x)
    <3>2. /\ Len(q) \in Nat /\ Len(r) = Len(q) + 1 /\ r[Len(q) + 1] = x
          /\ \A i \in 1..Len(q) : r[i] = q[i]
      BY <2>2, <2>3
    <3> HIDE DEF r
    <3>3. Has(r, m + 1)
      <4>1. ASSUME NEW i \in 1..Len(r) PROVE r[i] \in S /\ \E j \in 1..(m + 1) : s[j] = r[i]
        <5>1. CASE i = Len(q) + 1
          BY <5>1, <3>2, <2>3, <2>6, <2>1
        <5>2. CASE i # Len(q) + 1
          <6>1. i \in 1..Len(q) /\ r[i] = q[i]
            BY <5>2, <3>2
          <6>2. r[i] \in S /\ \E j \in 1..m : s[j] = r[i]
            BY <6>1, <2>4
          <6> QED BY <6>2
        <5> QED BY <5>1, <5>2
      <4>2. ASSUME NEW j \in 1..(m + 1), s[j] \in S PROVE \E i \in 1..Len(r) : r[i] = s[j]
        <5>1. CASE j = m + 1
          BY <5>1, <3>2, <2>3
        <5>2. CASE j # m + 1
          <6>1. PICK i \in 1..Len(q) : q[i] = s[j]
            BY <5>2, <4>2, <2>4
          <6> QED BY <6>1, <3>2
        <5> QED BY <5>1, <5>2
      <4> QED BY <4>1, <4>2
    <3>4. ASSUME Distinct(s) PROVE Distinct(r)
      <4>1. \A i \in 1..Len(q) : q[i] # x
        <5> SUFFICES ASSUME NEW i \in 1..Len(q), q[i] = x PROVE FALSE
          OBVIOUS
        <5>1. PICK j \in 1..m : s[j] = x
          BY <2>4
        <5> QED BY <5>1, <2>1, <2>3, <3>4 DEF Distinct
      <4> QED BY <4>1, <3>2, <3>4, <2>4 DEF Distinct
    <3> QED BY <3>1, <3>3, <3>4 DEF r
  <2> QED BY <2>5, <2>6
<1> HIDE DEF P
<1>5. Len(s) \in P
  BY <1>2, <1>3, <1>4, SetInduction
<1>6. Has(Keep(s, S), Len(s)) /\ (Distinct(s) => Distinct(Keep(s, S)))
  BY <1>1, <1>2, <1>5 DEF P
<1>7. Keep(s, S) \in Seq(T)
  BY <1>1, <1>2
<1>8. Range(Keep(s, S)) = Range(s) \cap S
  <2>1. \A x : x \in Range(Keep(s, S)) <=> \E i \in 1..Len(Keep(s, S)) : Keep(s, S)[i] = x
    BY <1>7, InRange
  <2>2. \A x : x \in Range(s) <=> \E i \in 1..Len(s) : s[i] = x
    BY InRange
  <2> QED BY <1>6, <2>1, <2>2
<1> QED BY <1>6, <1>7, <1>8

(* FlattenSeq joins the elements of all its sequences, distinct if they    *)
(* were distinct in each and no two shared one.                            *)
JoinsPrefixes(f, T, s) ==
  /\ f \in [0..Len(s) -> Seq(T)]
  /\ f[0] = <<>>
  /\ \A i \in 1..Len(s) : f[i] = f[i - 1] \o s[i]

(* FlattenSeq goes over the prefixes of its sequence. *)
LEMMA FlattenIsPrefixwise ==
  ASSUME NEW T, NEW s \in Seq(Seq(T))
  PROVE  \E f : JoinsPrefixes(f, T, s) /\ FlattenSeq(s) = f[Len(s)]
<1>1. Len(s) \in Nat /\ <<>> \in Seq(T) /\ \A i \in 1..Len(s) : s[i] \in Seq(T)
  BY LenProperties, ElementOfSeq
<1> DEFINE h == [i \in Nat |-> [q \in Seq(T) |-> IF i \in 1..Len(s) THEN q \o s[i] ELSE q]]
<1>2. h \in [Nat -> [Seq(T) -> Seq(T)]]
  BY <1>1, ConcatProperties
<1>3. PICK f : Unfolds(f, Len(s), Seq(T), <<>>, h)
  <2> HIDE DEF h
  <2> QED BY <1>1, <1>2, RecursionExists
<1>4. JoinsPrefixes(f, T, s)
  <2>1. f \in [0..Len(s) -> Seq(T)] /\ f[0] = <<>> /\ \A i \in 1..Len(s) : f[i] = h[i][f[i - 1]]
    BY <1>3 DEF Unfolds
  <2>2. ASSUME NEW i \in 1..Len(s) PROVE f[i] = f[i - 1] \o s[i]
    <3>1. i - 1 \in 0..Len(s) /\ i \in Nat
      BY <1>1
    <3> QED BY <3>1, <2>1
  <2> QED BY <2>1, <2>2 DEF JoinsPrefixes
<1>5. CASE Len(s) = 0
  <2>1. s = <<>> /\ FlattenSeq(s) = s
    BY <1>5, EmptySeq DEF FlattenSeq
  <2> QED BY <1>4, <1>5, <2>1 DEF JoinsPrefixes
<1>6. CASE Len(s) # 0
  <2> DEFINE b == [i \in 1..Len(s) |-> f[i]]
             g == CHOOSE g : g = [i \in 1..Len(s) |-> IF i = 1 THEN s[i] ELSE g[i - 1] \o s[i]]
  <2>1. \A i \in 1..Len(s) : b[i] = IF i = 1 THEN s[i] ELSE b[i - 1] \o s[i]
    <3> SUFFICES ASSUME NEW i \in 1..Len(s)
                 PROVE  b[i] = IF i = 1 THEN s[i] ELSE b[i - 1] \o s[i]
      OBVIOUS
    <3>1. b[i] = f[i - 1] \o s[i] /\ s[i] \in Seq(T)
      BY <1>1, <1>4 DEF JoinsPrefixes
    <3>2. CASE i = 1
      <4>3. i - 1 = 0 /\ f[0] = <<>>
        BY <3>2, <1>4 DEF JoinsPrefixes
      <4>1. b[i] = <<>> \o s[i]
        BY ONLY <3>1, <4>3
      <4>2. <<>> \o s[i] = s[i]
        BY <3>1, ConcatEmptySeq
      <4> QED BY <3>2, <4>1, <4>2
    <3>3. CASE i # 1
      <4>1. i - 1 \in 1..Len(s)
        BY <3>3, <1>1
      <4> QED BY <3>1, <3>3, <4>1
    <3> QED BY <3>2, <3>3
  <2>2. b = [i \in 1..Len(s) |-> IF i = 1 THEN s[i] ELSE b[i - 1] \o s[i]]
    BY <2>1, Zenon
  <2> HIDE DEF b
  <2>3. g = [i \in 1..Len(s) |-> IF i = 1 THEN s[i] ELSE g[i - 1] \o s[i]]
    BY <2>2
  <2>4. FlattenSeq(s) = g[Len(s)]
    BY <1>6 DEF FlattenSeq
  <2> HIDE DEF g
  <2>5. \A i \in 1..Len(s) : g[i] = IF i = 1 THEN s[i] ELSE g[i - 1] \o s[i]
    BY <2>3, Zenon
  <2> DEFINE P == {m \in Nat : m \in 1..Len(s) => g[m] = b[m]}
  <2>6. 0 \in P
    OBVIOUS
  <2>7. ASSUME NEW m \in Nat, m \in P PROVE m + 1 \in P
    <3> SUFFICES ASSUME m + 1 \in 1..Len(s) PROVE g[m + 1] = b[m + 1]
      OBVIOUS
    <3>1. CASE m = 0
      BY <3>1, <2>1, <2>5
    <3>2. CASE m # 0
      <4>1. m \in 1..Len(s) /\ m + 1 - 1 = m /\ m + 1 # 1
        BY <3>2, <1>1
      <4>2. g[m] = b[m]
        BY <4>1, <2>7
      <4>3. g[m + 1] = g[m] \o s[m + 1] /\ b[m + 1] = b[m] \o s[m + 1]
        <5>1. PICK k \in 1..Len(s) : k = m + 1
          OBVIOUS
        <5>2. k # 1 /\ k - 1 = m
          BY <5>1, <4>1
        <5>3. /\ g[k] = IF k = 1 THEN s[k] ELSE g[k - 1] \o s[k]
              /\ b[k] = IF k = 1 THEN s[k] ELSE b[k - 1] \o s[k]
          BY ONLY <2>1, <2>5, k \in 1..Len(s)
        <5>4. g[k] = g[k - 1] \o s[k] /\ b[k] = b[k - 1] \o s[k]
          BY ONLY <5>2, <5>3
        <5> QED BY ONLY <5>1, <5>2, <5>4
      <4> QED BY <4>2, <4>3
    <3> QED BY <3>1, <3>2
  <2> HIDE DEF P
  <2>8. Len(s) \in P
    BY <1>1, <2>6, <2>7, SetInduction
  <2>9. Len(s) \in 1..Len(s)
    BY <1>1, <1>6
  <2>10. FlattenSeq(s) = f[Len(s)]
    BY <2>4, <2>8, <2>9 DEF P, b
  <2> QED BY <1>4, <2>10
<1> QED BY <1>5, <1>6

(* Two sequences of a sequence share no element. *)
Apart(s) == /\ \A i \in 1..Len(s) : Distinct(s[i])
            /\ \A i, j \in 1..Len(s) : i # j => Range(s[i]) \cap Range(s[j]) = {}

(* The elements of a concatenation. *)
LEMMA ConcatRange ==
  ASSUME NEW T, NEW q \in Seq(T), NEW t \in Seq(T)
  PROVE  /\ q \o t \in Seq(T)
         /\ Range(q \o t) = Range(q) \cup Range(t)
         /\ Distinct(q) /\ Distinct(t) /\ Range(q) \cap Range(t) = {} => Distinct(q \o t)
<1>1. PICK r \in Seq(T) : r = q \o t
  BY ConcatProperties
<1>2. PICK m \in Nat, n \in Nat : m = Len(q) /\ n = Len(t)
  BY LenProperties
<1>3. /\ Len(r) = m + n
      /\ \A i \in 1..(m + n) : r[i] = IF i <= m THEN q[i] ELSE t[i - m]
  BY ONLY <1>1, <1>2, q \in Seq(T), t \in Seq(T), ConcatProperties
<1>4. \A x : x \in Range(r) <=> \E i \in 1..(m + n) : r[i] = x
  BY <1>3, InRange
<1>5. \A x : x \in Range(q) <=> \E i \in 1..m : q[i] = x
  BY <1>2, InRange
<1>6. \A x : x \in Range(t) <=> \E i \in 1..n : t[i] = x
  BY <1>2, InRange
<1>7. \A i \in 1..(m + n) : i <= m => i \in 1..m /\ r[i] = q[i]
  BY ONLY <1>2, <1>3
<1>8. \A i \in 1..(m + n) : ~(i <= m) => i - m \in 1..n /\ r[i] = t[i - m]
  BY ONLY <1>2, <1>3
<1>9. \A i \in 1..m : i \in 1..(m + n) /\ i <= m
  BY ONLY <1>2
<1>10. \A i \in 1..n : i + m \in 1..(m + n) /\ ~(i + m <= m) /\ i + m - m = i
  BY ONLY <1>2
<1>11. Range(r) = Range(q) \cup Range(t)
  <2>1. ASSUME NEW i \in 1..(m + n) PROVE r[i] \in Range(q) \cup Range(t)
    BY ONLY <2>1, <1>5, <1>6, <1>7, <1>8
  <2>2. ASSUME NEW i \in 1..m PROVE q[i] \in Range(r)
    BY ONLY <2>2, <1>4, <1>7, <1>9
  <2>3. ASSUME NEW i \in 1..n PROVE t[i] \in Range(r)
    <3>1. r[i + m] = t[i] /\ i + m \in 1..(m + n)
      BY ONLY <2>3, <1>8, <1>10
    <3> QED BY ONLY <3>1, <1>4
  <2> QED BY ONLY <2>1, <2>2, <2>3, <1>4, <1>5, <1>6
<1>12. ASSUME Distinct(q), Distinct(t), Range(q) \cap Range(t) = {}
       PROVE  Distinct(r)
  <2>1. \A i, j \in 1..m : q[i] = q[j] => i = j
    BY <1>2, <1>12 DEF Distinct
  <2>2. \A i, j \in 1..n : t[i] = t[j] => i = j
    BY <1>2, <1>12 DEF Distinct
  <2>3. \A i \in 1..m, j \in 1..n : q[i] # t[j]
    BY ONLY <1>5, <1>6, <1>12
  <2>4. ASSUME NEW i \in 1..(m + n), NEW j \in 1..(m + n), r[i] = r[j] PROVE i = j
    <3>1. CASE i <= m /\ j <= m
      BY ONLY <3>1, <2>1, <2>4, <1>7
    <3>2. CASE ~(i <= m) /\ ~(j <= m)
      <4>1. i - m = j - m
        BY ONLY <3>2, <2>2, <2>4, <1>8
      <4> QED BY ONLY <4>1, <1>2, i \in 1..(m + n), j \in 1..(m + n)
    <3>3. CASE i <= m /\ ~(j <= m)
      BY ONLY <3>3, <2>3, <2>4, <1>7, <1>8
    <3>4. CASE ~(i <= m) /\ j <= m
      BY ONLY <3>4, <2>3, <2>4, <1>7, <1>8
    <3> QED BY ONLY <3>1, <3>2, <3>3, <3>4
  <2> QED BY <2>4, <1>3 DEF Distinct
<1> QED BY ONLY <1>1, <1>11, <1>12

(* f has joined the first m of the sequences. *)
Joined(f, s, m) == /\ Range(f[m]) = UNION {Range(s[i]) : i \in 1..m}
                   /\ Apart(s) => Distinct(f[m])

(* The elements of a flattened sequence; they are distinct when apart. *)
LEMMA FlattenProperties ==
  ASSUME NEW T, NEW s \in Seq(Seq(T))
  PROVE  /\ FlattenSeq(s) \in Seq(T)
         /\ Range(FlattenSeq(s)) = UNION {Range(s[i]) : i \in 1..Len(s)}
         /\ Apart(s) => Distinct(FlattenSeq(s))
<1>1. PICK f : JoinsPrefixes(f, T, s) /\ FlattenSeq(s) = f[Len(s)]
  BY FlattenIsPrefixwise
<1>2. /\ f \in [0..Len(s) -> Seq(T)] /\ f[0] = <<>>
      /\ \A i \in 1..Len(s) : f[i] = f[i - 1] \o s[i]
      /\ Len(s) \in Nat /\ \A i \in 1..Len(s) : s[i] \in Seq(T)
  BY <1>1, LenProperties, ElementOfSeq DEF JoinsPrefixes
<1> DEFINE P == {m \in Nat : m <= Len(s) => Joined(f, s, m)}
<1>3. 0 \in P
  <2>1. Range(<<>>) = {} /\ Distinct(<<>>)
    BY EmptySeq DEF Range, Distinct
  <2>2. \A i : i \notin 1..0
    OBVIOUS
  <2> QED BY <2>1, <2>2, <1>2 DEF Joined
<1>4. ASSUME NEW m \in Nat, m \in P PROVE m + 1 \in P
  <2> SUFFICES ASSUME m + 1 <= Len(s) PROVE Joined(f, s, m + 1)
    OBVIOUS
  <2>1. m \in 0..Len(s) /\ m + 1 \in 1..Len(s) /\ m + 1 - 1 = m /\ Joined(f, s, m)
    BY <1>2, <1>4
  <2>2. PICK q \in Seq(T) : q = f[m]
    BY <1>2, <2>1
  <2>3. PICK t \in Seq(T) : t = s[m + 1]
    BY <1>2, <2>1
  <2>4. PICK r : r = q \o t
    OBVIOUS
  <2>5. f[m + 1] = r
    <3>1. PICK k \in 1..Len(s) : k = m + 1
      BY <2>1
    <3>2. f[k] = f[k - 1] \o s[k] /\ k - 1 = m
      <4>1. \A i \in 1..Len(s) : f[i] = f[i - 1] \o s[i]
        BY <1>2
      <4>2. f[k] = f[k - 1] \o s[k]
        BY ONLY <4>1, k \in 1..Len(s)
      <4> QED BY ONLY <4>2, <3>1, m \in Nat
    <3> QED BY ONLY <3>1, <3>2, <2>2, <2>3, <2>4
  <2>6. Range(q) = UNION {Range(s[i]) : i \in 1..m} /\ (Apart(s) => Distinct(q))
    BY ONLY <2>1, <2>2 DEF Joined
  <2>7. Range(r) = Range(q) \cup Range(t)
    BY <2>4, ConcatRange
  <2>8. Range(r) = UNION {Range(s[i]) : i \in 1..(m + 1)}
    <3>1. \A i : i \in 1..(m + 1) <=> i \in 1..m \/ i = m + 1
      OBVIOUS
    <3> QED BY ONLY <3>1, <2>3, <2>6, <2>7
  <2>9. ASSUME Apart(s) PROVE Distinct(r)
    <3>1. Distinct(q) /\ Distinct(t)
      BY <2>9, <2>6, <2>3, <2>1 DEF Apart
    <3>2. \A i \in 1..m : Range(s[i]) \cap Range(t) = {}
      <4>1. \A i \in 1..m : i \in 1..Len(s) /\ i # m + 1
        BY <1>2, <2>1
      <4> QED BY ONLY <2>9, <2>3, <2>1, <4>1 DEF Apart
    <3>3. Range(q) \cap Range(t) = {}
      BY ONLY <3>2, <2>6
    <3> QED BY <3>1, <3>3, <2>4, ConcatRange
  <2> QED BY ONLY <2>5, <2>8, <2>9 DEF Joined
<1> HIDE DEF P
<1>5. Len(s) \in P
  BY <1>2, <1>3, <1>4, SetInduction
<1>6. Joined(f, s, Len(s))
  BY <1>2, <1>5 DEF P
<1>7. FlattenSeq(s) \in Seq(T)
  BY <1>1, <1>2
<1> QED BY ONLY <1>1, <1>6, <1>7 DEF Joined

(* Swapping one element out leaves the others, as distinct as they were. *)
LEMMA SwapRemoveRange ==
  ASSUME NEW T, NEW s \in Seq(T), NEW i \in 1..Len(s), Distinct(s)
  PROVE  /\ SwapRemove(s, i) \in Seq(T)
         /\ Len(SwapRemove(s, i)) = Len(s) - 1
         /\ \A j \in 1..(i - 1) : SwapRemove(s, i)[j] = s[j]
         /\ Range(SwapRemove(s, i)) = Range(s) \ {s[i]}
         /\ Distinct(SwapRemove(s, i))
<1>1. PICK n \in Nat : n = Len(s)
  BY LenProperties
<1>2. PICK r \in Seq(T) : r = SwapRemove(s, i)
  BY SwapRemoveProperties
<1>3. /\ Len(r) = n - 1 /\ i \in 1..n
      /\ \A j \in 1..(n - 1) : r[j] = IF j = i THEN s[n] ELSE s[j]
  BY <1>1, <1>2, SwapRemoveProperties, ZenonT(40)
<1>4. \A j, k \in 1..n : s[j] = s[k] => j = k
  BY <1>1 DEF Distinct
<1>5. \A x : x \in Range(r) <=> \E j \in 1..(n - 1) : r[j] = x
  BY <1>3, InRange
<1>6. \A x : x \in Range(s) <=> \E j \in 1..n : s[j] = x
  BY <1>1, InRange
<1>7. ASSUME NEW j \in 1..(n - 1) PROVE r[j] \in Range(s) \ {s[i]}
  <2>1. CASE j = i
    <3>1. r[j] = s[n] /\ n \in 1..n /\ n # i
      BY ONLY <2>1, <1>1, <1>3, <1>7
    <3> QED BY ONLY <3>1, <1>3, <1>4, <1>6
  <2>2. CASE j # i
    <3>1. r[j] = s[j] /\ j \in 1..n
      BY ONLY <2>2, <1>1, <1>3, <1>7
    <3> QED BY ONLY <3>1, <2>2, <1>3, <1>4, <1>6
  <2> QED BY <2>1, <2>2
<1>8. ASSUME NEW j \in 1..n, j # i PROVE s[j] \in Range(r)
  <2>1. CASE j = n
    <3>1. i \in 1..(n - 1) /\ r[i] = s[j]
      BY ONLY <2>1, <1>1, <1>3, <1>8
    <3> QED BY ONLY <3>1, <1>5
  <2>2. CASE j # n
    <3>1. j \in 1..(n - 1) /\ r[j] = s[j]
      BY ONLY <2>2, <1>1, <1>3, <1>8
    <3> QED BY ONLY <3>1, <1>5
  <2> QED BY <2>1, <2>2
<1>9. Range(r) = Range(s) \ {s[i]}
  BY ONLY <1>4, <1>5, <1>6, <1>7, <1>8, <1>3
<1>10. ASSUME NEW j \in 1..(n - 1), NEW k \in 1..(n - 1), r[j] = r[k] PROVE j = k
  <2>1. j \in 1..n /\ k \in 1..n /\ n \in 1..n /\ j # n /\ k # n
    BY ONLY <1>1, <1>10
  <2> QED BY ONLY <2>1, <1>3, <1>4, <1>10
<1>11. Distinct(r)
  BY <1>3, <1>10 DEF Distinct
<1>12. \A j \in 1..(i - 1) : r[j] = s[j]
  <2> SUFFICES ASSUME NEW j \in 1..(i - 1) PROVE r[j] = s[j]
    OBVIOUS
  <2>1. j \in 1..(n - 1) /\ j # i
    BY ONLY <1>1, <1>3, j \in 1..(i - 1)
  <2> QED BY ONLY <2>1, <1>3
<1> QED BY ONLY <1>1, <1>2, <1>3, <1>9, <1>11, <1>12

(* What is left after the elements above the last n - m were looked at.    *)
TakenOut(t, s, R, m) ==
  /\ Distinct(t)
  /\ Len(t) >= Len(s) - m
  /\ \A j \in 1..(Len(s) - m) : t[j] = s[j]
  /\ \A x : x \in Range(t) <=> \E j \in 1..Len(s) : s[j] = x /\ (j > Len(s) - m => x \notin R)

(* One step of the backward pass. *)
LEMMA TakenOutStep ==
  ASSUME NEW T, NEW s \in Seq(T), NEW R, NEW m \in Nat, m + 1 <= Len(s), Distinct(s),
         NEW t \in Seq(T), TakenOut(t, s, R, m), NEW k, k = Len(s) - m,
         NEW r, r = IF t[k] \in R THEN SwapRemove(t, k) ELSE t
  PROVE  r \in Seq(T) /\ TakenOut(r, s, R, m + 1)
<1>1. PICK n \in Nat : n = Len(s)
  BY LenProperties
<1>2. PICK l \in Nat : l = Len(t)
  BY LenProperties
<1>3. k \in 1..n /\ k = n - m /\ k \in 1..l /\ t[k] = s[k] /\ l >= n - m
  <2>1. l >= n - m /\ \A j \in 1..(n - m) : t[j] = s[j]
    BY <1>1, <1>2 DEF TakenOut
  <2>2. k \in 1..(n - m) /\ k \in 1..n /\ k = n - m
    BY <1>1
  <2> QED BY ONLY <2>1, <2>2, <1>2
<1>4. /\ Distinct(t)
      /\ \A j \in 1..(n - m) : t[j] = s[j]
      /\ \A x : x \in Range(t) <=> \E j \in 1..n : s[j] = x /\ (j > n - m => x \notin R)
  BY <1>1 DEF TakenOut
<1>5. \A i, j \in 1..n : s[i] = s[j] => i = j
  BY <1>1 DEF Distinct
<1>6. \A j \in 1..n : (j > n - (m + 1)) <=> (j > n - m \/ j = k)
  BY ONLY <1>1, <1>3, m \in Nat
<1>7. n - (m + 1) = k - 1
  BY ONLY <1>1, <1>3, m \in Nat
<1>8. CASE s[k] \in R
  <2>1. r = SwapRemove(t, k) /\ k \in 1..Len(t)
    BY <1>2, <1>3, <1>8
  <2>2. /\ r \in Seq(T) /\ Len(r) = Len(t) - 1 /\ Distinct(r)
        /\ \A j \in 1..(k - 1) : r[j] = t[j]
        /\ Range(r) = Range(t) \ {t[k]}
    <3>1. \A i \in 1..Len(t) :
            /\ SwapRemove(t, i) \in Seq(T) /\ Len(SwapRemove(t, i)) = Len(t) - 1
            /\ Distinct(SwapRemove(t, i))
            /\ \A j \in 1..(i - 1) : SwapRemove(t, i)[j] = t[j]
            /\ Range(SwapRemove(t, i)) = Range(t) \ {t[i]}
      BY <1>4, SwapRemoveRange
    <3> QED BY ONLY <3>1, <2>1
  <2>3. Len(r) >= n - (m + 1)
    BY ONLY <2>2, <1>2, <1>3, <1>7, <1>1
  <2>4. \A j \in 1..(n - (m + 1)) : r[j] = s[j]
    <3>1. \A j \in 1..(k - 1) : j \in 1..(n - m)
      BY ONLY <1>3
    <3> QED BY ONLY <3>1, <2>2, <1>4, <1>7
  <2>5. \A x : x \in Range(r) <=> x \in Range(t) /\ x # s[k]
    BY ONLY <2>2, <1>3
  <2>6. \A x : x \in Range(r) <=> \E j \in 1..n : s[j] = x /\ (j > n - (m + 1) => x \notin R)
    <3>1. ASSUME NEW x, x \in Range(r)
          PROVE  \E j \in 1..n : s[j] = x /\ (j > n - (m + 1) => x \notin R)
      <4>1. PICK j \in 1..n : s[j] = x /\ (j > n - m => x \notin R)
        BY <3>1, <2>5, <1>4
      <4>2. j # k
        BY <4>1, <3>1, <2>5
      <4> QED BY ONLY <4>1, <4>2, <1>6, j \in 1..n
    <3>2. ASSUME NEW x, NEW j \in 1..n, s[j] = x, j > n - (m + 1) => x \notin R
          PROVE  x \in Range(r)
      <4>1. x # s[k]
        BY ONLY <3>2, <1>8, <1>6, <1>5, <1>3
      <4>2. j > n - m => x \notin R
        BY ONLY <3>2, <1>6
      <4> QED BY ONLY <4>1, <4>2, <3>2, <2>5, <1>4
    <3> QED BY ONLY <3>1, <3>2
  <2> QED BY ONLY <2>2, <2>3, <2>4, <2>6, <1>1 DEF TakenOut
<1>9. CASE s[k] \notin R
  <2>1. r = t
    BY <1>3, <1>9
  <2>2. l >= n - (m + 1)
    BY ONLY <1>1, <1>2, <1>3, m \in Nat
  <2>3. \A j \in 1..(n - (m + 1)) : t[j] = s[j]
    <3>1. \A j \in 1..(k - 1) : j \in 1..(n - m)
      BY ONLY <1>3
    <3> QED BY ONLY <3>1, <1>4, <1>7
  <2>4. \A x : x \in Range(t) <=> \E j \in 1..n : s[j] = x /\ (j > n - (m + 1) => x \notin R)
    BY ONLY <1>4, <1>6, <1>9, <1>3, <1>5
  <2> QED BY ONLY <2>1, <2>2, <2>3, <2>4, <1>1, <1>2, <1>4, t \in Seq(T) DEF TakenOut
<1> QED BY <1>8, <1>9

(* One iteration of the loop, at position k. *)
TakeOut(t, k, R) == IF t[k] \in R THEN SwapRemove(t, k) ELSE t

(* remove_selected takes out just the elements in R. *)
LEMMA RemoveSelectedIsStepwise ==
  ASSUME NEW T, NEW s \in Seq(T), NEW R, Distinct(s)
  PROVE  RemoveSelected(s, R) \in Seq(T) /\ TakenOut(RemoveSelected(s, R), s, R, Len(s))
<1>1. PICK n \in Nat : n = Len(s)
  BY LenProperties
<1> DEFINE Good(t, m) == t \in Seq(T) /\ TakenOut(t, s, R, m)
<1>2. Good(s, 0)
  <2>1. \A x : x \in Range(s) <=> \E j \in 1..n : s[j] = x
    BY <1>1, InRange
  <2>2. \A j \in 1..n : ~(j > n - 0)
    BY ONLY <1>1
  <2> QED BY <1>1, <2>1, <2>2 DEF TakenOut
<1>3. ASSUME NEW m \in Nat, m + 1 <= n, NEW t, Good(t, m)
      PROVE  Good(TakeOut(t, n - m, R), m + 1) /\ n - m \in 1..Len(t)
  <2>1. Good(TakeOut(t, n - m, R), m + 1)
    BY <1>1, <1>3, TakenOutStep DEF TakeOut
  <2>2. n - m \in 1..Len(t)
    <3>1. Len(t) \in Nat /\ Len(t) >= n - m
      BY <1>1, <1>3, LenProperties DEF TakenOut
    <3> QED BY ONLY <3>1, <1>1, <1>3
  <2> QED BY <2>1, <2>2
<1> DEFINE h == [i \in Nat |-> [t \in Seq(T) |->
                   IF n - i + 1 \in 1..Len(t) /\ t[n - i + 1] \in R
                     THEN SwapRemove(t, n - i + 1) ELSE t]]
<1>4. h \in [Nat -> [Seq(T) -> Seq(T)]]
  <2>1. \A t \in Seq(T) : \A k \in 1..Len(t) : SwapRemove(t, k) \in Seq(T)
    BY SwapRemoveProperties
  <2> QED BY <2>1
<1>5. PICK f : Unfolds(f, n, Seq(T), s, h)
  <2> HIDE DEF h
  <2> QED BY <1>4, RecursionExists
<1>6. f[0] = s /\ \A i \in 1..n : f[i] = h[i][f[i - 1]]
  BY <1>5 DEF Unfolds
<1>7. ASSUME NEW m \in Nat, m + 1 <= n, Good(f[m], m)
      PROVE  f[m + 1] = TakeOut(f[m], n - m, R)
  <2>1. PICK t \in Seq(T) : t = f[m]
    BY <1>7
  <2>2. n - m \in 1..Len(t)
    BY <1>7, <1>3, <2>1
  <2>3. PICK i \in 1..n : i = m + 1
    BY <1>7
  <2>6. f[i] = h[i][f[i - 1]]
    BY ONLY <1>6, i \in 1..n
  <2>4. f[i] = h[i][f[i - 1]] /\ i - 1 = m /\ n - i + 1 = n - m
    BY ONLY <2>6, <2>3, <1>7, <1>1
  <2>5. h[i][t] = IF t[n - m] \in R THEN SwapRemove(t, n - m) ELSE t
    BY <2>2, <2>4, i \in Nat, t \in Seq(T)
  <2> QED BY ONLY <2>1, <2>3, <2>4, <2>5 DEF TakeOut
<1> DEFINE P == {m \in Nat : m <= n => Good(f[m], m)}
<1>8. 0 \in P
  BY <1>2, <1>6
<1>9. ASSUME NEW m \in Nat, m \in P PROVE m + 1 \in P
  <2> SUFFICES ASSUME m + 1 <= n PROVE Good(f[m + 1], m + 1)
    OBVIOUS
  <2>1. Good(f[m], m)
    BY <1>9, <1>1
  <2> QED BY <2>1, <1>3, <1>7
<1>10. Nat \subseteq P
  <2> HIDE DEF P
  <2> QED BY <1>8, <1>9, SetInduction
<1>11. \A m \in Nat : m + 1 <= n => f[m + 1] = TakeOut(f[m], n - m, R)
  BY <1>1, <1>7, <1>10
<1> DEFINE b == [i \in 0..n |-> f[n - i]]
           g == CHOOSE g : g = [i \in 0..n |->
                  IF i = n THEN s
                  ELSE LET t == g[i + 1] IN IF t[i + 1] \in R THEN SwapRemove(t, i + 1) ELSE t]
<1>12. b = [i \in 0..n |->
             IF i = n THEN s
             ELSE LET t == b[i + 1] IN IF t[i + 1] \in R THEN SwapRemove(t, i + 1) ELSE t]
  <2>1. ASSUME NEW i \in 0..n
        PROVE  b[i] = IF i = n THEN s
                      ELSE LET t == b[i + 1] IN IF t[i + 1] \in R THEN SwapRemove(t, i + 1) ELSE t
    <3>1. CASE i = n
      BY <3>1, <1>6, <1>1
    <3>2. CASE i # n
      <4>1. PICK m \in Nat : m = n - (i + 1)
        BY <3>2
      <4>2. m + 1 <= n /\ n - i = m + 1 /\ n - m = i + 1 /\ i + 1 \in 0..n /\ n - (i + 1) = m
        BY <4>1, <1>1, <3>2
      <4>3. b[i] = f[m + 1] /\ b[i + 1] = f[m]
        BY <4>2
      <4>4. f[m + 1] = TakeOut(f[m], n - m, R)
        BY <1>11, <4>2
      <4>5. TakeOut(f[m], i + 1, R) = LET t == f[m] IN IF t[i + 1] \in R THEN SwapRemove(t, i + 1) ELSE t
        BY DEF TakeOut
      <4> QED BY ONLY <4>2, <4>3, <4>4, <4>5, <3>2
    <3> QED BY <3>1, <3>2
  <2> QED BY <2>1, Zenon
<1>13. g = [i \in 0..n |->
             IF i = n THEN s
             ELSE LET t == g[i + 1] IN IF t[i + 1] \in R THEN SwapRemove(t, i + 1) ELSE t]
  <2> HIDE DEF b
  <2> QED BY <1>12
<1>14. RemoveSelected(s, R) = g[0]
  BY <1>1 DEF RemoveSelected
<1> HIDE DEF g
<1>15. \A i \in 0..n : g[i] = IF i = n THEN s ELSE TakeOut(g[i + 1], i + 1, R)
  <2>1. \A i \in 0..n : g[i] = IF i = n THEN s
             ELSE LET t == g[i + 1] IN IF t[i + 1] \in R THEN SwapRemove(t, i + 1) ELSE t
    BY ONLY <1>13, Zenon
  <2> QED BY ONLY <2>1 DEF TakeOut
<1> DEFINE Q == {m \in Nat : m <= n => Good(g[n - m], m)}
<1>16. 0 \in Q
  <2>1. g[n] = s /\ n - 0 = n
    BY <1>15, <1>1
  <2> QED BY ONLY <2>1, <1>2
<1>17. ASSUME NEW m \in Nat, m \in Q PROVE m + 1 \in Q
  <2> SUFFICES ASSUME m + 1 <= n PROVE Good(g[n - (m + 1)], m + 1)
    OBVIOUS
  <2>1. PICK i \in 0..n : i = n - (m + 1)
    BY <1>1
  <2>2. i # n /\ i + 1 = n - m
    BY <2>1, <1>1
  <2>3. g[i] = TakeOut(g[n - m], n - m, R)
    BY ONLY <2>2, <1>15, i \in 0..n
  <2>4. Good(g[n - m], m)
    BY <1>17, <1>1
  <2>5. Good(TakeOut(g[n - m], n - m, R), m + 1)
    BY <2>4, <1>3
  <2> QED BY <2>1, <2>3, <2>5
<1>18. Nat \subseteq Q
  <2> HIDE DEF Q
  <2> QED BY <1>16, <1>17, SetInduction
<1>19. Good(g[n - n], n)
  BY <1>18, <1>1
<1>20. n - n = 0
  BY <1>1
<1> QED BY ONLY <1>19, <1>20, <1>14, <1>1

(* The pass removes just what was selected. *)
LEMMA RemoveSelectedProperties ==
  ASSUME NEW T, NEW s \in Seq(T), NEW R, Distinct(s)
  PROVE  /\ RemoveSelected(s, R) \in Seq(T)
         /\ Distinct(RemoveSelected(s, R))
         /\ Range(RemoveSelected(s, R)) = Range(s) \ R
<1>1. PICK n \in Nat : n = Len(s)
  BY LenProperties
<1>2. PICK t : t = RemoveSelected(s, R)
  OBVIOUS
<1>3. t \in Seq(T) /\ TakenOut(t, s, R, n)
  BY <1>1, <1>2, RemoveSelectedIsStepwise
<1>4. /\ Distinct(t)
      /\ \A x : x \in Range(t) <=> \E j \in 1..n : s[j] = x /\ (j > n - n => x \notin R)
  BY <1>1, <1>3 DEF TakenOut
<1>5. \A x : x \in Range(s) <=> \E j \in 1..n : s[j] = x
  BY <1>1, InRange
<1>6. \A j \in 1..n : j > n - n
  BY <1>1
<1>7. Range(t) = Range(s) \ R
  BY ONLY <1>4, <1>5, <1>6
<1> QED BY <1>2, <1>3, <1>4, <1>7


(***************************************************************************)
(* The pool of priors.                                                     *)
(***************************************************************************)
KeysOf(p) == {Raw(p, p.keys[i]) : i \in 1..Len(p.keys)}

(* The keys of a pool are the handles that resolve in it. *)
LEMMA KeysResolve ==
  ASSUME NEW V, NEW p \in Pools(V), PoolOk(p), NEW k
  PROVE  /\ k \in KeysOf(p) <=> k \in RawKey /\ Resolves(p, k)
         /\ k \in KeysOf(p) => PoolGet(p, k) \in V
<1>1. ASSUME k \in KeysOf(p)
      PROVE  k \in RawKey /\ Resolves(p, k)
  <2>1. PICK i \in 1..Len(p.keys) : k = Raw(p, p.keys[i])
    BY <1>1 DEF KeysOf
  <2> QED BY <2>1, PackedKeyResolves
<1>2. ASSUME k \in RawKey, Resolves(p, k)
      PROVE  k \in KeysOf(p) /\ PoolGet(p, k) \in V
  BY <1>2, ResolvedKeyIsPacked DEF KeysOf
<1> QED BY <1>1, <1>2

(* Writing keeps the keys and all other payloads. *)
LEMMA KeysAfterSet ==
  ASSUME NEW V, NEW p \in Pools(V), PoolOk(p), NEW k \in KeysOf(p), NEW v \in V,
         NEW q, q = PoolSet(p, k, v)
  PROVE  /\ q \in Pools(V) /\ PoolOk(q) /\ KeysOf(q) = KeysOf(p)
         /\ q.id = p.id /\ q.keys = p.keys
         /\ PoolGet(q, k) = v
         /\ \A j \in KeysOf(p) \ {k} : PoolGet(q, j) = PoolGet(p, j)
<1>1. k \in RawKey /\ Resolves(p, k)
  BY KeysResolve
<1>2. /\ q = [p EXCEPT !.values = [@ EXCEPT ![PoolIndex(p, k)] = v]]
      /\ q \in Pools(V) /\ PoolOk(q)
  BY <1>1, PoolSetOk
<1>3. q.id = p.id /\ q.keys = p.keys
  BY <1>2 DEF Pools
<1>4. KeysOf(q) = KeysOf(p)
  BY <1>3 DEF KeysOf, Raw
<1>5. \A j \in RawKey : Resolves(p, j) => PoolGet(q, j) = IF j = k THEN v ELSE PoolGet(p, j)
  BY <1>1, SetLookup
<1>6. \A j \in KeysOf(p) : j \in RawKey /\ Resolves(p, j)
  BY KeysResolve
<1> QED BY <1>1, <1>2, <1>3, <1>4, <1>5, <1>6

(* Insertion adds one key. *)
LEMMA KeysAfterInsert ==
  ASSUME NEW V, NEW p \in Pools(V), PoolOk(p), CanReserve(p, 1), NEW v \in V,
         NEW q, q = PoolInsert(p, v), NEW new, new = Raw(p, NextKey(p))
  PROVE  /\ q \in Pools(V) /\ PoolOk(q)
         /\ new \in RawKey /\ new \notin KeysOf(p)
         /\ KeysOf(q) = KeysOf(p) \cup {new}
         /\ PoolGet(q, new) = v
         /\ \A j \in KeysOf(p) : PoolGet(q, j) = PoolGet(p, j)
<1>1. q \in Pools(V) /\ PoolOk(q)
  BY PoolInsertOk
<1>2. new \in RawKey /\ ~Resolves(p, new) /\ PoolGet(q, new) = v
  BY InsertLookup
<1>3. ASSUME NEW j
      PROVE  /\ j \in KeysOf(q) <=> j \in KeysOf(p) \/ j = new
             /\ j \in KeysOf(p) => PoolGet(q, j) = PoolGet(p, j)
  <2>1. CASE j \in RawKey
    BY <1>1, <2>1, InsertResolves, KeysResolve
  <2>2. CASE j \notin RawKey
    BY <1>1, <1>2, <2>2, KeysResolve
  <2> QED BY <2>1, <2>2
<1>4. new \notin KeysOf(p)
  BY <1>2, KeysResolve
<1> QED BY <1>1, <1>2, <1>3, <1>4

(* Removal takes one key out and keeps the payloads of the others. *)
LEMMA KeysAfterRemove ==
  ASSUME NEW V, NEW p \in Pools(V), PoolOk(p), NEW k \in KeysOf(p),
         NEW q, q = PoolRemove(p, k)
  PROVE  /\ q \in Pools(V) /\ PoolOk(q)
         /\ KeysOf(q) = KeysOf(p) \ {k}
         /\ \A j \in KeysOf(q) : PoolGet(q, j) = PoolGet(p, j)
<1>1. k \in RawKey /\ Resolves(p, k)
  BY KeysResolve
<1>2. q \in Pools(V) /\ PoolOk(q)
  BY <1>1, PoolRemoveOk
<1>3. /\ KeyStatus(q, k) = "Stale"
      /\ \A j \in RawKey : j # k =>
           /\ KeyStatus(q, j) = KeyStatus(p, j)
           /\ Resolves(p, j) => PoolGet(q, j) = PoolGet(p, j)
  BY <1>1, RemoveLookup
<1>4. ASSUME NEW j
      PROVE  /\ j \in KeysOf(q) <=> j \in KeysOf(p) /\ j # k
             /\ j \in KeysOf(q) => PoolGet(q, j) = PoolGet(p, j)
  <2>1. j \in KeysOf(q) <=> j \in RawKey /\ Resolves(q, j)
    BY <1>2, KeysResolve
  <2>2. j \in KeysOf(p) <=> j \in RawKey /\ Resolves(p, j)
    BY KeysResolve
  <2>3. ~Resolves(q, k)
    BY <1>3 DEF Resolves
  <2> QED BY <1>3, <2>1, <2>2, <2>3 DEF Resolves
<1> QED BY <1>2, <1>4

(* swap_remove moves the last key to the place of the removed one. *)
LEMMA KeysMoved ==
  ASSUME NEW V, NEW p \in Pools(V), PoolOk(p), NEW i \in 1..Len(p.keys),
         NEW q, q = PoolRemove(p, Raw(p, p.keys[i]))
  PROVE  /\ Len(q.keys) = Len(p.keys) - 1
         /\ \A j \in 1..(Len(p.keys) - 1) :
              Raw(q, q.keys[j]) = IF j = i THEN Raw(p, p.keys[Len(p.keys)]) ELSE Raw(p, p.keys[j])
<1>1. PICK k : k = Raw(p, p.keys[i])
  OBVIOUS
<1>2. k \in RawKey /\ Resolves(p, k) /\ PoolIndex(p, k) = i
  BY <1>1, PackedKeyResolves
<1>3. PICK n : Removed(V, p, k, q, i, n)
  BY <1>1, <1>2, PoolRemoveFields
<1>4. /\ q.id = p.id /\ n = Len(p.keys) /\ Len(q.keys) = n - 1
      /\ \A j \in 1..(n - 1) : q.keys[j] = IF j = i THEN p.keys[n] ELSE p.keys[j]
  BY <1>3 DEF Removed
<1> QED BY <1>4 DEF Raw

(* The free list has room for as many slots as there are keys: the slots   *)
(* of keys are not free, and it was reserved for all slots.                *)
LEMMA SlotsHaveRoom ==
  ASSUME NEW V, NEW p \in Pools(V), PoolOk(p), NEW S, S \subseteq KeysOf(p)
  PROVE  /\ IsFiniteSet(S) /\ Cardinality(S) \in Nat
         /\ Len(p.free_slots) + Cardinality(S) <= p.free_capacity
<1>1. PICK n \in Nat : n = Len(p.slots)
  BY PoolTypes
<1>2. PICK m \in Nat : m = Len(p.free_slots)
  BY PoolTypes
<1>3. /\ \A i \in 1..m : /\ p.free_slots[i] \in 1..n
                         /\ p.slots[p.free_slots[i]].dense_index = VACANT
      /\ \A i, j \in 1..m : p.free_slots[i] = p.free_slots[j] => i = j
  <2>1. \A i \in 1..m : p.free_slots[i] \in 1..Capacity
    BY <1>2, PoolTypes, ElementOfSeq
  <2> QED BY <2>1, <1>1, <1>2, PoolBounds DEF PoolOk, FreeVacant
<1>4. \A k \in S : /\ k.slot \in 1..n /\ k.pool = p.id /\ k \in RawKey
                   /\ p.slots[k.slot].dense_index # VACANT
                   /\ p.slots[k.slot].generation = k.generation
  <2> SUFFICES ASSUME NEW k \in S
               PROVE  /\ k.slot \in 1..n /\ k.pool = p.id /\ k \in RawKey
                      /\ p.slots[k.slot].dense_index # VACANT
                      /\ p.slots[k.slot].generation = k.generation
    OBVIOUS
  <2>1. k \in RawKey /\ Resolves(p, k)
    BY KeysResolve
  <2>2. k.slot \in 1..Capacity
    BY <2>1 DEF RawKey
  <2> QED BY <2>1, <2>2, <1>1, PoolBounds DEF Resolves, KeyStatus
<1>5. \A k, l \in S : k.slot = l.slot => k = l
  <2> SUFFICES ASSUME NEW k \in S, NEW l \in S, k.slot = l.slot PROVE k = l
    OBVIOUS
  <2>1. k.pool = l.pool /\ k.generation = l.generation /\ k \in RawKey /\ l \in RawKey
    BY <1>4
  <2> QED BY <2>1 DEF RawKey
<1> DEFINE A == {k.slot : k \in S}
           B == {p.free_slots[i] : i \in 1..m}
           f == [k \in S |-> k.slot]
           g == [i \in 1..m |-> p.free_slots[i]]
<1>6. IsFiniteSet(1..n) /\ Cardinality(1..n) = n /\ IsFiniteSet(1..m) /\ Cardinality(1..m) = m
  BY IntervalSize
<1>7. A \subseteq 1..n /\ B \subseteq 1..n /\ A \cap B = {}
  BY <1>3, <1>4
<1>8. f \in Injection(S, A) /\ f \in Surjection(S, A)
  BY <1>5 DEF Injection, IsInjective, Surjection
<1>9. g \in Surjection(1..m, B) /\ g \in Injection(1..m, B)
  BY <1>3 DEF Injection, IsInjective, Surjection
<1> HIDE DEF A, B, f, g
<1>10. IsFiniteSet(A) /\ IsFiniteSet(B)
  BY <1>6, <1>7, FS_Subset
<1>11. IsFiniteSet(S) /\ Cardinality(S) = Cardinality(A)
  BY <1>8, <1>10, FS_Injection
<1>12. Cardinality(B) = m
  BY <1>6, <1>9, FS_Surjection
<1>13. Cardinality(A \cup B) <= n
  <2>1. A \cup B \in SUBSET (1..n)
    BY <1>7
  <2>2. Cardinality(A \cup B) <= Cardinality(1..n)
    BY ONLY <1>6, <2>1, FS_Subset
  <2> QED BY ONLY <2>2, <1>6
<1>14. Cardinality(A \cup B) = Cardinality(A) + Cardinality(B) - Cardinality(A \cap B)
  BY <1>10, FS_Union
<1>15. Cardinality(A \cap B) = 0 /\ Cardinality(A) \in Nat
  BY <1>7, <1>10, FS_EmptySet, FS_CardinalityType
<1>16. n <= p.free_capacity /\ p.free_capacity \in Nat
  BY <1>1, PoolTypes DEF PoolOk, FreeReserved
<1> QED BY ONLY <1>2, <1>11, <1>12, <1>13, <1>14, <1>15, <1>16, n \in Nat

(***************************************************************************)
(* Columns.                                                                *)
(***************************************************************************)
(* A sequence of distinct elements has as many as it is long. *)
LEMMA DistinctCount ==
  ASSUME NEW T, NEW s \in Seq(T), Distinct(s)
  PROVE  IsFiniteSet(Range(s)) /\ Cardinality(Range(s)) = Len(s)
<1>1. PICK n \in Nat : n = Len(s)
  BY LenProperties
<1>2. /\ s \in [1..n -> T]
      /\ Range(s) = {s[i] : i \in 1..n}
      /\ \A i, j \in 1..n : s[i] = s[j] => i = j
  BY <1>1, LenProperties, RangeIsImage DEF Distinct
<1> DEFINE f == [i \in 1..n |-> s[i]]
<1>3. f \in Surjection(1..n, Range(s)) /\ f \in Injection(1..n, Range(s))
  BY <1>2 DEF Surjection, Injection, IsInjective
<1> HIDE DEF f
<1>4. IsFiniteSet(1..n) /\ Cardinality(1..n) = n
  BY IntervalSize
<1> QED BY <1>1, <1>3, <1>4, FS_Surjection

(* The columns of a layout: each block begins where the last one ends. *)
Columns(at, blocks) ==
  /\ at \in [1..(Len(blocks) + 1) -> Nat]
  /\ at[1] = 0
  /\ \A i \in 1..Len(blocks) : at[i + 1] = at[i] + Width[PoolOf[blocks[i]]]

(* A state has some columns. *)
LEMMA WidthOfState ==
  ASSUME NEW s \in State
  PROVE  Width[PoolOf[s]] \in Nat \ {0}
<1>1. PoolOf[s] \in 1..Len(Width) /\ Width \in Seq(Nat \ {0})
  BY GraphData DEF NPools
<1> QED BY <1>1, ElementOfSeq

(* Offsets is recursive on the blocks; this is what it computes. *)
LEMMA OffsetsAreColumns ==
  ASSUME NEW blocks \in Seq(State)
  PROVE  Columns(Offsets(blocks), blocks)
<1>1. PICK n \in Nat : n = Len(blocks)
  BY LenProperties
<1> DEFINE w == [i \in Nat |-> IF i \in 1..n THEN Width[PoolOf[blocks[i]]] ELSE 0]
           h == [i \in Nat |-> [a \in Nat |-> a + w[i]]]
<1>2. \A i \in 1..n : Width[PoolOf[blocks[i]]] \in Nat
  BY <1>1, ElementOfSeq, WidthOfState
<1>3. w \in [Nat -> Nat] /\ \A i \in 1..n : w[i] = Width[PoolOf[blocks[i]]]
  BY <1>2
<1> HIDE DEF w
<1>4. h \in [Nat -> [Nat -> Nat]]
  <2>1. \A i \in Nat : w[i] \in Nat
    BY <1>3
  <2>2. \A i \in Nat : \A a \in Nat : a + w[i] \in Nat
    BY <2>1
  <2> QED BY <2>2
<1>5. PICK f : Unfolds(f, n, Nat, 0, h)
  <2> HIDE DEF h
  <2> QED BY <1>4, RecursionExists
<1>6. /\ f \in [0..n -> Nat] /\ f[0] = 0
      /\ \A i \in 1..n : f[i] = f[i - 1] + w[i]
  <2>1. f \in [0..n -> Nat] /\ f[0] = 0 /\ \A i \in 1..n : f[i] = h[i][f[i - 1]]
    BY <1>5 DEF Unfolds
  <2>2. \A i \in 1..n : f[i - 1] \in Nat
    BY <2>1
  <2>3. \A i \in 1..n : h[i][f[i - 1]] = f[i - 1] + w[i]
    BY <2>2
  <2> QED BY ONLY <2>1, <2>2, <2>3
<1> HIDE DEF h
<1> DEFINE b == [i \in 1..(n + 1) |-> f[i - 1]]
           at == CHOOSE at : at = [i \in 1..(n + 1) |->
                   IF i = 1 THEN 0 ELSE at[i - 1] + Width[PoolOf[blocks[i - 1]]]]
<1>7. b = [i \in 1..(n + 1) |->
             IF i = 1 THEN 0 ELSE b[i - 1] + Width[PoolOf[blocks[i - 1]]]]
  <2>1. ASSUME NEW i \in 1..(n + 1)
        PROVE  b[i] = IF i = 1 THEN 0 ELSE b[i - 1] + Width[PoolOf[blocks[i - 1]]]
    <3>1. CASE i = 1
      BY <3>1, <1>6
    <3>2. CASE i # 1
      <4>1. PICK j \in 1..n : j = i - 1
        BY <3>2
      <4>2. f[j] = f[j - 1] + w[j] /\ w[j] = Width[PoolOf[blocks[j]]]
        BY ONLY <1>3, <1>6, j \in 1..n
      <4>3. b[i] = f[j] /\ b[j] = f[j - 1]
        BY <4>1
      <4> QED BY ONLY <3>2, <4>1, <4>2, <4>3
    <3> QED BY <3>1, <3>2
  <2> QED BY <2>1, Zenon
<1>8. at = [i \in 1..(n + 1) |->
              IF i = 1 THEN 0 ELSE at[i - 1] + Width[PoolOf[blocks[i - 1]]]]
  <2> HIDE DEF b
  <2> QED BY <1>7
<1>9. Offsets(blocks) = at
  BY <1>1 DEF Offsets
<1> HIDE DEF at
<1>10. \A i \in 1..(n + 1) :
         at[i] = IF i = 1 THEN 0 ELSE at[i - 1] + Width[PoolOf[blocks[i - 1]]]
  BY ONLY <1>8, Zenon
<1>11. \A i \in 1..n : at[i + 1] = at[i] + Width[PoolOf[blocks[i]]]
  <2> SUFFICES ASSUME NEW i \in 1..n PROVE at[i + 1] = at[i] + Width[PoolOf[blocks[i]]]
    OBVIOUS
  <2>1. i + 1 \in 1..(n + 1) /\ i + 1 # 1 /\ (i + 1) - 1 = i
    BY <1>1
  <2> QED BY ONLY <2>1, <1>10
<1> DEFINE P == {m \in Nat : m <= n => at[m + 1] \in Nat}
<1>12. 0 \in P
  <2>1. 0 + 1 = 1 /\ 1 \in 1..(n + 1)
    BY <1>1
  <2>2. at[0 + 1] = 0
    BY <1>10, <2>1
  <2> QED BY <2>2
<1>13. ASSUME NEW m \in Nat, m \in P PROVE m + 1 \in P
  <2> SUFFICES ASSUME m + 1 <= n PROVE at[(m + 1) + 1] \in Nat
    OBVIOUS
  <2>1. PICK i \in 1..n : i = m + 1
    BY <1>1
  <2>2. at[i] \in Nat
    BY <1>13, <2>1, <1>1
  <2>3. at[i + 1] \in Nat
    BY <2>2, <1>11, <1>2
  <2> QED BY <2>1, <2>3
<1>14. Nat \subseteq P
  <2> HIDE DEF P
  <2> QED BY <1>12, <1>13, SetInduction
<1>15. \A i \in 1..(n + 1) : at[i] \in Nat
  <2> SUFFICES ASSUME NEW i \in 1..(n + 1) PROVE at[i] \in Nat
    OBVIOUS
  <2>1. PICK m \in Nat : m <= n /\ i = m + 1
    <3>1. i - 1 \in Nat /\ i - 1 <= n /\ i = (i - 1) + 1
      BY <1>1
    <3> QED BY <3>1
  <2> QED BY <2>1, <1>14
<1>16. at \in [1..(n + 1) -> Nat]
  BY <1>8, <1>15
<1>17. at[1] = 0
  BY <1>10, <1>1
<1> QED BY <1>1, <1>9, <1>11, <1>16, <1>17 DEF Columns

(* Later blocks begin at later columns. *)
LEMMA ColumnsAscend ==
  ASSUME NEW blocks \in Seq(State), NEW at, Columns(at, blocks),
         NEW i \in 1..(Len(blocks) + 1), NEW j \in 1..(Len(blocks) + 1), i <= j
  PROVE  at[i] <= at[j]
<1>1. PICK n \in Nat : n = Len(blocks)
  BY LenProperties
<1>2. /\ \A k \in 1..(n + 1) : at[k] \in Nat
      /\ \A k \in 1..n : at[k + 1] = at[k] + Width[PoolOf[blocks[k]]]
      /\ \A k \in 1..n : Width[PoolOf[blocks[k]]] \in Nat
  BY <1>1, ElementOfSeq, WidthOfState DEF Columns
<1> DEFINE P == {m \in Nat : i + m <= n + 1 => at[i] <= at[i + m]}
<1>3. 0 \in P
  BY <1>1, <1>2
<1>4. ASSUME NEW m \in Nat, m \in P PROVE m + 1 \in P
  <2> SUFFICES ASSUME i + (m + 1) <= n + 1 PROVE at[i] <= at[i + (m + 1)]
    OBVIOUS
  <2>1. PICK k \in 1..n : k = i + m
    BY <1>1
  <2>2. at[i] <= at[k] /\ i + (m + 1) = k + 1
    BY <1>4, <2>1, <1>1
  <2>3. at[k] <= at[k + 1] /\ at[i] \in Nat /\ at[k] \in Nat /\ at[k + 1] \in Nat
    <3>1. i \in 1..(n + 1) /\ k \in 1..(n + 1) /\ k + 1 \in 1..(n + 1) /\ k \in 1..n
      BY <1>1
    <3>2. \A l \in 1..(n + 1) : at[l] \in Nat
      BY <1>1, <1>2
    <3>3. at[k + 1] = at[k] + Width[PoolOf[blocks[k]]] /\ Width[PoolOf[blocks[k]]] \in Nat
      BY ONLY <1>2, <3>1
    <3>4. at[i] \in Nat /\ at[k] \in Nat /\ at[k + 1] \in Nat
      BY ONLY <3>1, <3>2
    <3> QED BY ONLY <3>3, <3>4
  <2> QED BY ONLY <2>2, <2>3
<1>5. Nat \subseteq P
  <2> HIDE DEF P
  <2> QED BY <1>3, <1>4, SetInduction
<1>6. j - i \in Nat /\ i + (j - i) = j /\ j <= n + 1
  BY <1>1
<1> QED BY <1>5, <1>6

(***************************************************************************)
(* The layout of a front.                                                  *)
(***************************************************************************)
(* The elements of R come first. *)
ComesFirst(s, R) == \A i, j \in 1..Len(s) : i < j /\ s[j] \in R => s[i] \in R

(* Where the elements of R are put first, they come first. *)
LEMMA ConcatComesFirst ==
  ASSUME NEW T, NEW s \in Seq(T), NEW t \in Seq(T), NEW R,
         Range(s) \subseteq R, Range(t) \cap R = {}
  PROVE  ComesFirst(s \o t, R)
<1>1. PICK m \in Nat : m = Len(s)
  BY LenProperties
<1>2. PICK n \in Nat : n = Len(t)
  BY LenProperties
<1>3. PICK r : r = s \o t
  OBVIOUS
<1>4. /\ Len(r) = m + n
      /\ \A i \in 1..(m + n) : r[i] = IF i <= m THEN s[i] ELSE t[i - m]
  BY <1>1, <1>2, <1>3, ConcatProperties
<1>5. \A i \in 1..m : s[i] \in R
  BY <1>1, InRange
<1>6. \A i \in 1..n : t[i] \notin R
  BY <1>2, InRange
<1>7. ASSUME NEW i \in 1..(m + n), NEW j \in 1..(m + n), i < j, r[j] \in R
      PROVE  r[i] \in R
  <2>1. j <= m
    <3> SUFFICES ASSUME ~(j <= m) PROVE FALSE
      OBVIOUS
    <3>1. j - m \in 1..n /\ r[j] = t[j - m]
      BY <1>4
    <3> QED BY <3>1, <1>6, <1>7
  <2>2. i \in 1..m /\ i <= m
    BY ONLY <2>1, <1>7, m \in Nat, n \in Nat
  <2> QED BY ONLY <2>2, <1>4, <1>5, i \in 1..(m + n)
<1> QED BY <1>3, <1>4, <1>7 DEF ComesFirst

(* What is not in R begins no earlier than the first of them would if the  *)
(* elements of R came first.                                               *)
LEMMA KeptComeLast ==
  ASSUME NEW T, NEW s \in Seq(T), Distinct(s), NEW R, ComesFirst(s, R),
         NEW t, t = Keep(s, T \ R)
  PROVE  /\ Len(t) <= Len(s)
         /\ \A i \in 1..Len(s) : s[i] \notin R => Len(s) - Len(t) + 1 <= i
<1>1. PICK n \in Nat : n = Len(s)
  BY LenProperties
<1>2. t \in Seq(T) /\ Range(t) = Range(s) \cap (T \ R) /\ Distinct(t)
  BY KeepProperties
<1>3. PICK m \in Nat : m = Len(t)
  BY <1>2, LenProperties
<1>4. /\ IsFiniteSet(Range(s)) /\ Cardinality(Range(s)) = n
      /\ IsFiniteSet(Range(t)) /\ Cardinality(Range(t)) = m
  BY <1>1, <1>2, <1>3, DistinctCount
<1>5. m <= n
  <2>1. Range(t) \in SUBSET Range(s)
    BY <1>2
  <2>2. Cardinality(Range(t)) <= Cardinality(Range(s))
    BY ONLY <2>1, <1>4, FS_Subset
  <2> QED BY ONLY <2>2, <1>4
<1>6. ASSUME NEW i \in 1..n, s[i] \notin R
      PROVE  n - m + 1 <= i
  <2> DEFINE f == [j \in i..n |-> s[j]]
  <2>1. \A j \in i..n : s[j] \in Range(t)
    <3> SUFFICES ASSUME NEW j \in i..n PROVE s[j] \in Range(t)
      OBVIOUS
    <3>1. j \in 1..n /\ (i = j \/ i < j)
      BY <1>1
    <3>2. s[j] \notin R
      BY <3>1, <1>1, <1>6 DEF ComesFirst
    <3>3. s[j] \in T /\ s[j] \in Range(s)
      BY <3>1, <1>1, InRange, ElementOfSeq
    <3> QED BY <3>2, <3>3, <1>2
  <2>2. \A j, k \in i..n : s[j] = s[k] => j = k
    BY <1>1 DEF Distinct
  <2>3. f \in Injection(i..n, Range(t))
    BY <2>1, <2>2 DEF Injection, IsInjective
  <2> HIDE DEF f
  <2>4. Cardinality(i..n) <= m
    BY <2>3, <1>4, FS_Injection
  <2>5. i \in Int /\ n \in Int /\ ~(i > n)
    BY <1>1
  <2>6. Cardinality(i..n) = n - i + 1
    BY <2>5, FS_Interval, Zenon
  <2> QED BY ONLY <2>4, <2>6, n \in Nat, m \in Nat, i \in 1..n
<1> QED BY <1>1, <1>3, <1>5, <1>6

(* The removed states come first in the layout, and then what else the     *)
(* front touches.                                                          *)
Touched == (UNION {Deps[f] : f \in run.affected})
             \cup (UNION {BlockIds(PoolGet(entries, k)) : k \in run.absorbed})

LayoutFits ==
  /\ Distinct(run.layout)
  /\ Range(run.layout) = run.remove \cup Touched
  /\ ComesFirst(run.layout, run.remove)

(* The columns of the separator are counted from the end of the removed.   *)
LEMMA SeparatorProperties ==
  ASSUME run.layout \in Seq(State), run.remove \subseteq State, LayoutFits
  PROVE  /\ Separator \in Seq(State) /\ Distinct(Separator)
         /\ Range(Separator) = Touched \ run.remove
         /\ \A s \in Range(Separator) : ColumnOf(s) \in Nat
         /\ NewBlocks \in Seq(Block)
         /\ Len(NewBlocks) = Len(Separator)
         /\ \A i \in 1..Len(Separator) :
              NewBlocks[i] = [id |-> Separator[i], start |-> ColumnOf(Separator[i])]
<1>1. PICK l \in Seq(State) : l = run.layout
  OBVIOUS
<1>2. PICK n \in Nat : n = Len(l)
  BY LenProperties
<1>3. PICK t : t = Separator
  OBVIOUS
<1>4. t = Keep(l, State \ run.remove)
  BY <1>1, <1>3 DEF Separator
<1>5. t \in Seq(State) /\ Range(t) = Range(l) \cap (State \ run.remove) /\ Distinct(t)
  BY <1>1, <1>4, KeepProperties DEF LayoutFits
<1>6. Range(l) \subseteq State /\ Range(l) = run.remove \cup Touched
  BY <1>1, RangeIsImage DEF LayoutFits
<1>7. Range(t) = Touched \ run.remove
  BY ONLY <1>5, <1>6
<1>8. PICK m \in Nat : m = Len(t)
  BY <1>5, LenProperties
<1>9. /\ m <= n
      /\ \A i \in 1..n : l[i] \notin run.remove => n - m + 1 <= i
  BY <1>1, <1>2, <1>4, <1>8, KeptComeLast DEF LayoutFits
<1>10. PICK at : at = Offsets(l)
  OBVIOUS
<1>11. Columns(at, l)
  BY <1>10, OffsetsAreColumns
<1>12. RemovedDof = at[n - m + 1]
  BY <1>1, <1>2, <1>3, <1>8, <1>10 DEF RemovedDof
<1>13. ASSUME NEW s \in Range(t) PROVE ColumnOf(s) \in Nat
  <2>1. \E i \in 1..n : l[i] = s
    BY <1>2, <1>5, InRange
  <2>2. PICK i : i = CHOOSE j \in 1..n : l[j] = s
    OBVIOUS
  <2>3. i \in 1..n /\ l[i] = s
    BY <2>1, <2>2
  <2>4. ColumnOf(s) = at[i] - at[n - m + 1]
    BY <1>1, <1>2, <1>10, <1>12, <2>2 DEF ColumnOf
  <2>5. n - m + 1 <= i /\ n - m + 1 \in 1..(n + 1) /\ i \in 1..(n + 1)
    <3>1. s \notin run.remove
      BY <1>5
    <3>2. n - m + 1 <= i
      BY ONLY <3>1, <2>3, <1>9
    <3> QED BY ONLY <3>2, <2>3, <1>9, n \in Nat, m \in Nat
  <2>6. at[n - m + 1] <= at[i]
    BY <1>2, <1>11, <2>5, ColumnsAscend
  <2>7. at[n - m + 1] \in Nat /\ at[i] \in Nat
    BY <1>2, <1>11, <2>5 DEF Columns
  <2> QED BY ONLY <2>4, <2>6, <2>7
<1>14. \A i \in 1..m : t[i] \in Range(t) /\ t[i] \in State
  BY <1>5, <1>8, InRange, ElementOfSeq
<1>15. PICK c : c = [i \in 1..m |-> [id |-> t[i], start |-> ColumnOf(t[i])]]
  OBVIOUS
<1>16. NewBlocks = c
  BY <1>3, <1>8, <1>15 DEF NewBlocks
<1>17. \A i \in 1..m : c[i] = [id |-> t[i], start |-> ColumnOf(t[i])] /\ c[i] \in Block
  BY <1>13, <1>14, <1>15 DEF Block
<1>18. c \in Seq(Block) /\ Len(c) = m
  BY <1>15, <1>17, SeqDef, LenProperties
<1> QED BY <1>3, <1>5, <1>7, <1>8, <1>13, <1>16, <1>17, <1>18

(***************************************************************************)
(* The inductive invariant.                                                *)
(***************************************************************************)
PriorAt(k) == PoolGet(entries, k)

(* The union of what the factors of a set depend on. *)
Scope(F) == UNION {Deps[f] : f \in F}

(* The graph as InformationGraph sees it: its states, its priors and the   *)
(* factors of which only a constant is left.                               *)
GraphStates == Live \ (IF Published THEN run.remove ELSE {})

GraphPriors == {k \in PriorKeys : PriorInGraph(k)}

GraphSpent == constant \cup (IF Published /\ run.rows = 0 THEN PriorAt(New).holds ELSE {})

(* Each state is in its own pool and there only once. *)
StatesPlaced ==
  /\ \A p \in 1..NPools : /\ Distinct(pools[p])
                          /\ \A s \in Range(pools[p]) : PoolOf[s] = p
  /\ Live \subseteq issued

(* What was ever inserted keeps its handles. *)
TellersIssued == /\ told \subseteq issued
                 /\ Scope(told) \subseteq issued

FactorsResolve == \A f \in factors : Deps[f] \subseteq GraphStates

(* A prior is over the live states that what it holds depends on. *)
PriorsExact ==
  \A k \in GraphPriors :
    /\ BlockIds(PriorAt(k)) = GraphStates \cap Scope(PriorAt(k).holds)
    /\ \A i, j \in 1..Len(PriorAt(k).blocks) :
         PriorAt(k).blocks[i].id = PriorAt(k).blocks[j].id => i = j

Told == factors \cup GraphSpent \cup UNION {PriorAt(k).holds : k \in GraphPriors}

ToldOnce ==
  /\ told = Told
  /\ factors \cap GraphSpent = {}
  /\ \A k \in GraphPriors :
       /\ PriorAt(k).holds \cap (factors \cup GraphSpent) = {}
       /\ \A l \in GraphPriors \ {k} : PriorAt(k).holds \cap PriorAt(l).holds = {}

(* The anchors of a prior in a pool. *)
AnchorOf(prior, k, i) ==
  [prior |-> k, state |-> prior.blocks[i].id, column |-> prior.blocks[i].start]

AnchorSet(prior, k, p) ==
  {AnchorOf(prior, k, i) : i \in {j \in 1..Len(prior.blocks) : PoolOf[prior.blocks[j].id] = p}}

(* Whether the pass that deletes the anchors of absorbed priors is past p. *)
Unanchored(p) == \/ run.phase = "delete_priors"
                 \/ run.phase = "delete_states" /\ p < run.at

Anchored(p) == {k \in PriorKeys \ run.new : ~(Unanchored(p) /\ k \in run.absorbed)}

NewAnchored(p) == \/ run.phase = "capture" /\ p < run.at
                  \/ run.phase \in {"delete_factors", "delete_states", "delete_priors"} /\ run.rows > 0

(* The anchors of the priors that are not pending, and of the one that is. *)
OldAnchorsFit(p) ==
  {a \in Range(anchors[p]) : a.prior \notin run.new}
    = UNION {AnchorSet(PriorAt(k), k, p) : k \in Anchored(p)}

NewAnchorsFit(p) ==
  run.phase # "rollback" =>
    {a \in Range(anchors[p]) : a.prior \in run.new}
      = IF NewAnchored(p) THEN AnchorSet(PriorAt(New), New, p) ELSE {}

AnchorsFit ==
  \A p \in 1..NPools : Distinct(anchors[p]) /\ OldAnchorsFit(p) /\ NewAnchorsFit(p)

(* What a marginalization has planned still holds. *)
Planned ==
  /\ run.remove \subseteq Live
  /\ run.affected = Touching(run.remove)
  /\ run.absorbed = {k \in PriorKeys \ run.new : BlockIds(PriorAt(k)) \cap run.remove # {}}
  /\ LayoutFits

(* The pending prior replaces the front. *)
Replaces == /\ PriorAt(New) = [blocks |-> NewBlocks, holds |-> Tells]
            /\ run.rows > 0 => Separator # <<>>

RunFits ==
  /\ run.phase = "idle" => run = NoRun
  /\ run.phase # "idle" => run.remove # {}
  /\ run.phase = "collect" => run.new = {}
  /\ run.phase \notin {"idle", "collect"} =>
       \E k \in PriorKeys : run.new = {k} /\ k \notin run.absorbed
  /\ run.phase \in {"collect", "reduce"} => run.rows = 0
  /\ ~Published /\ run.phase # "idle" => Planned
  /\ run.phase \in {"capture", "delete_factors"} => Replaces
  /\ run.phase = "capture" => run.rows > 0
  /\ run.phase \in {"capture", "delete_states"} => run.at \in 1..NPools
  /\ run.phase = "delete_states" =>
       /\ run.absorbed \subseteq PriorKeys
       /\ \A p \in 1..(run.at - 1) : Range(pools[p]) \cap run.remove = {}
  /\ run.phase = "delete_priors" =>
       /\ Live \cap run.remove = {}
       /\ run.at <= Len(entries.keys)
       /\ \A i \in (run.at + 1)..Len(entries.keys) :
            Raw(entries, entries.keys[i]) \notin run.absorbed

SpareFits ==
  run.new # {} =>
    Len(spare.buffers) + Cardinality((run.absorbed \cap PriorKeys) \cup run.new) <= spare.capacity

IInv == /\ TypeOK
        /\ PoolOk(entries)
        /\ StatesPlaced
        /\ TellersIssued
        /\ FactorsResolve
        /\ PriorsExact
        /\ ToldOnce
        /\ AnchorsFit
        /\ RunFits
        /\ SpareFits

-----------------------------------------------------------------------------
(* The pool of priors, its keys and what they resolve to. *)
LEMMA PriorsTyped ==
  ASSUME TypeOK, PoolOk(entries)
  PROVE  /\ entries \in Pools(Prior)
         /\ PriorKeys = KeysOf(entries)
         /\ \A k \in PriorKeys : /\ k \in RawKey /\ Resolves(entries, k)
                                 /\ PriorAt(k) \in Prior
         /\ IsFiniteSet(PriorKeys)
<1>1. entries \in Pools(Prior)
  BY DEF TypeOK
<1>2. PriorKeys = KeysOf(entries)
  BY DEF PriorKeys, KeysOf
<1>3. \A k \in KeysOf(entries) : k \in RawKey /\ Resolves(entries, k) /\ PoolGet(entries, k) \in Prior
  BY <1>1, KeysResolve
<1>4. IsFiniteSet(KeysOf(entries))
  BY <1>1, SlotsHaveRoom
<1> QED BY <1>1, <1>2, <1>3, <1>4 DEF PriorAt

(* The pending prior is the one that New chooses. *)
LEMMA NewIsPending ==
  ASSUME NEW k \in RawKey, run.new = {k}
  PROVE  New = k
BY DEF New

(* The parts of a prior. *)
LEMMA BlocksTyped ==
  ASSUME NEW prior \in Prior
  PROVE  /\ BlockIds(prior) \subseteq State
         /\ prior.holds \subseteq Factor
         /\ prior.blocks \in Seq(Block)
         /\ \A i \in 1..Len(prior.blocks) : prior.blocks[i] \in Block
<1>1. prior.blocks \in Seq(Block) /\ prior.holds \subseteq Factor
  BY DEF Prior
<1>2. \A i \in 1..Len(prior.blocks) : prior.blocks[i] \in Block
  BY <1>1, ElementOfSeq
<1> QED BY <1>1, <1>2 DEF BlockIds, Block

(* The parts of the pools of states. *)
LEMMA PoolsTyped ==
  ASSUME TypeOK
  PROVE  /\ NPools \in Nat
         /\ \A p \in 1..NPools : /\ pools[p] \in Seq(State) /\ anchors[p] \in Seq(Anchor)
                                 /\ Range(pools[p]) \subseteq State
                                 /\ Range(anchors[p]) \subseteq Anchor
         /\ \A s : s \in Live <=> \E p \in 1..NPools : s \in Range(pools[p])
         /\ Live \subseteq State
         /\ pools = [p \in 1..NPools |-> pools[p]]
         /\ anchors = [p \in 1..NPools |-> anchors[p]]
<1>1. NPools \in Nat
  BY GraphData, LenProperties DEF NPools
<1>2. \A p \in 1..NPools : pools[p] \in Seq(State) /\ anchors[p] \in Seq(Anchor)
  BY DEF TypeOK
<1>3. \A p \in 1..NPools : Range(pools[p]) \subseteq State /\ Range(anchors[p]) \subseteq Anchor
  BY <1>2, RangeIsImage
<1>4. \A s : s \in Live <=> \E p \in 1..NPools : s \in Range(pools[p])
  BY DEF Live
<1>5. /\ pools = [p \in 1..NPools |-> pools[p]]
      /\ anchors = [p \in 1..NPools |-> anchors[p]]
  BY DEF TypeOK
<1> QED BY <1>1, <1>2, <1>3, <1>4, <1>5

(* The parts of a run. *)
LEMMA RunTyped ==
  ASSUME run \in Run
  PROVE  /\ run.phase \in Phase /\ run.remove \subseteq State /\ run.affected \subseteq Factor
         /\ run.absorbed \subseteq RawKey /\ run.layout \in Seq(State)
         /\ run.new \subseteq RawKey /\ run.rows \in 0..1 /\ run.at \in Nat
BY DEF Run

(* A live state is in the pool of its own. *)
LEMMA LivePlaced ==
  ASSUME TypeOK, StatesPlaced, NEW s \in Live
  PROVE  PoolOf[s] \in 1..NPools /\ s \in Range(pools[PoolOf[s]]) /\ s \in State
BY PoolsTyped DEF StatesPlaced

(* The states, pool after pool. *)
LEMMA BlocksProperties ==
  ASSUME TypeOK, StatesPlaced
  PROVE  Blocks \in Seq(State) /\ Distinct(Blocks) /\ Range(Blocks) = Live
<1>1. pools \in Seq(Seq(State)) /\ Len(pools) = NPools
  BY PoolsTyped, SeqDef, LenProperties DEF TypeOK
<1>2. /\ Blocks \in Seq(State)
      /\ Range(Blocks) = UNION {Range(pools[i]) : i \in 1..Len(pools)}
      /\ Apart(pools) => Distinct(Blocks)
  BY <1>1, FlattenProperties DEF Blocks
<1>3. Apart(pools)
  BY <1>1 DEF Apart, StatesPlaced
<1> QED BY <1>1, <1>2, <1>3 DEF Live

(* The layout of a front over live states. *)
LEMMA FrontLayoutFits ==
  ASSUME TypeOK, StatesPlaced, NEW R, R \subseteq Live, NEW touched,
         touched = UNION ({Deps[f] : f \in Touching(R)}
                            \cup {BlockIds(PoolGet(entries, k)) : k \in PriorsTouching(R)}),
         touched \subseteq Live
  PROVE  /\ FrontLayout(R) \in Seq(State) /\ Distinct(FrontLayout(R))
         /\ Range(FrontLayout(R)) = R \cup touched
         /\ ComesFirst(FrontLayout(R), R)
<1>1. PICK b \in Seq(State) : b = Blocks /\ Distinct(b) /\ Range(b) = Live
  BY BlocksProperties
<1>2. PICK s, t : s = Keep(b, R) /\ t = Keep(b, touched \ R)
  OBVIOUS
<1>3. FrontLayout(R) = s \o t
  BY <1>1, <1>2 DEF FrontLayout
<1>4. s \in Seq(State) /\ Range(s) = Range(b) \cap R /\ Distinct(s)
  BY <1>1, <1>2, KeepProperties
<1>5. t \in Seq(State) /\ Range(t) = Range(b) \cap (touched \ R) /\ Distinct(t)
  BY <1>1, <1>2, KeepProperties
<1>6. Range(s) = R /\ Range(t) = touched \ R
  BY <1>1, <1>4, <1>5
<1>7. /\ s \o t \in Seq(State) /\ Distinct(s \o t)
      /\ Range(s \o t) = Range(s) \cup Range(t)
  BY <1>4, <1>5, <1>6, ConcatRange
<1>8. ComesFirst(s \o t, R)
  BY <1>4, <1>5, <1>6, ConcatComesFirst
<1> QED BY <1>3, <1>6, <1>7, <1>8

-----------------------------------------------------------------------------
(* What most steps leave as it is: the graph that InformationGraph sees.   *)
SameGraph ==
  /\ GraphStates' = GraphStates /\ factors' = factors
  /\ GraphPriors' = GraphPriors /\ GraphSpent' = GraphSpent
  /\ told' = told /\ issued' = issued
  /\ \A k \in GraphPriors : PoolGet(entries', k) = PoolGet(entries, k)

(* Where the graph stays, all that is said of it does. *)
LEMMA SameGraphStays ==
  ASSUME SameGraph, TellersIssued, FactorsResolve, PriorsExact, ToldOnce
  PROVE  TellersIssued' /\ FactorsResolve' /\ PriorsExact' /\ ToldOnce'
<1>1. TellersIssued' /\ FactorsResolve'
  BY DEF SameGraph, TellersIssued, FactorsResolve, Scope
<1>2. PriorsExact'
  <2> SUFFICES ASSUME NEW k \in GraphPriors
               PROVE  (/\ BlockIds(PriorAt(k)) = GraphStates \cap Scope(PriorAt(k).holds)
                       /\ \A i, j \in 1..Len(PriorAt(k).blocks) :
                            PriorAt(k).blocks[i].id = PriorAt(k).blocks[j].id => i = j)'
    BY DEF SameGraph, PriorsExact
  <2>1. PriorAt(k)' = PriorAt(k) /\ GraphStates' = GraphStates
    BY DEF SameGraph, PriorAt
  <2>2. /\ BlockIds(PriorAt(k)) = GraphStates \cap Scope(PriorAt(k).holds)
        /\ \A i, j \in 1..Len(PriorAt(k).blocks) :
             PriorAt(k).blocks[i].id = PriorAt(k).blocks[j].id => i = j
    BY DEF PriorsExact
  <2> QED BY ONLY <2>1, <2>2 DEF BlockIds, Scope
<1>3. Told' = Told
  BY DEF SameGraph, Told, PriorAt
<1>4. ToldOnce'
  BY <1>3 DEF SameGraph, ToldOnce, PriorAt
<1> QED BY <1>1, <1>2, <1>4

(* Steps that leave the anchors leave them fitting.                        *)
LEMMA SameAnchorsFit ==
  ASSUME AnchorsFit, anchors' = anchors, run'.new = run.new,
         \A p \in 1..NPools : Anchored(p)' = Anchored(p),
         \A k \in PriorKeys \ run.new :
           k \in PriorKeys' => PoolGet(entries', k) = PoolGet(entries, k),
         run'.phase # "rollback" =>
           /\ run.phase # "rollback"
           /\ \A p \in 1..NPools :
                /\ (NewAnchored(p)' <=> NewAnchored(p))
                /\ NewAnchored(p) => PoolGet(entries', New) = PoolGet(entries, New)
  PROVE  AnchorsFit'
<1> SUFFICES ASSUME NEW p \in 1..NPools
             PROVE  (Distinct(anchors[p]) /\ OldAnchorsFit(p) /\ NewAnchorsFit(p))'
  BY DEF AnchorsFit
<1>1. Distinct(anchors[p]) /\ OldAnchorsFit(p) /\ NewAnchorsFit(p)
  BY DEF AnchorsFit
<1>2. OldAnchorsFit(p)'
  <2>1. \A k \in Anchored(p) : PoolGet(entries', k) = PoolGet(entries, k)
    BY DEF Anchored
  <2>2. UNION {AnchorSet(PoolGet(entries', k), k, p) : k \in Anchored(p)'}
          = UNION {AnchorSet(PoolGet(entries, k), k, p) : k \in Anchored(p)}
    BY <2>1
  <2> QED BY ONLY <1>1, <2>2, anchors' = anchors, run'.new = run.new DEF OldAnchorsFit, PriorAt
<1>3. NewAnchorsFit(p)'
  <2> SUFFICES ASSUME run'.phase # "rollback" PROVE NewAnchorsFit(p)'
    BY DEF NewAnchorsFit
  <2>1. New' = New
    BY DEF New
  <2>2. CASE NewAnchored(p)
    BY <1>1, <2>1, <2>2 DEF NewAnchorsFit, PriorAt
  <2>3. CASE ~NewAnchored(p)
    BY <1>1, <2>3 DEF NewAnchorsFit
  <2> QED BY <2>2, <2>3
<1> QED BY <1>1, <1>2, <1>3

(* The elements of a sequence with one more. *)
LEMMA AppendRange ==
  ASSUME NEW T, NEW s \in Seq(T), NEW x \in T
  PROVE  /\ Append(s, x) \in Seq(T)
         /\ Range(Append(s, x)) = Range(s) \cup {x}
         /\ Distinct(s) /\ x \notin Range(s) => Distinct(Append(s, x))
<1>1. PICK n \in Nat : n = Len(s)
  BY LenProperties
<1>2. PICK t : t = Append(s, x)
  OBVIOUS
<1>3. t \in Seq(T) /\ Len(t) = n + 1 /\ t[n + 1] = x /\ \A i \in 1..n : t[i] = s[i]
  BY <1>1, <1>2, AppendProperties
<1>4. \A y : y \in Range(t) <=> \E i \in 1..(n + 1) : t[i] = y
  BY <1>3, InRange
<1>5. \A y : y \in Range(s) <=> \E i \in 1..n : s[i] = y
  BY <1>1, InRange
<1>6. \A i : i \in 1..(n + 1) <=> i \in 1..n \/ i = n + 1
  OBVIOUS
<1>7. Range(t) = Range(s) \cup {x}
  BY ONLY <1>3, <1>4, <1>5, <1>6
<1>8. ASSUME Distinct(s), x \notin Range(s) PROVE Distinct(t)
  <2>1. \A i, j \in 1..n : s[i] = s[j] => i = j
    BY <1>1, <1>8 DEF Distinct
  <2>2. \A i, j \in 1..(n + 1) : t[i] = t[j] => i = j
    BY ONLY <2>1, <1>3, <1>5, <1>6, <1>8
  <2> QED BY <1>3, <2>2 DEF Distinct
<1> QED BY <1>2, <1>3, <1>7, <1>8

(* Before publication the graph is what the variables hold, but for the    *)
(* pending prior.                                                          *)
LEMMA UnpublishedGraph ==
  ~Published => /\ GraphStates = Live /\ GraphSpent = constant
                /\ GraphPriors = PriorKeys \ run.new
BY DEF GraphStates, GraphSpent, GraphPriors, PriorInGraph

(* From publication on the front is gone, deleted or not. *)
LEMMA PublishedGraph ==
  Published => /\ GraphStates = Live \ run.remove
               /\ GraphSpent = constant \cup IF run.rows = 0 THEN PriorAt(New).holds ELSE {}
               /\ GraphPriors = {k \in PriorKeys : IF k \in run.new THEN run.rows > 0
                                                   ELSE k \notin run.absorbed}
BY DEF GraphStates, GraphSpent, GraphPriors, PriorInGraph

(* When nothing runs, nothing is pending. *)
LEMMA NoRunFits ==
  run = NoRun => /\ run \in Run /\ RunFits /\ SpareFits /\ ~Published
                 /\ run.phase = "idle" /\ run.new = {}
                 /\ \A p : ~NewAnchored(p) /\ Anchored(p) = PriorKeys
<1> SUFFICES ASSUME run = NoRun
             PROVE  /\ run \in Run /\ RunFits /\ SpareFits /\ ~Published
                    /\ run.phase = "idle" /\ run.new = {}
                    /\ \A p : ~NewAnchored(p) /\ Anchored(p) = PriorKeys
  OBVIOUS
<1>1. run.phase = "idle" /\ run.new = {} /\ run.rows = 0
  BY DEF NoRun
<1>2. run \in Run
  BY EmptySeq DEF NoRun, Run, Phase
<1>3. ~Published /\ SpareFits
  BY <1>1 DEF Published, SpareFits
<1>4. RunFits
  BY <1>1, <1>3 DEF RunFits
<1>5. \A p : ~NewAnchored(p) /\ Anchored(p) = PriorKeys
  BY <1>1 DEF NewAnchored, Anchored, Unanchored
<1> QED BY <1>1, <1>2, <1>3, <1>4, <1>5

(* The same, after a step. *)
LEMMA NoRunFitsNext ==
  ASSUME run' = NoRun
  PROVE  /\ run' \in Run /\ RunFits' /\ SpareFits' /\ ~Published'
         /\ run'.phase = "idle" /\ run'.new = {}
         /\ \A p : ~NewAnchored(p)' /\ Anchored(p)' = PriorKeys'
<1>1. (run = NoRun => /\ run \in Run /\ RunFits /\ SpareFits /\ ~Published
                      /\ run.phase = "idle" /\ run.new = {}
                      /\ \A p : ~NewAnchored(p) /\ Anchored(p) = PriorKeys)'
  BY NoRunFits, PTL
<1> QED BY <1>1

(* Between calls there is no run. *)
LEMMA IdleFacts ==
  ASSUME RunFits, Idle
  PROVE  run = NoRun /\ ~Published /\ run.new = {} /\ run.phase = "idle"
BY DEF RunFits, Idle, NoRun, Published

-----------------------------------------------------------------------------
(* The empty graph. *)
LEMMA StartsFit == Init => IInv
<1> SUFFICES ASSUME Init PROVE IInv
  OBVIOUS
<1>1. /\ pools = [p \in 1..NPools |-> <<>>] /\ anchors = [p \in 1..NPools |-> <<>>]
      /\ factors = {} /\ entries = EmptyPool(PriorsId) /\ constant = {} /\ run = NoRun
      /\ spare = [buffers |-> <<>>, capacity |-> 0] /\ result = "ok" /\ issued = {} /\ told = {}
  BY DEF Init
<1>2. entries \in Pools(Prior) /\ PoolOk(entries) /\ entries.keys = <<>>
  BY <1>1, EmptyPoolOk, GraphData DEF EmptyPool
<1>3. PriorKeys = {}
  BY <1>2 DEF PriorKeys
<1>4. \A p \in 1..NPools : Range(pools[p]) = {} /\ Range(anchors[p]) = {}
  BY <1>1 DEF Range
<1>5. Live = {}
  BY <1>4 DEF Live
<1>6. TypeOK
  BY <1>1, <1>2, <1>4, NoRunFits, EmptySeq DEF TypeOK
<1>7. StatesPlaced /\ TellersIssued
  BY <1>1, <1>4, <1>5 DEF StatesPlaced, TellersIssued, Scope, Distinct
<1>8. GraphPriors = {} /\ GraphSpent = {}
  BY <1>1, <1>3, NoRunFits, UnpublishedGraph
<1>9. FactorsResolve /\ PriorsExact
  BY <1>1, <1>8 DEF FactorsResolve, PriorsExact
<1>10. ToldOnce
  BY <1>1, <1>8 DEF ToldOnce, Told
<1>11. AnchorsFit
  <2> SUFFICES ASSUME NEW p \in 1..NPools
               PROVE  Distinct(anchors[p]) /\ OldAnchorsFit(p) /\ NewAnchorsFit(p)
    BY DEF AnchorsFit
  <2>1. Anchored(p) = {} /\ ~NewAnchored(p)
    BY <1>1, <1>3, NoRunFits
  <2> QED BY <1>1, <1>4, <2>1 DEF Distinct, OldAnchorsFit, NewAnchorsFit
<1> QED BY <1>1, <1>2, <1>6, <1>7, <1>9, <1>10, <1>11, NoRunFits DEF IInv

-----------------------------------------------------------------------------
(* The edits between marginalizations. *)
LEMMA AddStateFits ==
  ASSUME IInv, NEW s \in State, AddState(s)
  PROVE  IInv'
<1>1. /\ TypeOK /\ PoolOk(entries) /\ StatesPlaced /\ TellersIssued /\ FactorsResolve
      /\ PriorsExact /\ ToldOnce /\ AnchorsFit /\ RunFits
  BY DEF IInv
<1>2. /\ Idle /\ s \notin issued /\ issued' = issued \cup {s} /\ result' = "ok"
      /\ anchors' = anchors /\ factors' = factors /\ entries' = entries /\ spare' = spare
      /\ constant' = constant /\ run' = run /\ told' = told
      /\ pools' = [pools EXCEPT ![PoolOf[s]] = Append(@, s)]
  BY DEF AddState, priors
<1>3. run = NoRun /\ run' = NoRun /\ run.new = {}
  BY <1>1, <1>2, IdleFacts
<1>4. PICK q : q = PoolOf[s]
  OBVIOUS
<1>5. q \in 1..NPools /\ s \notin Live
  BY <1>1, <1>2, <1>4, GraphData DEF StatesPlaced
<1>6. /\ \A p \in 1..NPools : p # q => pools'[p] = pools[p]
      /\ pools'[q] = Append(pools[q], s)
      /\ pools' \in [1..NPools -> Seq(State)]
  BY <1>1, <1>2, <1>4, <1>5, AppendProperties DEF TypeOK
<1>7. /\ Range(pools'[q]) = Range(pools[q]) \cup {s}
      /\ Distinct(pools'[q])
  <2>1. pools[q] \in Seq(State) /\ Distinct(pools[q]) /\ s \notin Range(pools[q])
    BY <1>1, <1>5, PoolsTyped DEF StatesPlaced
  <2> QED BY <2>1, <1>6, AppendRange
<1>8. Live' = Live \cup {s}
  <2>1. \A x : x \in Live' <=> \E p \in 1..NPools : x \in Range(pools'[p])
    BY DEF Live
  <2>2. \A x : x \in Live <=> \E p \in 1..NPools : x \in Range(pools[p])
    BY DEF Live
  <2> QED BY ONLY <2>1, <2>2, <1>5, <1>6, <1>7
<1>9. TypeOK'
  BY <1>1, <1>2, <1>6 DEF TypeOK
<1>10. StatesPlaced'
  <2>1. \A p \in 1..NPools : Distinct(pools'[p]) /\ \A x \in Range(pools'[p]) : PoolOf[x] = p
    BY <1>1, <1>4, <1>6, <1>7 DEF StatesPlaced
  <2>2. Live' \subseteq issued'
    BY <1>1, <1>2, <1>8 DEF StatesPlaced
  <2> QED BY <2>1, <2>2 DEF StatesPlaced
<1>11. TellersIssued'
  BY <1>1, <1>2 DEF TellersIssued, Scope
<1>12. /\ GraphStates = Live /\ GraphStates' = Live' /\ PriorKeys' = PriorKeys
       /\ GraphPriors = PriorKeys /\ GraphPriors' = PriorKeys
       /\ GraphSpent' = constant /\ GraphSpent = constant
  <2>1. /\ ~Published => GraphStates = Live /\ GraphSpent = constant /\ GraphPriors = PriorKeys \ run.new
        /\ (~Published => GraphStates = Live /\ GraphSpent = constant /\ GraphPriors = PriorKeys \ run.new)'
    BY UnpublishedGraph, PTL
  <2>2. ~Published /\ ~Published'
    BY <1>3, NoRunFits DEF Published
  <2>3. PriorKeys' = PriorKeys
    BY <1>2 DEF PriorKeys
  <2> QED BY <2>1, <2>2, <2>3, <1>2, <1>3
<1>13. FactorsResolve'
  BY <1>1, <1>2, <1>8, <1>12 DEF FactorsResolve
<1>14. PriorsExact'
  <2> SUFFICES ASSUME NEW k \in PriorKeys
               PROVE  (/\ BlockIds(PriorAt(k)) = GraphStates \cap Scope(PriorAt(k).holds)
                       /\ \A i, j \in 1..Len(PriorAt(k).blocks) :
                            PriorAt(k).blocks[i].id = PriorAt(k).blocks[j].id => i = j)'
    BY <1>12 DEF PriorsExact
  <2>1. PriorAt(k)' = PriorAt(k)
    BY <1>2 DEF PriorAt
  <2>2. /\ BlockIds(PriorAt(k)) = Live \cap Scope(PriorAt(k).holds)
        /\ \A i, j \in 1..Len(PriorAt(k).blocks) :
             PriorAt(k).blocks[i].id = PriorAt(k).blocks[j].id => i = j
    BY <1>1, <1>12 DEF PriorsExact
  <2>3. PriorAt(k).holds \subseteq told
    BY <1>1, <1>12 DEF ToldOnce, Told
  <2>4. s \notin Scope(PriorAt(k).holds)
    BY <2>3, <1>1, <1>2 DEF TellersIssued, Scope
  <2>5. GraphStates' = Live \cup {s}
    BY <1>8, <1>12
  <2> QED BY ONLY <2>1, <2>2, <2>4, <2>5 DEF BlockIds, Scope
<1>15. ToldOnce'
  BY <1>1, <1>2, <1>12 DEF ToldOnce, Told, PriorAt
<1>16. AnchorsFit'
  <2>1. \A p : (NewAnchored(p)' <=> NewAnchored(p)) /\ Anchored(p)' = Anchored(p)
    BY <1>2, <1>12 DEF NewAnchored, Anchored, Unanchored
  <2>2. run.phase = "idle"
    BY <1>3, NoRunFits
  <2> QED BY <1>1, <1>2, <2>1, <2>2, SameAnchorsFit
<1>17. RunFits' /\ SpareFits'
  BY <1>3, NoRunFitsNext
<1> QED BY <1>1, <1>2, <1>9, <1>10, <1>11, <1>13, <1>14, <1>15, <1>16, <1>17 DEF IInv

(* Edits and calls between marginalizations that leave the pools of states *)
(* and priors alone. *)
LEMMA AtRest ==
  ASSUME IInv, run = NoRun, run' = NoRun, pools' = pools, entries' = entries,
         anchors' = anchors, constant' = constant, issued \subseteq issued'
  PROVE  /\ StatesPlaced' /\ PriorsExact' /\ AnchorsFit' /\ RunFits' /\ SpareFits'
         /\ PriorKeys' = PriorKeys
         /\ GraphStates = Live /\ GraphStates' = Live
         /\ GraphPriors = PriorKeys /\ GraphPriors' = PriorKeys
         /\ GraphSpent = constant /\ GraphSpent' = constant
<1>1. StatesPlaced /\ AnchorsFit /\ PriorsExact
  BY DEF IInv
<1>2. PriorKeys' = PriorKeys /\ Live' = Live
  BY DEF PriorKeys, Live
<1>3. StatesPlaced'
  BY <1>1, <1>2 DEF StatesPlaced
<1>4. /\ ~Published /\ run.phase = "idle" /\ run.new = {}
      /\ \A p : ~NewAnchored(p) /\ Anchored(p) = PriorKeys
  BY NoRunFits
<1>5. /\ ~Published' /\ RunFits' /\ SpareFits' /\ run'.phase = "idle" /\ run'.new = {}
      /\ \A p : ~NewAnchored(p)' /\ Anchored(p)' = PriorKeys'
  BY NoRunFitsNext
<1>6. AnchorsFit'
  <2>1. \A p \in 1..NPools : Anchored(p)' = Anchored(p) /\ (NewAnchored(p)' <=> NewAnchored(p))
    BY <1>2, <1>4, <1>5
  <2>2. \A k \in PriorKeys \ run.new :
          k \in PriorKeys' => PoolGet(entries', k) = PoolGet(entries, k)
    OBVIOUS
  <2>3. /\ run'.phase # "rollback" /\ run.phase # "rollback" /\ run'.new = run.new
        /\ PoolGet(entries', New) = PoolGet(entries, New)
    BY <1>4, <1>5
  <2> QED BY ONLY <1>1, <2>1, <2>2, <2>3, anchors' = anchors, SameAnchorsFit
<1>7. GraphStates = Live /\ GraphPriors = PriorKeys /\ GraphSpent = constant
  BY <1>4, UnpublishedGraph
<1>8. (~Published => GraphStates = Live /\ GraphSpent = constant /\ GraphPriors = PriorKeys \ run.new)'
  BY UnpublishedGraph, PTL
<1>9. PriorsExact'
  <2> SUFFICES ASSUME NEW k \in PriorKeys
               PROVE  (/\ BlockIds(PriorAt(k)) = GraphStates \cap Scope(PriorAt(k).holds)
                       /\ \A i, j \in 1..Len(PriorAt(k).blocks) :
                            PriorAt(k).blocks[i].id = PriorAt(k).blocks[j].id => i = j)'
    BY <1>2, <1>8, <1>5 DEF PriorsExact
  <2>1. /\ BlockIds(PriorAt(k)) = Live \cap Scope(PriorAt(k).holds)
        /\ \A i, j \in 1..Len(PriorAt(k).blocks) :
             PriorAt(k).blocks[i].id = PriorAt(k).blocks[j].id => i = j
    BY <1>1, <1>7 DEF PriorsExact
  <2>2. PriorAt(k)' = PriorAt(k) /\ GraphStates' = Live
    BY <1>2, <1>5, <1>8 DEF PriorAt
  <2> QED BY ONLY <2>1, <2>2 DEF BlockIds, Scope
<1> QED BY <1>2, <1>3, <1>5, <1>6, <1>7, <1>8, <1>9

(* A factor is inserted, or refused. *)
LEMMA AddFactorFits ==
  ASSUME IInv, NEW f \in Factor, AddFactor(f)
  PROVE  IInv'
<1>1. /\ TypeOK /\ PoolOk(entries) /\ TellersIssued /\ FactorsResolve
      /\ PriorsExact /\ ToldOnce /\ RunFits /\ Live \subseteq issued
  BY DEF IInv, StatesPlaced
<1>2. /\ Idle /\ f \notin issued /\ pools' = pools
      /\ anchors' = anchors /\ entries' = entries /\ spare' = spare
      /\ constant' = constant /\ run' = run
      /\ \/ /\ Deps[f] \subseteq Live /\ factors' = factors \cup {f}
            /\ issued' = issued \cup {f} /\ told' = told \cup {f} /\ result' = "ok"
         \/ /\ factors' = factors /\ issued' = issued /\ told' = told /\ result' = "refused"
  BY DEF AddFactor, priors
<1>3. run = NoRun /\ run' = NoRun /\ run.new = {}
  BY <1>1, <1>2, IdleFacts
<1>4. /\ StatesPlaced' /\ PriorsExact' /\ AnchorsFit' /\ RunFits' /\ SpareFits'
      /\ PriorKeys' = PriorKeys
      /\ GraphStates = Live /\ GraphStates' = Live
      /\ GraphPriors = PriorKeys /\ GraphPriors' = PriorKeys
      /\ GraphSpent = constant /\ GraphSpent' = constant
  BY <1>2, <1>3, AtRest
<1>5. TypeOK'
  BY <1>1, <1>2 DEF TypeOK
<1>6. TellersIssued' /\ FactorsResolve'
  BY <1>1, <1>2, <1>4 DEF TellersIssued, FactorsResolve, Scope
<1>7. \A k : PriorAt(k)' = PriorAt(k)
  BY <1>2 DEF PriorAt
<1>9. /\ told = factors \cup constant \cup UNION {PriorAt(k).holds : k \in PriorKeys}
      /\ factors \cap constant = {}
      /\ \A k \in PriorKeys :
           /\ PriorAt(k).holds \cap (factors \cup constant) = {}
           /\ \A l \in PriorKeys \ {k} : PriorAt(k).holds \cap PriorAt(l).holds = {}
  BY <1>1, <1>4 DEF ToldOnce, Told
<1>10. f \notin told
  BY <1>1, <1>2 DEF TellersIssued
<1>11. f \notin constant /\ \A k \in PriorKeys : f \notin PriorAt(k).holds
  BY <1>9, <1>10
<1>12. /\ told' = factors' \cup constant \cup UNION {PriorAt(k).holds : k \in PriorKeys}
       /\ factors' \cap constant = {}
       /\ \A k \in PriorKeys :
            /\ PriorAt(k).holds \cap (factors' \cup constant) = {}
            /\ \A l \in PriorKeys \ {k} : PriorAt(k).holds \cap PriorAt(l).holds = {}
  BY ONLY <1>2, <1>9, <1>11
<1>13. ToldOnce'
  BY <1>4, <1>7, <1>12 DEF ToldOnce, Told
<1> QED BY <1>1, <1>2, <1>4, <1>5, <1>6, <1>13 DEF IInv

(* A factor is taken out, or refused. *)
LEMMA RemoveFactorFits ==
  ASSUME IInv, NEW f \in Factor, RemoveFactor(f)
  PROVE  IInv'
<1>1. /\ TypeOK /\ PoolOk(entries) /\ TellersIssued /\ FactorsResolve
      /\ PriorsExact /\ ToldOnce /\ RunFits
  BY DEF IInv
<1>2. /\ Idle /\ pools' = pools
      /\ anchors' = anchors /\ entries' = entries /\ spare' = spare
      /\ constant' = constant /\ run' = run /\ issued' = issued
      /\ \/ /\ f \in factors /\ factors' = factors \ {f}
            /\ told' = told \ {f} /\ result' = "ok"
         \/ /\ factors' = factors /\ told' = told /\ result' = "refused"
  BY DEF RemoveFactor, priors
<1>3. run = NoRun /\ run' = NoRun /\ run.new = {}
  BY <1>1, <1>2, IdleFacts
<1>4. /\ StatesPlaced' /\ PriorsExact' /\ AnchorsFit' /\ RunFits' /\ SpareFits'
      /\ PriorKeys' = PriorKeys
      /\ GraphStates = Live /\ GraphStates' = Live
      /\ GraphPriors = PriorKeys /\ GraphPriors' = PriorKeys
      /\ GraphSpent = constant /\ GraphSpent' = constant
  BY <1>2, <1>3, AtRest
<1>5. TypeOK'
  BY <1>1, <1>2 DEF TypeOK
<1>6. TellersIssued' /\ FactorsResolve'
  BY <1>1, <1>2, <1>4 DEF TellersIssued, FactorsResolve, Scope
<1>7. \A k : PriorAt(k)' = PriorAt(k)
  BY <1>2 DEF PriorAt
<1>9. /\ told = factors \cup constant \cup UNION {PriorAt(k).holds : k \in PriorKeys}
      /\ factors \cap constant = {}
      /\ \A k \in PriorKeys :
           /\ PriorAt(k).holds \cap (factors \cup constant) = {}
           /\ \A l \in PriorKeys \ {k} : PriorAt(k).holds \cap PriorAt(l).holds = {}
  BY <1>1, <1>4 DEF ToldOnce, Told
<1>10. f \in factors => f \notin constant /\ \A k \in PriorKeys : f \notin PriorAt(k).holds
  BY <1>9
<1>11. /\ told' = factors' \cup constant \cup UNION {PriorAt(k).holds : k \in PriorKeys}
       /\ factors' \cap constant = {}
       /\ \A k \in PriorKeys :
            /\ PriorAt(k).holds \cap (factors' \cup constant) = {}
            /\ \A l \in PriorKeys \ {k} : PriorAt(k).holds \cap PriorAt(l).holds = {}
  BY ONLY <1>2, <1>9, <1>10
<1>12. ToldOnce'
  BY <1>4, <1>7, <1>11 DEF ToldOnce, Told
<1> QED BY <1>1, <1>2, <1>4, <1>5, <1>6, <1>12 DEF IInv

-----------------------------------------------------------------------------
(* Until publication begins the graph stays as it is. *)
LEMMA UnpublishedStep ==
  ASSUME IInv, ~Published, ~Published', pools' = pools, factors' = factors,
         constant' = constant, told' = told, issued' = issued,
         PriorKeys' \ run'.new = PriorKeys \ run.new,
         \A k \in PriorKeys \ run.new : PoolGet(entries', k) = PoolGet(entries, k)
  PROVE  /\ SameGraph /\ Live' = Live
         /\ StatesPlaced' /\ TellersIssued' /\ FactorsResolve' /\ PriorsExact' /\ ToldOnce'
<1>1. StatesPlaced /\ TellersIssued /\ FactorsResolve /\ PriorsExact /\ ToldOnce
  BY DEF IInv
<1>2. Live' = Live
  BY DEF Live
<1>3. GraphStates = Live /\ GraphSpent = constant /\ GraphPriors = PriorKeys \ run.new
  BY UnpublishedGraph
<1>4. (~Published => GraphStates = Live /\ GraphSpent = constant /\ GraphPriors = PriorKeys \ run.new)'
  BY UnpublishedGraph, PTL
<1>5. SameGraph
  BY <1>2, <1>3, <1>4 DEF SameGraph
<1>6. StatesPlaced'
  BY <1>1, <1>2 DEF StatesPlaced
<1> QED BY <1>1, <1>2, <1>5, <1>6, SameGraphStays

(* A marginalization begins with its plan. *)
LEMMA PlanFits ==
  ASSUME IInv, NEW R \in SUBSET State, Idle, R # {}, R \subseteq Live, Plan(R),
         UNCHANGED <<graph, priors, history, result>>
  PROVE  IInv' /\ SameGraph
<1>1. /\ TypeOK /\ PoolOk(entries) /\ StatesPlaced /\ FactorsResolve
      /\ PriorsExact /\ AnchorsFit /\ RunFits
  BY DEF IInv
<1>2. /\ pools' = pools /\ anchors' = anchors /\ factors' = factors /\ entries' = entries
      /\ spare' = spare /\ constant' = constant /\ result' = result
      /\ issued' = issued /\ told' = told
  BY DEF graph, priors, history
<1>3. /\ run = NoRun /\ ~Published /\ run.new = {} /\ run.phase = "idle"
      /\ \A p : ~NewAnchored(p) /\ Anchored(p) = PriorKeys
  BY <1>1, IdleFacts, NoRunFits
<1>4. /\ run'.phase = "collect" /\ run'.remove = R /\ run'.affected = Touching(R)
      /\ run'.absorbed = PriorsTouching(R) /\ run'.layout = FrontLayout(R)
      /\ run'.new = {} /\ run'.rows = 0 /\ run'.at = 0
      /\ run' = [phase |-> "collect", remove |-> R, affected |-> Touching(R),
                 absorbed |-> PriorsTouching(R), layout |-> FrontLayout(R), new |-> {},
                 rows |-> 0, at |-> 0]
  BY DEF Plan, NoRun
<1>5. PICK touched : touched = UNION ({Deps[f] : f \in Touching(R)}
                            \cup {BlockIds(PoolGet(entries, k)) : k \in PriorsTouching(R)})
  OBVIOUS
<1>6. GraphStates = Live /\ GraphPriors = PriorKeys
  BY <1>3, UnpublishedGraph
<1>7. touched \subseteq Live
  <2>1. \A f \in Touching(R) : Deps[f] \subseteq Live
    BY <1>1, <1>6 DEF FactorsResolve, Touching
  <2>2. \A k \in PriorsTouching(R) : BlockIds(PoolGet(entries, k)) \subseteq Live
    BY <1>1, <1>6 DEF PriorsExact, PriorsTouching, PriorAt
  <2> QED BY <1>5, <2>1, <2>2
<1>8. /\ FrontLayout(R) \in Seq(State) /\ Distinct(FrontLayout(R))
      /\ Range(FrontLayout(R)) = R \cup touched
      /\ ComesFirst(FrontLayout(R), R)
  BY <1>1, <1>5, <1>7, FrontLayoutFits
<1>9. run' \in Run
  <2>1. Touching(R) \subseteq Factor /\ PriorsTouching(R) \subseteq RawKey
    BY <1>1, PriorsTyped DEF Touching, PriorsTouching, TypeOK
  <2> QED BY <1>4, <1>8, <2>1 DEF Run, Phase
<1>10. TypeOK'
  BY <1>1, <1>2, <1>9 DEF TypeOK
<1>11. ~Published' /\ PriorKeys' = PriorKeys
  BY <1>2, <1>4 DEF Published, PriorKeys
<1>12. /\ Live' = Live
       /\ SameGraph /\ StatesPlaced' /\ TellersIssued'
       /\ FactorsResolve' /\ PriorsExact' /\ ToldOnce'
  BY <1>2, <1>3, <1>4, <1>11, UnpublishedStep
<1>13. AnchorsFit'
  <2>1. \A p \in 1..NPools : Anchored(p)' = Anchored(p) /\ (NewAnchored(p)' <=> NewAnchored(p))
    BY <1>3, <1>4, <1>11 DEF Anchored, NewAnchored, Unanchored
  <2> QED BY <1>1, <1>2, <1>3, <1>4, <2>1, SameAnchorsFit
<1>14. LayoutFits'
  <2>1. Touched' = (UNION {Deps[f] : f \in Touching(R)})
                     \cup (UNION {BlockIds(PoolGet(entries, k)) : k \in PriorsTouching(R)})
    BY <1>2, <1>4 DEF Touched, BlockIds
  <2>2. touched = (UNION {Deps[f] : f \in Touching(R)})
                    \cup (UNION {BlockIds(PoolGet(entries, k)) : k \in PriorsTouching(R)})
    <3>1. PICK A, B : /\ A = {Deps[f] : f \in Touching(R)}
                      /\ B = {BlockIds(PoolGet(entries, k)) : k \in PriorsTouching(R)}
      OBVIOUS
    <3>2. UNION (A \cup B) = (UNION A) \cup (UNION B)
      OBVIOUS
    <3> QED BY ONLY <1>5, <3>1, <3>2
  <2> QED BY <1>4, <1>8, <2>1, <2>2 DEF LayoutFits
<1>15. Planned'
  <2>1. Touching(R)' = Touching(R)
    BY <1>2 DEF Touching
  <2>2. PriorsTouching(R) = {k \in PriorKeys : BlockIds(PriorAt(k)') \cap R # {}}
    BY <1>2 DEF PriorsTouching, PriorAt
  <2>4. (run.affected = Touching(run.remove))'
    BY <1>4, <2>1 DEF Touching
  <2>5. (run.absorbed = {k \in PriorKeys \ run.new : BlockIds(PriorAt(k)) \cap run.remove # {}})'
    BY <1>4, <1>11, <2>2 DEF BlockIds
  <2> QED BY <1>4, <1>12, <1>14, <2>4, <2>5 DEF Planned
<1>16. RunFits'
  BY <1>4, <1>11, <1>15 DEF RunFits
<1>17. SpareFits'
  BY <1>4 DEF SpareFits
<1> QED BY <1>1, <1>2, <1>10, <1>12, <1>13, <1>16, <1>17 DEF IInv

(* A call returns at once or begins. *)
LEMMA MarginalizeFits ==
  ASSUME IInv, NEW R \in SUBSET State, Marginalize(R)
  PROVE  IInv' /\ SameGraph
<1>1. CASE run' = run /\ result' \in {"ok", "refused"}
  <2>1. /\ TypeOK /\ PoolOk(entries) /\ TellersIssued /\ FactorsResolve
        /\ ToldOnce /\ RunFits
    BY DEF IInv
  <2>2. /\ Idle /\ pools' = pools /\ anchors' = anchors /\ factors' = factors
        /\ entries' = entries /\ spare' = spare /\ constant' = constant
        /\ issued' = issued /\ told' = told
    BY DEF Marginalize, graph, priors, history
  <2>3. run = NoRun /\ run' = NoRun
    BY <1>1, <2>1, <2>2, IdleFacts
  <2>4. /\ StatesPlaced' /\ PriorsExact' /\ AnchorsFit' /\ RunFits' /\ SpareFits'
        /\ PriorKeys' = PriorKeys
        /\ GraphStates = Live /\ GraphStates' = Live
        /\ GraphPriors = PriorKeys /\ GraphPriors' = PriorKeys
        /\ GraphSpent = constant /\ GraphSpent' = constant
    BY <2>2, <2>3, AtRest
  <2>5. TypeOK'
    BY <1>1, <2>1, <2>2 DEF TypeOK
  <2>6. SameGraph
    BY <2>2, <2>4 DEF SameGraph
  <2>7. TellersIssued' /\ FactorsResolve' /\ ToldOnce'
    BY <2>1, <2>6, SameGraphStays DEF IInv
  <2> QED BY <2>1, <2>2, <2>4, <2>5, <2>6, <2>7 DEF IInv
<1>2. CASE R # {} /\ R \subseteq Live /\ Plan(R) /\ result' = result
  BY <1>2, PlanFits DEF Marginalize
<1> QED BY <1>1, <1>2 DEF Marginalize

(* An error before anything was written leaves everything. *)
LEMMA CollectFailsFits ==
  ASSUME IInv, CollectFails
  PROVE  IInv' /\ SameGraph
<1>1. TypeOK /\ PoolOk(entries) /\ AnchorsFit /\ RunFits
  BY DEF IInv
<1>2. /\ pools' = pools /\ anchors' = anchors /\ factors' = factors /\ entries' = entries
      /\ spare' = spare /\ constant' = constant /\ result' = "refused"
      /\ issued' = issued /\ told' = told /\ run' = NoRun /\ run.phase = "collect"
  BY DEF CollectFails, graph, priors, history
<1>3. ~Published /\ run.new = {}
  BY <1>1, <1>2 DEF Published, RunFits
<1>4. /\ run' \in Run /\ RunFits' /\ SpareFits' /\ ~Published' /\ run'.phase = "idle" /\ run'.new = {}
      /\ \A p : ~NewAnchored(p)' /\ Anchored(p)' = PriorKeys'
  BY <1>2, NoRunFitsNext
<1>5. PriorKeys' = PriorKeys
  BY <1>2 DEF PriorKeys
<1>6. /\ SameGraph /\ StatesPlaced' /\ TellersIssued'
      /\ FactorsResolve' /\ PriorsExact' /\ ToldOnce'
  BY <1>2, <1>3, <1>4, <1>5, UnpublishedStep
<1>7. AnchorsFit'
  <2>1. \A p \in 1..NPools : Anchored(p)' = Anchored(p) /\ (NewAnchored(p)' <=> NewAnchored(p))
    BY <1>2, <1>3, <1>4, <1>5 DEF Anchored, NewAnchored, Unanchored
  <2> QED BY <1>1, <1>2, <1>3, <1>4, <2>1, SameAnchorsFit
<1>8. TypeOK'
  BY <1>1, <1>2, <1>4 DEF TypeOK
<1> QED BY <1>1, <1>2, <1>4, <1>6, <1>7, <1>8 DEF IInv

-----------------------------------------------------------------------------
(* A plan holds for as long as the front and its priors stay. *)
LEMMA PlanStays ==
  ASSUME Planned, Live' = Live, factors' = factors, PriorKeys' \ run'.new = PriorKeys \ run.new,
         \A k \in PriorKeys \ run.new : PoolGet(entries', k) = PoolGet(entries, k),
         run'.remove = run.remove, run'.affected = run.affected,
         run'.absorbed = run.absorbed, run'.layout = run.layout
  PROVE  /\ Planned' /\ Touched' = Touched /\ Separator' = Separator
         /\ NewBlocks' = NewBlocks /\ Tells' = Tells
<1>1. \A k \in run.absorbed : k \in PriorKeys \ run.new /\ PoolGet(entries', k) = PoolGet(entries, k)
  BY DEF Planned
<1>2. Touched' = Touched
  BY <1>1 DEF Touched, BlockIds
<1>3. Tells' = Tells
  BY <1>1 DEF Tells
<1>4. Separator' = Separator
  BY DEF Separator
<1>5. \A s : ColumnOf(s)' = ColumnOf(s)
  BY <1>4 DEF ColumnOf, RemovedDof
<1>6. NewBlocks' = NewBlocks
  BY <1>4, <1>5 DEF NewBlocks
<1>7. LayoutFits'
  BY <1>2 DEF Planned, LayoutFits
<1>8. (run.affected = Touching(run.remove))'
  BY DEF Planned, Touching
<1>9. (run.absorbed = {k \in PriorKeys \ run.new : BlockIds(PriorAt(k)) \cap run.remove # {}})'
  <2>1. run.absorbed = {k \in PriorKeys \ run.new : BlockIds(PoolGet(entries, k)) \cap run.remove # {}}
    BY DEF Planned, PriorAt
  <2>2. {k \in PriorKeys' \ run'.new : BlockIds(PoolGet(entries', k)) \cap run'.remove # {}}
          = {k \in PriorKeys \ run.new : BlockIds(PoolGet(entries, k)) \cap run.remove # {}}
    OBVIOUS
  <2>3. run'.absorbed = {k \in PriorKeys' \ run'.new : BlockIds(PoolGet(entries', k)) \cap run'.remove # {}}
    BY ONLY <2>1, <2>2, run'.absorbed = run.absorbed
  <2> QED BY ONLY <2>3 DEF PriorAt, BlockIds
<1> QED BY <1>2, <1>3, <1>4, <1>6, <1>7, <1>8, <1>9 DEF Planned

(* spare.reserve makes room for what may come back. *)
LEMMA SparePoppedFits ==
  ASSUME TypeOK, PoolOk(entries), run.absorbed \subseteq PriorKeys
  PROVE  /\ SparePopped \in [buffers : Seq(Prior), capacity : Nat]
         /\ Recycled \in Prior
         /\ IsFiniteSet(run.absorbed)
         /\ Len(SparePopped.buffers) + Cardinality(run.absorbed) + 1 <= SparePopped.capacity
<1>1. PICK b \in Seq(Prior), c \in Nat : b = spare.buffers /\ c = spare.capacity
  BY DEF TypeOK
<1>2. PICK n \in Nat : n = Len(b)
  BY LenProperties
<1>3. IsFiniteSet(run.absorbed) /\ Cardinality(run.absorbed) \in Nat
  BY PriorsTyped, FS_Subset, FS_CardinalityType
<1>4. PICK m \in Nat : m = Cardinality(run.absorbed)
  BY <1>3
<1>5. PICK bb : bb = IF b = <<>> THEN <<>> ELSE ButLast(b)
  OBVIOUS
<1>6. bb \in Seq(Prior) /\ Len(bb) \in Nat /\ Len(bb) <= n
  <2>1. CASE b = <<>>
    BY <1>2, <1>5, <2>1, EmptySeq
  <2>2. CASE b # <<>>
    <3>1. bb \in Seq(Prior) /\ Len(bb) = n - 1
      BY <1>2, <1>5, <2>2, ButLastProperties
    <3> QED BY <3>1, LenProperties
  <2> QED BY <2>1, <2>2
<1>7. SpareReserved \in Nat /\ n + m + 1 <= SpareReserved
  BY <1>1, <1>2, <1>4 DEF SpareReserved
<1>8. SparePopped.buffers = bb /\ SparePopped.capacity = SpareReserved
      /\ SparePopped = [buffers |-> bb, capacity |-> SpareReserved]
  BY <1>1, <1>5 DEF SparePopped
<1>9. Recycled \in Prior
  <2>1. CASE b = <<>>
    BY <1>1, <2>1, EmptySeq DEF Recycled, EmptyPrior, Prior
  <2>2. CASE b # <<>>
    <3>1. n \in 1..n /\ b[n] \in Prior
      BY <1>2, <2>2, EmptySeq, ElementOfSeq
    <3> QED BY <1>1, <1>2, <2>2, <3>1 DEF Recycled, Last
  <2> QED BY <2>1, <2>2
<1>10. Len(SparePopped.buffers) + Cardinality(run.absorbed) + 1 <= SparePopped.capacity
  BY ONLY <1>4, <1>6, <1>7, <1>8, n \in Nat
<1> QED BY <1>3, <1>6, <1>7, <1>8, <1>9, <1>10

(* The pending prior gets a key that no anchor and no plan names. *)
LEMMA InsertPendingFits ==
  ASSUME IInv, InsertPending
  PROVE  IInv' /\ SameGraph
<1>1. TypeOK /\ PoolOk(entries) /\ AnchorsFit /\ RunFits
  BY DEF IInv
<1>2. /\ pools' = pools /\ anchors' = anchors /\ factors' = factors
      /\ constant' = constant /\ result' = result /\ issued' = issued /\ told' = told
      /\ run.phase = "collect" /\ CanReserve(entries, 1)
      /\ entries' = PoolInsert(entries, Recycled)
      /\ spare' = SparePopped
      /\ run' = [run EXCEPT !.phase = "reduce", !.new = {Raw(entries, NextKey(entries))}]
  BY DEF InsertPending, graph, history
<1>3. ~Published /\ run.new = {} /\ run.remove # {} /\ run.rows = 0 /\ Planned
  BY <1>1, <1>2 DEF Published, RunFits
<1>4. run.absorbed \subseteq PriorKeys
  BY <1>3 DEF Planned
<1>5. /\ spare' \in [buffers : Seq(Prior), capacity : Nat] /\ Recycled \in Prior
      /\ IsFiniteSet(run.absorbed)
      /\ Len(spare'.buffers) + Cardinality(run.absorbed) + 1 <= spare'.capacity
  BY <1>1, <1>2, <1>4, SparePoppedFits
<1>6. PICK new : new = Raw(entries, NextKey(entries))
  OBVIOUS
<1>7. /\ entries' \in Pools(Prior) /\ PoolOk(entries')
      /\ new \in RawKey /\ new \notin PriorKeys
      /\ PriorKeys' = PriorKeys \cup {new}
      /\ \A j \in PriorKeys : PoolGet(entries', j) = PoolGet(entries, j)
  <2>1. entries \in Pools(Prior) /\ PriorKeys = KeysOf(entries)
    BY <1>1, PriorsTyped
  <2>2. PriorKeys' = KeysOf(entries')
    BY DEF PriorKeys, KeysOf
  <2> QED BY <1>1, <1>2, <1>5, <1>6, <2>1, <2>2, KeysAfterInsert
<1>8. /\ run'.phase = "reduce" /\ run'.new = {new} /\ run'.remove = run.remove
      /\ run'.affected = run.affected /\ run'.absorbed = run.absorbed
      /\ run'.layout = run.layout /\ run'.rows = run.rows
      /\ run' \in Run
  BY <1>1, <1>2, <1>6, <1>7 DEF TypeOK, Run, Phase
<1>9. ~Published'
  BY <1>8 DEF Published
<1>10. PriorKeys' \ run'.new = PriorKeys \ run.new
  BY <1>3, <1>7, <1>8
<1>11. /\ Live' = Live
       /\ SameGraph /\ StatesPlaced' /\ TellersIssued'
       /\ FactorsResolve' /\ PriorsExact' /\ ToldOnce'
  BY <1>2, <1>3, <1>7, <1>9, <1>10, UnpublishedStep
<1>12. TypeOK'
  BY <1>1, <1>2, <1>5, <1>7, <1>8 DEF TypeOK
<1>13. Planned'
  BY <1>2, <1>3, <1>7, <1>8, <1>10, <1>11, PlanStays
<1>14. AnchorsFit'
  <2> SUFFICES ASSUME NEW p \in 1..NPools
               PROVE  (Distinct(anchors[p]) /\ OldAnchorsFit(p) /\ NewAnchorsFit(p))'
    BY DEF AnchorsFit
  <2>1. Distinct(anchors[p]) /\ OldAnchorsFit(p)
    BY <1>1 DEF AnchorsFit
  <2>2. Anchored(p) = PriorKeys /\ Anchored(p)' = PriorKeys /\ ~NewAnchored(p)'
    BY <1>2, <1>3, <1>8, <1>10 DEF Anchored, Unanchored, NewAnchored
  <2>3. {a \in Range(anchors[p]) : a.prior \notin {}} = Range(anchors[p])
    OBVIOUS
  <2>4. Range(anchors[p]) = UNION {AnchorSet(PoolGet(entries, k), k, p) : k \in PriorKeys}
    BY <1>3, <2>1, <2>2, <2>3 DEF OldAnchorsFit, PriorAt
  <2>5. \A a \in Range(anchors[p]) : a.prior \in PriorKeys
    <3> SUFFICES ASSUME NEW a \in Range(anchors[p]) PROVE a.prior \in PriorKeys
      OBVIOUS
    <3>1. PICK k \in PriorKeys : a \in AnchorSet(PoolGet(entries, k), k, p)
      BY <2>4
    <3>2. a.prior = k
      BY <3>1 DEF AnchorSet, AnchorOf
    <3> QED BY <3>2
  <2>6. /\ {a \in Range(anchors[p]) : a.prior \notin {new}} = Range(anchors[p])
        /\ {a \in Range(anchors[p]) : a.prior \in {new}} = {}
    BY <2>5, <1>7
  <2>7. UNION {AnchorSet(PoolGet(entries', k), k, p) : k \in PriorKeys}
          = UNION {AnchorSet(PoolGet(entries, k), k, p) : k \in PriorKeys}
    BY <1>7
  <2>8. OldAnchorsFit(p)'
    BY ONLY <1>2, <1>8, <2>2, <2>4, <2>6, <2>7 DEF OldAnchorsFit, PriorAt
  <2>9. NewAnchorsFit(p)'
    BY <1>2, <1>8, <2>2, <2>6 DEF NewAnchorsFit
  <2> QED BY <1>2, <2>1, <2>8, <2>9
<1>15. RunFits'
  <2>1. new \in PriorKeys' /\ new \notin run'.absorbed
    BY <1>4, <1>7, <1>8
  <2> QED BY <1>3, <1>8, <1>13, <2>1 DEF RunFits, Published
<1>16. SpareFits'
  <2>1. (run'.absorbed \cap PriorKeys') \cup run'.new = run.absorbed \cup {new}
    BY <1>4, <1>7, <1>8
  <2>2. /\ Cardinality(run.absorbed \cup {new}) = Cardinality(run.absorbed) + 1
        /\ Cardinality(run.absorbed) \in Nat
    BY <1>4, <1>5, <1>7, FS_AddElement, FS_CardinalityType
  <2>3. Len(spare'.buffers) \in Nat /\ spare'.capacity \in Nat
    BY <1>5, LenProperties
  <2>4. Len(spare'.buffers) + (Cardinality(run.absorbed) + 1) <= spare'.capacity
    BY ONLY <1>5, <2>2, <2>3
  <2> QED BY <2>1, <2>2, <2>4 DEF SpareFits
<1> QED BY <1>7, <1>11, <1>12, <1>14, <1>15, <1>16 DEF IInv

(* The pool of priors is full: the call is over. *)
LEMMA InsertPanicsFits ==
  ASSUME IInv, InsertPanics
  PROVE  IInv' /\ SameGraph
<1>1. TypeOK /\ PoolOk(entries) /\ AnchorsFit /\ RunFits
  BY DEF IInv
<1>2. /\ pools' = pools /\ anchors' = anchors /\ factors' = factors /\ entries' = entries
      /\ spare' = SparePopped /\ constant' = constant /\ result' = "refused"
      /\ issued' = issued /\ told' = told /\ run' = NoRun /\ run.phase = "collect"
  BY DEF InsertPanics, graph, history
<1>3. ~Published /\ run.new = {} /\ Planned
  BY <1>1, <1>2 DEF Published, RunFits
<1>4. /\ run' \in Run /\ RunFits' /\ SpareFits' /\ ~Published' /\ run'.phase = "idle" /\ run'.new = {}
      /\ \A p : ~NewAnchored(p)' /\ Anchored(p)' = PriorKeys'
  BY <1>2, NoRunFitsNext
<1>5. PriorKeys' = PriorKeys
  BY <1>2 DEF PriorKeys
<1>6. /\ SameGraph /\ StatesPlaced' /\ TellersIssued'
      /\ FactorsResolve' /\ PriorsExact' /\ ToldOnce'
  BY <1>2, <1>3, <1>4, <1>5, UnpublishedStep
<1>7. AnchorsFit'
  <2>1. \A p \in 1..NPools : Anchored(p)' = Anchored(p) /\ (NewAnchored(p)' <=> NewAnchored(p))
    BY <1>2, <1>3, <1>4, <1>5 DEF Anchored, NewAnchored, Unanchored
  <2> QED BY <1>1, <1>2, <1>3, <1>4, <2>1, SameAnchorsFit
<1>8. spare' \in [buffers : Seq(Prior), capacity : Nat]
  BY <1>1, <1>2, <1>3, SparePoppedFits DEF Planned
<1>9. TypeOK'
  BY <1>1, <1>2, <1>4, <1>8 DEF TypeOK
<1> QED BY <1>1, <1>2, <1>4, <1>6, <1>7, <1>9 DEF IInv

-----------------------------------------------------------------------------
(* From its insertion on the pending prior is there, apart from the front. *)
LEMMA PendingIsThere ==
  ASSUME TypeOK, PoolOk(entries), RunFits, run.phase \notin {"idle", "collect"}
  PROVE  New \in PriorKeys /\ New \in RawKey /\ run.new = {New} /\ New \notin run.absorbed
<1>1. PICK k \in PriorKeys : run.new = {k} /\ k \notin run.absorbed
  BY DEF RunFits
<1>2. k \in RawKey
  BY PriorsTyped
<1>3. New = k
  BY <1>1, <1>2, NewIsPending
<1> QED BY <1>1, <1>2, <1>3

(* What reduction writes is a prior. *)
LEMMA ReplacementTyped ==
  ASSUME TypeOK, PoolOk(entries), Planned
  PROVE  /\ [blocks |-> NewBlocks, holds |-> Tells] \in Prior
         /\ Tells \subseteq Factor
         /\ 1 \in 1..NPools \/ run.remove = {}
<1>1. run.layout \in Seq(State) /\ run.remove \subseteq State /\ LayoutFits /\ run.affected \subseteq Factor
  BY RunTyped DEF TypeOK, Planned
<1>2. NewBlocks \in Seq(Block)
  BY <1>1, SeparatorProperties
<1>3. \A k \in run.absorbed : PoolGet(entries, k).holds \subseteq Factor
  <2> SUFFICES ASSUME NEW k \in run.absorbed PROVE PoolGet(entries, k).holds \subseteq Factor
    OBVIOUS
  <2>1. k \in PriorKeys
    BY DEF Planned
  <2>2. PriorAt(k) \in Prior
    BY <2>1, PriorsTyped
  <2> QED BY <2>2, BlocksTyped DEF PriorAt
<1>4. Tells \subseteq Factor
  BY <1>1, <1>3 DEF Tells
<1>5. run.remove # {} => 1 \in 1..NPools
  BY PoolsTyped DEF Planned
<1> QED BY <1>2, <1>4, <1>5 DEF Prior

(* Writing to the pending prior. *)
LEMMA PendingSet ==
  ASSUME IInv, run.phase = "reduce", NEW prior \in Prior,
         entries' = PoolSet(entries, New, prior)
  PROVE  /\ entries' \in Pools(Prior) /\ PoolOk(entries')
         /\ PriorKeys' = PriorKeys /\ PoolGet(entries', New) = prior
         /\ \A k \in PriorKeys \ run.new : PoolGet(entries', k) = PoolGet(entries, k)
<1>1. TypeOK /\ PoolOk(entries) /\ RunFits
  BY DEF IInv
<1>2. New \in PriorKeys /\ run.new = {New}
  BY <1>1, PendingIsThere
<1>3. entries \in Pools(Prior) /\ PriorKeys = KeysOf(entries)
  BY <1>1, PriorsTyped
<1>4. PriorKeys' = KeysOf(entries')
  BY DEF PriorKeys, KeysOf
<1>5. /\ entries' \in Pools(Prior) /\ PoolOk(entries') /\ KeysOf(entries') = KeysOf(entries)
      /\ PoolGet(entries', New) = prior
      /\ \A j \in KeysOf(entries) \ {New} : PoolGet(entries', j) = PoolGet(entries, j)
  BY <1>1, <1>2, <1>3, KeysAfterSet
<1> QED BY <1>2, <1>3, <1>4, <1>5

(* The spare list keeps its room as long as no buffer comes back. *)
LEMMA SpareStays ==
  ASSUME SpareFits, spare' = spare, run'.new = run.new, run'.absorbed = run.absorbed,
         PriorKeys' = PriorKeys
  PROVE  SpareFits'
BY DEF SpareFits

(* The pending prior gets its blocks, at the columns of the separator. *)
LEMMA ReduceFits ==
  ASSUME IInv, Reduce
  PROVE  IInv' /\ SameGraph
<1>1. TypeOK /\ PoolOk(entries) /\ AnchorsFit /\ RunFits /\ SpareFits
  BY DEF IInv
<1>2. /\ pools' = pools /\ anchors' = anchors /\ factors' = factors
      /\ constant' = constant /\ result' = result /\ issued' = issued /\ told' = told
      /\ spare' = spare /\ run.phase = "reduce"
      /\ entries' = PoolSet(entries, New, [blocks |-> NewBlocks, holds |-> Tells])
  BY DEF Reduce, graph, history
<1>3. PICK rows \in 0..1 :
        /\ Separator = <<>> => rows = 0
        /\ run' = [run EXCEPT !.rows = rows, !.at = 1,
                              !.phase = IF rows > 0 THEN "capture" ELSE "delete_factors"]
  BY DEF Reduce
<1>4. ~Published /\ run.remove # {} /\ Planned
  BY <1>1, <1>2 DEF Published, RunFits
<1>5. New \in PriorKeys /\ run.new = {New} /\ New \notin run.absorbed
  BY <1>1, <1>2, PendingIsThere
<1>6. [blocks |-> NewBlocks, holds |-> Tells] \in Prior /\ 1 \in 1..NPools
  BY <1>1, <1>4, ReplacementTyped
<1>7. /\ entries' \in Pools(Prior) /\ PoolOk(entries') /\ PriorKeys' = PriorKeys
      /\ PoolGet(entries', New) = [blocks |-> NewBlocks, holds |-> Tells]
      /\ \A k \in PriorKeys \ run.new : PoolGet(entries', k) = PoolGet(entries, k)
  BY <1>2, <1>6, PendingSet
<1>8. /\ run'.phase = IF rows > 0 THEN "capture" ELSE "delete_factors"
      /\ run'.rows = rows /\ run'.at = 1 /\ run'.new = run.new /\ run'.remove = run.remove
      /\ run'.affected = run.affected /\ run'.absorbed = run.absorbed
      /\ run'.layout = run.layout
      /\ run' \in Run
  BY <1>1, <1>3 DEF TypeOK, Run, Phase
<1>9. ~Published'
  BY <1>8 DEF Published
<1>10. /\ Live' = Live
       /\ SameGraph /\ StatesPlaced' /\ TellersIssued'
       /\ FactorsResolve' /\ PriorsExact' /\ ToldOnce'
  BY <1>2, <1>4, <1>7, <1>8, <1>9, UnpublishedStep
<1>11. TypeOK'
  BY <1>1, <1>2, <1>7, <1>8 DEF TypeOK
<1>12. Planned' /\ Separator' = Separator /\ NewBlocks' = NewBlocks /\ Tells' = Tells
  BY <1>2, <1>4, <1>7, <1>8, <1>10, PlanStays
<1>13. AnchorsFit'
  <2>1. \A p \in 1..NPools : Anchored(p)' = Anchored(p) /\ ~NewAnchored(p)' /\ ~NewAnchored(p)
    BY <1>2, <1>7, <1>8 DEF Anchored, Unanchored, NewAnchored
  <2> QED BY <1>1, <1>2, <1>7, <1>8, <2>1, SameAnchorsFit
<1>14. Replaces'
  <2>1. New' = New
    BY <1>8 DEF New
  <2> QED BY <1>3, <1>7, <1>8, <1>12, <2>1 DEF Replaces, PriorAt
<1>15. RunFits'
  BY <1>4, <1>5, <1>6, <1>7, <1>8, <1>9, <1>12, <1>14 DEF RunFits
<1>16. SpareFits'
  BY <1>1, <1>2, <1>7, <1>8, SpareStays
<1> QED BY <1>7, <1>10, <1>11, <1>13, <1>15, <1>16 DEF IInv

(* The guard will take out whatever was written. *)
LEMMA ReduceFailsFits ==
  ASSUME IInv, ReduceFails
  PROVE  IInv' /\ SameGraph
<1>1. TypeOK /\ PoolOk(entries) /\ AnchorsFit /\ RunFits /\ SpareFits
  BY DEF IInv
<1>2. /\ pools' = pools /\ anchors' = anchors /\ factors' = factors
      /\ constant' = constant /\ result' = "refused" /\ issued' = issued /\ told' = told
      /\ spare' = spare /\ run.phase = "reduce"
      /\ run' = [run EXCEPT !.phase = "rollback"]
  BY DEF ReduceFails, graph, history
<1>3. ~Published /\ run.remove # {} /\ Planned /\ run.rows = 0
  BY <1>1, <1>2 DEF Published, RunFits
<1>4. New \in PriorKeys /\ run.new = {New} /\ New \notin run.absorbed
  BY <1>1, <1>2, PendingIsThere
<1>5. [blocks |-> NewBlocks, holds |-> Tells] \in Prior /\ Tells \subseteq Factor
  BY <1>1, <1>3, ReplacementTyped
<1>6. PICK prior \in Prior : entries' = PoolSet(entries, New, prior)
  <2>1. PICK old \in Prior : old = PoolGet(entries, New)
    BY <1>1, <1>4, PriorsTyped DEF PriorAt
  <2>2. [old EXCEPT !.holds = Tells] \in Prior
    BY <1>5 DEF Prior
  <2> QED BY <1>5, <2>1, <2>2 DEF ReduceFails
<1>7. /\ entries' \in Pools(Prior) /\ PoolOk(entries') /\ PriorKeys' = PriorKeys
      /\ \A k \in PriorKeys \ run.new : PoolGet(entries', k) = PoolGet(entries, k)
  BY <1>2, <1>6, PendingSet
<1>8. /\ run'.phase = "rollback"
      /\ run'.rows = run.rows /\ run'.at = run.at /\ run'.new = run.new /\ run'.remove = run.remove
      /\ run'.affected = run.affected /\ run'.absorbed = run.absorbed
      /\ run'.layout = run.layout
      /\ run' \in Run
  BY <1>1, <1>2 DEF TypeOK, Run, Phase
<1>9. ~Published'
  BY <1>8 DEF Published
<1>10. /\ Live' = Live
       /\ SameGraph /\ StatesPlaced' /\ TellersIssued'
       /\ FactorsResolve' /\ PriorsExact' /\ ToldOnce'
  BY <1>2, <1>3, <1>7, <1>8, <1>9, UnpublishedStep
<1>11. TypeOK'
  BY <1>1, <1>2, <1>7, <1>8 DEF TypeOK
<1>12. Planned'
  BY <1>2, <1>3, <1>7, <1>8, <1>10, PlanStays
<1>13. AnchorsFit'
  <2>1. \A p \in 1..NPools : Anchored(p)' = Anchored(p)
    BY <1>2, <1>7, <1>8 DEF Anchored, Unanchored
  <2> QED BY <1>1, <1>2, <1>7, <1>8, <2>1, SameAnchorsFit
<1>14. RunFits'
  BY <1>3, <1>4, <1>7, <1>8, <1>9, <1>12 DEF RunFits
<1>15. SpareFits'
  BY <1>1, <1>2, <1>7, <1>8, SpareStays
<1> QED BY <1>7, <1>10, <1>11, <1>13, <1>14, <1>15 DEF IInv

-----------------------------------------------------------------------------
(* Deleting anchors by their priors. *)
LEMMA WithoutProperties ==
  ASSUME NEW as \in Seq(Anchor), NEW keys
  PROVE  /\ Without(as, keys) \in Seq(Anchor)
         /\ Range(Without(as, keys)) = {a \in Range(as) : a.prior \notin keys}
         /\ Distinct(as) => Distinct(Without(as, keys))
<1>1. PICK S : S = {a \in Range(as) : a.prior \notin keys}
  OBVIOUS
<1>2. Without(as, keys) = Keep(as, S)
  BY <1>1 DEF Without
<1>3. Range(as) \cap S = S
  BY <1>1
<1>4. /\ Keep(as, S) \in Seq(Anchor) /\ Range(Keep(as, S)) = Range(as) \cap S
      /\ Distinct(as) => Distinct(Keep(as, S))
  BY KeepProperties
<1> QED BY ONLY <1>1, <1>2, <1>3, <1>4

AnchorAt(s) == [prior |-> New, state |-> s, column |-> ColumnOf(s)]

(* What is captured from a pool are just the anchors of the pending prior. *)
LEMMA CapturedProperties ==
  ASSUME IInv, run.phase = "capture", NEW p \in 1..NPools
  PROVE  /\ Captured(p) \in Seq(Anchor) /\ Distinct(Captured(p))
         /\ Range(Captured(p)) = AnchorSet(PriorAt(New), New, p)
         /\ \A a \in Range(Captured(p)) : PoolOf[a.state] = p /\ a.prior = New
<1>1. /\ TypeOK /\ PoolOk(entries) /\ StatesPlaced /\ FactorsResolve /\ PriorsExact /\ RunFits
  BY DEF IInv
<1>2. ~Published /\ Planned /\ Replaces
  BY <1>1 DEF Published, RunFits
<1>3. New \in PriorKeys /\ New \in RawKey /\ run.new = {New}
  BY <1>1, PendingIsThere
<1>4. run.layout \in Seq(State) /\ run.remove \subseteq State /\ LayoutFits
  BY <1>1, <1>2, RunTyped DEF TypeOK, Planned
<1>5. PICK sep \in Seq(State) : sep = Separator
  BY <1>4, SeparatorProperties
<1>6. PICK m \in Nat : m = Len(sep)
  BY LenProperties
<1>7. /\ Distinct(sep) /\ Range(sep) = Touched \ run.remove
      /\ \A s \in Range(sep) : ColumnOf(s) \in Nat
      /\ Len(NewBlocks) = m
      /\ \A i \in 1..m : NewBlocks[i] = [id |-> sep[i], start |-> ColumnOf(sep[i])]
  BY <1>4, <1>5, <1>6, SeparatorProperties
<1>8. Range(sep) \subseteq Live
  <2>1. GraphStates = Live /\ GraphPriors = PriorKeys \ run.new
    BY <1>2, UnpublishedGraph
  <2>2. \A f \in run.affected : Deps[f] \subseteq Live
    BY <1>1, <1>2, <2>1 DEF FactorsResolve, Planned, Touching
  <2>3. \A k \in run.absorbed : BlockIds(PoolGet(entries, k)) \subseteq Live
    BY <1>1, <1>2, <2>1 DEF PriorsExact, Planned, PriorAt
  <2>4. Touched \subseteq Live
    BY ONLY <2>2, <2>3 DEF Touched
  <2> QED BY <1>7, <2>4
<1>9. PICK of : of = Keep(pools[p], Range(sep))
  OBVIOUS
<1>10. of \in Seq(State) /\ Distinct(of) /\ Range(of) = Range(pools[p]) \cap Range(sep)
  BY <1>1, <1>9, PoolsTyped, KeepProperties DEF StatesPlaced
<1>11. \A s : s \in Range(of) <=> s \in Range(sep) /\ PoolOf[s] = p
  BY <1>1, <1>8, <1>10, LivePlaced DEF StatesPlaced
<1>12. PICK n \in Nat : n = Len(of)
  BY <1>10, LenProperties
<1>13. \A i \in 1..n : of[i] \in Range(of) /\ of[i] \in State
  BY <1>10, <1>12, InRange, ElementOfSeq
<1>14. PICK c : c = [i \in 1..n |-> AnchorAt(of[i])]
  OBVIOUS
<1>15. Captured(p) = c
  BY <1>5, <1>9, <1>12, <1>14 DEF Captured, AnchorAt
<1>16. \A s \in Range(of) : AnchorAt(s) \in Anchor /\ AnchorAt(s).state = s /\ AnchorAt(s).prior = New
  BY <1>3, <1>7, <1>11, <1>10, RangeIsImage DEF AnchorAt, Anchor
<1>17. c \in Seq(Anchor) /\ Len(c) = n /\ \A i \in 1..n : c[i] = AnchorAt(of[i])
  BY <1>13, <1>14, <1>16, SeqDef, LenProperties
<1>18. Distinct(c)
  <2>1. \A i, j \in 1..n : c[i] = c[j] => of[i] = of[j]
    BY <1>13, <1>16, <1>17
  <2> QED BY <2>1, <1>10, <1>12, <1>17 DEF Distinct
<1>19. \A a : a \in Range(c) <=> \E s \in Range(of) : a = AnchorAt(s)
  <2>1. \A a : a \in Range(c) <=> \E i \in 1..n : c[i] = a
    BY <1>17, InRange
  <2>2. \A s : s \in Range(of) <=> \E i \in 1..n : of[i] = s
    BY <1>10, <1>12, InRange
  <2> QED BY ONLY <2>1, <2>2, <1>17
<1>20. \A a \in Range(c) : PoolOf[a.state] = p /\ a.prior = New
  BY <1>11, <1>16, <1>19
<1>21. \A a : a \in AnchorSet(PriorAt(New), New, p) <=> \E s \in Range(of) : a = AnchorAt(s)
  <2>1. PriorAt(New).blocks = NewBlocks
    BY <1>2 DEF Replaces
  <2>2. \A i \in 1..m : NewBlocks[i].id = sep[i] /\ AnchorOf(PriorAt(New), New, i) = AnchorAt(sep[i])
    BY <1>7, <2>1 DEF AnchorOf, AnchorAt
  <2>3. AnchorSet(PriorAt(New), New, p) =
          {AnchorOf(PriorAt(New), New, i) : i \in {j \in 1..m : PoolOf[NewBlocks[j].id] = p}}
    BY <1>7, <2>1 DEF AnchorSet
  <2>4. \A s : s \in Range(sep) <=> \E i \in 1..m : sep[i] = s
    BY <1>6, InRange
  <2>5. \A a : a \in AnchorSet(PriorAt(New), New, p) <=>
                 \E i \in 1..m : PoolOf[sep[i]] = p /\ a = AnchorAt(sep[i])
    BY ONLY <2>2, <2>3
  <2> QED BY ONLY <2>4, <2>5, <1>11
<1>22. Range(c) = AnchorSet(PriorAt(New), New, p)
  BY ONLY <1>19, <1>21
<1> QED BY <1>15, <1>17, <1>18, <1>20, <1>22

(* A pass over pool p has put some anchors of the pending prior in place.  *)
LEMMA AnchorsAdded ==
  ASSUME IInv, run.phase = "capture", NEW more \in Seq(Anchor), Distinct(more),
         \A a \in Range(more) : PoolOf[a.state] = run.at /\ a.prior = New,
         anchors' = [anchors EXCEPT ![run.at] = @ \o more]
  PROVE  /\ run.at \in 1..NPools
         /\ anchors' \in [1..NPools -> Seq(Anchor)]
         /\ \A p \in 1..NPools : p # run.at => anchors'[p] = anchors[p]
         /\ \A p \in 1..NPools : /\ Distinct(anchors'[p])
                                 /\ \A a \in Range(anchors'[p]) : PoolOf[a.state] = p
                                 /\ {a \in Range(anchors'[p]) : a.prior \notin run.new}
                                      = {a \in Range(anchors[p]) : a.prior \notin run.new}
         /\ {a \in Range(anchors'[run.at]) : a.prior \in run.new} = Range(more)
<1>1. TypeOK /\ PoolOk(entries) /\ RunFits /\ AnchorsFit
  BY DEF IInv
<1>2. PICK q \in 1..NPools : q = run.at
  BY <1>1 DEF RunFits
<1>3. PICK old \in Seq(Anchor) : old = anchors[q]
  BY <1>1 DEF TypeOK
<1>4. PICK all \in Seq(Anchor) : all = old \o more
  BY ConcatProperties
<1>5. anchors' = [anchors EXCEPT ![q] = all]
  BY <1>2, <1>3, <1>4
<1>6. anchors \in [1..NPools -> Seq(Anchor)]
  BY <1>1 DEF TypeOK
<1>7. /\ anchors' \in [1..NPools -> Seq(Anchor)]
      /\ \A p \in 1..NPools : p # q => anchors'[p] = anchors[p]
      /\ anchors'[q] = all
  BY ONLY <1>5, <1>6, q \in 1..NPools, all \in Seq(Anchor)
<1>8. run.new = {New}
  BY <1>1, PendingIsThere
<1>9. Distinct(old) /\ {a \in Range(old) : a.prior \in run.new} = {}
  <2>1. Distinct(old) /\ NewAnchorsFit(q)
    BY <1>1, <1>3 DEF AnchorsFit
  <2>2. ~NewAnchored(q) /\ run.phase # "rollback"
    BY <1>1, <1>2, PoolsTyped DEF NewAnchored
  <2> QED BY <1>3, <2>1, <2>2 DEF NewAnchorsFit
<1>10. Range(old) \cap Range(more) = {}
  BY ONLY <1>8, <1>9, \A a \in Range(more) : PoolOf[a.state] = run.at /\ a.prior = New
<1>11. Range(all) = Range(old) \cup Range(more) /\ Distinct(all)
  BY <1>4, <1>9, <1>10, ConcatRange
<1>12. /\ {a \in Range(all) : a.prior \in run.new} = Range(more)
       /\ {a \in Range(all) : a.prior \notin run.new} = {a \in Range(old) : a.prior \notin run.new}
  BY ONLY <1>8, <1>9, <1>11, \A a \in Range(more) : PoolOf[a.state] = run.at /\ a.prior = New
<1>13. \A p \in 1..NPools : Distinct(anchors[p]) /\ \A a \in Range(anchors[p]) : PoolOf[a.state] = p
  BY <1>1 DEF AnchorsFit, TypeOK
<1>14. \A a \in Range(all) : PoolOf[a.state] = q
  BY <1>2, <1>3, <1>11, <1>13
<1> QED BY ONLY <1>2, <1>3, <1>7, <1>11, <1>12, <1>13, <1>14

(* A pool of the separator gets its anchors. *)
LEMMA CaptureAnchorsFits ==
  ASSUME IInv, CaptureAnchors
  PROVE  IInv' /\ SameGraph
<1>1. TypeOK /\ PoolOk(entries) /\ AnchorsFit /\ RunFits /\ SpareFits
  BY DEF IInv
<1>2. /\ pools' = pools /\ factors' = factors /\ entries' = entries /\ spare' = spare
      /\ constant' = constant /\ result' = result /\ issued' = issued /\ told' = told
      /\ run.phase = "capture"
      /\ anchors' = [anchors EXCEPT ![run.at] = @ \o Captured(run.at)]
      /\ run' = IF run.at < NPools THEN [run EXCEPT !.at = @ + 1]
                ELSE [run EXCEPT !.phase = "delete_factors"]
  BY DEF CaptureAnchors, priors, history
<1>3. /\ ~Published /\ run.remove # {} /\ Planned /\ Replaces /\ run.rows > 0
      /\ run.at \in 1..NPools
  BY <1>1, <1>2 DEF Published, RunFits
<1>4. New \in PriorKeys /\ run.new = {New} /\ New \notin run.absorbed
  BY <1>1, <1>2, PendingIsThere
<1>5. /\ Captured(run.at) \in Seq(Anchor) /\ Distinct(Captured(run.at))
      /\ Range(Captured(run.at)) = AnchorSet(PriorAt(New), New, run.at)
      /\ \A a \in Range(Captured(run.at)) : PoolOf[a.state] = run.at /\ a.prior = New
  BY <1>2, <1>3, CapturedProperties
<1>6. /\ anchors' \in [1..NPools -> Seq(Anchor)]
      /\ \A p \in 1..NPools : p # run.at => anchors'[p] = anchors[p]
      /\ \A p \in 1..NPools : /\ Distinct(anchors'[p])
                              /\ \A a \in Range(anchors'[p]) : PoolOf[a.state] = p
                              /\ {a \in Range(anchors'[p]) : a.prior \notin run.new}
                                   = {a \in Range(anchors[p]) : a.prior \notin run.new}
      /\ {a \in Range(anchors'[run.at]) : a.prior \in run.new} = AnchorSet(PriorAt(New), New, run.at)
  BY <1>2, <1>5, AnchorsAdded
<1>7. /\ run'.phase = IF run.at < NPools THEN "capture" ELSE "delete_factors"
      /\ run'.at = IF run.at < NPools THEN run.at + 1 ELSE run.at
      /\ run'.rows = run.rows /\ run'.new = run.new /\ run'.remove = run.remove
      /\ run'.affected = run.affected /\ run'.absorbed = run.absorbed
      /\ run'.layout = run.layout
      /\ run' \in Run
  <2>1. run \in Run
    BY <1>1 DEF TypeOK
  <2>2. CASE run.at < NPools
    <3>1. PICK next \in Nat : next = run.at + 1
      BY ONLY <2>1 DEF Run
    <3>2. run' = [run EXCEPT !.at = next]
      BY ONLY <1>2, <2>2, <3>1
    <3>3. run'.phase = run.phase /\ run'.at = next /\ run' \in Run
      BY ONLY <2>1, <3>2, next \in Nat DEF Run
    <3>4. /\ run'.rows = run.rows /\ run'.new = run.new /\ run'.remove = run.remove
          /\ run'.affected = run.affected /\ run'.absorbed = run.absorbed
          /\ run'.layout = run.layout
      BY ONLY <2>1, <3>2 DEF Run
    <3> QED BY ONLY <1>2, <2>2, <3>1, <3>3, <3>4
  <2>3. CASE ~(run.at < NPools)
    BY ONLY <1>2, <2>1, <2>3 DEF Run, Phase
  <2> QED BY ONLY <2>2, <2>3
<1>8. ~Published' /\ PriorKeys' = PriorKeys
  BY <1>2, <1>7 DEF Published, PriorKeys
<1>9. /\ Live' = Live
      /\ SameGraph /\ StatesPlaced' /\ TellersIssued'
      /\ FactorsResolve' /\ PriorsExact' /\ ToldOnce'
  BY <1>2, <1>3, <1>7, <1>8, UnpublishedStep
<1>10. TypeOK'
  BY <1>1, <1>2, <1>6, <1>7 DEF TypeOK
<1>11. Planned' /\ Separator' = Separator /\ NewBlocks' = NewBlocks /\ Tells' = Tells
  BY <1>2, <1>3, <1>7, <1>8, <1>9, PlanStays
<1>12. New' = New /\ \A k : PriorAt(k)' = PriorAt(k)
  BY <1>2, <1>7 DEF New, PriorAt
<1>13. AnchorsFit'
  <2> SUFFICES ASSUME NEW p \in 1..NPools
               PROVE  (Distinct(anchors[p]) /\ OldAnchorsFit(p) /\ NewAnchorsFit(p))'
    BY DEF AnchorsFit
  <2>1. Distinct(anchors[p]) /\ OldAnchorsFit(p) /\ NewAnchorsFit(p)
    BY <1>1 DEF AnchorsFit
  <2>2. Anchored(p)' = Anchored(p)
    BY <1>2, <1>7, <1>8 DEF Anchored, Unanchored
  <2>3. OldAnchorsFit(p)'
    BY ONLY <1>2, <1>6, <1>7, <2>1, <2>2, p \in 1..NPools DEF OldAnchorsFit, PriorAt
  <2>4. NewAnchored(p)' <=> NewAnchored(p) \/ p = run.at
    <3>1. NPools \in Nat /\ run.at \in 1..NPools
      BY <1>1, <1>3, PoolsTyped
    <3>2. CASE run.at < NPools
      BY ONLY <3>1, <3>2, <1>2, <1>7, p \in 1..NPools DEF NewAnchored
    <3>3. CASE ~(run.at < NPools)
      <4>1. p < run.at \/ p = run.at
        BY ONLY <3>1, <3>3, p \in 1..NPools
      <4> QED BY ONLY <4>1, <3>3, <1>2, <1>3, <1>7 DEF NewAnchored
    <3> QED BY <3>2, <3>3
  <2>5. {a \in Range(anchors'[p]) : a.prior \in run.new}
          = IF NewAnchored(p)' THEN AnchorSet(PriorAt(New), New, p) ELSE {}
    <3>1. CASE p = run.at
      BY <1>6, <2>4, <3>1
    <3>2. CASE p # run.at
      BY <1>2, <1>6, <2>1, <2>4, <3>2 DEF NewAnchorsFit
    <3> QED BY <3>1, <3>2
  <2>6. NewAnchorsFit(p)'
    BY ONLY <2>5, <1>7, <1>12, <1>2 DEF NewAnchorsFit, PriorAt
  <2> QED BY <1>6, <2>3, <2>6
<1>14. Replaces'
  BY <1>3, <1>7, <1>11, <1>12 DEF Replaces
<1>15. RunFits'
  <2>1. run'.phase = "capture" => run'.at \in 1..NPools
    BY <1>1, <1>3, <1>7, PoolsTyped
  <2> QED BY <1>3, <1>4, <1>7, <1>8, <1>11, <1>14, <2>1 DEF RunFits
<1>16. SpareFits'
  BY <1>1, <1>2, <1>7, <1>8, SpareStays
<1> QED BY <1>1, <1>2, <1>9, <1>10, <1>13, <1>15, <1>16 DEF IInv

(* A part of a sequence from its beginning. *)
LEMMA PrefixRange ==
  ASSUME NEW T, NEW s \in Seq(T), NEW n \in 0..Len(s)
  PROVE  /\ SubSeq(s, 1, n) \in Seq(T)
         /\ Range(SubSeq(s, 1, n)) \subseteq Range(s)
         /\ Distinct(s) => Distinct(SubSeq(s, 1, n))
<1>1. PICK m \in Nat : m = Len(s)
  BY LenProperties
<1>2. PICK t : t = SubSeq(s, 1, n)
  OBVIOUS
<1>3. n \in Nat /\ n <= m /\ \A i \in 1..n : i \in 1..m /\ s[i] \in T
  BY <1>1, ElementOfSeq
<1>4. t \in Seq(T) /\ Len(t) = n /\ \A i \in 1..n : t[i] = s[i]
  <2>1. /\ t \in Seq(T)
        /\ Len(t) = IF 1 <= n THEN n - 1 + 1 ELSE 0
        /\ \A i \in 1..(n - 1 + 1) : t[i] = s[1 + i - 1]
    BY <1>2, <1>3, SubSeqProperties
  <2>2. n - 1 + 1 = n /\ \A i \in 1..n : 1 + i - 1 = i
    BY <1>3
  <2> QED BY ONLY <2>1, <2>2, <1>3
<1>5. Range(t) \subseteq Range(s)
  <2>1. \A x : x \in Range(t) <=> \E i \in 1..n : t[i] = x
    BY <1>4, InRange
  <2>2. \A x : x \in Range(s) <=> \E i \in 1..m : s[i] = x
    BY <1>1, InRange
  <2> QED BY ONLY <2>1, <2>2, <1>3, <1>4
<1>6. Distinct(s) => Distinct(t)
  BY <1>1, <1>3, <1>4 DEF Distinct
<1> QED BY <1>2, <1>4, <1>5, <1>6

(* Some anchors of a pool are in place when the capture fails. *)
LEMMA CaptureFailsFits ==
  ASSUME IInv, CaptureFails
  PROVE  IInv' /\ SameGraph
<1>1. TypeOK /\ PoolOk(entries) /\ AnchorsFit /\ RunFits /\ SpareFits
  BY DEF IInv
<1>2. /\ pools' = pools /\ factors' = factors /\ entries' = entries /\ spare' = spare
      /\ constant' = constant /\ result' = "refused" /\ issued' = issued /\ told' = told
      /\ run.phase = "capture" /\ run' = [run EXCEPT !.phase = "rollback"]
  BY DEF CaptureFails, priors, history
<1>3. /\ ~Published /\ run.remove # {} /\ Planned /\ run.at \in 1..NPools
  BY <1>1, <1>2 DEF Published, RunFits
<1>4. New \in PriorKeys /\ run.new = {New} /\ New \notin run.absorbed
  BY <1>1, <1>2, PendingIsThere
<1>5. PICK c \in Seq(Anchor) :
        /\ c = Captured(run.at) /\ Distinct(c)
        /\ \A a \in Range(c) : PoolOf[a.state] = run.at /\ a.prior = New
  BY <1>2, <1>3, CapturedProperties
<1>6. PICK n \in 0..(Len(c) - 1) : anchors' = [anchors EXCEPT ![run.at] = @ \o SubSeq(c, 1, n)]
  BY <1>5 DEF CaptureFails
<1>7. n \in 0..Len(c)
  BY <1>5, LenProperties
<1>8. PICK more \in Seq(Anchor) :
        /\ more = SubSeq(c, 1, n) /\ Distinct(more)
        /\ \A a \in Range(more) : PoolOf[a.state] = run.at /\ a.prior = New
  BY <1>5, <1>7, PrefixRange
<1>9. /\ anchors' \in [1..NPools -> Seq(Anchor)]
      /\ \A p \in 1..NPools : /\ Distinct(anchors'[p])
                              /\ \A a \in Range(anchors'[p]) : PoolOf[a.state] = p
                              /\ {a \in Range(anchors'[p]) : a.prior \notin run.new}
                                   = {a \in Range(anchors[p]) : a.prior \notin run.new}
  BY <1>2, <1>6, <1>8, AnchorsAdded
<1>10. /\ run'.phase = "rollback" /\ run'.at = run.at
       /\ run'.rows = run.rows /\ run'.new = run.new /\ run'.remove = run.remove
       /\ run'.affected = run.affected /\ run'.absorbed = run.absorbed
       /\ run'.layout = run.layout
       /\ run' \in Run
  BY <1>1, <1>2 DEF TypeOK, Run, Phase
<1>11. ~Published' /\ PriorKeys' = PriorKeys
  BY <1>2, <1>10 DEF Published, PriorKeys
<1>12. /\ Live' = Live
       /\ SameGraph /\ StatesPlaced' /\ TellersIssued'
       /\ FactorsResolve' /\ PriorsExact' /\ ToldOnce'
  BY <1>2, <1>3, <1>10, <1>11, UnpublishedStep
<1>13. TypeOK'
  BY <1>1, <1>2, <1>9, <1>10 DEF TypeOK
<1>14. Planned'
  BY <1>2, <1>3, <1>10, <1>11, <1>12, PlanStays
<1>15. AnchorsFit'
  <2> SUFFICES ASSUME NEW p \in 1..NPools
               PROVE  (Distinct(anchors[p]) /\ OldAnchorsFit(p) /\ NewAnchorsFit(p))'
    BY DEF AnchorsFit
  <2>1. OldAnchorsFit(p)
    BY <1>1 DEF AnchorsFit
  <2>2. Anchored(p)' = Anchored(p)
    BY <1>2, <1>10, <1>11 DEF Anchored, Unanchored
  <2>3. OldAnchorsFit(p)'
    BY ONLY <1>2, <1>9, <1>10, <2>1, <2>2, p \in 1..NPools DEF OldAnchorsFit, PriorAt
  <2>4. NewAnchorsFit(p)'
    BY <1>10 DEF NewAnchorsFit
  <2> QED BY <1>9, <2>3, <2>4
<1>16. RunFits'
  BY <1>3, <1>4, <1>10, <1>11, <1>14 DEF RunFits
<1>17. SpareFits'
  BY <1>1, <1>2, <1>10, <1>11, SpareStays
<1> QED BY <1>1, <1>2, <1>12, <1>13, <1>15, <1>16, <1>17 DEF IInv

(* Taking a prior out hands its buffer back. *)
LEMMA PriorTakenOut ==
  ASSUME TypeOK, PoolOk(entries), NEW k \in PriorKeys,
         entries' = PoolRemove(entries, k),
         spare' = [spare EXCEPT !.buffers = Append(@, PoolGet(entries, k))]
  PROVE  /\ entries' \in Pools(Prior) /\ PoolOk(entries')
         /\ PriorKeys' = PriorKeys \ {k}
         /\ \A j \in PriorKeys' : PoolGet(entries', j) = PoolGet(entries, j)
         /\ spare' \in [buffers : Seq(Prior), capacity : Nat]
         /\ spare'.capacity = spare.capacity
         /\ Len(spare.buffers) \in Nat /\ Len(spare'.buffers) = Len(spare.buffers) + 1
<1>1. entries \in Pools(Prior) /\ PriorKeys = KeysOf(entries) /\ PoolGet(entries, k) \in Prior
  BY PriorsTyped DEF PriorAt
<1>2. PriorKeys' = KeysOf(entries')
  BY DEF PriorKeys, KeysOf
<1>3. /\ entries' \in Pools(Prior) /\ PoolOk(entries')
      /\ PriorKeys' = PriorKeys \ {k}
      /\ \A j \in PriorKeys' : PoolGet(entries', j) = PoolGet(entries, j)
  BY <1>1, <1>2, KeysAfterRemove
<1>4. PICK b \in Seq(Prior), c \in Nat : spare = [buffers |-> b, capacity |-> c]
  BY DEF TypeOK
<1>5. PICK v \in Prior : v = PoolGet(entries, k)
  BY <1>1
<1>6. spare' = [buffers |-> Append(b, v), capacity |-> c]
  BY <1>4, <1>5
<1>7. Append(b, v) \in Seq(Prior) /\ Len(Append(b, v)) = Len(b) + 1 /\ Len(b) \in Nat
  BY AppendProperties, LenProperties
<1>8. PICK bb \in Seq(Prior) : bb = Append(b, v)
  BY <1>7
<1>9. spare' = [buffers |-> bb, capacity |-> c] /\ Len(bb) = Len(b) + 1
  BY ONLY <1>6, <1>7, <1>8
<1>10. /\ spare' \in [buffers : Seq(Prior), capacity : Nat]
       /\ spare'.buffers = bb /\ spare'.capacity = c
       /\ spare.buffers = b /\ spare.capacity = c
  BY ONLY <1>4, <1>9, bb \in Seq(Prior), c \in Nat
<1> QED BY ONLY <1>3, <1>7, <1>9, <1>10

(* The guard takes out the pending prior and all of its anchors. *)
LEMMA RollbackFits ==
  ASSUME IInv, Rollback
  PROVE  IInv' /\ SameGraph
<1>1. TypeOK /\ PoolOk(entries) /\ AnchorsFit /\ RunFits
  BY DEF IInv
<1>2. /\ pools' = pools /\ factors' = factors
      /\ constant' = constant /\ result' = result /\ issued' = issued /\ told' = told
      /\ run.phase = "rollback" /\ run' = NoRun
      /\ anchors' = [p \in 1..NPools |-> Without(anchors[p], run.new)]
      /\ entries' = PoolRemove(entries, New)
      /\ spare' = [spare EXCEPT !.buffers = Append(@, PoolGet(entries, New))]
  BY DEF Rollback, history
<1>3. ~Published
  BY <1>2 DEF Published
<1>4. New \in PriorKeys /\ run.new = {New} /\ New \notin run.absorbed
  BY <1>1, <1>2, PendingIsThere
<1>5. /\ entries' \in Pools(Prior) /\ PoolOk(entries')
      /\ PriorKeys' = PriorKeys \ {New}
      /\ \A j \in PriorKeys' : PoolGet(entries', j) = PoolGet(entries, j)
      /\ spare' \in [buffers : Seq(Prior), capacity : Nat]
  BY <1>1, <1>2, <1>4, PriorTakenOut
<1>6. /\ run' \in Run /\ RunFits' /\ SpareFits' /\ ~Published' /\ run'.phase = "idle" /\ run'.new = {}
      /\ \A p : ~NewAnchored(p)' /\ Anchored(p)' = PriorKeys'
  BY <1>2, NoRunFitsNext
<1>7. /\ PriorKeys' \ run'.new = PriorKeys \ run.new
      /\ \A k \in PriorKeys \ run.new : PoolGet(entries', k) = PoolGet(entries, k)
  BY <1>4, <1>5, <1>6
<1>8. /\ SameGraph /\ StatesPlaced' /\ TellersIssued'
      /\ FactorsResolve' /\ PriorsExact' /\ ToldOnce'
  BY <1>2, <1>3, <1>6, <1>7, UnpublishedStep
<1>9. \A p \in 1..NPools :
        /\ anchors'[p] \in Seq(Anchor) /\ Distinct(anchors'[p])
        /\ Range(anchors'[p]) = {a \in Range(anchors[p]) : a.prior \notin run.new}
  BY <1>1, <1>2, PoolsTyped, WithoutProperties DEF AnchorsFit
<1>10. TypeOK'
  <2>1. anchors' \in [1..NPools -> Seq(Anchor)]
    BY <1>2, <1>9
  <2>2. \A p \in 1..NPools : \A a \in Range(anchors'[p]) : PoolOf[a.state] = p
    BY <1>1, <1>9 DEF TypeOK
  <2> QED BY <1>1, <1>2, <1>5, <1>6, <2>1, <2>2 DEF TypeOK
<1>11. AnchorsFit'
  <2> SUFFICES ASSUME NEW p \in 1..NPools
               PROVE  (Distinct(anchors[p]) /\ OldAnchorsFit(p) /\ NewAnchorsFit(p))'
    BY DEF AnchorsFit
  <2>1. OldAnchorsFit(p)
    BY <1>1 DEF AnchorsFit
  <2>2. Anchored(p) = PriorKeys' /\ Anchored(p)' = PriorKeys' /\ ~NewAnchored(p)'
    BY <1>2, <1>4, <1>5, <1>6 DEF Anchored, Unanchored
  <2>3. Range(anchors'[p]) = UNION {AnchorSet(PoolGet(entries, k), k, p) : k \in PriorKeys'}
    BY <1>9, <2>1, <2>2 DEF OldAnchorsFit, PriorAt
  <2>4. UNION {AnchorSet(PoolGet(entries', k), k, p) : k \in PriorKeys'}
          = UNION {AnchorSet(PoolGet(entries, k), k, p) : k \in PriorKeys'}
    BY <1>5
  <2>5. /\ {a \in Range(anchors'[p]) : a.prior \notin {}} = Range(anchors'[p])
        /\ {a \in Range(anchors'[p]) : a.prior \in {}} = {}
    OBVIOUS
  <2>6. OldAnchorsFit(p)'
    BY ONLY <1>6, <2>2, <2>3, <2>4, <2>5 DEF OldAnchorsFit, PriorAt
  <2>7. NewAnchorsFit(p)'
    BY <1>6, <2>5 DEF NewAnchorsFit
  <2> QED BY <1>9, <2>6, <2>7
<1> QED BY <1>5, <1>6, <1>8, <1>10, <1>11 DEF IInv

-----------------------------------------------------------------------------
(* What the pending prior stands for when it takes effect: it is over the  *)
(* live states that the absorbed terms mention, but for the removed ones,  *)
(* which are just those that what it holds depends on.                     *)
LEMMA ReplacementExact ==
  ASSUME IInv, ~Published, Planned, Replaces
  PROVE  /\ BlockIds(PriorAt(New)) = Range(Separator)
         /\ BlockIds(PriorAt(New)) = Touched \ run.remove
         /\ BlockIds(PriorAt(New)) = (Live \ run.remove) \cap Scope(PriorAt(New).holds)
         /\ PriorAt(New).holds = Tells
         /\ \A i, j \in 1..Len(PriorAt(New).blocks) :
              PriorAt(New).blocks[i].id = PriorAt(New).blocks[j].id => i = j
<1>1. TypeOK /\ PoolOk(entries) /\ FactorsResolve /\ PriorsExact
  BY DEF IInv
<1>2. run.layout \in Seq(State) /\ run.remove \subseteq State /\ LayoutFits
  BY <1>1, RunTyped DEF TypeOK, Planned
<1>3. PICK sep \in Seq(State) : sep = Separator
  BY <1>2, SeparatorProperties
<1>4. PICK m \in Nat : m = Len(sep)
  BY LenProperties
<1>5. /\ Distinct(sep) /\ Range(sep) = Touched \ run.remove
      /\ Len(NewBlocks) = m /\ \A i \in 1..m : NewBlocks[i].id = sep[i]
  <2>1. /\ Distinct(sep) /\ Range(sep) = Touched \ run.remove /\ Len(NewBlocks) = m
        /\ \A i \in 1..m : NewBlocks[i] = [id |-> sep[i], start |-> ColumnOf(sep[i])]
    BY <1>2, <1>3, <1>4, SeparatorProperties
  <2> QED BY ONLY <2>1
<1>6. PriorAt(New).blocks = NewBlocks /\ PriorAt(New).holds = Tells
  BY DEF Replaces
<1>7. BlockIds(PriorAt(New)) = Range(sep)
  <2>1. \A s : s \in Range(sep) <=> \E i \in 1..m : sep[i] = s
    BY <1>4, InRange
  <2> QED BY <1>5, <1>6, <2>1 DEF BlockIds
<1>8. \A i, j \in 1..Len(PriorAt(New).blocks) :
        PriorAt(New).blocks[i].id = PriorAt(New).blocks[j].id => i = j
  BY <1>4, <1>5, <1>6 DEF Distinct
<1>9. GraphStates = Live /\ GraphPriors = PriorKeys \ run.new
  BY UnpublishedGraph
<1>10. \A f \in run.affected : Deps[f] \subseteq Live
  BY <1>1, <1>9 DEF FactorsResolve, Planned, Touching
<1>11. \A k \in run.absorbed :
         BlockIds(PoolGet(entries, k)) = Live \cap Scope(PoolGet(entries, k).holds)
  BY <1>1, <1>9 DEF PriorsExact, Planned, PriorAt
<1>12. Touched = Live \cap Scope(Tells)
  <2>1. \A s : s \in Scope(Tells) <=>
                 \/ \E f \in run.affected : s \in Deps[f]
                 \/ \E k \in run.absorbed : s \in Scope(PoolGet(entries, k).holds)
    BY DEF Scope, Tells
  <2>2. \A s : s \in Touched <=>
                 \/ \E f \in run.affected : s \in Deps[f]
                 \/ \E k \in run.absorbed : s \in BlockIds(PoolGet(entries, k))
    BY DEF Touched
  <2> QED BY ONLY <2>1, <2>2, <1>10, <1>11
<1> QED BY <1>3, <1>5, <1>6, <1>7, <1>8, <1>12

(* The graph before and after the step with which publication begins.      *)
LEMMA PublicationGraph ==
  ASSUME IInv, DeleteFactors
  PROVE  /\ ~Published /\ Published' /\ Planned /\ Replaces
         /\ New \in PriorKeys /\ run.new = {New} /\ New \notin run.absorbed
         /\ GraphStates = Live /\ GraphStates' = Live \ run.remove
         /\ GraphPriors = PriorKeys \ {New}
         /\ GraphPriors' = (GraphPriors \ run.absorbed) \cup IF run.rows > 0 THEN {New} ELSE {}
         /\ GraphSpent = constant
         /\ GraphSpent' = constant \cup IF run.rows = 0 THEN Tells ELSE {}
         /\ factors' = factors \ run.affected
         /\ \A k : PriorAt(k)' = PriorAt(k)
<1>1. TypeOK /\ PoolOk(entries) /\ RunFits
  BY DEF IInv
<1>2. /\ pools' = pools /\ entries' = entries /\ constant' = constant
      /\ run.phase = "delete_factors" /\ factors' = factors \ run.affected
      /\ run' = [run EXCEPT !.phase = "delete_states", !.at = 1]
  BY DEF DeleteFactors, priors
<1>3. ~Published /\ Planned /\ Replaces
  BY <1>1, <1>2 DEF Published, RunFits
<1>4. New \in PriorKeys /\ run.new = {New} /\ New \notin run.absorbed
  BY <1>1, <1>2, PendingIsThere
<1>5. /\ run'.phase = "delete_states" /\ run'.new = run.new /\ run'.rows = run.rows
      /\ run'.remove = run.remove /\ run'.absorbed = run.absorbed
  BY <1>1, <1>2 DEF TypeOK, Run
<1>6. Published' /\ PriorKeys' = PriorKeys /\ Live' = Live /\ New' = New
      /\ \A k : PriorAt(k)' = PriorAt(k)
  BY <1>2, <1>5 DEF Published, PriorKeys, Live, New, PriorAt
<1>7. GraphStates = Live /\ GraphSpent = constant /\ GraphPriors = PriorKeys \ {New}
  BY <1>3, <1>4, UnpublishedGraph
<1>8. /\ GraphStates' = Live' \ run'.remove
      /\ GraphSpent' = constant' \cup IF run'.rows = 0 THEN PriorAt(New)'.holds ELSE {}
      /\ GraphPriors' = {k \in PriorKeys' : IF k \in run'.new THEN run'.rows > 0
                                            ELSE k \notin run'.absorbed}
  <2>1. GraphStates' = Live' \ run'.remove
    BY <1>6 DEF GraphStates
  <2>2. GraphSpent' = constant' \cup IF run'.rows = 0 THEN PriorAt(New)'.holds ELSE {}
    BY <1>6 DEF GraphSpent
  <2>3. GraphPriors' = {k \in PriorKeys' : IF k \in run'.new THEN run'.rows > 0
                                          ELSE k \notin run'.absorbed}
    BY <1>6 DEF GraphPriors, PriorInGraph
  <2> QED BY <2>1, <2>2, <2>3
<1>9. GraphPriors' = (GraphPriors \ run.absorbed) \cup IF run.rows > 0 THEN {New} ELSE {}
  BY <1>4, <1>5, <1>6, <1>7, <1>8
<1>10. GraphSpent' = constant \cup IF run.rows = 0 THEN Tells ELSE {}
  <2>1. PriorAt(New)'.holds = Tells
    BY <1>3, <1>6 DEF Replaces, PriorAt
  <2> QED BY <1>2, <1>5, <1>8, <2>1
<1>11. GraphStates' = Live \ run.remove
  BY <1>5, <1>6, <1>8
<1> QED BY <1>2, <1>3, <1>4, <1>6, <1>7, <1>9, <1>10, <1>11

(* The step with which the graph changes. *)
LEMMA DeleteFactorsFits ==
  ASSUME IInv, DeleteFactors
  PROVE  IInv'
<1>1. /\ TypeOK /\ PoolOk(entries) /\ StatesPlaced /\ TellersIssued /\ FactorsResolve
      /\ PriorsExact /\ ToldOnce /\ AnchorsFit /\ RunFits /\ SpareFits
  BY DEF IInv
<1>2. /\ pools' = pools /\ anchors' = anchors /\ entries' = entries /\ spare' = spare
      /\ constant' = constant /\ result' = result /\ issued' = issued /\ told' = told
      /\ run.phase = "delete_factors"
      /\ run' = [run EXCEPT !.phase = "delete_states", !.at = 1]
  BY DEF DeleteFactors, priors, history
<1>3. /\ ~Published /\ Published' /\ Planned /\ Replaces
      /\ New \in PriorKeys /\ run.new = {New} /\ New \notin run.absorbed
      /\ GraphStates = Live /\ GraphStates' = Live \ run.remove
      /\ GraphPriors = PriorKeys \ {New}
      /\ GraphPriors' = (GraphPriors \ run.absorbed) \cup IF run.rows > 0 THEN {New} ELSE {}
      /\ GraphSpent = constant
      /\ GraphSpent' = constant \cup IF run.rows = 0 THEN Tells ELSE {}
      /\ factors' = factors \ run.affected
      /\ \A k : PriorAt(k)' = PriorAt(k)
  BY PublicationGraph
<1>4. /\ run'.phase = "delete_states" /\ run'.at = 1
      /\ run'.rows = run.rows /\ run'.new = run.new /\ run'.remove = run.remove
      /\ run'.affected = run.affected /\ run'.absorbed = run.absorbed
      /\ run' \in Run
  BY <1>1, <1>2 DEF TypeOK, Run, Phase
<1>5. run.remove # {} /\ run.rows \in 0..1
  BY <1>1, <1>2, RunTyped DEF RunFits, TypeOK
<1>6. PriorKeys' = PriorKeys /\ Live' = Live
  BY <1>2 DEF PriorKeys, Live
<1>7. /\ run.affected = {f \in factors : Deps[f] \cap run.remove # {}}
      /\ run.absorbed = {k \in PriorKeys \ {New} : BlockIds(PriorAt(k)) \cap run.remove # {}}
  BY <1>3 DEF Planned, Touching
<1>8. TypeOK'
  BY <1>1, <1>2, <1>3, <1>4 DEF TypeOK
<1>9. StatesPlaced' /\ TellersIssued'
  BY <1>1, <1>2, <1>6 DEF StatesPlaced, TellersIssued, Scope
<1>10. FactorsResolve'
  BY <1>1, <1>3, <1>7 DEF FactorsResolve
<1>11. /\ BlockIds(PriorAt(New)) = (Live \ run.remove) \cap Scope(PriorAt(New).holds)
       /\ PriorAt(New).holds = Tells
       /\ \A i, j \in 1..Len(PriorAt(New).blocks) :
            PriorAt(New).blocks[i].id = PriorAt(New).blocks[j].id => i = j
  BY <1>3, ReplacementExact
<1>12. PriorsExact'
  <2> SUFFICES ASSUME NEW k \in GraphPriors'
               PROVE  (/\ BlockIds(PriorAt(k)) = GraphStates \cap Scope(PriorAt(k).holds)
                       /\ \A i, j \in 1..Len(PriorAt(k).blocks) :
                            PriorAt(k).blocks[i].id = PriorAt(k).blocks[j].id => i = j)'
    BY DEF PriorsExact
  <2>1. /\ BlockIds(PriorAt(k)) = (Live \ run.remove) \cap Scope(PriorAt(k).holds)
        /\ \A i, j \in 1..Len(PriorAt(k).blocks) :
             PriorAt(k).blocks[i].id = PriorAt(k).blocks[j].id => i = j
    <3>1. CASE k = New
      BY <1>11, <3>1
    <3>2. CASE k # New
      <4>1. k \in GraphPriors /\ k \in PriorKeys \ {New} /\ k \notin run.absorbed
        BY <1>3, <3>2
      <4>2. /\ BlockIds(PriorAt(k)) = Live \cap Scope(PriorAt(k).holds)
            /\ \A i, j \in 1..Len(PriorAt(k).blocks) :
                 PriorAt(k).blocks[i].id = PriorAt(k).blocks[j].id => i = j
        BY <1>1, <1>3, <4>1 DEF PriorsExact
      <4>3. BlockIds(PriorAt(k)) \cap run.remove = {}
        BY <1>7, <4>1
      <4> QED BY ONLY <4>2, <4>3
    <3> QED BY <3>1, <3>2
  <2>2. PriorAt(k)' = PriorAt(k) /\ GraphStates' = Live \ run.remove
    BY <1>3
  <2> QED BY ONLY <2>1, <2>2 DEF BlockIds, Scope
<1>13. ToldOnce'
  <2>1. /\ told = factors \cup constant \cup UNION {PriorAt(k).holds : k \in GraphPriors}
        /\ factors \cap constant = {}
        /\ \A k \in GraphPriors :
             /\ PriorAt(k).holds \cap (factors \cup constant) = {}
             /\ \A l \in GraphPriors \ {k} : PriorAt(k).holds \cap PriorAt(l).holds = {}
    BY <1>1, <1>3 DEF ToldOnce, Told
  <2>2. \A f : f \in Tells <=> f \in run.affected \/ \E k \in run.absorbed : f \in PriorAt(k).holds
    BY DEF Tells, PriorAt
  <2>3. run.affected \subseteq factors /\ run.absorbed \subseteq GraphPriors /\ New \notin GraphPriors
    BY <1>3, <1>7
  <2>4. /\ Tells \cap (factors \ run.affected) = {}
        /\ Tells \cap constant = {}
        /\ \A k \in GraphPriors \ run.absorbed : Tells \cap PriorAt(k).holds = {}
    BY ONLY <2>1, <2>2, <2>3
  <2>5. \A f : f \in told <=> \/ f \in factors \ run.affected \/ f \in constant \/ f \in Tells
                              \/ \E k \in GraphPriors \ run.absorbed : f \in PriorAt(k).holds
    BY ONLY <2>1, <2>2, <2>3
  <2>6. Told' = factors' \cup GraphSpent' \cup UNION {PriorAt(k).holds : k \in GraphPriors'}
    BY <1>3 DEF Told, PriorAt
  <2>7. CASE run.rows = 0
    <3>1. ~(run.rows > 0)
      BY ONLY <2>7
    <3>2. /\ GraphPriors' = GraphPriors \ run.absorbed /\ GraphSpent' = constant \cup Tells
          /\ factors' = factors \ run.affected
      BY ONLY <1>3, <2>7, <3>1
    <3>3. Told' = told
      BY ONLY <2>5, <2>6, <3>2
    <3>4. /\ factors' \cap GraphSpent' = {}
          /\ \A k \in GraphPriors' :
               /\ PriorAt(k).holds \cap (factors' \cup GraphSpent') = {}
               /\ \A l \in GraphPriors' \ {k} : PriorAt(k).holds \cap PriorAt(l).holds = {}
      BY ONLY <2>1, <2>4, <3>2
    <3> QED BY <1>2, <1>3, <3>3, <3>4 DEF ToldOnce
  <2>8. CASE run.rows # 0
    <3>1. run.rows > 0
      BY ONLY <2>8, <1>5
    <3>2. /\ GraphPriors' = (GraphPriors \ run.absorbed) \cup {New} /\ GraphSpent' = constant
          /\ factors' = factors \ run.affected /\ PriorAt(New).holds = Tells
      BY <1>3, <1>11, <2>8, <3>1
    <3>3. Told' = told
      BY ONLY <2>5, <2>6, <3>2
    <3>4. /\ factors' \cap GraphSpent' = {}
          /\ \A k \in GraphPriors' :
               /\ PriorAt(k).holds \cap (factors' \cup GraphSpent') = {}
               /\ \A l \in GraphPriors' \ {k} : PriorAt(k).holds \cap PriorAt(l).holds = {}
      <4>1. factors' \cap GraphSpent' = {}
        BY ONLY <2>1, <3>2
      <4>2. \A k \in GraphPriors \ run.absorbed : k # New
        BY ONLY <2>3
      <4>3. ASSUME NEW k \in GraphPriors'
            PROVE  /\ PriorAt(k).holds \cap (factors' \cup GraphSpent') = {}
                   /\ \A l \in GraphPriors' \ {k} : PriorAt(k).holds \cap PriorAt(l).holds = {}
        <5>1. CASE k = New
          BY ONLY <5>1, <4>2, <2>4, <3>2
        <5>2. CASE k # New
          BY ONLY <5>2, <4>2, <4>3, <2>1, <2>4, <3>2
        <5> QED BY <5>1, <5>2
      <4> QED BY <4>1, <4>3
    <3> QED BY <1>2, <1>3, <3>3, <3>4 DEF ToldOnce
  <2> QED BY <2>7, <2>8
<1>14. AnchorsFit'
  <2>1. \A p \in 1..NPools : Anchored(p)' = Anchored(p) /\ (NewAnchored(p)' <=> NewAnchored(p))
    BY <1>2, <1>4, <1>6, PoolsTyped DEF Anchored, Unanchored, NewAnchored
  <2> QED BY <1>1, <1>2, <1>4, <2>1, SameAnchorsFit
<1>15. RunFits'
  <2>1. 1 \in 1..NPools
    BY <1>1, <1>3, <1>5, ReplacementTyped
  <2>2. run.absorbed \subseteq PriorKeys
    BY <1>7
  <2>3. 1..(run'.at - 1) = {}
    BY <1>4
  <2> QED BY <1>3, <1>4, <1>5, <1>6, <2>1, <2>2, <2>3 DEF RunFits
<1>16. SpareFits'
  BY <1>1, <1>2, <1>4, <1>6, SpareStays
<1> QED BY <1>1, <1>2, <1>8, <1>9, <1>10, <1>12, <1>13, <1>14, <1>15, <1>16 DEF IInv

-----------------------------------------------------------------------------
(* From the first step of publication on, the graph stays as it is.        *)
LEMMA PublishedStep ==
  ASSUME IInv, Published, Published', factors' = factors, constant' = constant,
         told' = told, issued' = issued, Live' \ run.remove = Live \ run.remove,
         run'.remove = run.remove, run'.rows = run.rows, run'.absorbed = run.absorbed,
         run'.new = run.new,
         PriorKeys' \ run.absorbed = PriorKeys \ run.absorbed,
         \A k \in PriorKeys' : PoolGet(entries', k) = PoolGet(entries, k)
  PROVE  /\ SameGraph /\ PriorAt(New)' = PriorAt(New) /\ New' = New
         /\ New \in PriorKeys /\ New \in PriorKeys'
         /\ run.new = {New} /\ New \notin run.absorbed
         /\ TellersIssued' /\ FactorsResolve' /\ PriorsExact' /\ ToldOnce'
<1>1. /\ TypeOK /\ PoolOk(entries) /\ RunFits
      /\ TellersIssued /\ FactorsResolve /\ PriorsExact /\ ToldOnce
  BY DEF IInv
<1>2. New \in PriorKeys /\ run.new = {New} /\ New \notin run.absorbed
  BY <1>1, PendingIsThere DEF Published
<1>3. New \in PriorKeys'
  BY <1>2
<1>4. New' = New
  BY DEF New
<1>5. PriorAt(New)' = PriorAt(New)
  BY <1>3, <1>4 DEF PriorAt
<1>6. GraphStates' = GraphStates
  BY DEF GraphStates
<1>7. GraphSpent' = GraphSpent
  BY <1>5 DEF GraphSpent
<1>8. GraphPriors = {k \in PriorKeys : IF k \in run.new THEN run.rows > 0 ELSE k \notin run.absorbed}
  BY DEF GraphPriors, PriorInGraph
<1>9. GraphPriors' = {k \in PriorKeys' : IF k \in run.new THEN run.rows > 0 ELSE k \notin run.absorbed}
  BY DEF GraphPriors, PriorInGraph
<1>10. GraphPriors' = GraphPriors
  BY ONLY <1>2, <1>3, <1>8, <1>9, PriorKeys' \ run.absorbed = PriorKeys \ run.absorbed
<1>11. SameGraph
  <2>1. \A k \in GraphPriors : PoolGet(entries', k) = PoolGet(entries, k)
    BY <1>9, <1>10
  <2> QED BY <1>6, <1>7, <1>10, <2>1 DEF SameGraph
<1> QED BY <1>1, <1>2, <1>3, <1>4, <1>5, <1>11, SameGraphStays

(* A pool loses its removed states and the anchors of absorbed priors. *)
LEMMA DeleteStatesFits ==
  ASSUME IInv, DeleteStates
  PROVE  IInv' /\ SameGraph
<1>1. /\ TypeOK /\ PoolOk(entries) /\ StatesPlaced /\ AnchorsFit /\ RunFits /\ SpareFits
  BY DEF IInv
<1>2. /\ factors' = factors /\ entries' = entries /\ spare' = spare
      /\ constant' = constant /\ result' = result /\ issued' = issued /\ told' = told
      /\ run.phase = "delete_states"
      /\ anchors' = [anchors EXCEPT ![run.at] = Without(@, run.absorbed)]
      /\ pools' = [pools EXCEPT ![run.at] = RemoveSelected(@, run.remove)]
      /\ run' = IF run.at < NPools THEN [run EXCEPT !.at = @ + 1]
                ELSE [run EXCEPT !.phase = "delete_priors", !.at = Len(entries.keys)]
  BY DEF DeleteStates, priors, history
<1>3. PICK q \in 1..NPools : q = run.at
  BY <1>1, <1>2 DEF RunFits
<1>4. /\ run.remove # {} /\ run.absorbed \subseteq PriorKeys
      /\ \A p \in 1..(q - 1) : Range(pools[p]) \cap run.remove = {}
  BY <1>1, <1>2, <1>3 DEF RunFits
<1>5. New \in PriorKeys /\ run.new = {New} /\ New \notin run.absorbed
  BY <1>1, <1>2, PendingIsThere
<1>6. /\ \A p \in 1..NPools : p # q => pools'[p] = pools[p] /\ anchors'[p] = anchors[p]
      /\ pools'[q] = RemoveSelected(pools[q], run.remove)
      /\ anchors'[q] = Without(anchors[q], run.absorbed)
      /\ DOMAIN pools' = 1..NPools /\ DOMAIN anchors' = 1..NPools
      /\ pools' = [p \in 1..NPools |-> pools'[p]] /\ anchors' = [p \in 1..NPools |-> anchors'[p]]
  BY <1>1, <1>2, <1>3 DEF TypeOK
<1>7. /\ pools'[q] \in Seq(State) /\ Distinct(pools'[q])
      /\ Range(pools'[q]) = Range(pools[q]) \ run.remove
  <2>1. pools[q] \in Seq(State) /\ Distinct(pools[q])
    BY <1>1, PoolsTyped DEF StatesPlaced
  <2> QED BY <1>6, <2>1, RemoveSelectedProperties
<1>8. /\ anchors'[q] \in Seq(Anchor) /\ Distinct(anchors'[q])
      /\ Range(anchors'[q]) = {a \in Range(anchors[q]) : a.prior \notin run.absorbed}
  <2>1. anchors[q] \in Seq(Anchor) /\ Distinct(anchors[q])
    BY <1>1, PoolsTyped DEF AnchorsFit
  <2> QED BY <1>6, <2>1, WithoutProperties
<1>9. /\ run'.phase = IF q < NPools THEN "delete_states" ELSE "delete_priors"
      /\ run'.at = IF q < NPools THEN q + 1 ELSE Len(entries.keys)
      /\ run'.rows = run.rows /\ run'.new = run.new /\ run'.remove = run.remove
      /\ run'.affected = run.affected /\ run'.absorbed = run.absorbed
      /\ run' \in Run
  <2>1. run \in Run /\ Len(entries.keys) \in Nat
    BY <1>1, PoolTypes DEF TypeOK
  <2>2. CASE q < NPools
    <3>1. PICK next \in Nat : next = q + 1
      OBVIOUS
    <3>2. run' = [run EXCEPT !.at = next]
      BY ONLY <1>2, <1>3, <2>2, <3>1
    <3>3. run'.phase = run.phase /\ run'.at = next /\ run' \in Run
      BY ONLY <2>1, <3>2, next \in Nat DEF Run
    <3>4. /\ run'.rows = run.rows /\ run'.new = run.new /\ run'.remove = run.remove
          /\ run'.affected = run.affected /\ run'.absorbed = run.absorbed
      BY ONLY <2>1, <3>2 DEF Run
    <3> QED BY ONLY <1>2, <2>2, <3>1, <3>3, <3>4
  <2>3. CASE ~(q < NPools)
    <3>1. PICK next \in Nat : next = Len(entries.keys)
      BY <2>1
    <3>2. run' = [run EXCEPT !.phase = "delete_priors", !.at = next]
      BY ONLY <1>2, <1>3, <2>3, <3>1
    <3>3. run'.phase = "delete_priors" /\ run'.at = next /\ run' \in Run
      BY ONLY <2>1, <3>2, next \in Nat DEF Run, Phase
    <3>4. /\ run'.rows = run.rows /\ run'.new = run.new /\ run'.remove = run.remove
          /\ run'.affected = run.affected /\ run'.absorbed = run.absorbed
      BY ONLY <2>1, <3>2 DEF Run
    <3> QED BY ONLY <2>3, <3>1, <3>3, <3>4
  <2> QED BY ONLY <2>2, <2>3
<1>10. Published /\ Published' /\ PriorKeys' = PriorKeys
  BY <1>2, <1>9 DEF Published, PriorKeys
<1>11. \A p \in 1..NPools :
         Range(pools'[p]) = IF p = q THEN Range(pools[p]) \ run.remove ELSE Range(pools[p])
  BY <1>6, <1>7
<1>12. Live' \subseteq Live /\ Live' \ run.remove = Live \ run.remove
  <2>1. \A x : x \in Live' <=> \E p \in 1..NPools : x \in Range(pools'[p])
    BY DEF Live
  <2>2. \A x : x \in Live <=> \E p \in 1..NPools : x \in Range(pools[p])
    BY DEF Live
  <2>3. Live' \subseteq Live
    BY ONLY <2>1, <2>2, <1>11
  <2>4. \A x : x \in Live /\ x \notin run.remove => x \in Live'
    BY ONLY <2>1, <2>2, <1>11
  <2> QED BY ONLY <2>3, <2>4
<1>13. /\ SameGraph /\ New' = New
       /\ TellersIssued' /\ FactorsResolve' /\ PriorsExact' /\ ToldOnce'
  BY <1>2, <1>9, <1>10, <1>12, PublishedStep
<1>14. TypeOK'
  <2>1. pools' \in [1..NPools -> Seq(State)] /\ anchors' \in [1..NPools -> Seq(Anchor)]
    <3>1. \A p \in 1..NPools : pools'[p] \in Seq(State) /\ anchors'[p] \in Seq(Anchor)
      BY <1>1, <1>6, <1>7, <1>8, PoolsTyped
    <3> QED BY ONLY <1>6, <3>1
  <2>2. \A p \in 1..NPools : \A a \in Range(anchors'[p]) : PoolOf[a.state] = p
    BY <1>1, <1>6, <1>8 DEF TypeOK
  <2> QED BY <1>1, <1>2, <1>9, <2>1, <2>2 DEF TypeOK
<1>15. StatesPlaced'
  <2>1. \A p \in 1..NPools : Distinct(pools'[p]) /\ \A s \in Range(pools'[p]) : PoolOf[s] = p
    BY <1>1, <1>6, <1>7 DEF StatesPlaced
  <2> QED BY <1>1, <1>2, <1>12, <2>1 DEF StatesPlaced
<1>16. AnchorsFit'
  <2> SUFFICES ASSUME NEW p \in 1..NPools
               PROVE  (Distinct(anchors[p]) /\ OldAnchorsFit(p) /\ NewAnchorsFit(p))'
    BY DEF AnchorsFit
  <2>1. Distinct(anchors[p]) /\ OldAnchorsFit(p) /\ NewAnchorsFit(p)
    BY <1>1 DEF AnchorsFit
  <2>2. Anchored(p)' = IF p = q THEN Anchored(p) \ run.absorbed ELSE Anchored(p)
    <3>1. NPools \in Nat
      BY <1>1, PoolsTyped
    <3>2. Unanchored(p)' <=> Unanchored(p) \/ p = q
      <4>1. CASE q < NPools
        BY ONLY <3>1, <4>1, <1>2, <1>3, <1>9, p \in 1..NPools, q \in 1..NPools DEF Unanchored
      <4>2. CASE ~(q < NPools)
        <5>1. p < q \/ p = q
          BY ONLY <3>1, <4>2, p \in 1..NPools, q \in 1..NPools
        <5> QED BY ONLY <4>2, <5>1, <1>2, <1>3, <1>9 DEF Unanchored
      <4> QED BY <4>1, <4>2
    <3>3. Unanchored(p) => p # q
      BY ONLY <1>2, <1>3, q \in 1..NPools DEF Unanchored
    <3>4. Anchored(p) = {k \in PriorKeys \ run.new : ~(Unanchored(p) /\ k \in run.absorbed)}
      BY DEF Anchored
    <3>5. Anchored(p)' = {k \in PriorKeys \ run.new : ~(Unanchored(p)' /\ k \in run.absorbed)}
      BY <1>9, <1>10 DEF Anchored
    <3> QED BY ONLY <3>2, <3>3, <3>4, <3>5
  <2>3. \A k, a : a \in AnchorSet(PriorAt(k), k, p) => a.prior = k
    BY DEF AnchorSet, AnchorOf
  <2>4. Range(anchors'[p]) = IF p = q THEN {a \in Range(anchors[p]) : a.prior \notin run.absorbed}
                             ELSE Range(anchors[p])
    BY <1>6, <1>8
  <2>5. \A a : /\ a \in Range(anchors[p]) /\ a.prior \notin run.new
               <=> \E k \in Anchored(p) : a \in AnchorSet(PriorAt(k), k, p)
    <3>1. {a \in Range(anchors[p]) : a.prior \notin run.new}
            = UNION {AnchorSet(PriorAt(k), k, p) : k \in Anchored(p)}
      BY <2>1 DEF OldAnchorsFit
    <3> QED BY ONLY <3>1
  <2>6. \A a : /\ a \in Range(anchors'[p]) /\ a.prior \notin run.new
               <=> \E k \in Anchored(p)' : a \in AnchorSet(PriorAt(k), k, p)
    BY ONLY <2>2, <2>3, <2>4, <2>5
  <2>7. OldAnchorsFit(p)'
    <3>1. {a \in Range(anchors'[p]) : a.prior \notin run.new}
            = UNION {AnchorSet(PriorAt(k), k, p) : k \in Anchored(p)'}
      BY ONLY <2>6
    <3> QED BY ONLY <3>1, <1>2, <1>9 DEF OldAnchorsFit, PriorAt
  <2>8. {a \in Range(anchors'[p]) : a.prior \in run.new} = {a \in Range(anchors[p]) : a.prior \in run.new}
    BY ONLY <1>5, <2>4
  <2>9. NewAnchorsFit(p)'
    <3>1. NewAnchored(p)' <=> NewAnchored(p)
      BY <1>2, <1>9 DEF NewAnchored
    <3>2. {a \in Range(anchors[p]) : a.prior \in run.new}
            = IF NewAnchored(p) THEN AnchorSet(PriorAt(New), New, p) ELSE {}
      BY <1>2, <2>1 DEF NewAnchorsFit
    <3> QED BY ONLY <3>1, <3>2, <2>8, <1>2, <1>9, <1>13 DEF NewAnchorsFit, PriorAt
  <2>10. Distinct(anchors[p])'
    BY <1>6, <1>8, <2>1
  <2> QED BY <2>7, <2>9, <2>10
<1>17. RunFits'
  <2>1. NPools \in Nat
    BY <1>1, PoolsTyped
  <2>2. \A p \in 1..q : Range(pools'[p]) \cap run.remove = {}
    <3> SUFFICES ASSUME NEW p \in 1..q PROVE Range(pools'[p]) \cap run.remove = {}
      OBVIOUS
    <3>1. p \in 1..NPools /\ (p = q \/ p \in 1..(q - 1))
      BY ONLY <2>1, p \in 1..q, q \in 1..NPools
    <3> QED BY ONLY <3>1, <1>4, <1>11
  <2>3. CASE q < NPools
    <3>1. run'.phase = "delete_states" /\ run'.at = q + 1
      BY <1>9, <2>3
    <3>2. run'.at \in 1..NPools /\ run'.at - 1 = q
      BY <2>1, <2>3, <3>1
    <3> QED BY <1>4, <1>5, <1>9, <1>10, <2>2, <3>1, <3>2 DEF RunFits
  <2>4. CASE ~(q < NPools)
    <3>1. run'.phase = "delete_priors" /\ run'.at = Len(entries.keys)
      BY <1>9, <2>4
    <3>2. q = NPools
      BY <2>1, <2>4
    <3>3. Live' \cap run.remove = {}
      BY <2>2, <3>2 DEF Live
    <3>4. Len(entries.keys) \in Nat
      BY <1>1, PoolTypes DEF TypeOK
    <3>5. /\ run'.at <= Len(entries'.keys)
          /\ (run'.at + 1)..Len(entries'.keys) = {}
      BY <1>2, <3>1, <3>4
    <3> QED BY <1>4, <1>5, <1>9, <1>10, <3>1, <3>3, <3>5 DEF RunFits
  <2> QED BY <2>3, <2>4
<1>18. SpareFits'
  BY <1>1, <1>2, <1>9, <1>10, SpareStays
<1> QED BY <1>1, <1>2, <1>13, <1>14, <1>15, <1>16, <1>17, <1>18 DEF IInv

-----------------------------------------------------------------------------
(* Dense order holds every prior. *)
LEMMA PriorAtPlace ==
  ASSUME TypeOK, PoolOk(entries)
  PROVE  /\ Len(entries.keys) \in Nat
         /\ \A i \in 1..Len(entries.keys) : Raw(entries, entries.keys[i]) \in PriorKeys
BY PoolTypes DEF TypeOK, PriorKeys

(* What has come back is one less to come back. *)
LEMMA SpareReturned ==
  ASSUME TypeOK, PoolOk(entries), SpareFits, run.new # {}, run.new \subseteq PriorKeys,
         NEW k \in run.absorbed \cap PriorKeys, k \notin run.new,
         entries' = PoolRemove(entries, k),
         spare' = [spare EXCEPT !.buffers = Append(@, PoolGet(entries, k))],
         run'.new = run.new, run'.absorbed = run.absorbed
  PROVE  SpareFits'
<1>1. /\ PriorKeys' = PriorKeys \ {k}
      /\ spare'.capacity = spare.capacity
      /\ Len(spare.buffers) \in Nat /\ Len(spare'.buffers) = Len(spare.buffers) + 1
      /\ spare'.capacity \in Nat
  <2>1. /\ PriorKeys' = PriorKeys \ {k}
        /\ spare' \in [buffers : Seq(Prior), capacity : Nat]
        /\ spare'.capacity = spare.capacity
        /\ Len(spare.buffers) \in Nat /\ Len(spare'.buffers) = Len(spare.buffers) + 1
    BY PriorTakenOut
  <2> QED BY ONLY <2>1
<1>2. PICK S : S = (run.absorbed \cap PriorKeys) \cup run.new
  OBVIOUS
<1>3. S \subseteq PriorKeys /\ k \in S
  BY <1>2
<1>4. IsFiniteSet(PriorKeys)
  BY PriorsTyped
<1>5. IsFiniteSet(S) /\ Cardinality(S) \in Nat
  BY <1>3, <1>4, FS_Subset, FS_CardinalityType
<1>6. Cardinality(S \ {k}) = Cardinality(S) - 1
  BY <1>3, <1>5, FS_RemoveElement
<1>7. (run'.absorbed \cap PriorKeys') \cup run'.new = S \ {k}
  BY ONLY <1>1, <1>2, k \notin run.new, run'.new = run.new, run'.absorbed = run.absorbed
<1>8. Len(spare.buffers) + Cardinality(S) <= spare.capacity
  BY <1>2 DEF SpareFits
<1>9. Len(spare'.buffers) + Cardinality(S \ {k}) <= spare'.capacity
  BY ONLY <1>1, <1>5, <1>6, <1>8
<1> QED BY <1>7, <1>9 DEF SpareFits

(* A prior of the front goes, or another one stays. *)
LEMMA DeletePriorFits ==
  ASSUME IInv, DeletePrior
  PROVE  IInv' /\ SameGraph
<1>1. TypeOK /\ PoolOk(entries) /\ StatesPlaced /\ AnchorsFit /\ RunFits /\ SpareFits
  BY DEF IInv
<1>2. /\ pools' = pools /\ anchors' = anchors /\ factors' = factors
      /\ constant' = constant /\ result' = result /\ issued' = issued /\ told' = told
      /\ run.phase = "delete_priors" /\ run.at > 0
      /\ run' = [run EXCEPT !.at = @ - 1]
  BY DEF DeletePrior, graph, history
<1>3. PICK k : k = Raw(entries, entries.keys[run.at])
  OBVIOUS
<1>4. IF k \in run.absorbed THEN Recycle(k) ELSE UNCHANGED <<entries, spare>>
  BY <1>3 DEF DeletePrior
<1>5. PICK n \in Nat : n = Len(entries.keys)
  BY <1>1, PriorAtPlace
<1>6. run.at \in 1..n /\ k \in PriorKeys
  <2>1. run.at \in Nat /\ run.at <= n
    BY <1>1, <1>2, <1>5 DEF RunFits, TypeOK, Run
  <2>2. run.at \in 1..n
    BY ONLY <2>1, <1>2, n \in Nat
  <2> QED BY <2>2, <1>1, <1>3, <1>5, PriorAtPlace
<1>7. /\ Live \cap run.remove = {} /\ run.remove # {}
      /\ \A i \in (run.at + 1)..n : Raw(entries, entries.keys[i]) \notin run.absorbed
  BY <1>1, <1>2, <1>5 DEF RunFits
<1>8. New \in PriorKeys /\ run.new = {New} /\ New \notin run.absorbed
  BY <1>1, <1>2, PendingIsThere
<1>9. /\ run'.phase = "delete_priors" /\ run'.at = run.at - 1
      /\ run'.rows = run.rows /\ run'.new = run.new /\ run'.remove = run.remove
      /\ run'.affected = run.affected /\ run'.absorbed = run.absorbed
      /\ run' \in Run
  <2>1. run \in Run
    BY <1>1 DEF TypeOK
  <2>2. PICK next \in Nat : next = run.at - 1
    BY ONLY <1>6
  <2>3. run' = [run EXCEPT !.at = next]
    BY ONLY <1>2, <2>2
  <2>4. run'.phase = run.phase /\ run'.at = next /\ run' \in Run
    BY ONLY <2>1, <2>3, next \in Nat DEF Run
  <2>5. /\ run'.rows = run.rows /\ run'.new = run.new /\ run'.remove = run.remove
        /\ run'.affected = run.affected /\ run'.absorbed = run.absorbed
    BY ONLY <2>1, <2>3 DEF Run
  <2> QED BY ONLY <1>2, <2>2, <2>4, <2>5
<1>10. /\ entries' \in Pools(Prior) /\ PoolOk(entries')
       /\ PriorKeys' = PriorKeys \ (IF k \in run.absorbed THEN {k} ELSE {})
       /\ \A j \in PriorKeys' : PoolGet(entries', j) = PoolGet(entries, j)
       /\ spare' \in [buffers : Seq(Prior), capacity : Nat]
  <2>1. CASE k \in run.absorbed
    <3>1. /\ entries' = PoolRemove(entries, k)
          /\ spare' = [spare EXCEPT !.buffers = Append(@, PoolGet(entries, k))]
      BY <1>4, <2>1 DEF Recycle
    <3>2. /\ entries' \in Pools(Prior) /\ PoolOk(entries')
          /\ PriorKeys' = PriorKeys \ {k}
          /\ \A j \in PriorKeys' : PoolGet(entries', j) = PoolGet(entries, j)
          /\ spare' \in [buffers : Seq(Prior), capacity : Nat]
      BY <1>1, <1>6, <3>1, PriorTakenOut
    <3> QED BY ONLY <2>1, <3>2
  <2>2. CASE k \notin run.absorbed
    BY <1>1, <1>4, <2>2 DEF TypeOK, PriorKeys
  <2> QED BY <2>1, <2>2
<1>11. /\ SameGraph /\ New' = New /\ PriorAt(New)' = PriorAt(New) /\ New \in PriorKeys'
       /\ TellersIssued' /\ FactorsResolve' /\ PriorsExact' /\ ToldOnce'
  <2>1. Published /\ Published' /\ Live' = Live
    BY <1>2, <1>9 DEF Published, Live
  <2>2. PriorKeys' \ run.absorbed = PriorKeys \ run.absorbed
    BY <1>10
  <2> QED BY <1>2, <1>9, <1>10, <2>1, <2>2, PublishedStep
<1>12. TypeOK'
  BY <1>1, <1>2, <1>9, <1>10 DEF TypeOK
<1>13. StatesPlaced'
  BY <1>1, <1>2 DEF StatesPlaced, Live
<1>14. AnchorsFit'
  <2>1. \A p \in 1..NPools : Anchored(p)' = Anchored(p) /\ (NewAnchored(p)' <=> NewAnchored(p))
    <3> SUFFICES ASSUME NEW p \in 1..NPools
                 PROVE  Anchored(p)' = Anchored(p) /\ (NewAnchored(p)' <=> NewAnchored(p))
      OBVIOUS
    <3>1. Unanchored(p) /\ Unanchored(p)'
      BY <1>2, <1>9 DEF Unanchored
    <3>2. Anchored(p) = {j \in PriorKeys \ run.new : j \notin run.absorbed}
      BY <3>1 DEF Anchored
    <3>3. Anchored(p)' = {j \in PriorKeys' \ run.new : j \notin run.absorbed}
      BY <1>9, <3>1 DEF Anchored
    <3>4. Anchored(p)' = Anchored(p)
      BY ONLY <1>10, <3>2, <3>3
    <3>5. NewAnchored(p)' <=> NewAnchored(p)
      BY <1>2, <1>9 DEF NewAnchored
    <3> QED BY <3>4, <3>5
  <2>2. \A j \in PriorKeys \ run.new :
          j \in PriorKeys' => PoolGet(entries', j) = PoolGet(entries, j)
    BY <1>10
  <2>3. PoolGet(entries', New) = PoolGet(entries, New)
    BY <1>10, <1>11
  <2> QED BY <1>1, <1>2, <1>9, <2>1, <2>2, <2>3, SameAnchorsFit
<1>15. /\ run'.at <= Len(entries'.keys)
       /\ \A i \in (run'.at + 1)..Len(entries'.keys) :
            Raw(entries', entries'.keys[i]) \notin run'.absorbed
  <2>1. PICK at \in 1..n : at = run.at
    BY <1>6
  <2>2. run'.at = at - 1
    BY <1>9, <2>1
  <2>3. \A i \in (at + 1)..n : Raw(entries, entries.keys[i]) \notin run.absorbed
    BY <1>7, <2>1
  <2>4. CASE k \in run.absorbed
    <3>1. entries' = PoolRemove(entries, Raw(entries, entries.keys[at]))
      BY <1>3, <1>4, <2>1, <2>4 DEF Recycle
    <3>2. entries \in Pools(Prior)
      BY <1>1 DEF TypeOK
    <3>3. /\ Len(entries'.keys) = n - 1
          /\ \A j \in 1..(n - 1) :
               Raw(entries', entries'.keys[j])
                 = IF j = at THEN Raw(entries, entries.keys[n]) ELSE Raw(entries, entries.keys[j])
      <4>1. at \in 1..Len(entries.keys)
        BY <1>5
      <4>2. PICK q : q = PoolRemove(entries, Raw(entries, entries.keys[at]))
        OBVIOUS
      <4>3. PoolOk(entries)
        BY <1>1
      <4>4. /\ Len(q.keys) = Len(entries.keys) - 1
            /\ \A j \in 1..(Len(entries.keys) - 1) :
                 Raw(q, q.keys[j]) = IF j = at THEN Raw(entries, entries.keys[Len(entries.keys)])
                                     ELSE Raw(entries, entries.keys[j])
        BY ONLY <3>2, <4>1, <4>2, <4>3, KeysMoved
      <4> QED BY ONLY <1>5, <3>1, <4>2, <4>4
    <3>4. ASSUME NEW i \in ((at - 1) + 1)..(n - 1)
          PROVE  Raw(entries', entries'.keys[i]) \notin run.absorbed
      <4>1. i \in 1..(n - 1) /\ (i # at => i \in (at + 1)..n) /\ (i = at => n \in (at + 1)..n)
        BY ONLY i \in ((at - 1) + 1)..(n - 1), at \in 1..n, n \in Nat
      <4>2. Raw(entries', entries'.keys[i])
              = IF i = at THEN Raw(entries, entries.keys[n]) ELSE Raw(entries, entries.keys[i])
        BY <3>3, <4>1
      <4>3. CASE i = at
        BY ONLY <4>1, <4>2, <4>3, <2>3
      <4>4. CASE i # at
        BY ONLY <4>1, <4>2, <4>4, <2>3
      <4> QED BY <4>3, <4>4
    <3>5. at - 1 <= n - 1
      BY ONLY at \in 1..n, n \in Nat
    <3> QED BY ONLY <1>9, <2>2, <3>3, <3>4, <3>5
  <2>5. CASE k \notin run.absorbed
    <3>1. entries' = entries
      BY <1>4, <2>5
    <3>2. ASSUME NEW i \in ((at - 1) + 1)..n
          PROVE  Raw(entries, entries.keys[i]) \notin run.absorbed
      <4>1. i = at \/ i \in (at + 1)..n
        BY ONLY i \in ((at - 1) + 1)..n, at \in 1..n, n \in Nat
      <4> QED BY ONLY <4>1, <1>3, <2>1, <2>3, <2>5
    <3>3. at - 1 <= n
      BY ONLY at \in 1..n, n \in Nat
    <3> QED BY ONLY <1>5, <1>9, <2>2, <3>1, <3>2, <3>3
  <2> QED BY <2>4, <2>5
<1>16. RunFits'
  <2>1. Live' = Live /\ Published'
    BY <1>2, <1>9 DEF Live, Published
  <2> QED BY <1>7, <1>8, <1>9, <1>11, <1>15, <2>1 DEF RunFits
<1>17. SpareFits'
  <2>1. CASE k \in run.absorbed
    <3>1. /\ entries' = PoolRemove(entries, k)
          /\ spare' = [spare EXCEPT !.buffers = Append(@, PoolGet(entries, k))]
      BY <1>4, <2>1 DEF Recycle
    <3>2. run.new # {} /\ run.new \subseteq PriorKeys /\ k \notin run.new
      BY <1>8, <2>1
    <3> QED BY <1>1, <1>6, <1>9, <2>1, <3>1, <3>2, SpareReturned
  <2>2. CASE k \notin run.absorbed
    BY <1>1, <1>4, <1>9, <1>10, <2>2, SpareStays
  <2> QED BY <2>1, <2>2
<1> QED BY <1>10, <1>11, <1>12, <1>13, <1>14, <1>16, <1>17 DEF IInv

(* The replacement stays, or its constant does. *)
LEMMA PublishFits ==
  ASSUME IInv, Publish
  PROVE  IInv' /\ SameGraph
<1>1. /\ TypeOK /\ PoolOk(entries) /\ StatesPlaced /\ TellersIssued /\ FactorsResolve
      /\ PriorsExact /\ ToldOnce /\ AnchorsFit /\ RunFits
  BY DEF IInv
<1>2. /\ pools' = pools /\ anchors' = anchors /\ factors' = factors
      /\ result' = "ok" /\ issued' = issued /\ told' = told
      /\ run.phase = "delete_priors" /\ run.at = 0 /\ run' = NoRun
      /\ IF run.rows = 0
           THEN /\ Recycle(New)
                /\ constant' = constant \cup PoolGet(entries, New).holds
           ELSE UNCHANGED priors
  BY DEF Publish, graph, history
<1>3. New \in PriorKeys /\ run.new = {New} /\ New \notin run.absorbed
  BY <1>1, <1>2, PendingIsThere
<1>4. Live \cap run.remove = {} /\ PriorKeys \cap run.absorbed = {}
  <2>1. \A i \in (0 + 1)..Len(entries.keys) : Raw(entries, entries.keys[i]) \notin run.absorbed
    BY <1>1, <1>2 DEF RunFits
  <2>2. \A i \in 1..Len(entries.keys) : Raw(entries, entries.keys[i]) \notin run.absorbed
    BY <2>1
  <2>3. PriorKeys \cap run.absorbed = {}
    BY <2>2 DEF PriorKeys
  <2> QED BY <1>1, <1>2, <2>3 DEF RunFits
<1>5. Published /\ run.rows \in 0..1
  BY <1>1, <1>2 DEF Published, TypeOK, Run
<1>6. PICK new : new = New
  OBVIOUS
<1>7. /\ GraphStates = Live
      /\ GraphSpent = constant \cup IF run.rows = 0 THEN PoolGet(entries, new).holds ELSE {}
      /\ GraphPriors = PriorKeys \ (IF run.rows = 0 THEN {new} ELSE {})
  <2>1. /\ GraphStates = Live \ run.remove
        /\ GraphSpent = constant \cup IF run.rows = 0 THEN PriorAt(New).holds ELSE {}
        /\ GraphPriors = {k \in PriorKeys : IF k \in run.new THEN run.rows > 0
                                            ELSE k \notin run.absorbed}
    BY <1>5, PublishedGraph
  <2>2. GraphSpent = constant \cup IF run.rows = 0 THEN PoolGet(entries, new).holds ELSE {}
    BY <1>6, <2>1 DEF PriorAt
  <2>3. run.rows > 0 <=> run.rows # 0
    BY ONLY <1>5
  <2>4. GraphPriors = PriorKeys \ (IF run.rows = 0 THEN {new} ELSE {})
    BY ONLY <1>3, <1>4, <1>6, <2>1, <2>3
  <2>5. GraphStates = Live
    BY ONLY <1>4, <2>1
  <2> QED BY ONLY <2>2, <2>4, <2>5
<1>8. /\ run' \in Run /\ RunFits' /\ SpareFits' /\ ~Published' /\ run'.phase = "idle" /\ run'.new = {}
      /\ \A p : ~NewAnchored(p)' /\ Anchored(p)' = PriorKeys'
  BY <1>2, NoRunFitsNext
<1>9. /\ entries' \in Pools(Prior) /\ PoolOk(entries')
      /\ PriorKeys' = PriorKeys \ (IF run.rows = 0 THEN {new} ELSE {})
      /\ \A j \in PriorKeys' : PoolGet(entries', j) = PoolGet(entries, j)
      /\ spare' \in [buffers : Seq(Prior), capacity : Nat]
      /\ constant' = constant \cup IF run.rows = 0 THEN PoolGet(entries, new).holds ELSE {}
  <2>1. CASE run.rows = 0
    <3>1. /\ entries' = PoolRemove(entries, new)
          /\ spare' = [spare EXCEPT !.buffers = Append(@, PoolGet(entries, new))]
          /\ constant' = constant \cup PoolGet(entries, new).holds
      BY <1>2, <1>6, <2>1 DEF Recycle
    <3>2. /\ entries' \in Pools(Prior) /\ PoolOk(entries')
          /\ PriorKeys' = PriorKeys \ {new}
          /\ \A j \in PriorKeys' : PoolGet(entries', j) = PoolGet(entries, j)
          /\ spare' \in [buffers : Seq(Prior), capacity : Nat]
      BY <1>1, <1>3, <1>6, <3>1, PriorTakenOut
    <3> QED BY ONLY <2>1, <3>1, <3>2
  <2>2. CASE run.rows # 0
    BY <1>1, <1>2, <2>2 DEF TypeOK, PriorKeys, priors
  <2> QED BY <2>1, <2>2
<1>10. Live' = Live
  BY <1>2 DEF Live
<1>11. SameGraph
  <2>1. (~Published => GraphStates = Live /\ GraphSpent = constant /\ GraphPriors = PriorKeys \ run.new)'
    BY UnpublishedGraph, PTL
  <2>2. /\ GraphStates' = GraphStates /\ GraphSpent' = GraphSpent /\ GraphPriors' = GraphPriors
        /\ \A k \in GraphPriors : k \in PriorKeys'
    BY ONLY <1>7, <1>8, <1>9, <1>10, <2>1
  <2> QED BY <1>2, <1>9, <2>2 DEF SameGraph
<1>12. TellersIssued' /\ FactorsResolve' /\ PriorsExact' /\ ToldOnce'
  BY <1>1, <1>11, SameGraphStays
<1>13. constant' \subseteq Factor
  <2>1. PoolGet(entries, new).holds \subseteq Factor
    BY <1>1, <1>3, <1>6, PriorsTyped, BlocksTyped DEF PriorAt
  <2>2. constant \subseteq Factor
    BY <1>1 DEF TypeOK
  <2> QED BY ONLY <1>9, <2>1, <2>2
<1>14. TypeOK'
  BY <1>1, <1>2, <1>8, <1>9, <1>13 DEF TypeOK
<1>15. StatesPlaced'
  BY <1>1, <1>2, <1>10 DEF StatesPlaced
<1>16. AnchorsFit'
  <2> SUFFICES ASSUME NEW p \in 1..NPools
               PROVE  (Distinct(anchors[p]) /\ OldAnchorsFit(p) /\ NewAnchorsFit(p))'
    BY DEF AnchorsFit
  <2>1. Distinct(anchors[p]) /\ OldAnchorsFit(p) /\ NewAnchorsFit(p)
    BY <1>1 DEF AnchorsFit
  <2>2. Anchored(p) = PriorKeys \ {new}
    <3>1. Unanchored(p)
      BY <1>2 DEF Unanchored
    <3>2. Anchored(p) = {k \in PriorKeys \ run.new : k \notin run.absorbed}
      BY <3>1 DEF Anchored
    <3> QED BY ONLY <1>3, <1>4, <1>6, <3>2
  <2>3. NewAnchored(p) <=> run.rows > 0
    BY <1>2 DEF NewAnchored
  <2>4. {a \in Range(anchors[p]) : a.prior \notin run.new}
          = UNION {AnchorSet(PoolGet(entries, k), k, p) : k \in PriorKeys \ {new}}
    BY <2>1, <2>2 DEF OldAnchorsFit, PriorAt
  <2>5. {a \in Range(anchors[p]) : a.prior \in run.new}
          = IF run.rows > 0 THEN AnchorSet(PoolGet(entries, new), new, p) ELSE {}
    BY <1>2, <1>6, <2>1, <2>3 DEF NewAnchorsFit, PriorAt
  <2>6. run.rows > 0 <=> run.rows # 0
    BY ONLY <1>5
  <2>7. Range(anchors[p]) = UNION {AnchorSet(PoolGet(entries, k), k, p) : k \in PriorKeys'}
    <3>1. \A a : a \in Range(anchors[p]) <=>
                   \/ \E k \in PriorKeys \ {new} : a \in AnchorSet(PoolGet(entries, k), k, p)
                   \/ run.rows # 0 /\ a \in AnchorSet(PoolGet(entries, new), new, p)
      BY ONLY <2>4, <2>5, <2>6
    <3>2. new \in PriorKeys
      BY ONLY <1>3, <1>6
    <3>3. \A a : a \in Range(anchors[p]) <=>
                   \E k \in PriorKeys' : a \in AnchorSet(PoolGet(entries, k), k, p)
      <4>1. CASE run.rows = 0
        BY ONLY <1>9, <3>1, <4>1
      <4>2. CASE run.rows # 0
        BY ONLY <1>9, <3>1, <3>2, <4>2
      <4> QED BY <4>1, <4>2
    <3> QED BY ONLY <3>3
  <2>8. UNION {AnchorSet(PoolGet(entries', k), k, p) : k \in PriorKeys'}
          = UNION {AnchorSet(PoolGet(entries, k), k, p) : k \in PriorKeys'}
    BY <1>9
  <2>9. Anchored(p)' = PriorKeys' /\ ~NewAnchored(p)'
    BY <1>8
  <2>10. /\ {a \in Range(anchors[p]) : a.prior \notin {}} = Range(anchors[p])
         /\ {a \in Range(anchors[p]) : a.prior \in {}} = {}
    OBVIOUS
  <2>11. OldAnchorsFit(p)'
    BY ONLY <1>2, <1>8, <2>7, <2>8, <2>9, <2>10 DEF OldAnchorsFit, PriorAt
  <2>12. NewAnchorsFit(p)'
    BY ONLY <1>2, <1>8, <2>9, <2>10 DEF NewAnchorsFit
  <2> QED BY <1>2, <2>1, <2>11, <2>12
<1> QED BY <1>8, <1>9, <1>11, <1>12, <1>14, <1>15, <1>16 DEF IInv

-----------------------------------------------------------------------------
(* A step that changes nothing. *)
LEMMA StutterFits ==
  ASSUME IInv, UNCHANGED vars
  PROVE  IInv'
<1>1. /\ pools' = pools /\ anchors' = anchors /\ factors' = factors /\ entries' = entries
      /\ spare' = spare /\ constant' = constant /\ run' = run /\ result' = result
      /\ issued' = issued /\ told' = told
  BY DEF vars, graph, priors, history
<1>2. /\ TypeOK /\ PoolOk(entries) /\ StatesPlaced /\ TellersIssued /\ FactorsResolve
      /\ PriorsExact /\ ToldOnce /\ AnchorsFit /\ RunFits /\ SpareFits
  BY DEF IInv
<1>3. /\ Live' = Live /\ PriorKeys' = PriorKeys /\ New' = New /\ (Published' <=> Published)
      /\ \A k : PriorAt(k)' = PriorAt(k)
  BY <1>1 DEF Live, PriorKeys, New, Published, PriorAt
<1>4. \A k : PriorInGraph(k)' <=> PriorInGraph(k)
  BY <1>1, <1>3 DEF PriorInGraph
<1>5. SameGraph
  <2>1. GraphStates' = GraphStates
    BY <1>1, <1>3 DEF GraphStates
  <2>2. GraphPriors' = GraphPriors
    BY <1>3, <1>4 DEF GraphPriors
  <2>3. GraphSpent' = GraphSpent
    BY <1>1, <1>3 DEF GraphSpent
  <2> QED BY <1>1, <2>1, <2>2, <2>3 DEF SameGraph
<1>6. TellersIssued' /\ FactorsResolve' /\ PriorsExact' /\ ToldOnce'
  BY <1>2, <1>5, SameGraphStays
<1>7. TypeOK' /\ StatesPlaced'
  BY <1>1, <1>2, <1>3 DEF TypeOK, StatesPlaced
<1>8. AnchorsFit'
  <2>1. \A p \in 1..NPools : Anchored(p)' = Anchored(p) /\ (NewAnchored(p)' <=> NewAnchored(p))
    BY <1>1, <1>3 DEF Anchored, NewAnchored, Unanchored
  <2> QED BY <1>1, <1>2, <2>1, SameAnchorsFit
<1>9. RunFits'
  <2>1. Planned => Planned' /\ Separator' = Separator /\ NewBlocks' = NewBlocks /\ Tells' = Tells
    BY <1>1, <1>3, PlanStays
  <2>2. Planned /\ Replaces => Replaces'
    BY <1>1, <1>3, <2>1 DEF Replaces
  <2>3. run.phase \in {"capture", "delete_factors"} => Planned
    BY <1>2 DEF RunFits, Published
  <2> QED BY <1>1, <1>2, <1>3, <2>1, <2>2, <2>3 DEF RunFits
<1>10. SpareFits'
  BY <1>1, <1>2, <1>3, SpareStays
<1> QED BY <1>1, <1>2, <1>6, <1>7, <1>8, <1>9, <1>10 DEF IInv

(* No step breaks the invariant, and no step of a marginalization but the  *)
(* one with which publication begins changes the graph.                    *)
LEMMA StepFits ==
  ASSUME IInv, Step
  PROVE  IInv' /\ (DeleteFactors \/ SameGraph)
<1>1. CASE CollectFails
  BY <1>1, CollectFailsFits
<1>2. CASE InsertPending
  BY <1>2, InsertPendingFits
<1>3. CASE InsertPanics
  BY <1>3, InsertPanicsFits
<1>4. CASE Reduce
  BY <1>4, ReduceFits
<1>5. CASE ReduceFails
  BY <1>5, ReduceFailsFits
<1>6. CASE CaptureAnchors
  BY <1>6, CaptureAnchorsFits
<1>7. CASE CaptureFails
  BY <1>7, CaptureFailsFits
<1>8. CASE Rollback
  BY <1>8, RollbackFits
<1>9. CASE DeleteFactors
  BY <1>9, DeleteFactorsFits
<1>10. CASE DeleteStates
  BY <1>10, DeleteStatesFits
<1>11. CASE DeletePrior
  BY <1>11, DeletePriorFits
<1>12. CASE Publish
  BY <1>12, PublishFits
<1> QED BY <1>1, <1>2, <1>3, <1>4, <1>5, <1>6, <1>7, <1>8, <1>9, <1>10, <1>11, <1>12 DEF Step

(* The invariant is inductive. *)
LEMMA NextFits == IInv /\ [Next]_vars => IInv'
<1> SUFFICES ASSUME IInv, [Next]_vars PROVE IInv'
  OBVIOUS
<1>1. CASE \E s \in State : AddState(s)
  BY <1>1, AddStateFits
<1>2. CASE \E f \in Factor : AddFactor(f) \/ RemoveFactor(f)
  BY <1>2, AddFactorFits, RemoveFactorFits
<1>3. CASE \E R \in SUBSET State : Marginalize(R)
  BY <1>3, MarginalizeFits
<1>4. CASE Step
  BY <1>4, StepFits
<1>5. CASE UNCHANGED vars
  BY <1>5, StutterFits
<1> QED BY <1>1, <1>2, <1>3, <1>4, <1>5 DEF Next

(* So it holds of every behaviour. *)
LEMMA InvariantHolds == Spec => []IInv
BY StartsFit, NextFits, PTL DEF Spec

-----------------------------------------------------------------------------
(* What the invariant says between calls. *)
LEMMA AtRestFacts ==
  ASSUME IInv, Idle
  PROVE  /\ \A f \in factors : Deps[f] \subseteq Live
         /\ \A k \in PriorKeys : BlockIds(PriorAt(k)) = Live \cap Scope(PriorAt(k).holds)
         /\ \A k \in PriorKeys : \A i, j \in 1..Len(PriorAt(k).blocks) :
              PriorAt(k).blocks[i].id = PriorAt(k).blocks[j].id => i = j
         /\ \A p \in 1..NPools :
              /\ Distinct(anchors[p])
              /\ Range(anchors[p]) = UNION {AnchorSet(PriorAt(k), k, p) : k \in PriorKeys}
         /\ GraphSpent = constant /\ GraphPriors = PriorKeys
<1>1. FactorsResolve /\ PriorsExact /\ AnchorsFit /\ RunFits
  BY DEF IInv
<1>2. run = NoRun /\ ~Published /\ run.new = {}
  BY <1>1, IdleFacts
<1>3. GraphStates = Live /\ GraphSpent = constant /\ GraphPriors = PriorKeys
  BY <1>2, UnpublishedGraph
<1>4. \A p \in 1..NPools :
        /\ Distinct(anchors[p])
        /\ Range(anchors[p]) = UNION {AnchorSet(PriorAt(k), k, p) : k \in PriorKeys}
  <2> SUFFICES ASSUME NEW p \in 1..NPools
               PROVE  /\ Distinct(anchors[p])
                      /\ Range(anchors[p]) = UNION {AnchorSet(PriorAt(k), k, p) : k \in PriorKeys}
    OBVIOUS
  <2>1. Distinct(anchors[p]) /\ OldAnchorsFit(p)
    BY <1>1 DEF AnchorsFit
  <2>2. Anchored(p) = PriorKeys
    BY <1>2, NoRunFits
  <2>3. {a \in Range(anchors[p]) : a.prior \notin {}} = Range(anchors[p])
    OBVIOUS
  <2> QED BY ONLY <1>2, <2>1, <2>2, <2>3 DEF OldAnchorsFit
<1> QED BY <1>1, <1>3, <1>4 DEF FactorsResolve, PriorsExact

(* A prior has no more blocks than there are states. *)
LEMMA BlocksFew ==
  ASSUME NEW prior \in Prior,
         \A i, j \in 1..Len(prior.blocks) : prior.blocks[i].id = prior.blocks[j].id => i = j
  PROVE  Len(prior.blocks) <= Cardinality(State) /\ Len(prior.blocks) \in Nat
<1>1. PICK n \in Nat : n = Len(prior.blocks)
  BY BlocksTyped, LenProperties
<1>2. \A i \in 1..n : prior.blocks[i].id \in State
  BY <1>1, BlocksTyped DEF Block
<1> DEFINE f == [i \in 1..n |-> prior.blocks[i].id]
<1>3. f \in Injection(1..n, State)
  BY <1>1, <1>2 DEF Injection, IsInjective
<1> HIDE DEF f
<1>4. IsFiniteSet(State)
  BY GraphData
<1>5. Cardinality(1..n) = n
  BY IntervalSize
<1>6. Cardinality(1..n) <= Cardinality(State)
  BY <1>3, <1>4, FS_Injection
<1> QED BY <1>1, <1>5, <1>6

(* Between calls all references resolve. *)
LEMMA ReferencesDoResolve ==
  ASSUME IInv
  PROVE  ReferencesResolve
<1> SUFFICES ASSUME Idle PROVE ReferencesResolve
  BY DEF ReferencesResolve
<1>1. TypeOK /\ PoolOk(entries) /\ StatesPlaced
  BY DEF IInv
<1>2. \A k \in PriorKeys : BlockIds(PriorAt(k)) \subseteq Live
  BY AtRestFacts
<1>3. ASSUME NEW p \in 1..NPools, NEW a \in Range(anchors[p])
      PROVE  Resolves(entries, a.prior) /\ a.state \in Range(pools[p])
  <2>1. PICK k \in PriorKeys : a \in AnchorSet(PriorAt(k), k, p)
    BY <1>3, AtRestFacts
  <2>2. PICK i \in 1..Len(PriorAt(k).blocks) :
          PoolOf[PriorAt(k).blocks[i].id] = p /\ a = AnchorOf(PriorAt(k), k, i)
    BY <2>1 DEF AnchorSet
  <2>3. a.prior = k /\ a.state = PriorAt(k).blocks[i].id
    BY <2>2 DEF AnchorOf
  <2>4. a.state \in BlockIds(PriorAt(k))
    BY <2>3 DEF BlockIds
  <2>5. a.state \in Live
    BY <2>4, <1>2
  <2>6. a.state \in Range(pools[p])
    BY <1>1, <2>2, <2>3, <2>5, LivePlaced
  <2>7. Resolves(entries, a.prior)
    BY <1>1, <2>3, PriorsTyped
  <2> QED BY <2>6, <2>7
<1> QED BY <1>2, <1>3, AtRestFacts DEF ReferencesResolve, PriorAt

(* Between calls blocks and anchors are in bijection. *)
LEMMA AnchorsDoMatch ==
  ASSUME IInv
  PROVE  AnchorsMatch
<1>1. TypeOK /\ PoolOk(entries)
  BY DEF IInv
<1> DEFINE Place(p, e) == /\ e[2] <= Len(PriorAt(e[1]).blocks)
                         /\ PoolOf[PriorAt(e[1]).blocks[e[2]].id] = p
           Places(p) == {e \in PriorKeys \X (1..Cardinality(State)) : Place(p, e)}
           Put(e) == AnchorOf(PriorAt(e[1]), e[1], e[2])
<1>2. ASSUME Idle, NEW p \in 1..NPools
      PROVE  /\ Len(anchors[p]) = Cardinality(Places(p))
             /\ Range(anchors[p]) = {Put(e) : e \in Places(p)}
  <2>1. /\ Distinct(anchors[p])
        /\ Range(anchors[p]) = UNION {AnchorSet(PriorAt(k), k, p) : k \in PriorKeys}
    BY <1>2, AtRestFacts
  <2>2. \A k \in PriorKeys :
          /\ Len(PriorAt(k).blocks) \in Nat /\ Len(PriorAt(k).blocks) <= Cardinality(State)
          /\ \A i, j \in 1..Len(PriorAt(k).blocks) :
               PriorAt(k).blocks[i].id = PriorAt(k).blocks[j].id => i = j
    BY <1>1, <1>2, AtRestFacts, PriorsTyped, BlocksFew
  <2>3. Cardinality(State) \in Nat
    BY GraphData, FS_CardinalityType
  <2>4. \A a : a \in Range(anchors[p]) <=>
                 \E k \in PriorKeys : \E i \in 1..Len(PriorAt(k).blocks) :
                   PoolOf[PriorAt(k).blocks[i].id] = p /\ a = AnchorOf(PriorAt(k), k, i)
    BY ONLY <2>1 DEF AnchorSet
  <2>5. \A k, i : <<k, i>> \in Places(p) <=>
                    /\ k \in PriorKeys /\ i \in 1..Len(PriorAt(k).blocks)
                    /\ PoolOf[PriorAt(k).blocks[i].id] = p
    BY ONLY <2>2, <2>3
  <2>6. \A e \in Places(p) : \E k, i : e = <<k, i>>
    OBVIOUS
  <2>7. \A k, i : Put(<<k, i>>) = AnchorOf(PriorAt(k), k, i)
    OBVIOUS
  <2> HIDE DEF Places, Put
  <2>8. Range(anchors[p]) = {Put(e) : e \in Places(p)}
    <3>1. ASSUME NEW a \in Range(anchors[p]) PROVE a \in {Put(e) : e \in Places(p)}
      <4>1. PICK k \in PriorKeys : \E i \in 1..Len(PriorAt(k).blocks) :
              PoolOf[PriorAt(k).blocks[i].id] = p /\ a = AnchorOf(PriorAt(k), k, i)
        BY <2>4, <3>1
      <4>2. PICK i \in 1..Len(PriorAt(k).blocks) :
              PoolOf[PriorAt(k).blocks[i].id] = p /\ a = AnchorOf(PriorAt(k), k, i)
        BY <4>1
      <4>3. <<k, i>> \in Places(p) /\ Put(<<k, i>>) = a
        BY ONLY <4>2, <2>5, <2>7, k \in PriorKeys, i \in 1..Len(PriorAt(k).blocks)
      <4> QED BY <4>3
    <3>2. ASSUME NEW e \in Places(p) PROVE Put(e) \in Range(anchors[p])
      <4>1. PICK k, i : e = <<k, i>>
        BY <2>6, <3>2
      <4>2. /\ k \in PriorKeys /\ i \in 1..Len(PriorAt(k).blocks)
            /\ PoolOf[PriorAt(k).blocks[i].id] = p
        BY ONLY <4>1, <3>2, <2>5
      <4> QED BY ONLY <4>1, <4>2, <2>4, <2>7
    <3> QED BY <3>1, <3>2
  <2>9. \A e, d \in Places(p) : Put(e) = Put(d) => e = d
    <3> SUFFICES ASSUME NEW e \in Places(p), NEW d \in Places(p), Put(e) = Put(d) PROVE e = d
      OBVIOUS
    <3>1. PICK k, i : e = <<k, i>>
      BY <2>6
    <3>2. PICK l, j : d = <<l, j>>
      BY <2>6
    <3>3. k = l /\ PriorAt(k).blocks[i].id = PriorAt(l).blocks[j].id
      <4>1. AnchorOf(PriorAt(k), k, i) = AnchorOf(PriorAt(l), l, j)
        BY <3>1, <3>2, <2>7
      <4>2. /\ AnchorOf(PriorAt(k), k, i).prior = k
            /\ AnchorOf(PriorAt(l), l, j).prior = l
            /\ AnchorOf(PriorAt(k), k, i).state = PriorAt(k).blocks[i].id
            /\ AnchorOf(PriorAt(l), l, j).state = PriorAt(l).blocks[j].id
        BY ONLY DEF AnchorOf
      <4> QED BY ONLY <4>1, <4>2
    <3>4. k \in PriorKeys /\ i \in 1..Len(PriorAt(k).blocks) /\ j \in 1..Len(PriorAt(l).blocks)
      BY <3>1, <3>2, <2>5
    <3>5. i = j
      BY ONLY <2>2, <3>3, <3>4
    <3> QED BY <3>1, <3>2, <3>3, <3>5
  <2> DEFINE f == [e \in Places(p) |-> Put(e)]
  <2>10. /\ f \in Injection(Places(p), Range(anchors[p]))
         /\ f \in Surjection(Places(p), Range(anchors[p]))
    BY <2>8, <2>9 DEF Injection, IsInjective, Surjection
  <2> HIDE DEF f
  <2>11. IsFiniteSet(Range(anchors[p])) /\ Cardinality(Range(anchors[p])) = Len(anchors[p])
    BY <1>1, <2>1, PoolsTyped, DistinctCount
  <2>12. Cardinality(Places(p)) = Cardinality(Range(anchors[p]))
    BY <2>10, <2>11, FS_Injection
  <2> QED BY <2>8, <2>11, <2>12
<1>3. \A p : Places(p) = {e \in PriorKeys \X (1..Cardinality(State)) :
                           /\ e[2] <= Len(PoolGet(entries, e[1]).blocks)
                           /\ PoolOf[PoolGet(entries, e[1]).blocks[e[2]].id] = p}
  BY DEF PriorAt
<1>4. \A e : Put(e) = [prior |-> e[1], state |-> PoolGet(entries, e[1]).blocks[e[2]].id,
                       column |-> PoolGet(entries, e[1]).blocks[e[2]].start]
  BY DEF PriorAt, AnchorOf
<1> HIDE DEF Places, Put
<1> QED BY <1>2, <1>3, <1>4, ZenonT(40) DEF AnchorsMatch

(* What may be handed back has its room. *)
LEMMA ReturnsDoFit ==
  ASSUME IInv
  PROVE  ReturnsFit
<1> SUFFICES ASSUME run.new # {} PROVE ReturnsFit
  BY DEF ReturnsFit
<1>1. TypeOK /\ PoolOk(entries) /\ RunFits /\ SpareFits
  BY DEF IInv
<1>2. run.new \subseteq PriorKeys /\ run.absorbed \subseteq RawKey
  <2>1. run.phase \notin {"idle", "collect"}
    BY <1>1 DEF RunFits, NoRun
  <2> QED BY <1>1, <2>1, PendingIsThere DEF TypeOK, Run
<1>3. PICK S : S = {k \in run.absorbed : Resolves(entries, k)} \cup run.new
  OBVIOUS
<1>4. entries \in Pools(Prior) /\ PriorKeys = KeysOf(entries)
  BY <1>1, PriorsTyped
<1>5. \A k : k \in PriorKeys <=> k \in RawKey /\ Resolves(entries, k)
  BY <1>1, <1>4, KeysResolve
<1>6. S = (run.absorbed \cap PriorKeys) \cup run.new
  BY ONLY <1>2, <1>3, <1>5
<1>7. Len(spare.buffers) + Cardinality(S) <= spare.capacity
  BY <1>1, <1>6 DEF SpareFits
<1>8. S \subseteq KeysOf(entries)
  BY <1>2, <1>4, <1>6
<1>9. Len(entries.free_slots) + Cardinality(S) <= entries.free_capacity
  BY <1>1, <1>4, <1>8, SlotsHaveRoom
<1> QED BY <1>3, <1>7, <1>9 DEF ReturnsFit

(* Whatever is removed, marginalized, refused or rolled back, the graph is *)
(* whole: what is named is there, each prior has just its anchors, and     *)
(* what publication or rollback hands back has its room reserved.          *)
(* (Problem, Marginalizer::run, Pending::drop)                             *)
THEOREM GraphStaysWhole == Spec => []GraphInvariant
<1>1. IInv => GraphInvariant
  BY ReferencesDoResolve, AnchorsDoMatch, ReturnsDoFit DEF IInv, GraphInvariant
<1> QED BY <1>1, InvariantHolds, PTL

(* A prior is over just the live states that the factors it replaced       *)
(* depend on, at the end of any chain of marginalizations.                 *)
(* (planning in Marginalizer::run)                                         *)
THEOREM SeparatorsAreExact == Spec => []SeparatorIsExact
<1>1. IInv => SeparatorIsExact
  BY AtRestFacts DEF SeparatorIsExact, PriorAt, Scope
<1> QED BY <1>1, InvariantHolds, PTL

(* No factor is counted twice and none is forgotten: each is itself in the *)
(* objective, or in one prior, or in the constant.                         *)
(* (Marginalizer::run, from collection to publication)                     *)
THEOREM InformationCountsOnce == Spec => []InformationOnce
<1>1. IInv => InformationOnce
  <2> SUFFICES ASSUME IInv, Idle PROVE InformationOnce
    BY DEF InformationOnce
  <2>1. GraphSpent = constant /\ GraphPriors = PriorKeys
    BY AtRestFacts
  <2>2. ToldOnce
    BY DEF IInv
  <2> QED BY <2>1, <2>2 DEF InformationOnce, ToldOnce, Told, PriorAt
<1> QED BY <1>1, InvariantHolds, PTL

(***************************************************************************)
(* Marginalization is atomic.                                              *)
(***************************************************************************)
FactorTerm(f) == [scope |-> Deps[f], tells |-> {f}, prior |-> FALSE]

GraphTerms == {FactorTerm(f) : f \in factors} \cup {PriorTerm(k) : k \in GraphPriors}

GraphReply == IF Published THEN "ok" ELSE result

(* The states, terms, constants and replies that the refinement maps to.   *)
LEMMA GraphUnchanged ==
  ASSUME SameGraph
  PROVE  GraphStates' = GraphStates /\ GraphTerms' = GraphTerms /\ GraphSpent' = GraphSpent
<1>1. \A k \in GraphPriors : PriorTerm(k)' = PriorTerm(k)
  BY DEF SameGraph, PriorTerm, BlockIds
<1>2. GraphPriors' = GraphPriors /\ factors' = factors
  BY DEF SameGraph
<1>3. {FactorTerm(f) : f \in factors}' = {FactorTerm(f) : f \in factors}
  BY <1>2 DEF FactorTerm
<1>4. {PriorTerm(k) : k \in GraphPriors}' = {PriorTerm(k) : k \in GraphPriors}
  BY <1>1, <1>2
<1>5. GraphTerms' = {FactorTerm(f) : f \in factors}' \cup {PriorTerm(k) : k \in GraphPriors}'
  BY DEF GraphTerms
<1> QED BY ONLY <1>3, <1>4, <1>5, SameGraph DEF SameGraph, GraphTerms

(* Where graph and reply stay, nothing is to be seen. *)
LEMMA InformationStutters ==
  ASSUME SameGraph, GraphReply' = GraphReply
  PROVE  UNCHANGED Information!graphVars
<1>1. /\ GraphStates' = GraphStates /\ GraphTerms' = GraphTerms /\ GraphSpent' = GraphSpent
      /\ GraphReply' = GraphReply
  BY GraphUnchanged
<1> QED BY ONLY <1>1
        DEF GraphStates, GraphTerms, GraphSpent, GraphReply, GraphPriors, FactorTerm, PriorAt,
            Information!graphVars

(* Where the graph stays, a refusal is one. *)
LEMMA InformationRefuses ==
  ASSUME SameGraph, GraphReply' = "refused"
  PROVE  Information!Refuse
<1>1. /\ GraphStates' = GraphStates /\ GraphTerms' = GraphTerms /\ GraphSpent' = GraphSpent
      /\ GraphReply' = "refused"
  BY GraphUnchanged
<1> QED BY ONLY <1>1
        DEF GraphStates, GraphTerms, GraphSpent, GraphReply, GraphPriors, FactorTerm, PriorAt,
            Information!Refuse

(* Nothing runs before or after an edit. *)
LEMMA EditGraph ==
  ASSUME IInv, Idle, run' = run
  PROVE  /\ GraphStates = Live /\ GraphStates' = Live'
         /\ GraphPriors = PriorKeys /\ GraphPriors' = PriorKeys'
         /\ GraphSpent = constant /\ GraphSpent' = constant'
         /\ GraphReply = result /\ GraphReply' = result'
<1>1. run = NoRun /\ run' = NoRun /\ run.new = {} /\ run'.new = {} /\ ~Published /\ ~Published'
  BY IdleFacts DEF IInv, NoRun, Published
<1>2. /\ ~Published => GraphStates = Live /\ GraphSpent = constant /\ GraphPriors = PriorKeys \ run.new
      /\ (~Published => GraphStates = Live /\ GraphSpent = constant /\ GraphPriors = PriorKeys \ run.new)'
  BY UnpublishedGraph, PTL
<1> QED BY <1>1, <1>2 DEF GraphReply

(* A state appears. *)
LEMMA AddStateRefines ==
  ASSUME IInv, NEW s \in State, AddState(s)
  PROVE  Information!AddState(s)
<1>1. /\ Idle /\ s \notin issued /\ result' = "ok" /\ factors' = factors /\ entries' = entries
      /\ constant' = constant /\ run' = run
      /\ pools' = [pools EXCEPT ![PoolOf[s]] = Append(@, s)]
  BY DEF AddState, priors
<1>2. TypeOK /\ StatesPlaced
  BY DEF IInv
<1>3. s \notin Live
  BY <1>1, <1>2 DEF StatesPlaced
<1>4. PICK q \in 1..NPools : q = PoolOf[s]
  BY GraphData
<1>5. /\ \A p \in 1..NPools : p # q => pools'[p] = pools[p]
      /\ pools'[q] = Append(pools[q], s)
  BY <1>1, <1>2, <1>4 DEF TypeOK
<1>6. Range(pools'[q]) = Range(pools[q]) \cup {s}
  <2>1. pools[q] \in Seq(State)
    BY <1>2, PoolsTyped
  <2> QED BY <1>5, <2>1, AppendRange
<1>7. Live' = Live \cup {s}
  <2>1. \A x : x \in Live' <=> \E p \in 1..NPools : x \in Range(pools'[p])
    BY DEF Live
  <2>2. \A x : x \in Live <=> \E p \in 1..NPools : x \in Range(pools[p])
    BY DEF Live
  <2> QED BY ONLY <2>1, <2>2, <1>5, <1>6, q \in 1..NPools
<1>8. GraphTerms' = GraphTerms
  <2>1. PriorKeys' = PriorKeys /\ \A k : PriorTerm(k)' = PriorTerm(k)
    BY <1>1 DEF PriorKeys, PriorTerm, BlockIds
  <2>2. GraphPriors' = GraphPriors
    BY <1>1, <2>1, EditGraph
  <2>3. {FactorTerm(f) : f \in factors}' = {FactorTerm(f) : f \in factors}
    BY <1>1 DEF FactorTerm
  <2> QED BY <2>1, <2>2, <2>3 DEF GraphTerms
<1>9. /\ s \notin GraphStates /\ GraphStates' = GraphStates \cup {s} /\ GraphReply' = "ok"
      /\ GraphTerms' = GraphTerms /\ GraphSpent' = GraphSpent
  BY <1>1, <1>3, <1>7, <1>8, EditGraph
<1> QED BY ONLY <1>9
        DEF GraphStates, GraphTerms, GraphSpent, GraphReply, GraphPriors, FactorTerm, PriorAt,
            Information!AddState

(* An edit of the factors. *)
LEMMA FactorEditGraph ==
  ASSUME IInv, Idle, pools' = pools, entries' = entries, constant' = constant, run' = run
  PROVE  /\ GraphStates' = GraphStates /\ GraphSpent' = GraphSpent /\ GraphPriors' = GraphPriors
         /\ GraphStates = Live /\ GraphReply' = result'
         /\ GraphTerms' = {FactorTerm(f) : f \in factors'} \cup {PriorTerm(k) : k \in GraphPriors}
         /\ factors' = factors => GraphTerms' = GraphTerms
<1>1. PriorKeys' = PriorKeys /\ Live' = Live /\ \A k : PriorTerm(k)' = PriorTerm(k)
  BY DEF PriorKeys, Live, PriorTerm, BlockIds
<1>2. /\ GraphStates' = GraphStates /\ GraphSpent' = GraphSpent /\ GraphPriors' = GraphPriors
      /\ GraphStates = Live /\ GraphReply' = result'
  BY <1>1, EditGraph
<1>3. {FactorTerm(f) : f \in factors}' = {FactorTerm(f) : f \in factors'}
  BY DEF FactorTerm
<1>4. GraphTerms' = {FactorTerm(f) : f \in factors'} \cup {PriorTerm(k) : k \in GraphPriors}
  BY <1>1, <1>2, <1>3 DEF GraphTerms
<1> QED BY <1>2, <1>4 DEF GraphTerms

(* A refused edit changes nothing. *)
LEMMA EditRefused ==
  ASSUME IInv, Idle, pools' = pools, entries' = entries, constant' = constant, run' = run,
         factors' = factors, result' = "refused"
  PROVE  Information!Refuse
<1>1. /\ GraphStates' = GraphStates /\ GraphTerms' = GraphTerms /\ GraphSpent' = GraphSpent
      /\ GraphReply' = "refused"
  BY FactorEditGraph
<1> QED BY ONLY <1>1
        DEF GraphStates, GraphTerms, GraphSpent, GraphReply, GraphPriors, FactorTerm, PriorAt,
            Information!Refuse

(* A term appears, of a factor that no other term tells of. *)
LEMMA AddFactorRefines ==
  ASSUME IInv, NEW f \in Factor, AddFactor(f)
  PROVE  Information!AddFactor(f, Deps[f]) \/ Information!Refuse
<1>1. /\ Idle /\ f \notin issued /\ pools' = pools /\ entries' = entries
      /\ constant' = constant /\ run' = run
  BY DEF AddFactor, priors
<1>2. CASE ~(Deps[f] \subseteq Live)
  BY <1>1, <1>2, EditRefused DEF AddFactor
<1>3. CASE Deps[f] \subseteq Live
  <2>1. factors' = factors \cup {f} /\ result' = "ok"
    BY <1>3 DEF AddFactor
  <2>2. /\ GraphStates' = GraphStates /\ GraphSpent' = GraphSpent /\ GraphPriors' = GraphPriors
        /\ GraphStates = Live /\ GraphReply' = "ok"
        /\ GraphTerms' = {FactorTerm(g) : g \in factors'} \cup {PriorTerm(k) : k \in GraphPriors}
    BY <1>1, <2>1, FactorEditGraph
  <2>3. GraphTerms' = GraphTerms \cup {FactorTerm(f)}
    BY ONLY <2>1, <2>2 DEF GraphTerms
  <2>4. f \notin told
    BY <1>1 DEF IInv, TellersIssued
  <2>5. f \notin factors /\ f \notin GraphSpent /\ \A k \in GraphPriors : f \notin PriorAt(k).holds
    BY <2>4 DEF IInv, ToldOnce, Told
  <2>6. \A t \in GraphTerms : f \notin t.tells
    <3> SUFFICES ASSUME NEW t \in GraphTerms PROVE f \notin t.tells
      OBVIOUS
    <3>1. CASE \E g \in factors : t = FactorTerm(g)
      BY <3>1, <2>5 DEF FactorTerm
    <3>2. CASE \E k \in GraphPriors : t = PriorTerm(k)
      BY <3>2, <2>5 DEF PriorTerm, PriorAt
    <3> QED BY <3>1, <3>2 DEF GraphTerms
  <2>7. /\ Deps[f] \subseteq GraphStates
        /\ f \notin GraphSpent /\ \A t \in GraphTerms : f \notin t.tells
        /\ GraphTerms' = GraphTerms \cup {[scope |-> Deps[f], tells |-> {f}, prior |-> FALSE]}
        /\ GraphReply' = "ok"
        /\ GraphStates' = GraphStates /\ GraphSpent' = GraphSpent
    BY <1>3, <2>2, <2>3, <2>5, <2>6 DEF FactorTerm
  <2>8. Information!AddFactor(f, Deps[f])
    BY ONLY <2>7
       DEF GraphStates, GraphTerms, GraphSpent, GraphReply, GraphPriors, FactorTerm, PriorAt,
           Information!AddFactor, Information!Ordinary
  <2> QED BY <2>8
<1> QED BY <1>2, <1>3

(* Just the term of the factor goes; no prior is one. *)
LEMMA RemoveFactorRefines ==
  ASSUME IInv, NEW f \in Factor, RemoveFactor(f)
  PROVE  Information!RemoveFactor(f) \/ Information!Refuse
<1>1. /\ Idle /\ pools' = pools /\ entries' = entries
      /\ constant' = constant /\ run' = run
  BY DEF RemoveFactor, priors
<1>2. CASE f \notin factors
  BY <1>1, <1>2, EditRefused DEF RemoveFactor
<1>3. CASE f \in factors
  <2>1. factors' = factors \ {f} /\ result' = "ok"
    BY <1>3 DEF RemoveFactor
  <2>2. /\ GraphStates' = GraphStates /\ GraphSpent' = GraphSpent /\ GraphPriors' = GraphPriors
        /\ GraphReply' = "ok"
        /\ GraphTerms' = {FactorTerm(g) : g \in factors'} \cup {PriorTerm(k) : k \in GraphPriors}
    BY <1>1, <2>1, FactorEditGraph
  <2>3. \A g : FactorTerm(g) = FactorTerm(f) => g = f
    <3>1. \A g : FactorTerm(g).tells = {g}
      BY DEF FactorTerm
    <3> QED BY <3>1
  <2>4. \A k : PriorTerm(k) # FactorTerm(f)
    <3>1. FactorTerm(f).prior = FALSE /\ \A k : PriorTerm(k).prior = TRUE
      BY DEF FactorTerm, PriorTerm
    <3> QED BY <3>1
  <2>5. GraphTerms' = GraphTerms \ {FactorTerm(f)}
    BY ONLY <2>1, <2>2, <2>3, <2>4 DEF GraphTerms
  <2>6. FactorTerm(f) \in GraphTerms /\ ~FactorTerm(f).prior /\ FactorTerm(f).tells = {f}
    BY <1>3 DEF GraphTerms, FactorTerm
  <2>7. \E t \in GraphTerms : /\ ~t.prior /\ t.tells = {f}
                              /\ GraphTerms' = GraphTerms \ {t}
                              /\ GraphReply' = "ok"
                              /\ GraphStates' = GraphStates /\ GraphSpent' = GraphSpent
    BY ONLY <2>2, <2>5, <2>6
  <2>8. Information!RemoveFactor(f)
    BY ONLY <2>7
       DEF GraphStates, GraphTerms, GraphSpent, GraphReply, GraphPriors, FactorTerm, PriorAt,
           Information!RemoveFactor
  <2> QED BY <2>8
<1> QED BY <1>2, <1>3

(* A call returns at once, or begins and nothing is to be seen of it yet.  *)
LEMMA CallRefines ==
  ASSUME IInv, NEW R \in SUBSET State, Marginalize(R)
  PROVE  \/ Information!Marginalize({})
         \/ Information!Refuse
         \/ UNCHANGED Information!graphVars
<1>1. SameGraph
  BY MarginalizeFits
<1>2. /\ GraphStates' = GraphStates /\ GraphTerms' = GraphTerms /\ GraphSpent' = GraphSpent
  BY <1>1, GraphUnchanged
<1>3. Idle /\ ~Published /\ GraphReply = result
  <2>1. Idle /\ RunFits
    BY DEF Marginalize, IInv
  <2> QED BY <2>1, IdleFacts DEF GraphReply
<1>4. CASE run' = run
  <2>1. GraphReply' = result' /\ result' \in {"ok", "refused"}
    BY <1>3, <1>4, EditGraph DEF Marginalize, Plan, NoRun, Idle
  <2>2. CASE result' = "refused"
    BY <1>1, <2>1, <2>2, InformationRefuses
  <2>3. CASE result' = "ok"
    <3>1. {} \subseteq GraphStates /\ GraphReply' = "ok"
      BY <2>1, <2>3
    <3>2. {t \in GraphTerms : t.scope \cap {} # {}} = {}
      OBVIOUS
    <3>3. /\ GraphStates' = GraphStates \ {}
          /\ GraphTerms' = GraphTerms \ {t \in GraphTerms : t.scope \cap {} # {}}
          /\ GraphSpent' = GraphSpent \cup UNION {t.tells : t \in {u \in GraphTerms : u.scope \cap {} # {}}}
      BY ONLY <1>2, <3>2
    <3>4. Information!Marginalize({})
      BY ONLY <3>1, <3>3
         DEF GraphStates, GraphTerms, GraphSpent, GraphReply, GraphPriors, FactorTerm, PriorAt,
             Information!Marginalize
    <3> QED BY <3>4
  <2> QED BY <2>1, <2>2, <2>3
<1>5. CASE Plan(R) /\ result' = result
  <2>1. ~Published'
    BY <1>5 DEF Plan, NoRun, Published
  <2>2. GraphReply' = GraphReply
    BY <1>3, <1>5, <2>1 DEF GraphReply
  <2> QED BY <1>1, <2>2, InformationStutters
<1> QED BY <1>4, <1>5 DEF Marginalize

(* The terms of the front. *)
LEMMA FrontTerms ==
  ASSUME IInv, ~Published, Planned, run.new = {New}, NEW merged,
         merged = {t \in GraphTerms : t.scope \cap run.remove # {}}
  PROVE  /\ merged = {FactorTerm(f) : f \in run.affected} \cup {PriorTerm(k) : k \in run.absorbed}
         /\ UNION {t.scope : t \in merged} = Touched
         /\ UNION {t.tells : t \in merged} = Tells
         /\ GraphTerms \ merged = {FactorTerm(f) : f \in factors \ run.affected}
                                    \cup {PriorTerm(k) : k \in GraphPriors \ run.absorbed}
<1>1. GraphPriors = PriorKeys \ run.new
  BY UnpublishedGraph
<1>2. \A f : f \in run.affected <=> f \in factors /\ Deps[f] \cap run.remove # {}
  BY DEF Planned, Touching
<1>3. \A k : k \in run.absorbed <=> k \in GraphPriors /\ BlockIds(PoolGet(entries, k)) \cap run.remove # {}
  BY <1>1 DEF Planned, PriorAt
<1>4. \A f : FactorTerm(f).scope = Deps[f] /\ FactorTerm(f).tells = {f}
  BY DEF FactorTerm
<1>5. \A k : /\ PriorTerm(k).scope = BlockIds(PoolGet(entries, k))
             /\ PriorTerm(k).tells = PoolGet(entries, k).holds
  BY DEF PriorTerm
<1>6. \A t : t \in GraphTerms <=> \/ \E f \in factors : t = FactorTerm(f)
                                  \/ \E k \in GraphPriors : t = PriorTerm(k)
  BY DEF GraphTerms
<1>7. \A t : t \in merged <=> \/ \E f \in run.affected : t = FactorTerm(f)
                              \/ \E k \in run.absorbed : t = PriorTerm(k)
  BY ONLY <1>2, <1>3, <1>4, <1>5, <1>6, merged = {t \in GraphTerms : t.scope \cap run.remove # {}}
<1>8. \A t : t \in GraphTerms \ merged <=> \/ \E f \in factors \ run.affected : t = FactorTerm(f)
                                           \/ \E k \in GraphPriors \ run.absorbed : t = PriorTerm(k)
  BY ONLY <1>2, <1>3, <1>4, <1>5, <1>6, merged = {t \in GraphTerms : t.scope \cap run.remove # {}}
<1>9. UNION {t.scope : t \in merged} = Touched
  <2>1. \A s : s \in Touched <=> \/ \E f \in run.affected : s \in Deps[f]
                                 \/ \E k \in run.absorbed : s \in BlockIds(PoolGet(entries, k))
    BY DEF Touched
  <2>2. \A s : s \in UNION {t.scope : t \in merged} <=> \E t \in merged : s \in t.scope
    OBVIOUS
  <2> QED BY ONLY <1>4, <1>5, <1>7, <2>1, <2>2
<1>10. UNION {t.tells : t \in merged} = Tells
  <2>1. \A g : g \in Tells <=> \/ g \in run.affected
                               \/ \E k \in run.absorbed : g \in PoolGet(entries, k).holds
    BY DEF Tells
  <2>2. \A g : g \in UNION {t.tells : t \in merged} <=> \E t \in merged : g \in t.tells
    OBVIOUS
  <2> QED BY ONLY <1>4, <1>5, <1>7, <2>1, <2>2
<1>11. merged = {FactorTerm(f) : f \in run.affected} \cup {PriorTerm(k) : k \in run.absorbed}
  BY ONLY <1>7
<1>12. GraphTerms \ merged = {FactorTerm(f) : f \in factors \ run.affected}
                               \cup {PriorTerm(k) : k \in GraphPriors \ run.absorbed}
  BY ONLY <1>8
<1> QED BY <1>9, <1>10, <1>11, <1>12

(* The first step of publication is where a marginalization takes effect.  *)
LEMMA DeleteFactorsRefines ==
  ASSUME IInv, DeleteFactors
  PROVE  \E R \in SUBSET State : R = run.remove /\ Information!Marginalize(R)
<1>1. /\ ~Published /\ Published' /\ Planned /\ Replaces
      /\ New \in PriorKeys /\ run.new = {New} /\ New \notin run.absorbed
      /\ GraphStates = Live /\ GraphStates' = Live \ run.remove
      /\ GraphPriors = PriorKeys \ {New}
      /\ GraphPriors' = (GraphPriors \ run.absorbed) \cup IF run.rows > 0 THEN {New} ELSE {}
      /\ GraphSpent = constant
      /\ GraphSpent' = constant \cup IF run.rows = 0 THEN Tells ELSE {}
      /\ factors' = factors \ run.affected
      /\ \A k : PriorAt(k)' = PriorAt(k)
  BY PublicationGraph
<1>2. PICK merged : merged = {t \in GraphTerms : t.scope \cap run.remove # {}}
  OBVIOUS
<1>3. /\ UNION {t.scope : t \in merged} = Touched
      /\ UNION {t.tells : t \in merged} = Tells
      /\ GraphTerms \ merged = {FactorTerm(f) : f \in factors \ run.affected}
                                 \cup {PriorTerm(k) : k \in GraphPriors \ run.absorbed}
  BY <1>1, <1>2, FrontTerms
<1>4. PICK scope : scope = Touched \ run.remove
  OBVIOUS
<1>5. /\ BlockIds(PriorAt(New)) = scope /\ BlockIds(PriorAt(New)) = Range(Separator)
      /\ PriorAt(New).holds = Tells
  BY <1>1, <1>4, ReplacementExact
<1>6. GraphReply' = "ok"
  BY <1>1 DEF GraphReply
<1>7. \A k : PriorTerm(k)' = PriorTerm(k)
  BY <1>1 DEF PriorTerm, PriorAt, BlockIds
<1>8. GraphTerms' = {FactorTerm(f) : f \in factors \ run.affected} \cup {PriorTerm(k) : k \in GraphPriors'}
  <2>1. {FactorTerm(f) : f \in factors}' = {FactorTerm(f) : f \in factors \ run.affected}
    BY <1>1 DEF FactorTerm
  <2> QED BY <1>7, <2>1 DEF GraphTerms
<1>9. run.remove \subseteq GraphStates /\ GraphStates' = GraphStates \ run.remove
  BY <1>1 DEF Planned
<1>10. \/ /\ scope # {}
          /\ GraphTerms' = (GraphTerms \ merged) \cup {[scope |-> scope, tells |-> Tells, prior |-> TRUE]}
          /\ GraphSpent' = GraphSpent
       \/ /\ GraphTerms' = GraphTerms \ merged
          /\ GraphSpent' = GraphSpent \cup Tells
  <2>1. run.rows \in 0..1
    BY DEF IInv, TypeOK, Run
  <2>2. CASE run.rows = 0
    <3>1. ~(run.rows > 0)
      BY ONLY <2>2
    <3> QED BY ONLY <1>1, <1>3, <1>8, <2>2, <3>1
  <2>3. CASE run.rows # 0
    <3>1. run.rows > 0
      BY ONLY <2>1, <2>3
    <3>2. GraphPriors' = (GraphPriors \ run.absorbed) \cup {New} /\ GraphSpent' = GraphSpent
      BY ONLY <1>1, <2>3, <3>1
    <3>3. PriorTerm(New) = [scope |-> scope, tells |-> Tells, prior |-> TRUE]
      BY <1>5 DEF PriorTerm, PriorAt
    <3>4. scope # {}
      <4>1. Separator # <<>>
        BY <1>1, <3>1 DEF Replaces
      <4>2. Separator \in Seq(State)
        <5>1. run.layout \in Seq(State) /\ run.remove \subseteq State /\ LayoutFits
          BY <1>1, RunTyped DEF IInv, TypeOK, Planned
        <5> QED BY <5>1, SeparatorProperties
      <4>3. Len(Separator) \in Nat /\ Len(Separator) # 0
        BY <4>1, <4>2, EmptySeq, LenProperties
      <4>4. Separator[1] \in Range(Separator)
        BY <4>2, <4>3, InRange
      <4> QED BY <4>4, <1>5
    <3>5. GraphTerms' = (GraphTerms \ merged) \cup {[scope |-> scope, tells |-> Tells, prior |-> TRUE]}
      BY ONLY <1>3, <1>8, <3>2, <3>3
    <3> QED BY <3>2, <3>4, <3>5
  <2> QED BY <2>2, <2>3
<1>11. PICK R \in SUBSET State : R = run.remove
  BY DEF IInv, TypeOK, Run
<1>12. PICK front : front = {t \in GraphTerms : t.scope \cap R # {}}
  OBVIOUS
<1>13. /\ R \subseteq GraphStates /\ GraphReply' = "ok" /\ GraphStates' = GraphStates \ R
       /\ \/ /\ (UNION {t.scope : t \in front}) \ R # {}
             /\ GraphTerms' = (GraphTerms \ front)
                                \cup {[scope |-> (UNION {t.scope : t \in front}) \ R,
                                       tells |-> UNION {t.tells : t \in front}, prior |-> TRUE]}
             /\ GraphSpent' = GraphSpent
          \/ /\ GraphTerms' = GraphTerms \ front
             /\ GraphSpent' = GraphSpent \cup UNION {t.tells : t \in front}
  BY ONLY <1>2, <1>3, <1>4, <1>6, <1>9, <1>10, <1>11, <1>12
<1>14. Information!Marginalize(R)
  BY ONLY <1>12, <1>13
     DEF GraphStates, GraphTerms, GraphSpent, GraphReply, GraphPriors, FactorTerm, PriorAt,
         Information!Marginalize
<1> QED BY <1>11, <1>14

(* What a caller can see of the other steps. *)
LEMMA StepReplies ==
  ASSUME IInv, Step, ~DeleteFactors
  PROVE  GraphReply' \in {GraphReply, "refused"}
<1>1. run \in Run
  BY DEF IInv, TypeOK
<1>2. CASE CollectFails \/ InsertPanics
  BY <1>2 DEF CollectFails, InsertPanics, GraphReply, Published, NoRun
<1>3. CASE InsertPending
  <2>1. run.phase = "collect" /\ run'.phase = "reduce" /\ result' = result
    BY <1>1, <1>3 DEF InsertPending, Run
  <2> QED BY <2>1 DEF GraphReply, Published
<1>4. CASE Reduce
  <2>1. run.phase = "reduce" /\ run'.phase \in {"capture", "delete_factors"} /\ result' = result
    BY <1>1, <1>4 DEF Reduce, Run
  <2> QED BY <2>1 DEF GraphReply, Published
<1>5. CASE ReduceFails \/ CaptureFails
  <2>1. run'.phase = "rollback" /\ result' = "refused"
    BY <1>1, <1>5 DEF ReduceFails, CaptureFails, Run
  <2> QED BY <2>1 DEF GraphReply, Published
<1>6. CASE CaptureAnchors
  <2>1. run.phase = "capture" /\ run'.phase \in {"capture", "delete_factors"} /\ result' = result
    BY <1>1, <1>6 DEF CaptureAnchors, Run
  <2> QED BY <2>1 DEF GraphReply, Published
<1>7. CASE Rollback
  <2>1. run.phase = "rollback" /\ run'.phase = "idle" /\ result' = result
    BY <1>7 DEF Rollback, NoRun
  <2> QED BY <2>1 DEF GraphReply, Published
<1>8. CASE DeleteStates
  <2>1. run.phase = "delete_states" /\ run'.phase \in {"delete_states", "delete_priors"}
    BY <1>1, <1>8 DEF DeleteStates, Run
  <2> QED BY <2>1 DEF GraphReply, Published
<1>9. CASE DeletePrior
  <2>1. run.phase = "delete_priors" /\ run'.phase = "delete_priors"
    BY <1>1, <1>9 DEF DeletePrior, Run
  <2> QED BY <2>1 DEF GraphReply, Published
<1>10. CASE Publish
  <2>1. run.phase = "delete_priors" /\ run'.phase = "idle" /\ result' = "ok"
    BY <1>10 DEF Publish, NoRun
  <2> QED BY <2>1 DEF GraphReply, Published
<1> QED BY <1>2, <1>3, <1>4, <1>5, <1>6, <1>7, <1>8, <1>9, <1>10 DEF Step

(* Every step is a step of the abstract graph, or nothing to be seen. *)
LEMMA NextRefines == IInv /\ [Next]_vars => [Information!Next]_(Information!graphVars)
<1> SUFFICES ASSUME IInv, [Next]_vars
             PROVE  Information!Next \/ UNCHANGED Information!graphVars
  OBVIOUS
<1>1. CASE \E s \in State : AddState(s)
  BY <1>1, AddStateRefines DEF Information!Next
<1>2. CASE \E f \in Factor : AddFactor(f) \/ RemoveFactor(f)
  <2>1. PICK f \in Factor : AddFactor(f) \/ RemoveFactor(f)
    BY <1>2
  <2>2. Deps[f] \in SUBSET State
    BY GraphData
  <2>3. \/ Information!AddFactor(f, Deps[f]) \/ Information!RemoveFactor(f)
        \/ Information!Refuse
    BY <2>1, AddFactorRefines, RemoveFactorRefines
  <2> QED BY <2>2, <2>3 DEF Information!Next
<1>3. CASE \E R \in SUBSET State : Marginalize(R)
  <2>1. \/ Information!Marginalize({}) \/ Information!Refuse
        \/ UNCHANGED Information!graphVars
    BY <1>3, CallRefines
  <2>2. {} \in SUBSET State
    OBVIOUS
  <2> QED BY <2>1, <2>2 DEF Information!Next
<1>4. CASE DeleteFactors
  BY <1>4, DeleteFactorsRefines DEF Information!Next
<1>5. CASE Step /\ ~DeleteFactors
  <2>1. SameGraph /\ GraphReply' \in {GraphReply, "refused"}
    BY <1>5, StepFits, StepReplies
  <2>2. CASE GraphReply' = GraphReply
    BY <2>1, <2>2, InformationStutters
  <2>3. CASE GraphReply' = "refused"
    BY <2>1, <2>3, InformationRefuses DEF Information!Next
  <2> QED BY <2>1, <2>2, <2>3
<1>6. CASE UNCHANGED vars
  <2>1. /\ pools' = pools /\ factors' = factors /\ entries' = entries
        /\ constant' = constant /\ run' = run /\ result' = result
    BY <1>6 DEF vars, graph, priors, history
  <2> QED BY <2>1 DEF Information!graphVars, Live, Published, PriorTerm, PriorKeys, PriorInGraph,
                      New, BlockIds
<1> QED BY <1>1, <1>2, <1>3, <1>4, <1>5, <1>6 DEF Next

(* Marginalization is atomic: a caller sees the graph as it was until all  *)
(* of a call's effect is there at once, and one that ends in an error or a *)
(* panic has changed nothing.                                              *)
(* (Marginalizer::run, Pending; solver.rs:289)                             *)
THEOREM MarginalizationIsAtomic == Spec => RefinesInformationGraph
<1>1. Init => Information!Init
  <2> SUFFICES ASSUME Init PROVE Information!Init
    OBVIOUS
  <2>1. /\ pools = [p \in 1..NPools |-> <<>>] /\ factors = {} /\ entries = EmptyPool(PriorsId)
        /\ constant = {} /\ run = NoRun /\ result = "ok"
    BY DEF Init
  <2>2. PriorKeys = {} /\ Live = {}
    BY <2>1 DEF PriorKeys, Live, EmptyPool, Range
  <2>3. ~Published
    BY <2>1, NoRunFits
  <2> QED BY <2>1, <2>2, <2>3 DEF Information!Init
<1> QED BY <1>1, NextRefines, InvariantHolds, PTL DEF Spec, Information!Spec, RefinesInformationGraph
=============================================================================
