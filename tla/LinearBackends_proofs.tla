------------------------- MODULE LinearBackends_proofs -------------------------
(***************************************************************************)
(* What holds of the linear backends for every prime, every set of         *)
(* emissions and every dimension.  First what sums are, which the library  *)
(* defines by recursion over a set; then arithmetic modulo P; then what    *)
(* the rows of an emission add to the normal equations; and with it the    *)
(* invariants of the backends and the steps by which they implement        *)
(* LinearBackend.                                                          *)
(***************************************************************************)
EXTENDS LinearBackends, FiniteSetTheorems, SequenceTheorems, WellFoundedInduction, TLAPS

LEMMA SetInduction ==
  ASSUME NEW S, 0 \in S, \A n \in Nat : n \in S => n + 1 \in S
  PROVE  Nat \subseteq S
<1> DEFINE T == Nat \ S
           R == OpToRel(<, Nat)
<1> SUFFICES ASSUME T # {} PROVE FALSE
  OBVIOUS
<1>1. IsWellFoundedOn(R, Nat)
  BY NatLessThanWellFounded
<1>2. T \subseteq Nat
  OBVIOUS
<1> HIDE DEF T, R
<1>3. \E x \in T : \A y \in T : ~ (<<y, x>> \in R)
  BY <1>1, <1>2, WFMin
<1>4. PICK x \in T : \A y \in T : ~ (<<y, x>> \in R)
  BY <1>3
<1>5. x \in Nat /\ x # 0
  BY <1>2 DEF T
<1>6. x - 1 \in Nat /\ x - 1 + 1 = x
  BY <1>5
<1>7. <<x - 1, x>> \in R
  BY <1>5, <1>6 DEF R, OpToRel
<1>8. x - 1 \notin T
  BY <1>4, <1>7
<1> QED BY <1>8, <1>6 DEF T

(* The member of a set that a sum takes first. *)
First(S) == CHOOSE x \in S : TRUE

(* g is the sum of f over each part of D. *)
SumsUp(g, f, D) ==
  /\ g \in [SUBSET D -> Int]
  /\ g[{}] = 0
  /\ \A T \in SUBSET D : T # {} => g[T] = f[First(T)] + g[T \ {First(T)}]

LEMMA FirstIsIn == ASSUME NEW S, S # {} PROVE First(S) \in S
BY DEF First

LEMMA SizeLess ==
  ASSUME NEW D, IsFiniteSet(D), NEW T \in SUBSET D, NEW x \in T
  PROVE  /\ IsFiniteSet(T) /\ Cardinality(T) \in Nat /\ T \ {x} \in SUBSET D
         /\ Cardinality(T) = Cardinality(T \ {x}) + 1 /\ Cardinality(T \ {x}) \in Nat
<1>1. IsFiniteSet(T)
  BY FS_Subset
<1>2. Cardinality(T \ {x}) = Cardinality(T) - 1
  BY <1>1, FS_RemoveElement
<1>3. Cardinality(T) \in Nat /\ IsFiniteSet(T \ {x}) /\ Cardinality(T \ {x}) \in Nat
  BY <1>1, FS_CardinalityType, FS_RemoveElement
<1> QED BY <1>1, <1>2, <1>3

LEMMA SizeZero ==
  ASSUME NEW U, IsFiniteSet(U), Cardinality(U) <= 0
  PROVE  U = {}
BY FS_CardinalityType, FS_EmptySet

(* The recursion that a sum is defined by has a solution. *)
LEMMA SumsExist ==
  ASSUME NEW D, IsFiniteSet(D), NEW f \in [D -> Int]
  PROVE  \E g : SumsUp(g, f, D)
<1> DEFINE Upto(n) == {T \in SUBSET D : Cardinality(T) <= n}
           Rec(g, n) == \A T \in Upto(n) :
                          g[T] = IF T = {} THEN 0 ELSE f[First(T)] + g[T \ {First(T)}]
           S == {n \in Nat : \E g \in [Upto(n) -> Int] : Rec(g, n)}
<1>1. 0 \in S
  <2> DEFINE g == [T \in Upto(0) |-> 0]
  <2>1. ASSUME NEW T \in Upto(0) PROVE T = {}
    <3>1. IsFiniteSet(T) /\ Cardinality(T) \in Nat
      BY FS_Subset, FS_CardinalityType
    <3>2. Cardinality(T) = 0
      BY <3>1
    <3> QED BY <3>1, <3>2, FS_EmptySet
  <2>2. g \in [Upto(0) -> Int] /\ Rec(g, 0)
    BY <2>1
  <2> QED BY <2>2
<1>2. ASSUME NEW n \in Nat, n \in S PROVE n + 1 \in S
  <2>1. PICK h \in [Upto(n) -> Int] : Rec(h, n)
    BY <1>2
  <2> DEFINE g == [T \in Upto(n + 1) |-> IF T = {} THEN 0 ELSE f[First(T)] + h[T \ {First(T)}]]
  <2>2. ASSUME NEW T \in Upto(n + 1), T # {}
        PROVE  First(T) \in T /\ First(T) \in D /\ T \ {First(T)} \in Upto(n)
    BY <2>2, FirstIsIn, SizeLess
  <2>3. g \in [Upto(n + 1) -> Int]
    BY <2>2
  <2>4. ASSUME NEW T \in Upto(n) PROVE T \in Upto(n + 1) /\ g[T] = h[T]
    <3>1. IsFiniteSet(T) /\ Cardinality(T) \in Nat
      BY FS_Subset, FS_CardinalityType
    <3>2. T \in Upto(n + 1)
      BY <3>1
    <3> QED BY <3>2, <2>1
  <2>5. Rec(g, n + 1)
    <3> SUFFICES ASSUME NEW T \in Upto(n + 1)
                 PROVE  g[T] = IF T = {} THEN 0 ELSE f[First(T)] + g[T \ {First(T)}]
      OBVIOUS
    <3> HIDE DEF Upto
    <3>1. T # {} => g[T \ {First(T)}] = h[T \ {First(T)}]
      BY <2>2, <2>4
    <3> QED BY <3>1
  <2> HIDE DEF g, Rec, Upto
  <2> QED BY <2>3, <2>5
<1> HIDE DEF S
<1>3. Cardinality(D) \in S
  BY <1>1, <1>2, SetInduction, FS_CardinalityType
<1>4. PICK g \in [Upto(Cardinality(D)) -> Int] : Rec(g, Cardinality(D))
  BY <1>3 DEF S
<1>5. Upto(Cardinality(D)) = SUBSET D
  <2>1. \A T \in SUBSET D : Cardinality(T) <= Cardinality(D)
    BY FS_Subset
  <2> QED BY <2>1
<1>6. SumsUp(g, f, D)
  <2>1. {} \in SUBSET D
    OBVIOUS
  <2> QED BY <1>4, <1>5, <2>1 DEF SumsUp
<1> QED BY <1>6

(* Whatever member it takes first, the sum is the same. *)
LEMMA SumsAnyFirst ==
  ASSUME NEW D, IsFiniteSet(D), NEW f \in [D -> Int], NEW g, SumsUp(g, f, D),
         NEW T \in SUBSET D, NEW x \in T
  PROVE  g[T] = f[x] + g[T \ {x}]
<1> DEFINE Holds(n) == \A U \in SUBSET D : Cardinality(U) <= n =>
                         \A y \in U : g[U] = f[y] + g[U \ {y}]
           S == {n \in Nat : Holds(n)}
<1>1. 0 \in S
  <2>1. ASSUME NEW U \in SUBSET D, NEW y \in U PROVE ~ (Cardinality(U) <= 0)
    <3>1. U # {} /\ IsFiniteSet(U)
      BY FS_Subset
    <3> QED BY <3>1, SizeZero
  <2> QED BY <2>1
<1>2. ASSUME NEW n \in Nat, n \in S PROVE n + 1 \in S
  <2> SUFFICES ASSUME NEW U \in SUBSET D, Cardinality(U) <= n + 1, NEW y \in U
               PROVE  g[U] = f[y] + g[U \ {y}]
    OBVIOUS
  <2> DEFINE c == First(U)
  <2>1. c \in U /\ g[U] = f[c] + g[U \ {c}]
    BY FirstIsIn DEF SumsUp
  <2> HIDE DEF c
  <2>2. CASE c = y
    BY <2>1, <2>2
  <2>3. CASE c # y
    <3>1. /\ U \ {c} \in SUBSET D /\ Cardinality(U \ {c}) <= n /\ y \in U \ {c}
          /\ U \ {y} \in SUBSET D /\ Cardinality(U \ {y}) <= n /\ c \in U \ {y}
      BY <2>1, <2>3, SizeLess
    <3>2. g[U \ {c}] = f[y] + g[(U \ {c}) \ {y}]
      BY <3>1, <1>2
    <3>3. g[U \ {y}] = f[c] + g[(U \ {y}) \ {c}]
      BY <3>1, <1>2
    <3>4. (U \ {c}) \ {y} = (U \ {y}) \ {c} /\ (U \ {c}) \ {y} \in SUBSET D
      OBVIOUS
    <3>5. /\ f[y] \in Int /\ f[c] \in Int /\ g[(U \ {c}) \ {y}] \in Int
      BY <2>1, <3>4 DEF SumsUp
    <3>6. g[U] = f[c] + (f[y] + g[(U \ {c}) \ {y}])
      BY <2>1, <3>2
    <3>7. f[y] + g[U \ {y}] = f[y] + (f[c] + g[(U \ {c}) \ {y}])
      BY <3>3, <3>4
    <3>8. f[c] + (f[y] + g[(U \ {c}) \ {y}]) = f[y] + (f[c] + g[(U \ {c}) \ {y}])
      BY ONLY <3>5
    <3> QED BY <3>6, <3>7, <3>8
  <2> QED BY <2>2, <2>3
<1> HIDE DEF S
<1>3. Cardinality(T) \in Nat
  BY SizeLess
<1>4. Cardinality(T) \in S
  BY <1>1, <1>2, <1>3, SetInduction
<1> QED BY <1>3, <1>4 DEF S

(* There is only one such function. *)
LEMMA SumsUnique ==
  ASSUME NEW D, IsFiniteSet(D), NEW f \in [D -> Int], NEW g, SumsUp(g, f, D),
         NEW E \in SUBSET D, NEW e \in [E -> Int], \A x \in E : e[x] = f[x],
         NEW h, SumsUp(h, e, E)
  PROVE  \A T \in SUBSET E : g[T] = h[T]
<1> DEFINE S == {n \in Nat : \A U \in SUBSET E : Cardinality(U) <= n => g[U] = h[U]}
<1>0. IsFiniteSet(E)
  BY FS_Subset
<1>1. 0 \in S
  <2> SUFFICES ASSUME NEW U \in SUBSET E, Cardinality(U) <= 0 PROVE g[U] = h[U]
    OBVIOUS
  <2>1. U = {}
    BY <1>0, FS_Subset, SizeZero
  <2> QED BY <2>1 DEF SumsUp
<1>2. ASSUME NEW n \in Nat, n \in S PROVE n + 1 \in S
  <2> SUFFICES ASSUME NEW U \in SUBSET E, Cardinality(U) <= n + 1 PROVE g[U] = h[U]
    OBVIOUS
  <2>1. CASE U = {}
    BY <2>1 DEF SumsUp
  <2>2. CASE U # {}
    <3> DEFINE c == First(U)
    <3>1. c \in U /\ g[U] = f[c] + g[U \ {c}] /\ h[U] = e[c] + h[U \ {c}]
      BY <2>2, FirstIsIn DEF SumsUp
    <3> HIDE DEF c
    <3>2. U \ {c} \in SUBSET E /\ Cardinality(U \ {c}) <= n
      BY <3>1, <1>0, SizeLess
    <3> QED BY <3>1, <3>2, <1>2
  <2> QED BY <2>1, <2>2
<1> HIDE DEF S
<1> SUFFICES ASSUME NEW T \in SUBSET E PROVE g[T] = h[T]
  OBVIOUS
<1>3. IsFiniteSet(T) /\ Cardinality(T) \in Nat
  BY <1>0, FS_Subset, FS_CardinalityType
<1>4. Cardinality(T) \in S
  BY <1>1, <1>2, <1>3, SetInduction
<1> QED BY <1>3, <1>4 DEF S

(* A sum is what such a function says of the whole domain. *)
LEMMA SumIsSum ==
  ASSUME NEW D, IsFiniteSet(D), NEW f \in [D -> Int]
  PROVE  \E g : SumsUp(g, f, D) /\ SumFunction(f) = g[D]
<1> DEFINE Body(i) == [s \in SUBSET D |-> IF s = {} THEN 0
                                          ELSE f[CHOOSE x \in s : TRUE] + i[s \ {CHOOSE x \in s : TRUE}]]
           iter == CHOOSE i : i = Body(i)
<1>1. PICK g : SumsUp(g, f, D)
  BY SumsExist
<1>2. g = Body(g)
  BY <1>1 DEF SumsUp, First
<1>3. iter = Body(iter)
  BY <1>2
<1>4. DOMAIN f = D
  OBVIOUS
<1>5. SumFunction(f) = iter[D]
  BY <1>4 DEF SumFunction, SumFunctionOnSet, FoldFunctionOnSet, MapThenFoldSet
<1>6. SumsUp(iter, f, D)
  <2> HIDE DEF iter
  <2> DEFINE S == {n \in Nat : \A U \in SUBSET D : Cardinality(U) <= n => iter[U] = g[U]}
  <2>1. 0 \in S
    <3> SUFFICES ASSUME NEW U \in SUBSET D, Cardinality(U) <= 0 PROVE iter[U] = g[U]
      OBVIOUS
    <3>1. U = {}
      BY FS_Subset, SizeZero
    <3> QED BY <3>1, <1>1, <1>3 DEF SumsUp
  <2>2. ASSUME NEW n \in Nat, n \in S PROVE n + 1 \in S
    <3> SUFFICES ASSUME NEW U \in SUBSET D, Cardinality(U) <= n + 1 PROVE iter[U] = g[U]
      OBVIOUS
    <3>1. CASE U = {}
      BY <3>1, <1>1, <1>3 DEF SumsUp
    <3>2. CASE U # {}
      <4>1. First(U) \in U /\ g[U] = f[First(U)] + g[U \ {First(U)}]
        BY <3>2, <1>1, FirstIsIn DEF SumsUp
      <4>2. iter[U] = f[First(U)] + iter[U \ {First(U)}]
        BY <3>2, <1>3 DEF First
      <4>3. U \ {First(U)} \in SUBSET D /\ Cardinality(U \ {First(U)}) <= n
        BY <4>1, SizeLess
      <4> QED BY <4>1, <4>2, <4>3, <2>2
    <3> QED BY <3>1, <3>2
  <2> HIDE DEF S
  <2>3. \A U \in SUBSET D : iter[U] = g[U]
    <3> SUFFICES ASSUME NEW U \in SUBSET D PROVE iter[U] = g[U]
      OBVIOUS
    <3>1. Cardinality(U) \in Nat
      BY FS_Subset, FS_CardinalityType
    <3>2. Cardinality(U) \in S
      BY <2>1, <2>2, <3>1, SetInduction
    <3> QED BY <3>1, <3>2 DEF S
  <2>4. iter = g
    BY <2>3, <1>3, <1>1 DEF SumsUp
  <2> QED BY <2>4, <1>1
<1> QED BY <1>5, <1>6

(* What holds of no elements, and of a part of D if it holds of the part   *)
(* without one of its elements, holds of D.                                *)
LEMMA PartInduction ==
  ASSUME NEW D, IsFiniteSet(D), NEW H, {} \in H,
         \A T \in SUBSET D : \A x \in T : T \ {x} \in H => T \in H
  PROVE  D \in H
<1> DEFINE S == {n \in Nat : \A U \in SUBSET D : Cardinality(U) <= n => U \in H}
<1>1. 0 \in S
  <2> SUFFICES ASSUME NEW U \in SUBSET D, Cardinality(U) <= 0 PROVE U \in H
    OBVIOUS
  <2>1. U = {}
    BY FS_Subset, SizeZero
  <2> QED BY <2>1
<1>2. ASSUME NEW n \in Nat, n \in S PROVE n + 1 \in S
  <2> SUFFICES ASSUME NEW U \in SUBSET D, Cardinality(U) <= n + 1 PROVE U \in H
    OBVIOUS
  <2>1. CASE U = {}
    BY <2>1
  <2>2. CASE U # {}
    <3>1. PICK x : x \in U
      BY <2>2
    <3>2. U \ {x} \in SUBSET D /\ Cardinality(U \ {x}) <= n
      BY <3>1, SizeLess
    <3>3. U \ {x} \in H
      BY <3>2, <1>2
    <3> QED BY <3>1, <3>3
  <2> QED BY <2>1, <2>2
<1> HIDE DEF S
<1>3. Cardinality(D) \in Nat
  BY FS_CardinalityType
<1>4. Cardinality(D) \in S
  BY <1>1, <1>2, <1>3, SetInduction
<1> QED BY <1>3, <1>4 DEF S

LEMMA SumTyped ==
  ASSUME NEW D, IsFiniteSet(D), NEW f \in [D -> Int]
  PROVE  SumFunction(f) \in Int
<1>1. PICK g : SumsUp(g, f, D) /\ SumFunction(f) = g[D]
  BY SumIsSum
<1>2. D \in SUBSET D
  OBVIOUS
<1> QED BY <1>1, <1>2 DEF SumsUp

LEMMA SumEmpty == ASSUME NEW f \in [{} -> Int] PROVE SumFunction(f) = 0
<1>1. IsFiniteSet({})
  BY FS_EmptySet
<1>2. PICK g : SumsUp(g, f, {}) /\ SumFunction(f) = g[{}]
  BY <1>1, SumIsSum
<1> QED BY <1>2 DEF SumsUp

Part(f, E) == [x \in E |-> f[x]]

(* The sum over a part is what the recursion says of it. *)
LEMMA SumOfPart ==
  ASSUME NEW D, IsFiniteSet(D), NEW f \in [D -> Int], NEW g, SumsUp(g, f, D), NEW E \in SUBSET D
  PROVE  SumFunction(Part(f, E)) = g[E]
<1>1. IsFiniteSet(E) /\ E \in SUBSET E
  BY FS_Subset
<1>2. Part(f, E) \in [E -> Int] /\ \A x \in E : Part(f, E)[x] = f[x]
  BY DEF Part
<1>3. PICK h : SumsUp(h, Part(f, E), E) /\ SumFunction(Part(f, E)) = h[E]
  BY <1>1, <1>2, SumIsSum
<1>4. \A T \in SUBSET E : g[T] = h[T]
  BY <1>2, <1>3, SumsUnique
<1> QED BY <1>1, <1>3, <1>4

LEMMA SumRemove ==
  ASSUME NEW D, IsFiniteSet(D), NEW f \in [D -> Int], NEW x \in D
  PROVE  SumFunction(f) = f[x] + SumFunction(Part(f, D \ {x}))
<1>1. PICK g : SumsUp(g, f, D) /\ SumFunction(f) = g[D]
  BY SumIsSum
<1>2. D \in SUBSET D /\ D \ {x} \in SUBSET D
  OBVIOUS
<1>3. g[D] = f[x] + g[D \ {x}]
  BY <1>1, <1>2, SumsAnyFirst
<1>4. SumFunction(Part(f, D \ {x})) = g[D \ {x}]
  BY <1>1, <1>2, SumOfPart
<1> QED BY <1>1, <1>3, <1>4

LEMMA SumZero ==
  ASSUME NEW D, IsFiniteSet(D), NEW f \in [D -> Int], \A x \in D : f[x] = 0
  PROVE  SumFunction(f) = 0
<1>1. PICK g : SumsUp(g, f, D) /\ SumFunction(f) = g[D]
  BY SumIsSum
<1> DEFINE H == {T \in SUBSET D : g[T] = 0}
<1>2. {} \in H
  BY <1>1 DEF SumsUp
<1>3. ASSUME NEW T \in SUBSET D, NEW x \in T, T \ {x} \in H PROVE T \in H
  <2>1. g[T] = f[x] + g[T \ {x}]
    BY <1>1, SumsAnyFirst
  <2> QED BY <2>1, <1>3
<1> HIDE DEF H
<1>4. D \in H
  BY <1>2, <1>3, PartInduction
<1> QED BY <1>1, <1>4 DEF H

(* Only one summand counts. *)
LEMMA SumSingle ==
  ASSUME NEW D, IsFiniteSet(D), NEW f \in [D -> Int], NEW c \in D,
         \A x \in D \ {c} : f[x] = 0
  PROVE  SumFunction(f) = f[c]
<1>1. SumFunction(f) = f[c] + SumFunction(Part(f, D \ {c}))
  BY SumRemove
<1>2. Part(f, D \ {c}) \in [D \ {c} -> Int] /\ \A x \in D \ {c} : Part(f, D \ {c})[x] = 0
  BY DEF Part
<1>3. IsFiniteSet(D \ {c})
  BY FS_Subset
<1>4. SumFunction(Part(f, D \ {c})) = 0
  BY <1>2, <1>3, SumZero
<1>5. f[c] \in Int
  OBVIOUS
<1> QED BY <1>1, <1>4, <1>5

LEMMA SumAdd ==
  ASSUME NEW D, IsFiniteSet(D), NEW e \in [D -> Int], NEW f \in [D -> Int],
         NEW s, s = [x \in D |-> e[x] + f[x]]
  PROVE  SumFunction(s) = SumFunction(e) + SumFunction(f)
<1>0. s \in [D -> Int]
  OBVIOUS
<1>1. PICK g : SumsUp(g, e, D) /\ SumFunction(e) = g[D]
  BY SumIsSum
<1>2. PICK h : SumsUp(h, f, D) /\ SumFunction(f) = h[D]
  BY SumIsSum
<1>3. PICK i : SumsUp(i, s, D) /\ SumFunction(s) = i[D]
  BY <1>0, SumIsSum
<1> DEFINE H == {T \in SUBSET D : i[T] = g[T] + h[T]}
<1>4. {} \in H
  BY <1>1, <1>2, <1>3 DEF SumsUp
<1>5. ASSUME NEW T \in SUBSET D, NEW x \in T, T \ {x} \in H PROVE T \in H
  <2>a. g[T] = e[x] + g[T \ {x}]
    BY <1>1, SumsAnyFirst
  <2>b. h[T] = f[x] + h[T \ {x}]
    BY <1>2, SumsAnyFirst
  <2>c. i[T] = s[x] + i[T \ {x}]
    BY ONLY <1>0, <1>3, IsFiniteSet(D), T \in SUBSET D, x \in T, SumsAnyFirst
  <2>1. g[T] = e[x] + g[T \ {x}] /\ h[T] = f[x] + h[T \ {x}] /\ i[T] = s[x] + i[T \ {x}]
    BY <2>a, <2>b, <2>c
  <2>2. /\ e[x] \in Int /\ f[x] \in Int /\ g[T \ {x}] \in Int /\ h[T \ {x}] \in Int
        /\ s[x] = e[x] + f[x]
    BY <1>1, <1>2 DEF SumsUp
  <2>3. i[T] = (e[x] + f[x]) + (g[T \ {x}] + h[T \ {x}])
    BY <2>1, <2>2, <1>5
  <2>4. i[T] = g[T] + h[T]
    BY ONLY <2>1, <2>2, <2>3
  <2> QED BY <2>4
<1> HIDE DEF H
<1>6. D \in H
  BY <1>4, <1>5, PartInduction
<1> QED BY <1>1, <1>2, <1>3, <1>6 DEF H

LEMMA SumScale ==
  ASSUME NEW D, IsFiniteSet(D), NEW c \in Int, NEW f \in [D -> Int],
         NEW s, s = [x \in D |-> c * f[x]]
  PROVE  SumFunction(s) = c * SumFunction(f)
<1>0. s \in [D -> Int]
  OBVIOUS
<1>1. PICK g : SumsUp(g, f, D) /\ SumFunction(f) = g[D]
  BY SumIsSum
<1>2. PICK i : SumsUp(i, s, D) /\ SumFunction(s) = i[D]
  BY <1>0, SumIsSum
<1> DEFINE H == {T \in SUBSET D : i[T] = c * g[T]}
<1>4. {} \in H
  BY <1>1, <1>2 DEF SumsUp
<1>5. ASSUME NEW T \in SUBSET D, NEW x \in T, T \ {x} \in H PROVE T \in H
  <2>a. g[T] = f[x] + g[T \ {x}]
    BY ONLY <1>1, IsFiniteSet(D), f \in [D -> Int], T \in SUBSET D, x \in T, SumsAnyFirst
  <2>b. i[T] = s[x] + i[T \ {x}]
    BY ONLY <1>0, <1>2, IsFiniteSet(D), T \in SUBSET D, x \in T, SumsAnyFirst
  <2>1. g[T] = f[x] + g[T \ {x}] /\ i[T] = s[x] + i[T \ {x}]
    BY <2>a, <2>b
  <2>2. /\ f[x] \in Int /\ g[T \ {x}] \in Int /\ s[x] = c * f[x]
    BY <1>1 DEF SumsUp
  <2>3. i[T] = c * f[x] + c * g[T \ {x}]
    BY <2>1, <2>2, <1>5
  <2>4. i[T] = c * g[T]
    BY ONLY c \in Int, <2>1, <2>2, <2>3
  <2> QED BY <2>4
<1> HIDE DEF H
<1>6. D \in H
  BY <1>4, <1>5, PartInduction
<1> QED BY <1>1, <1>2, <1>6 DEF H

(* A sum over two parts without common elements. *)
LEMMA SumUnion ==
  ASSUME NEW D, NEW E, IsFiniteSet(D), IsFiniteSet(E), D \cap E = {},
         NEW f \in [D \cup E -> Int]
  PROVE  SumFunction(f) = SumFunction(Part(f, D)) + SumFunction(Part(f, E))
<1>0. IsFiniteSet(D \cup E) /\ D \in SUBSET (D \cup E) /\ E \in SUBSET (D \cup E)
  BY FS_Union
<1>1. PICK g : SumsUp(g, f, D \cup E) /\ SumFunction(f) = g[D \cup E]
  BY <1>0, SumIsSum
<1> DEFINE H == {T \in SUBSET D : g[T \cup E] = g[T] + g[E]}
<1>2. {} \in H
  <2>1. {} \cup E = E /\ g[{}] = 0 /\ g[E] \in Int
    BY <1>0, <1>1 DEF SumsUp
  <2> QED BY <2>1
<1>3. ASSUME NEW T \in SUBSET D, NEW x \in T, T \ {x} \in H PROVE T \in H
  <2>1. T \cup E \in SUBSET (D \cup E) /\ x \in T \cup E /\ T \in SUBSET (D \cup E)
    OBVIOUS
  <2>2. g[T] = f[x] + g[T \ {x}] /\ g[T \cup E] = f[x] + g[(T \cup E) \ {x}]
    BY <1>0, <1>1, <2>1, SumsAnyFirst
  <2>3. (T \cup E) \ {x} = (T \ {x}) \cup E
    OBVIOUS
  <2>4. f[x] \in Int /\ g[T \ {x}] \in Int /\ g[E] \in Int
    BY <1>0, <1>1, <2>1 DEF SumsUp
  <2>5. g[(T \ {x}) \cup E] = g[T \ {x}] + g[E]
    BY <1>3
  <2>a. g[T \cup E] = f[x] + (g[T \ {x}] + g[E])
    BY <2>2, <2>3, <2>5
  <2>b. f[x] + (g[T \ {x}] + g[E]) = (f[x] + g[T \ {x}]) + g[E]
    BY ONLY <2>4
  <2>6. g[T \cup E] = g[T] + g[E]
    BY <2>a, <2>b, <2>2
  <2> QED BY <2>6
<1> HIDE DEF H
<1>4. D \in H
  BY <1>2, <1>3, PartInduction
<1>5. g[D \cup E] = g[D] + g[E]
  BY <1>4 DEF H
<1>6. SumFunction(Part(f, D)) = g[D] /\ SumFunction(Part(f, E)) = g[E]
  BY <1>0, <1>1, SumOfPart
<1> QED BY <1>1, <1>5, <1>6

(* Sums of sums: in either order. *)
LEMMA SumSwap ==
  ASSUME NEW D, NEW E, IsFiniteSet(D), IsFiniteSet(E),
         NEW f \in [D -> [E -> Int]],
         NEW a, a = [x \in D |-> SumFunction(f[x])],
         NEW b, b = [y \in E |-> SumFunction([x \in D |-> f[x][y]])]
  PROVE  a \in [D -> Int] /\ b \in [E -> Int] /\ SumFunction(a) = SumFunction(b)
<1>1. a \in [D -> Int]
  BY SumTyped
<1>2. ASSUME NEW y \in E PROVE [x \in D |-> f[x][y]] \in [D -> Int]
  OBVIOUS
<1>3. b \in [E -> Int]
  BY <1>2, SumTyped
<1> DEFINE Row(T) == [y \in E |-> SumFunction([x \in T |-> f[x][y]])]
           H == {T \in SUBSET D : SumFunction(Part(a, T)) = SumFunction(Row(T))}
<1>4. {} \in H
  <2>1. Part(a, {}) \in [{} -> Int]
    BY DEF Part
  <2>2. SumFunction(Part(a, {})) = 0
    BY <2>1, SumEmpty
  <2>3. ASSUME NEW y \in E PROVE SumFunction([x \in {} |-> f[x][y]]) = 0
    <3>1. [x \in {} |-> f[x][y]] \in [{} -> Int]
      OBVIOUS
    <3> QED BY <3>1, SumEmpty
  <2>4. Row({}) \in [E -> Int] /\ \A y \in E : Row({})[y] = 0
    BY <2>3
  <2> HIDE DEF Row
  <2>5. SumFunction(Row({})) = 0
    BY <2>4, SumZero
  <2> QED BY <2>2, <2>5
<1>5. ASSUME NEW T \in SUBSET D, NEW x \in T, T \ {x} \in H PROVE T \in H
  <2> DEFINE U == T \ {x}
  <2>0. IsFiniteSet(T) /\ IsFiniteSet(U)
    BY FS_Subset
  <2>1. Part(a, T) \in [T -> Int] /\ Part(a, T)[x] = SumFunction(f[x])
        /\ Part(Part(a, T), U) = Part(a, U)
    BY <1>1 DEF Part
  <2>2. SumFunction(Part(a, T)) = SumFunction(f[x]) + SumFunction(Part(a, U))
    BY <2>0, <2>1, SumRemove
  <2>3. \A y \in E : [z \in U |-> f[z][y]] \in [U -> Int]
    OBVIOUS
  <2>4. Row(U) \in [E -> Int]
    BY <2>0, <2>3, SumTyped
  <2>5. ASSUME NEW y \in E PROVE Row(T)[y] = f[x][y] + Row(U)[y]
    <3> DEFINE h == [z \in T |-> f[z][y]]
    <3>1. h \in [T -> Int] /\ h[x] = f[x][y] /\ Part(h, U) = [z \in U |-> f[z][y]]
      BY DEF Part
    <3> HIDE DEF h
    <3>2. SumFunction(h) = h[x] + SumFunction(Part(h, U))
      BY <2>0, <3>1, SumRemove
    <3>3. Row(T)[y] = SumFunction(h) /\ Row(U)[y] = SumFunction([z \in U |-> f[z][y]])
      BY DEF h
    <3> HIDE DEF Row
    <3> QED BY <3>1, <3>2, <3>3
  <2>6. Row(T) = [y \in E |-> f[x][y] + Row(U)[y]]
    <3>1. \A y \in E : Row(T)[y] = [z \in E |-> f[x][z] + Row(U)[z]][y]
      BY <2>5
    <3>2. DOMAIN Row(T) = E /\ Row(T) = [y \in E |-> Row(T)[y]]
      OBVIOUS
    <3> HIDE DEF Row
    <3> QED BY <3>1, <3>2
  <2> HIDE DEF Row
  <2>7. SumFunction(Row(T)) = SumFunction(f[x]) + SumFunction(Row(U))
    <3> DEFINE e == f[x]
               r == Row(U)
               q == Row(T)
    <3>1. e \in [E -> Int] /\ r \in [E -> Int] /\ q = [y \in E |-> e[y] + r[y]]
      BY <2>4, <2>6
    <3> HIDE DEF e, r, q
    <3>2. SumFunction(q) = SumFunction(e) + SumFunction(r)
      BY <3>1, SumAdd
    <3> QED BY <3>2 DEF e, r, q
  <2> QED BY <2>2, <2>7, <1>5
<1> HIDE DEF H
<1>6. D \in H
  BY <1>4, <1>5, PartInduction
<1>7. Part(a, D) = a /\ Row(D) = b
  BY <1>1 DEF Part
<1> QED BY <1>1, <1>3, <1>6, <1>7 DEF H

LEMMA ModDef == ASSUME NEW x \in Int
  PROVE /\ x % P \in 0..(P - 1) /\ x \div P \in Int
        /\ x = P * (x \div P) + (x % P)
BY PrimeAssumption

LEMMA NoMultiple == ASSUME NEW t \in Int, - P < P * t, P * t < P PROVE t = 0
<1>1. CASE t >= 1
  <2>1. P * t >= P * 1
    BY <1>1, PrimeAssumption
  <2> QED BY <2>1, PrimeAssumption
<1>2. CASE t <= -1
  <2>1. P * t <= P * (-1)
    BY <1>2, PrimeAssumption
  <2> QED BY <2>1, PrimeAssumption
<1> QED BY <1>1, <1>2

LEMMA ModUnique == ASSUME NEW x \in Int, NEW q \in Int, NEW r \in 0..(P - 1), x = P * q + r
  PROVE x % P = r
<1> DEFINE d == x \div P
           m == x % P
<1>1. m \in 0..(P - 1) /\ d \in Int /\ x = P * d + m
  BY ModDef
<1> HIDE DEF d, m
<1>2. P * (q - d) = P * q - P * d
  BY <1>1, PrimeAssumption
<1>3. P * q \in Int /\ P * d \in Int
  BY <1>1, PrimeAssumption
<1>4. - P < P * (q - d) /\ P * (q - d) < P
  BY <1>1, <1>2, <1>3, PrimeAssumption
<1>5. q - d = 0
  BY <1>1, <1>4, NoMultiple
<1>6. m = r
  BY <1>5, <1>1, <1>3, PrimeAssumption
<1> QED BY <1>6 DEF m

LEMMA ModShift == ASSUME NEW x \in Int, NEW q \in Int PROVE (x + P * q) % P = x % P
<1>1. x % P \in 0..(P - 1) /\ x \div P \in Int /\ x = P * (x \div P) + (x % P)
  BY ModDef
<1> DEFINE d == x \div P
           m == x % P
<1> HIDE DEF d, m
<1>2. m \in 0..(P - 1) /\ d \in Int /\ x = P * d + m
  BY <1>1 DEF d, m
<1>3. P * (d + q) = P * d + P * q /\ P * d \in Int /\ P * q \in Int /\ d + q \in Int
  BY <1>2, PrimeAssumption
<1>4. x + P * q = P * (d + q) + m /\ x + P * q \in Int
  BY <1>2, <1>3, PrimeAssumption
<1>5. (x + P * q) % P = m
  BY <1>2, <1>3, <1>4, ModUnique
<1> QED BY <1>5 DEF m

LEMMA ModAdd == ASSUME NEW x \in Int, NEW y \in Int
  PROVE ((x % P) + y) % P = (x + y) % P /\ x % P \in Int
<1> DEFINE d == x \div P
           m == x % P
<1>1. m \in 0..(P - 1) /\ d \in Int /\ x = P * d + m
  BY ModDef
<1> HIDE DEF d, m
<1>2. x + y = (m + y) + P * d /\ m + y \in Int
  BY <1>1, PrimeAssumption
<1>3. (x + y) % P = (m + y) % P
  BY <1>1, <1>2, ModShift
<1> QED BY <1>1, <1>3, PrimeAssumption DEF m

LEMMA ModMul == ASSUME NEW x \in Int, NEW y \in Int
  PROVE ((x % P) * y) % P = (x * y) % P /\ (x % P) * y \in Int
<1> DEFINE d == x \div P
           m == x % P
<1>1. m \in 0..(P - 1) /\ d \in Int /\ x = P * d + m
  BY ModDef
<1> HIDE DEF d, m
<1>2. m \in Int /\ P \in Int
  BY <1>1, PrimeAssumption
<1>3. (P * d + m) * y = m * y + P * (d * y) /\ m * y \in Int /\ d * y \in Int
  BY <1>1, <1>2
<1>4. (x * y) % P = (m * y) % P
  BY <1>1, <1>3, ModShift
<1> QED BY <1>3, <1>4 DEF m

LEMMA ModSmall == ASSUME NEW x \in 0..(P - 1) PROVE x % P = x
<1>1. x = P * 0 + x
  BY PrimeAssumption
<1> QED BY <1>1, ModUnique

(* A sum is the same function wherever it is taken. *)
LEMMA InterfaceSums == ASSUME NEW f PROVE Interface!SumFunction(f) = SumFunction(f)
BY Zenon DEF Interface!SumFunction, Interface!SumFunctionOnSet, Interface!FoldFunctionOnSet,
             Interface!MapThenFoldSet, SumFunction, SumFunctionOnSet, FoldFunctionOnSet, MapThenFoldSet

LEMMA InterfaceSigma == ASSUME NEW f PROVE Interface!Sigma(f) = Sigma(f)
BY InterfaceSums DEF Interface!Sigma, Sigma

LEMMA SigmaTyped == ASSUME NEW D, IsFiniteSet(D), NEW f \in [D -> Int]
  PROVE Sigma(f) \in Scalar
BY SumTyped, ModDef DEF Sigma, Scalar

LEMMA SigmaZero == ASSUME NEW D, IsFiniteSet(D), NEW f \in [D -> Int], \A x \in D : f[x] = 0
  PROVE Sigma(f) = 0
<1>1. SumFunction(f) = 0
  BY SumZero
<1>2. 0 \in 0..(P - 1)
  BY PrimeAssumption
<1> QED BY <1>1, <1>2, ModSmall DEF Sigma

LEMMA SigmaSingle == ASSUME NEW D, IsFiniteSet(D), NEW f \in [D -> Int], NEW c \in D,
         \A x \in D \ {c} : f[x] = 0, f[c] \in Scalar
  PROVE Sigma(f) = f[c]
<1>1. SumFunction(f) = f[c]
  BY SumSingle
<1> QED BY <1>1, ModSmall DEF Sigma, Scalar

-----------------------------------------------------------------------------
(* The emissions. *)
LEMMA EmissionParts ==
  ASSUME NEW e, IsEmission(e)
  PROVE  /\ DOMAIN e.blocks = 1..Len(e.blocks) /\ Len(e.blocks) \in Nat /\ IsFiniteSet(DOMAIN e.blocks)
         /\ Len(e.residual) \in Nat /\ IsFiniteSet(1..Len(e.residual))
         /\ \A k \in 1..Len(e.residual) : e.residual[k] \in Scalar
         /\ \A b \in DOMAIN e.blocks : e.blocks[b].col \in Nat /\ e.blocks[b].cols \in Nat
         /\ \A b \in DOMAIN e.blocks : \A k \in 1..Len(e.residual) : \A i \in 1..e.blocks[b].cols :
              e.blocks[b].values[k][i] \in Scalar
<1>1. e.blocks \in Seq([col : Nat, cols : Nat, values : Seq(Seq(Scalar))]) /\ e.residual \in Seq(Scalar)
  BY DEF IsEmission
<1>2. DOMAIN e.blocks = 1..Len(e.blocks) /\ Len(e.blocks) \in Nat /\ Len(e.residual) \in Nat
  BY <1>1
<1>3. \A k \in 1..Len(e.residual) : e.residual[k] \in Scalar
  BY <1>1
<1>4. \A b \in DOMAIN e.blocks : IsBlock(e.blocks[b], Len(e.residual))
  BY DEF IsEmission
<1>5. IsFiniteSet(1..Len(e.blocks)) /\ IsFiniteSet(1..Len(e.residual))
  BY <1>2, FS_Interval
<1>6. ASSUME NEW b \in DOMAIN e.blocks, NEW k \in 1..Len(e.residual), NEW i \in 1..e.blocks[b].cols
      PROVE  e.blocks[b].values[k][i] \in Scalar
  BY <1>4 DEF IsBlock
<1>7. \A b \in DOMAIN e.blocks : e.blocks[b].col \in Nat /\ e.blocks[b].cols \in Nat
  BY <1>4 DEF IsBlock
<1> QED BY <1>2, <1>3, <1>5, <1>6, <1>7

LEMMA OneCovers ==
  ASSUME NEW e, IsEmission(e), NEW b \in DOMAIN e.blocks, NEW c \in DOMAIN e.blocks,
         NEW j \in Nat, Covers(e.blocks[b], j), Covers(e.blocks[c], j)
  PROVE  b = c
<1>1. e.blocks[b].col \in Nat /\ e.blocks[b].cols \in Nat
  BY EmissionParts
<1>2. j \in e.blocks[b].col..(e.blocks[b].col + e.blocks[b].cols - 1)
  BY <1>1 DEF Covers
<1> QED BY <1>2 DEF IsEmission

Held(b, k, j) == b.values[k][j - b.col + 1]

LEMMA HeldTyped ==
  ASSUME NEW e, IsEmission(e), NEW b \in DOMAIN e.blocks, NEW k \in 1..Len(e.residual),
         NEW j \in Nat, Covers(e.blocks[b], j)
  PROVE  Held(e.blocks[b], k, j) \in Scalar
<1>1. e.blocks[b].col \in Nat /\ e.blocks[b].cols \in Nat
  BY EmissionParts
<1>2. j - e.blocks[b].col + 1 \in 1..e.blocks[b].cols
  BY <1>1 DEF Covers
<1> QED BY <1>2, EmissionParts DEF Held

LEMMA InterfaceCovers == ASSUME NEW b, NEW j PROVE Interface!Covers(b, j) = Covers(b, j)
BY DEF Interface!Covers, Covers

(* A coefficient is the one of the only block that covers the column. *)
LEMMA CoefficientCovered ==
  ASSUME NEW e, IsEmission(e), NEW b \in DOMAIN e.blocks, NEW k \in 1..Len(e.residual),
         NEW j \in Nat, Covers(e.blocks[b], j)
  PROVE  Interface!Coefficient(e, k, j) = Held(e.blocks[b], k, j)
<1> DEFINE D == {c \in DOMAIN e.blocks : Covers(e.blocks[c], j)}
           f == [c \in D |-> Held(e.blocks[c], k, j)]
<1>1. IsFiniteSet(D)
  BY EmissionParts, FS_Subset
<1>2. D = {b}
  BY OneCovers
<1>3. f \in [D -> Int] /\ f[b] \in Scalar /\ f[b] = Held(e.blocks[b], k, j)
  BY <1>2, HeldTyped DEF Scalar
<1>4. Interface!Coefficient(e, k, j) = Sigma(f)
  BY InterfaceCovers, InterfaceSigma DEF Interface!Coefficient, Held
<1> HIDE DEF f
<1>5. Sigma(f) = f[b]
  BY <1>1, <1>2, <1>3, SigmaSingle
<1> QED BY <1>3, <1>4, <1>5

LEMMA CoefficientUncovered ==
  ASSUME NEW e, IsEmission(e), NEW k, NEW j, \A b \in DOMAIN e.blocks : ~Covers(e.blocks[b], j)
  PROVE  Interface!Coefficient(e, k, j) = 0
<1> DEFINE D == {c \in DOMAIN e.blocks : Covers(e.blocks[c], j)}
           f == [c \in D |-> Held(e.blocks[c], k, j)]
<1>1. D = {}
  OBVIOUS
<1>2. f \in [{} -> Int] /\ IsFiniteSet({})
  BY <1>1, FS_EmptySet
<1>3. Interface!Coefficient(e, k, j) = Sigma(f)
  BY InterfaceCovers, InterfaceSigma DEF Interface!Coefficient, Held
<1> HIDE DEF f
<1> QED BY <1>2, <1>3, SigmaZero

LEMMA CoefficientTyped ==
  ASSUME NEW e, IsEmission(e), NEW k \in 1..Len(e.residual), NEW j \in Nat
  PROVE  Interface!Coefficient(e, k, j) \in Scalar
<1>1. CASE \E b \in DOMAIN e.blocks : Covers(e.blocks[b], j)
  BY <1>1, CoefficientCovered, HeldTyped
<1>2. CASE \A b \in DOMAIN e.blocks : ~Covers(e.blocks[b], j)
  BY <1>2, CoefficientUncovered, PrimeAssumption DEF Scalar
<1> QED BY <1>1, <1>2

LEMMA ProductTyped == ASSUME NEW a \in Scalar, NEW b \in Scalar PROVE a * b \in Int
BY PrimeAssumption DEF Scalar

(* What an emission adds to the information, when two of its blocks meet. *)
LEMMA InformationCovered ==
  ASSUME NEW e, IsEmission(e), NEW b \in DOMAIN e.blocks, NEW c \in DOMAIN e.blocks,
         NEW i \in Nat, NEW j \in Nat, Covers(e.blocks[b], i), Covers(e.blocks[c], j)
  PROVE  /\ Interface!Information(e, i, j) = BlockProduct(Len(e.residual), e.blocks[b], i, e.blocks[c], j)
         /\ Interface!Information(e, i, j) \in Scalar
<1> DEFINE f == [k \in 1..Len(e.residual) |-> Held(e.blocks[b], k, i) * Held(e.blocks[c], k, j)]
           h == [k \in 1..Len(e.residual) |-> Interface!Coefficient(e, k, i) * Interface!Coefficient(e, k, j)]
<1>1. h = f
  BY CoefficientCovered
<1>2. f \in [1..Len(e.residual) -> Int]
  BY HeldTyped, ProductTyped
<1>3. Interface!Information(e, i, j) = Sigma(h)
  BY InterfaceSigma DEF Interface!Information, Interface!Rows
<1>4. BlockProduct(Len(e.residual), e.blocks[b], i, e.blocks[c], j) = Sigma(f)
  BY DEF BlockProduct, Held
<1> HIDE DEF f, h
<1>5. Sigma(f) \in Scalar
  BY <1>2, EmissionParts, SigmaTyped
<1> QED BY <1>1, <1>3, <1>4, <1>5

LEMMA InformationUncovered ==
  ASSUME NEW e, IsEmission(e), NEW i \in Nat, NEW j \in Nat,
         \/ \A b \in DOMAIN e.blocks : ~Covers(e.blocks[b], i)
         \/ \A b \in DOMAIN e.blocks : ~Covers(e.blocks[b], j)
  PROVE  Interface!Information(e, i, j) = 0
<1> DEFINE h == [k \in 1..Len(e.residual) |-> Interface!Coefficient(e, k, i) * Interface!Coefficient(e, k, j)]
<1>1. ASSUME NEW k \in 1..Len(e.residual) PROVE h[k] = 0
  <2>1. Interface!Coefficient(e, k, i) \in Int /\ Interface!Coefficient(e, k, j) \in Int
    BY CoefficientTyped DEF Scalar
  <2>2. Interface!Coefficient(e, k, i) = 0 \/ Interface!Coefficient(e, k, j) = 0
    BY CoefficientUncovered
  <2> QED BY <2>1, <2>2
<1>2. h \in [1..Len(e.residual) -> Int]
  <2>1. \A k \in 1..Len(e.residual) : h[k] \in Int
    BY <1>1
  <2>2. DOMAIN h = 1..Len(e.residual) /\ h = [k \in 1..Len(e.residual) |-> h[k]]
    OBVIOUS
  <2> HIDE DEF h
  <2> QED BY <2>1, <2>2
<1>3. Interface!Information(e, i, j) = Sigma(h)
  BY InterfaceSigma DEF Interface!Information, Interface!Rows
<1> HIDE DEF h
<1> QED BY <1>1, <1>2, <1>3, EmissionParts, SigmaZero

LEMMA InformationTyped ==
  ASSUME NEW e, IsEmission(e), NEW i \in Nat, NEW j \in Nat
  PROVE  Interface!Information(e, i, j) \in Scalar
<1>1. CASE \E b, c \in DOMAIN e.blocks : Covers(e.blocks[b], i) /\ Covers(e.blocks[c], j)
  BY <1>1, InformationCovered
<1>2. CASE ~ \E b, c \in DOMAIN e.blocks : Covers(e.blocks[b], i) /\ Covers(e.blocks[c], j)
  BY <1>2, InformationUncovered, PrimeAssumption DEF Scalar
<1> QED BY <1>1, <1>2

BlocksOf(e) == DOMAIN e.blocks
PairsOf(e)  == {q \in BlocksOf(e) \X BlocksOf(e) : q[2] < q[1]}
Owns(e, p)  == [i \in BlocksOf(e) |-> OwnContribution(e, i, p)]
Couples(e, p) == [q \in PairsOf(e) |-> PairContribution(e, q[1], q[2], p)]

Larger(e, i, j) == IF e.blocks[i].col > e.blocks[j].col THEN i ELSE j
Smaller(e, i, j) == IF e.blocks[i].col > e.blocks[j].col THEN j ELSE i

LEMMA PairIs ==
  ASSUME NEW e, NEW i, NEW j, NEW p
  PROVE  PairContribution(e, i, j, p) =
           IF Covers(e.blocks[Larger(e, i, j)], p[1]) /\ Covers(e.blocks[Smaller(e, i, j)], p[2])
           THEN BlockProduct(Len(e.residual), e.blocks[Larger(e, i, j)], p[1],
                             e.blocks[Smaller(e, i, j)], p[2])
           ELSE 0
BY DEF PairContribution, Larger, Smaller

(* The products assembled block by block are those of the coefficients: of *)
(* all the blocks and pairs of blocks, the one that meets in the entry.    *)
LEMMA ContributionsAddUp ==
  ASSUME NEW e, IsEmission(e), NEW p \in Nat \X Nat, p[1] >= p[2]
  PROVE  /\ Sigma(Owns(e, p)) \in Scalar /\ Sigma(Couples(e, p)) \in Scalar
         /\ Sigma(Owns(e, p)) + Sigma(Couples(e, p)) = Interface!Information(e, p[1], p[2])
<1>0. /\ IsFiniteSet(BlocksOf(e)) /\ IsFiniteSet(PairsOf(e)) /\ p[1] \in Nat /\ p[2] \in Nat
      /\ BlocksOf(e) \subseteq Nat
  <2>1. IsFiniteSet(BlocksOf(e)) /\ BlocksOf(e) \subseteq Nat
    BY EmissionParts DEF BlocksOf
  <2>2. IsFiniteSet(BlocksOf(e) \X BlocksOf(e))
    BY <2>1, FS_Product
  <2> QED BY <2>1, <2>2, FS_Subset DEF PairsOf
<1>z. 0 \in Scalar /\ Scalar \subseteq Int
  BY PrimeAssumption DEF Scalar
<1>1. ASSUME NEW i \in BlocksOf(e)
      PROVE  /\ Owns(e, p)[i] \in Scalar
             /\ ~Covers(e.blocks[i], p[1]) \/ ~Covers(e.blocks[i], p[2]) => Owns(e, p)[i] = 0
  <2>1. Owns(e, p)[i] = OwnContribution(e, i, p)
    BY DEF Owns
  <2>2. CASE Covers(e.blocks[i], p[1]) /\ Covers(e.blocks[i], p[2])
    BY <2>1, <2>2, <1>0, InformationCovered DEF OwnContribution, BlocksOf
  <2>3. CASE ~Covers(e.blocks[i], p[1]) \/ ~Covers(e.blocks[i], p[2])
    BY <2>1, <2>3, <1>z DEF OwnContribution
  <2> QED BY <2>2, <2>3
<1>2. ASSUME NEW q \in PairsOf(e)
      PROVE  LET l == Larger(e, q[1], q[2])
                 r == Smaller(e, q[1], q[2])
             IN  /\ l \in BlocksOf(e) /\ r \in BlocksOf(e) /\ l # r
                 /\ {l, r} = {q[1], q[2]}
                 /\ Couples(e, p)[q] \in Scalar
                 /\ ~Covers(e.blocks[l], p[1]) \/ ~Covers(e.blocks[r], p[2]) => Couples(e, p)[q] = 0
  <2> DEFINE l == Larger(e, q[1], q[2])
             r == Smaller(e, q[1], q[2])
  <2>1. q[1] \in BlocksOf(e) /\ q[2] \in BlocksOf(e) /\ q[1] # q[2]
    BY <1>0 DEF PairsOf
  <2>2. l \in BlocksOf(e) /\ r \in BlocksOf(e) /\ l # r /\ {l, r} = {q[1], q[2]}
    BY <2>1 DEF Larger, Smaller
  <2>3. Couples(e, p)[q] = IF Covers(e.blocks[l], p[1]) /\ Covers(e.blocks[r], p[2])
                           THEN BlockProduct(Len(e.residual), e.blocks[l], p[1], e.blocks[r], p[2]) ELSE 0
    BY PairIs DEF Couples
  <2> HIDE DEF l, r
  <2>4. Covers(e.blocks[l], p[1]) /\ Covers(e.blocks[r], p[2]) => Couples(e, p)[q] \in Scalar
    BY <2>2, <2>3, <1>0, InformationCovered DEF BlocksOf
  <2>5. ~Covers(e.blocks[l], p[1]) \/ ~Covers(e.blocks[r], p[2]) => Couples(e, p)[q] = 0
    BY <2>3
  <2>6. Couples(e, p)[q] \in Scalar
    BY <2>4, <2>5, <1>z
  <2> QED BY <2>2, <2>5, <2>6 DEF l, r
<1>3. Owns(e, p) \in [BlocksOf(e) -> Int] /\ Couples(e, p) \in [PairsOf(e) -> Int]
  <2>1. \A i \in BlocksOf(e) : Owns(e, p)[i] \in Int
    BY <1>1, <1>z
  <2>2. \A q \in PairsOf(e) : Couples(e, p)[q] \in Int
    BY <1>2, <1>z
  <2> QED BY <2>1, <2>2 DEF Owns, Couples
<1>4. Sigma(Owns(e, p)) \in Scalar /\ Sigma(Couples(e, p)) \in Scalar
  BY <1>0, <1>3, SigmaTyped
<1>5. CASE \/ \A b \in BlocksOf(e) : ~Covers(e.blocks[b], p[1])
           \/ \A b \in BlocksOf(e) : ~Covers(e.blocks[b], p[2])
  <2>1. Interface!Information(e, p[1], p[2]) = 0
    BY <1>5, <1>0, InformationUncovered DEF BlocksOf
  <2>2. \A i \in BlocksOf(e) : Owns(e, p)[i] = 0
    BY <1>1, <1>5
  <2>3. \A q \in PairsOf(e) : Couples(e, p)[q] = 0
    BY <1>2, <1>5
  <2>4. Sigma(Owns(e, p)) = 0
    BY <2>2, <1>0, <1>3, SigmaZero
  <2>5. Sigma(Couples(e, p)) = 0
    BY <2>3, <1>0, <1>3, SigmaZero
  <2> QED BY <2>1, <2>4, <2>5, <1>4
<1>6. ASSUME NEW b \in BlocksOf(e), Covers(e.blocks[b], p[1]), Covers(e.blocks[b], p[2])
      PROVE  Sigma(Owns(e, p)) + Sigma(Couples(e, p)) = Interface!Information(e, p[1], p[2])
  <2>1. \A c \in BlocksOf(e) : Covers(e.blocks[c], p[1]) \/ Covers(e.blocks[c], p[2]) => c = b
    BY <1>6, <1>0, OneCovers DEF BlocksOf
  <2>2. Owns(e, p)[b] = Interface!Information(e, p[1], p[2])
    BY <1>6, <1>0, InformationCovered DEF Owns, OwnContribution, BlocksOf
  <2>3. \A i \in BlocksOf(e) \ {b} : Owns(e, p)[i] = 0
    BY <1>1, <2>1
  <2>4. \A q \in PairsOf(e) : Couples(e, p)[q] = 0
    BY <1>2, <2>1
  <2>5. Sigma(Owns(e, p)) = Owns(e, p)[b]
    BY <2>3, <1>0, <1>1, <1>3, SigmaSingle
  <2>6. Sigma(Couples(e, p)) = 0
    BY <2>4, <1>0, <1>3, SigmaZero
  <2>7. Interface!Information(e, p[1], p[2]) \in Int
    BY <1>0, <1>z, InformationTyped
  <2> QED BY <2>2, <2>5, <2>6, <2>7
<1>7. ASSUME NEW b \in BlocksOf(e), NEW c \in BlocksOf(e), b # c,
             Covers(e.blocks[b], p[1]), Covers(e.blocks[c], p[2])
      PROVE  Sigma(Owns(e, p)) + Sigma(Couples(e, p)) = Interface!Information(e, p[1], p[2])
  <2>1. \A d \in BlocksOf(e) : /\ Covers(e.blocks[d], p[1]) => d = b
                               /\ Covers(e.blocks[d], p[2]) => d = c
    BY <1>7, <1>0, OneCovers DEF BlocksOf
  <2>2. \A i \in BlocksOf(e) : Owns(e, p)[i] = 0
    BY <1>1, <1>7, <2>1
  <2>3. Sigma(Owns(e, p)) = 0
    BY <2>2, <1>0, <1>3, SigmaZero
  <2> DEFINE q == IF c < b THEN <<b, c>> ELSE <<c, b>>
  <2>4. q \in PairsOf(e)
    BY <1>7, <1>0 DEF PairsOf
  <2>5. e.blocks[b].col > e.blocks[c].col
    <3>1. /\ e.blocks[b].col \in Nat /\ e.blocks[b].cols \in Nat
          /\ e.blocks[c].col \in Nat /\ e.blocks[c].cols \in Nat
      BY EmissionParts DEF BlocksOf
    <3>2. SUFFICES ASSUME e.blocks[b].col <= e.blocks[c].col PROVE FALSE
      BY <3>1
    <3>3. Covers(e.blocks[b], p[2])
      BY <3>1, <3>2, <1>7, <1>0 DEF Covers
    <3> QED BY <3>3, <2>1, <1>7
  <2>6. Larger(e, q[1], q[2]) = b /\ Smaller(e, q[1], q[2]) = c
    <3>1. e.blocks[b].col \in Nat /\ e.blocks[c].col \in Nat
      BY EmissionParts DEF BlocksOf
    <3> QED BY <3>1, <2>5 DEF Larger, Smaller
  <2>7. Couples(e, p)[q] = Interface!Information(e, p[1], p[2])
    <3>1. Couples(e, p)[q] = PairContribution(e, q[1], q[2], p)
      BY <2>4 DEF Couples
    <3> HIDE DEF q
    <3> QED BY <3>1, <2>6, <1>7, <1>0, PairIs, InformationCovered DEF BlocksOf
  <2>8. ASSUME NEW r \in PairsOf(e) \ {q} PROVE Couples(e, p)[r] = 0
    <3>1. SUFFICES ASSUME Couples(e, p)[r] # 0 PROVE FALSE
      OBVIOUS
    <3>2. {b, c} = {r[1], r[2]} /\ r[2] < r[1] /\ r = <<r[1], r[2]>>
      <4>1. r \in PairsOf(e) /\ r = <<r[1], r[2]>> /\ r[2] < r[1]
        BY DEF PairsOf
      <4>2. Larger(e, r[1], r[2]) = b /\ Smaller(e, r[1], r[2]) = c
        BY <4>1, <3>1, <1>2, <2>1
      <4> QED BY <4>1, <4>2, <1>2
    <3>3. b \in Nat /\ c \in Nat
      BY <1>0
    <3>4. r = q
      BY <3>2, <3>3
    <3> QED BY <3>4
  <2> HIDE DEF q
  <2>9. Sigma(Couples(e, p)) = Couples(e, p)[q]
    BY <2>4, <2>8, <1>0, <1>2, <1>3, SigmaSingle
  <2>10. Interface!Information(e, p[1], p[2]) \in Int
    BY <1>0, <1>z, InformationTyped
  <2> QED BY <2>3, <2>7, <2>9, <2>10
<1> QED BY <1>4, <1>5, <1>6, <1>7

LEMMA NegTyped == ASSUME NEW a \in Scalar PROVE Neg(a) \in Scalar
<1>1. P - a \in Int
  BY PrimeAssumption DEF Scalar
<1> QED BY <1>1, ModDef DEF Neg, Scalar

LEMMA NegZero == Neg(0) = 0
<1>1. P - 0 = 0 + P * 1 /\ 0 \in 0..(P - 1)
  BY PrimeAssumption
<1> QED BY <1>1, ModShift, ModSmall, PrimeAssumption DEF Neg

LEMMA NegAdds ==
  ASSUME NEW a \in Scalar, NEW b \in Scalar
  PROVE  (Neg(a) + Neg(b)) % P = Neg((a + b) % P)
<1>0. P \in Int /\ a \in Int /\ b \in Int /\ P - a \in Int /\ P - b \in Int
  BY PrimeAssumption DEF Scalar
<1> DEFINE d == (a + b) \div P
           c == (a + b) % P
<1>1. c \in 0..(P - 1) /\ d \in Int /\ a + b = P * d + c
  <2>1. a + b \in Int
    BY <1>0
  <2> QED BY <2>1, ModDef
<1> HIDE DEF c, d
<1>2. c \in Int
  BY <1>1, <1>0
<1>3. Neg(b) \in Int
  BY NegTyped DEF Scalar
<1>4. (Neg(a) + Neg(b)) % P = ((P - a) + Neg(b)) % P
  <2>1. (((P - a) % P) + Neg(b)) % P = ((P - a) + Neg(b)) % P
    BY <1>0, <1>3, ModAdd
  <2> QED BY <2>1 DEF Neg
<1>5. ((P - a) + Neg(b)) % P = ((P - b) + (P - a)) % P
  <2>1. (P - a) + Neg(b) = Neg(b) + (P - a)
    BY <1>0, <1>3
  <2>2. (((P - b) % P) + (P - a)) % P = ((P - b) + (P - a)) % P
    BY <1>0, ModAdd
  <2>3. (Neg(b) + (P - a)) % P = ((P - b) + (P - a)) % P
    BY <2>2 DEF Neg
  <2> QED BY <2>1, <2>3
<1>6. (P - b) + (P - a) = (P - c) + P * (1 - d)
  <2>1. P * (1 - d) = P - P * d /\ P * d \in Int
    BY <1>0, <1>1
  <2> QED BY <2>1, <1>0, <1>1, <1>2
<1>7. ((P - b) + (P - a)) % P = (P - c) % P
  <2>1. P - c \in Int /\ 1 - d \in Int
    BY <1>0, <1>1, <1>2
  <2> QED BY <2>1, <1>6, ModShift
<1> QED BY <1>4, <1>5, <1>7 DEF Neg, c

LEMMA NegCancels == ASSUME NEW a \in Scalar PROVE (Neg(a) + a) % P = 0
<1>1. P - a \in Int /\ a \in Int /\ (P - a) + a = 0 + P * 1
  BY PrimeAssumption DEF Scalar
<1>2. (((P - a) % P) + a) % P = ((P - a) + a) % P
  BY <1>1, ModAdd
<1>3. (0 + P * 1) % P = 0 % P
  BY ModShift
<1>4. 0 % P = 0
  BY ModSmall, PrimeAssumption
<1> QED BY <1>1, <1>2, <1>3, <1>4 DEF Neg

-----------------------------------------------------------------------------
IsModel(s) == \E S : s \in Seq(S) /\ \A e \in S : IsEmission(e)

LEMMA ModelParts ==
  ASSUME NEW s, IsModel(s)
  PROVE  DOMAIN s = 1..Len(s) /\ Len(s) \in Nat /\ \A n \in 1..Len(s) : IsEmission(s[n])
<1>1. PICK S : s \in Seq(S) /\ \A e \in S : IsEmission(e)
  BY DEF IsModel
<1> QED BY <1>1

LEMMA SigmaGrows ==
  ASSUME NEW n \in Nat, NEW f \in [1..(n + 1) -> Int]
  PROVE  LET g == [m \in 1..n |-> f[m]]
         IN  Sigma(g) \in Scalar /\ Sigma(f) = (Sigma(g) + f[n + 1]) % P
<1> DEFINE g == [m \in 1..n |-> f[m]]
<1>1. IsFiniteSet(1..(n + 1)) /\ IsFiniteSet(1..n)
  BY FS_Interval
<1>2. n + 1 \in 1..(n + 1) /\ (1..(n + 1)) \ {n + 1} = 1..n
  OBVIOUS
<1>3. SumFunction(f) = f[n + 1] + SumFunction(Part(f, (1..(n + 1)) \ {n + 1}))
  BY <1>1, <1>2, SumRemove
<1>4. Part(f, (1..(n + 1)) \ {n + 1}) = g
  BY <1>2 DEF Part
<1>5. g \in [1..n -> Int]
  OBVIOUS
<1> HIDE DEF g
<1>6. SumFunction(g) \in Int /\ Sigma(g) \in Scalar
  BY <1>1, <1>5, SumTyped, SigmaTyped
<1>7. f[n + 1] \in Int
  BY <1>2
<1>8. SumFunction(f) = SumFunction(g) + f[n + 1]
  BY <1>3, <1>4, <1>6, <1>7
<1>9. ((SumFunction(g) % P) + f[n + 1]) % P = (SumFunction(g) + f[n + 1]) % P
  BY <1>6, <1>7, ModAdd
<1>10. Sigma(f) = (Sigma(g) + f[n + 1]) % P
  BY <1>8, <1>9 DEF Sigma
<1> QED BY <1>6, <1>10 DEF g

LEMMA ModelGrows ==
  ASSUME NEW s, IsModel(s), NEW e, IsEmission(e)
  PROVE  /\ IsModel(Append(s, e)) /\ Len(Append(s, e)) = Len(s) + 1
         /\ \A n \in 1..Len(s) : Append(s, e)[n] = s[n]
         /\ Append(s, e)[Len(s) + 1] = e
<1>1. PICK S : s \in Seq(S) /\ \A x \in S : IsEmission(x)
  BY DEF IsModel
<1> DEFINE T == S \cup {e}
           t == Append(s, e)
<1>2. s \in Seq(T) /\ \A x \in T : IsEmission(x)
  <2>1. \A n \in 1..Len(s) : s[n] \in T
    BY <1>1
  <2>2. s \in [1..Len(s) -> T] /\ Len(s) \in Nat
    BY <1>1, <2>1
  <2> QED BY <1>1, <2>2
<1>3. t \in Seq(T) /\ Len(t) = Len(s) + 1
  BY <1>2
<1>4. t[Len(s) + 1] = e /\ \A n \in 1..Len(s) : t[n] = s[n]
  BY <1>2
<1>5. IsModel(t)
  BY <1>2, <1>3 DEF IsModel
<1> QED BY <1>3, <1>4, <1>5 DEF t

LEMMA HessianGrows ==
  ASSUME NEW s, IsModel(s), NEW e, IsEmission(e), NEW i \in Nat, NEW j \in Nat
  PROVE  Interface!Hessian(Append(s, e), i, j)
           = (Interface!Hessian(s, i, j) + Interface!Information(e, i, j)) % P
<1> DEFINE t == Append(s, e)
           f == [n \in 1..(Len(s) + 1) |-> Interface!Information(t[n], i, j)]
           g == [n \in 1..Len(s) |-> Interface!Information(s[n], i, j)]
<1>1. /\ IsModel(t) /\ Len(t) = Len(s) + 1 /\ Len(s) \in Nat /\ t[Len(s) + 1] = e
      /\ \A n \in 1..Len(s) : t[n] = s[n]
  BY ModelGrows, ModelParts
<1> HIDE DEF t
<1>2. f \in [1..(Len(s) + 1) -> Int]
  <2>1. ASSUME NEW n \in 1..(Len(s) + 1) PROVE f[n] \in Int
    <3>1. IsEmission(t[n])
      BY <1>1, ModelParts
    <3>2. Interface!Information(t[n], i, j) \in Scalar
      BY <3>1, InformationTyped
    <3> QED BY <3>2 DEF Scalar
  <2>2. f = [n \in 1..(Len(s) + 1) |-> f[n]]
    OBVIOUS
  <2> HIDE DEF f
  <2> QED BY <2>1, <2>2
<1>3. g = [n \in 1..Len(s) |-> f[n]]
  BY <1>1
<1>4. Interface!Hessian(s, i, j) = Sigma(g)
  BY InterfaceSigma, ModelParts DEF Interface!Hessian
<1>5. Interface!Hessian(t, i, j) = Sigma(f)
  BY <1>1, InterfaceSigma, ModelParts DEF Interface!Hessian
<1>6. f[Len(s) + 1] = Interface!Information(e, i, j)
  BY <1>1
<1> HIDE DEF f, g
<1>7. Sigma(g) \in Scalar /\ Sigma(f) = (Sigma(g) + f[Len(s) + 1]) % P
  BY <1>1, <1>2, <1>3, SigmaGrows
<1> QED BY <1>4, <1>5, <1>6, <1>7 DEF t

LEMMA SlopeCovered ==
  ASSUME NEW e, IsEmission(e), NEW b \in DOMAIN e.blocks, NEW j \in Nat, Covers(e.blocks[b], j)
  PROVE  /\ Interface!Slope(e, j) = BlockGradient(e, e.blocks[b], j)
         /\ Interface!Slope(e, j) \in Scalar
<1> DEFINE f == [k \in 1..Len(e.residual) |-> Held(e.blocks[b], k, j) * e.residual[k]]
           h == [k \in 1..Len(e.residual) |-> Interface!Coefficient(e, k, j) * e.residual[k]]
<1>1. h = f
  BY CoefficientCovered
<1>2. f \in [1..Len(e.residual) -> Int]
  BY HeldTyped, ProductTyped, EmissionParts
<1>3. Interface!Slope(e, j) = Sigma(h)
  BY InterfaceSigma DEF Interface!Slope, Interface!Rows
<1>4. BlockGradient(e, e.blocks[b], j) = Sigma(f)
  BY DEF BlockGradient, Held
<1> HIDE DEF f, h
<1>5. Sigma(f) \in Scalar
  BY <1>2, EmissionParts, SigmaTyped
<1> QED BY <1>1, <1>3, <1>4, <1>5

LEMMA SlopeUncovered ==
  ASSUME NEW e, IsEmission(e), NEW j \in Nat, \A b \in DOMAIN e.blocks : ~Covers(e.blocks[b], j)
  PROVE  Interface!Slope(e, j) = 0
<1> DEFINE h == [k \in 1..Len(e.residual) |-> Interface!Coefficient(e, k, j) * e.residual[k]]
<1>1. ASSUME NEW k \in 1..Len(e.residual) PROVE h[k] = 0
  <2>1. e.residual[k] \in Int
    BY EmissionParts DEF Scalar
  <2> QED BY <2>1, CoefficientUncovered
<1>2. h \in [1..Len(e.residual) -> Int]
  <2>1. \A k \in 1..Len(e.residual) : h[k] \in Int
    <3> HIDE DEF h
    <3> QED BY <1>1
  <2>2. DOMAIN h = 1..Len(e.residual) /\ h = [k \in 1..Len(e.residual) |-> h[k]]
    OBVIOUS
  <2> HIDE DEF h
  <2> QED BY <2>1, <2>2
<1>3. Interface!Slope(e, j) = Sigma(h)
  BY InterfaceSigma DEF Interface!Slope, Interface!Rows
<1> HIDE DEF h
<1> QED BY <1>1, <1>2, <1>3, EmissionParts, SigmaZero

GradientsOf(e, j) == [i \in {b \in DOMAIN e.blocks : Covers(e.blocks[b], j)} |->
                        BlockGradient(e, e.blocks[i], j)]

(* What the blocks add to an entry of the gradient. *)
LEMMA SlopeIsSum ==
  ASSUME NEW e, IsEmission(e), NEW j \in Nat
  PROVE  Sigma(GradientsOf(e, j)) = Interface!Slope(e, j) /\ Interface!Slope(e, j) \in Scalar
<1> DEFINE D == {b \in DOMAIN e.blocks : Covers(e.blocks[b], j)}
<1>0. IsFiniteSet(D)
  BY EmissionParts, FS_Subset
<1>1. CASE D = {}
  <2>1. GradientsOf(e, j) \in [{} -> Int]
    BY <1>1 DEF GradientsOf
  <2>2. Sigma(GradientsOf(e, j)) = 0
    BY <2>1, FS_EmptySet, SigmaZero
  <2> QED BY <2>2, <1>1, SlopeUncovered, PrimeAssumption DEF Scalar
<1>2. ASSUME NEW b \in D
      PROVE  Sigma(GradientsOf(e, j)) = Interface!Slope(e, j) /\ Interface!Slope(e, j) \in Scalar
  <2>1. D = {b}
    BY OneCovers
  <2>2. BlockGradient(e, e.blocks[b], j) = Interface!Slope(e, j) /\ Interface!Slope(e, j) \in Scalar
    BY SlopeCovered
  <2>3. GradientsOf(e, j) \in [D -> Int] /\ GradientsOf(e, j)[b] = Interface!Slope(e, j)
    BY <2>1, <2>2 DEF GradientsOf, Scalar
  <2>4. Sigma(GradientsOf(e, j)) = GradientsOf(e, j)[b]
    BY <1>0, <2>1, <2>2, <2>3, SigmaSingle
  <2> QED BY <2>2, <2>3, <2>4
<1> QED BY <1>1, <1>2

LEMMA ModelTyped ==
  ASSUME NEW s, IsModel(s), NEW i \in Nat, NEW j \in Nat
  PROVE  Interface!Hessian(s, i, j) \in Scalar /\ Interface!Gradient(s, j) \in Scalar
<1>1. /\ DOMAIN s = 1..Len(s) /\ Len(s) \in Nat /\ \A n \in 1..Len(s) : IsEmission(s[n])
      /\ IsFiniteSet(1..Len(s))
  BY ModelParts, FS_Interval
<1>2. \A n \in 1..Len(s) : /\ Interface!Information(s[n], i, j) \in Scalar
                            /\ Interface!Slope(s[n], j) \in Scalar
  BY <1>1, InformationTyped, SlopeIsSum
<1> DEFINE f == [n \in 1..Len(s) |-> Interface!Information(s[n], i, j)]
           g == [n \in 1..Len(s) |-> Interface!Slope(s[n], j)]
<1>3. f \in [1..Len(s) -> Scalar] /\ g \in [1..Len(s) -> Scalar]
  BY <1>2
<1>4. Interface!Hessian(s, i, j) = Sigma(f) /\ Interface!Gradient(s, j) = Sigma(g)
  BY <1>1, InterfaceSigma DEF Interface!Hessian, Interface!Gradient
<1> HIDE DEF f, g
<1>5. f \in [1..Len(s) -> Int] /\ g \in [1..Len(s) -> Int]
  BY <1>3 DEF Scalar
<1> QED BY <1>1, <1>4, <1>5, SigmaTyped

LEMMA GradientGrows ==
  ASSUME NEW s, IsModel(s), NEW e, IsEmission(e), NEW j \in Nat
  PROVE  Interface!Gradient(Append(s, e), j) = (Interface!Gradient(s, j) + Interface!Slope(e, j)) % P
<1> DEFINE t == Append(s, e)
           f == [n \in 1..(Len(s) + 1) |-> Interface!Slope(t[n], j)]
           g == [n \in 1..Len(s) |-> Interface!Slope(s[n], j)]
<1>1. /\ IsModel(t) /\ Len(t) = Len(s) + 1 /\ Len(s) \in Nat /\ t[Len(s) + 1] = e
      /\ \A n \in 1..Len(s) : t[n] = s[n]
  BY ModelGrows, ModelParts
<1> HIDE DEF t
<1>2. f \in [1..(Len(s) + 1) -> Int]
  <2>1. ASSUME NEW n \in 1..(Len(s) + 1) PROVE f[n] \in Int
    <3>1. IsEmission(t[n])
      BY <1>1, ModelParts
    <3>2. Interface!Slope(t[n], j) \in Scalar
      BY <3>1, SlopeIsSum
    <3> QED BY <3>2 DEF Scalar
  <2>2. f = [n \in 1..(Len(s) + 1) |-> f[n]]
    OBVIOUS
  <2> HIDE DEF f
  <2> QED BY <2>1, <2>2
<1>3. g = [n \in 1..Len(s) |-> f[n]]
  BY <1>1
<1>4. Interface!Gradient(s, j) = Sigma(g)
  BY InterfaceSigma, ModelParts DEF Interface!Gradient
<1>5. Interface!Gradient(t, j) = Sigma(f)
  BY <1>1, InterfaceSigma, ModelParts DEF Interface!Gradient
<1>6. f[Len(s) + 1] = Interface!Slope(e, j)
  BY <1>1
<1> HIDE DEF f, g
<1>7. Sigma(g) \in Scalar /\ Sigma(f) = (Sigma(g) + f[Len(s) + 1]) % P
  BY <1>1, <1>2, <1>3, SigmaGrows
<1> QED BY <1>4, <1>5, <1>6, <1>7 DEF t

LEMMA NothingEmitted ==
  /\ IsModel(<<>>)
  /\ \A i, j : Interface!Hessian(<<>>, i, j) = 0
  /\ \A j : Interface!Gradient(<<>>, j) = 0
<1>1. IsFiniteSet({}) /\ DOMAIN <<>> = {} /\ IsModel(<<>>)
  <2>1. <<>> \in Seq({}) /\ DOMAIN <<>> = {}
    OBVIOUS
  <2> QED BY <2>1, FS_EmptySet DEF IsModel
<1>2. ASSUME NEW f \in [{} -> Int] PROVE Sigma(f) = 0
  BY <1>1, SigmaZero
<1>3. ASSUME NEW i, NEW j PROVE Interface!Hessian(<<>>, i, j) = 0
  <2>1. [n \in DOMAIN <<>> |-> Interface!Information(<<>>[n], i, j)] \in [{} -> Int]
    BY <1>1
  <2> QED BY <2>1, <1>2, InterfaceSigma DEF Interface!Hessian
<1>4. ASSUME NEW j PROVE Interface!Gradient(<<>>, j) = 0
  <2>1. [n \in DOMAIN <<>> |-> Interface!Slope(<<>>[n], j)] \in [{} -> Int]
    BY <1>1
  <2> QED BY <2>1, <1>2, InterfaceSigma DEF Interface!Gradient
<1> QED BY <1>1, <1>3, <1>4

-----------------------------------------------------------------------------
(* What one emission does to the normal matrix and its right-hand side.    *)
LEMMA MatrixAccumulates ==
  ASSUME NEW w, DOMAIN w = {"n", "content", "lower", "rhs", "factorized"},
         NEW e, IsEmission(e), NEW n \in Nat,
         NEW L, w.lower = L, DOMAIN L = Lower(n), \A p \in Lower(n) : L[p] \in Int
  PROVE  AccumulateNormal(w, e).lower
           = [p \in Lower(n) |-> (L[p] + Interface!Information(e, p[1], p[2])) % P]
<1>1. AccumulateNormal(w, e).lower
        = [p \in DOMAIN L |-> (L[p] + Sigma(Owns(e, p)) + Sigma(Couples(e, p))) % P]
  BY DEF AccumulateNormal, Owns, Couples, BlocksOf, PairsOf
<1>2. ASSUME NEW p \in Lower(n)
      PROVE  L[p] + Sigma(Owns(e, p)) + Sigma(Couples(e, p)) = L[p] + Interface!Information(e, p[1], p[2])
  <2>1. p \in Nat \X Nat /\ p[1] >= p[2]
    BY DEF Lower
  <2>2. /\ Sigma(Owns(e, p)) \in Int /\ Sigma(Couples(e, p)) \in Int /\ L[p] \in Int
        /\ Sigma(Owns(e, p)) + Sigma(Couples(e, p)) = Interface!Information(e, p[1], p[2])
    BY <2>1, ContributionsAddUp DEF Scalar
  <2> QED BY <2>2
<1> QED BY <1>1, <1>2

LEMMA RightHandSideAccumulates ==
  ASSUME NEW w, DOMAIN w = {"n", "content", "lower", "rhs", "factorized"},
         NEW e, IsEmission(e), NEW n \in Nat,
         NEW r, w.rhs = r, DOMAIN r = 0..(n - 1)
  PROVE  AccumulateNormal(w, e).rhs
           = [j \in 0..(n - 1) |-> (r[j] + Neg(Interface!Slope(e, j))) % P]
<1>1. AccumulateNormal(w, e).rhs
        = [j \in DOMAIN r |-> (r[j] + Neg(Sigma(GradientsOf(e, j)))) % P]
  BY DEF AccumulateNormal, GradientsOf
<1>2. \A j \in 0..(n - 1) : Sigma(GradientsOf(e, j)) = Interface!Slope(e, j)
  BY SlopeIsSum
<1> QED BY <1>1, <1>2

LEMMA AccumulateKeeps ==
  ASSUME NEW w, DOMAIN w = {"n", "content", "lower", "rhs", "factorized"}, NEW e
  PROVE  LET v == AccumulateNormal(w, e)
         IN  /\ DOMAIN v = {"n", "content", "lower", "rhs", "factorized"}
             /\ v.n = w.n /\ v.factorized = w.factorized
             /\ w.content = "information" => v.content = "information"
BY DEF AccumulateNormal

-----------------------------------------------------------------------------
(* The definitions that the instances have of their own are the same. *)
LEMMA DenseAccumulates == ASSUME NEW w, NEW e PROVE Dense!AccumulateNormal(w, e) = AccumulateNormal(w, e)
BY Zenon DEF Dense!AccumulateNormal, Dense!PairContribution, Dense!OwnContribution,
     Dense!BlockGradient, Dense!BlockProduct, Dense!Neg, Dense!Sigma, Dense!Covers,
     Dense!SumFunction, SumFunction, Dense!SumFunctionOnSet, SumFunctionOnSet,
     FoldFunctionOnSet, Dense!FoldFunctionOnSet, MapThenFoldSet, Dense!MapThenFoldSet,
     AccumulateNormal, PairContribution, OwnContribution, BlockGradient, BlockProduct, Sigma,
     Neg, Covers

LEMMA DenseSums == ASSUME NEW f PROVE Dense!B!Sigma(f) = Interface!Sigma(f)
BY Zenon DEF Dense!B!Sigma, Interface!Sigma, Dense!B!SumFunction, Interface!SumFunction,
     Dense!B!SumFunctionOnSet, Interface!SumFunctionOnSet, Interface!FoldFunctionOnSet,
     Dense!B!FoldFunctionOnSet, Interface!MapThenFoldSet, Dense!B!MapThenFoldSet

LEMMA DenseCoefficients ==
  ASSUME NEW e, NEW k, NEW j
  PROVE  Dense!B!Coefficient(e, k, j) = Interface!Coefficient(e, k, j)
BY Zenon, DenseSums DEF Dense!B!Coefficient, Interface!Coefficient, Dense!B!Covers, Interface!Covers

LEMMA DenseModel ==
  /\ \A s, i, j : Dense!B!Hessian(s, i, j) = Interface!Hessian(s, i, j)
  /\ \A s, j : Dense!B!Gradient(s, j) = Interface!Gradient(s, j)
<1>1. ASSUME NEW e, NEW i, NEW j PROVE Dense!B!Information(e, i, j) = Interface!Information(e, i, j)
  BY Zenon, DenseSums, DenseCoefficients
  DEF Dense!B!Information, Interface!Information, Dense!B!Rows, Interface!Rows
<1>2. ASSUME NEW e, NEW j PROVE Dense!B!Slope(e, j) = Interface!Slope(e, j)
  BY Zenon, DenseSums, DenseCoefficients
  DEF Dense!B!Slope, Interface!Slope, Dense!B!Rows, Interface!Rows
<1>3. ASSUME NEW s, NEW i, NEW j PROVE Dense!B!Hessian(s, i, j) = Interface!Hessian(s, i, j)
  BY Zenon, DenseSums, <1>1 DEF Dense!B!Hessian, Interface!Hessian
<1>4. ASSUME NEW s, NEW j PROVE Dense!B!Gradient(s, j) = Interface!Gradient(s, j)
  BY Zenon, DenseSums, <1>2 DEF Dense!B!Gradient, Interface!Gradient
<1> QED BY <1>3, <1>4

LEMMA DenseHessianOf ==
  ASSUME NEW n, NEW s
  PROVE  Dense!B!HessianOf(n, s) = [p \in Lower(n) |-> Interface!Hessian(s, p[1], p[2])]
BY Zenon, DenseModel DEF Dense!B!HessianOf, Dense!B!Lower, Lower

Fields == {"n", "content", "lower", "rhs", "factorized"}

(* What the dense backend keeps, of which the normal equations are the     *)
(* part a caller depends on.  While rows may still be accumulated, nothing *)
(* has been factored.                                                      *)
NormalIsSound ==
  backend = "dense" =>
    /\ DOMAIN normal = Fields
    /\ normal.n = dim /\ dim \in Nat
    /\ IsModel(sent)
    /\ normal.content \in Content
    /\ normal.factorized \in BOOLEAN
    /\ stage = "open" =>
         /\ normal.content = "information" /\ ~normal.factorized
         /\ normal.rhs = [j \in 0..(dim - 1) |-> Neg(Interface!Gradient(sent, j))]
    /\ stage \in {"open", "solved"} =>
         /\ normal.content # "ruins"
         /\ normal.lower = [p \in Lower(dim) |-> Interface!Hessian(sent, p[1], p[2])]
         /\ dim > 0 => (normal.factorized <=> normal.content = "factor")
         /\ normal.content = "factor" => ~Dense!Singular(dim, normal.lower)

LEMMA NormalSoundInit == Init => NormalIsSound
<1>1. SUFFICES ASSUME Init, backend = "dense" PROVE NormalIsSound
  BY DEF NormalIsSound
<1>2. normal = Dense!NewNormal /\ stage = "new" /\ dim = 0 /\ sent = <<>>
  BY <1>1 DEF Init, Dense!Init, Dense!B!Init
<1> QED BY <1>2, NothingEmitted DEF NormalIsSound, Dense!NewNormal, Fields, Content

LEMMA NormalSoundPrepare ==
  ASSUME NormalIsSound, backend = "dense", NEW n \in Dimensions["dense"], Dense!Prepare(n),
         UNCHANGED backend
  PROVE  NormalIsSound'
<1>1. n \in Nat
  BY BackendAssumption DEF Backends
<1>2. /\ normal' = Dense!PrepareNormal(normal, n) /\ stage' = "prepared"
      /\ dim' = n /\ sent' = <<>>
  BY DEF Dense!Prepare
<1>3. DOMAIN normal = Fields /\ normal.content \in Content
  BY DEF NormalIsSound
<1>4. /\ DOMAIN normal' = Fields /\ normal'.n = n /\ normal'.content = normal.content
      /\ normal'.factorized = FALSE
  BY <1>2, <1>3 DEF Dense!PrepareNormal, Fields
<1> QED BY <1>1, <1>2, <1>3, <1>4, NothingEmitted DEF NormalIsSound

LEMMA NormalSoundClear ==
  ASSUME NormalIsSound, backend = "dense", Dense!Clear, UNCHANGED backend
  PROVE  NormalIsSound'
<1>1. /\ normal' = Dense!ClearNormal(normal) /\ stage' = "open"
      /\ dim' = dim /\ sent' = <<>>
  BY DEF Dense!Clear
<1>2. DOMAIN normal = Fields /\ normal.n = dim /\ dim \in Nat
  BY DEF NormalIsSound
<1>3. /\ DOMAIN normal' = Fields /\ normal'.n = dim /\ normal'.content = "information"
      /\ normal'.factorized = FALSE
      /\ normal'.lower = [p \in Lower(dim) |-> 0] /\ normal'.rhs = [j \in 0..(dim - 1) |-> 0]
  BY <1>1, <1>2 DEF Dense!ClearNormal, Fields, Dense!Lower, Lower, Dense!Zeros
<1>4. /\ normal'.lower = [p \in Lower(dim) |-> Interface!Hessian(<<>>, p[1], p[2])]
      /\ normal'.rhs = [j \in 0..(dim - 1) |-> Neg(Interface!Gradient(<<>>, j))]
  BY <1>3, NothingEmitted, NegZero
<1> QED BY <1>1, <1>2, <1>3, <1>4, NothingEmitted DEF NormalIsSound, Content

LEMMA NormalSoundAccumulate ==
  ASSUME NormalIsSound, backend = "dense", NEW e \in Emission["dense"], Dense!Accumulate(e),
         UNCHANGED backend
  PROVE  NormalIsSound'
<1>0. IsEmission(e)
  BY BackendAssumption DEF Backends
<1>1. /\ normal' = AccumulateNormal(normal, e) /\ stage = "open" /\ stage' = "open"
      /\ dim' = dim /\ sent' = Append(sent, e)
  BY DenseAccumulates DEF Dense!Accumulate
<1>2. /\ DOMAIN normal = Fields /\ normal.n = dim /\ dim \in Nat /\ IsModel(sent)
      /\ normal.content = "information" /\ ~normal.factorized
      /\ normal.rhs = [j \in 0..(dim - 1) |-> Neg(Interface!Gradient(sent, j))]
      /\ normal.lower = [p \in Lower(dim) |-> Interface!Hessian(sent, p[1], p[2])]
  BY <1>1 DEF NormalIsSound
<1>3. /\ DOMAIN normal' = Fields /\ normal'.n = dim /\ normal'.content = "information"
      /\ normal'.factorized = normal.factorized
  BY <1>1, <1>2, AccumulateKeeps DEF Fields
<1>4. \A p \in Lower(dim) : p[1] \in Nat /\ p[2] \in Nat
  BY DEF Lower
<1>5. normal'.lower = [p \in Lower(dim) |-> Interface!Hessian(sent', p[1], p[2])]
  <2>1. \A p \in Lower(dim) : normal.lower[p] = Interface!Hessian(sent, p[1], p[2])
    BY <1>2
  <2>2. \A p \in Lower(dim) : normal.lower[p] \in Int
    <3>1. \A p \in Lower(dim) : Interface!Hessian(sent, p[1], p[2]) \in Scalar
      BY <1>0, <1>2, <1>4, ModelTyped
    <3> QED BY <2>1, <3>1 DEF Scalar
  <2>3. normal'.lower = [p \in Lower(dim) |-> (normal.lower[p] + Interface!Information(e, p[1], p[2])) % P]
    BY <1>0, <1>1, <1>2, <2>2, MatrixAccumulates DEF Fields
  <2>4. \A p \in Lower(dim) :
          (normal.lower[p] + Interface!Information(e, p[1], p[2])) % P = Interface!Hessian(sent', p[1], p[2])
    BY <2>1, <1>0, <1>1, <1>2, <1>4, HessianGrows
  <2> QED BY <2>3, <2>4
<1>6. normal'.rhs = [j \in 0..(dim - 1) |-> Neg(Interface!Gradient(sent', j))]
  <2>1. normal'.rhs = [j \in 0..(dim - 1) |-> (normal.rhs[j] + Neg(Interface!Slope(e, j))) % P]
    BY <1>0, <1>1, <1>2, RightHandSideAccumulates DEF Fields
  <2>2. ASSUME NEW j \in 0..(dim - 1)
        PROVE  (normal.rhs[j] + Neg(Interface!Slope(e, j))) % P = Neg(Interface!Gradient(sent', j))
    <3>1. normal.rhs[j] = Neg(Interface!Gradient(sent, j))
      BY <1>2
    <3>2. /\ Interface!Gradient(sent, j) \in Scalar /\ Interface!Slope(e, j) \in Scalar
          /\ Interface!Gradient(sent', j) = (Interface!Gradient(sent, j) + Interface!Slope(e, j)) % P
      BY <1>0, <1>1, <1>2, GradientGrows, ModelTyped, SlopeIsSum
    <3> QED BY <3>1, <3>2, NegAdds
  <2> QED BY <2>1, <2>2
<1>7. IsModel(sent')
  BY <1>0, <1>1, <1>2, ModelGrows
<1> QED BY <1>1, <1>2, <1>3, <1>5, <1>6, <1>7 DEF NormalIsSound, Content

(* What factorize leaves behind, if it succeeds: a factor of what was there*)
LEMMA FactorizeKeeps ==
  ASSUME NEW w, DOMAIN w = Fields, w.factorized \in BOOLEAN, w.content \in Content, w.n \in Nat,
         NEW overflowed \in BOOLEAN
  PROVE  LET f == Dense!Factorize(w, overflowed)
         IN  /\ DOMAIN f.w = Fields /\ f.w.n = w.n /\ f.w.lower = w.lower /\ f.w.rhs = w.rhs
             /\ f.w.factorized \in BOOLEAN /\ f.w.content \in Content
             /\ f.ok /\ w.n > 0 /\ w.content # "ruins"
                  /\ (w.factorized <=> w.content = "factor") =>
                  f.w.content = "factor" /\ f.w.factorized
             /\ w.n = 0 => f.w.content = w.content
             /\ f.w.content = "factor" =>
                  w.content = "factor" \/ ~Dense!Singular(w.n, w.lower)
<1> DEFINE f == Dense!Factorize(w, overflowed)
<1>1. \/ f.ok /\ f.w = w /\ w.factorized
      \/ f.ok /\ f.w = [w EXCEPT !.factorized = TRUE] /\ w.n = 0
      \/ ~f.ok /\ f.w = w /\ w.n # 0
      \/ /\ f.ok /\ f.w = [w EXCEPT !.content = "ruins", !.factorized = TRUE] /\ w.n # 0
         /\ ~w.factorized /\ w.content # "information"
      \/ ~f.ok /\ f.w = [w EXCEPT !.content = "ruins"] /\ w.n # 0
      \/ /\ f.ok /\ f.w = [w EXCEPT !.content = "factor", !.factorized = TRUE] /\ w.n # 0
         /\ ~Dense!Singular(w.n, w.lower)
  BY DEF Dense!Factorize
<1>3. CASE f.w = w
  BY <1>1, <1>3 DEF Fields
<1>4. CASE f.ok /\ f.w = [w EXCEPT !.factorized = TRUE] /\ w.n = 0
  BY <1>4 DEF Fields
<1>5. CASE /\ f.ok /\ f.w = [w EXCEPT !.content = "ruins", !.factorized = TRUE] /\ w.n # 0
           /\ ~w.factorized /\ w.content # "information"
  BY <1>5 DEF Fields, Content
<1>6. CASE ~f.ok /\ f.w = [w EXCEPT !.content = "ruins"] /\ w.n # 0
  BY <1>6 DEF Fields, Content
<1>7. CASE /\ f.ok /\ f.w = [w EXCEPT !.content = "factor", !.factorized = TRUE] /\ w.n # 0
           /\ ~Dense!Singular(w.n, w.lower)
  BY <1>7 DEF Fields, Content
<1> QED BY <1>1, <1>3, <1>4, <1>5, <1>6, <1>7

LEMMA NormalSoundSolve ==
  ASSUME NormalIsSound, backend = "dense", NEW overflowed \in BOOLEAN, Dense!Solve(overflowed),
         UNCHANGED backend
  PROVE  NormalIsSound'
<1> DEFINE f == IF normal.n = 0 THEN [ok |-> TRUE, w |-> normal]
                ELSE Dense!Factorize(normal, overflowed)
<1>1. /\ normal' = IF f.ok THEN Dense!SolveInPlace(f.w) ELSE f.w
      /\ stage = "open" /\ stage' = (IF f.ok THEN "solved" ELSE "failed")
      /\ dim' = dim /\ sent' = sent
  BY DEF Dense!Solve
<1>2. /\ DOMAIN normal = Fields /\ normal.n = dim /\ dim \in Nat /\ IsModel(sent)
      /\ normal.content = "information" /\ normal.factorized = FALSE
      /\ normal.lower = [p \in Lower(dim) |-> Interface!Hessian(sent, p[1], p[2])]
  BY <1>1 DEF NormalIsSound
<1>3. /\ DOMAIN f.w = Fields /\ f.w.n = dim /\ f.w.lower = normal.lower
      /\ f.w.factorized \in BOOLEAN /\ f.w.content \in Content
      /\ f.ok /\ dim > 0 => f.w.content = "factor" /\ f.w.factorized
      /\ dim = 0 => f.w.content = "information"
      /\ f.w.content = "factor" => ~Dense!Singular(dim, normal.lower)
  <2>1. CASE normal.n = 0
    <3>1. f.w = normal /\ normal.content \in Content
      BY <2>1, <1>2 DEF Content
    <3>2. dim = 0 /\ normal.factorized \in BOOLEAN /\ normal.content = "information"
      BY <2>1, <1>2
    <3> HIDE DEF f
    <3> QED BY <3>1, <3>2, <1>2
  <2>2. CASE normal.n # 0
    <3>1. normal.content \in Content /\ normal.content # "ruins" /\ normal.content # "factor"
      BY <1>2 DEF Content
    <3> QED BY <2>2, <3>1, <1>2, FactorizeKeeps
  <2> QED BY <2>1, <2>2
<1> HIDE DEF f
<1>4. /\ DOMAIN normal' = Fields /\ normal'.n = dim /\ normal'.lower = normal.lower
      /\ normal'.factorized = f.w.factorized /\ normal'.content = f.w.content
  BY <1>1, <1>3 DEF Dense!SolveInPlace, Fields
<1> QED BY <1>1, <1>2, <1>3, <1>4 DEF NormalIsSound

LEMMA NormalSoundCovariance ==
  ASSUME NormalIsSound, backend = "dense", NEW columns, NEW overflowed \in BOOLEAN,
         NEW screened \in BOOLEAN, Dense!Covariance(columns, overflowed, screened),
         UNCHANGED backend
  PROVE  NormalIsSound'
<1> DEFINE f == Dense!Factorize(normal, overflowed)
<1>1. /\ normal' = f.w
      /\ stage \in {"open", "solved"} /\ stage' = (IF f.ok THEN "solved" ELSE "failed")
      /\ dim' = dim /\ sent' = sent
  BY DEF Dense!Covariance
<1>2. /\ DOMAIN normal = Fields /\ normal.n = dim /\ dim \in Nat /\ IsModel(sent)
      /\ normal.content # "ruins" /\ normal.content \in Content /\ normal.factorized \in BOOLEAN
      /\ normal.lower = [p \in Lower(dim) |-> Interface!Hessian(sent, p[1], p[2])]
      /\ dim > 0 => (normal.factorized <=> normal.content = "factor")
      /\ normal.content = "factor" => ~Dense!Singular(dim, normal.lower)
  BY <1>1 DEF NormalIsSound
<1>3. /\ DOMAIN f.w = Fields /\ f.w.n = dim /\ f.w.lower = normal.lower
      /\ f.w.factorized \in BOOLEAN /\ f.w.content \in Content
      /\ f.ok /\ dim > 0 => f.w.content = "factor" /\ f.w.factorized
      /\ dim = 0 => f.w.content = normal.content
      /\ f.w.content = "factor" => ~Dense!Singular(dim, normal.lower)
  <2>1. /\ DOMAIN f.w = Fields /\ f.w.n = normal.n /\ f.w.lower = normal.lower
        /\ f.w.factorized \in BOOLEAN /\ f.w.content \in Content
        /\ f.ok /\ normal.n > 0 => f.w.content = "factor" /\ f.w.factorized
    BY <1>2, FactorizeKeeps
  <2>2. /\ normal.n = 0 => f.w.content = normal.content
        /\ f.w.content = "factor" =>
             normal.content = "factor" \/ ~Dense!Singular(normal.n, normal.lower)
    BY <1>2, FactorizeKeeps
  <2>3. /\ normal.n = dim
        /\ normal.content = "factor" => ~Dense!Singular(dim, normal.lower)
    BY <1>2
  <2> HIDE DEF f
  <2> QED BY <2>1, <2>2, <2>3, Zenon
<1> HIDE DEF f
<1> QED BY <1>1, <1>2, <1>3 DEF NormalIsSound

LEMMA NormalSoundNext == NormalIsSound /\ [Next]_vars => NormalIsSound'
<1> SUFFICES ASSUME NormalIsSound, [Next]_vars PROVE NormalIsSound'
  OBVIOUS
<1>1. CASE DenseCall
  <2> USE <1>1 DEF DenseCall
  <2>1. CASE \E n \in Dimensions["dense"] : Dense!Prepare(n)
    BY <2>1, NormalSoundPrepare
  <2>2. CASE Dense!Clear
    BY <2>2, NormalSoundClear
  <2>3. CASE \E e \in Emission["dense"] : Dense!Accumulate(e)
    BY <2>3, NormalSoundAccumulate
  <2>4. CASE \E overflowed \in BOOLEAN : Dense!Solve(overflowed)
    BY <2>4, NormalSoundSolve
  <2>5. CASE \E columns \in Selections, overflowed, screened \in BOOLEAN :
               Dense!Covariance(columns, overflowed, screened)
    BY <2>5, NormalSoundCovariance
  <2> QED BY <2>1, <2>2, <2>3, <2>4, <2>5 DEF Dense!Next
<1>2. CASE LsmrCall \/ SchurCall
  BY <1>2 DEF LsmrCall, SchurCall, NormalIsSound
<1>3. CASE UNCHANGED vars
  BY <1>3 DEF vars, interface, ofDense, NormalIsSound
<1> QED BY <1>1, <1>2, <1>3 DEF Next

LEMMA NormalSoundMeans == NormalIsSound => NormalInvariant
<1> SUFFICES ASSUME NormalIsSound, backend = "dense" PROVE Dense!NormalInvariant
  BY DEF NormalInvariant
<1>1. Dense!Content = Content
  BY DEF Dense!Content, Content
<1>2. \A s, j : Dense!Neg(Dense!B!Gradient(s, j)) = Neg(Interface!Gradient(s, j))
  BY Zenon, DenseModel DEF Dense!Neg, Neg
<1> QED BY <1>1, <1>2, DenseHessianOf DEF NormalIsSound, Dense!NormalInvariant

(* The normal matrix that DenseNormalCholesky has assembled block by block, *)
(* and what a factorization in place has factored, is the lower triangle of *)
(* J^T J of exactly the rows accumulated since the last clear, for any      *)
(* emissions of any number of blocks and rows over any dimensions           *)
(* (normal.rs:94-301).                                                      *)
THEOREM DenseNormalHolds == Spec => []NormalInvariant
<1>1. Spec => []NormalIsSound
  BY NormalSoundInit, NormalSoundNext, PTL DEF Spec
<1> QED BY <1>1, NormalSoundMeans, PTL

-----------------------------------------------------------------------------
(* Sums modulo P. *)
LEMMA ModDifference ==
  ASSUME NEW a \in Int, NEW b \in Int, a % P = b % P
  PROVE  \E q \in Int : a = b + P * q
<1> DEFINE c == a \div P
           d == b \div P
           m == a % P
<1>1. m \in 0..(P - 1) /\ c \in Int /\ d \in Int /\ a = P * c + m /\ b = P * d + m
  BY ModDef
<1> HIDE DEF c, d, m
<1>2. P * (c - d) = P * c - P * d /\ P * c \in Int /\ P * d \in Int /\ c - d \in Int
  BY <1>1, PrimeAssumption
<1>3. a = b + P * (c - d)
  BY <1>1, <1>2, PrimeAssumption
<1> QED BY <1>2, <1>3

LEMMA SigmaCongruent ==
  ASSUME NEW D, IsFiniteSet(D), NEW f \in [D -> Int], NEW g \in [D -> Int],
         \A x \in D : f[x] % P = g[x] % P
  PROVE  Sigma(f) = Sigma(g)
<1> DEFINE q == [x \in D |-> CHOOSE c \in Int : f[x] = g[x] + P * c]
           r == [x \in D |-> P * q[x]]
<1>1. \A x \in D : \E c \in Int : f[x] = g[x] + P * c
  BY ModDifference
<1>2. q \in [D -> Int] /\ \A x \in D : f[x] = g[x] + P * q[x]
  BY <1>1
<1> HIDE DEF q
<1>3. r \in [D -> Int] /\ \A x \in D : r[x] = P * q[x]
  BY <1>2, PrimeAssumption
<1>4. SumFunction(r) = P * SumFunction(q)
  BY <1>2, SumScale, PrimeAssumption
<1> HIDE DEF r
<1>5. f = [x \in D |-> g[x] + r[x]]
  BY <1>2, <1>3
<1>6. SumFunction(f) = SumFunction(g) + SumFunction(r)
  BY <1>3, <1>5, SumAdd
<1>7. SumFunction(g) \in Int /\ SumFunction(q) \in Int
  BY <1>2, SumTyped
<1> QED BY <1>4, <1>6, <1>7, ModShift DEF Sigma

LEMMA SigmaAdd ==
  ASSUME NEW D, IsFiniteSet(D), NEW f \in [D -> Int], NEW g \in [D -> Int],
         NEW s, s = [x \in D |-> f[x] + g[x]]
  PROVE  Sigma(s) = (Sigma(f) + Sigma(g)) % P
<1>1. SumFunction(s) = SumFunction(f) + SumFunction(g)
  BY SumAdd
<1> DEFINE F == SumFunction(f)
           G == SumFunction(g)
<1>2. F \in Int /\ G \in Int
  BY SumTyped
<1> HIDE DEF F, G
<1>3. F % P \in Int /\ G % P \in Int
  BY <1>2, ModAdd
<1>4. ((F % P) + (G % P)) % P = (F + (G % P)) % P
  BY <1>2, <1>3, ModAdd
<1>5. ((G % P) + F) % P = (G + F) % P
  BY <1>2, ModAdd
<1>6. F + (G % P) = (G % P) + F /\ G + F = F + G
  BY <1>2, <1>3
<1> QED BY <1>1, <1>4, <1>5, <1>6 DEF Sigma, F, G

LEMMA SigmaScale ==
  ASSUME NEW D, IsFiniteSet(D), NEW c \in Int, NEW f \in [D -> Int],
         NEW s, s = [x \in D |-> c * f[x]]
  PROVE  Sigma(s) = (c * Sigma(f)) % P
<1>1. SumFunction(s) = c * SumFunction(f)
  BY SumScale
<1> DEFINE F == SumFunction(f)
<1>2. F \in Int
  BY SumTyped
<1> HIDE DEF F
<1>3. ((F % P) * c) % P = (F * c) % P /\ F % P \in Int
  <2>1. ((F % P) * c) % P = (F * c) % P
    BY <1>2, ModMul
  <2>2. F % P \in Int
    BY <1>2, ModDef
  <2> QED BY <2>1, <2>2
<1>4. (F % P) * c = c * (F % P) /\ F * c = c * F
  BY <1>2, <1>3
<1> QED BY <1>1, <1>3, <1>4 DEF Sigma, F

-----------------------------------------------------------------------------
(* Vectors are finitely many. *)
LEMMA FunctionsFinite ==
  ASSUME NEW D, IsFiniteSet(D), NEW S, IsFiniteSet(S)
  PROVE  IsFiniteSet([D -> S])
<1> DEFINE G == [f \in [D -> S] |-> {<<x, f[x]>> : x \in D}]
<1>1. IsFiniteSet(SUBSET (D \X S))
  BY FS_Product, FS_SUBSET
<1>2. G \in [[D -> S] -> SUBSET (D \X S)]
  OBVIOUS
<1>3. ASSUME NEW f \in [D -> S], NEW g \in [D -> S], G[f] = G[g]
      PROVE  f = g
  <2>1. ASSUME NEW x \in D PROVE f[x] = g[x]
    <3>1. <<x, f[x]>> \in G[f]
      OBVIOUS
    <3>2. PICK y \in D : <<x, f[x]>> = <<y, g[y]>>
      BY <3>1, <1>3
    <3> QED BY <3>2
  <2> QED BY <2>1
<1>4. G \in Injection([D -> S], SUBSET (D \X S))
  BY <1>2, <1>3 DEF Injection, IsInjective
<1> QED BY <1>1, <1>4, FS_Injection DEF ExistsInjection

-----------------------------------------------------------------------------
(* Systems of equations. *)
Entries(L, i, n) == [j \in 0..(n - 1) |-> At(L, i, j)]
Products(L, i, x, n) == [j \in 0..(n - 1) |-> At(L, i, j) * x[j]]

LEMMA VectorsFinite ==
  ASSUME NEW n \in Nat
  PROVE  IsFiniteSet(0..(n - 1)) /\ IsFiniteSet(Vector(n)) /\ Scalar \subseteq Int /\ 0 \in Scalar
<1>1. IsFiniteSet(0..(n - 1))
  BY FS_Interval
<1>2. IsFiniteSet(Scalar) /\ Scalar \subseteq Int /\ 0 \in Scalar
  BY FS_Interval, PrimeAssumption DEF Scalar
<1> QED BY <1>1, <1>2, FunctionsFinite DEF Vector

LEMMA EntriesTyped ==
  ASSUME NEW n \in Nat, NEW L \in [Lower(n) -> Int], NEW i \in 0..(n - 1), NEW j \in 0..(n - 1)
  PROVE  At(L, i, j) \in Int
<1>1. i >= j \/ j >= i
  OBVIOUS
<1>2. i >= j => <<i, j>> \in Lower(n)
  BY DEF Lower
<1>3. ~(i >= j) => <<j, i>> \in Lower(n)
  BY DEF Lower
<1> QED BY <1>2, <1>3 DEF At

LEMMA ProductsTyped ==
  ASSUME NEW n \in Nat, NEW L \in [Lower(n) -> Int], NEW i \in 0..(n - 1), NEW x \in Vector(n)
  PROVE  Products(L, i, x, n) \in [0..(n - 1) -> Int]
<1>1. ASSUME NEW j \in 0..(n - 1) PROVE At(L, i, j) * x[j] \in Int
  <2>1. At(L, i, j) \in Int
    BY EntriesTyped
  <2>2. x[j] \in Int
    BY VectorsFinite DEF Vector
  <2> QED BY <2>1, <2>2
<1> QED BY <1>1 DEF Products

(* Modulo P, a matrix maps a difference to the difference. *)
LEMMA ProductsSubtract ==
  ASSUME NEW n \in Nat, NEW L \in [Lower(n) -> Int], NEW i \in 0..(n - 1),
         NEW x \in Vector(n), NEW y \in Vector(n),
         NEW z \in Vector(n), \A j \in 0..(n - 1) : z[j] = (x[j] - y[j]) % P,
         Sigma(Products(L, i, x, n)) = Sigma(Products(L, i, y, n))
  PROVE  Sigma(Products(L, i, z, n)) = 0
<1> DEFINE D == 0..(n - 1)
           X == Products(L, i, x, n)
           Y == Products(L, i, y, n)
           Z == Products(L, i, z, n)
           N == [j \in D |-> (-1) * Y[j]]
           W == [j \in D |-> X[j] + N[j]]
<1>0. IsFiniteSet(D)
  BY VectorsFinite
<1>1. X \in [D -> Int] /\ Y \in [D -> Int] /\ Z \in [D -> Int]
  BY ProductsTyped
<1>2. N \in [D -> Int]
  BY <1>1
<1>3. W \in [D -> Int]
  BY <1>1, <1>2
<1>4. ASSUME NEW j \in D PROVE Z[j] % P = W[j] % P
  <2> DEFINE a == At(L, i, j)
  <2>1. a \in Int /\ x[j] \in Int /\ y[j] \in Int
    BY EntriesTyped, VectorsFinite DEF Vector
  <2>2. X[j] = a * x[j] /\ Y[j] = a * y[j] /\ Z[j] = a * ((x[j] - y[j]) % P)
    BY DEF Products
  <2> HIDE DEF a, X, Y, Z
  <2>3. (x[j] - y[j]) % P \in Int /\ (((x[j] - y[j]) % P) * a) % P = ((x[j] - y[j]) * a) % P
    <3>1. x[j] - y[j] \in Int
      BY <2>1
    <3>2. (x[j] - y[j]) % P \in Int
      BY <3>1, ModAdd
    <3>3. (((x[j] - y[j]) % P) * a) % P = ((x[j] - y[j]) * a) % P
      BY <2>1, <3>1, ModMul
    <3> QED BY <3>2, <3>3
  <2>4. W[j] = (x[j] - y[j]) * a
    BY <2>1, <2>2
  <2>5. Z[j] = ((x[j] - y[j]) % P) * a
    BY <2>1, <2>2, <2>3
  <2> QED BY <2>3, <2>4, <2>5
<1>n. N = [j \in D |-> (-1) * Y[j]]
  OBVIOUS
<1>w. W = [j \in D |-> X[j] + N[j]]
  OBVIOUS
<1> HIDE DEF X, Y, Z, N, W, D
<1>5. Sigma(Z) = Sigma(W)
  BY <1>0, <1>1, <1>3, <1>4, SigmaCongruent
<1>6. SumFunction(N) = (-1) * SumFunction(Y)
  BY <1>0, <1>1, <1>n, SumScale
<1>7. SumFunction(W) = SumFunction(X) + SumFunction(N)
  BY <1>0, <1>1, <1>2, <1>w, SumAdd
<1>8. SumFunction(X) \in Int /\ SumFunction(Y) \in Int
  BY <1>0, <1>1, SumTyped
<1>9. SumFunction(X) % P = SumFunction(Y) % P
  BY DEF Sigma, X, Y
<1>10. PICK q \in Int : SumFunction(X) = SumFunction(Y) + P * q
  BY <1>8, <1>9, ModDifference
<1>11. SumFunction(W) = 0 + P * q
  BY <1>6, <1>7, <1>8, <1>10, PrimeAssumption
<1>12. Sigma(W) = 0
  <2>1. (0 + P * q) % P = 0 % P
    BY ModShift
  <2>2. 0 % P = 0
    BY ModSmall, PrimeAssumption
  <2> QED BY <1>11, <2>1, <2>2 DEF Sigma
<1> QED BY <1>5, <1>12 DEF Z

(* A matrix that is not singular has a solution for every right-hand side. *)
LEMMA SolutionExists ==
  ASSUME NEW n \in Nat, NEW L \in [Lower(n) -> Int], ~Singular(n, L), NEW b \in Vector(n)
  PROVE  Solution(n, L, b) \in Vector(n) /\ IsSolution(n, L, b, Solution(n, L, b))
<1> DEFINE D == 0..(n - 1)
           F == [x \in Vector(n) |-> [i \in D |-> Sigma(Products(L, i, x, n))]]
<1>1. F \in [Vector(n) -> Vector(n)]
  <2>1. ASSUME NEW x \in Vector(n), NEW i \in D PROVE Sigma(Products(L, i, x, n)) \in Scalar
    BY ProductsTyped, VectorsFinite, SigmaTyped
  <2> QED BY <2>1 DEF Vector
<1>2. ASSUME NEW x \in Vector(n), NEW y \in Vector(n), F[x] = F[y]
      PROVE  x = y
  <2> DEFINE z == [j \in D |-> (x[j] - y[j]) % P]
  <2>0. \A j \in D : x[j] \in Scalar /\ y[j] \in Scalar /\ x[j] \in Int /\ y[j] \in Int
    BY VectorsFinite DEF Vector
  <2>1. z \in Vector(n) /\ \A j \in D : z[j] = (x[j] - y[j]) % P
    <3>1. \A j \in D : (x[j] - y[j]) % P \in Scalar
      BY <2>0, ModDef DEF Scalar
    <3> QED BY <3>1 DEF Vector
  <2> HIDE DEF z
  <2>2. ASSUME NEW i \in D PROVE Sigma(Products(L, i, z, n)) = 0
    <3>1. Sigma(Products(L, i, x, n)) = Sigma(Products(L, i, y, n))
      <4>1. F[x][i] = Sigma(Products(L, i, x, n)) /\ F[y][i] = Sigma(Products(L, i, y, n))
        OBVIOUS
      <4> QED BY <4>1, <1>2
    <3> QED BY <3>1, <2>1, ProductsSubtract
  <2>3. IsSolution(n, L, Zeros(n), z)
    BY <2>2 DEF IsSolution, Zeros, Products
  <2>4. z = Zeros(n)
    BY <2>1, <2>3 DEF Singular
  <2>5. ASSUME NEW j \in D PROVE x[j] = y[j]
    <3>1. (x[j] - y[j]) % P = 0 % P
      BY <2>1, <2>4, ModSmall, PrimeAssumption DEF Zeros
    <3>2. PICK q \in Int : x[j] - y[j] = 0 + P * q
      BY <2>0, <3>1, ModDifference
    <3>3. q = 0
      <4>0. P * q \in Int /\ P \in Int
        BY PrimeAssumption
      <4>1. - P < P * q /\ P * q < P
        BY <2>0, <3>2, <4>0 DEF Scalar
      <4> QED BY <4>1, NoMultiple
    <3> QED BY <2>0, <3>2, <3>3, PrimeAssumption
  <2> QED BY <2>5 DEF Vector
<1>3. F \in Injection(Vector(n), Vector(n))
  BY <1>1, <1>2 DEF Injection, IsInjective
<1>4. F \in Surjection(Vector(n), Vector(n))
  BY <1>3, VectorsFinite, FS_Injection
<1>5. PICK x \in Vector(n) : F[x] = b
  BY <1>4 DEF Surjection
<1>6. IsSolution(n, L, b, x)
  BY <1>5 DEF IsSolution, Products
<1> QED BY <1>6 DEF Solution

-----------------------------------------------------------------------------
(* The same definitions in the instances. *)
LEMMA SameSystems ==
  ASSUME NEW n, NEW L, NEW b, NEW x
  PROVE  /\ Dense!IsSolution(n, L, b, x) <=> IsSolution(n, L, b, x)
         /\ Interface!IsSolution(n, L, b, x) <=> IsSolution(n, L, b, x)
<1>1. \A f : Dense!Sigma(f) = Sigma(f)
  BY Zenon DEF Dense!Sigma, Sigma, Dense!SumFunction, SumFunction, Dense!SumFunctionOnSet,
     SumFunctionOnSet, FoldFunctionOnSet, Dense!FoldFunctionOnSet, MapThenFoldSet, Dense!MapThenFoldSet
<1>2. Dense!IsSolution(n, L, b, x) <=> IsSolution(n, L, b, x)
  BY <1>1, Zenon DEF Dense!IsSolution, IsSolution, Dense!At, At
<1>3. Interface!IsSolution(n, L, b, x) <=> IsSolution(n, L, b, x)
  BY InterfaceSigma, Zenon DEF Interface!IsSolution, IsSolution, Interface!At, At
<1> QED BY <1>2, <1>3

LEMMA SameVectors ==
  ASSUME NEW n PROVE Dense!Vector(n) = Vector(n) /\ Interface!Vector(n) = Vector(n)
BY DEF Dense!Vector, Interface!Vector, Vector, Dense!Scalar, Interface!Scalar, Scalar

LEMMA SameSingular ==
  ASSUME NEW n, NEW L PROVE Dense!Singular(n, L) <=> Singular(n, L)
<1>1. Dense!Zeros(n) = Zeros(n)
  BY DEF Dense!Zeros, Zeros
<1> QED BY <1>1, SameVectors, SameSystems, Zenon DEF Dense!Singular, Singular

LEMMA DenseSolution ==
  ASSUME NEW n \in Nat, NEW L \in [Lower(n) -> Int], ~Dense!Singular(n, L), NEW b \in Vector(n)
  PROVE  Dense!Solution(n, L, b) \in Vector(n) /\ IsSolution(n, L, b, Dense!Solution(n, L, b))
<1>1. \E x \in Vector(n) : IsSolution(n, L, b, x)
  BY SameSingular, SolutionExists
<1> QED BY <1>1, SameVectors, SameSystems, Zenon DEF Dense!Solution

-----------------------------------------------------------------------------
(* The information is symmetric, so its lower triangle is all of it. *)
InformationOf(n, s) == [p \in Lower(n) |-> Interface!Hessian(s, p[1], p[2])]

LEMMA InformationSymmetric ==
  ASSUME NEW e, IsEmission(e), NEW i \in Nat, NEW j \in Nat
  PROVE  Interface!Information(e, i, j) = Interface!Information(e, j, i)
<1> DEFINE f == [k \in 1..Len(e.residual) |-> Interface!Coefficient(e, k, i) * Interface!Coefficient(e, k, j)]
           g == [k \in 1..Len(e.residual) |-> Interface!Coefficient(e, k, j) * Interface!Coefficient(e, k, i)]
<1>1. ASSUME NEW k \in 1..Len(e.residual)
      PROVE  Interface!Coefficient(e, k, i) * Interface!Coefficient(e, k, j)
               = Interface!Coefficient(e, k, j) * Interface!Coefficient(e, k, i)
  <2>1. Interface!Coefficient(e, k, i) \in Int /\ Interface!Coefficient(e, k, j) \in Int
    BY CoefficientTyped DEF Scalar
  <2> QED BY <2>1
<1>2. f = g
  BY <1>1
<1> QED BY <1>2, InterfaceSigma DEF Interface!Information, Interface!Rows

LEMMA InformationOfTyped ==
  ASSUME NEW n \in Nat, NEW s, IsModel(s)
  PROVE  /\ InformationOf(n, s) \in [Lower(n) -> Int]
         /\ \A i, j \in 0..(n - 1) : At(InformationOf(n, s), i, j) = Interface!Hessian(s, i, j)
<1>1. ASSUME NEW p \in Lower(n) PROVE Interface!Hessian(s, p[1], p[2]) \in Int
  <2>1. p[1] \in Nat /\ p[2] \in Nat
    BY DEF Lower
  <2>2. Interface!Hessian(s, p[1], p[2]) \in Scalar
    BY <2>1, ModelTyped
  <2> QED BY <2>2 DEF Scalar
<1>2. ASSUME NEW i \in Nat, NEW j \in Nat
      PROVE  Interface!Hessian(s, i, j) = Interface!Hessian(s, j, i)
  <2>1. \A m \in DOMAIN s : Interface!Information(s[m], i, j) = Interface!Information(s[m], j, i)
    BY ModelParts, InformationSymmetric
  <2> QED BY <2>1 DEF Interface!Hessian
<1>3. ASSUME NEW i \in 0..(n - 1), NEW j \in 0..(n - 1)
      PROVE  At(InformationOf(n, s), i, j) = Interface!Hessian(s, i, j)
  <2>1. CASE i >= j
    <3>1. <<i, j>> \in Lower(n)
      BY <2>1 DEF Lower
    <3> QED BY <2>1, <3>1 DEF At, InformationOf
  <2>2. CASE ~(i >= j)
    <3>1. <<j, i>> \in Lower(n)
      BY <2>2 DEF Lower
    <3>2. At(InformationOf(n, s), i, j) = Interface!Hessian(s, j, i)
      BY <2>2, <3>1 DEF At, InformationOf
    <3> QED BY <3>2, <1>2
  <2> QED BY <2>1, <2>2
<1> QED BY <1>1, <1>3 DEF InformationOf

(* The solution of the normal equations minimizes the least squares. *)
LEMMA SolutionSolves ==
  ASSUME NEW n \in Nat, NEW s, IsModel(s), NEW x \in Vector(n),
         IsSolution(n, InformationOf(n, s), [j \in 0..(n - 1) |-> Neg(Interface!Gradient(s, j))], x)
  PROVE  Interface!Solves(n, s, 0, x)
<1>1. SUFFICES ASSUME NEW i \in 0..(n - 1)
      PROVE  (Interface!Sigma([j \in 0..(n - 1) |-> Interface!Hessian(s, i, j) * x[j]])
                + Interface!Gradient(s, i)
                + 0 * Interface!ColumnScale(s, i) * Interface!ColumnScale(s, i) * x[i]) % P = 0
  BY DEF Interface!Solves
<1> DEFINE G == Interface!Gradient(s, i)
           S == Interface!Sigma([j \in 0..(n - 1) |-> Interface!Hessian(s, i, j) * x[j]])
<1>2. S = Neg(G)
  <2>1. \A j \in 0..(n - 1) : At(InformationOf(n, s), i, j) = Interface!Hessian(s, i, j)
    BY InformationOfTyped
  <2>2. [j \in 0..(n - 1) |-> At(InformationOf(n, s), i, j) * x[j]]
          = [j \in 0..(n - 1) |-> Interface!Hessian(s, i, j) * x[j]]
    BY <2>1
  <2>3. Sigma([j \in 0..(n - 1) |-> At(InformationOf(n, s), i, j) * x[j]]) = Neg(G)
    BY DEF IsSolution
  <2> QED BY <2>2, <2>3, InterfaceSigma
<1>3. G \in Scalar
  BY ModelTyped
<1>4. 0 * Interface!ColumnScale(s, i) * Interface!ColumnScale(s, i) * x[i] = 0
  <2>1. Interface!Hessian(s, i, i) \in Int
    BY ModelTyped DEF Scalar
  <2>2. Interface!ColumnScale(s, i) \in Int
    BY <2>1 DEF Interface!ColumnScale, Interface!Floored
  <2>3. x[i] \in Int
    BY DEF Vector, Scalar
  <2> QED BY <2>2, <2>3
<1>5. Neg(G) \in Int /\ G \in Int
  BY <1>3, NegTyped DEF Scalar
<1> HIDE DEF G, S
<1>6. (S + G + 0) % P = 0
  BY <1>2, <1>3, <1>5, NegCancels
<1> QED BY <1>4, <1>6 DEF G, S

-----------------------------------------------------------------------------
(* Each call of the dense backend is a step of the interface.              *)
LEMMA DenseNames ==
  Dense!B!NoAnswer = Interface!NoAnswer /\ Dense!B!Error = Interface!Error
BY DEF Dense!B!NoAnswer, Interface!NoAnswer, Dense!B!Error, Interface!Error

LEMMA DenseSolves ==
  ASSUME NormalIsSound, backend = "dense", NEW overflowed \in BOOLEAN, Dense!Solve(overflowed)
  PROVE  Interface!Step \/ Interface!Fail
<1> DEFINE f == IF normal.n = 0 THEN [ok |-> TRUE, w |-> normal]
                ELSE Dense!Factorize(normal, overflowed)
           x == Dense!SolveInPlace(f.w).rhs
<1>1. /\ answer' = IF f.ok THEN [kind |-> "step", delta |-> x] ELSE Interface!Error
      /\ stage = "open" /\ dim' = dim /\ sent' = sent
  BY DenseNames DEF Dense!Solve
<1>2. /\ DOMAIN normal = Fields /\ normal.n = dim /\ dim \in Nat /\ IsModel(sent)
      /\ normal.content = "information" /\ normal.factorized = FALSE
      /\ normal.lower = InformationOf(dim, sent)
      /\ normal.rhs = [j \in 0..(dim - 1) |-> Neg(Interface!Gradient(sent, j))]
  BY <1>1 DEF NormalIsSound, InformationOf
<1>3. CASE ~f.ok
  BY <1>1, <1>3 DEF Interface!Fail
<1>4. CASE f.ok /\ dim = 0
  <2>1. 0..(dim - 1) = {}
    BY <1>4
  <2>2. Interface!Solves(dim, sent, 0, x)
    BY <2>1 DEF Interface!Solves
  <2> HIDE DEF f, x
  <2> QED BY <1>1, <1>4, <2>2 DEF Interface!Step
<1>5. CASE f.ok /\ dim # 0
  <2> DEFINE r == [j \in 0..(dim - 1) |-> Neg(Interface!Gradient(sent, j))]
             L == InformationOf(dim, sent)
  <2>1. f = Dense!Factorize(normal, overflowed)
    BY <1>2, <1>5
  <2>2. /\ DOMAIN f.w = Fields /\ f.w.n = dim /\ f.w.lower = L /\ f.w.rhs = r
        /\ f.w.content = "factor" /\ ~Dense!Singular(dim, L)
    <3>1. normal.content \in Content /\ normal.content # "ruins" /\ normal.content # "factor"
      BY <1>2 DEF Content
    <3>2. normal.n > 0 /\ normal.n \in Nat
      BY <1>2, <1>5
    <3> QED BY <2>1, <1>2, <1>5, <3>1, <3>2, FactorizeKeeps
  <2> HIDE DEF f
  <2>3. x = Dense!Solution(dim, L, r)
    BY <2>2, <1>5 DEF Dense!SolveInPlace, Dense!SolveFactored, Fields
  <2>4. r \in Vector(dim)
    <3>1. ASSUME NEW j \in 0..(dim - 1) PROVE Neg(Interface!Gradient(sent, j)) \in Scalar
      BY <1>2, ModelTyped, NegTyped
    <3> QED BY <3>1 DEF Vector
  <2>5. L \in [Lower(dim) -> Int]
    BY <1>2, InformationOfTyped
  <2> HIDE DEF x, r, L
  <2>6. x \in Vector(dim) /\ IsSolution(dim, L, r, x)
    BY <1>2, <2>2, <2>3, <2>4, <2>5, DenseSolution
  <2>7. Interface!Solves(dim, sent, 0, x)
    BY <1>2, <2>6, SolutionSolves DEF r, L
  <2> QED BY <1>1, <1>5, <2>7 DEF Interface!Step
<1> QED BY <1>2, <1>3, <1>4, <1>5

LEMMA DenseCovers ==
  ASSUME NormalIsSound, backend = "dense", NEW columns \in Selections, NEW overflowed \in BOOLEAN,
         NEW screened \in BOOLEAN, Dense!Covariance(columns, overflowed, screened)
  PROVE  Interface!Covariance \/ Interface!Fail
<1> DEFINE f == Dense!Factorize(normal, overflowed)
           L == InformationOf(dim, sent)
           unit(b) == [i \in 0..(dim - 1) |-> IF i = columns[b] THEN 1 ELSE 0]
           x(b) == Dense!SolveFactored(f.w, unit(b))
           matrix == Dense!Selected(f.w, columns)
<1>1. /\ answer' = IF ~f.ok \/ screened THEN Interface!Error
                   ELSE [kind |-> "covariance", columns |-> columns, matrix |-> matrix]
      /\ stage \in {"open", "solved"} /\ dim' = dim /\ sent' = sent
      /\ \A a \in DOMAIN columns : columns[a] < dim
  BY DenseNames DEF Dense!Covariance
<1>2. /\ DOMAIN normal = Fields /\ normal.n = dim /\ dim \in Nat /\ IsModel(sent)
      /\ normal.content # "ruins" /\ normal.content \in Content /\ normal.factorized \in BOOLEAN
      /\ normal.lower = L
      /\ dim > 0 => (normal.factorized <=> normal.content = "factor")
      /\ normal.content = "factor" => ~Dense!Singular(dim, normal.lower)
  BY <1>1 DEF NormalIsSound, InformationOf
<1>3. CASE ~f.ok \/ screened
  BY <1>1, <1>3 DEF Interface!Fail
<1>4. CASE f.ok /\ ~screened
  <2>1. ASSUME NEW b \in DOMAIN columns
        PROVE  /\ unit(b) \in Vector(dim)
               /\ x(b) \in Vector(dim) /\ IsSolution(dim, L, unit(b), x(b))
               /\ \A a \in DOMAIN columns : matrix[a][b] = x(b)[columns[a]]
    <3>1. columns[b] \in Nat /\ dim > 0
      <4>1. columns \in Seq(Nat)
        BY BackendAssumption
      <4>2. columns[b] \in Nat /\ columns[b] < dim
        BY <4>1, <1>1
      <4> QED BY <4>2, <1>2
    <3>2. /\ f.w.n = dim /\ f.w.lower = L /\ f.w.content = "factor" /\ ~Dense!Singular(dim, L)
      <4>1. f.w.n = dim /\ f.w.lower = L /\ f.w.content = "factor"
        BY <1>2, <1>4, <3>1, FactorizeKeeps
      <4>2. normal.content = "factor" \/ ~Dense!Singular(dim, normal.lower)
        BY <1>2, <4>1, FactorizeKeeps
      <4> QED BY <1>2, <4>1, <4>2
    <3>3. unit(b) \in Vector(dim)
      BY PrimeAssumption DEF Vector, Scalar
    <3>4. x(b) = Dense!Solution(dim, L, unit(b))
      BY <3>2 DEF Dense!SolveFactored
    <3>5. L \in [Lower(dim) -> Int]
      BY <1>2, InformationOfTyped
    <3>6. x(b) \in Vector(dim) /\ IsSolution(dim, L, unit(b), x(b))
      BY <1>2, <3>2, <3>3, <3>4, <3>5, DenseSolution
    <3>7. ASSUME NEW a \in DOMAIN columns PROVE matrix[a][b] = x(b)[columns[a]]
      BY <3>2 DEF Dense!Selected
    <3> QED BY <3>3, <3>6, <3>7
  <2>2. Interface!IsCovariance(dim, sent, columns, matrix)
    <3>1. Interface!HessianOf(dim, sent) = L
      BY DEF Interface!HessianOf, InformationOf, Interface!Lower, Lower
    <3>2. ASSUME NEW b \in DOMAIN columns
          PROVE  \E v \in Interface!Vector(dim) :
                   /\ Interface!IsSolution(dim, L, unit(b), v)
                   /\ \A a \in DOMAIN columns : matrix[a][b] = v[columns[a]]
      <4>1. x(b) \in Interface!Vector(dim) /\ Interface!IsSolution(dim, L, unit(b), x(b))
        BY <2>1, SameVectors, SameSystems
      <4> QED BY <2>1, <4>1
    <3> HIDE DEF matrix, L
    <3> QED BY <3>1, <3>2 DEF Interface!IsCovariance
  <2> HIDE DEF f, matrix
  <2> QED BY <1>1, <1>4, <2>2 DEF Interface!Covariance
<1> QED BY <1>3, <1>4

LEMMA DenseStep ==
  ASSUME NormalIsSound, backend = "dense", [Next]_vars
  PROVE  [Interface!Next]_<<dim, sent, answer>>
<1>1. CASE UNCHANGED vars
  BY <1>1 DEF vars, interface
<1>2. CASE Next
  <2>0. Dense!Next
    BY <1>2 DEF Next, DenseCall, LsmrCall, SchurCall
  <2>1. CASE \E n \in Dimensions["dense"] : Dense!Prepare(n)
    <3>1. PICK n \in Dimensions["dense"] : Dense!Prepare(n)
      BY <2>1
    <3>2. n \in Nat
      BY BackendAssumption DEF Backends
    <3> QED BY <3>1, <3>2, DenseNames DEF Dense!Prepare, Interface!Next, Interface!Start
  <2>2. CASE Dense!Clear
    <3>1. dim \in Nat
      BY DEF NormalIsSound
    <3> QED BY <2>2, <3>1, DenseNames DEF Dense!Clear, Interface!Next, Interface!Start
  <2>3. CASE \E e \in Emission["dense"] : Dense!Accumulate(e)
    <3>1. PICK e \in Emission["dense"] : Dense!Accumulate(e)
      BY <2>3
    <3>2. e \in AnyEmission
      BY BackendAssumption DEF Backends, AnyEmission
    <3> QED BY <3>1, <3>2, DenseNames DEF Dense!Accumulate, Interface!Next, Interface!Accumulate
  <2>4. CASE \E overflowed \in BOOLEAN : Dense!Solve(overflowed)
    BY <2>4, DenseSolves DEF Interface!Next
  <2>5. CASE \E columns \in Selections, overflowed, screened \in BOOLEAN :
               Dense!Covariance(columns, overflowed, screened)
    BY <2>5, DenseCovers DEF Interface!Next
  <2> QED BY <2>0, <2>1, <2>2, <2>3, <2>4, <2>5 DEF Dense!Next
<1> QED BY <1>1, <1>2

(* Every step that DenseNormalCholesky hands out solves the least-squares   *)
(* problem of exactly the rows accumulated since the last clear, and every  *)
(* covariance is part of the inverse of their information, also when the    *)
(* factor of an earlier call is used again: it implements LinearBackend     *)
(* (normal.rs:94-301, covariance.rs:66-176).                                *)
THEOREM DenseRefines == Spec => (backend = "dense" => RefinesLinearBackend)
<1>1. Init => Interface!Init
  BY DEF Init, Dense!Init, Dense!B!Init, Interface!Init, Dense!B!NoAnswer, Interface!NoAnswer
<1>2. backend = "dense" /\ [Next]_vars => (backend = "dense")'
  BY DEF Next, DenseCall, LsmrCall, SchurCall, vars
<1>3. NormalIsSound /\ backend = "dense" /\ [Next]_vars => [Interface!Next]_<<dim, sent, answer>>
  BY DenseStep
<1> QED BY <1>1, <1>2, <1>3, NormalSoundInit, NormalSoundNext, PTL
        DEF Spec, RefinesLinearBackend, Interface!Spec
================================================================================
