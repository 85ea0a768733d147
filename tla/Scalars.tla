------------------------------- MODULE Scalars -------------------------------
(***************************************************************************)
(* The scalars R: Real of the linear backends, and vectors of them.        *)
(*                                                                         *)
(* Arithmetic is exact: the integers modulo a prime take the place of the  *)
(* floating-point numbers.  Every identity of linear algebra that the      *)
(* backends rely on (elimination, scaling, back-substitution) holds in any *)
(* field, so a wrong sign, a wrong index or a stale buffer gives a wrong   *)
(* step here as it does there.  Rounding is left out; overflow is a        *)
(* nondeterministic outcome of the operations that test for it; a matrix   *)
(* that is singular stands for one that is not positive definite.          *)
(*                                                                         *)
(* Vectors are indexed from 0, as in the code.                             *)
(***************************************************************************)
EXTENDS Integers, FiniteSetsExt, Functions

CONSTANT P  \* a prime other than 2: the code divides by 2

ASSUME PrimeAssumption == P \in Nat /\ P > 2 /\ \A d \in 2..(P - 1) : P % d # 0

Scalar == 0..(P - 1)

Neg(a) == (P - a) % P

Over(a, b) == CHOOSE c \in Scalar : (b * c) % P = a

(* The lesser of the two roots of a square. *)
Root(a) == Min({r \in Scalar : (r * r) % P = a})

Sigma(f) == SumFunction(f) % P

Vector(n) == [0..(n - 1) -> Scalar]

Zeros(n) == [i \in 0..(n - 1) |-> 0]

(* Vec::resize keeps the elements there are. *)
Resize(v, n) == [i \in 0..(n - 1) |-> IF i \in DOMAIN v THEN v[i] ELSE 0]

(* f64::max(norm, floor), where the squared norm stands for the norm. *)
Floored(squares) == IF squares = 0 THEN 1 ELSE squares

(***************************************************************************)
(* Symmetric matrices of which only the lower triangle is stored.          *)
(***************************************************************************)
Lower(n) == {p \in (0..(n - 1)) \X (0..(n - 1)) : p[1] >= p[2]}

At(lower, i, j) == IF i >= j THEN lower[<<i, j>>] ELSE lower[<<j, i>>]

(* What a Cholesky factorization and two triangular solves yield. *)
IsSolution(n, lower, b, x) ==
  \A i \in 0..(n - 1) : Sigma([j \in 0..(n - 1) |-> At(lower, i, j) * x[j]]) = b[i]

Solution(n, lower, b) == CHOOSE x \in Vector(n) : IsSolution(n, lower, b, x)

Singular(n, lower) == \E x \in Vector(n) \ {Zeros(n)} : IsSolution(n, lower, Zeros(n), x)

(* A Jacobian block of cols columns, from column col on. *)
Covers(b, j) == b.col <= j /\ j < b.col + b.cols
=============================================================================
