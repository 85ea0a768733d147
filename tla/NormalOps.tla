------------------------------- MODULE NormalOps -------------------------------
(***************************************************************************)
(* DenseNormalCholesky (normal.rs) as operators on one record: the normal  *)
(* matrix, of which the lower triangle is kept and factored in place, its  *)
(* right-hand side, which a solve overwrites with the step, and the        *)
(* selected covariance computed from it (covariance.rs:66-121).            *)
(***************************************************************************)
EXTENDS Scalars, Sequences

(* What the storage of the matrix holds: the information itself, its       *)
(* Cholesky factor (represented by the information it factors), or neither.*)
Content == {"information", "factor", "ruins"}

NewNormal == [n |-> 0, content |-> "information", lower |-> Zeros(0),
              rhs |-> Zeros(0), factorized |-> FALSE]

-----------------------------------------------------------------------------
(* prepare: storage is resized, not zeroed. *)
PrepareNormal(w, n) ==
  [w EXCEPT !.n = n,
            !.lower = [p \in Lower(n) |-> IF p \in DOMAIN w.lower THEN w.lower[p] ELSE 0],
            !.rhs = Resize(w.rhs, n),
            !.factorized = FALSE]

ClearNormal(w) ==
  [w EXCEPT !.content = "information", !.lower = [p \in Lower(w.n) |-> 0],
            !.rhs = Zeros(w.n), !.factorized = FALSE]

(* The products of two blocks of one emission, summed over its rows.       *)
BlockProduct(k, left, row, right, col) ==
  Sigma([i \in 1..k |-> left.values[i][row - left.col + 1] * right.values[i][col - right.col + 1]])

PairContribution_AsEmitted(e, i, j, p) ==
  IF Covers(e.blocks[i], p[1]) /\ Covers(e.blocks[j], p[2])
  THEN BlockProduct(Len(e.residual), e.blocks[i], p[1], e.blocks[j], p[2]) ELSE 0

(* accumulate: the diagonal block of each Jacobian block, and for each     *)
(* pair the block below the diagonal: the rows of the one with the larger  *)
(* offset, whatever the order of emission.                                 *)
PairContribution(e, i, j, p) ==
  LET first == e.blocks[i].col > e.blocks[j].col
      left  == IF first THEN e.blocks[i] ELSE e.blocks[j]
      right == IF first THEN e.blocks[j] ELSE e.blocks[i]
  IN  IF Covers(left, p[1]) /\ Covers(right, p[2])
      THEN BlockProduct(Len(e.residual), left, p[1], right, p[2]) ELSE 0

OwnContribution(e, i, p) ==
  IF Covers(e.blocks[i], p[1]) /\ Covers(e.blocks[i], p[2])
  THEN BlockProduct(Len(e.residual), e.blocks[i], p[1], e.blocks[i], p[2]) ELSE 0

BlockGradient(e, b, j) ==
  Sigma([k \in 1..Len(e.residual) |-> b.values[k][j - b.col + 1] * e.residual[k]])

AccumulateNormal(w, e) ==
  LET Blocks == DOMAIN e.blocks
      Pairs == {q \in Blocks \X Blocks : q[2] < q[1]}
      GradientOf(j) == Sigma([i \in {b \in Blocks : Covers(e.blocks[b], j)} |->
                                BlockGradient(e, e.blocks[i], j)])
  IN  [w EXCEPT
         !.content = IF @ = "information" THEN @ ELSE "ruins",
         !.lower = [p \in DOMAIN @ |->
                      (@[p] + Sigma([i \in Blocks |-> OwnContribution(e, i, p)])
                         + Sigma([q \in Pairs |-> PairContribution(e, q[1], q[2], p)])) % P],
         !.rhs = [j \in DOMAIN @ |-> (@[j] + Neg(GradientOf(j))) % P]]

-----------------------------------------------------------------------------
(* factorize, which does nothing when the factor is in place; overflowed:  *)
(* some entry is not finite.                                               *)
Factorize(w, overflowed) ==
  IF w.factorized THEN [ok |-> TRUE, w |-> w]
  ELSE IF w.n = 0 THEN [ok |-> TRUE, w |-> [w EXCEPT !.factorized = TRUE]]
  ELSE IF overflowed THEN [ok |-> FALSE, w |-> w]
  ELSE IF w.content # "information"
  THEN [ok |-> TRUE, w |-> [w EXCEPT !.content = "ruins", !.factorized = TRUE]]
  ELSE IF Singular(w.n, w.lower)
  THEN [ok |-> FALSE, w |-> [w EXCEPT !.content = "ruins"]]
  ELSE [ok |-> TRUE, w |-> [w EXCEPT !.content = "factor", !.factorized = TRUE]]

(* The triangular solves take what is in place for the factor. *)
SolveFactored(w, b) ==
  IF w.content = "ruins" THEN Zeros(w.n)
  ELSE Solution(w.n, w.lower, b)

SolveInPlace(w) == IF w.n = 0 THEN w ELSE [w EXCEPT !.rhs = SolveFactored(w, w.rhs)]

(* SelectedCovariance::compute: E^T H^-1 E for unit columns E.             *)
Selected(w, columns) ==
  LET Unit(j) == [i \in 0..(w.n - 1) |-> IF i = j THEN 1 ELSE 0]
      Column(j) == SolveFactored(w, Unit(j))
  IN  [a \in DOMAIN columns |-> [b \in DOMAIN columns |-> Column(columns[b])[columns[a]]]]
=============================================================================
