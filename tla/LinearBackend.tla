---------------------------- MODULE LinearBackend ----------------------------
(***************************************************************************)
(* What the traits LeastSquaresBackend, DampedLeastSquaresBackend and      *)
(* CovarianceBackend promise (optimization.rs:115-163, covariance.rs:      *)
(* 128-136), whatever the backend keeps between two calls: a step or a     *)
(* covariance that is handed out is the one of exactly the rows            *)
(* accumulated since the last clear, and of the damping of this call.      *)
(***************************************************************************)
EXTENDS Scalars, Sequences

CONSTANTS Emission  \* residuals with their Jacobian blocks

VARIABLES dim,    \* coordinates, as of the last prepare
          sent,   \* the emissions accumulated since the last clear
          answer  \* what the last call returned

NoAnswer == [kind |-> "none"]
Error    == [kind |-> "error"]

-----------------------------------------------------------------------------
(* Of one emission: the rows, the coefficients of one of them, and what    *)
(* the emission adds to the normal equations.                              *)
Rows(e) == 1..Len(e.residual)

Coefficient(e, k, j) ==
  Sigma([b \in {c \in DOMAIN e.blocks : Covers(e.blocks[c], j)} |->
           e.blocks[b].values[k][j - e.blocks[b].col + 1]])

Information(e, i, j) ==
  Sigma([k \in Rows(e) |-> Coefficient(e, k, i) * Coefficient(e, k, j)])

Slope(e, j) == Sigma([k \in Rows(e) |-> Coefficient(e, k, j) * e.residual[k]])

(* Of all of them. *)
Hessian(s, i, j) == Sigma([n \in DOMAIN s |-> Information(s[n], i, j)])

Gradient(s, j) == Sigma([n \in DOMAIN s |-> Slope(s[n], j)])

ColumnScale(s, j) == Floored(Hessian(s, j, j))

HessianOf(n, s) == [p \in Lower(n) |-> Hessian(s, p[1], p[2])]

(* || J delta + r ||^2 + lambda || D delta ||^2 is stationary at delta.    *)
Solves(n, s, lambda, delta) ==
  \A i \in 0..(n - 1) :
    (Sigma([j \in 0..(n - 1) |-> Hessian(s, i, j) * delta[j]]) + Gradient(s, i)
       + lambda * ColumnScale(s, i) * ColumnScale(s, i) * delta[i]) % P = 0

(* By how much the undamped local objective falls. *)
Reduction(n, s, delta) ==
  LET After(e, k) == (e.residual[k]
                        + Sigma([j \in 0..(n - 1) |-> Coefficient(e, k, j) * delta[j]])) % P
      Fall(e, k) == e.residual[k] * e.residual[k] + Neg((After(e, k) * After(e, k)) % P)
  IN  Over(Sigma([m \in DOMAIN s |-> Sigma([k \in Rows(s[m]) |-> Fall(s[m], k)])]), 2)

(* The selected part of the inverse of the information. *)
IsCovariance(n, s, columns, matrix) ==
  \E H \in {HessianOf(n, s)} : \A b \in DOMAIN columns :
    \E x \in Vector(n) :
      /\ IsSolution(n, H, [i \in 0..(n - 1) |-> IF i = columns[b] THEN 1 ELSE 0], x)
      /\ \A a \in DOMAIN columns : matrix[a][b] = x[columns[a]]

-----------------------------------------------------------------------------
Init == dim = 0 /\ sent = <<>> /\ answer = NoAnswer

(* Prepared for a number of coordinates, or cleared for the next           *)
(* linearization.                                                          *)
Start == dim' \in Nat /\ sent' = <<>> /\ answer' = NoAnswer

Accumulate == /\ \E e \in Emission : sent' = Append(sent, e)
              /\ answer' = NoAnswer
              /\ UNCHANGED dim

(* Any call may fail; then nothing is handed out. *)
Fail == answer' = Error /\ UNCHANGED <<dim, sent>>

Forget == answer' = NoAnswer /\ UNCHANGED <<dim, sent>>

Step == /\ answer'.kind = "step"
        /\ Solves(dim, sent, 0, answer'.delta)
        /\ UNCHANGED <<dim, sent>>

DampedStep == /\ answer'.kind = "damped"
              /\ Solves(dim, sent, answer'.lambda, answer'.delta)
              /\ answer'.reduction = Reduction(dim, sent, answer'.delta)
              /\ UNCHANGED <<dim, sent>>

Covariance == /\ answer'.kind = "covariance"
              /\ IsCovariance(dim, sent, answer'.columns, answer'.matrix)
              /\ UNCHANGED <<dim, sent>>

Next == Start \/ Accumulate \/ Fail \/ Forget \/ Step \/ DampedStep \/ Covariance

Spec == Init /\ [][Next]_<<dim, sent, answer>>
=============================================================================
