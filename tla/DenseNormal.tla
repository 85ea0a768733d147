----------------------------- MODULE DenseNormal -----------------------------
(***************************************************************************)
(* The dense Cholesky backend (normal.rs) under the calls a Gauss-Newton   *)
(* optimizer and a covariance query make (optimization.rs:188-270,         *)
(* gauss_newton.rs:91-122, covariance.rs:163-176).  It implements          *)
(* LinearBackend.  dim, sent and answer are the observer's; normal is all  *)
(* the backend has.                                                        *)
(***************************************************************************)
EXTENDS NormalOps

CONSTANTS Emission,    \* what the sink may pass on
          Dimensions,  \* dimensions a layout may have
          Selections,  \* sequences of columns
          MaxSent      \* bound: emissions in one linearization

VARIABLES dim, sent, answer, normal,
          stage  \* what the optimizer has done: see the guards

vars == <<dim, sent, answer, normal, stage>>

B == INSTANCE LinearBackend

Fits(e) == \A b \in DOMAIN e.blocks : e.blocks[b].col + e.blocks[b].cols <= dim

Init == /\ B!Init
        /\ normal = NewNormal
        /\ stage = "new"

-----------------------------------------------------------------------------
(* Workspace::prepare, with whatever the last optimization has left behind.*)
Prepare(n) == /\ normal' = PrepareNormal(normal, n)
              /\ stage' = "prepared"
              /\ dim' = n /\ sent' = <<>> /\ answer' = B!NoAnswer

(* Workspace::linearize begins anew; once per accepted step. *)
Clear == /\ stage \in {"prepared", "open", "solved"}
         /\ normal' = ClearNormal(normal)
         /\ stage' = "open"
         /\ sent' = <<>> /\ answer' = B!NoAnswer
         /\ UNCHANGED dim

Accumulate(e) == /\ stage = "open" /\ Len(sent) < MaxSent /\ Fits(e)
                 /\ normal' = AccumulateNormal(normal, e)
                 /\ sent' = Append(sent, e) /\ answer' = B!NoAnswer
                 /\ UNCHANGED <<dim, stage>>

(* solve may destroy the model: the optimizer calls it once.  After an     *)
(* error the optimization is over, and the next call prepares again.       *)
Solve(overflowed) ==
  /\ stage = "open"
  /\ LET factored == IF normal.n = 0 THEN [ok |-> TRUE, w |-> normal]
                     ELSE Factorize(normal, overflowed)
         solved == SolveInPlace(factored.w)
     IN  /\ normal' = IF factored.ok THEN solved ELSE factored.w
         /\ answer' = IF factored.ok THEN [kind |-> "step", delta |-> solved.rhs] ELSE B!Error
         /\ stage' = IF factored.ok THEN "solved" ELSE "failed"
  /\ UNCHANGED <<dim, sent>>

(* CovarianceBackend::covariance, before a solve, after it, and again; the *)
(* factor is reused when there is one.  screened: some pivot is too small. *)
Covariance(columns, overflowed, screened) ==
  /\ stage \in {"open", "solved"}
  /\ \A a \in DOMAIN columns : columns[a] < dim
  /\ LET factored == Factorize(normal, overflowed)
     IN  /\ normal' = factored.w
         /\ answer' = IF ~factored.ok \/ screened THEN B!Error
                      ELSE [kind |-> "covariance", columns |-> columns,
                            matrix |-> Selected(factored.w, columns)]
         /\ stage' = IF factored.ok THEN "solved" ELSE "failed"
  /\ UNCHANGED <<dim, sent>>

Next == \/ \E n \in Dimensions : Prepare(n)
        \/ Clear
        \/ \E e \in Emission : Accumulate(e)
        \/ \E overflowed \in BOOLEAN : Solve(overflowed)
        \/ \E columns \in Selections, overflowed, screened \in BOOLEAN :
             Covariance(columns, overflowed, screened)

Spec == Init /\ [][Next]_vars

-----------------------------------------------------------------------------
(* The matrix assembled block by block from emissions in any order is the  *)
(* lower triangle of J^T J, with each product once, and so is what a       *)
(* factorization in place has factored, however often it was asked for;    *)
(* the flag is set only over a factor; and before a solve overwrites it,   *)
(* the right-hand side is minus the gradient (normal.rs:94-301).           *)
NormalInvariant ==
  /\ normal.content \in Content
  /\ normal.n = dim
  /\ stage \in {"open", "solved"} =>
       /\ normal.content # "ruins"
       /\ normal.lower = B!HessianOf(dim, sent)
       /\ dim > 0 => (normal.factorized <=> normal.content = "factor")
  /\ stage = "open" => normal.rhs = [j \in 0..(dim - 1) |-> Neg(B!Gradient(sent, j))]
=============================================================================
