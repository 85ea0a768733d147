-------------------------- MODULE MCCovarianceQueries --------------------------
(***************************************************************************)
(* One problem with two states of one coordinate and one of two, another   *)
(* to which one can be added; and a method, of either kind, that both use. *)
(***************************************************************************)
EXTENDS CovarianceQueries, TLC

CONSTANTS p, q, m, a1, a2, a3, b1

At(problem, pool) == [problem |-> problem, pool |-> pool]

MCHome == [b \in {a1, a2, a3, b1} |->
             IF b = b1 THEN At(q, 2) ELSE IF b = a3 THEN At(p, 2) ELSE At(p, 1)]

MCWidth == <<1, 2>>

MCInitial == (p :> <<<<a1, a2>>, <<a3>>>>) @@ (q :> <<<<>>, <<>>>>)

MCRequest == {<<a3, a2>>, <<a1, a1>>, <<a1, b1>>}
=============================================================================
