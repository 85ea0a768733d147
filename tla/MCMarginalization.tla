--------------------------- MODULE MCMarginalization ---------------------------
(* Two state pools of different width.  The factors form a chain, x1 - y1  *)
(* - x2, with a factor on x1 alone, so that marginalizing the first state  *)
(* leaves a prior that the next call must absorb.                          *)
EXTENDS Marginalization

CONSTANTS x1, x2, y1, f1, f2, f3, priors_pool

MCState  == {x1, x2, y1}
MCFactor == {f1, f2, f3}
MCWidth  == <<2, 1>>
MCPoolOf == x1 :> 1 @@ x2 :> 1 @@ y1 :> 2
MCDeps   == f1 :> {x1} @@ f2 :> {x1, y1} @@ f3 :> {y1, x2}
=============================================================================
