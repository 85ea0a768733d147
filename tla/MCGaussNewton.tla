---------------------------- MODULE MCGaussNewton ----------------------------
(* A problem with a minimum to reach, one with a second minimum that is    *)
(* only local, and one without coordinates.                                *)
EXTENDS GaussNewton, TLC

MCEstimate == 1..4
MCCost == ("valley" :> <<3, 2, 1, 0>>) @@ ("ridge" :> <<1, 2, 1, 0>>) @@ ("still" :> <<1, 1, 1, 1>>)
MCStationary == ("valley" :> {4}) @@ ("ridge" :> {1, 4}) @@ ("still" :> {})
=============================================================================
