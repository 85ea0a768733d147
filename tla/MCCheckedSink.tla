--------------------------- MODULE MCCheckedSink ---------------------------
(* An ordinary factor, an empty batch and a batch of two, over two states  *)
(* and one that is not in the layout of any factor.                        *)
EXTENDS CheckedSink

CONSTANTS x, y, z

MCUnits == <<"ordinary", "batch", "batch">>
MCPosition == <<1, 2, 2, 4>>
MCDeps  == <<{x, y}, {x, y}, {y}>>
=============================================================================
