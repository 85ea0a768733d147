------------------------------ MODULE MCPoolIds ------------------------------
(* Three threads that race for four identities until there are none left.  *)
EXTENDS PoolIds, TLC

CONSTANTS t1, t2, t3

MCThread == {t1, t2, t3}
MCMaxId == 5

Threads == Permutations(MCThread)
=============================================================================
