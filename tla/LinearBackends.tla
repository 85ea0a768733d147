---------------------------- MODULE LinearBackends ----------------------------
(***************************************************************************)
(* The backends an optimizer may be built with, behind one interface: a    *)
(* Workspace is generic in its backend (optimization.rs:165-185), so which *)
(* one it is never changes, and the optimizer sees no more of it than what *)
(* LinearBackend describes.  Each backend has its own variables; what two  *)
(* backends keep alike has one name.                                       *)
(***************************************************************************)
EXTENDS LinearModelOps

CONSTANTS Retained, RetainedWidth, EliminatedWidth,  \* the partition of Schur
          Emission,    \* of each backend: what the sink may pass on
          Dimensions,  \* of each backend: dimensions a layout may have
          MaxSent,     \* bound, of each backend: emissions in one linearization
          Selections,  \* sequences of columns
          Lambda,      \* damping values that have a square root
          MaxRounds    \* bound: linearizations

(* What the checked sink passes on: rows over distinct states, that is     *)
(* over blocks of columns without a common column (optimization.rs:553-    *)
(* 573), with values for each row and column.                              *)
IsBlock(b, rows) ==
  /\ b.col \in Nat /\ b.cols \in Nat
  /\ b.values \in [1..rows -> [1..b.cols -> Scalar]]

IsEmission(e) ==
  /\ e.residual \in Seq(Scalar) /\ e.blocks \in Seq([col : Nat, cols : Nat, values : Seq(Seq(Scalar))])
  /\ \A b \in DOMAIN e.blocks :
       /\ IsBlock(e.blocks[b], Len(e.residual))
       /\ \A c \in DOMAIN e.blocks \ {b} :
            ~ \E j \in e.blocks[b].col..(e.blocks[b].col + e.blocks[b].cols - 1) : Covers(e.blocks[c], j)

Backends == {"dense", "lsmr", "schur"}

ASSUME BackendAssumption ==
  /\ Backends \subseteq DOMAIN Emission
  /\ \A b \in Backends : /\ Dimensions[b] \subseteq Nat
                         /\ \A e \in Emission[b] : IsEmission(e)
  /\ \A columns \in Selections : columns \in Seq(Nat)

VARIABLES backend,  \* which one the workspace has been built with
          dim, sent, answer, stage,
          normal,
          rounds, model, blocks, observed,
          diagonal, augmented, mode,
          edges, cross, ready

interface == <<dim, sent, answer, stage>>
ofDense   == <<normal>>
ofCached  == <<rounds, model, blocks, observed>>
ofLsmr    == <<diagonal, augmented, mode>>
ofSchur   == <<edges, cross, ready>>

vars == <<backend, interface, ofDense, ofCached, ofLsmr, ofSchur>>

Dense == INSTANCE DenseNormal WITH
           Emission <- Emission["dense"], Dimensions <- Dimensions["dense"],
           MaxSent <- MaxSent["dense"]

Iterative == INSTANCE Lsmr WITH
               Emission <- Emission["lsmr"], Dimensions <- Dimensions["lsmr"],
               MaxSent <- MaxSent["lsmr"]

Eliminating == INSTANCE Schur WITH
                 Emission <- Emission["schur"], Dimensions <- Dimensions["schur"],
                 MaxSent <- MaxSent["schur"]

AnyEmission == UNION {Emission[b] : b \in DOMAIN Emission}

Interface == INSTANCE LinearBackend WITH Emission <- AnyEmission

Init == /\ backend \in Backends
        /\ Dense!Init /\ Iterative!Init /\ Eliminating!Init

-----------------------------------------------------------------------------
DenseCall == /\ backend = "dense"
             /\ Dense!Next
             /\ UNCHANGED <<backend, ofCached, ofLsmr, ofSchur>>

LsmrCall == /\ backend = "lsmr"
            /\ Iterative!Next
            /\ UNCHANGED <<backend, ofDense, ofSchur>>

SchurCall == /\ backend = "schur"
             /\ Eliminating!Next
             /\ UNCHANGED <<backend, ofDense, ofLsmr>>

Next == DenseCall \/ LsmrCall \/ SchurCall

Spec == Init /\ [][Next]_vars

-----------------------------------------------------------------------------
(* The matrix assembled block by block from emissions in any order is the  *)
(* lower triangle of J^T J, with each product once, and so is what a       *)
(* factorization in place has factored, however often it was asked for     *)
(* (normal.rs:94-301).                                                     *)
NormalInvariant == backend = "dense" => Dense!NormalInvariant

(* A mode that LSMR has prepared stands for scales, damping rows, a right- *)
(* hand side and preconditioner blocks that were all made from the rows    *)
(* accumulated since the last clear (lsmr.rs:477-601, linear_model.rs:     *)
(* 122-167).                                                               *)
LsmrInvariant == backend = "lsmr" => Iterative!LsmrInvariant

(* LSMR hands out a step only when the diagnostics the observer has been   *)
(* shown bear it out, for the damping of the call (lsmr.rs:73-124,         *)
(* 402-471, 568-601).                                                      *)
DiagnosticsVouch == backend = "lsmr" => Iterative!DiagnosticsVouch

(* Block preparation accepts exactly the linearizations whose ranges are   *)
(* pairwise the same or disjoint, in whatever order they have been met     *)
(* (block_factors.rs:47-111, and "Emissions must use consistent,           *)
(* nonoverlapping variable ranges", lsmr.rs:314).                          *)
RangesJudgedExactly == backend = "lsmr" => Iterative!RangesJudgedExactly

(* Once damping is prepared, the Gram and cross blocks of Schur are,       *)
(* together and with their scales, the whole normal matrix of the rows     *)
(* accumulated since the last clear (schur.rs:402-532).                    *)
SchurInvariant == backend = "schur" => Eliminating!SchurInvariant

(* Schur hands out a step only when every block was factored for the       *)
(* damping of the call, none of them by a fallback, and the diagnostics    *)
(* bear it out (schur.rs:192-397, 533-551).                                *)
EliminationIsExact == backend = "schur" => Eliminating!EliminationIsExact

(* Whichever backend it is: every step handed out solves the least-squares *)
(* problem of exactly the rows accumulated since the last clear, damped as *)
(* this call asks, its predicted reduction is the true one, and every      *)
(* covariance is part of the inverse of their information                  *)
(* (optimization.rs:115-163, covariance.rs:128-146).                       *)
RefinesLinearBackend == Interface!Spec
===============================================================================
