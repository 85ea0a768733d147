---------------------------- MODULE LinearModelOps ----------------------------
(***************************************************************************)
(* The cached linearization that LSMR and Schur share (linear_model.rs)    *)
(* and its normalized local Gram blocks (linear_model/block_factors.rs),   *)
(* as operators on records.  Where the code packs coefficients into one    *)
(* vector and keeps offsets, a block here has its own values, and the      *)
(* owner of a coordinate is looked up among the blocks.                    *)
(***************************************************************************)
EXTENDS NormalOps

NewModel == [rows |-> 0, cols |-> 0, blocks |-> <<>>, negative |-> <<>>,
             gradient |-> Zeros(0), scales |-> Zeros(0)]

PrepareModel(m, n) == [m EXCEPT !.cols = n, !.gradient = Resize(@, n)]

ClearModel(m) == [m EXCEPT !.rows = 0, !.blocks = <<>>, !.negative = <<>>,
                           !.gradient = Zeros(m.cols)]

AccumulateModel(m, e) ==
  LET k == Len(e.residual)
      Touching(j) == {b \in DOMAIN e.blocks : Covers(e.blocks[b], j)}
      GradientOf(j) == Sigma([b \in Touching(j) |-> BlockGradient(e, e.blocks[b], j)])
  IN  [m EXCEPT
         !.rows = @ + k,
         !.negative = @ \o [i \in 1..k |-> Neg(e.residual[i])],
         !.blocks = @ \o [b \in DOMAIN e.blocks |->
                            [row |-> m.rows, rows |-> k, col |-> e.blocks[b].col,
                             cols |-> e.blocks[b].cols, values |-> e.blocks[b].values]],
         !.gradient = [j \in DOMAIN @ |-> (@[j] + GradientOf(j)) % P]]

-----------------------------------------------------------------------------
(* The products of the Jacobian and of its transpose with a vector; rows   *)
(* are counted from 1 here.                                                *)
RowsOf(b) == (b.row + 1)..(b.row + b.rows)

ColumnsOf(b) == b.col..(b.col + b.cols - 1)

Value(b, i, j) == b.values[i - b.row][j - b.col + 1]

Apply(m, x) ==
  [i \in 1..m.rows |->
     Sigma([k \in {c \in DOMAIN m.blocks : i \in RowsOf(m.blocks[c])} |->
              Sigma([j \in ColumnsOf(m.blocks[k]) |-> Value(m.blocks[k], i, j) * x[j]])])]

(* The blocks that a column runs through. *)
Down(m, j) == {k \in DOMAIN m.blocks : j \in ColumnsOf(m.blocks[k])}

TransposeApply(m, y) ==
  [j \in 0..(m.cols - 1) |->
     Sigma([k \in Down(m, j) |->
              Sigma([i \in RowsOf(m.blocks[k]) |-> Value(m.blocks[k], i, j) * y[i]])])]

(* prepare_scales: column norms, floored. *)
PrepareScales(m) ==
  LET Squares(j) == Sigma([k \in Down(m, j) |->
                             Sigma([i \in RowsOf(m.blocks[k]) |->
                                      Value(m.blocks[k], i, j) * Value(m.blocks[k], i, j)])])
  IN  [m EXCEPT !.scales = [j \in 0..(m.cols - 1) |-> Floored(Squares(j))]]

(* verify_step: the predicted reduction, and the residual of the damped    *)
(* normal equations in original coordinates.                               *)
VerifyStep(m, step, lambda) ==
  LET product == Apply(m, step)
      moved   == [i \in 1..m.rows |-> (product[i] + Neg(m.negative[i])) % P]
      normal  == TransposeApply(m, moved)
      along   == Sigma([j \in 0..(m.cols - 1) |-> m.gradient[j] * step[j]])
      squares == Sigma([i \in 1..m.rows |-> product[i] * product[i]])
  IN  [reduction |-> (Neg(along) + Neg(Over(squares, 2))) % P,
       residual  |-> [j \in 0..(m.cols - 1) |->
                        (normal[j] + lambda * m.scales[j] * step[j] * m.scales[j]) % P]]

-----------------------------------------------------------------------------
(* LinearizedModel::covariance replays the cached blocks, one emission for *)
(* each run of consecutive blocks with the same rows.                      *)
SameRows(b, c) == b.row = c.row /\ b.rows = c.rows

RunEnd(blocks, start) ==
  Max({i \in start..Len(blocks) : \A j \in start..i : SameRows(blocks[j], blocks[start])})

Replay(m) ==
  LET From[start \in 1..(Len(m.blocks) + 1)] ==
        IF start > Len(m.blocks) THEN <<>>
        ELSE LET first == m.blocks[start]
                 end   == RunEnd(m.blocks, start)
             IN  IF first.rows = 0 THEN From[start + 1]
                 ELSE <<[residual |-> SubSeq(m.negative, first.row + 1, first.row + first.rows),
                         blocks   |-> SubSeq(m.blocks, start, end)]>> \o From[end + 1]
  IN  From[1]

(* What the query's normal matrix then holds. *)
Replayed(m) ==
  LET emitted == Replay(m)
      After[n \in 0..Len(emitted)] ==
        IF n = 0 THEN ClearNormal(PrepareNormal(NewNormal, m.cols))
        ELSE AccumulateNormal(After[n - 1], emitted[n])
  IN  After[Len(emitted)]

-----------------------------------------------------------------------------
(* BlockFactors::prepare: one Gram block per range of coordinates, which   *)
(* the emissions must agree on.                                            *)
GramProduct(b, scales, p) ==
  Sigma([i \in 1..b.rows |-> Over(b.values[i][p[2] + 1], scales[b.col + p[2]])
                                * Over(b.values[i][p[1] + 1], scales[b.col + p[1]])])

(* The block a coordinate belongs to, 0 if none. *)
Owner(blocks, j) ==
  LET own == {i \in DOMAIN blocks : blocks[i].col <= j /\ j < blocks[i].col + blocks[i].width}
  IN  IF own = {} THEN 0 ELSE Min(own)

AddGram_FirstOnly(m, acc, b) ==
  LET owner == Owner(acc.blocks, b.col)
      gram  == [p \in Lower(b.cols) |-> GramProduct(b, m.scales, p)]
  IN  IF ~acc.ok \/ b.cols = 0 THEN acc
      ELSE IF b.col + b.cols > m.cols THEN [acc EXCEPT !.ok = FALSE]
      ELSE IF owner = 0
      THEN [acc EXCEPT !.blocks = Append(@, [col |-> b.col, width |-> b.cols, gram |-> gram,
                                             factor |-> Zeros(0), fallback |-> FALSE])]
      ELSE IF acc.blocks[owner].col # b.col \/ acc.blocks[owner].width # b.cols
      THEN [acc EXCEPT !.ok = FALSE]
      ELSE [acc EXCEPT !.blocks[owner].gram = [p \in DOMAIN @ |-> (@[p] + gram[p]) % P]]

AddGram(m, acc, b) ==
  LET owner == Owner(acc.blocks, b.col)
      gram  == [p \in Lower(b.cols) |-> GramProduct(b, m.scales, p)]
  IN  IF ~acc.ok \/ b.cols = 0 THEN acc
      ELSE IF b.col + b.cols > m.cols THEN [acc EXCEPT !.ok = FALSE]
      ELSE IF owner = 0
      THEN IF \E j \in b.col..(b.col + b.cols - 1) : Owner(acc.blocks, j) # 0
           THEN [acc EXCEPT !.ok = FALSE]
           ELSE [acc EXCEPT !.blocks = Append(@, [col |-> b.col, width |-> b.cols, gram |-> gram,
                                                  factor |-> Zeros(0), fallback |-> FALSE])]
      ELSE IF acc.blocks[owner].col # b.col \/ acc.blocks[owner].width # b.cols
      THEN [acc EXCEPT !.ok = FALSE]
      ELSE [acc EXCEPT !.blocks[owner].gram = [p \in DOMAIN @ |-> (@[p] + gram[p]) % P]]

PrepareBlocks(m) ==
  LET Upto[n \in 0..Len(m.blocks)] ==
        IF n = 0 THEN [ok |-> TRUE, blocks |-> <<>>] ELSE AddGram(m, Upto[n - 1], m.blocks[n])
  IN  Upto[Len(m.blocks)]

FactorBlocks_Once(blocks, lambda) ==
  [i \in DOMAIN blocks |->
     LET damped == [p \in Lower(blocks[i].width) |->
                      (blocks[i].gram[p] + (IF p[1] = p[2] THEN lambda ELSE 0)) % P]
     IN  IF blocks[i].factor # Zeros(0) THEN blocks[i]
         ELSE [blocks[i] EXCEPT !.factor = damped,
                                !.fallback = Singular(blocks[i].width, damped)]]

(* BlockFactors::factor: copies the Gram blocks, damps and factors them.   *)
FactorBlocks(blocks, lambda) ==
  [i \in DOMAIN blocks |->
     LET damped == [p \in Lower(blocks[i].width) |->
                      (blocks[i].gram[p] + (IF p[1] = p[2] THEN lambda ELSE 0)) % P]
     IN  [blocks[i] EXCEPT !.factor = damped,
                           !.fallback = Singular(blocks[i].width, damped)]]

(* solve_normal: apply the inverse of the damped blocks to a vector that   *)
(* begins at coordinate offset.                                            *)
SolveNormal(blocks, offset, v, lambda) ==
  LET Part(b) == [i \in 0..(b.width - 1) |-> v[b.col - offset + i]]
      Solved(b) == Solution(b.width, b.factor, Part(b))
  IN  [i \in DOMAIN v |->
         LET owner == Owner(blocks, offset + i)
         IN  IF owner = 0 THEN IF lambda # 0 THEN Over(v[i], lambda) ELSE v[i]
             ELSE IF blocks[owner].col < offset THEN v[i]
             ELSE Solved(blocks[owner])[offset + i - blocks[owner].col]]
=============================================================================
