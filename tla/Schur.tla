-------------------------------- MODULE Schur --------------------------------
(***************************************************************************)
(* The Schur backend (schur.rs): coordinates are a retained prefix of      *)
(* blocks and then independent blocks that are eliminated.  It keeps the   *)
(* rows of one linearization with an edge for each emission that couples   *)
(* the two parts, assembles normalized Gram and cross blocks, and solves   *)
(*   (B - E C^-1 E^T) z = b                                                *)
(* for the retained part, and then for the rest, for one damping after the *)
(* other.  It implements LinearBackend.                                    *)
(*                                                                         *)
(* faer's conjugate gradients are external: when they converge, it is to a *)
(* solution of the reduced system.  Their preconditioner does not change   *)
(* the solutions and is left out, as are timings and statistics.           *)
(***************************************************************************)
EXTENDS LinearModelOps

CONSTANTS Retained,         \* coordinates that are not eliminated
          RetainedWidth,    \* of each block of either part
          EliminatedWidth,
          Emission,    \* what the sink may pass on
          Dimensions,  \* dimensions a layout may have
          Lambda,      \* damping values
          MaxSent,     \* bound: emissions in one linearization
          MaxRounds    \* bound: linearizations

VARIABLES dim, sent, answer,  \* see LinearBackend
          stage,     \* what the optimizer has done: see the guards
          rounds,    \* linearizations so far
          model,     \* the LinearizedModel
          edges,     \* the emissions with a block in either part
          blocks,    \* the BlockFactors
          cross,     \* for each edge its normalized cross block
          ready,
          observed   \* the diagnostics that on_solve was shown by the last call

vars == <<dim, sent, answer, stage, rounds, model, edges, blocks, cross, ready, observed>>

B == INSTANCE LinearBackend

NotShown == [termination |-> "none", damping |-> -1, exact |-> FALSE]

Init == /\ B!Init
        /\ stage = "new" /\ rounds = 0
        /\ model = NewModel
        /\ edges = <<>> /\ blocks = <<>> /\ cross = <<>>
        /\ ready = FALSE /\ observed = NotShown

-----------------------------------------------------------------------------
(* The partition fits the dimension. *)
Partitions(n) ==
  /\ RetainedWidth > 0 /\ EliminatedWidth > 0
  /\ Retained <= n
  /\ Retained % RetainedWidth = 0 /\ (n - Retained) % EliminatedWidth = 0

(* prepare; legal: max_iterations and relative_tolerance are.  The edges   *)
(* and blocks of an earlier problem stay.                                  *)
Prepare(n, legal) ==
  LET ok == legal /\ Partitions(n)
  IN  /\ ready' = FALSE
      /\ model' = IF ok THEN PrepareModel(model, n) ELSE model
      /\ dim' = IF ok THEN n ELSE dim
      /\ stage' = IF ok THEN "prepared" ELSE "failed"
      /\ sent' = IF ok THEN <<>> ELSE sent
      /\ answer' = IF ok THEN B!NoAnswer ELSE B!Error
      /\ observed' = NotShown
      /\ UNCHANGED <<rounds, edges, blocks, cross>>

Clear == /\ stage \in {"prepared", "open"} /\ rounds < MaxRounds
         /\ ready' = FALSE /\ rounds' = rounds + 1
         /\ edges' = <<>> /\ cross' = <<>>
         /\ model' = ClearModel(model)
         /\ stage' = "open"
         /\ sent' = <<>> /\ answer' = B!NoAnswer
         /\ observed' = NotShown
         /\ UNCHANGED <<dim, blocks>>

InPrefix(b) == b.col < Retained

(* One complete block of its part. *)
Complete(b) ==
  IF InPrefix(b)
  THEN b.col % RetainedWidth = 0 /\ b.cols = RetainedWidth /\ b.col + b.cols <= Retained
  ELSE (b.col - Retained) % EliminatedWidth = 0 /\ b.cols = EliminatedWidth

(* At most one block of each part, and complete. *)
Supported(e) ==
  \A i \in DOMAIN e.blocks :
    /\ e.blocks[i].col + e.blocks[i].cols <= model.cols
    /\ Complete(e.blocks[i])
    /\ \A j \in 1..(i - 1) : InPrefix(e.blocks[i]) # InPrefix(e.blocks[j])

Edges_OncePerPair(e) ==
  LET Of(prefix) == {i \in DOMAIN e.blocks : InPrefix(e.blocks[i]) = prefix}
      Edge(l, r) == [retained |-> e.blocks[l].col, eliminated |-> e.blocks[r].col - Retained,
                     left |-> Len(model.blocks) + l, right |-> Len(model.blocks) + r]
      Joined(edge) == \E k \in DOMAIN edges : /\ edges[k].retained = edge.retained
                                              /\ edges[k].eliminated = edge.eliminated
  IN  {edge \in {Edge(l, r) : l \in Of(TRUE), r \in Of(FALSE)} : ~Joined(edge)}

Edges(e) ==
  LET Of(prefix) == {i \in DOMAIN e.blocks : InPrefix(e.blocks[i]) = prefix}
      Edge(l, r) == [retained |-> e.blocks[l].col, eliminated |-> e.blocks[r].col - Retained,
                     left |-> Len(model.blocks) + l, right |-> Len(model.blocks) + r]
  IN  {Edge(l, r) : l \in Of(TRUE), r \in Of(FALSE)}

(* accumulate: the structure is judged before anything is stored.          *)
Accumulate(e) ==
  /\ stage = "open" /\ Len(sent) < MaxSent
  /\ ready' = FALSE
  /\ IF Supported(e)
     THEN /\ model' = AccumulateModel(model, e)
          /\ edges' = edges \o (IF Edges(e) = {} THEN <<>> ELSE <<CHOOSE edge \in Edges(e) : TRUE>>)
          /\ sent' = Append(sent, e) /\ answer' = B!NoAnswer
     ELSE /\ answer' = B!Error
          /\ UNCHANGED <<model, edges, sent>>
  /\ observed' = NotShown
  /\ UNCHANGED <<dim, stage, rounds, blocks, cross>>

-----------------------------------------------------------------------------
(* The product of the normalized Jacobian blocks of an edge. *)
CrossBlock(m, edge) ==
  LET left  == m.blocks[edge.left]
      right == m.blocks[edge.right]
  IN  [q \in (0..(EliminatedWidth - 1)) \X (0..(RetainedWidth - 1)) |->
         Sigma([i \in 1..left.rows |->
                  Over(left.values[i][q[2] + 1], m.scales[left.col + q[2]])
                    * Over(right.values[i][q[1] + 1], m.scales[right.col + q[1]])])]

Crosses(m) == [k \in DOMAIN edges |-> CrossBlock(m, edges[k])]

(* prepare_damping; overflowed: of the cross blocks, some entry. *)
PrepareDamping(overflowed) ==
  LET prepared == PrepareBlocks(model')
      ok == prepared.ok /\ ~overflowed
  IN  /\ stage = "open"
      /\ model' = PrepareScales(model)
      /\ blocks' = prepared.blocks
      /\ cross' = IF prepared.ok THEN Crosses(model') ELSE cross
      /\ ready' = ok
      /\ answer' = IF ok THEN B!NoAnswer ELSE B!Error
      /\ observed' = NotShown
      /\ UNCHANGED <<dim, sent, stage, rounds, edges>>

(* Its first step fails: on an illegal floor before a scale is computed,   *)
(* or on a column norm that overflows.                                     *)
ScalesFail(overflowed) ==
  /\ stage = "open"
  /\ model' = IF overflowed THEN PrepareScales(model) ELSE model
  /\ ready' = FALSE
  /\ answer' = B!Error
  /\ observed' = NotShown
  /\ UNCHANGED <<dim, sent, stage, rounds, edges, blocks, cross>>

-----------------------------------------------------------------------------
(* cross_apply without transpose: what a vector of the eliminated part     *)
(* adds up to in the retained part; with it, the other way round.          *)
CrossApply(values, x) ==
  [i \in 0..(Retained - 1) |->
     Sigma([k \in {e \in DOMAIN edges : /\ edges[e].retained <= i
                                         /\ i < edges[e].retained + RetainedWidth} |->
              Sigma([q \in 0..(EliminatedWidth - 1) |->
                       values[k][<<q, i - edges[k].retained>>] * x[edges[k].eliminated + q]])])]

CrossTranspose(values, x) ==
  [j \in 0..(dim - Retained - 1) |->
     Sigma([k \in {e \in DOMAIN edges : /\ edges[e].eliminated <= j
                                         /\ j < edges[e].eliminated + EliminatedWidth} |->
              Sigma([q \in 0..(RetainedWidth - 1) |->
                       values[k][<<j - edges[k].eliminated, q>>] * x[edges[k].retained + q]])])]

(* b - a *)
Less(b, a) == [i \in DOMAIN b |-> (b[i] + Neg(a[i])) % P]

(* The right-hand side of one part, normalized. *)
Descent(m, from, to) ==
  [i \in 0..(to - from - 1) |-> Over(Neg(m.gradient[from + i]), m.scales[from + i])]

Eliminate(blks, v, lambda) == SolveNormal(blks, Retained, v, lambda)

ReducedRhs_Undescended(m, blks, values, lambda) ==
  Less(Descent(m, 0, Retained), CrossApply(values, Descent(m, Retained, dim)))

ReducedRhs(m, blks, values, lambda) ==
  Less(Descent(m, 0, Retained),
       CrossApply(values, Eliminate(blks, Descent(m, Retained, dim), lambda)))

(* Reduced::apply: B - E C^-1 E^T, damped. *)
Reduced(blks, values, lambda, x) ==
  LET InB(i, j) == Owner(blks, i) # 0 /\ Owner(blks, i) = Owner(blks, j)
      Gram(i, j) == LET b == blks[Owner(blks, i)] IN At(b.gram, i - b.col, j - b.col)
      Retains(i) == (lambda * x[i] + Sigma([j \in {k \in 0..(Retained - 1) : InB(i, k)} |->
                                                    Gram(i, j) * x[j]])) % P
  IN  Less([i \in 0..(Retained - 1) |-> Retains(i)],
           CrossApply(values, Eliminate(blks, CrossTranspose(values, x), lambda)))

(* recover_step: z_p = C^-1 (-g_p - E^T z_c), and back to the original     *)
(* coordinates.                                                            *)
RecoverStep(m, blks, values, lambda, z) ==
  LET rest == Eliminate(blks, Less(Descent(m, Retained, dim), CrossTranspose(values, z)), lambda)
  IN  [j \in 0..(dim - 1) |-> Over(IF j < Retained THEN z[j] ELSE rest[j - Retained], m.scales[j])]

(* attempt, with the blocks just factored.  A block without a factor is    *)
(* refused: elimination has to be exact.  Otherwise the step is recovered  *)
(* and verified however the iteration has ended; it has failed also when   *)
(* it has converged but its verification overflows.                        *)
Attempt(kind, lambda, termination) ==
  IF \E b \in Range(blocks') : b.fallback
  THEN /\ termination = "Failed"
       /\ answer' = B!Error
       /\ observed' = [termination |-> termination, damping |-> lambda, exact |-> FALSE]
  ELSE \E z \in IF termination = "Failed" THEN {Zeros(Retained)}
                ELSE {x \in Vector(Retained) : Reduced(blocks', cross', lambda, x)
                                                 = ReducedRhs(model', blocks', cross', lambda)} :
         LET step     == RecoverStep(model', blocks', cross', lambda, z)
             verified == VerifyStep(model', step, lambda)
         IN  /\ observed' = [termination |-> termination, damping |-> lambda,
                             exact |-> verified.residual = Zeros(dim)]
             /\ answer' = IF termination = "Failed" THEN B!Error
                          ELSE IF kind = "step" THEN [kind |-> "step", delta |-> step]
                          ELSE [kind |-> "damped", lambda |-> lambda, delta |-> step,
                                reduction |-> verified.reduction]

(* solve_damped; it refuses unless damping is prepared. *)
SolveDamped(lambda, termination) ==
  /\ ready
  /\ blocks' = FactorBlocks(blocks, lambda)
  /\ UNCHANGED <<dim, sent, stage, rounds, model, edges, cross, ready>>
  /\ Attempt("damped", lambda, termination)

Refuse == /\ ~ready
          /\ answer' = B!Error
          /\ observed' = NotShown
          /\ UNCHANGED <<dim, sent, stage, rounds, model, edges, blocks, cross, ready>>

(* solve: prepares, and solves without damping. *)
Solve(termination) ==
  /\ stage = "open"
  /\ model' = PrepareScales(model)
  /\ PrepareBlocks(model').ok
  /\ blocks' = FactorBlocks(PrepareBlocks(model').blocks, 0)
  /\ cross' = Crosses(model')
  /\ ready' = TRUE
  /\ UNCHANGED <<dim, sent, stage, rounds, edges>>
  /\ Attempt("step", 0, termination)

(* IterationLimit, NotPositiveDefinite and NonFinite have the same         *)
(* consequences.                                                           *)
Termination == {"Converged", "Failed"}

Next == \/ \E n \in Dimensions, legal \in BOOLEAN : Prepare(n, legal)
        \/ Clear
        \/ \E e \in Emission : Accumulate(e)
        \/ \E overflowed \in BOOLEAN : PrepareDamping(overflowed)
        \/ \E overflowed \in BOOLEAN : ScalesFail(overflowed)
        \/ \E lambda \in Lambda, t \in Termination : SolveDamped(lambda, t)
        \/ Refuse
        \/ \E t \in Termination : Solve(t)

Spec == Init /\ [][Next]_vars

-----------------------------------------------------------------------------
(* An entry of the normal matrix, put together from what is assembled.     *)
Assembled(i, j) ==
  LET owner == Owner(blocks, i)
      Between == {k \in DOMAIN edges : /\ edges[k].retained <= j
                                       /\ j < edges[k].retained + RetainedWidth
                                       /\ edges[k].eliminated + Retained <= i
                                       /\ i < edges[k].eliminated + Retained + EliminatedWidth}
      Cross(k) == cross[k][<<i - Retained - edges[k].eliminated, j - edges[k].retained>>]
  IN  IF owner # 0 /\ owner = Owner(blocks, j)
      THEN At(blocks[owner].gram, i - blocks[owner].col, j - blocks[owner].col)
      ELSE Sigma([k \in Between |-> Cross(k)])

(* Once damping is prepared, the Gram blocks and the cross blocks are,     *)
(* together and with their scales, the whole normal matrix of the rows     *)
(* accumulated since the last clear: the edges name the Jacobian blocks    *)
(* of their own emissions, and no coupling is lost, repeated or left over  *)
(* from an earlier linearization (schur.rs:402-532).  And the structure    *)
(* that accumulate lets pass is one that block preparation never refuses,  *)
(* and one whose replay is the whole information too.                      *)
SchurInvariant ==
  /\ stage = "open" =>
       /\ model.gradient = [j \in 0..(dim - 1) |-> B!Gradient(sent, j)]
       /\ PrepareBlocks(PrepareScales(model)).ok
       /\ Replayed(model).lower = B!HessianOf(dim, sent)
  /\ ready =>
       /\ stage = "open"
       /\ model.scales = [j \in 0..(dim - 1) |-> B!ColumnScale(sent, j)]
       /\ \A p \in Lower(dim) :
            (Assembled(p[1], p[2]) * model.scales[p[1]] * model.scales[p[2]]) % P
              = B!Hessian(sent, p[1], p[2])

(* A step is handed out only when the observer has been shown diagnostics  *)
(* that bear it out: converged, for the damping of this call, with a       *)
(* residual that vanishes when it is recomputed from the rows, in original *)
(* coordinates; and only with every block factored for this damping, none  *)
(* of them by a fallback (schur.rs:192-397, 533-551).                      *)
EliminationIsExact ==
  answer.kind \in {"step", "damped"} =>
    /\ observed.termination = "Converged" /\ observed.exact
    /\ answer.kind = "damped" => observed.damping = answer.lambda
    /\ blocks = FactorBlocks(PrepareBlocks(model).blocks, observed.damping)
    /\ \A b \in Range(blocks) : ~b.fallback
=============================================================================
