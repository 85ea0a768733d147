--------------------------------- MODULE Lsmr ---------------------------------
(***************************************************************************)
(* The LSMR backend (lsmr.rs): it keeps the rows of one linearization,     *)
(* prepares scales, a right-hand side and preconditioner blocks for a      *)
(* damping mode once, and solves for one damping after the other.  The     *)
(* mode is chosen by public fields that may change between any two calls,  *)
(* so what they ask for is an input of the calls that read them.           *)
(* It implements LinearBackend.                                            *)
(*                                                                         *)
(* faer's iteration is external: when it converges, its solution is one of *)
(* the least-squares problem it was given.  A right preconditioner does    *)
(* not change the solutions, so it appears only in what is kept for it.    *)
(* A covariance changes nothing here: the rows are replayed into a normal  *)
(* matrix that the query owns.  Timings and statistics are left out.       *)
(***************************************************************************)
EXTENDS LinearModelOps

CONSTANTS Emission,    \* what the sink may pass on
          Dimensions,  \* dimensions a layout may have
          Lambda,      \* damping values that have a square root
          MaxSent,     \* bound: emissions in one linearization
          MaxRounds    \* bound: linearizations

(* What diagnostics() yields is not read by the code and is kept here only *)
(* as the observer is shown it.                                            *)
VARIABLES dim, sent, answer,  \* see LinearBackend
          stage,       \* what the optimizer has done: see the guards
          rounds,      \* linearizations so far
          model,       \* the LinearizedModel
          diagonal,    \* the damping rows of the augmented operator
          augmented,   \* augmented_rhs
          blocks,      \* the BlockFactors
          mode,        \* prepared_mode
          observed     \* the diagnostics that on_solve was shown by the last call

vars == <<dim, sent, answer, stage, rounds, model, diagonal, augmented, blocks, mode,
          observed>>

B == INSTANCE LinearBackend

(* exact: the residuals of the normal equations, recomputed, are zero.     *)
NoDiagnostics == [termination |-> "none", damping |-> -1, exact |-> FALSE]

Fits(e) == \A b \in DOMAIN e.blocks : e.blocks[b].col + e.blocks[b].cols <= dim

Init == /\ B!Init
        /\ stage = "new" /\ rounds = 0
        /\ model = NewModel
        /\ diagonal = Zeros(0) /\ augmented = <<>> /\ blocks = <<>>
        /\ mode = "none"
        /\ observed = NoDiagnostics

(* What requested_mode makes of the fields diagonal_preconditioning and    *)
(* block_preconditioning.                                                  *)
Modes == {"Identity", "Diagonal", "BlockJacobi"}

-----------------------------------------------------------------------------
(* prepare; legal: max_iterations and relative_tolerance are. *)
Prepare(n, legal) ==
  /\ mode' = "none"
  /\ model' = IF legal THEN PrepareModel(model, n) ELSE model
  /\ dim' = IF legal THEN n ELSE dim
  /\ stage' = IF legal THEN "prepared" ELSE "failed"
  /\ sent' = IF legal THEN <<>> ELSE sent
  /\ answer' = IF legal THEN B!NoAnswer ELSE B!Error
  /\ observed' = NoDiagnostics
  /\ UNCHANGED <<rounds, diagonal, augmented, blocks>>

Clear == /\ stage \in {"prepared", "open"} /\ rounds < MaxRounds
         /\ mode' = "none" /\ rounds' = rounds + 1
         /\ model' = ClearModel(model)
         /\ stage' = "open"
         /\ sent' = <<>> /\ answer' = B!NoAnswer
         /\ observed' = NoDiagnostics
         /\ UNCHANGED <<dim, diagonal, augmented, blocks>>

Accumulate_StaysPrepared(e) ==
  /\ stage = "open" /\ Len(sent) < MaxSent /\ Fits(e)
  /\ model' = AccumulateModel(model, e)
  /\ sent' = Append(sent, e) /\ answer' = B!NoAnswer
  /\ observed' = NoDiagnostics
  /\ UNCHANGED <<dim, stage, rounds, diagonal, augmented, blocks, mode>>

Accumulate(e) ==
  /\ stage = "open" /\ Len(sent) < MaxSent /\ Fits(e)
  /\ mode' = "none"
  /\ model' = AccumulateModel(model, e)
  /\ sent' = Append(sent, e) /\ answer' = B!NoAnswer
  /\ observed' = NoDiagnostics
  /\ UNCHANGED <<dim, stage, rounds, diagonal, augmented, blocks>>

(* prepare_damping; whatever happens, no mode is prepared until the end.   *)
PrepareDamping(wanted) ==
  LET scaled   == PrepareScales(model)
      prepared == PrepareBlocks(scaled)
      agrees   == wanted = "BlockJacobi" => prepared.ok
  IN  /\ stage = "open"
      /\ model' = scaled
      /\ diagonal' = Resize(diagonal, model.cols)
      /\ blocks' = IF wanted = "BlockJacobi" THEN prepared.blocks ELSE blocks
      /\ augmented' = IF agrees THEN model.negative \o [j \in 1..model.cols |-> 0] ELSE augmented
      /\ mode' = IF agrees THEN wanted ELSE "none"
      /\ answer' = IF agrees THEN B!NoAnswer ELSE B!Error
      /\ observed' = NoDiagnostics
      /\ UNCHANGED <<dim, sent, stage, rounds>>

(* Its first step fails: on an illegal floor before a scale is computed,   *)
(* or on a column norm that overflows.                                     *)
ScalesFail(overflowed) ==
  /\ stage = "open"
  /\ model' = IF overflowed THEN PrepareScales(model) ELSE model
  /\ mode' = "none"
  /\ answer' = B!Error
  /\ observed' = NoDiagnostics
  /\ UNCHANGED <<dim, sent, stage, rounds, diagonal, augmented, blocks>>

-----------------------------------------------------------------------------
(* The operator faer is given: the Jacobian, with its columns divided by   *)
(* the scales unless the mode is Identity, above the diagonal.             *)
Divided(x, scales, scaled) == [j \in DOMAIN x |-> IF scaled THEN Over(x[j], scales[j]) ELSE x[j]]

Damped(m, diag, scaled, x) ==
  Apply(m, Divided(x, m.scales, scaled)) \o [j \in 1..m.cols |-> (diag[j - 1] * x[j - 1]) % P]

DampedTranspose(m, diag, scaled, y) ==
  LET top == Divided(TransposeApply(m, y), m.scales, scaled)
  IN  [j \in 0..(m.cols - 1) |-> (top[j] + diag[j] * y[m.rows + j + 1]) % P]

(* Where the gradient of the squared residual vanishes. *)
LeastSquares(m, diag, scaled, rhs) ==
  LET Normal(x) == DampedTranspose(m, diag, scaled, Damped(m, diag, scaled, x))
      target == DampedTranspose(m, diag, scaled, rhs)
  IN  {x \in Vector(m.cols) : Normal(x) = target}

(* What the buffer may hold after the iteration: a solution, or something  *)
(* else, for which the zero step it began with stands.                     *)
Iterates(rows, n, solutions, termination) ==
  IF rows = 0 \/ n = 0 THEN IF termination = "Converged" THEN {Zeros(n)} ELSE {}
  ELSE IF termination = "Converged" THEN solutions ELSE {Zeros(n)}

(* solve: undamped and not preconditioned; it needs no preparation. *)
Solve(termination) ==
  /\ stage = "open"
  /\ \E step \in Iterates(model.rows, model.cols,
                        LeastSquares(model, Zeros(model.cols), FALSE,
                                     model.negative \o [j \in 1..model.cols |-> 0]), termination) :
       answer' = IF termination = "Converged" THEN [kind |-> "step", delta |-> step] ELSE B!Error
  /\ observed' = [NoDiagnostics EXCEPT !.termination = termination]
  /\ UNCHANGED <<dim, sent, stage, rounds, model, diagonal, augmented, blocks, mode>>

(* solve_damped, refused: nothing is prepared, or the fields have changed  *)
(* since, or the damping is not legal.                                     *)
Refuse == /\ answer' = B!Error
          /\ observed' = NoDiagnostics
          /\ UNCHANGED <<dim, sent, stage, rounds, model, diagonal, augmented, blocks,
                         mode>>

DampingRows(lambda) ==
  [j \in DOMAIN diagonal |->
     IF mode # "Identity" THEN Root(lambda) ELSE (Root(lambda) * model.scales[j]) % P]

(* The damping overflows; nothing has been attempted. *)
DampingOverflows(lambda) ==
  /\ mode # "none" /\ lambda # 0 /\ dim > 0
  /\ diagonal' = DampingRows(lambda)
  /\ answer' = B!Error
  /\ observed' = NoDiagnostics
  /\ UNCHANGED <<dim, sent, stage, rounds, model, augmented, blocks, mode>>

(* What is known of a damped solution once it has been brought back to the *)
(* original coordinates and verified there, which happens even if the      *)
(* iteration was exhausted.                                                *)
Recovered(iterate, lambda, termination) ==
  LET step     == Divided(iterate, model.scales, mode # "Identity")
      verified == VerifyStep(model, step, lambda)
  IN  /\ observed' = [termination |-> termination, damping |-> lambda,
                      exact |-> verified.residual = Zeros(model.cols)]
      /\ answer' = IF termination = "Converged"
                   THEN [kind |-> "damped", lambda |-> lambda, delta |-> step,
                         reduction |-> verified.reduction]
                   ELSE B!Error

(* solve_damped, when the fields still ask for what was prepared.  It has  *)
(* failed also when the iteration has converged but its verification       *)
(* overflows.                                                              *)
SolveDamped(lambda, termination) ==
  /\ mode # "none"
  /\ diagonal' = DampingRows(lambda)
  /\ blocks' = IF mode = "BlockJacobi" THEN FactorBlocks(blocks, lambda) ELSE blocks
  /\ \E iterate \in Iterates(model.rows + model.cols, model.cols,
                           LeastSquares(model, diagonal', mode # "Identity", augmented),
                           termination) :
       Recovered(iterate, lambda, termination)
  /\ UNCHANGED <<dim, sent, stage, rounds, model, augmented, mode>>

(* IterationLimit and NonFinite have the same consequences. *)
Termination == {"Converged", "Failed"}

Next ==
  \/ \E n \in Dimensions, legal \in BOOLEAN : Prepare(n, legal)
  \/ Clear
  \/ \E e \in Emission : Accumulate(e)
  \/ \E wanted \in Modes : PrepareDamping(wanted)
  \/ \E overflowed \in BOOLEAN : ScalesFail(overflowed)
  \/ \E t \in Termination : Solve(t)
  \/ Refuse
  \/ \E lambda \in Lambda : DampingOverflows(lambda)
  \/ \E lambda \in Lambda, t \in Termination : SolveDamped(lambda, t)

Spec == Init /\ [][Next]_vars

-----------------------------------------------------------------------------
(* The nonempty ranges of coordinates that the emissions name. *)
Ranges == UNION {{b.col..(b.col + b.cols - 1) : b \in Range(sent[e].blocks)} : e \in DOMAIN sent}
            \ {{}}

RangesAgree == \A r, s \in Ranges : r = s \/ r \cap s = {}

(* The Gram blocks that belong to the rows sent. *)
GramIsCurrent ==
  /\ {b.col..(b.col + b.width - 1) : b \in Range(blocks)} = Ranges
  /\ \A b \in Range(blocks) : \A p \in Lower(b.width) :
       (b.gram[p] * model.scales[b.col + p[1]] * model.scales[b.col + p[2]]) % P
         = B!Hessian(sent, b.col + p[1], b.col + p[2])

(* Whatever order of edits of the fields, preparations, accumulations and  *)
(* solves has led here, a mode that counts as prepared stands for scales,  *)
(* a right-hand side, damping rows and preconditioner blocks that were all *)
(* made from the rows accumulated since the last clear: none of the        *)
(* buffers that survive from earlier linearizations, of other dimensions,  *)
(* is taken for them.  And replaying the cached blocks gives the whole     *)
(* information (lsmr.rs:477-601, linear_model.rs:122-167).                 *)
LsmrInvariant ==
  /\ stage = "open" => /\ model.cols = dim
                       /\ model.gradient = [j \in 0..(dim - 1) |-> B!Gradient(sent, j)]
                       /\ Replayed(model).lower = B!HessianOf(dim, sent)
  /\ mode # "none" =>
       /\ stage = "open"
       /\ model.scales = [j \in 0..(dim - 1) |-> B!ColumnScale(sent, j)]
       /\ augmented = model.negative \o [j \in 1..dim |-> 0]
       /\ DOMAIN diagonal = 0..(dim - 1)
       /\ mode = "BlockJacobi" => GramIsCurrent

(* A step is handed out only when the observer has been shown diagnostics  *)
(* that bear it out: converged, for the damping of this call, with a       *)
(* residual that vanishes when it is recomputed, in original coordinates,  *)
(* from the rows rather than from what was solved; and the blocks have     *)
(* been factored for this damping, not for an earlier one                  *)
(* (lsmr.rs:73-124, 402-471, 568-601).                                     *)
DiagnosticsVouch ==
  /\ answer.kind \in {"step", "damped"} => observed.termination = "Converged"
  /\ answer.kind = "damped" =>
       /\ observed.damping = answer.lambda
       /\ observed.exact
       /\ mode = "BlockJacobi" => blocks = FactorBlocks(PrepareBlocks(model).blocks, answer.lambda)

(* Block preparation accepts exactly the linearizations whose ranges are   *)
(* pairwise the same or disjoint, in whatever order they have been met     *)
(* (block_factors.rs:47-111, and "Emissions must use consistent,           *)
(* nonoverlapping variable ranges", lsmr.rs:314).                          *)
RangesJudgedExactly ==
  stage = "open" => (PrepareBlocks(PrepareScales(model)).ok <=> RangesAgree)
=============================================================================
