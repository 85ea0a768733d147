# Verification of fagra

fagra (`src/`) is a Rust library for nonlinear least squares over typed factor
graphs: states and factors live in generational pools, optimizers move the
states through transactional trials, and marginalization replaces part of the
graph by a prior. This directory holds TLA+ models of it, TLC configurations
that model-check them on small instances, and TLAPS proofs of what holds for
every instance. Source paths below are relative to `src/src/` unless they begin
with `src/`.

To run a model: `tlc -config MCX.cfg MCX`; to run the proofs: `tlapm X_proofs.tla`. A module whose definitions another module's proofs
bring together with those of a second one has names of its own for its
specification (`IdsSpec`, `SinkSpec`, `TrialSpec`, `TrackedSpec`); elsewhere it is `Spec`.

- [The system](#the-system)
- [The modules](#the-modules)
- [The runs](#the-runs)
- [Scheduling and fairness](#scheduling-and-fairness)
- [What is proved](#what-is-proved)
- [A divergence](#a-divergence)
- [What is not modelled](#what-is-not-modelled)
- [The plan](#the-plan)

## The system

A `Problem` owns three things: a schema of state pools, a schema of factor
pools, and the priors of earlier marginalizations. Everything a caller holds is
a *handle*. One thread at a time works on a problem: all mutation needs `&mut`.
The library calls out to user code in the middle of its own work, and this is
where the hard behaviours come from: evaluators of factors, retractions of
states, backends, observers of accepted steps. Each can return an error, most
can panic, and an unwinding panic may be caught by the caller, who then goes on
with the same problem.

| Component | State | Operations | Hard behaviour | What makes it correct |
|---|---|---|---|---|
| Identities (`key.rs`) | one process-wide atomic counter | `PoolId::new` | threads race for the counter; it runs out | no two pools share an identity |
| Generational pools (`dense.rs`) | packed values and keys, sparse slots, free list | `reserve`, `insert`, `get`, `get_mut`, `remove`, loops of removals | `swap_remove` moves payloads under live handles; slots and generations run out | a handle names its own payload until it is removed and nothing after that; removal never allocates |
| State and factor pools (`storage.rs` 27-237) | a pool of entries; for states also the trial values and the anchors of priors | as above; stage, accept, reject; `remove_selected` | see trials | see trials |
| Batch families (`storage.rs` 240-458) | a pool of batches (model, payloads, keys) and a directory pool from factor handles to positions | insert batch or payload, remove payload, remove empty batch, `with_selected`, `remove_selected`, cost | two pools must agree; the payloads are swapped while user code runs and swapped back on any way out | directory and batches agree; the selection is exact |
| Trials (`optimization.rs` 418-473, `storage.rs` 73-171) | per pool a trial buffer and a flag | `Stage`, `Accept`, `Reject`, drop of `Trial` | a panic in the middle of staging one pool of several | all pools change, or none; nothing is left behind |
| Workspace (`optimization.rs` 165-271) | layout, backend, the flag `current` | `prepare`, `linearize` | a model outlives the estimates it was made from | what is solved or extracted belongs to the problem as it is |
| Levenberg-Marquardt (`optimization/levenberg_marquardt.rs`) | damping, growth, statistics | `optimize`, `optimize_covariance` | retries, rejections of many kinds, early returns, an observer that panics | cost only falls; the report and the statistics are true |
| Gauss-Newton (`optimization/gauss_newton.rs`) with dense Cholesky (`normal.rs`) | iteration count; normal equations that are factored in place | `optimize`, `optimize_covariance` | solving destroys the model; steps may go uphill for ever | one solve per model; calls return; the report is true |
| Checked sink (`optimization.rs` 475-637) | seen factors, marks of blocks, emission counter, current scope, sticky failure | `factor`, `residual` | evaluators open scopes in any order and swallow errors; the counter wraps | a linearization that stands is whole |
| Marginalization (`marginalization.rs`) | the pool of priors, their anchors in the state pools, a list of spare buffers, a constant | `Problem::marginalize` | fails or panics at every stage before publication; publication must not fail | atomic; information is neither lost nor counted twice; no dangling reference |
| Tracked problem (`tracked.rs`) | a journal of changes around a problem | every mutation of a problem | an edit fails; an optimization fails after moving estimates | a consumer of the journal arrives at the problem as it is |
| Covariance (`covariance.rs`, `solver.rs` 199-277) | selected columns and result of each problem, a workspace of its own | queries after an optimization, or alone | stale columns, layouts and models; one optimizer used for several problems; failure after estimates have moved | an answer is about the states asked for, in the problem as it is; names are judged first |
| Dense Cholesky backend (`normal.rs`) | lower triangle and right-hand side, both overwritten | `prepare`, `clear`, `accumulate`, `solve`, the factor for a covariance | factored in place; blocks emitted in any order | each is computed from exactly the rows emitted, and factored once |
| Linear model, LSMR (`linear_model*`, `lsmr*`) | rows of one linearization; scales, damping rows, Gram blocks; the mode they were prepared for | `prepare`, `clear`, `accumulate`, `prepare_damping`, `solve`, `solve_damped`, covariance by replay | buffers survive linearizations, dimensions and dampings; public fields choose the mode at any time; overlapping ranges; iterations give out | steps solve the system of the rows since the last clear, of this damping; diagnostics vouch for them |
| Schur (`schur.rs`) | the same with edges that name pairs of Jacobian blocks, and cross blocks | the same | positions in caches that are cleared and grow; a factor that falls back | elimination and substitution solve the whole system |
| Variables, scalars, macros, test utilities, examples (`variable.rs`, `real.rs`, `states.rs`, `factors.rs`, `testing.rs`) | none | pure functions, code generation | floating point | not modelled |

How they interact: `Problem` checks the dependencies of a factor against the
state pools and inserts into factor pools. An optimizer visits the schemas with
small visitors (`Stage`, `Cost`, `Linearize`, `Accept`), one pool a call, with a
checked sink between the evaluators and the backend. Marginalization visits
factors and priors to collect those that touch the removed states, linearizes
them through the same sink (in batches through packed selections), eliminates,
and publishes into all three parts of the problem. A tracked problem wraps a
problem and records.

The hazards, with the lines where they bite and the properties that would catch
them, are listed in `PROJECT.json`.

## The modules

Abstract specifications say what a component promises; detailed ones follow the
code and refine them.

    HandleStore        <- DensePool, BatchPool (twice: batches and factors)
    EstimateStore      <- TrialStates, LevenbergMarquardt, GaussNewton
    InformationGraph   <- Marginalization;  part of TrackedProblem
    LinearBackend      <- LinearBackends (DenseNormal, Lsmr or Schur)

**PoolIds** (`key.rs` 12-24). Threads within `fetch_update`: load, compute,
weak exchange, retry. `MaxId` stands for `u64::MAX`. The counter stops there and
`allocate` panics.

**DensePoolOps, DensePool** (`dense.rs`). A pool is a record of the fields of
`DensePool`; the operators `PoolReserve`, `PoolInsert`, `PoolRemove`, `KeyStatus`,
... are its methods and are reused by `BatchPool` and `Marginalization`.
`Capacity` stands for the `u32` index space, `MaxGeneration` for `u32::MAX`,
`VACANT` is the reserved index. Sequences count from 1 where the code counts
from 0. `DensePool` adds the callers: they present handles that were issued, by
this pool or another; there is no way to forge one. `remove_selected` of the
state and factor pools runs one iteration a step.

**HandleStore**. A partial map from handles to payloads in which a released
handle is refused for ever. It fixes replies too, so that refinement says what
callers are told: `Stale`, `ForeignSolver`, and never `Unknown`.

**BatchPool** (`storage.rs` 240-458). Two dense pools, the batches and the
directory. Packing a selection, the evaluator's return, error or panic, and the
swaps that undo the packing are separate actions, as is every iteration of a
removal. Indices left stale by swaps are only allowed while the batch is packed.

**TrialStates** (`storage.rs` 27-171, `optimization.rs` 418-473). One pool or one
retraction a step. The sizes of the pools are given by `Offset`, the boundaries of
their slices of a delta; a state is a pool and a position in it. A tangent names
the version each state is retracted to, so a slice given to the wrong pool shows.

**EstimateStore**. The estimates of all states are one value; a trial replaces
all of it or nothing; evaluators see all of the trial and everyone else all of
what was accepted.

**Workspace, LevenbergMarquardt, GaussNewton**. Their problem is a `graph`, which
stands for factors, priors and states, and an `estimate`. The cost and whether
the gradient is within tolerance are functions of the two, as evaluators must be
deterministic during a call (`solver.rs` 250-251). `model` is what the backend's
buffers hold: nothing, rows of an interrupted linearization, all of them, a
factor in place, or the ruins of one, and of which graph and estimate. The
estimates change at once when a trial is accepted; `TrialStates` shows that this
is what the pools do. Every call out of the loop is an action that can fail, or
panic where user code runs. Damping is the exponent of a power of two, and the
model's prediction and the quality of a step are whatever the numbers make of
them. Options that `validate` refuses are assumed away: refusing happens before
anything is touched.

**CheckedSink** (`optimization.rs` 475-637). The library opens the scopes of
ordinary factors, a batch those of its own, in any order and as often as it
likes. A layout is given by the boundaries `Position` of its units and the
dependencies `Deps` of its factors. `usize::MAX` is `MaxEmission`. Rows are kept as the set of blocks they
name; a value is in order or not.

**Marginalization** (`marginalization.rs`, `solver.rs` 34-150). Edits of the graph
with their dependency checks, and a marginalization in the stages of
`Marginalizer::run`: validation, planning of the affected front and its columns,
collection, insertion of the pending prior under its guard, reduction, capture
of anchors pool by pool, publication in steps, recycling of buffers, and the
guard's rollback from any stage before publication. State pools are sequences in
dense order since that order determines a prior's columns and changes with
removals. The priors live in a dense pool. Of the numbers in a prior two things
are kept: of which factors it tells, and whether any row is left.
`constant` is the set of factors of which only a constant remains.
Destructors of user payloads that panic are not modelled.

**InformationGraph**. A graph of terms, each over a set of states and telling of
a set of factors; marginalization merges terms in one step.

**TrackedProblem** (`tracked.rs`). It composes an `InformationGraph` with the
values of the states and a journal. The journal starts with `Rebuild`, as it does in the
code, and has no operation that drains it. `Replay` is what a consumer makes of it,
entry by entry (`Applied`).

**Scalars.** The linear backends compute, and what goes wrong in them goes wrong
with numbers: a sign, an index, a buffer of the last linearization. So their
models compute too, exactly, with the integers modulo a prime `P` in place of the
floating-point numbers. Elimination, scaling, substitution and factorization are
identities of linear algebra that hold in any field, and a step is right or
wrong in one as in the other. Not so: rounding, norms and signs, and what depends on
them. A column's scale is its squared norm rather than the root of it (any nonzero
scale must give the same step, and this one exists); a matrix that is
not positive definite is represented by a singular one; whether an iteration
converges and whether something overflows is nondeterministic. The column scale of
the code is a floored norm; here a column of zero norm gets scale 1.

**LinearBackend** (`optimization.rs` 115-163, `covariance.rs` 126-134). The three
traits as one abstract specification: the emissions accumulated since the last
`clear`, and of every answer what it must solve: the (damped) normal equations of
exactly those rows, the reduction it predicts, the selected inverse.

**NormalOps, DenseNormal** (`normal.rs`, `covariance.rs` 93-120). The matrix, of
which only the lower triangle exists, assembled pair by pair as the kernels do;
factored in place by whoever comes first, a solve or a query, and then reused. A
factor is represented by the information it factors, so factoring a factor is a
ruin.

**LinearModelOps, Lsmr** (`linear_model.rs`, `linear_model/block_factors.rs`,
`lsmr.rs`). The cached rows, products with the Jacobian and its transpose, scales,
verification in original coordinates, the replay of cached rows into a normal matrix
for a covariance, and the Gram blocks with the rule that ranges must agree. `Lsmr`
adds the modes: its public fields may change between any two calls, so what they
ask for is an input of each call that reads them. faer's iteration returns a
solution of the least-squares problem it is given, or nothing; a preconditioner does not
change the solutions.

**Schur** (`schur.rs`). Structure checks, edges that name Jacobian blocks by position,
cross blocks, reduced right-hand side, the reduced operator, substitution and
verification. Conjugate gradients are external in the same way.

**LinearBackends** (`optimization.rs` 115-186). One of the three behind the interface:
an optimizer is generic in its backend, so the module's states hold the variables of all
three, a choice made at the start, and one action that is a step of the chosen one.
It is what refines `LinearBackend`, whichever backend it is.

**CovarianceQueries** (`covariance.rs`, `solver.rs` 172-277, `optimization.rs`
165-271). Several problems, each with the workspace and the selection of its own
queries, and optimizers with a workspace each, used for any problem. Here numbers
would hide what matters: a model keeps what it was made from, a matrix the names
its coordinates had, so that a stale layout, selection or model shows. A matrix
lives as long as Rust lets it be borrowed: until the next call on its own problem.

Properties that belong together are conjuncts of one invariant, which is also what
an inductive proof needs: `PoolInvariant`, `BatchInvariant`, `TrialInvariant`,
`LoopInvariant` (one in each optimizer), `GraphInvariant` (marginalization),
`SinkInvariant`, `JournalInvariant`, `NormalInvariant`, `LsmrInvariant` and
`SchurInvariant` hold the named parts that say what the code relies on between two
steps, with the module's type invariant where it is not implied by them. In the
same way `VerdictIsEarned` (Levenberg-Marquardt) and `VerdictsAreExact` (the sink) each
join the two directions of one judgement, and `StoresRefined` the two stores of a batch family.

`PROJECT.json` maps every definition to its lines. Operators named
`Def_Something` before a definition `Def` are variants of it with a plausible
bug: with `Def` replaced by the variant, the corresponding run must report the
property violated, which shows that the run can see that bug.

## The runs

| Run | Instance | Distinct states | What it shows |
|---|---|---|---|
| `identities` | 3 threads, counter up to 5 | 242 | identities are unique and none is lost, through exhaustion |
| `handles` | 3 slots, 2 generations, 2 payloads, a foreign handle | 54 444 | buffers in step; handles retired for good; slots not lost; removal loops thorough; refines `HandleStore` |
| `batches` | 3 slots, 2 generations, 3 handles of either kind, 2 payloads, 1 model | 282 677 | packing, evaluating with any outcome, undoing and removing keep directory and order; batches and factors refine `HandleStore`, slots reused |
| `batches_alive` | 2 slots | violated | finds the divergence below |
| `trials` | pools of 2, 0 and 1 states, 2 values | 15 168 | trials are atomic, whole and leave nothing behind |
| `levenberg_marquardt` | 3 graphs, 4 estimates, 2 iterations, 3 trials, 4 levels of damping | 138 407 | reports, statistics and covariances are true; only downhill; refines `EstimateStore` |
| `gauss_newton` | 3 graphs, 4 estimates, 3 iterations | 6 695 | one solve per model; reports true; every call returns |
| `sink` | an ordinary factor, an empty batch, a batch of two; 2 emissions before the wrap; 5 calls | 39 246 | a linearization that stands is whole; the sink refuses exactly what breaks the protocol |
| `marginalization` | 3 states in 2 pools of widths 2 and 1, 3 factors in a chain, 2 priors | 202 402 | references, anchors and information in order; atomic; refines `InformationGraph` |
| `tracked` | 2 states, 2 values, 2 factors, 6 entries | 114 862 | the journal replays; it is voided before what it cannot tell |
| `backends` | `P` = 5; dense: dimensions 0 to 2, 4 emissions, 3 at a time; LSMR: dimensions 1 and 2, 2 emissions that overlap, 2 at a time; Schur: one retained block of 2, two eliminated of 1, 7 emissions, 2 at a time; 2 linearizations, dampings 0 and 1 | 77 830 | what is assembled is the whole information and factored once; nothing stale goes into a step; diagnostics vouch for it; overlapping ranges are refused, and only they; elimination is exact; every backend refines `LinearBackend` |
| `covariance` | 2 problems, 3 and 1 states in pools of widths 1 and 2, one optimizer for both, 2 calls, 3 requests | 162 068 | a matrix is about what was asked, as it is; names are judged first |

Why these bounds are enough for what the runs look at:

- *Pools.* A removal involves the removed payload, the one moved into its place
  and, to see that nothing else is disturbed, a third. Two generations give a
  slot that is reused and then exhausted. A handle of another pool with the bits
  of a live one tests the pool's identity. The proofs remove the bounds.
- *Batches.* Three payloads in up to three batches make selections with a gap,
  whose swaps overlap, and payloads moved by removals in a batch and in the
  directory at once. `MaxIssued` bounds how many handles of either kind are ever issued, so
  that a pool either fills up with three or reuses one slot and then retires it.
- *Trials.* An empty pool between two others would shift the slices behind it if
  it took part; two states in the first pool leave it half staged on a panic.
- *Optimizers.* The "valley" has one minimum, the "ridge" a second one that is
  local, "still" no coordinates. Three trials per iteration and four levels of
  damping let a retry end by either bound, in either order. Several calls run
  one after another, on the same or another graph, with edits in between.
- *Sink.* With two values of the emission counter the third emission wraps; a
  batch of two has an order to break; an empty batch has no scope at all.
- *Marginalization.* The chain is the smallest graph in which a first call leaves
  a prior and a second call, of another state, must absorb it; two pools of
  different widths have columns to confuse; two slots with two generations reuse
  a prior's handle slot.
- *Tracking.* Six entries hold an addition, a setting and a removal of each kind
  and a void in between; journals are compared by replaying them. The proof
  removes the bound.
- *Backends.* Modulo 3 the square of every nonzero number is 1 and a forgotten
  scale goes unnoticed; 5 is the smallest prime that tells them apart. Two coordinates
  have one entry off the diagonal to lose or transpose; emissions with blocks in both
  orders, of several rows and of none, and overlapping each other, are what the
  assembly distinguishes. A second linearization and another dimension leave
  buffers to be mistaken; two dampings, factors. An unsupported emission of each
  kind tests the structure checks of Schur.
- *Covariances.* Two pools of different widths and a request in the opposite order
  confuse offsets; a removed state moves another by `swap_remove`; two calls are
  a query or optimization and another one after it, in the same or the other
  problem, with an edit or a failure in between. Whether the optimizer's backend
  keeps rows or a normal matrix is chosen at the start.
- *Identities.* Three threads include one that loses a race against two others;
  four identities run out with a thread still in its loop.

`MCBatchPool` uses a VIEW without `reply`: no action reads it, and of the invariants
only the type invariant names it; refinement looks at it only in steps, which TLC
evaluates as it generates them. Symmetry is over payloads, states, factors,
values or threads that models only move and compare, and no run with
symmetry checks a liveness property. No run disables deadlock.

## Scheduling and fairness

Everything but `PoolIds` is one thread: actions of a running call follow the
program's order, and calls do not overlap. What is nondeterministic is the
environment: which call comes next, with which handles, what evaluators,
retractions, backends and observers answer, and whether they panic.

Fairness is assumed in one place: `GaussNewton` has weak fairness of the actions
within a call, for `CallsReturn`. The code justifies it by running a call on one
thread to its end: nothing blocks, and the user code it calls returns or
panics. Nothing is assumed about callers: they may never call again. Whether
calls return is only a question for this loop, whose full steps may go uphill
and come back; `LevenbergMarquardt` ends by the bounds on its counters, which its
type invariant states, and the other components run through finite lists.

## What is proved

`DensePool_proofs` proves of `DensePool`, for every `Capacity`, `MaxGeneration`,
payloads and foreign handles, eight theorems: `TypeCorrect`,
`StructureIsKept`, `RemovalIsInfallible`, `NoHandleIsIssuedTwice` and
`SweepsAreThorough`, which `PoolsStayConsistent` joins into the `PoolInvariant`
that `handles` checks, `NoSlotLeaks` and `PoolRefinesStore`. All but the last
follow from an inductive invariant,

    IInv == TypeOK /\ StructureOk /\ SlotsRememberHandles /\ SweepIsThorough

- `StructureOk` (packed keys, slots and the free list describe the same
  payloads) is preserved by each operation on its own; that is
  `DensePoolOps_proofs`, one lemma per method, where `PoolRemove` is the long
  one: the removed payload, the moved one and the others are separate cases.
- It does not say that a new handle is *new*. For that the slots must remember
  every handle issued: `SlotsRememberHandles`. Then the handle the free list
  offers next, at its slot's generation, was never issued.
- A loop of removals works on a set of handles chosen when it began. That what
  lies behind its position stays dealt with needs that no handle in the set can be
  issued again.

The refinement of `HandleStore` is proved from `IInv` step by step: every action
maps to one of the store's. What each does to *every other* handle (the lemmas
`InsertLookup`, `SetLookup`, `ReserveLookup`, `RemoveLookup`) is the core of it:
the answers to them are unchanged although payloads have moved.

Assumptions: `PoolBounds` (the bounds are naturals, there is at least one index)
and `PoolIdentity` (this pool's identity is an identity, and handles from elsewhere
carry another one). The latter is what `PoolIds` establishes, and the same module
proves it, for any set of threads and any `MaxId`: `IdsTypeCorrect`,
`NoIdentityIsShared` and `NoIdentityIsLost`. The invariant
`IdsTypeOK /\ CounterIsExact` says which identities were given away (those below the
counter, once each) and that no thread has seen a counter ahead of the present
one; uniqueness alone is not inductive.

`Evaluation_proofs` is about the two passes over a problem that call user code: trials
and linearizations. Of `TrialStates` it proves, for any number of pools of any sizes
and any values, `TrialsCleanUp` (`TrialInvariant`) and `TrialsAreAtomic`, the refinement of
`EstimateStore`. What the run checks is not inductive: it does not tell *which*
values lie in the buffers. `ValuesFit` adds that every value staged so far is the
one the delta has for its state, that a pool which is not accepted yet still has it in
its trial and one that is has it in its values; `PositionFits`, that the position in
the delta is where the pool's slice begins. Assumption: `OffsetAssumption`, the slices
follow one another.

Of `CheckedSink` the same module proves `SinkIsSound` (`SinkInvariant`) and
`VerdictsAreTheProtocols` (`VerdictsAreExact`) for any layout, any `MaxEmission`,
any number of calls and rows of any length. Its invariant `SinkInv` ties the sink's buffers to
the history: it has *seen* exactly the factors whose callback ran, once each
(`SeenIsOpened`); no factor of a later unit is among them (`UnitsInOrder`), so the
scope that the library opens without asking is never refused; a mark is never
ahead of the emission (`MarksAreOld`), so no mark of an earlier row is taken for one of
this row, also after the counter has wrapped; an open scope belongs to the
evaluator that runs (`ScopeFits`); a refusal is never forgotten
(`RefusalsAreKept`). That a legal row has no more blocks than its factor has
dependencies, which the code asks first, is the pigeonhole principle. Assumptions:
`LayoutAssumption` (the units divide the factors among them, an ordinary factor is
a unit of one, dependencies are finite) and `BoundsAssumption`.

`LevenbergMarquardt_proofs` proves, for any graphs, estimates, cost function and
options that `validate` accepts: `LoopTypeCorrect`, `LoopIsSound` (`LoopInvariant`),
`VerdictsAreEarned`, `CovarianceFitsTheResult`, `NeverUphill` (`OnlyDownhill`) and
`LoopRefinesEstimates`. The inductive invariant adds to the checked ones what
each phase knows: the trial exists exactly while it is judged (`TrialFits`), the model is
of the graph and the estimate that the phase takes it for (`ModelFits`), the result is
empty until the call ends and then names one of the ways to end (`ResultFits`),
the attempts that are spent are those counted (`SpentFits`). `OnlyDownhill` then is a
property of one action: only `AcceptStep` changes the estimates, and it compares with a
cost that `CostIsTracked` ties to them. Assumptions: `OptionsAreValid` and
`CostAssumption` (costs are natural numbers).

`GaussNewton_proofs` proves in the same way `LoopIsSound` (`LoopInvariant`, which holds
`SolvesOncePerModel`), `ReportsAreTrue`, `CovarianceFitsTheResult` and
`LoopRefinesEstimates`, for any number of iterations.

Of `BatchPool` the module `Evaluation_proofs` proves, for any number of batches, payloads and handles,
`FamilyStaysConsistent` (`BatchInvariant`), `EvaluatorSeesTheSelection`
(`SelectionExact`) and `FamilyRefinesStores` (`StoresRefined`), over the lemmas of
`DensePoolOps_proofs`, as both pools of a family are dense pools. What the run checks
says nothing about the order of a batch while it is packed, so it is not inductive:
that the swaps, undone, give back the old order does not follow. The directory does
not take part in the swaps, which makes the position that it has for a payload the payload's
*home*. The invariant has these parts:

- `Family`: every packed payload has an entry of its batch in the directory, no
  payload is packed twice, every entry is packed. No swap disturbs this.
- `OthersAtHome`: payloads are at home in all batches but the one being packed.
- `SwapsAreLogged`: the log of swaps leads through a sequence of arrangements of the
  homes, from the one with all payloads at home to the present one. Undoing a swap goes back by
  one, since a swap is its own inverse; where the log is used up, all are at home.
- `SelectionIsPacked`: of the payloads already examined the selected ones are in
  front in the order of their homes, and the rest has not been touched. When the
  packing is done this is `SelectionExact`.
- `RemovalIsThorough`, and what fits the fields of a pass to the pool.

The refinement rests on `Holds(k, e)`: factor `k` has payload and model `e`, wherever
in the family. Every step keeps all of it, except that a removal ends it for one
handle and an insertion begins it for a new one; a swap or a moved payload is
a stutter of both stores. Assumptions: `PoolBounds` and `FamilyIdentity` (the two pools
and those of other problems have different identities, which `PoolIds` establishes).

`Marginalization_proofs` proves, for any states, factors and dependencies, any number of
pools of any widths, and whatever fails or panics: `GraphStaysWhole` (`GraphInvariant`),
`SeparatorsAreExact`, `InformationCountsOnce` and `MarginalizationIsAtomic`, the
refinement of `InformationGraph`. The properties speak of the times between calls; an
invariant that is kept by each step of a call has to say what becomes of the graph in
the meantime. It says it of the graph as `InformationGraph` sees it, which is there at
every step: until publication begins the front and the priors it absorbs belong to it
and the pending prior does not, from then on it is the other way round. So a
marginalization changes that graph in one step, `DeleteFactors`, and the lemma `SameGraph`
covers every other step of it. The inductive invariant has these parts:

- `StatesPlaced`, `FactorsResolve`: no state is in two places, and every name in that graph
  is of a state in it.
- `PriorsExact`, `ToldOnce`, `TellersIssued`: `SeparatorIsExact` and `InformationOnce`
  said of it at every step. That the prior of a front is over the right states follows from
  the ones it absorbs being so, and every prior that touches the front is absorbed.
- `AnchorsFit`: which anchors are in place follows from the pool that the pass which captures
  or deletes them has come to.
- `RunFits`: what each phase takes for granted of the plan, and what is left to
  delete of each kind. Publication deletes in several steps; that what it deletes is
  still there, and the rest is kept, is told here.
- `SpareFits`, with `PoolOk` of the priors' pool: there is room for every buffer and
  slot that is given back. `ReturnsFit`, by which publication cannot fail, follows.

Assumptions: `GraphData` (every state has a pool, dependencies are states, both finite)
and `PoolBounds`.

`Problem_proofs` is about what stands around a problem. Of `TrackedProblem` it proves
`JournalsReplay` (`JournalInvariant`) and `VoidsComeFirst` (`VoidedFirst`), for any
states, factors and values and a journal of any length. `JournalReplays` alone is nearly
inductive: each entry turns the account that the entries before it give of the problem into the
account of the problem after the edit. What is missing is that a handle in the journal is
never used again (`HandlesIssued`), that an ordinary factor is one term (`OrdinaryOnce`),
and where the journal begins (`BaseTyped`, `JournalBegun`). Assumption: `ChangesBound`.

Of `CovarianceQueries` it proves `MatricesNameTheirBlocks` (`MatrixNamesItsBlocks`) and
`RequestsAreJudgedBeforehand` (`JudgedBeforehand`), for any number of problems and
optimizers, pools of any widths and any requests. The invariant `QInv` says what a call
in progress has done: its problem, request and method fit each other (`CallFits`), the
layout in a workspace is of the problem whose call has laid it out and is not touched before the
call is over, a model that counts as current is of that problem as it is
(`WorkspaceFits`), and what each phase may rely on of the two (`PhaseFits`). Between
calls a workspace may hold anything. The lemma `ColumnsNamed` is the arithmetic of it:
the columns selected of a layout, at the offsets that the widths before it add up to, are
the components of the blocks asked for, in their order. Assumptions:
`WidthAssumption`, `HomeAssumption`, `InitialAssumption` and `RequestAssumption`.

*Recursion.* What the recursive functions compute (`Replay`, `Offsets`, the layouts that
`FlattenSeq` joins, the passes over pools) is proved by induction over a set:
`SetInduction` says that a set with 0 and with every successor of its members holds all
natural numbers, `RecursionExists` that a recursion has a solution. The library states
induction for an operator, which the provers cannot instantiate.

`LinearBackends_proofs` proves of the dense backend, for any prime `P`, dimensions and
emissions, `DenseNormalHolds` (`NormalInvariant`) and `DenseRefines`: of a behaviour
of the dense backend, that it is one of `LinearBackend`. It is built up in layers:

- A sum is what the library computes by recursion over a set that it takes apart with
  `CHOOSE`. `SumsAnyFirst` says that any element may be taken first; that sums split,
  exchange, scale and vanish follows, and with it the same modulo `P`.
- `ContributionsAddUp` takes the product of two coefficients of a row
  apart into the blocks that hold them. As no two blocks of an emission share a column
  (`IsEmission`, which the checked sink sees to), each entry of the lower triangle receives
  exactly one contribution, of a block with itself or of a pair, transposed if the
  pair was emitted the other way round: this is where `accumulate_small` could go wrong.
- `NormalIsSound` is the inductive invariant: a matrix that is open holds information
  (`content`) and is the Gram matrix of what was sent, one that is factored holds the factor
  of it and was found nonsingular, and the sizes are those of the preparation.
- A solve is a step of `LinearBackend` because a nonsingular system has a solution
  (`SolutionExists`): a linear map without a kernel is injective, and an injective map of
  a finite set of vectors into itself is onto.

Assumptions: `PrimeAssumption` and `BackendAssumption` (dimensions are natural
numbers, emissions are what the checked sink passes on).

Only model-checked: the invariants of the LSMR and the Schur backend and that they
implement `LinearBackend`; and liveness (`CallsReturn`).

## A divergence

`batches_alive` checks what two comments and the documentation say of batches: "Empty
batches stay alive and reusable until this pool is dropped" (`storage.rs` 355),
"Empty batches remain reusable until the solver is dropped" (`solver.rs` 96), and
"there is currently no public batch-removal operation"
(`src/docs/internals.md` 73-74). TLC finds a behaviour of two calls that
contradicts it: create a batch, remove it while it is empty. Its handle is
stale: `remove_empty` (`storage.rs` 341) does retire it and
`Problem::remove_batch` (`solver.rs` 107) makes it public. The text predates the operation;
the documentation of `marginalize` (`solver.rs` 289-290) already names it as the exception.

## What is not modelled

- Manifold arithmetic (`variable.rs`, `real.rs`) and the QR elimination in
  `marginalization.rs`: a model sees whether they answer or fail. Orthogonal
  transformations need square roots that exact arithmetic in a finite field does not have.
- Rounding, conditioning, and the decisions that rest on magnitudes: whether a pivot is
  too small, an iteration converges or a number overflows is left open. Overflow of
  memory and of sizes appears as a failure.
- Inside faer: the iterations of LSMR and of conjugate gradients, and the effect
  of a preconditioner on them (`lsmr/preconditioner.rs`, `RetainedPreconditioner`). That
  a factor that fails falls back to the diagonal matters to the preconditioner only in
  how fast it is; for Schur, which must refuse it, it is modelled.
- Statistics and timings of the linear backends.
- One problem in which evaluators, optimizations, marginalizations and queries all
  occur: each pair that shares state has a module (`Marginalization` for edits and
  marginalizations, the optimizers for edits and optimizations, `CovarianceQueries` for
  edits, removals, optimizations and queries).
- The generated visitors (`states.rs`, `factors.rs`): a visit is a loop over
  pools in schema order that stops at the first error.
- `testing.rs`, `testing/`, `src/examples`, `src/tests`: not part of the running
  system. Tests and documentation are read for what they promise.

## The plan

In order of importance. All nine steps are modelled and checked. Every safety property
of 1-7 and 9 is proved, and of 8 those of the dense backend; "Left" below names the rest.

1. `HandleStore`, `DensePoolOps`, `DensePool`, and proofs of all of its
   safety properties.
2. `BatchPool` over two dense pools.
3. `EstimateStore`, `TrialStates`, `Workspace`, `LevenbergMarquardt`,
   `GaussNewton`.
4. `InformationGraph`, `Marginalization`.
5. `CheckedSink`.
6. `TrackedProblem` over `InformationGraph`.
7. `PoolIds` and proofs.
8. `Scalars`, `LinearBackend`, `NormalOps`, `DenseNormal`, `LinearModelOps`, `Lsmr`,
   `Schur`, `LinearBackends`.
9. `CovarianceQueries`.

Left:

- proofs of the invariants of the LSMR and the Schur backend, and that they refine
  `LinearBackend`, with the lemmas on sums and on linear maps that the dense backend
  already rests on;
- a module in which one problem is tracked, optimized, marginalized and queried.
