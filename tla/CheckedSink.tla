----------------------------- MODULE CheckedSink -----------------------------
(***************************************************************************)
(* One linearization after the other through the sink that polices the     *)
(* user's evaluators (optimization.rs:215-251, 475-637).  The library      *)
(* opens the scope of an ordinary factor; a batch opens the scopes of its  *)
(* factors itself, in any order, and may swallow what the sink refuses.    *)
(*                                                                         *)
(* Factors are numbered as in the layout, and 0 is the identity of one     *)
(* that is not in it.  Of a Jacobian block only the state counts, and      *)
(* whether shape and numbers are in order.                                 *)
(***************************************************************************)
EXTENDS Integers, Sequences, FiniteSets, Functions

CONSTANTS Block,        \* states, of the layout or not
          Units,        \* ordinary factors and batches, in schema order
          Position,     \* where the factors of each unit begin, and the last ones end
          Deps,         \* the states each factor of the layout depends on
          MaxEmission,  \* stands for usize::MAX
          MaxCalls,     \* bound: calls to the sink in one linearization
          MaxBlocks     \* bound: Jacobian blocks in one call

NFactors == Len(Deps)
Factor   == 1..NFactors

ASSUME LayoutAssumption ==
  /\ Units \in Seq({"ordinary", "batch"})
  /\ Position \in Seq(Nat) /\ Len(Position) = Len(Units) + 1
  /\ Position[1] = 1 /\ Position[Len(Position)] = NFactors + 1
  /\ \A u, v \in 1..Len(Position) : u <= v => Position[u] <= Position[v]
  /\ \A u \in 1..Len(Units) : Units[u] = "ordinary" => Position[u + 1] = Position[u] + 1
  /\ Deps \in Seq(SUBSET Block) /\ \A f \in Factor : IsFiniteSet(Deps[f])

ASSUME BoundsAssumption ==
  MaxEmission \in Nat \ {0} /\ MaxCalls \in Nat /\ MaxBlocks \in Nat

VARIABLES sink,     \* the CheckedSink, and the buffers the workspace lends it
          unit,     \* the unit visited last
          within,   \* its evaluator is running
          rows,     \* what the backend has accumulated
          outcome,  \* the linearization: running, or how it ended
          calls,    \* calls to the sink so far
          opened,   \* how often the callback of each factor has been run
          refused,  \* some call to the sink has returned an error
          answer    \* whether the last call was legal, and whether it was granted

sinkVars == <<sink, unit, within, rows, outcome, calls, opened, refused, answer>>

Sink == [seen : [Factor -> BOOLEAN], block_marks : [Block -> 0..MaxEmission],
         emission : 0..MaxEmission, allowed : SUBSET Factor,
         next_expected : 1..(NFactors + 1), active : 0..NFactors, failed : BOOLEAN]

NewSink(marks) == [seen |-> [f \in Factor |-> FALSE], block_marks |-> marks,
                   emission |-> 0, allowed |-> {}, next_expected |-> 1,
                   active |-> 0, failed |-> FALSE]

NoMarks == [b \in Block |-> 0]

UnitFactors(u) == Position[u]..(Position[u + 1] - 1)

SinkInit == /\ sink = NewSink(NoMarks)
            /\ unit = 0 /\ within = FALSE /\ rows = {}
            /\ outcome = "none" /\ calls = 0
            /\ opened = [f \in Factor |-> 0]
            /\ refused = FALSE
            /\ answer = [legal |-> TRUE, granted |-> TRUE]

Running == outcome = "running"

-----------------------------------------------------------------------------
(* Workspace::linearize clears the backend and lends its buffers afresh.   *)
Linearize ==
  /\ ~Running
  /\ sink' = NewSink(NoMarks)
  /\ unit' = 0 /\ within' = FALSE /\ rows' = {}
  /\ outcome' = "running" /\ calls' = 0
  /\ opened' = [f \in Factor |-> 0] /\ refused' = FALSE
  /\ UNCHANGED answer

(* The visitor turns to the next unit: it opens the scope of an ordinary   *)
(* factor and calls a batch unless that is empty.                          *)
Turn(u) ==
  LET lent == [sink EXCEPT !.allowed = UnitFactors(u), !.next_expected = Position[u]]
  IN  IF Units[u] = "ordinary"
        THEN /\ sink' = [lent EXCEPT !.next_expected = @ + 1, !.seen[Position[u]] = TRUE,
                                     !.active = Position[u]]
             /\ opened' = [opened EXCEPT ![Position[u]] = @ + 1]
        ELSE /\ sink' = lent
             /\ UNCHANGED opened

NextUnit ==
  /\ Running /\ ~within /\ unit < Len(Units)
  /\ unit' = unit + 1
  /\ within' = (UnitFactors(unit + 1) # {})
  /\ Turn(unit + 1)
  /\ UNCHANGED <<rows, outcome, calls, refused, answer>>

-----------------------------------------------------------------------------
MayCall == within /\ calls < MaxCalls

Answer(legal, granted) ==
  /\ calls' = calls + 1
  /\ answer' = [legal |-> legal, granted |-> granted]
  /\ refused' = (refused \/ ~granted)

(* A scope may be opened once, inside no other, and within the unit. *)
LegalScope(f) == sink.active = 0 /\ f \in UnitFactors(unit) /\ opened[f] = 0

(* The factor that is expected next is not looked up. *)
Expected(f) == f # 0 /\ f \in sink.allowed /\ f = sink.next_expected

OpenScope_TrustsOrder(f) ==
  /\ MayCall
  /\ LET granted == sink.active = 0 /\ f \in sink.allowed /\ (Expected(f) \/ ~sink.seen[f])
     IN  /\ sink' = [sink EXCEPT
                       !.next_expected = IF sink.active = 0 /\ Expected(f) THEN @ + 1 ELSE @,
                       !.seen   = IF granted THEN [@ EXCEPT ![f] = TRUE] ELSE @,
                       !.active = IF granted THEN f ELSE @,
                       !.failed = @ \/ ~granted]
         /\ opened' = IF granted THEN [opened EXCEPT ![f] = @ + 1] ELSE opened
         /\ Answer(LegalScope(f), granted)
  /\ UNCHANGED <<unit, within, rows, outcome>>

(* factor: up to the callback. *)
OpenScope(f) ==
  /\ MayCall
  /\ LET granted == sink.active = 0 /\ f \in sink.allowed /\ ~sink.seen[f]
     IN  /\ sink' = [sink EXCEPT
                       !.next_expected = IF sink.active = 0 /\ Expected(f) THEN @ + 1 ELSE @,
                       !.seen   = IF granted THEN [@ EXCEPT ![f] = TRUE] ELSE @,
                       !.active = IF granted THEN f ELSE @,
                       !.failed = @ \/ ~granted]
         /\ opened' = IF granted THEN [opened EXCEPT ![f] = @ + 1] ELSE opened
         /\ Answer(LegalScope(f), granted)
  /\ UNCHANGED <<unit, within, rows, outcome>>

(* factor: after the callback of a batch's factor, which may have failed.  *)
CloseScope ==
  /\ within /\ Units[unit] = "batch" /\ sink.active # 0
  /\ \E ok \in BOOLEAN : /\ sink' = [sink EXCEPT !.active = 0, !.failed = @ \/ ~ok]
                         /\ refused' = (refused \/ ~ok)
  /\ UNCHANGED <<unit, within, rows, outcome, calls, opened, answer>>

-----------------------------------------------------------------------------
(* The number of this emission, and the marks it is compared with. *)
Emission == IF sink.emission = MaxEmission THEN 1 ELSE sink.emission + 1

Marks == IF sink.emission = MaxEmission THEN NoMarks ELSE sink.block_marks

Passes_AnyState(blocks, i) == /\ Marks[blocks[i]] # Emission
                              /\ \A j \in 1..(i - 1) : blocks[j] # blocks[i]

(* A block passes if it is a dependency of the active factor and does not  *)
(* carry the mark of this emission, from an earlier block or before.       *)
Passes(blocks, i) == /\ blocks[i] \in Deps[sink.active]
                     /\ Marks[blocks[i]] # Emission
                     /\ \A j \in 1..(i - 1) : blocks[j] # blocks[i]

(* Exactly n blocks pass before one is refused or none is left. *)
Passing(blocks, n) == /\ \A i \in 1..n : Passes(blocks, i)
                      /\ n < Len(blocks) => ~Passes(blocks, n + 1)

Marked(blocks, n) ==
  [b \in Block |-> IF \E i \in 1..n : blocks[i] = b THEN Emission ELSE Marks[b]]

LegalRow(blocks, sound) == /\ sink.active # 0 /\ sound
                           /\ Range(blocks) \subseteq Deps[sink.active]
                           /\ IsInjective(blocks)

Refuse(marked) == sink' = [marked EXCEPT !.failed = TRUE] /\ UNCHANGED rows

(* residual.  What is not finite or of the wrong shape is found before the *)
(* first block, or after some were marked.                                 *)
Residual(blocks, sound) ==
  /\ MayCall
  /\ IF \/ sink.active = 0
        \/ Len(blocks) > Cardinality(Deps[sink.active])
       THEN Refuse(sink) /\ Answer(LegalRow(blocks, sound), FALSE)
       ELSE \E n \in 0..Len(blocks) :
              /\ Passing(blocks, n)
              /\ LET marked(k) == [sink EXCEPT !.emission = Emission,
                                               !.block_marks = Marked(blocks, k)]
                 IN  \/ /\ sound /\ n = Len(blocks)
                        /\ sink' = marked(n)
                        /\ rows' = rows \cup {[factor |-> sink.active, blocks |-> Range(blocks)]}
                        /\ Answer(LegalRow(blocks, sound), TRUE)
                     \/ /\ sound /\ n < Len(blocks)
                        /\ Refuse(marked(n))
                        /\ Answer(LegalRow(blocks, sound), FALSE)
                     \/ /\ ~sound
                        /\ \/ Refuse(sink)
                           \/ \E k \in 0..n : Refuse(marked(k))
                        /\ Answer(LegalRow(blocks, sound), FALSE)
  /\ UNCHANGED <<unit, within, outcome, opened>>

-----------------------------------------------------------------------------
(* An evaluator returns, whatever the sink has told it: the visitor goes   *)
(* on.  Or it returns an error, or panics: the rest is not visited.        *)
Leave ==
  /\ within
  /\ Units[unit] = "batch" => sink.active = 0
  /\ within' = FALSE
  /\ sink' = [sink EXCEPT !.active = 0]
  /\ UNCHANGED <<unit, rows, outcome, calls, opened, refused, answer>>

Fail == /\ within
        /\ within' = FALSE
        /\ outcome' = "error"
        /\ UNCHANGED <<sink, unit, rows, calls, opened, refused, answer>>

(* When all units have been visited the linearization stands if nothing    *)
(* was refused and nothing is missing; then the priors may still fail.     *)
Complete == ~sink.failed /\ \A f \in Factor : sink.seen[f]

Conclude ==
  /\ Running /\ ~within /\ unit = Len(Units)
  /\ outcome' \in IF Complete THEN {"ok", "error"} ELSE {"error"}
  /\ UNCHANGED <<sink, unit, within, rows, calls, opened, refused, answer>>

SinkNext == \/ Linearize \/ NextUnit \/ CloseScope \/ Leave \/ Fail \/ Conclude
            \/ \E f \in 0..NFactors : OpenScope(f)
            \/ \E blocks \in UNION {[1..n -> Block] : n \in 0..MaxBlocks}, sound \in BOOLEAN :
                 Residual(blocks, sound)

SinkSpec == SinkInit /\ [][SinkNext]_sinkVars

-----------------------------------------------------------------------------
(* Every variable has its type; an index never leaves the layout.          *)
(* (CheckedSink)                                                           *)
SinkTypeOK == /\ sink \in Sink
              /\ unit \in 0..Len(Units) /\ within \in BOOLEAN
              /\ rows \subseteq [factor : Factor, blocks : SUBSET Block]
              /\ outcome \in {"none", "running", "ok", "error"}
              /\ calls \in 0..MaxCalls
              /\ opened \in [Factor -> 0..MaxCalls + 1] /\ refused \in BOOLEAN
              /\ answer \in [legal : BOOLEAN, granted : BOOLEAN]

(* What reaches the backend is over distinct states its factor depends on, *)
(* and comes from a factor whose scope has been opened.                    *)
(* (CheckedSink::residual)                                                 *)
RowsAreScoped ==
  \A r \in rows : r.blocks \subseteq Deps[r.factor] /\ opened[r.factor] = 1

(* The sink keeps within its buffers, and its rows within their factors,   *)
(* in whatever order an evaluator calls it (optimization.rs:475-598).      *)
SinkInvariant == SinkTypeOK /\ RowsAreScoped

(* Each call is granted exactly when the protocol allows it: the shortcut  *)
(* for the expected order lets nothing through, marks of earlier emissions *)
(* refuse nothing, not even when their counter wraps around, and an error  *)
(* inside one scope does not refuse the next.  (factor, residual)          *)
JudgedExactly == answer.legal = answer.granted

(* A linearization that is reported to stand holds every factor exactly    *)
(* once, although evaluators may open scopes in any order, forget some,    *)
(* open others twice and swallow every error.  (linearize, 245-249)        *)
StandsOnlyIfWhole ==
  outcome = "ok" => /\ \A f \in Factor : opened[f] = 1
                    /\ ~refused

(* The sink's verdicts, on each call and on the whole, are the protocol's:  *)
(* an evaluator that keeps to it is never refused, one that breaks it never*)
(* gets by (optimization.rs:215-251, 488-598).                             *)
VerdictsAreExact == JudgedExactly /\ StandsOnlyIfWhole
=============================================================================
