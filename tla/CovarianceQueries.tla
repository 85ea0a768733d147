--------------------------- MODULE CovarianceQueries ---------------------------
(***************************************************************************)
(* Selected covariances, asked for on their own (Problem::joint_covariance)*)
(* or at the end of an optimization (optimize_with_covariance), in several *)
(* problems that are edited in between and share their methods.            *)
(*                                                                         *)
(* A problem and a method each keep a workspace: a layout that gives every *)
(* live state a range of coordinates, a linearized model over those        *)
(* coordinates, and the flag that says whether the model is current        *)
(* (optimization.rs:165-270).  A query names states, and is answered by    *)
(* numbers of coordinates; here a model keeps what it has been made from,  *)
(* and a matrix the names its coordinates had there, so that a stale       *)
(* layout, selection or model shows.                                       *)
(*                                                                         *)
(* The loops of the methods are those of GaussNewton and                   *)
(* LevenbergMarquardt; of them only linearizations and accepted steps are  *)
(* kept.  What the calls are made of, one after the other, is one action   *)
(* each, and any evaluation may fail or panic.                             *)
(***************************************************************************)
EXTENDS Integers, FiniteSetsExt, SequencesExt

CONSTANTS Problem,
          Method,        \* optimizers with their workspaces, used for any problem
          Block,         \* BlockIds
          Home,          \* the problem and the pool that a BlockId is of
          Width,         \* coordinates of the states of each pool
          Initial,       \* the states of each problem to begin with
          Request,       \* selections that are asked for
          Tolerance,     \* legal values of relative_pivot_tolerance
          MaxVersion,    \* bound: changes of a problem other than of its states
          MaxCalls       \* bound: calls that are not refused

ASSUME WidthAssumption == Width \in Seq(Nat \ {0})
ASSUME HomeAssumption == Home \in [Block -> [problem : Problem, pool : DOMAIN Width]]
ASSUME InitialAssumption ==
         /\ Initial \in [Problem -> [DOMAIN Width -> Seq(Block)]]
         /\ \A p \in Problem, f \in DOMAIN Width : \A b \in ToSet(Initial[p][f]) :
              Home[b] = [problem |-> p, pool |-> f]
ASSUME RequestAssumption == Request \subseteq Seq(Block)

VARIABLES pools,    \* of each problem, the packed keys of its state pools
          gone,     \* the BlockIds that were removed
          version,  \* counts the changes to the estimates and factors of a problem
          own,      \* CovarianceWorkspace.work of each problem
          shared,   \* the workspace of each method
          caching,  \* the methods whose backend keeps rows, not a normal matrix
          selected, \* SelectedCovariance of each problem
          call,     \* the call that is running
          calls,    \* counts them
          refused,  \* when the last one was, for its options or its names
          matrix    \* of each problem, the result that may still be borrowed

vars == <<pools, gone, version, own, shared, caching, selected, call, calls,
          refused, matrix>>

keys == <<pools, gone, caching>>

NoModel == [problem |-> "none"]
NoMatrix == [columns |-> <<>>, from |-> NoModel]

NewWorkspace == [layout |-> <<>>, current |-> FALSE, model |-> NoModel]

Idle == [phase |-> "idle", problem |-> "none", by |-> "none", request |-> <<>>, wants |-> FALSE]

Init == /\ pools = Initial
        /\ gone = {}
        /\ version = [p \in Problem |-> 0]
        /\ own = [p \in Problem |-> NewWorkspace]
        /\ shared = [m \in Method |-> NewWorkspace]
        /\ caching \in SUBSET Method
        /\ selected = [p \in Problem |-> [columns |-> <<>>, tolerance |-> 0]]
        /\ call = Idle /\ calls = 0
        /\ refused = "no"
        /\ matrix = [p \in Problem |-> NoMatrix]

Live(p) == UNION {ToSet(pools[p][f]) : f \in DOMAIN Width}

Issued == gone \cup UNION {Live(p) : p \in Problem}

-----------------------------------------------------------------------------
(* Edits end the borrow of the problem's own matrix, and of no other.      *)
Edit(p) == /\ call = Idle
           /\ matrix' = [matrix EXCEPT ![p] = NoMatrix]
           /\ refused' = "no"
           /\ UNCHANGED <<own, shared, caching, selected, call, calls>>

AddState(b) ==
  LET at == Home[b]
  IN  /\ b \notin Issued
      /\ pools' = [pools EXCEPT ![at.problem][at.pool] = Append(@, b)]
      /\ Edit(at.problem)
      /\ UNCHANGED <<gone, version>>

(* Marginalization removes states by swap_remove. *)
RemoveState(b) ==
  LET at == Home[b]
      pool == pools[at.problem][at.pool]
      i == CHOOSE k \in DOMAIN pool : pool[k] = b
  IN  /\ b \in Live(at.problem)
      /\ pools' = [pools EXCEPT ![at.problem][at.pool] = Front([pool EXCEPT ![i] = Last(pool)])]
      /\ gone' = gone \cup {b}
      /\ Edit(at.problem)
      /\ UNCHANGED version

(* An estimate is set, or a factor added or removed. *)
Change(p) == /\ version[p] < MaxVersion
             /\ version' = [version EXCEPT ![p] = @ + 1]
             /\ Edit(p)
             /\ UNCHANGED <<pools, gone>>

-----------------------------------------------------------------------------
(* StatePool::validate, and Dependencies::check over all the pools.        *)
KeyStatus(p, b) == IF Home[b].problem # p THEN "ForeignSolver"
                   ELSE IF b \in Live(p) THEN "ok" ELSE "Stale"

(* Options first; a repetition is reported at once, and the first key that *)
(* does not resolve only after the whole request was read.                 *)
Verdict(p, request, legal) ==
  LET unresolved == {i \in DOMAIN request : KeyStatus(p, request[i]) # "ok"}
  IN  IF ~legal THEN "InvalidRankTolerance"
      ELSE IF \E i \in DOMAIN request : \E j \in 1..(i - 1) : request[i] = request[j]
      THEN "DuplicateCovarianceBlock"
      ELSE IF unresolved = {} THEN "ok"
      ELSE KeyStatus(p, request[Min(unresolved)])

Start(p, by, request, wants) ==
  /\ call' = [phase |-> "prepare", problem |-> p, by |-> by, request |-> request,
              wants |-> wants]
  /\ calls < MaxCalls /\ calls' = calls + 1
  /\ refused' = "no"

Begin_KeepsTolerance(p, by, request, tolerance, legal) ==
  /\ call = Idle
  /\ ToSet(request) \subseteq Issued
  /\ matrix' = [matrix EXCEPT ![p] = NoMatrix]
  /\ selected' = [selected EXCEPT ![p].tolerance = tolerance]
  /\ IF Verdict(p, request, legal) = "ok"
     THEN Start(p, by, request, TRUE)
     ELSE /\ refused' = "before"
          /\ UNCHANGED <<call, calls>>
  /\ UNCHANGED <<keys, version, own, shared>>

(* joint_covariance_with and optimize_with_covariance begin alike; by is   *)
(* the method, if any.                                                     *)
Begin(p, by, request, tolerance, legal) ==
  /\ call = Idle
  /\ ToSet(request) \subseteq Issued
  /\ matrix' = [matrix EXCEPT ![p] = NoMatrix]
  /\ IF Verdict(p, request, legal) = "ok"
     THEN /\ selected' = [selected EXCEPT ![p].tolerance = tolerance]
          /\ Start(p, by, request, TRUE)
     ELSE /\ refused' = "before"
          /\ UNCHANGED <<selected, call, calls>>
  /\ UNCHANGED <<keys, version, own, shared>>

(* optimize_with selects nothing. *)
Optimize(p, m) ==
  /\ call = Idle
  /\ matrix' = [matrix EXCEPT ![p] = NoMatrix]
  /\ Start(p, m, <<>>, FALSE)
  /\ UNCHANGED <<keys, version, own, shared, selected>>

-----------------------------------------------------------------------------
(* The workspace the running call works in. *)
Query == "query"

Here == IF call.by = Query THEN own[call.problem] ELSE shared[call.by]

HereBecomes(w) ==
  IF call.by = Query THEN own' = [own EXCEPT ![call.problem] = w] /\ UNCHANGED shared
  ELSE shared' = [shared EXCEPT ![call.by] = w] /\ UNCHANGED own

Goto(phase) == call' = [call EXCEPT !.phase = phase] /\ UNCHANGED <<calls, refused>>

Return == call' = Idle /\ UNCHANGED <<calls, refused>>

(* Layout::pool, one pool after the other in the order of their fields.    *)
LayoutOf(p) == FlattenSeq(pools[p])

Coordinates(b) == Width[Home[b].pool]

(* Where the coordinates of each state of a layout begin. *)
Offsets(layout) ==
  LET at[i \in 1..(Len(layout) + 1)] ==
        IF i = 1 THEN 0 ELSE at[i - 1] + Coordinates(layout[i - 1])
  IN  at

(* Workspace::prepare; the backend drops what it held. *)
Prepare == /\ call.phase = "prepare"
           /\ HereBecomes([layout |-> LayoutOf(call.problem), current |-> FALSE,
                           model |-> NoModel])
           /\ Goto(IF call.by = Query THEN "select" ELSE "optimize")
           /\ UNCHANGED <<keys, version, selected, matrix>>

(* The options of the optimizer are not legal; or a factor names a state   *)
(* that is not there, or the dimension is too large for the backend.       *)
PrepareFails == /\ call.phase = "prepare"
                /\ \/ HereBecomes(Here)
                   \/ HereBecomes([Here EXCEPT !.layout = LayoutOf(call.problem),
                                               !.current = FALSE])
                /\ Return
                /\ UNCHANGED <<keys, version, selected, matrix>>

(* Workspace::linearize: the columns are those of the workspace's layout.  *)
Linearized(w) == [w EXCEPT !.current = TRUE,
                           !.model = [problem |-> call.problem, layout |-> w.layout,
                                      version |-> version[call.problem]]]

Interrupted(w) == [w EXCEPT !.current = FALSE, !.model = NoModel]

-----------------------------------------------------------------------------
(* The loop of the method. *)
Iterate == /\ call.phase = "optimize" /\ ~Here.current
           /\ HereBecomes(Linearized(Here))
           /\ UNCHANGED <<keys, version, selected, call, calls, refused, matrix>>

AcceptStep == /\ call.phase = "optimize" /\ Here.current
              /\ version[call.problem] < MaxVersion
              /\ version' = [version EXCEPT ![call.problem] = @ + 1]
              /\ HereBecomes([Here EXCEPT !.current = FALSE])
              /\ UNCHANGED <<keys, selected, call, calls, refused, matrix>>

(* It converges, and a covariance may be wanted: current or not, as a cost *)
(* is compared after a step.                                               *)
Converge == /\ call.phase = "optimize"
            /\ IF call.wants THEN Goto("model") ELSE Return
            /\ UNCHANGED <<keys, version, own, shared, selected, matrix>>

(* No step can be solved for, or there are too many of them. *)
OptimizeFails == /\ call.phase = "optimize"
                 /\ \/ HereBecomes([Here EXCEPT !.model = NoModel])
                    \/ HereBecomes(Here)
                 /\ Return
                 /\ UNCHANGED <<keys, version, selected, matrix>>

EvaluationFails == /\ \/ call.phase = "optimize" /\ ~Here.current
                      \/ call.phase = "model" /\ (call.by = Query \/ ~Here.current)
                   /\ HereBecomes(Interrupted(Here))
                   /\ Return
                   /\ UNCHANGED <<keys, version, selected, matrix>>

-----------------------------------------------------------------------------
(* A query always linearizes, a method only if it has moved on since.      *)
LinearizeForCovariance ==
  /\ call.phase = "model"
  /\ HereBecomes(IF call.by = Query \/ ~Here.current THEN Linearized(Here) ELSE Here)
  /\ Goto(IF call.by = Query THEN "compute" ELSE "select")
  /\ UNCHANGED <<keys, version, selected, matrix>>

(* SelectedCovariance::prepare: the columns of the request, in its order.  *)
ColumnsOf(layout, request) ==
  LET At(b)   == Offsets(layout)[CHOOSE i \in DOMAIN layout : layout[i] = b]
      Span(b)  == [k \in 1..Coordinates(b) |-> At(b) + k - 1]
  IN  FlattenSeq([i \in DOMAIN request |-> Span(request[i])])

InLayout(request) == \A i \in DOMAIN request : /\ request[i] \in ToSet(Here.layout)
                                               /\ \A j \in 1..(i - 1) : request[i] # request[j]

Select ==
  /\ call.phase = "select"
  /\ IF InLayout(call.request)
     THEN /\ selected' = [selected EXCEPT ![call.problem].columns =
                            ColumnsOf(Here.layout, call.request)]
          /\ Goto(IF call.by = Query THEN "model" ELSE "compute")
     ELSE /\ call' = Idle /\ refused' = "late"
          /\ UNCHANGED <<calls, selected>>
  /\ UNCHANGED <<keys, version, own, shared, matrix>>

(* The buffers would be too large. *)
SelectFails == /\ call.phase = "select" /\ InLayout(call.request)
               /\ selected' = [selected EXCEPT ![call.problem].columns =
                                 ColumnsOf(Here.layout, call.request)]
               /\ Return
               /\ UNCHANGED <<keys, version, own, shared, matrix>>

(* A dense backend factors the matrix it has; a caching one replays its    *)
(* rows into the matrix of the problem's own workspace.                    *)
Assembled_AsIs(w) == IF call.by \in caching THEN own[call.problem].model ELSE w.model

Assembled(w) == w.model

Extract(ok) ==
  LET model == Assembled(Here)
      Left(w) == IF ok THEN w ELSE [w EXCEPT !.model = NoModel]
  IN  /\ call.phase = "compute"
      /\ IF call.by \in caching
         THEN /\ own' = [own EXCEPT ![call.problem] = Left([@ EXCEPT !.model = model])]
              /\ UNCHANGED shared
         ELSE HereBecomes(Left(Here))
      /\ IF ok THEN /\ Return
                    /\ matrix' = [matrix EXCEPT ![call.problem] =
                                    [columns |-> selected[call.problem].columns,
                                     from |-> model, asked |-> call.request]]
         ELSE Return /\ UNCHANGED matrix
      /\ UNCHANGED <<keys, version, selected>>

Next ==
  \/ \E b \in Block : AddState(b) \/ RemoveState(b)
  \/ \E p \in Problem : Change(p)
  \/ \E p \in Problem, by \in Method \cup {Query}, r \in Request, t \in Tolerance,
        legal \in BOOLEAN : Begin(p, by, r, t, legal)
  \/ \E p \in Problem, m \in Method : Optimize(p, m)
  \/ Prepare \/ PrepareFails
  \/ Iterate \/ AcceptStep \/ Converge \/ OptimizeFails \/ EvaluationFails
  \/ LinearizeForCovariance \/ Select \/ SelectFails
  \/ \E ok \in BOOLEAN : Extract(ok)

Spec == Init /\ [][Next]_vars

-----------------------------------------------------------------------------
(* The state and the component that a coordinate of a layout belongs to.   *)
NameAt(layout, column) ==
  LET at == Offsets(layout)
      i  == CHOOSE k \in DOMAIN layout : at[k] <= column /\ column < at[k + 1]
  IN  <<layout[i], column - at[i]>>

(* The components of the requested states, one state after the other.      *)
Named(request) ==
  FlattenSeq([i \in DOMAIN request |->
                [k \in 1..Coordinates(request[i]) |-> <<request[i], k - 1>>]])

(* As long as a matrix can be looked at, its rows and columns belong to    *)
(* the components of the states that were asked for, in the order of the   *)
(* request, and it is the inverse of the information of all the states,    *)
(* estimates and factors of that very problem as they are: nothing of an   *)
(* earlier layout or selection, of an earlier step of the optimizer, of    *)
(* the last failure, or of another problem that the same method has been   *)
(* used for since (solver.rs:200-273, covariance.rs:66-176).               *)
MatrixNamesItsBlocks ==
  \A p \in Problem : matrix[p] # NoMatrix =>
    LET model == matrix[p].from
    IN  /\ model # NoModel
        /\ model.problem = p /\ model.version = version[p]
        /\ model.layout = LayoutOf(p)
        /\ Named(matrix[p].asked) = [c \in DOMAIN matrix[p].columns |->
                                       NameAt(model.layout, matrix[p].columns[c])]

(* A request is refused exactly when its options are illegal or it names   *)
(* something that is not a live state of the problem, or names it twice.   *)
(* It is refused before anything is evaluated or stored, and what passes   *)
(* is never refused for its names after an optimization has already moved  *)
(* the estimates (solver.rs:235 "Selection and options are checked before  *)
(* optimization").                                                         *)
Legitimate(p, request) == IsInjective(request) /\ ToSet(request) \subseteq Live(p)

JudgedBeforehand ==
  [][/\ pools' # pools => \A p \in Problem, r \in Request :
                            (Verdict(p, r, TRUE) = "ok" <=> Legitimate(p, r))'
     /\ refused' # "late"
     /\ refused' = "before" => UNCHANGED <<keys, version, own, shared, selected>>]_vars
=============================================================================
