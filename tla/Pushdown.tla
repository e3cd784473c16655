------------------------------ MODULE Pushdown ------------------------------
(***************************************************************************)
(* ProxyStorage.NodeReplacer (pkg/proxystorage/proxy.go): before a query   *)
(* is evaluated, promxy walks its expression from the root and sends the   *)
(* subtrees it can to the server groups, which answer for their own        *)
(* series; the answers take the place of the subtree, and the embedded     *)
(* engine evaluates what is left.  An action is the visit of a node, or    *)
(* the answer to a request: the children of a node are walked in parallel. *)
(*                                                                         *)
(* A case of Cases is a query [tree, stmt, data, remoteRead, allowLossy,   *)
(* cached]: the expression; the evaluation [start, end, interval], an      *)
(* instant query having interval 0; the series of every group; the groups  *)
(* with remote_read and with native_histogram.allow_lossy; and whether the *)
(* metadata caches list the metric as a histogram.  Every group adds the   *)
(* label sg to its series, by which they differ.                           *)
(***************************************************************************)
EXTENDS PromQL

CONSTANTS
  Groups, Cases,
  YearOne    \* the time from year 1 to the Unix epoch, at which time is 0

ASSUME GroupsAssumption == IsFiniteSet(Groups)
ASSUME YearOneAssumption == YearOne \in Nat

(* The series of a group: floats or histograms, no staleness markers, and
   none has the label sg already. *)
IsSeriesSet(series) ==
  /\ IsFiniteSet(DOMAIN series)
  /\ \A l \in DOMAIN series :
       /\ l = [n \in DOMAIN l |-> l[n]] /\ "sg" \notin DOMAIN l
       /\ DOMAIN series[l] \subseteq Int
       /\ series[l] \in [DOMAIN series[l] -> [k : {"float", "hist"}, v : Int]]

(* An expression as it comes from the parser selects something, and so does
   what it runs as a subquery. *)
IsQuery(expr) ==
  LET selectors == {p \in DOMAIN expr : expr[p].kind = "selector"}
  IN  /\ <<>> \in DOMAIN expr
      /\ DOMAIN expr \subseteq Seq(1..2)
      /\ selectors # {}
      /\ \A p \in selectors : ~expr[p].fetched
      /\ \A p \in DOMAIN expr : expr[p].kind = "subquery" => \E q \in selectors : IsPrefix(p, q)

(* The horizon is beyond every time the selectors look up. *)
IsEvaluable(expr, s) ==
  /\ s \in [start : 0..Horizon, end : 0..Horizon, interval : Nat]
  /\ s.interval = 0 => s.start = s.end
  /\ \A p \in DOMAIN expr :
       expr[p].kind = "selector" =>
         /\ expr[p].offset \in Int
         /\ IF expr[p].at = NoTime THEN {s.start - expr[p].offset, s.end - expr[p].offset} \subseteq 0..Horizon
                                   ELSE expr[p].at \in 0..Horizon

ASSUME CasesAssumption ==
  \A c \in Cases :
    /\ \A g \in Groups : IsSeriesSet(c.data[g])
    /\ IsQuery(c.tree)
    /\ IsEvaluable(c.tree, c.stmt)

VARIABLES
  query,   \* the case
  tree,    \* the expression, as replaced so far
  todo,    \* the nodes to visit: [path, root of the walk, stmt]
  sent,    \* the requests under way: [visit, expr, offset, fill, above]
  failed   \* the walk returned an error

vars == <<query, tree, todo, sent, failed>>

Init ==
  /\ query \in Cases
  /\ tree = query.tree
  /\ todo = {[path |-> <<>>, root |-> <<>>, stmt |-> query.stmt]}
  /\ sent = {}
  /\ failed = FALSE

---------------------------------------------------------------------------
(* Answers of the server groups.                                           *)

(* AddLabelClient: the labels of the group on each of its series. *)
Label(g, l) == [n \in DOMAIN l \cup {"sg"} |-> IF n = "sg" THEN g ELSE l[n]]
AddLabels(g, vec) ==
  [l \in {Label(g, m) : m \in DOMAIN vec} |-> vec[Restrict(l, DOMAIN l \ {"sg"})]]

(* MultiAPI over the groups: no two have a series in common. *)
AllGroups(answers) ==
  LET labelled == [g \in Groups |-> AddLabels(g, answers[g])]
  IN  [l \in UNION {DOMAIN labelled[g] : g \in Groups} |-> labelled[l["sg"]][l]]

(* The JSON API does not preserve a native histogram. *)
Json(v) == IF v.k = "hist" THEN Histogram(0) ELSE v

Downstream(expr, t) ==
  LET vec == AllGroups([g \in Groups |-> Eval(expr, query.data[g], t)])
  IN  [l \in DOMAIN vec |-> Json(vec[l])]

(* The steps of an evaluation, moved back by the offset. *)
Steps(s, offset) ==
  {t - offset : t \in {u \in s.start..s.end : s.interval = 0 \/ (u - s.start) % s.interval = 0}}

HasAt(expr) == \E p \in DOMAIN expr : expr[p].kind = "selector" /\ expr[p].at # NoTime
At(expr) == expr[CHOOSE p \in DOMAIN expr : expr[p].kind = "selector"].at
Calls(expr, fns) == \E p \in DOMAIN expr : expr[p].kind = "call" /\ expr[p].fn \in fns

(* promql.AtModifierUnsafeFunctions: their result depends on the time of
   evaluation even when the input does not. *)
AtModifierUnsafe == {"timestamp"}

(* vectorToStepMatrix: the one answer at every step. *)
VectorToStepMatrix(vec, steps) == [l \in DOMAIN vec |-> [t \in steps |-> vec[l]]]

(* The subtree has the same value at every step. *)
IsPinned(expr) == HasAt(expr) /\ ~Calls(expr, AtModifierUnsafe)

(* queryDownstream: an instant query at the @ time copied to the steps, or
   the query at every step (one step for an instant query). *)
QueryDownstream(expr, s, offset) ==
  LET steps == Steps(s, offset)
      vecs == [t \in steps |-> Downstream(expr, t)]
  IN  IF s.interval # 0 /\ IsPinned(expr)
      THEN VectorToStepMatrix(Downstream(expr, At(expr)), steps)
      ELSE [l \in UNION {DOMAIN vecs[t] : t \in steps} |->
              [t \in {u \in steps : l \in DOMAIN vecs[u]} |-> vecs[t][l]]]

(* fillStaleNaNGaps: a staleness marker at every step without an answer. *)
FillStaleNaNGaps(series, steps) ==
  [l \in DOMAIN series |-> [t \in steps \cup DOMAIN series[l] |->
     IF t \in DOMAIN series[l] THEN series[l][t] ELSE Stale]]

(* Mutant: histograms in an answer go unnoticed. *)
MutContainsLossyHistogram(series) == FALSE

ContainsLossyHistogram(series) ==
  \E l \in DOMAIN series : \E t \in DOMAIN series[l] : series[l][t].k = "hist"

---------------------------------------------------------------------------
(* What stops NodeReplacer before it looks at the type of the node.        *)

Node(w) == tree[w.path]
Under(w) == Subtree(tree, w.path)

HistogramOnlyFuncs == {"histogram_count"}

(* histogramFinder and pathHasHistogramOnlyCall. *)
IsHistogramExpr(w) ==
  \/ Calls(Under(w), HistogramOnlyFuncs)
  \/ \E p \in DOMAIN tree :
       /\ IsPrefix(w.root, p) /\ IsStrictPrefix(p, w.path)
       /\ tree[p].kind = "call" /\ tree[p].fn \in HistogramOnlyFuncs
  \/ /\ query.cached
     /\ \E p \in DOMAIN Under(w) : Under(w)[p].kind = "selector" /\ ~Under(w)[p].fetched

(* The walk of an outer statement below a subquery, which had its own. *)
BelowSubquery(w) ==
  \E p \in DOMAIN tree :
    IsPrefix(w.root, p) /\ IsStrictPrefix(p, w.path) /\ tree[p].kind = "subquery"

StrictMissingRemoteRead == Groups \ (query.remoteRead \cup query.allowLossy)

(* OffsetFinder: the offsets of the selectors and subqueries, those below a
   subquery at the top left out. *)
Offsets(w) ==
  IF Node(w).kind = "subquery" THEN {Node(w).offset}
  ELSE {Under(w)[p].offset : p \in {q \in DOMAIN Under(w) : Under(w)[q].kind \in {"selector", "subquery"}}}

(* Only an aggregation, or an operator over one, is sent with it. *)
AggregatesBlock(w) ==
  LET n == Count(Under(w), "aggregate")
  IN  n > 0 /\ Node(w).kind # "subquery" /\ ~(n = 1 /\ Node(w).kind \in {"aggregate", "binary"})

Blocked(w) ==
  \/ BelowSubquery(w)
  \/ IsHistogramExpr(w)
  \/ AggregatesBlock(w)
  \/ Count(Under(w), "selector") > 1 /\ Node(w).kind # "subquery"
  \/ Cardinality(Offsets(w)) # 1

---------------------------------------------------------------------------
(* The walk.                                                               *)

(* The visits after that of w: its children in the new tree. *)
Descend(w, new) ==
  (todo \ {w}) \cup {[w EXCEPT !.path = p] : p \in Children(new, w.path)}

Offset(w) == IF HasAt(Under(w)) THEN 0 ELSE CHOOSE o \in Offsets(w) : TRUE

(* Mutant: the offsets stay in the query, which is sent for the shifted time. *)
MutRemoveOffset(expr) == expr

(* removeOffsetFn: the selectors without their offsets, unless @ is used. *)
RemoveOffset(expr) ==
  IF HasAt(expr) THEN expr
  ELSE [p \in DOMAIN expr |-> IF expr[p].kind = "selector" THEN [expr[p] EXCEPT !.offset = 0]
                                                             ELSE expr[p]]

(* queryDownstream for the node of w.  The answer will take the place of the
   node, or come below the node given: above is <<>> or <<node>>. *)
Push(w, request, fill, above) ==
  /\ sent' = sent \cup {[visit |-> w, expr |-> request, offset |-> Offset(w), fill |-> fill,
                         above |-> above]}
  /\ todo' = todo \ {w}
  /\ UNCHANGED <<query, tree, failed>>

(* The answer to a request.  One with histograms is thrown away: the walk
   goes on below the node as the request left it. *)
Answer(r) ==
  LET w == r.visit
      raw == QueryDownstream(r.expr, w.stmt, r.offset)
      answer == IF r.fill /\ w.stmt.interval # 0
                THEN FillStaleNaNGaps(raw, Steps(w.stmt, r.offset)) ELSE raw
      leaf == Leaf(FetchedSelector(r.offset, answer))
      new == Graft(tree, w.path, IF ContainsLossyHistogram(raw) THEN r.expr
                                 ELSE IF r.above = <<>> THEN leaf ELSE Over(Head(r.above), leaf))
  IN  /\ tree' = new
      /\ todo' = Descend(w, new)
      /\ sent' = sent \ {r}
      /\ UNCHANGED <<query, failed>>

(* A request that fails ends the walk: its error is the query's. *)
FailRequest(r) ==
  /\ failed' = TRUE
  /\ todo' = {} /\ sent' = {}
  /\ UNCHANGED <<query, tree>>

Leave(w) ==
  /\ todo' = Descend(w, tree)
  /\ UNCHANGED <<query, tree, sent, failed>>

(* A histogram query that a group can only answer with loss. *)
FailsHistogram(w) ==
  ~BelowSubquery(w) /\ IsHistogramExpr(w) /\ StrictMissingRemoteRead # {}

FailHistogram(w) ==
  /\ FailsHistogram(w)
  /\ failed' = TRUE
  /\ todo' = {} /\ sent' = {}
  /\ UNCHANGED <<query, tree>>

LeaveBlocked(w) ==
  /\ Blocked(w)
  /\ ~FailsHistogram(w)
  /\ Leave(w)

IsOp(w, ops) == ~Blocked(w) /\ Node(w).kind = "aggregate" /\ Node(w).op \in ops

PushAggregate(w) ==
  /\ IsOp(w, {"sum", "min", "max", "topk", "bottomk", "group"})
  /\ Push(w, RemoveOffset(Under(w)), FALSE, <<Node(w)>>)

(* The counts of the groups are summed. *)
PushCount(w) ==
  /\ IsOp(w, {"count"})
  /\ Push(w, RemoveOffset(Under(w)), FALSE, <<[Node(w) EXCEPT !.op = "sum"]>>)

(* avg becomes sum / count, each of which is then visited. *)
RewriteAvg(w) ==
  /\ IsOp(w, {"avg"})
  /\ LET As(op) == [Under(w) EXCEPT ![<<>>] = [@ EXCEPT !.op = op]]
         new == Graft(tree, w.path, Both(Binary("/"), As("sum"), As("count")))
     IN  /\ tree' = new
         /\ todo' = Descend(w, new)
  /\ UNCHANGED <<query, sent, failed>>

PushCountValues(w) ==
  /\ IsOp(w, {"count_values"})
  /\ Push(w, Under(w), FALSE,
          <<Aggregate("sum", Node(w).without, Node(w).grouping \cup {"value"})>>)

(* quantile, stddev, stdvar, limitk: not composable. *)
LeaveAggregate(w) == IsOp(w, {"stdvar"}) /\ Leave(w)

IsCall(w) == ~Blocked(w) /\ Node(w).kind = "call"

PushCall(w) ==
  /\ IsCall(w)
  /\ Node(w).fn # "absent"
  /\ Push(w, RemoveOffset(Under(w)), TRUE,
          IF Node(w).fn \in {"scalar", "sort"} THEN <<Node(w)>> ELSE <<>>)

LeaveCall(w) == IsCall(w) /\ Node(w).fn = "absent" /\ Leave(w)

IsSelector(w) == ~Blocked(w) /\ Node(w).kind = "selector"

(* The selector has its data already, or is the one of a range. *)
HasItsData(w) ==
  Node(w).fetched \/ (w.path # w.root /\ tree[Front(w.path)].kind = "matrix")

PushSelector(w) ==
  /\ IsSelector(w)
  /\ ~HasItsData(w)
  /\ Push(w, RemoveOffset(Under(w)), FALSE, <<>>)

LeaveSelector(w) == IsSelector(w) /\ HasItsData(w) /\ Leave(w)

LeaveOther(w) == ~Blocked(w) /\ Node(w).kind = "matrix" /\ Leave(w)

(* The expression of a subquery is walked with its own times, and skipped by
   the walk around it.  They are the multiples of the step since year 1
   (time.Truncate), where the engine takes those since the Unix epoch.  The
   Offset that the code subtracts is zero until the engine has set it, after
   the walk. *)
SubEvalStmt(s, node) ==
  LET start == s.start - node.range
  IN  [start |-> start + ((-(start + YearOne)) % node.step), end |-> s.end, interval |-> node.step]

EnterSubquery(w) ==
  /\ ~Blocked(w)
  /\ Node(w).kind = "subquery"
  /\ LET p == Child(w.path, 1)
     IN  todo' = (todo \ {w}) \cup
                   {[path |-> p, root |-> p, stmt |-> SubEvalStmt(w.stmt, Node(w))]}
  /\ UNCHANGED <<query, tree, sent, failed>>

Operand(w) == tree[Child(w.path, 1)]
LiteralOperator(w) ==
  ~Blocked(w) /\ Node(w).kind = "binary" /\ tree[Child(w.path, 2)].kind = "literal"

PushBinaryVector(w) ==
  /\ LiteralOperator(w)
  /\ Operand(w).kind = "selector"
  /\ Push(w, RemoveOffset(Under(w)), FALSE, <<>>)

LiteralSafeOps == {"min", "max", "topk", "bottomk"}

PushBinaryAggregate(w) ==
  /\ LiteralOperator(w)
  /\ Operand(w).kind = "aggregate" /\ Operand(w).op \in LiteralSafeOps
  /\ Push(w, RemoveOffset(Under(w)), FALSE, <<Operand(w)>>)

LeaveBinary(w) ==
  /\ ~Blocked(w) /\ Node(w).kind = "binary"
  /\ \/ ~LiteralOperator(w)
     \/ /\ Operand(w).kind # "selector"
        /\ Operand(w).kind = "aggregate" => Operand(w).op \notin LiteralSafeOps
  /\ Leave(w)

NodeReplacer(w) ==
  \/ FailHistogram(w) \/ LeaveBlocked(w)
  \/ PushAggregate(w) \/ PushCount(w) \/ RewriteAvg(w) \/ PushCountValues(w) \/ LeaveAggregate(w)
  \/ PushCall(w) \/ LeaveCall(w)
  \/ PushSelector(w) \/ LeaveSelector(w) \/ LeaveOther(w) \/ EnterSubquery(w)
  \/ PushBinaryVector(w) \/ PushBinaryAggregate(w) \/ LeaveBinary(w)

Next == (\E w \in todo : NodeReplacer(w)) \/ (\E r \in sent : Answer(r) \/ FailRequest(r))

Spec == Init /\ [][Next]_vars /\ WF_vars(Next)

---------------------------------------------------------------------------
(* The answer of the query, and what it should be.                         *)

Done == todo = {} /\ sent = {} /\ ~failed

AllSeries == AllGroups(query.data)

(* Querier.Select: what the engine reads for a selector that was not pushed
   down, by remote_read or by the JSON API. *)
Select ==
  LET all == AllSeries
  IN  [l \in DOMAIN all |-> [t \in DOMAIN all[l] |->
         IF l["sg"] \in query.remoteRead THEN all[l][t] ELSE Json(all[l][t])]]

Exact ==
  LET all == AllSeries
      read == Select
  IN  \A t \in Steps(query.stmt, 0) : Eval(tree, read, t) = Eval(query.tree, all, t)

HistogramData ==
  \E g \in Groups : \E l \in DOMAIN query.data[g] : \E t \in DOMAIN query.data[g][l] :
    query.data[g][l][t].k = "hist"

Nodes(kind) == {query.tree[p] : p \in {q \in DOMAIN query.tree : query.tree[q].kind = kind}}
Ops(kind) == {n.op : n \in Nodes(kind)}

(* The queries NodeReplacer is known to answer differently from one
   Prometheus that holds the series of all groups. *)

(* min, max, topk or bottomk under an operator that does not keep the order
   of the groups' answers, drops the ones the aggregation would prefer, or
   makes a tie of them all. *)
LiteralReorders ==
  \E p \in DOMAIN query.tree :
    /\ query.tree[p].kind = "binary"
    /\ query.tree[Child(p, 1)].kind = "aggregate"
    /\ query.tree[Child(p, 2)].kind = "literal"
    /\ LET agg == query.tree[Child(p, 1)].op
           op == query.tree[p].op
       IN  \/ agg \in {"max", "topk"} /\ op = "<"
           \/ agg \in {"min", "bottomk"} /\ op = ">"
           \/ agg \in LiteralSafeOps /\ op = "*" /\ query.tree[Child(p, 2)].v < 0
           \/ agg \in {"topk", "bottomk"} /\ op = "*" /\ query.tree[Child(p, 2)].v = 0

(* count_values without (...): the label of the value joins the labels to
   drop.  With an offset: it is sent with the query and applied again. *)
CountValuesInexact ==
  /\ "count_values" \in Ops("aggregate")
  /\ \/ \E n \in Nodes("aggregate") : n.without
     \/ \E n \in Nodes("selector") : n.offset # 0 /\ n.at = NoTime

(* scalar of the groups' scalars. *)
ScalarOfScalars == \E n \in Nodes("call") : n.fn = "scalar"

(* A function of the time of evaluation over a selector with an offset: the
   groups evaluate it at the shifted time. *)
EvaluationTimeShifted ==
  /\ \E n \in Nodes("call") : n.fn \in AtModifierUnsafe
  /\ \E n \in Nodes("selector") : n.offset # 0 /\ n.at = NoTime

(* A subquery with an offset: its window is not moved. *)
SubqueryShifted == \E n \in Nodes("subquery") : n.offset # 0

(* A subquery whose step does not divide the time from year 1 to the epoch:
   what is fetched lies between the times the engine evaluates it at. *)
SubqueryOffGrid == \E n \in Nodes("subquery") : YearOne % n.step # 0

(* A step without an answer, closer to the one before than the lookback, of
   a pushed node which is not a function: the engine finds the earlier
   answer again. *)
Dense == \A g \in Groups : \A l \in DOMAIN query.data[g] : DOMAIN query.data[g][l] = 0..Horizon
Bleeds ==
  /\ \E i \in {query.stmt.interval} \cup {n.step : n \in Nodes("subquery")} : i # 0 /\ i < Lookback
  /\ \/ ~Dense /\ query.tree[<<>>].kind # "call"
     \/ ~Dense /\ Nodes("aggregate") # {}
     \/ Ops("aggregate") \cap {"topk", "bottomk", "count_values"} # {}
     \/ Ops("binary") \cap {"<", ">"} # {}

KnownInexact ==
  \/ LiteralReorders \/ CountValuesInexact \/ ScalarOfScalars
  \/ EvaluationTimeShifted \/ SubqueryShifted \/ SubqueryOffGrid \/ Bleeds

---------------------------------------------------------------------------
(* Properties.                                                             *)

(* "Correctness overrules speed" (the ground rules of NodeReplacer): a query
   over floats gets the answer one Prometheus with the series of all server
   groups gives, whichever of its subtrees were pushed down, at every step,
   with offsets and @. *)
PushdownExact == Done /\ ~HistogramData /\ ~KnownInexact => Exact

(* Native histograms are never served from the lossy JSON API unless
   allow_lossy says so: recognised queries fail or read by remote_read, and
   a query found out by its answer falls back to remote_read, where every
   group has it and the query has no offset. *)
HistogramsKept ==
  /\ Done /\ HistogramData /\ ~KnownInexact /\ query.allowLossy = {}
  /\ \/ query.cached \/ \E n \in Nodes("call") : n.fn \in HistogramOnlyFuncs
     \/ query.remoteRead = Groups /\ \A n \in Nodes("selector") : n.offset = 0
  => Exact

(* "AggregateExpr (Max, Min, TopK, BottomK only -- and only if re-combined)"
   (the comment of the BinaryExpr case): an aggregation pushed down with the
   literal it is compared to or multiplied by gives the exact answer. *)
LiteralPushdownSafe == Done /\ Nodes("aggregate") # {} /\ Nodes("binary") # {} => Exact

=============================================================================
