------------------------------- MODULE PromQL -------------------------------
(***************************************************************************)
(* PromQL expressions and what the Prometheus engine answers for them: the *)
(* engine embedded in promxy and the one of every downstream.  The module  *)
(* has no state.                                                           *)
(*                                                                         *)
(* An expression is a tree: a function from paths, sequences of child      *)
(* numbers, to nodes.  A series set is a function from label sets to       *)
(* samples, samples a function from times to values; an instant vector is  *)
(* a function from label sets to values.  A label set is a function from   *)
(* label names to values; the metric name is left out, every selector      *)
(* being of the same metric.  A value is a float, a native histogram, NaN  *)
(* or a staleness marker.                                                  *)
(***************************************************************************)
EXTENDS Integers, FiniteSets, FiniteSetsExt, SequencesExt, TLC

CONSTANTS
  Lookback,   \* the engine's lookback delta
  Horizon     \* the last time the engine evaluates at

ASSUME LookbackAssumption == Lookback \in Nat \ {0} /\ Horizon \in Nat

NoTime == -100

Float(n) == [k |-> "float", v |-> n]
Histogram(n) == [k |-> "hist", v |-> n]
NaN == [k |-> "nan", v |-> 0]
Stale == [k |-> "stale", v |-> 0]

---------------------------------------------------------------------------
(* Nodes and trees.                                                        *)

(* fetched says that the selector already carries its series
   (UnexpandedSeriesSet), which are then in answer. *)
Selector(offset, at) ==
  [kind |-> "selector", offset |-> offset, at |-> at, fetched |-> FALSE, answer |-> <<>>]
FetchedSelector(offset, answer) ==
  [kind |-> "selector", offset |-> offset, at |-> NoTime, fetched |-> TRUE, answer |-> answer]
Matrix(range) == [kind |-> "matrix", range |-> range]
Subquery(range, step, offset) ==
  [kind |-> "subquery", range |-> range, step |-> step, offset |-> offset]
Call(fn) == [kind |-> "call", fn |-> fn]
Aggregate(op, without, grouping) ==
  [kind |-> "aggregate", op |-> op, without |-> without, grouping |-> grouping]
Binary(op) == [kind |-> "binary", op |-> op]
Literal(n) == [kind |-> "literal", v |-> n]

Leaf(node) == [p \in {<<>>} |-> node]
Over(node, tree) ==
  [p \in {<<>>} \cup {<<1>> \o q : q \in DOMAIN tree} |-> IF p = <<>> THEN node ELSE tree[Tail(p)]]
Both(node, lhs, rhs) ==
  [p \in {<<>>} \cup {<<1>> \o q : q \in DOMAIN lhs} \cup {<<2>> \o q : q \in DOMAIN rhs} |->
     IF p = <<>> THEN node ELSE IF Head(p) = 1 THEN lhs[Tail(p)] ELSE rhs[Tail(p)]]

Child(p, i) == Append(p, i)
Children(tree, p) == {Child(p, i) : i \in 1..2} \cap DOMAIN tree
Below(tree, p) == {q \in DOMAIN tree : IsPrefix(p, q)}
Subtree(tree, p) ==
  [q \in {SubSeq(r, Len(p) + 1, Len(r)) : r \in Below(tree, p)} |-> tree[p \o q]]

(* The tree with the subtree at p replaced. *)
Graft(tree, p, new) ==
  [q \in (DOMAIN tree \ Below(tree, p)) \cup {p \o r : r \in DOMAIN new} |->
     IF IsPrefix(p, q) THEN new[SubSeq(q, Len(p) + 1, Len(q))] ELSE tree[q]]

Count(tree, kind) == Cardinality({p \in DOMAIN tree : tree[p].kind = kind})

---------------------------------------------------------------------------
(* What the engine computes.                                               *)

(* vectorSelectorSingle: the latest sample at or before the time looked up,
   unless it is older than the lookback or a staleness marker. *)
Seen(samples, ref) == {u \in DOMAIN samples : ref - Lookback < u /\ u <= ref}
Latest(samples, ref) == samples[Max(Seen(samples, ref))]
Visible(samples, ref) == Seen(samples, ref) # {} /\ Latest(samples, ref).k # "stale"
SelectAt(series, ref) ==
  [l \in {m \in DOMAIN series : Visible(series[m], ref)} |-> Latest(series[l], ref)]

(* matrixSelector: the samples of the window, left-open. *)
Windowed(samples, range, ref) ==
  {u \in DOMAIN samples : ref - range < u /\ u <= ref /\ samples[u].k # "stale"}
Window(series, range, ref) ==
  [l \in {m \in DOMAIN series : Windowed(series[m], range, ref) # {}} |->
     Restrict(series[l], Windowed(series[l], range, ref))]

(* generateGroupingKey: the labels an aggregation keeps. *)
GroupKey(node, l) ==
  Restrict(l, IF node.without THEN DOMAIN l \ node.grouping
                              ELSE DOMAIN l \cap node.grouping)

Total(vec, S) == MapThenSumSet(LAMBDA l : vec[l].v, S)

(* The aggregation of the members S of one group. *)
Combine(op, vec, S) ==
  LET kind == (CHOOSE x \in {vec[l] : l \in S} : TRUE).k
      n == Cardinality(S)
  IN  CASE op = "sum" -> [k |-> kind, v |-> Total(vec, S)]
        [] op = "avg" -> [k |-> kind, v |-> Total(vec, S) \div n]
        [] op = "count" -> Float(n)
        [] op = "group" -> Float(1)
        [] op = "min" -> Float(Min({vec[l].v : l \in S}))
        [] op = "max" -> Float(Max({vec[l].v : l \in S}))
        [] op = "stdvar" -> Float(n * MapThenSumSet(LAMBDA l : vec[l].v * vec[l].v, S)
                                  - Total(vec, S) * Total(vec, S))

(* topk and bottomk keep their members' labels (k is 1, a tie keeps all). *)
TopK(node, vec) ==
  LET Peers(l) == {vec[m].v : m \in {x \in DOMAIN vec : GroupKey(node, x) = GroupKey(node, l)}}
  IN  Restrict(vec, {l \in DOMAIN vec :
        vec[l].v = IF node.op = "topk" THEN Max(Peers(l)) ELSE Min(Peers(l))})

(* count_values adds the value as a label. *)
Valued(node, vec, l) == GroupKey(node, l) @@ ("value" :> vec[l].v)

AggregateOf(node, vec) ==
  CASE node.op \in {"topk", "bottomk"} -> TopK(node, vec)
    [] node.op = "count_values" ->
         [k \in {Valued(node, vec, l) : l \in DOMAIN vec} |->
            Float(Cardinality({l \in DOMAIN vec : Valued(node, vec, l) = k}))]
    [] OTHER ->
         [k \in {GroupKey(node, l) : l \in DOMAIN vec} |->
            Combine(node.op, vec, {l \in DOMAIN vec : GroupKey(node, l) = k})]

(* Functions of an instant vector, evaluated at time t.  timestamp is of the
   evaluation, its argument being computed and not a plain selector; sort
   orders the answer, which a vector leaves open. *)
CallOf(fn, vec, t) ==
  CASE fn = "absent" -> IF DOMAIN vec = {} THEN <<>> :> Float(1) ELSE <<>>
    [] fn = "scalar" -> <<>> :> IF Cardinality(DOMAIN vec) = 1
                                THEN vec[CHOOSE l \in DOMAIN vec : TRUE] ELSE NaN
    [] fn = "timestamp" -> [l \in DOMAIN vec |-> Float(t)]
    [] fn = "histogram_count" ->
         [l \in {m \in DOMAIN vec : vec[m].k = "hist"} |-> Float(vec[l].v)]
    [] fn = "sort" -> vec

(* Functions of a range: the window of every series. *)
RangeFunction(fn, w) ==
  CASE fn = "max_over_time" -> Float(Max({w[u].v : u \in DOMAIN w}))
    [] fn = "count_over_time" -> Float(Cardinality(DOMAIN w))
    [] fn = "last_over_time" -> w[Max(DOMAIN w)]
RangeCallOf(fn, windows) == [l \in DOMAIN windows |-> RangeFunction(fn, windows[l])]

(* Operators between a vector and a literal, and between two vectors. *)
WithLiteral(op, vec, n) ==
  CASE op = "*" -> [l \in DOMAIN vec |-> Float(vec[l].v * n)]
    [] op = "<" -> Restrict(vec, {l \in DOMAIN vec : vec[l].v < n})
    [] op = ">" -> Restrict(vec, {l \in DOMAIN vec : vec[l].v > n})
OfVectors(op, lhs, rhs) ==
  [l \in DOMAIN lhs \cap DOMAIN rhs |->
     [k |-> lhs[l].k, v |-> IF op = "/" THEN lhs[l].v \div rhs[l].v ELSE lhs[l].v - rhs[l].v]]

(* The time a selector looks up, and the series it reads: its own answer, or
   the given series. *)
Ref(node, u) == (IF node.at = NoTime THEN u ELSE node.at) - node.offset
Source(node, series) == IF node.fetched THEN node.answer ELSE series

(* A subquery evaluates its expression at the multiples of its step in the
   window; vecs are its values. *)
SubqueryTimes(node, u) ==
  {w \in 0..Horizon : /\ u - node.offset - node.range < w /\ w <= u - node.offset
                      /\ w % node.step = 0}
SubqueryWindow(vecs) ==
  [l \in UNION {DOMAIN vecs[w] : w \in DOMAIN vecs} |->
     [w \in {x \in DOMAIN vecs : l \in DOMAIN vecs[x]} |-> vecs[w][l]]]

(* The value at time u of the node at p, val[q][w] being that of the nodes
   below it at any time. *)
ValueOf(tree, series, val, p, u) ==
  LET node == tree[p]
      c == Child(p, 1)
  IN  CASE node.kind = "selector" -> SelectAt(Source(node, series), Ref(node, u))
        [] node.kind = "aggregate" -> AggregateOf(node, val[c][u])
        [] node.kind = "call" ->
             CASE tree[c].kind = "matrix" ->
                    LET sel == tree[Child(c, 1)]
                    IN  RangeCallOf(node.fn, Window(Source(sel, series), tree[c].range, Ref(sel, u)))
               [] tree[c].kind = "subquery" ->
                    RangeCallOf(node.fn,
                      SubqueryWindow([w \in SubqueryTimes(tree[c], u) |-> val[Child(c, 1)][w]]))
               [] OTHER -> CallOf(node.fn, val[c][u], u)
        [] node.kind = "binary" ->
             IF tree[Child(p, 2)].kind = "literal"
             THEN WithLiteral(node.op, val[c][u], tree[Child(p, 2)].v)
             ELSE OfVectors(node.op, val[c][u], val[Child(p, 2)][u])
        [] OTHER -> <<>>   \* read by the node above

(* The value of the expression at time t, over the given series for the
   selectors that do not carry their own. *)
Eval(tree, series, t) ==
  LET val[p \in DOMAIN tree] == [u \in 0..Horizon |-> ValueOf(tree, series, val, p, u)]
  IN  val[<<>>][t]

=============================================================================
