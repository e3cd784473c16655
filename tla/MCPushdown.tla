----------------------------- MODULE MCPushdown -----------------------------
(***************************************************************************)
(* Instances of Pushdown: two server groups with up to two series each of  *)
(* the queried metric, over seven points in time.  Floats are multiples of *)
(* twelve, so that the mean of up to four of them is an integer.  A tick   *)
(* is 256 seconds, of which year 1 is 242717175 before the epoch: the      *)
(* subquery steps 1 and 3 divide it, 2 does not.                           *)
(***************************************************************************)
EXTENDS Pushdown

MCGroups == {"g1", "g2"}

Instant == [start |-> 4, end |-> 4, interval |-> 0]
StepOne == [start |-> 3, end |-> 5, interval |-> 1]     \* closer than the lookback
StepTwo == [start |-> 3, end |-> 5, interval |-> 2]
Stmts == {Instant, StepOne, StepTwo}

(* Offsets and @: none, either sign, pinned, pinned with an offset. *)
Selectors == {Leaf(Selector(o, NoTime)) : o \in {0, 1, -1}} \cup {Leaf(Selector(o, 3)) : o \in {0, 1}}
Plain == Leaf(Selector(0, NoTime))
Shifted == Leaf(Selector(1, NoTime))
Pinned == Leaf(Selector(1, 3))

(* No series, one group's only, the same or different series in both groups,
   more in one than in the other: a grows and b shrinks, so that the order
   of the values changes in time. *)
Samples(g, job, V(_)) ==
  LET base == IF g = "g1" THEN 1 ELSE 3
  IN  [t \in 0..Horizon |-> V(12 * (base + IF job = "a" THEN t ELSE Horizon - t))]
DenseData(V(_)) ==
  {[g \in MCGroups |-> [l \in {[job |-> j] : j \in f[g]} |-> Samples(g, l.job, V)]] :
     f \in {("g1" :> x[1]) @@ ("g2" :> x[2]) : x \in
             {<<{}, {}>>, <<{}, {"a"}>>, <<{"a"}, {"a"}>>, <<{"a"}, {"b"}>>,
              <<{"a", "b"}, {"b"}>>, <<{"a", "b"}, {"a", "b"}>>}}}
Floats == DenseData(Float)
Histograms == DenseData(Histogram)

(* Series with gaps: any samples of four in g1, every other one in g2. *)
Gaps ==
  {"g1" :> ([job |-> "a"] :> [t \in S |-> Float(12 * (t + 1))]) @@
   "g2" :> ([job |-> "b"] :> [t \in T |-> Float(24)]) :
     S \in SUBSET (2..5) \ {{}}, T \in {{1, 3, 5}}}

Groupings == {<<FALSE, {}>>, <<FALSE, {"job"}>>, <<FALSE, {"sg"}>>, <<TRUE, {"job"}>>}
Aggs(ops, of) == {Over(Aggregate(op, g[1], g[2]), s) : op \in ops, g \in Groupings, s \in of}
Sum == Aggregate("sum", FALSE, {})
ByJob(op) == Aggregate(op, FALSE, {"job"})

Aggregations ==
  Aggs({"sum", "min", "max", "topk", "bottomk", "group", "count", "avg", "count_values", "stdvar"},
       Selectors)

Literals(of, ops, ns) == {Both(Binary(op), e, Leaf(Literal(n))) : e \in of, op \in ops, n \in ns}
RangeOver(e) == {Over(Call(fn), Over(Matrix(2), e)) : fn \in {"max_over_time", "count_over_time", "last_over_time"}}
SubqueryOver(range, step, e) == Over(Call("max_over_time"), Over(Subquery(range, step, 0), e))

Operators ==
  Literals(Selectors \cup Aggs({"sum", "max", "min", "topk", "count"}, {Plain, Shifted}), {"*", "<", ">"}, {48, 0})
  \cup {Both(Binary("-"), Plain, s) : s \in Selectors}
  \cup {Both(Binary("-"), Over(Sum, Plain), Over(Sum, Shifted))}

Nested ==
  {Over(Aggregate(op, FALSE, {}), Over(ByJob("sum"), s)) : op \in {"max", "count", "avg"}, s \in {Plain, Shifted, Pinned}}
  \cup {Over(Call(fn), s) : fn \in {"absent", "sort", "scalar"}, s \in Selectors}
  \cup {Over(Call("timestamp"), Over(Call("max_over_time"), Over(Matrix(2), s))) : s \in Selectors}

Ranges ==
  UNION {RangeOver(s) \cup {Over(ByJob("sum"), e) : e \in RangeOver(s)} : s \in Selectors}
  \cup {SubqueryOver(2, step, e) : step \in {1, 2, 3}, e \in {Plain, Shifted, Over(Sum, Plain), Over(Sum, Pinned)}}
  \cup {SubqueryOver(4, 3, e) : e \in {Plain, Over(Sum, Plain), Over(Sum, Pinned)}}

HistogramQueries ==
  {Plain, Shifted, Over(Sum, Plain), Over(Aggregate("avg", FALSE, {"job"}), Plain),
   Over(ByJob("count"), Plain), Over(Call("histogram_count"), Plain),
   Over(Call("histogram_count"), Over(Sum, Shifted)),
   Over(Sum, Over(Call("last_over_time"), Over(Matrix(2), Plain))),
   SubqueryOver(2, 1, Over(Call("histogram_count"), Plain))}

CasesOf(trees, stmts, data, remoteRead, allowLossy, cached) ==
  [tree : trees, stmt : stmts, data : data, remoteRead : remoteRead, allowLossy : allowLossy,
   cached : cached]

MCCases ==
  CasesOf(Aggregations \cup Operators \cup Nested \cup Ranges, Stmts, Floats, {{}}, {{}}, {FALSE})
  \cup CasesOf(Aggs({"sum", "max", "topk"}, {Plain, Shifted}) \cup Ranges, Stmts, Gaps, {{}}, {{}}, {FALSE})
  \cup CasesOf(HistogramQueries, {Instant, StepOne}, Histograms, SUBSET MCGroups, {{}, {"g2"}}, BOOLEAN)

(* An aggregation compared to a literal. *)
LiteralCases ==
  CasesOf(Literals({Over(Aggregate("max", FALSE, {}), Plain)}, {"<"}, {84}), {Instant}, Floats, {{}}, {{}}, {FALSE})

=============================================================================
