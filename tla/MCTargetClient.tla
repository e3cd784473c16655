--------------------------- MODULE MCTargetClient ---------------------------
(* Small instances of TargetClient. *)
EXTENDS TargetClient

MCLower(v) == CASE v = "A" -> "a" [] OTHER -> v
MCUpper(v) == CASE v = "a" -> "A" [] OTHER -> v

Is(n, v)  == [name |-> n, neg |-> FALSE, vals |-> {v}, lits |-> NotRegex, fold |-> FALSE]
Not(n, v) == [name |-> n, neg |-> TRUE, vals |-> {v}, lits |-> NotRegex, fold |-> FALSE]
In(n, vs)    == [name |-> n, neg |-> FALSE, vals |-> {vs[i] : i \in DOMAIN vs}, lits |-> vs, fold |-> FALSE]
NotIn(n, vs) == [name |-> n, neg |-> TRUE, vals |-> {vs[i] : i \in DOMAIN vs}, lits |-> vs, fold |-> FALSE]
Like(n, vals) == [name |-> n, neg |-> FALSE, vals |-> vals, lits |-> <<>>, fold |-> FALSE]

\* m{job="a"}, m{job="b"} and a series without job that has its own az.
SeriesA == [lset |-> (Name :> "m") @@ ("job" :> "a"), at |-> {0, 4, 7}]
SeriesB == [lset |-> (Name :> "m") @@ ("job" :> "b"), at |-> {2, 3}]
SeriesC == [lset |-> (Name :> "n") @@ ("az" :> "x"), at |-> {5}]
SeriesD == [lset |-> (Name :> "m") @@ ("job" :> "A") @@ ("svc" :> "b"), at |-> {3, 6}]
MCDatas == {{SeriesA}, {SeriesA, SeriesB, SeriesC}, {SeriesB, SeriesC, SeriesD}}

Selectors == {{Is(Name, "m")}, {Is("job", "b")}, {Not("job", "a")}, {In("job", <<"a", "b">>)},
              {NotIn("job", <<"a", "a">>)}, {Is(Name, "m"), Like("job", {"b", "c"})},
              {Is("az", "z")}, {Is("az", "x")}, {Is(Name, "n"), Not("az", "x")}, {Is("svc", "b")}, {Is("job", "")},
              {Is("job", "a")}, {Is("job", "A")}, {Like("region", {"x", "z"}), Not("svc", "a")}}

Request(op, sel, label, metric, start, end, step) ==
    [op |-> op, sel |-> sel, ranged |-> FALSE, label |-> label, metric |-> metric, start |-> start, end |-> end, step |-> step]
Ranged(r) == [r EXCEPT !.ranged = TRUE]

\* Ranges before, across and after the windows below; one starts before the epoch.
Ranges == {<<-1, 8>>, <<1, 4>>, <<5, 6>>}
MCCalls ==
    {Request("Query", sel, "", "", t, t, 1) : sel \in Selectors, t \in {3, 6}}
    \cup {Ranged(Request("Query", sel, "", "", 5, 5, 1)) : sel \in Selectors \cup {{Is("region", "b")}}}
    \cup {Ranged(Request("QueryRange", sel, "", "", 1, 8, 2)) : sel \in {{Is(Name, "m")}, {Is("svc", "b")}}}
    \cup {Request("QueryRange", {Is(Name, "m")}, "", "", r[1], r[2], step) : r \in Ranges \cup {<<0, 6>>, <<2, 8>>}, step \in {2, 3}}
    \cup {Request(op, sel, "", "", r[1], r[2], 1) : op \in {"Series", "GetValue", "QueryExemplars"}, sel \in Selectors, r \in Ranges}
    \cup {Request(op, sel, label, "", r[1], r[2], 1) :
              op \in {"LabelNames", "LabelValues"}, label \in {"job", "az"}, sel \in {{}, {Is("az", "z")}, {Is("az", "x")}, {Is("job", "a")}}, r \in Ranges}
    \cup {Request("Metadata", {Is(Name, n)}, "", n, 0, 0, 1) : n \in {"", "m"}}

Anytime == [start |-> Unset, end |-> Unset, truncate |-> FALSE]
Window(start, end, truncate) == [start |-> start, end |-> end, truncate |-> truncate]
Plain == [add |-> ("az" :> "z"), inject |-> {}, align |-> FALSE, rel |-> Anytime, abs |-> Anytime, lf |-> NoFilter, relabel |-> <<>>,
          ignore |-> FALSE, downgrade |-> FALSE]
LabelFilter(dynamic, include, exclude, closed, lookback) ==
    [dynamic |-> dynamic, include |-> include, exclude |-> exclude, closed |-> closed, lookback |-> lookback]

Rule(action, source, target) == [action |-> action, source |-> source, target |-> target]

MCConfigs ==
    {[Plain EXCEPT !.rel = Window(Unset, -4, TRUE)],
     [Plain EXCEPT !.rel = Window(-5, Unset, TRUE), !.abs = Window(3, 6, TRUE), !.inject = {Is("job", "a")}],
     [Plain EXCEPT !.abs = Window(4, Unset, FALSE), !.ignore = TRUE, !.downgrade = TRUE],
     [Plain EXCEPT !.abs = Window(4, 6, TRUE), !.align = TRUE, !.downgrade = TRUE],
     [Plain EXCEPT !.align = TRUE, !.ignore = TRUE],
     [Plain EXCEPT !.lf = LabelFilter({"job", "az"}, <<>>, <<>>, TRUE, 0)],
     [Plain EXCEPT !.lf = LabelFilter({"job"}, "job" :> {"c"}, ("job" :> {"a"}) @@ (Name :> {"n"}), FALSE, 4)],
     [Plain EXCEPT !.lf = LabelFilter({"az"}, <<>>, <<>>, FALSE, 4), !.abs = Window(Unset, 3, TRUE)],
     [Plain EXCEPT !.relabel = <<Rule("replace", "job", "svc"), Rule("labeldrop", "job", "")>>, !.downgrade = TRUE],
     [Plain EXCEPT !.relabel = <<Rule("replace", "az", "zone"), Rule("replace", "zone", "region")>>, !.inject = {Is("job", "a")}],
     [Plain EXCEPT !.relabel = <<Rule("replace", "svc", "region"), Rule("replace", "job", "svc")>>],
     [Plain EXCEPT !.relabel = <<Rule("lowercase", "job", "job"), Rule("uppercase", "job", "svc")>>,
                   !.lf = LabelFilter({"job"}, <<>>, <<>>, FALSE, 0)]}
=============================================================================
