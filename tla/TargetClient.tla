---------------------------- MODULE TargetClient ----------------------------
(***************************************************************************)
(* The stack of clients a server group puts in front of one target: a call *)
(* goes down through LabelFilterClient, MetricsRelabelClient,               *)
(* AddLabelClient, InjectMatchersClient, StepAlignClient,                   *)
(* RelativeTimeFilter and AbsoluteTimeFilter, each of which may answer it   *)
(* with nothing, rewrite its selector or narrow its time range; the         *)
(* target's answer comes back up through StepAlignClient, AddLabelClient    *)
(* and MetricsRelabelClient, and through ErrorWrap, IgnoreErrorAPI and      *)
(* DowngradeErrorAPI around the group.  Meanwhile the label filter is       *)
(* re-synced and the target gains and loses series.                         *)
(*                                                                          *)
(* A matcher is [name, neg, vals, lits, fold]: the values its (positive)    *)
(* pattern accepts, whether it is negated, and what SetMatches() returns    *)
(* for it, duplicates included; lits = <<>> is a pattern that is no set of  *)
(* literals, lits = NotRegex an equality matcher; fold is the prefix (?i).  *)
(* A selector is a set of matchers; callers inside promxy send one selector *)
(* per call.  A ranged query is last_over_time of a range selector of the   *)
(* lookback: the same samples as the plain query, in another expression.    *)
(***************************************************************************)
EXTENDS Integers, SequencesExt

CONSTANTS Configs,     \* server-group configurations, chosen in Init
          Datas,       \* what the target may store: sets of series
          Calls,       \* the calls that may arrive
          Now,         \* time.Now(), in milliseconds
          Lookback,    \* the target's lookback delta
          Lower(_),    \* strings.ToLower, on the values of this instance
          Upper(_),    \* strings.ToUpper
          Unset,       \* a zero time.Time or nil duration: no such bound
          NoFilter,    \* label_filter not configured, or never synced
          NotRegex,    \* lits of an equality matcher
          NoMatch      \* RewriteMatchers: nothing can match

ASSUME LiteralsAssumption == NotRegex # <<>>
ASSUME TimesAssumption == Now \in Int /\ Lookback \in Nat \ {0}

VARIABLES cfg,     \* the group's configuration
          data,    \* the series the target holds
          filter,  \* LabelFilterClient.filter: label -> values, or NoFilter
          seen,    \* what the target held at the last successful sync
          call,    \* the call as it entered the stack
          req,     \* the call as the next client down receives it
          at,      \* the client whose turn it is
          reply    \* the answer on its way up

vars == <<cfg, data, filter, seen, call, req, at, reply>>

Name == "__name__"
SeriesOps == {"Query", "QueryRange", "GetValue", "QueryExemplars"}
LabelOps  == {"LabelNames", "LabelValues"}
Ops       == SeriesOps \cup LabelOps \cup {"Series", "Metadata"}

\* The clients that can answer a call: "failure" is an error of the target.
Answerers == {"labelfilter", "relabel", "addlabel", "relative", "absolute", "target", "failure"}

\* A request, a matcher, the window of a time filter, a stored series.  Steps
\* are positive (the query API refuses others), only patterns that are no set
\* of literals are folded, and a scrape without a metric name fails.
IsRequest(r) == /\ r = [op |-> r.op, sel |-> r.sel, ranged |-> r.ranged, label |-> r.label, metric |-> r.metric,
                        start |-> r.start, end |-> r.end, step |-> r.step]
                /\ r.op \in Ops
                /\ r.ranged \in BOOLEAN /\ (r.ranged => r.op \in {"Query", "QueryRange"})
                /\ r.start \in Int /\ r.end \in Int /\ r.step \in Nat \ {0}
IsMatcher(m) == /\ m # NoMatch
                /\ m.lits # <<>> => ~m.fold
                /\ m.lits \notin {NotRegex, <<>>} => m.vals = {m.lits[i] : i \in 1..Len(m.lits)}
IsWindow(w) == /\ w = [start |-> w.start, end |-> w.end, truncate |-> w.truncate]
               /\ w.start # Unset => w.start \in Int
               /\ w.end # Unset => w.end \in Int
IsSeries(s) == /\ s = [lset |-> s.lset, at |-> s.at]
               /\ s.at \subseteq Int
               /\ Name \in DOMAIN s.lset /\ s.lset[Name] # ""

ASSUME CallsAssumption ==
    \A c \in Calls : /\ IsRequest(c)
                     /\ c.op = "Query" => c.start = c.end
                     /\ \A m \in c.sel : IsMatcher(m)
ASSUME ConfigsAssumption ==
    \A c \in Configs : /\ IsWindow(c.rel) /\ IsWindow(c.abs)
                       /\ c.lf # NoFilter => /\ c.lf.lookback \in Nat
                                             /\ \A n \in DOMAIN c.lf.include : IsFiniteSet(c.lf.include[n])
ASSUME DatasAssumption == \A d \in Datas : IsFiniteSet(d) /\ \A s \in d : IsSeries(s)

NoReply   == [from |-> "nobody", err |-> FALSE, warned |-> FALSE, data |-> {}]
Nothing(who) == [NoReply EXCEPT !.from = who]

(***************************************************************************)
(* Matchers.  An absent label has the value "".                             *)
(***************************************************************************)
ValueOf(lset, n) == IF n \in DOMAIN lset THEN lset[n] ELSE ""
Accepts(m, v) == IF m.fold THEN \E u \in m.vals : Lower(u) = Lower(v) ELSE v \in m.vals
Matches(m, v) == Accepts(m, v) <=> ~m.neg
Selects(sel, lset) == \A m \in sel : Matches(m, ValueOf(lset, m.name))
NamesIn(sel) == {m.name : m \in sel}

\* countPresent: how many distinct values of the sequence are in the set.
CountPresent(set, values) == Cardinality({v \in set : \E i \in 1..Len(values) : values[i] = v})

\* FilterLabelMatchers: can some value the filter knows satisfy the matcher?
\* Answered by lookups and sizes wherever the pattern is a set of literals.
FilterLabelMatchers(f, m) ==
    \/ m.name \notin DOMAIN f
    \/ LET known == f[m.name] IN
       CASE m.lits = NotRegex /\ ~m.neg -> \E v \in m.vals : v \in known
         [] m.lits = NotRegex /\ m.neg  -> CASE Cardinality(known) = 0 -> FALSE
                                             [] Cardinality(known) = 1 -> \A v \in m.vals : v \notin known
                                             [] OTHER -> TRUE
         [] m.lits \notin {NotRegex, <<>>} /\ ~m.neg -> \E i \in 1..Len(m.lits) : m.lits[i] \in known
         [] m.lits \notin {NotRegex, <<>>} /\ m.neg  -> CountPresent(known, m.lits) < Cardinality(known)
         [] OTHER -> \E v \in known : Matches(m, v)

(***************************************************************************)
(* LabelFilterClient                                                        *)
(***************************************************************************)
\* blocked: fail closed until the first successful sync.
Blocked == cfg.lf # NoFilter /\ cfg.lf.closed /\ filter = NoFilter

\* A nil filter map knows no label.
KnownLabels == IF filter = NoFilter THEN <<>> ELSE filter

\* The embedded LabelNames and LabelValues are not filtered.
LabelFilterRejects ==
    /\ cfg.lf # NoFilter
    /\ req.op \notin LabelOps
    /\ Blocked \/ \E m \in req.sel : ~FilterLabelMatchers(KnownLabels, m)

(***************************************************************************)
(* MetricsRelabelClient.  Rules are applied to the labels of an answer in   *)
(* order, and to the matchers of a request in reverse.                      *)
(***************************************************************************)
\* Setting a label to "" removes it.
SetLabel(lset, n, v) ==
    [l \in (DOMAIN lset \ {n}) \cup {x \in {n} : v # ""} |-> IF l = n THEN v ELSE lset[l]]

Relabel1(lset, rule) ==
    CASE rule.action = "replace"   -> SetLabel(lset, rule.target, ValueOf(lset, rule.source))
      [] rule.action = "labeldrop" -> SetLabel(lset, rule.source, "")
      [] rule.action = "lowercase" -> SetLabel(lset, rule.target, Lower(ValueOf(lset, rule.source)))
      [] rule.action = "uppercase" -> SetLabel(lset, rule.target, Upper(ValueOf(lset, rule.source)))

RelabelLabels(lset) == FoldLeft(Relabel1, lset, cfg.relabel)

\* NoMatch: the selector cannot match anything, the target is not asked.  A
\* dropped label is expected to be absent by ="" and !~".+" only.
RewriteMatcher(rule, m) ==
    CASE m = NoMatch -> NoMatch
      [] rule.action = "replace" /\ m.name = rule.target -> [m EXCEPT !.name = rule.source]
      [] rule.action = "labeldrop" /\ m.name = rule.source ->
            IF ~m.neg /\ ~m.fold /\ m.vals = {""} THEN m ELSE NoMatch
      [] rule.action \in {"lowercase", "uppercase"} /\ m.name = rule.target ->
            [m EXCEPT !.name = rule.source, !.fold = TRUE, !.lits = <<>>]
      [] OTHER -> m

MutForwards(sel) == {FoldLeft(LAMBDA m, rule : RewriteMatcher(rule, m), x, cfg.relabel) : x \in sel}
RewriteMatchers(sel) == {FoldRight(RewriteMatcher, cfg.relabel, m) : m \in sel}

\* LabelValues and Metadata are not overridden, QueryExemplars sends the
\* query on as it came.
Rewrites(op) == op \notin {"LabelValues", "Metadata", "QueryExemplars"}

\* MetricsRelabelVisitor rewrites the selector inside a range selector when it
\* visits the range selector, and again when the walk descends to it.
RewriteSelector(r) == IF r.ranged THEN RewriteMatchers(RewriteMatchers(r.sel)) ELSE RewriteMatchers(r.sel)

RelabelRejects == Rewrites(req.op) /\ NoMatch \in RewriteSelector(req)
RewriteRequest(r) == IF Rewrites(r.op) THEN [r EXCEPT !.sel = RewriteSelector(r)] ELSE r

\* What comes back: label names are relabelled as labels with a placeholder
\* for their value.
Relabelled(r, d) ==
    CASE r.op \in SeriesOps -> {[p EXCEPT !.lset = RelabelLabels(@)] : p \in d}
      [] r.op = "Series" -> {RelabelLabels(l) : l \in d}
      [] r.op = "LabelNames" -> DOMAIN RelabelLabels([n \in d |-> "placeholder"])
      [] OTHER -> d

(***************************************************************************)
(* AddLabelClient                                                           *)
(***************************************************************************)
\* FilterMatchers, filterMatchers: a matcher on an added label is decided here.
MutMismatched(sel) == FALSE
Mismatched(sel) == \E m \in sel : m.name \in DOMAIN cfg.add /\ ~Matches(m, cfg.add[m.name])

\* __name__=~".+", which stands in for an empty selector.
AnyName == [name |-> Name, neg |-> TRUE, vals |-> {""}, lits |-> <<>>, fold |-> FALSE]

\* A cleared selector is left out of a labels request and replaced elsewhere.
\* QueryExemplars sends the query on as it came, Metadata has no matchers.
StripAdded(r) ==
    LET kept == {m \in r.sel : m.name \notin DOMAIN cfg.add}
    IN  CASE r.op \in {"QueryExemplars", "Metadata"} -> r
          [] r.op \in LabelOps -> [r EXCEPT !.sel = kept]
          [] OTHER -> [r EXCEPT !.sel = IF kept = {} THEN {AnyName} ELSE kept]

\* RewriteMatchers builds matchers without compiling their pattern.  All
\* calls but GetValue send them on as text; on GetValue, matching the value of
\* an added label with one is a nil dereference.
Uncompiled(m) == req.op = "GetValue" /\ m \notin call.sel /\ m.lits # NotRegex /\ m.name \in DOMAIN cfg.add

AddLabelRejects == req.op # "Metadata" /\ Mismatched({m \in req.sel : ~Uncompiled(m)})

\* addLabels: the added labels replace the series' own.
AddLabels(lset) == [n \in DOMAIN lset \cup DOMAIN cfg.add |-> IF n \in DOMAIN cfg.add THEN cfg.add[n] ELSE lset[n]]

\* What comes back through AddLabelClient.
Labelled(r, d) ==
    CASE r.op \in SeriesOps -> {[p EXCEPT !.lset = AddLabels(@)] : p \in d}
      [] r.op = "Series" -> {AddLabels(l) : l \in d}
      [] r.op = "LabelNames" -> d \cup DOMAIN cfg.add
      [] r.op = "LabelValues" -> d \cup {cfg.add[n] : n \in DOMAIN cfg.add \cap {r.label}}
      [] r.op = "Metadata" -> d

(***************************************************************************)
(* InjectMatchersClient: no QueryExemplars or Metadata of its own.          *)
(***************************************************************************)
Inject(r) == IF r.op \in {"QueryExemplars", "Metadata"} THEN r
                                                        ELSE [r EXCEPT !.sel = @ \cup cfg.inject]

(***************************************************************************)
(* RelativeTimeFilter and AbsoluteTimeFilter: the same code over a window   *)
(* computed from now or taken from the configuration.  Metadata has no      *)
(* times.                                                                   *)
(***************************************************************************)
RelativeWindow == LET From(d) == IF d = Unset THEN Unset ELSE Now + d
                  IN  [start |-> From(cfg.rel.start), end |-> From(cfg.rel.end), truncate |-> cfg.rel.truncate]
AbsoluteWindow == cfg.abs

Outside(w, r) == /\ r.op # "Metadata"
                 /\ \/ w.start # Unset /\ r.end < w.start
                    \/ w.end # Unset /\ r.start > w.end

\* A truncated QueryRange starts on the first step of the request's own grid
\* that the window allows.
FirstStep(w, r) == LET remainder == (w.start - r.start) % r.step
                   IN  IF remainder > 0 THEN w.start + r.step - remainder ELSE w.start

Truncate(w, r) ==
    IF r.op \in {"Query", "Metadata"} \/ ~w.truncate THEN r
    ELSE [r EXCEPT !.start = IF w.start = Unset \/ @ >= w.start THEN @
                             ELSE IF r.op = "QueryRange" THEN FirstStep(w, r) ELSE w.start,
                   !.end   = IF w.end = Unset \/ @ <= w.end THEN @ ELSE w.end]

(***************************************************************************)
(* The target: a Prometheus, or a Mimir that snaps ranges to its own step   *)
(* grid when the group has align_query_range_with_step.  A sample's value   *)
(* is the time it was taken.                                                *)
(***************************************************************************)
AsOf(s, t) == {u \in s.at : u <= t /\ u > t - Lookback /\ \A v \in s.at : v <= t => v <= u}
PointsAt(s, t) == {[lset |-> s.lset, t |-> t, v |-> u] : u \in AsOf(s, t)}

StepsFrom(start, end, step) == {t \in start..end : (t - start) % step = 0}
Floor(t, step) == t - (t % step)
TargetSteps(r) == IF cfg.align THEN StepsFrom(Floor(r.start, r.step), Floor(r.end, r.step), r.step)
                               ELSE StepsFrom(r.start, r.end, r.step)

Held(r) == {s \in data : Selects(r.sel, s.lset)}
HeldIn(r) == {s \in Held(r) : \E t \in s.at : r.start <= t /\ t <= r.end}

InstantData(r) == UNION {PointsAt(s, r.start) : s \in Held(r)}
RangeData(r) == UNION {UNION {PointsAt(s, t) : t \in TargetSteps(r)} : s \in Held(r)}
RawData(r) == UNION {{[lset |-> s.lset, t |-> t, v |-> t] : t \in {u \in s.at : r.start <= u /\ u <= r.end}} : s \in Held(r)}

TargetData(r) ==
    CASE r.op = "Query" -> InstantData(r)
      [] r.op = "QueryRange" -> RangeData(r)
      [] r.op \in {"GetValue", "QueryExemplars"} -> RawData(r)
      [] r.op = "Series" -> {s.lset : s \in HeldIn(r)}
      [] r.op = "LabelNames" -> UNION {DOMAIN s.lset : s \in HeldIn(r)}
      [] r.op = "LabelValues" -> {s.lset[r.label] : s \in {h \in HeldIn(r) : r.label \in DOMAIN h.lset}}
      [] r.op = "Metadata" -> {n \in {ValueOf(s.lset, Name) : s \in data} : r.metric \in {"", n}}

\* A range query that ends before it starts is a bad request.
BadRequest(r) == r.op = "QueryRange" /\ r.end < r.start

(***************************************************************************)
(* StepAlignClient: the target's epoch grid moved onto the request's.       *)
(***************************************************************************)
GoRem(a, b) == IF a >= 0 THEN a % b ELSE -((-a) % b)
MutShift(r) == IF r.op = "QueryRange" /\ cfg.align THEN GoRem(r.start, r.step) ELSE 0
Shift(r) == IF r.op = "QueryRange" /\ cfg.align THEN (GoRem(r.start, r.step) + r.step) % r.step ELSE 0

Restamped(r, d) == IF Shift(r) = 0 THEN d ELSE {[p EXCEPT !.t = @ + Shift(r)] : p \in d}

(***************************************************************************)
(* LabelFilterClient.Sync: the dynamic labels' values, asked of the stack   *)
(* below the filter over the sync lookback (all of time when it is 0), with *)
(* the static values added and then the excluded ones removed.              *)
(***************************************************************************)
SyncRequest(n) == [op |-> "LabelValues", sel |-> {}, ranged |-> FALSE, label |-> n, metric |-> "", step |-> 1, end |-> Now,
                   start |-> IF cfg.lf.lookback > 0 THEN Now - cfg.lf.lookback ELSE 0]
MutSyncValues(n) == TargetData(Inject(SyncRequest(n)))
SyncValues(n) ==
    LET r == Inject(StripAdded(SyncRequest(n)))
        inner == Truncate(RelativeWindow, r)
        reaches == ~Outside(RelativeWindow, r) /\ ~Outside(AbsoluteWindow, inner)
    IN  Labelled(r, IF reaches THEN TargetData(Truncate(AbsoluteWindow, inner)) ELSE {})

SyncedFilter ==
    LET lf == cfg.lf
        dynamic(n)  == IF n \in lf.dynamic THEN SyncValues(n) ELSE {}
        included(n) == IF n \in DOMAIN lf.include THEN lf.include[n] ELSE {}
        excluded(n) == IF n \in DOMAIN lf.exclude THEN lf.exclude[n] ELSE {}
    IN  [n \in lf.dynamic \cup DOMAIN lf.include |-> (dynamic(n) \cup included(n)) \ excluded(n)]

\* A sync that fails leaves the filter alone, which is a stuttering step.
Sync == /\ cfg.lf # NoFilter
        /\ filter' = SyncedFilter
        /\ seen' = data
        /\ UNCHANGED <<cfg, data, call, req, at, reply>>

\* Scrapes and retention at the target; once it has answered, a change can
\* no longer touch the call.
TargetChanges == /\ reply = NoReply
                 /\ data' \in Datas \ {data}
                 /\ UNCHANGED <<cfg, filter, seen, call, req, at, reply>>

(***************************************************************************)
(* A call on its way down                                                   *)
(***************************************************************************)
\* A call arrives; the next one once it has been answered.
Call == /\ at \in {"idle", "done"}
        /\ call' \in Calls
        /\ req' = call'
        /\ at' = "labelfilter"
        /\ reply' = NoReply
        /\ UNCHANGED <<cfg, data, filter, seen>>

AnsweredBy(who, next) == /\ reply' = Nothing(who)
                         /\ at' = next
                         /\ UNCHANGED <<cfg, data, filter, seen, call, req>>

SendOn(r, next) == /\ req' = r
                   /\ at' = next
                   /\ UNCHANGED <<cfg, data, filter, seen, call, reply>>

FilterDrops == at = "labelfilter" /\ LabelFilterRejects /\ AnsweredBy("labelfilter", "group")
FilterPasses == at = "labelfilter" /\ ~LabelFilterRejects /\ SendOn(req, "relabel")

RelabelDrops == at = "relabel" /\ RelabelRejects /\ AnsweredBy("relabel", "group")
RelabelPasses == at = "relabel" /\ ~RelabelRejects /\ SendOn(RewriteRequest(req), "addlabel")

AddLabelDrops == at = "addlabel" /\ AddLabelRejects /\ AnsweredBy("addlabel", "relabel_up")
AddLabelPanics == at = "addlabel" /\ (\E m \in req.sel : Uncompiled(m)) /\ SendOn(req, "panicked")
AddLabelPasses == at = "addlabel" /\ ~AddLabelRejects /\ (\A m \in req.sel : ~Uncompiled(m)) /\ SendOn(StripAdded(req), "inject")

InjectPasses == at = "inject" /\ SendOn(Inject(req), "relative")

RelativeDrops == at = "relative" /\ Outside(RelativeWindow, req) /\ AnsweredBy("relative", "stepalign")
RelativePasses == at = "relative" /\ ~Outside(RelativeWindow, req) /\ SendOn(Truncate(RelativeWindow, req), "absolute")

AbsoluteDrops == at = "absolute" /\ Outside(AbsoluteWindow, req) /\ AnsweredBy("absolute", "stepalign")
AbsolutePasses == at = "absolute" /\ ~Outside(AbsoluteWindow, req) /\ SendOn(Truncate(AbsoluteWindow, req), "target")

TargetAnswers == /\ at = "target"
                 /\ ~BadRequest(req)
                 /\ reply' = [Nothing("target") EXCEPT !.data = TargetData(req)]
                 /\ at' = "stepalign"
                 /\ UNCHANGED <<cfg, data, filter, seen, call, req>>

\* The target is down, times out or refuses the request.
TargetFails == /\ at = "target"
               /\ reply' = [Nothing("failure") EXCEPT !.err = TRUE]
               /\ at' = "stepalign"
               /\ UNCHANGED <<cfg, data, filter, seen, call, req>>

(***************************************************************************)
(* and its answer on the way up                                             *)
(***************************************************************************)
StepAlignReturns == /\ at = "stepalign"
                    /\ reply' = [reply EXCEPT !.data = Restamped(call, @)]
                    /\ at' = "addlabel_up"
                    /\ UNCHANGED <<cfg, data, filter, seen, call, req>>

AddLabelReturns == /\ at = "addlabel_up"
                   /\ reply' = IF reply.err THEN reply ELSE [reply EXCEPT !.data = Labelled(call, @)]
                   /\ at' = "relabel_up"
                   /\ UNCHANGED <<cfg, data, filter, seen, call, req>>

RelabelReturns == /\ at = "relabel_up"
                  /\ reply' = IF reply.err THEN reply ELSE [reply EXCEPT !.data = Relabelled(call, @)]
                  /\ at' = "group"
                  /\ UNCHANGED <<cfg, data, filter, seen, call, req>>

\* ErrorWrap keeps an error an error; then IgnoreErrorAPI, then
\* DowngradeErrorAPI, which has warnings to put it in except for Metadata and
\* QueryExemplars.
IgnoreError(r) == IF cfg.ignore THEN [r EXCEPT !.err = FALSE] ELSE r
MutDowngradeError(r) == IF cfg.downgrade THEN [r EXCEPT !.err = FALSE] ELSE r
DowngradeError(r) == IF cfg.downgrade
                     THEN [r EXCEPT !.err = FALSE, !.warned = r.err /\ call.op \notin {"Metadata", "QueryExemplars"}]
                     ELSE r

GroupReturns == /\ at = "group"
                /\ reply' = DowngradeError(IgnoreError(reply))
                /\ at' = "done"
                /\ UNCHANGED <<cfg, data, filter, seen, call, req>>

\* The panic is in a goroutine of the MultiAPI above and ends the process.
Panicked == at = "panicked" /\ UNCHANGED vars

-----------------------------------------------------------------------------
Init == /\ cfg \in Configs
        /\ data \in Datas
        /\ filter = NoFilter
        /\ seen = {}
        /\ call = (CHOOSE c \in Calls : TRUE) /\ req = call
        /\ at = "idle"
        /\ reply = NoReply

Next == \/ Sync \/ TargetChanges \/ Call
        \/ FilterDrops \/ FilterPasses \/ RelabelDrops \/ RelabelPasses
        \/ AddLabelDrops \/ AddLabelPanics \/ AddLabelPasses \/ InjectPasses
        \/ RelativeDrops \/ RelativePasses \/ AbsoluteDrops \/ AbsolutePasses
        \/ TargetAnswers \/ TargetFails
        \/ StepAlignReturns \/ AddLabelReturns \/ RelabelReturns \/ GroupReturns
        \/ Panicked

Spec == Init /\ [][Next]_vars

-----------------------------------------------------------------------------
(***************************************************************************)
(* Properties                                                               *)
(***************************************************************************)
\* The target's series as this group presents them: inside the injected
\* scope, under the group's labels, relabelled.
Unscoped(d)  == {[s EXCEPT !.lset = RelabelLabels(AddLabels(@))] : s \in d}
Presented(d) == Unscoped({t \in d : Selects(cfg.inject, t.lset)})
Wanted == {s \in IF call.op = "QueryExemplars" THEN Unscoped(data) ELSE Presented(data) : Selects(call.sel, s.lset)}

\* Labels whose presented values are not the target's own, and among them the
\* dropped ones.
Rules == {cfg.relabel[i] : i \in DOMAIN cfg.relabel}
Dropped == {rule.source : rule \in {x \in Rules : x.action = "labeldrop"}}
Renamed == {rule.target : rule \in {x \in Rules : x.action # "labeldrop"}}
Unrewritten == ~Rewrites(call.op) /\ (NamesIn(call.sel) \cup {call.label}) \cap (Dropped \cup Renamed) # {}

\* A range selector whose matchers the second rewriting changes again: rules
\* that chain or swap labels, or drop the label another one is copied from.
RewrittenTwice == call.ranged /\ RewriteSelector(call) # RewriteMatchers(call.sel)

\* A matcher whose pattern is in the wrong case for a label in one case.
WrongCase(m) ==
    \E rule \in Rules : /\ rule.target = m.name
                        /\ \/ rule.action = "lowercase" /\ \E v \in m.vals : Lower(v) # v
                           \/ rule.action = "uppercase" /\ \E v \in m.vals : Upper(v) # v

InWindow(w, t) == (w.start = Unset \/ w.start <= t) /\ (w.end = Unset \/ t <= w.end)
Requested(t) == call.start <= t /\ t <= call.end
Serves(t) == Requested(t) /\ InWindow(RelativeWindow, t) /\ InWindow(AbsoluteWindow, t)
Steps == StepsFrom(call.start, call.end, call.step)

\* A synced label filter hides no series it could know of: if the series was
\* at the target in the synced time range when Sync last ran, carries the
\* filtered labels with values that are not excluded, and matches the
\* selector, the call is not dropped.  (Sync asks for the target's values: a
\* filter on a relabelled label knows the wrong ones.)
SyncSaw(t) == /\ t <= Now /\ t >= (IF cfg.lf.lookback > 0 THEN Now - cfg.lf.lookback ELSE 0)
              /\ InWindow(RelativeWindow, t) /\ InWindow(AbsoluteWindow, t)
KnownTo(f, s) ==
    \A n \in DOMAIN f :
        /\ n \in DOMAIN s.lset /\ n \in cfg.lf.dynamic \ (Renamed \cup Dropped)
        /\ n \in DOMAIN cfg.lf.exclude => s.lset[n] \notin cfg.lf.exclude[n]
FilterHidesNothingKnown ==
    filter # NoFilter /\ at = "labelfilter" =>
        \A s \in Presented(seen) :
            KnownTo(filter, s) /\ Selects(call.sel, s.lset) /\ (\E t \in s.at : SyncSaw(t)) => ~LabelFilterRejects

\* An answer holds only what was asked for: every series matches the caller's
\* selector under the labels it is returned with and lies in the injected
\* scope, and every sample is one the target has for the requested times.
\* Exempt are the values of a label the group adds itself (the target's own,
\* overwritten values are reported beside them), calls that are not rewritten
\* on relabelled labels, range selectors whose matchers the second rewriting
\* changes again, and matchers in the wrong case for a label that is
\* relabelled to one case, which are matched in any.
AnswerIsAsked ==
    at = "done" /\ ~Unrewritten /\ ~RewrittenTwice /\ (\A m \in call.sel : ~WrongCase(m)) =>
        CASE call.op \in SeriesOps ->
               \A p \in reply.data : \E s \in Wanted :
                   /\ s.lset = p.lset /\ p.v \in s.at
                   /\ call.start - Shift(call) - Lookback < p.v /\ p.v <= call.end
                   /\ call.op \in {"GetValue", "QueryExemplars"} => Requested(p.t)
          [] call.op = "Series" ->
               \A l \in reply.data : \E s \in Wanted : s.lset = l /\ \E t \in s.at : Requested(t)
          [] call.op = "LabelNames" ->
               reply.data \subseteq DOMAIN RelabelLabels(cfg.add) \cup UNION {DOMAIN s.lset : s \in Wanted}
          [] call.op = "LabelValues" /\ call.label \notin DOMAIN cfg.add ->
               reply.data \subseteq {ValueOf(s.lset, call.label) : s \in Wanted}
          [] OTHER -> TRUE

\* Nothing the group should serve is missing: when neither the label filter
\* nor a failure answered, every matching series is there with every sample
\* in the part of the requested range that the time windows allow, whichever
\* windows, injected matchers and added labels the request went through.
\* (An exemplar query keeps its matchers on added labels, which the target
\* does not have.)  Exempt are calls that are not rewritten on relabelled
\* labels, range selectors whose matchers the second rewriting changes again,
\* matchers in the wrong case, and matchers on a dropped label, which find
\* nothing or what never had it.
AnswerIsComplete ==
    /\ at = "done" /\ reply.from \notin {"labelfilter", "failure"}
    /\ ~Unrewritten /\ ~RewrittenTwice /\ NamesIn(call.sel) \cap Dropped = {} /\ (\A m \in call.sel : ~WrongCase(m))
    =>  \A s \in Wanted :
            CASE call.op = "Query" ->
                   Serves(call.start) => \A u \in AsOf(s, call.start) : [lset |-> s.lset, t |-> call.start, v |-> u] \in reply.data
              [] call.op = "QueryRange" ->
                   \A t \in {u \in Steps : Serves(u)} : \A u \in AsOf(s, t - Shift(call)) :
                       [lset |-> s.lset, t |-> t, v |-> u] \in reply.data
              [] call.op = "GetValue" \/ (call.op = "QueryExemplars" /\ NamesIn(call.sel) \cap DOMAIN cfg.add = {}) ->
                   \A t \in s.at : Serves(t) => [lset |-> s.lset, t |-> t, v |-> t] \in reply.data
              [] call.op = "Series" ->
                   (\E t \in s.at : Serves(t)) => s.lset \in reply.data
              [] call.op = "LabelNames" ->
                   (\E t \in s.at : Serves(t)) => DOMAIN s.lset \subseteq reply.data
              [] call.op = "LabelValues" ->
                   (\E t \in s.at : Serves(t)) /\ call.label \in DOMAIN s.lset => s.lset[call.label] \in reply.data
              [] OTHER -> TRUE

\* A range answer is on the grid the engine will look it up on, and causal:
\* every sample is at start + j*step of the caller's request, not before its
\* start, and reports a value no later than that.
RangeOnRequestGrid ==
    at = "done" /\ call.op = "QueryRange" =>
        \A p \in reply.data : p.t >= call.start /\ (p.t - call.start) % call.step = 0 /\ p.v <= p.t

\* A target that failed is never taken for one without data, unless the group
\* is told to ignore errors: the caller gets the error or, from a group that
\* downgrades errors, a warning.  (Metadata and QueryExemplars have no
\* warnings to carry it.)
FailureIsVisible ==
    /\ at = "done" /\ reply.from = "failure" /\ ~cfg.ignore
    /\ cfg.downgrade => call.op \notin {"Metadata", "QueryExemplars"}
    => reply.err \/ reply.warned
=============================================================================
