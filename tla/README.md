# Verification of promxy

promxy is a proxy in front of many Prometheus servers that answers PromQL queries as if it were one Prometheus.
These modules model the parts of it that carry its logic: how a call is scattered over the downstreams and gathered
again, how a server group follows service discovery, how a configuration is replaced while queries run, how samples of
replicas are merged, how queries are taken apart and pushed down, what the stack of clients in front of a target does to a
call, how the main program reloads and stops, and how alerts are restored after a restart.  Every definition is
translated from the code; `PROJECT.json` maps each to its lines.  TLC checks the modules on small instances, and TLAPS
proves their safety properties for every value of the constants, those of the pushdown for the classes of queries that
section 4 names.

## 1. Inventory

| component (source) | state | operations | how it interacts |
|---|---|---|---|
| **MultiAPI** `pkg/promclient/multi_api.go` | per call: result channel, counters per HA key, slots, error picker | Query, QueryRange, Series, GetValue, LabelNames, LabelValues, Metadata, QueryExemplars, MetadataOnePerKey | one goroutine per downstream API; used inside every server group (one answer per HA key needed) and once over all server groups (all needed) |
| **ServerGroup** `pkg/servergroup/servergroup.go` | config, HTTP client, current `ServerGroupState`, `Ready` channel | ApplyConfig, Sync, loadTargetGroupMap, RoundTrip, Cancel | fed by the discovery manager; read by queries and by the histogram cache |
| **Histogram cache** `pkg/servergroup/histogram_cache.go` | last set of histogram metric names | start, run, refresh | fetches through the group's current state; read by NodeReplacer |
| **LabelFilterClient** `pkg/promclient/labelfilter.go` | label → known values, or never synced | NewLabelFilterClient, syncLoop, Sync, the API methods | lives in a `ServerGroupState`; asks the clients below it |
| **Client stack** `metric_relabel.go`, `label.go`, `inject_matchers.go`, `timefilter.go`, `step_align.go`, `error_wrap.go`, `ignore_error.go`, `downgrade_error.go` | none of their own | the API methods | built by loadTargetGroupMap, one wrapper around the other |
| **Sample merge** `pkg/promhttputil/merge.go` | none | MergeSampleStream, mergeHistogramSamples, the dynamic buffer | called for each series that several replicas answer, by the fold of `pkg/promclient/merge_seriesset.go` |
| **ProxyStorage** `pkg/proxystorage/proxy.go` | current `proxyStorageState`: groups, client, remote_write storage | ApplyConfig, Ready, Cancel, Appender | called by main on start and reload; queries read the current state |
| **NodeReplacer** `pkg/proxystorage/proxy.go`, `histogram_routing.go` | the expression tree of one query | one visit per node, in parallel for siblings | called by the engine before evaluation; sends subtrees through the MultiAPI |
| **Main** `cmd/promxy/main.go` | signal channel of one, the list of reloadables, the success gauge | startup, reload by signal or HTTP, shutdown | drives ProxyStorage, the rule and the notifier manager; HTTP handlers of `/-/reload` wait for it |
| **Alert backfill** `pkg/alertbackfill` | per querier: a copy of the rule groups, query results by rule | Querier, Select | called by a rule group that restores its alerts, on the group's goroutine; calls back into the rule manager |
| Querier, exemplar querier, remote_write_exporter, HTTP clients, config, federation, templates, logging, server | see `PROJECT.json` | | |

What is hard here, and what each part must therefore guarantee:

* *Concurrency*: results arrive in any order, early returns leave goroutines behind, a context may end at any moment
  (MultiAPI must still decide the quorum exactly, merge and report independently of the order, and leak nothing);
  discovery, ApplyConfig, sync loops, the cache and Cancel run side by side (a published state must be live, loops must
  belong to a state, the group must converge); sibling subtrees of a query are rewritten in parallel; signals, HTTP
  requests, rule evaluations and file edits hit main while it reloads (what it reports must be true, and nobody may wait
  for ever); the rule manager waits for groups that may be waiting for it.
* *Failure*: targets that cannot be built, dead targets, reloads failing in any of their steps (nothing published may be
  broken, nothing may be left behind), downstream errors that are ignored or downgraded (a failure must not look like an
  empty answer), a failed cache refresh (the snapshot must survive), components that refuse a config the others took, a
  restart in the middle of an alert's `for:`.
* *Ordering*: publication before cancellation, client before config, wrappers one below the other, answers merged by
  position and not by arrival.
* *Boundaries*: the comparisons of the merge loops, the step grids of truncated and aligned ranges, offsets and `@`,
  staleness and lookback.

The complete list, line by line, with the properties that cover each entry, is `hazards` in `PROJECT.json`.

## 2. Modules and how they correspond to the code

**QuorumCall** is the abstract specification of one call: given which downstreams answer, it succeeds exactly when every
HA key has `required` answering members, merging all of them; otherwise it fails with the error of a downstream that did
fail; once the context is done it may also be abandoned.

**MultiAPI** is the code: `Scatter` (the spawn loop), one worker per API (`ApiAnswers`, `ApiInterrupted`, `Send` into
the buffered channel), the gather loop (`GatherSuccess`, `GatherError`, `GatherFail` for the early return,
`GatherCtxDone`), and `Finish` with the check and the merge.  `NormalizePromError` and `ErrsAdd` are the classification
and ranking of errors.  Operations that merge on arrival and those that park answers in slots are told apart; the loop
over the slots after the gathering (`InApiOrder`, `MetadataOf`) is a recursive function over the positions.
**MultiAPIProofs** holds the proofs.  The proofs of the other components are in `<module>Proofs`.

**ServerGroup** has one action per effect on shared state: the two stores of ApplyConfig, the vendored discovery manager
(what it sends and when), the Sync goroutine (`Receive`, `Load`, `SkipTarget`, `BuildTarget`, `RejectTarget`,
`StoreState`, `RetireState`, `Retry`, `SyncExits`), the label-filter loops of every state, the histogram cache, a
RoundTrip that reads config and client separately, and Cancel.  States and their contexts are members of `Gens`; a
cancelled state without loops, which the cache is not asking either, is garbage and its name reused.  A refresh of the
cache is two steps: `CacheRefresh` takes the published state, `CacheFetched` is what MetadataOnePerKey returns for that
state, which may have been replaced and cancelled meanwhile.  It takes the first member that returns no error, and which
one that is depends on a rotating counter and on who is up, so it is a choice: a member that answers (`Answered`), one
whose label filter refuses and returns nothing without an error (`Refused`), or, when all return errors or one hangs and
uses up the 30 s granted to all of them (`histogram_cache.go:96`), an error, after which the snapshot stays.  Production
code calls ApplyConfig once per group; the model allows more because the code claims to support it.

**ProxyStorage** follows ApplyConfig through creating the groups, cancelling them after a failure, the remote_write
branches (reuse, refusal, new storage, failing directory, failing WAL, the panic of a repeated registration), Ready,
the store of the state and the cancelling of the old one.  Which steps may fail is the constant `Faults`.

**Main** extends ProxyStorage and composes it with the rest of the program.  `LoadConfig` enters ApplyConfig, whose
actions are then taken as `InStorage`; `LeaveStorage`, `ApplyBeforeRules`, `LoadRules`, `UpdateRules`/`RulesRefused` and
`FinishReload` are the loop of reloadConfig, `EndReload` its deferred function and its caller.  `TakeRequest`, `TakeHup`
and `TakeTerm` are the select; `StopRules`, `ServerDown` and `ExitProcess` the shutdown.  The components before and after
the rules take or refuse a config without waiting for anyone, so each of the two stretches is one step.  A rule group
(`TakeAppender`, `CommitSamples`) holds an appender of the state it found.  Config contents are records: does the file
parse, how many groups, remote_write or not, which rules.  `applied` remembers which version each component runs with.

**AlertBackfill** begins where a rule group has done its first evaluation after a restart.  `Evaluate` is the second one,
`RestoreForState` takes the time, `Querier` is promxy's (it needs the rule manager's mutex), `Select` is promxy's for one
rule, with `FindGroupAndAlert`, `Window`, the result cache and `GenerateAlertStateMatrix`; what the group does with the
answer (`RestoredActiveAt`) and the manager (`Update`, `Stop`) are the vendored rules package.  Time advances between any
two steps; `TicksPerSecond` makes the rounding to seconds visible.  One group's goroutine is followed (`self`): each has a
querier of its own, and the groups meet in the manager only.  A series is the set of its timestamps; `ActiveAts` looks at
the greatest earlier one where the loop looks at the previous sample.

**SampleMerge** is MergeSampleStream one loop iteration at a time: `LoadBefore` appends a sample of b that comes before
a; `TakeFirst`, `LookAtGap`, `FillGap` and `TakeNext` are the loop over a with the search in b inside it; `EndOfA` and
`LoadAfter` what b has after a; `Return` the end, and `NextReplica` the fold of mergeAntiAffinity over the replicas of a
series.  The dynamic estimate of the buffer and prefer_max are operators.  The loop for histograms is the same without
prefer_max.

**PromQL** is a small PromQL: trees as functions from paths to nodes, and `Eval`, what the engine computes.  The
recursion of the engine is a recursive function, each node computed by `ValueOf` from the nodes below it.  **Pushdown**
is NodeReplacer over it: `todo` holds the visits to make, `sent` the requests under way; `Blocked` collects the early
returns before the switch, each case of the switch is an action, and `Answer` replaces the node or, if the answer holds
histograms, leaves the subtree as the request left it.  Server groups differ in the label `sg` they add.  `Exact`
compares the engine's answer for the replaced tree with `Eval` of the original query over all series.  The times of a
subquery count from the year 1 in `SubEvalStmt` and from the epoch in `PromQL`; the constant `YearOne` is the distance.

**TargetClient** sends a call down the stack (`FilterDrops`/`FilterPasses`, `Relabel…`, `AddLabel…`, `InjectPasses`,
`Relative…`, `Absolute…`), lets the target answer or fail, and brings the answer back (`StepAlignReturns`,
`AddLabelReturns`, `RelabelReturns`, `GroupReturns`), while `Sync` reloads the filter and `TargetChanges` changes the
series.  A selector is a set of matchers; a matcher carries both what it accepts and what `SetMatches()` says of it,
because the filter uses the latter. Relabel rules act on the labels of answers in order (`RelabelLabels`) and on the
matchers of requests in reverse (`RewriteMatchers`); `fold` is the `(?i)` the rewriting of a lowercase or uppercase rule
puts in front of a pattern.  A call with a range selector (`ranged`) is rewritten twice, as the visitor does
(`RewriteSelector`).

`MC*` modules only give constants their values.

## 3. Runs

| run | question | bounds, and why they suffice |
|---|---|---|
| `multiapi_quorum` | does the gather loop implement QuorumCall, keep the quorum reachable and keep the inductive invariant (of which `TypeOK` is a conjunct)? does the caller return, do the goroutines exit? | 3 APIs, 2 keys, every requiredCount 0–3: a key with one and a key with two members, buckets that are too small, and 0. Safety proved for all values. |
| `multiapi_answers` | is the answer, and the class of the error, independent of arrival? is an interruption blamed on the storage? | 3 APIs of one key, two names, an error of each rank, an operation of each kind of merge |
| `servergroup_safety` | published states live and usable once ready, loops owned, filters retried, requests see a client, snapshots kept | two replicas that come together and go up and down one by one, a map with an unusable target, the four filter modes (abort with a filter on the metric name and a sync interval, closed with the cache), two ApplyConfigs, two states at a time, one request; states and replicas are symmetric. Safety proved for all values, any number of states included. |
| `servergroup_live` | convergence to discovery, the cache, shutdown | a map with a dropped target and one that does not load, a fail-closed filter with the cache and a filter on the metric name, two states, no symmetry |
| `main_reload` | is a reported success true of every component, does an answered `/-/reload` hold, do recording rules have a storage? does what is published work, is nothing stray left, does an evaluation keep its appender? does a SIGHUP take effect, is every request answered, does SIGTERM end promxy? | the startup reload and two more, two versions of the file out of four contents (one that does not parse; recording rules with and without remote_write; alerting rules), up to two groups, two signals or requests, one HTTP client, faults in the groups, the storage, its directory and the rules; a signal arrives during a reload, another while one waits |
| `alertbackfill` | is an alert credited only with time that was observed, does one that held keep firing, do reloads of the rules end? | two groups, three rules of which two share a name, intervals 2 and 3 with `for:` 4, series with one gap anywhere, two ticks per second, ten ticks, one reload and a stop |
| `samplemerge_merge` | the merge equals the gap fill in strict order; no replica is forgotten by the fold; the dynamic buffer does not double a series: it fills a gap of the longer stream only if most of its gaps are shorter | all hole patterns of two replicas over 6 units with buffers 0–3 and over 7 units with the dynamic one, of three replicas over 5 units, all patterns of two values over 4 units, regular streams of 5 intervals and 14 phases |
| `pushdown_exact` | the pushed-down query is exact; histograms kept | two groups, up to two series each, seven points in time, lookback 2, steps 1 and 2, subqueries of steps 1, 2 and 3; a unit of time stands for 256 s, with which steps of 1 and 3 have the same multiples since the year 1 and since the epoch and those of 2 do not; about 12000 queries |
| `targetclient_stack` | answers asked for, complete, on the grid, failures visible; the filter hides nothing it knows | four series, 12 configurations that combine the wrappers (four with relabel rules that chain, swap, drop and change case), instant and range selectors, ranges before, across and beyond the windows and the epoch |
| `multiapi_nil_metadata` (violation) | can the merge of metadata write to a nil map? | three groups; see section 6 |
| `proxystorage_stray_groups` (violation) | does a failure anywhere cancel the new state? | one fault; see section 6 |
| `pushdown_literal` (violation) | is an aggregation pushed down with a literal exact? | one query; see section 6 |

Deadlock is checked except in the pushdown runs, where a walk that is over takes no further step, and in `alertbackfill`,
where promxy stops, or is stuck as section 6 describes.  MultiAPI, Main and SampleMerge have an explicit stuttering action
for the end instead.

### Fairness

* MultiAPI: the caller's loop runs, and a goroutine with a result sends it.  Downstreams owe nothing: they need not
  answer, nor notice the end of their context, except that `GoroutinesExit` is about calls whose API calls returned or
  whose HTTP client obeys its context.
* ServerGroup: the goroutines run; calls to targets return (HTTP timeouts).  `SF` on the exits: Go's `select` chooses
  uniformly among the ready cases, so a context that is done is not passed over for ever by a ticker.  Discovery and the
  state of targets are unfair: they may change or stop at any time.
* Main: main's goroutine runs; an evaluation ends (queries have a timeout); a running group becomes ready.  The code waits
  for the last without a timeout, so it is an assumption of `HupTakesEffect`, `RequestsAnswered` and `TermEnds`;
  `FollowsDiscovery` says when it is met.  Signals, requests, edits and evaluations need not happen.
* AlertBackfill: the clock, the group's goroutine and the manager's goroutines run (a query ends with the engine's
  timeout).  Nobody has to reload or stop.

## 4. Proofs

All are about every value of the constants under the named ASSUMEs of the modules, which TLC evaluates on each run.  They
state the types of the constants and little else: distinct names (`ClientsAssumption`: an HTTP client is not called
"boot" or "hup"), a lookback and rule intervals that are not zero, an instant query with equal start and end, finite label
sets and series, streams whose samples are ordered in time, rule groups with a rule, `for:` in whole seconds, more reloads
than requests for one (`ReloadsSuffice`, a relation between two bounds), and for a query (`CasesAssumption`) what the
parser and the storage guarantee: it selects something, its selectors carry no data yet, the series have floats or
histograms and not yet the label a group adds; staleness markers are left out there, and the horizon is beyond every time
looked up.  An invariant of a run is
seldom inductive; for each component the table says what had to be added, and why.

| module | theorems | the inductive invariant |
|---|---|---|
| MultiAPIProofs | `TypeCorrect`, `QuorumReachable`, `Refinement`, `HealthyNotBlamed`, `AnswerIndependentOfArrival`, `StatusOfServerGroup` | `InductiveInvariant`: whether the early-return test is right depends on what the two counters count.  `Bookkeeping` says it: `successMap[k]` is the number of members of `k` in a slot, `outstandingRequests[k]` the number not received yet, a result is in the channel or received only if its goroutine is done, and its reply is the downstream's answer unless the context ended.  For what is returned, `AnswerInvariant`: the picker holds an error no other received one outranks (`PickedBest`), an accumulated value is the union of what was received (`AccumulatedUnion`), replies are honest. |
| ServerGroupProofs | `StateLive`, `LoopsNotOrphaned`, `FiltersRetried`, `RequestsSeeClient`, `SnapshotsKept` | `GroupInvariant`: a state that is not garbage is published, or in the hand of the Sync goroutine that builds or retires it (`StatesInHand`), loops and contexts follow (`LiveStates`), a state holds usable targets only and a cancelled one nothing unless the cache still asks it (`StateContents`), the cache holds a state exactly while it fetches (`FetchUnderWay`); the client is stored before the config (`ClientFirst`), and what a request has read so far is no newer than what is published (`RequestUnderWay`). |
| ProxyStorageProofs | `StateServes`, `StorageNotStray`, `GroupsCancelled` | `StorageInvariant`: what the ApplyConfig in progress holds at each `pc` (`CallInProgress`, `GroupsSoFar`, `StorageInHand`), so that everything open or running is accounted for (`OpenStorages`, `RunningGroups`). |
| MainProofs | `SuccessTellsTheTruth`, `AnswersHold`, `RecordingRulesHaveStorage`, `AppenderKept`, `StorageUnderMain` | `MainInvariant`: StorageInvariant, and which version each component has at each point of reloadConfig as long as nothing failed (`AppliedSoFar`), that versions only grow (`AppliedWasRead`), for whom the reload is made (`RequestInService`), and that the storage's config is the version's (`StorageConfig`). |
| TargetClientProofs | `RangesOnGrid`, `FailuresVisible`, `FilterHidesNothing`, `OnlyAsked`, `NothingMissing` | `StackInvariant`, for times and failures: the request only narrows and stays on its grid (`TimesNarrowed`), points are on the request's grid once aligned (`PointsOnGrid`), a failure stays an error up to the group's wrappers.  The arithmetic of grids (`Shift`, `FirstStep`, with negative numbers) is in lemmas.  `ServedInvariant`, for series and samples: what the windows cut off is outside of them (`TimesCovered`), a series the target holds matches the request exactly if it matches the call once labelled (`SelectorKept`), the answer on its way up is what the target held for that request (`AnswerCarried`), the filter has every value of its labels seen at the last sync (`FilterKnows`). |
| SampleMergeProofs | `MergeFillsGaps`, `ReplicasCovered`, `DynamicFillsHolesOnly` | `MergeInvariant`: where the loops stand in a and b (`Positions`) and what that says of the merged stream: b's samples before a are in it first (`LoadingBefore`, `BeforeLoaded`), it ends with the sample last taken (`LastMerged`), each of its samples comes from a, or from b and lies in a gap (`Explained`), every sample of a behind the position is in it (`ATaken`), every sample of b behind it was taken or is too close to its neighbours (`BDecided`); the buffer in use is the one chosen at the start (`BufferChosen`), and the replicas folded so far are covered by the stream in hand (`CoveredInHand`). |
| AlertBackfillProofs | `CreditIsObserved`, `HeldAlertsKeepFiring` | `BackfillInvariant`: results belong to the rule they are kept under and to the time since the restoration began (`ResultsKept`), a restored rule has its result already, so that a later rule that fits the same rule does not replace it (`ResultsUsed`), alerts not restored yet began after the restart (`NotYetRestored`). |
| PushdownProofs | `Recombined`, `LiteralRecombined`, `RecognisedHistogramsKept`, `PlainQueriesExact` | `RecognisedInvariant`: nothing of a recognised query is sent or replaced, and the walk gets past its root only if no group would lose histograms (`LeftAlone`; that every node below the root is blocked too needs that each holds a selector, or is reached by a path through the call that gave the query away).  `PlainInvariant`: a plain query is about to be sent, on its way with the request its root determines, or replaced by that request's answer, when at most the fetched selector is left to visit (`PlainWalk`). |

How the longer arguments go:

* `Refinement`: a step of the code is a stutter of QuorumCall except the constructor's refusal, the early return
  (`FailedBucket`: a bucket that cannot reach the count has too few answering members), the end of the loop
  (`CompleteCall`: all are received, so the slots are all the good ones), and the two ends of the context.
* `NothingMissing` and `OnlyAsked` compare sets of samples: each is carried elementwise through the labels that are added,
  the windows and the alignment.  They, and `FilterHidesNothing`, are stated for groups without metric relabelling
  (`NoRules`): what a list of rules does to labels and matchers is a fold, which the prover cannot do induction over; TLC
  checks the properties with rules too.  `RangesOnGrid` and `FailuresVisible` have no such restriction.
* `AnswerIndependentOfArrival` holds for every operation.  For those that merge on arrival the accumulated value is a
  union; for those that walk the slots, the walk passes over the empty ones, so it depends on which slots are filled and
  not on when.  The walk is a recursive function: one that satisfies the recursion exists (`WalkExists`), and what it
  computes (`OrderOfApis`, `FirstApiWins`) follows from the least position at which it would be wrong (`Least`, from the
  library's `WFMin`).
* `MergeFillsGaps` compares what the loops produce with a declarative gap fill: the samples of a, and those of b that
  keep the distance of the buffer to both neighbours.  The invariant says at each iteration which part of that set is
  merged already.  `DynamicFillsHolesOnly` needs what a median is: at least half of the gaps are no shorter than it and
  half no longer (`TwoHalves`), so a gap wider than the buffer computed from it has more than half of the gaps below it.
* `Recombined`: aggregating the groups' aggregates gives the aggregate of all series.  The grouping key of a labelled
  key is the key of the labelled series (`KeyOfKey`), so the members of a group of answers are, server group by server
  group, the members of a group of series; the largest of all is the largest of the largest, and a sum over all is the
  sum of the sums (`TotalFibres`, by a smallest set of server groups for which it would not be).
* `LiteralRecombined`: an operator with a literal that keeps what the aggregation prefers (`KeepsOrder`) may be applied
  before or after it (`LiteralCommutes`), so aggregating again the groups' answers to `max(x) > n` is exact.  The proof
  showed which operators those are: what it needs is the complement of `LiteralReorders`, the multiplication of a `topk`
  by zero included (section 6).
* `RecognisedHistogramsKept` is about any expression: a metric the caches list, or a histogram-only function at the root.
* `PlainQueriesExact` is about a selector or a `*_over_time` function of its range, alone or under one of `sum`, `min`,
  `max`, `topk`, `bottomk`, `group`, `count`, or about one of the operators `*`, `<`, `>` with a literal over a selector
  or a `min`, `max`, `topk`, `bottomk` (`PlainQuery`), with any offset or `@` time, range, grouping, literal and steps. 
  The engine's recursion is unfolded for such trees (`EvalInner`, `EvalOverInner`, `EvalLiteral`); the value over all
  series is put together from the values of the groups (`InnerByGroup`, `Recombined`, `LiteralRecombined`); a request
  without its offset at a moved time has the value of the one with it (`ShiftedValue`), and one with `@` has the same
  value at all times (`PinnedValue`); what is read back from the answer, through the lookback, is the answer of the very
  step (`ReadBack`) because the steps are further apart than the lookback, the gaps are marked stale, or there are none
  (`Steady`).  Of `KnownInexact` this last argument needs that nothing bleeds, and the operators that they keep the
  order.
* `StatusOfServerGroup` is about the MultiAPI inside a group (one key, one answer needed); over server groups
  the first failure to arrive is reported (section 6).
* `CreditIsObserved` shows that the loop of `GenerateAlertStateMatrix`, a recursive function, computes the start of the
  run each sample is in (`ActiveSince`): a function that satisfies the recursion exists, and one that differed would
  differ at a least step (`Least`, from the library's `WFMin`).  `LastRunIs` connects that with the reference
  definition, and `CreditedWithRun` goes through the three ways RestoreForState sets ActiveAt.  For
  `HeldAlertsKeepFiring` the window must be longer than `for:`, which is what the extra interval of the query is for
  (`WindowSteps`), also when the interval does not divide it.  The attempt showed that the property needs its last
  condition: a second series with the alert's labels in the window may take its place in the answer.

Each inductive invariant was checked by TLC on the runs' instances before it was proved, except `PlainInvariant`, which
ranges over all expressions (TLC checks what follows from it, `PushdownExact`).  Only model-checked:

* every liveness property and `UpdateReturns` (the prover has no fairness and no ENABLED);
* the exactness of the pushdown for queries that are not plain: the rewriting of `avg`, operators over vectors,
  subqueries, `scalar`, `sort` and `count_values`, aggregations under something else; and `HistogramsKept` for queries
  found to hold histograms by their answer.  There the value of a tree after a replacement somewhere below its root has
  to be compared with that before, which is an induction over the tree;
* what a chain of relabel rules does to labels and matchers.  `AnswerIsAsked` and `AnswerIsComplete` do not hold for every
  chain (a `lowercase` of a into b and a `replace` of b into c accept an upper-case matcher on c; a `labeldrop` before a
  `replace` of the dropped label finds what never had it), so a theorem would need a class of rules.

## 5. Not modelled

* MetadataOnePerKey one member at a time: it is one step of the cache's fetch (section 2), the group's clients having one
  HA key.
* The LookbackDelta of a selector: NodeReplacer sets it on a selector it sends, restores it when the answer is thrown away
  for its histograms (`proxy.go:981`), but not where the selector is compared with a literal (`proxy.go:1080`); the
  engine then looks back less than one step for that selector.  In the model the lookback is one constant.
* `RewriteLabels` (grouping labels under relabel rules) and the refusal of vector matching in MetricsRelabelVisitor:
  TargetClient's calls are selectors, Pushdown's queries have no relabelling.
* The grouping of series by labels in the series-set merge (the library's k-way merge), and the conversions around it.
* Configuration parsing, request encoding and JSON decoding, formatting, the federation endpoint, alert templates,
  logging, the HTTP server, the wrappers that round times or recover panics: no state, and no decisions the properties
  are about.  The settings are constants of the modules.
* remote_write_exporter, a separate debugging program.
* In Pushdown: `avg` grouped by the metric name (all series have one), literals on the left, `@` on subqueries.  In
  TargetClient: several `match[]` in one call, which the callers inside promxy never send.  In Main: the delivery of
  alerts, `--http.shutdown-timeout=0` (the constant exists, the run has a positive timeout).  In AlertBackfill: the
  evaluations after the restoration, `keep_firing_for`, fractional seconds in `for:`, templated rule labels.

## 6. Deviations met while modelling

Shown by a run, with the quoted line in `findings`:

* `multi_api.go:685`: metadata of a group with `ignore_error` that failed is a nil map; if it is the first answer, the
  merge writes to it.
* `proxy.go:174`: a reload that fails in its remote_write part leaves its server groups running.
* `proxy.go:1141`: `max(foo) < n` (and `min`, `topk`, `bottomk` with `>` or a negative factor, `topk` and `bottomk` with the
  factor 0, which makes a tie of all answers) is answered from the groups the comparison left.

Seen in the code, in the models as it is, and exempted by name where a property would otherwise fail:

* `multi_api.go:462`: over server groups (all required) the first failure to arrive is the one reported.
* `histogram_cache.go:98`: a label filter that refuses Metadata (`labelfilter.go:390`) returns nothing and no error, and
  the cache stores an empty set over a good snapshot, although a failed refresh keeps it.  So it is after a reload of a
  group with `on_sync_error: closed` while its targets are down; under a filter on `__name__` the cache stays empty for
  ever, the metric asked for being "".  `SnapshotKept` and `CacheFollowsState` allow this and nothing else.
* `servergroup.go:301`: label-filter loops of the last state survive Cancel of the group.
* `proxy.go:89`: a group that could not be created is cancelled through a nil pointer.
* `proxy.go:191`: adding remote_write a second time in one process registers metrics twice and panics.
* `proxy.go:102` says the temporary WAL directory is "removed on shutdown"; main returns without closing the storage.
* `proxy.go:369`: when the startup reload fails in the storage and its rules are already running, an evaluation before
  the process ends calls a nil appendable and panics (`NilAppender`).
* `main.go:389` says "check for any recording rules, if we find any lets log a fatal and stop"; on a reload the rules are
  already running when they are refused, and go on running.
* `main.go:101` describes `--web.enable-lifecycle` as "Enable shutdown and reload via HTTP request."; main selects on the
  reload channel only, nothing reads the quit channel of the web handler.
* `main.go:172`: a SIGTERM that arrives while a SIGHUP waits is dropped.  `TermEnds` is about a SIGTERM that was queued.
* `main.go:589`: with `--http.shutdown-timeout=0`, a `/-/reload` request that waits when SIGTERM is taken is waited for,
  and nobody answers it.
* `main.go:580`: the notifier stops before the rules do; alerts of the last evaluations are not sent.
* `backfill.go:55`: Querier calls the rule manager's RuleGroups, which takes its mutex, on the goroutine of a group.  If
  Manager.Update (a reload that changes that group) or Manager.Stop (SIGTERM) has the mutex when the group, after its
  second evaluation, reaches Querier, each waits for the other for ever, and main with them.  `UpdateReturns` names this
  state `Wedged` and shows that it is the only one a reload or a stop does not get out of.
* AlertBackfill: a series that ends before the restart gets no staleness marker, so an alert that cleared and came back
  is credited with its last run; the first rule of a name whose labels fit is used, which may be another rule's; a
  downstream that has the series of some alerts of a rule keeps the others from being recreated; a group changed by a
  reload before its restoration is never restored.
* `merge.go:174`: prefer_max does not look at the first merged sample.
* Pushdown (`KnownInexact`): `count_values` with `without` or with an offset; `scalar` of several groups; functions of
  the evaluation time over a shifted selector; subqueries with an offset (`proxy.go:1037` uses `n.Offset`, which is
  still zero); subqueries whose step does not divide the time from the year 1 to the epoch, such as 7m or 11m
  (`SubqueryOffGrid`: `proxy.go:1050` aligns the times it fetches with `time.Truncate`, the engine looks up multiples of
  the step since the epoch and finds older points, or none within the lookback); steps closer than the lookback without
  an answer, for nodes that are not functions.  A query found to hold histograms only by its answer loses its offset.
* TargetClient: a range truncated past its end is sent and refused; series without a filtered label are hidden by
  matchers that accept the empty value; exemplar queries keep matchers on added labels and are not scoped by injected
  matchers; the values of an added label include those it overwrites; downgrade_error drops errors of Metadata and
  QueryExemplars.
* Metric relabelling: matchers on a dropped label find nothing, or what never had it; matchers in the wrong case for a
  label that is put in one case match in any; LabelValues, Metadata and QueryExemplars are sent on without rewriting; the
  matchers of a range selector are rewritten twice (`metric_relabel.go:387` rewrites the selector inside and the walk then
  visits it), which asks for the wrong label when rules chain or swap labels and finds nothing when the label a `replace`
  copies from is dropped, although `config.yaml:165` shows rules compounded (`RewrittenTwice`); the
  label filter above is synced with values from before the relabelling; a rewritten pattern is not compiled
  (`metric_relabel.go:465`), so GetValue with a regular expression on a label that is rewritten to an added one
  dereferences nil (`AddLabelPanics`).  An equality value is not escaped when it becomes a pattern; the values of the
  model have no special characters.

## 7. Plan

Built in this order, the most central behaviour first: QuorumCall and MultiAPI with their proofs; ServerGroup;
ProxyStorage; SampleMerge; PromQL and Pushdown; TargetClient; Main over ProxyStorage; metric relabelling in TargetClient;
the fold over replicas in SampleMerge; AlertBackfill; then the proofs of section 4.  What is left:

1. **Pushdown**: `PlainQueriesExact` for `avg`, whose two requests are visited in
   parallel and stay apart; and the fallback of a query found to hold histograms.
2. **TargetClient** with `replace` rules only: that `RewriteMatchers` and `RelabelLabels` agree rule by rule, by a least
   rule at which they do not, which would lift `NoRules` to that class.
3. **AlertBackfill**: who holds the manager's mutex while a group waits, the safety part of `UpdateReturns`.
