---------------------------- MODULE AlertBackfill ----------------------------
(***************************************************************************)
(* pkg/alertbackfill: after a restart a rule group asks, rule by rule, for *)
(* the ALERTS_FOR_STATE series of its alerts; when no downstream has them  *)
(* promxy recreates them from the rule's own query.  The groups and the    *)
(* manager that stops them are Prometheus' rules package: external, and    *)
(* modelled as far as they call promxy and wait for it.                    *)
(*                                                                         *)
(* A state begins where every group has done its first evaluation, at      *)
(* Boot.  Times are ticks, TicksPerSecond of them a second; label sets are *)
(* functions, without __name__ and alertname, which the code overwrites.   *)
(***************************************************************************)
EXTENDS Integers, Sequences, FiniteSetsExt

CONSTANTS
  Groups,          \* the rule groups, sorted by file and name
  Signals,         \* what the expressions may have returned over time
  Boot, MaxTime,   \* bound: the first evaluation, and the end of the clock
  TicksPerSecond,
  ForGracePeriod,  \* --rules.alert.for-grace-period
  MaxUpdates       \* bound: reloads of the rules

GroupIds == DOMAIN Groups
RulesOf(g) == Groups[g].rules
Keys == UNION {{<<g, i>> : i \in DOMAIN RulesOf(g)} : g \in GroupIds}
Rule(k) == RulesOf(k[1])[k[2]]
Interval(k) == Groups[k[1]].interval
AlertKeys == {k \in Keys : Rule(k).alerting}

(* Windows start after second 0: activeAt = 0 stands for "not set" in the  *)
(* code, and no sample is that old.  for: is in whole seconds.             *)
ASSUME BootAssumption ==
  /\ TicksPerSecond \in Nat \ {0} /\ ForGracePeriod \in Nat
  /\ MaxUpdates \in Nat
  /\ \A k \in AlertKeys :
       /\ Rule(k).hold % TicksPerSecond = 0
       /\ Boot >= Rule(k).hold + TicksPerSecond
       /\ Boot + Interval(k) <= MaxTime
(* A group without rules has nothing to restore and is left out.           *)
ASSUME GroupsAssumption ==
  /\ Boot \in Nat /\ GroupIds \subseteq Nat
  /\ \A g \in GroupIds :
       /\ Groups[g].interval \in Nat \ {0}
       /\ Len(RulesOf(g)) \in Nat \ {0} /\ DOMAIN RulesOf(g) = 1..Len(RulesOf(g))
       /\ \A i \in DOMAIN RulesOf(g) : RulesOf(g)[i].hold \in Nat

VARIABLES
  self,      \* the group whose goroutine this is: each has its own querier
  now,       \* the clock
  signal,    \* per expression and series, the times at which it is returned
  stored,    \* what the downstreams answer for ALERTS_FOR_STATE
  pc,        \* where the group's goroutine is
  done,      \* the group is told to stop
  manager,   \* what holds the rule manager's mutex
  updates,   \* reloads so far
  ts,        \* the time the restoration began
  ruleValues,\* the querier's results by key
  position,  \* the rule whose state is restored next
  alerts     \* per rule, ActiveAt of its alerts, by label set

inputs == <<self, signal, stored>>
lifecycle == <<done, manager, updates>>
restoration == <<ts, ruleValues, position, alerts>>
vars == <<inputs, now, pc, lifecycle, restoration>>

OwnKeys == {k \in AlertKeys : k[1] = self}

-----------------------------------------------------------------------------
(* The entries of f, and those of g where f has none.                      *)
Over(f, g) ==
  [x \in DOMAIN f \cup DOMAIN g |-> IF x \in DOMAIN f THEN f[x] ELSE g[x]]

(* Time.Unix and time.Unix(t/1000, 0).                                     *)
Seconds(t) == t - (t % TicksPerSecond)

(* Rule r's alert for a series, and the matchers QueryForStateSeries asks  *)
(* with: the alert name, and one equality per label of the rule.           *)
AlertLabels(rule, metric) == Over(rule.labels, metric)
Matches(matchers, metric) ==
  \A l \in DOMAIN matchers : l \in DOMAIN metric /\ metric[l] = matchers[l]

(* The series an expression returns at time t.                             *)
Returned(expr, t) == {m \in DOMAIN signal[expr] : t \in signal[expr][m]}

-----------------------------------------------------------------------------
(* FindGroupAndAlert: the first alerting rule of the name none of whose    *)
(* labels is refused by a matcher.                                         *)
Fits(rule, name, matchers) ==
  /\ rule.alerting
  /\ rule.name = name
  /\ \A l \in DOMAIN rule.labels \cap DOMAIN matchers : matchers[l] = rule.labels[l]
Before(k, j) == k[1] < j[1] \/ (k[1] = j[1] /\ k[2] < j[2])
FindGroupAndAlert(name, matchers) ==
  LET fitting == {k \in Keys : Fits(Rule(k), name, matchers)}
  IN  {k \in fitting : \A j \in fitting : ~Before(j, k)}

(* What it finds for the matchers of each rule: one rule, or none.         *)
Found == [k \in AlertKeys |-> FindGroupAndAlert(Rule(k).name, Rule(k).labels)]

(* The result of a rule is kept under the place of the rule.               *)
MutKeyByName(k) == Rule(k).name
ResultKey(k) == k

(* The steps of the query: HoldDuration and one more interval, until now.  *)
Window(k, end) ==
  LET start == end - Rule(k).hold - Interval(k)
  IN  {start + x * Interval(k) : x \in 0..((end - start) \div Interval(k))}

(* The engine's query_range: per series, the steps at which it is there.   *)
QueryRange(k, end) ==
  [m \in DOMAIN signal[Rule(k).expr] |-> Window(k, end) \cap signal[Rule(k).expr][m]]

(* The samples of a series as the ActiveAt it would have had at each.      *)
MutNeverCleared(lastPoint, t, step) == FALSE
Cleared(lastPoint, t, step) == t - lastPoint > step
ActiveAts(times, step) ==
  LET active[t \in times] ==
        LET earlier == {u \in times : u < t}
            lastPoint == Max(earlier)
        IN  IF earlier = {} \/ Cleared(lastPoint, t, step)
              THEN Seconds(t)
              ELSE active[lastPoint]
  IN  active

GenerateAlertStateMatrix(matrix, matchers, rule, step) ==
  {[labels |-> AlertLabels(rule, m), times |-> matrix[m],
    values |-> ActiveAts(matrix[m], step)] :
     m \in {s \in DOMAIN matrix : matrix[s] # {} /\ Matches(matchers, AlertLabels(rule, s))}}

-----------------------------------------------------------------------------
(* Evaluate, external: alerts appear with ActiveAt = now and go away.      *)
Evaluated(k) ==
  LET active == {AlertLabels(Rule(k), m) : m \in Returned(Rule(k).expr, now)}
  IN  [a \in active |-> IF a \in DOMAIN alerts[k] THEN alerts[k][a] ELSE now]

Init ==
  /\ self \in GroupIds
  /\ now = Boot
  /\ signal \in Signals
  /\ stored \in {"nothing", "found"}
  /\ pc = "waiting"
  /\ done = FALSE
  /\ manager = "idle"
  /\ updates = 0
  /\ ts = 0
  /\ ruleValues = <<>>
  /\ position = 1
  /\ alerts = [k \in OwnKeys |->
                 [a \in {AlertLabels(Rule(k), m) : m \in Returned(Rule(k).expr, Boot)} |-> Boot]]

Tick ==
  /\ now < MaxTime
  /\ now' = now + 1
  /\ UNCHANGED <<inputs, pc, lifecycle, restoration>>

(* The second evaluation, an interval after the first.                     *)
Evaluate ==
  /\ pc = "waiting"
  /\ now >= Boot + Groups[self].interval
  /\ alerts' = [k \in OwnKeys |-> Evaluated(k)]
  /\ pc' = "evaluated"
  /\ UNCHANGED <<inputs, now, lifecycle, ts, ruleValues, position>>

(* RestoreForState takes the time, then asks for a querier.                *)
RestoreForState ==
  /\ pc = "evaluated"
  /\ ts' = now
  /\ pc' = "opening"
  /\ UNCHANGED <<inputs, now, lifecycle, ruleValues, position, alerts>>

(* Querier copies the rule groups, for which RuleGroups needs the mutex;   *)
(* Select works on the copy.                                               *)
MutFetchPerSelect == pc \in {"opening", "restoring"}
NeedsManager == pc = "opening"

Querier ==
  /\ pc = "opening"
  /\ NeedsManager => manager = "idle"
  /\ ruleValues' = <<>>
  /\ pc' = "restoring"
  /\ UNCHANGED <<inputs, now, lifecycle, ts, position, alerts>>

(* Select, per rule: the downstreams' series if there are any, else those  *)
(* of the first fitting rule, whose query is run once; its error is kept   *)
(* like a result.  Downstreams that fail have no series: "nothing".        *)
StoredSeries(k) ==
  {[labels |-> a, times |-> {Boot - 1},
    values |-> [t \in {Boot - 1} |-> Seconds(Boot - Rule(k).hold)]] :
     a \in DOMAIN alerts[k]}
DownstreamAnswers == stored = "found"

Answer(k, results) ==
  IF DownstreamAnswers THEN StoredSeries(k)
  ELSE UNION {LET result == results[ResultKey(f)]
              IN  IF result.err THEN {}
                  ELSE GenerateAlertStateMatrix(QueryRange(result.rule, result.at),
                                                Rule(k).labels, Rule(f), Interval(f)) :
                f \in Found[k]}

(* RestoreForState, external: ActiveAt from the last sample of the series. *)
RestoredActiveAt(k, series) ==
  LET last == Max(series.times)
      downAt == Seconds(last)
      remaining == Rule(k).hold - (downAt - series.values[last])
  IN  CASE remaining <= 0 -> series.values[last]
        [] remaining > 0 /\ remaining < ForGracePeriod -> ts + ForGracePeriod - Rule(k).hold
        [] remaining > 0 /\ remaining >= ForGracePeriod -> series.values[last] + (ts - downAt)
RestoreAlerts(k, answer) ==
  [a \in DOMAIN alerts[k] |->
     LET restored == {RestoredActiveAt(k, s) : s \in {r \in answer : r.labels = a}}
     IN  CHOOSE t \in IF restored = {} THEN {alerts[k][a]} ELSE restored : TRUE]

RuleDone ==
  /\ position' = position + 1
  /\ pc' = IF position < Len(RulesOf(self)) THEN pc ELSE "running"

(* Recording rules, and rules that wait less than the grace period, are    *)
(* not restored.                                                           *)
Skipped(k) == ~Rule(k).alerting \/ Rule(k).hold < ForGracePeriod
SkipRule ==
  /\ pc = "restoring"
  /\ Skipped(<<self, position>>)
  /\ RuleDone
  /\ UNCHANGED <<inputs, now, lifecycle, ts, ruleValues, alerts>>

Select ==
  LET k == <<self, position>>
      new == {f \in Found[k] : ~DownstreamAnswers /\ ResultKey(f) \notin DOMAIN ruleValues}
  IN  /\ pc = "restoring"
      /\ NeedsManager => manager = "idle"
      /\ ~Skipped(k)
      /\ RuleDone
      /\ UNCHANGED <<inputs, now, lifecycle, ts>>
      /\ \E results \in
            {Over(ruleValues, [r \in {ResultKey(f) : f \in new} |->
                [rule |-> CHOOSE f \in new : TRUE, at |-> now, err |-> err]]) :
               err \in BOOLEAN} :
           \E answer \in {Answer(k, results)} :
             /\ ruleValues' = results
             /\ alerts' = [alerts EXCEPT ![k] = RestoreAlerts(k, answer)]

-----------------------------------------------------------------------------
(* A group looks at its done channel only where it waits for the ticker.   *)
Stops ==
  /\ done
  /\ pc \in {"waiting", "running"}
  /\ pc' = "stopped"
  /\ UNCHANGED <<inputs, now, lifecycle, restoration>>

(* Manager.Update with the mutex held: a group that changed is told to     *)
(* stop, and Update waits for it; Manager.Stop does so with every group.   *)
Update ==
  /\ manager = "idle" /\ updates < MaxUpdates
  /\ manager' = "update" /\ updates' = updates + 1
  /\ done' \in BOOLEAN
  /\ UNCHANGED <<inputs, now, pc, restoration>>
Stop ==
  /\ manager = "idle"
  /\ manager' = "stop" /\ done' = TRUE
  /\ UNCHANGED <<inputs, now, updates, pc, restoration>>

(* The new group takes over the alerts and does not restore.               *)
UpdateDone ==
  /\ manager = "update"
  /\ done => pc = "stopped"
  /\ pc' = IF done THEN "running" ELSE pc
  /\ manager' = "idle" /\ done' = FALSE
  /\ UNCHANGED <<inputs, now, updates, restoration>>
StopDone ==
  /\ manager = "stop"
  /\ pc = "stopped"
  /\ manager' = "stopped"
  /\ UNCHANGED <<inputs, now, done, updates, pc, restoration>>

GroupStep ==
  \/ Evaluate
  \/ RestoreForState
  \/ Querier
  \/ SkipRule
  \/ Select
Next ==
  \/ Tick
  \/ GroupStep
  \/ Stops
  \/ Update
  \/ Stop
  \/ UpdateDone
  \/ StopDone

(* Goroutines run, queries end (the engine has a timeout), and the ticker  *)
(* ticks; nobody has to reload or stop promxy.                             *)
Fairness ==
  /\ WF_vars(Tick) /\ WF_vars(GroupStep) /\ WF_vars(Stops)
  /\ WF_vars(UpdateDone) /\ WF_vars(StopDone)
Spec == Init /\ [][Next]_vars /\ Fairness

-----------------------------------------------------------------------------
Recreated(k) ==
  Rule(k).hold >= ForGracePeriod /\ k[2] < position /\ ~DownstreamAnswers

(* Reference: the steps of the last unbroken run of a series in the window *)
(* that ends at time q, by quantification instead of the loop.             *)
Steps(k, m, q) == {t \in Window(k, q) : t \in signal[Rule(k).expr][m]}
LastRun(k, m, q) ==
  LET steps == Steps(k, m, q)
  IN  {t \in steps : \A u \in Window(k, q) :
                        u > t /\ (\E w \in steps : w > u) => u \in steps}
Span(run) == Max(run) - Min(run)

(* No alert is credited with more waiting time than was observed: when its *)
(* state was recreated, the time it has waited (as far as for: looks at    *)
(* it) is the length of the last unbroken run of a series with its labels, *)
(* of a rule with its name, in the query window of that rule, up to the    *)
(* rounding of timestamps to seconds (alertstate.go:39-63, rule.go:37-82). *)
PendingTimeObserved ==
  \A k \in OwnKeys : Recreated(k) =>
    \A a \in {b \in DOMAIN alerts[k] : alerts[k][b] < Boot} :
      \E j \in AlertKeys, q \in ts..now :
        /\ Rule(j).name = Rule(k).name
        /\ \E m \in DOMAIN signal[Rule(j).expr] :
             /\ AlertLabels(Rule(j), m) = a
             /\ Steps(j, m, q) # {}
             /\ Min({Rule(k).hold, ts - alerts[k][a]})
                  < Span(LastRun(j, m, q)) + TicksPerSecond

(* An alert whose expression held through the whole window fires at the    *)
(* next evaluation: a restart does not make a firing alert pending again,  *)
(* whatever other rules share its name, if the rule's query worked and no  *)
(* rule before it fits its labels (backfill.go:96-149).  A second series   *)
(* that gets the same labels makes the evaluations of the rule fail, and   *)
(* is excluded.                                                            *)
HeldAlertsFire ==
  \A k \in OwnKeys :
    (/\ Recreated(k)
     /\ Found[k] = {k}
     /\ ResultKey(k) \in DOMAIN ruleValues /\ ~ruleValues[ResultKey(k)].err) =>
       LET q == ruleValues[ResultKey(k)].at
           window == (q - Rule(k).hold - Interval(k))..q
           series == signal[Rule(k).expr]
       IN  \A m \in DOMAIN series :
             (/\ window \subseteq series[m]
              /\ \A n \in DOMAIN series \ {m} :
                   AlertLabels(Rule(k), n) = AlertLabels(Rule(k), m) =>
                     series[n] \cap window = {}
              /\ AlertLabels(Rule(k), m) \in DOMAIN alerts[k]) =>
                alerts[k][AlertLabels(Rule(k), m)] + Rule(k).hold <= q

(* A reload or the shutdown of the rules ends, except in one way: the      *)
(* group told to stop needs the mutex its stopper holds, because           *)
(* backfill.go:55 calls Manager.RuleGroups from the group's goroutine.     *)
Wedged == manager # "idle" /\ done /\ pc = "opening"
UpdateReturns == manager \in {"update", "stop"} ~> (manager \in {"idle", "stopped"} \/ Wedged)
=============================================================================
