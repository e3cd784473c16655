--------------------------- MODULE MCAlertBackfill ---------------------------
EXTENDS AlertBackfill, TLC

NoLabels == [l \in {} |-> ""]
Page == [sev |-> "page"]
Warn == [sev |-> "warn"]

Alert(name, labels, expr, hold) ==
  [alerting |-> TRUE, name |-> name, labels |-> labels, expr |-> expr, hold |-> hold]
Record(expr) ==
  [alerting |-> FALSE, name |-> "rec", labels |-> NoLabels, expr |-> expr, hold |-> 0]

(* Rules of one name told apart by a label, a for: the interval divides    *)
(* and one it does not, a rule below the grace period.                     *)
RuleGroups ==
  <<[interval |-> 2, rules |-> <<Alert("down", Page, "e1", 4), Record("e2"),
                                 Alert("down", Warn, "e2", 4)>>],
    [interval |-> 3, rules |-> <<Alert("slow", NoLabels, "e1", 4)>>]>>

Job == [job |-> "a"]
Times == TicksPerSecond..MaxTime
(* Series that held but for one gap, which may be at either end.           *)
Gaps == {Times \ (b..c) : b, c \in Times}
ExprSignals ==
  {[e1 |-> (Job :> p), e2 |-> (Job :> r)] :
     p \in Gaps, r \in {Times}} \cup
  {[e1 |-> (Job :> p), e2 |-> (Job :> r)] :
     p \in {Times}, r \in {{}, Boot..MaxTime}}
=============================================================================
