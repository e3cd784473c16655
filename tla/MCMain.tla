------------------------------- MODULE MCMain -------------------------------
EXTENDS Main

Config(n, rw, rs) == [valid |-> TRUE, groups |-> n, rw |-> rw, rules |-> rs]

(* A file that does not parse, and the combinations of rules and           *)
(* remote_write that reloadConfig tells apart.                             *)
FileContents ==
  {[Config(0, FALSE, "none") EXCEPT !.valid = FALSE],
   Config(2, TRUE, "recording"), Config(1, FALSE, "recording"),
   Config(0, FALSE, "alerting")}
=============================================================================
