--------------------------- MODULE MCServerGroup ---------------------------
(* Instances of ServerGroup for TLC. *)
EXTENDS ServerGroup, TLC

CONSTANTS t1, t2, noAddress

Conf(filter, onName, periodic, refresh) ==
  [filter |-> filter, onName |-> onName, periodic |-> periodic, refresh |-> refresh]

(* Every way a label filter starts a loop or fails a load, and the cache   *)
(* without a filter, behind one that may fail closed and behind one that   *)
(* filters __name__.                                                       *)
FilterConfigs ==
  {Conf("none", FALSE, FALSE, FALSE), Conf("abort", TRUE, TRUE, FALSE),
   Conf("open", FALSE, FALSE, FALSE), Conf("closed", FALSE, FALSE, TRUE)}

(* A config change between a label filter that fails closed, with the      *)
(* cache, and one on __name__.                                             *)
LiveConfigs == {Conf("closed", FALSE, FALSE, TRUE), Conf("abort", TRUE, TRUE, FALSE)}

(* The states of the group are interchangeable, and so are the two targets *)
(* that come and go together; used for safety only.                        *)
Symmetry == Permutations(Gens) \cup Permutations({t1, t2})
=============================================================================
