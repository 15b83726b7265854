--------------------------- MODULE MCCloudResource ---------------------------
(***************************************************************************)
(* CloudResource for TLC: a plan of three versions, a module with two      *)
(* variables, and a user who moves from the first version to the second,   *)
(* and then to what cannot be rendered: a default that cannot be set, and  *)
(* variables of the user's own.                                            *)
(* What can go wrong goes wrong in behaviours of its own.                  *)
(***************************************************************************)
EXTENDS CloudResource

MCVersions == {1, 2, 3}
MCKeys == {"size", "region"}
MCFixed == [v \in MCVersions |-> {"region"}]
MCDefaults == [v \in MCVersions |-> {"size"}]
MCUnsettable == {3}

First == [revision |-> 1, sets |-> {"size", "region"}, wellFormed |-> TRUE,
          own |-> FALSE, auto |-> FALSE]
Second == [First EXCEPT !.revision = 2, !.sets = {}, !.own = TRUE]

MCSpecs ==
  <<First, Second, [Second EXCEPT !.revision = 3], [Second EXCEPT !.wellFormed = FALSE]>>

Quiet == [lag |-> {}, faults |-> 0, resetFails |-> FALSE, retries |-> 0, edits |-> 1,
          direct |-> FALSE, manifest |-> "unset", withdrawn |-> {}]

MCWorlds ==
  {[Quiet EXCEPT !.retries = 1, !.manifest = "true", !.withdrawn = {1}],
   [Quiet EXCEPT !.faults = 1],
   [Quiet EXCEPT !.direct = TRUE],
   [Quiet EXCEPT !.manifest = "none", !.edits = 3],
   [Quiet EXCEPT !.lag = {"configuration"}, !.edits = 0, !.direct = TRUE],
   [Quiet EXCEPT !.lag = {"order"}]}

MCResetFails == {[Quiet EXCEPT !.resetFails = TRUE]}
=============================================================================
