------------------------------ MODULE MCJobPod -------------------------------
(***************************************************************************)
(* JobPod for TLC: a job of every stage, and plans with every kind of      *)
(* policy.                                                                 *)
(***************************************************************************)
EXTENDS JobPod

MCPlain ==
  [stage |-> "plan", costs |-> FALSE, save |-> FALSE, policy |-> "none",
   retries |-> 0, watch |-> FALSE]

MCJobs ==
  {[MCPlain EXCEPT !.policy = "inline", !.costs = TRUE],
   [MCPlain EXCEPT !.policy = "source", !.watch = TRUE],
   [MCPlain EXCEPT !.policy = "external"],
   [MCPlain EXCEPT !.stage = "apply", !.save = TRUE, !.retries = 1],
   [MCPlain EXCEPT !.stage = "apply", !.watch = TRUE],
   [MCPlain EXCEPT !.stage = "destroy", !.retries = 1]}
=============================================================================
