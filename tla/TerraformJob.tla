---------------------------- MODULE TerraformJob -----------------------------
(***************************************************************************)
(* What the Configuration controller takes a terraform job to be: it runs, *)
(* its secrets appear while it runs, it ends once, and when it ends well   *)
(* every secret of its stage is there.  Module JobPod implements it.       *)
(***************************************************************************)
CONSTANT Secrets

VARIABLES
  status,
  promised,    \* the secrets of the stage
  uploaded     \* the secrets there are

vars == <<status, promised, uploaded>>

Init == status = "active" /\ promised \subseteq Secrets /\ uploaded = {}

Upload ==
  /\ status = "active"
  /\ \E s \in promised : uploaded' = uploaded \cup {s}
  /\ UNCHANGED <<status, promised>>

Complete ==
  /\ status = "active" /\ promised \subseteq uploaded
  /\ status' = "complete"
  /\ UNCHANGED <<promised, uploaded>>

Fail ==
  /\ status = "active"
  /\ status' = "failed"
  /\ UNCHANGED <<promised, uploaded>>

Next == Upload \/ Complete \/ Fail

Spec == Init /\ [][Next]_vars
=============================================================================
