-------------------------- MODULE ApprovalWorkflow --------------------------
(***************************************************************************)
(* What the Configuration controller promises about changes to the cloud,  *)
(* without objects, caches or jobs: generations of a specification are     *)
(* submitted one after the other; terraform apply runs for a generation    *)
(* only after terraform plan has run for it and after it has been          *)
(* approved, by the specification itself or, while it is the current one,  *)
(* by the user.  An approval never carries over to another generation.     *)
(***************************************************************************)
EXTENDS Naturals

VARIABLES
  current,   \* the generation submitted last
  planned,   \* the generations terraform plan was run for
  approved,  \* the generations that are approved
  applied    \* the generations terraform apply was run for

vars == <<current, planned, approved, applied>>

Init ==
  /\ current = 1
  /\ planned = {} /\ applied = {}
  /\ approved \in {{}, {1}}

(* A new specification, which may approve itself.  A deletion is one, too. *)
Submit ==
  /\ current' = current + 1
  /\ approved' \in {approved, approved \cup {current + 1}}
  /\ UNCHANGED <<planned, applied>>

(* An older generation may still be planned, by a controller that lags. *)
Plan(g) ==
  /\ planned' = planned \cup {g}
  /\ UNCHANGED <<current, approved, applied>>

Approve ==
  /\ approved' = approved \cup {current}
  /\ UNCHANGED <<current, planned, applied>>

Apply(g) ==
  /\ g \in planned \cap approved
  /\ applied' = applied \cup {g}
  /\ UNCHANGED <<current, planned, approved>>

Next ==
  \/ Submit \/ Approve
  \/ \E g \in 1..current : Plan(g) \/ Apply(g)

Spec == Init /\ [][Next]_vars
=============================================================================
