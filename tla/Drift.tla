-------------------------------- MODULE Drift --------------------------------
(***************************************************************************)
(* The drift controller (pkg/controller/drift) over all the Configurations *)
(* of a cluster.  One worker asks for a drift check of a Configuration by  *)
(* an annotation, as long as fewer than a share of the Configurations run. *)
(* The Configuration controller takes the annotation up later, with a plan *)
(* (module Configuration models that side in full; here it moves a         *)
(* Configuration from stage to stage).                                     *)
(*                                                                         *)
(* Variables:                                                              *)
(*   fleet      the Configurations as stored: [stage, asked, check, quiet, *)
(*              enabled, leaving], see FleetInit                           *)
(*   fleetSeen  the same, as the worker's cache has it                     *)
(*   due        for each one "idle", "queued" or "timer" (RequeueAfter)    *)
(*   driftFaults  failed patches and restarts so far                       *)
(*   manner     what may happen in this behaviour: [fleet, prompt, lag,    *)
(*              faults, events]                                            *)
(***************************************************************************)
EXTENDS Naturals, FiniteSets, Functions

CONSTANTS
  Fleet,       \* the Configurations
  Threshold,   \* the share, in percent
  Manners      \* what happens together in one behaviour

(* New: a threshold is between 0 and 1, neither included. *)
ASSUME ThresholdAssumption ==
  /\ Threshold \in 1..99
  /\ \A m \in Manners : m.fleet \subseteq Fleet /\ m.prompt \in BOOLEAN
                         /\ m.lag \in BOOLEAN /\ m.faults \in Nat

ASSUME FleetAssumption == IsFiniteSet(Fleet)

VARIABLES fleet, fleetSeen, due, driftFaults, manner

drift == <<fleet, fleetSeen, due, driftFaults, manner>>

(***************************************************************************)
(* A stage is what the conditions of the plan and the apply say together;  *)
(* they are of the current generation, except in "edited".  asked: the     *)
(* annotation is set and not taken up; check: the plan that runs is a      *)
(* drift check; quiet: no transition for a drift interval.                 *)
(***************************************************************************)
Stages == {"new", "edited", "planning", "applying", "approval", "failed", "done"}

PlanIs(o, reason) ==
  o.stage \in (CASE reason = "InProgress" -> {"planning"}
                 [] reason = "Error"      -> {"failed"}
                 [] reason = "Complete"   -> {"applying", "approval", "done"})

ApplyIs(o, reason) ==
  o.stage \in (CASE reason = "InProgress" -> {"applying"}
                 [] reason = "Error"      -> {}
                 [] reason = "Complete"   -> {"planning", "done"})

FleetInit ==
  /\ manner \in Manners
  /\ \E s \in [manner.fleet -> {"new", "done"}] :
       fleet = [c \in manner.fleet |-> [stage |-> s[c], asked |-> FALSE, check |-> FALSE,
                                        quiet |-> s[c] = "done", enabled |-> TRUE,
                                        leaving |-> FALSE]]
  /\ fleetSeen = fleet
  /\ due = [c \in Fleet |-> IF c \in DOMAIN fleet /\ fleet[c].stage = "done"
                           THEN "timer" ELSE "idle"]
  /\ driftFaults = 0

Present(f) == DOMAIN f

(***************************************************************************)
(* The event filter: creations and deletions do not count, nor do updates  *)
(* that change annotations, disabled ones or ones that are being deleted.  *)
(***************************************************************************)
Wakes(before, after) ==
  after.enabled /\ ~after.leaving /\ before.asked = after.asked

(* The Configuration controller or the user has written Configuration c. *)
WriteFleet(c, o) ==
  /\ fleet' = [fleet EXCEPT ![c] = o]
  /\ IF manner.lag
     THEN UNCHANGED <<fleetSeen, due>>
     ELSE /\ fleetSeen' = fleet'
          /\ due' = IF Wakes(fleet[c], o) THEN [due EXCEPT ![c] = "queued"] ELSE due
  /\ UNCHANGED <<driftFaults, manner>>

-----------------------------------------------------------------------------
(***************************************************************************)
(* The worker.                                                             *)
(***************************************************************************)
(* Faulty: the apply condition is looked at first. *)
RunningByApply(f) ==
  Cardinality({c \in Present(f) : f[c].stage # "new" /\ ApplyIs(f[c], "InProgress")})

(* Every registered Configuration has a plan condition: the apply is never *)
(* looked at.                                                              *)
TotalRunning(f) ==
  Cardinality({c \in Present(f) : f[c].stage # "new" /\ PlanIs(f[c], "InProgress")})

(* Faulty: the share is rounded down. *)
TotalFloor(f) == (Cardinality(Present(f)) * Threshold) \div 100

(* math.Ceil *)
TotalAllowed(f) == (Cardinality(Present(f)) * Threshold + 99) \div 100

(* The cases of ensureConfigurationReadyForDrift, in its order. *)
ReadyForDrift(f, c) ==
  LET o == f[c]
  IN  /\ o.enabled /\ ~o.leaving
      /\ o.stage # "new"
      /\ ~PlanIs(o, "Error") /\ ~ApplyIs(o, "Error")
      /\ ~PlanIs(o, "InProgress") /\ ~ApplyIs(o, "InProgress")
      /\ PlanIs(o, "Complete") /\ ApplyIs(o, "Complete")
      /\ o.quiet
      /\ TotalRunning(f) < TotalAllowed(f)

(* A check that the Configuration controller has still to take up. *)
Pending(o) == o.asked /\ ~o.leaving

(* The Configuration controller is quicker than the worker, if prompt. *)
TakenUp == manner.prompt => \A c \in DOMAIN fleet : ~Pending(fleet[c])

(* Reconcile: whatever it finds, it comes back after the check interval.   *)
(* A patch that fails is retried.                                          *)
AskForDrift(c) ==
  /\ due[c] = "queued" /\ TakenUp
  /\ c \in DOMAIN fleetSeen /\ ReadyForDrift(fleetSeen, c)
  /\ \/ /\ c \in DOMAIN fleet
        /\ fleet' = [fleet EXCEPT ![c].asked = TRUE]
        /\ fleetSeen' = IF manner.lag THEN fleetSeen ELSE fleet'
        /\ due' = [due EXCEPT ![c] = "timer"]
        /\ UNCHANGED driftFaults
     \/ /\ c \notin DOMAIN fleet \/ driftFaults < manner.faults
        /\ driftFaults' = IF c \in DOMAIN fleet THEN driftFaults + 1 ELSE driftFaults
        /\ UNCHANGED <<fleet, fleetSeen, due>>
  /\ UNCHANGED manner

(* A Configuration that is gone is not looked at again. *)
SkipDrift(c) ==
  /\ due[c] = "queued" /\ TakenUp
  /\ c \in DOMAIN fleetSeen => ~ReadyForDrift(fleetSeen, c)
  /\ due' = [due EXCEPT ![c] = IF c \in DOMAIN fleetSeen THEN "timer" ELSE "idle"]
  /\ UNCHANGED <<fleet, fleetSeen, driftFaults, manner>>

CheckIntervalPasses(c) ==
  /\ due[c] = "timer"
  /\ due' = [due EXCEPT ![c] = "queued"]
  /\ UNCHANGED <<fleet, fleetSeen, driftFaults, manner>>

DriftRun(c) == AskForDrift(c) \/ SkipDrift(c)

-----------------------------------------------------------------------------
(***************************************************************************)
(* The Configuration controller: ensureTerraformPlan, ensureDriftDetection *)
(* and ensureTerraformApply as the conditions show them.                   *)
(***************************************************************************)
PlanStarts(c) ==
  /\ fleet[c].stage \in {"new", "edited"} \/ (fleet[c].stage = "done" /\ fleet[c].asked)
  /\ ~fleet[c].leaving
  /\ WriteFleet(c, [fleet[c] EXCEPT !.stage = "planning", !.check = @ \/ fleet[c].asked,
                                    !.asked = FALSE, !.quiet = FALSE])

(* The plan fails, finds nothing, or finds changes that are approved or    *)
(* wait for it.                                                            *)
PlanEnds(c) ==
  /\ fleet[c].stage = "planning"
  /\ \E s \in {"done", "applying", "approval", "failed"} \cap manner.events :
       WriteFleet(c, [fleet[c] EXCEPT !.stage = s, !.check = FALSE, !.quiet = FALSE])

ApplyProceeds(c) ==
  /\ fleet[c].stage \in {"applying", "approval"}
  /\ WriteFleet(c, [fleet[c] EXCEPT !.quiet = FALSE,
       !.stage = IF fleet[c].stage = "approval" THEN "applying" ELSE "done"])

DriftIntervalPasses(c) ==
  /\ fleet[c].stage = "done" /\ ~fleet[c].quiet
  /\ fleet' = [fleet EXCEPT ![c].quiet = TRUE]
  /\ fleetSeen' = IF c \in DOMAIN fleetSeen
                  THEN [fleetSeen EXCEPT ![c].quiet = (fleetSeen[c].stage = "done")]
                  ELSE fleetSeen
  /\ UNCHANGED <<due, driftFaults, manner>>

-----------------------------------------------------------------------------
(***************************************************************************)
(* The user and the platform.                                              *)
(***************************************************************************)
(* A plan that runs is in progress whatever its generation. *)
EditSpec(c) ==
  /\ "edit" \in manner.events /\ ~fleet[c].leaving
  /\ fleet[c].stage \notin {"new", "edited", "planning"}
  /\ WriteFleet(c, [fleet[c] EXCEPT !.stage = "edited"])

ToggleDrift(c) ==
  /\ "toggle" \in manner.events /\ ~fleet[c].leaving
  /\ WriteFleet(c, [fleet[c] EXCEPT !.enabled = ~@])

MarkDeleted(c) ==
  /\ "delete" \in manner.events /\ ~fleet[c].leaving
  /\ WriteFleet(c, [fleet[c] EXCEPT !.leaving = TRUE])

Gone(c) ==
  /\ fleet[c].leaving
  /\ fleet' = Restrict(fleet, DOMAIN fleet \ {c})
  /\ fleetSeen' = IF manner.lag THEN fleetSeen ELSE fleet'
  /\ UNCHANGED <<due, driftFaults, manner>>

(* The queue is lost; the creations the new watch begins with are filtered *)
(* out, so that only the next update or resync wakes the worker.           *)
RestartDrift ==
  /\ driftFaults < manner.faults /\ driftFaults' = driftFaults + 1
  /\ due' = [c \in Fleet |-> "idle"]
  /\ fleetSeen' = fleet
  /\ UNCHANGED <<fleet, manner>>

(* The resync of the cache is an update of every object. *)
Resync(c) ==
  /\ due[c] = "idle" /\ c \in DOMAIN fleetSeen /\ Wakes(fleetSeen[c], fleetSeen[c])
  /\ due' = [due EXCEPT ![c] = "queued"]
  /\ UNCHANGED <<fleet, fleetSeen, driftFaults, manner>>

SyncFleet(c) ==
  /\ c \in DOMAIN fleetSeen
  /\ IF c \in DOMAIN fleet
     THEN /\ fleetSeen[c] # fleet[c]
          /\ fleetSeen' = [fleetSeen EXCEPT ![c] = fleet[c]]
          /\ due' = IF Wakes(fleetSeen[c], fleet[c]) THEN [due EXCEPT ![c] = "queued"]
                                                     ELSE due
     ELSE /\ fleetSeen' = Restrict(fleetSeen, DOMAIN fleetSeen \ {c})
          /\ UNCHANGED due
  /\ UNCHANGED <<fleet, driftFaults, manner>>

Progresses(c) == PlanStarts(c) \/ PlanEnds(c) \/ ApplyProceeds(c)

FleetNext ==
  \/ \E c \in Fleet : \/ DriftRun(c) \/ CheckIntervalPasses(c) \/ Resync(c)
                      \/ SyncFleet(c)
  \/ \E c \in DOMAIN fleet :
       \/ Progresses(c) \/ DriftIntervalPasses(c) \/ EditSpec(c) \/ ToggleDrift(c)
       \/ MarkDeleted(c) \/ Gone(c)
  \/ RestartDrift

-----------------------------------------------------------------------------
(* The drift checks that are asked for or run. *)
Checking(f) == {c \in DOMAIN f : Pending(f[c]) \/ f[c].check}

(* The step asks for no check, or for one within the share. *)
AsksWithin ==
  \A c \in DOMAIN fleet \cap DOMAIN fleet' :
    fleet'[c].asked /\ ~fleet[c].asked
      => Cardinality(Checking(fleet')) <= TotalAllowed(fleet)

(***************************************************************************)
(* A check is asked for only while the checks that are asked for or run,   *)
(* the new one included, stay within the share of the Configurations there *)
(* are ("DriftThreshold is the maximum number of drift checks to run       *)
(* concurrently"), whatever is edited, deleted, restarted or applied in    *)
(* between, when the Configuration controller takes up a check and the     *)
(* worker's cache shows it before the worker looks at the next             *)
(* Configuration (ensureConfigurationReadyForDrift).                       *)
(***************************************************************************)
ShareKept == [][manner.prompt /\ ~manner.lag => AsksWithin]_drift

(***************************************************************************)
(* A Configuration is not forgotten: it does not stay due for a check, and *)
(* nothing else running, without one being asked for, however few          *)
(* Configurations there are and although a restart empties the queue       *)
(* (the requeues of ensureConfigurationReadyForDrift, the event filter).   *)
(***************************************************************************)
DueForDrift(c) ==
  /\ c \in DOMAIN fleet
  /\ fleet[c].enabled /\ ~fleet[c].leaving /\ fleet[c].stage = "done" /\ fleet[c].quiet
  /\ \A d \in DOMAIN fleet : fleet[d].stage # "planning"

DriftNotForgotten == \A c \in Fleet : []<>~(DueForDrift(c) /\ ~fleet[c].asked)
=============================================================================
