---------------------------- MODULE CloudResource ----------------------------
(***************************************************************************)
(* One CloudResource, the Configurations created for it, and the two       *)
(* controllers that write to both (pkg/controller/cloudresource and the    *)
(* approval of pkg/controller/configuration).                              *)
(*                                                                         *)
(* The CloudResource controller finds its Configuration by a label in a    *)
(* cache, creates one under a generated name when it finds none, and       *)
(* otherwise merge-patches onto it what the CloudResource and its Revision *)
(* render to, the CloudResource's annotations included.  The Configuration *)
(* controller withdraws an approval on the Configuration first and on the  *)
(* CloudResource second.  So the apply annotation has two copies, each     *)
(* written by the owner of the other one.                                  *)
(*                                                                         *)
(* Variables:                                                              *)
(*   cr         the CloudResource as stored, crSeen as cached              *)
(*   cfgs       the Configurations by name, cfgsSeen as cached             *)
(*   plan       the Plan's list of versions; revs the Revisions there are  *)
(*   resetting  the Configuration whose controller has withdrawn the       *)
(*              approval and not yet told the CloudResource, 0 if none     *)
(*   faults     failed API calls so far                                    *)
(*   world      what may happen in this behaviour, see World               *)
(*   approved   generations of the CloudResource the user approved while   *)
(*              they were current (history)                                *)
(*   applied    generations terraform apply ran for (history)              *)
(***************************************************************************)
EXTENDS Naturals, Sequences, FiniteSets, FiniteSetsExt

CONSTANTS
  Versions,        \* the versions of the plan
  Keys,            \* the variables of the module
  Fixed,           \* the variables the Revision of a version sets itself
  Defaults,        \* the variables a version's inputs have a default for
  Unsettable,      \* the versions with an input whose default cannot be set
  Specs,           \* input: the specs the user submits, one after the other
  MaxConfigs,      \* bound: Configurations created for it
  Worlds           \* what happens together in one behaviour: see World

ASSUME MaxConfigsAssumption == MaxConfigs \in Nat \ {0}

VARIABLES cr, crSeen, cfgs, cfgsSeen, plan, revs, resetting, faults, world,
          approved, applied

orders == <<cr, crSeen>>
configurations == <<cfgs, cfgsSeen>>
setting == <<plan, revs, world>>
history == <<approved, applied>>

vars == <<orders, configurations, setting, resetting, faults, history>>

(***************************************************************************)
(* Types.  A spec chooses a version, the variables it sets itself, whether *)
(* these can be decoded and set, whether it brings its own provider, auth  *)
(* and connection secret, and whether it is approved automatically; it is  *)
(* known by its generation.  apply is "none" when the object has no        *)
(* annotations at all.                                                     *)
(***************************************************************************)
Generations == 1..Len(Specs)
Names == 1..MaxConfigs
Annotation == {"none", "unset", "false", "true"}
Phases == {"new", "waiting", "applied", "destroyFailed"}

(* The objects a run may hold an earlier copy of, the calls of the         *)
(* CloudResource controller that fail, whether the second patch of a       *)
(* withdrawn approval may fail, the retries and the edits of the user,     *)
(* whether the user deletes a managed Configuration, the annotation of the *)
(* submitted manifest, and the versions the platform withdraws.            *)
(*                                                                         *)
(* A run reads the CloudResource first (reconcile.go:44), lists and reads  *)
(* the Configuration later (ensure.go:118, 137), and patches it last       *)
(* (ensure.go:263).  A run that others come between is a run whose copies  *)
(* are earlier than what is stored: crSeen and cfgsSeen, synced late, are  *)
(* its reads, whether the informer or the run itself is to blame.          *)
World ==
  [lag : SUBSET {"order", "configuration"}, faults : Nat, resetFails : BOOLEAN,
   retries : Nat, edits : Nat, direct : BOOLEAN, manifest : Annotation,
   withdrawn : SUBSET Versions]

CloudResourceSpec ==
  [revision : Versions, sets : SUBSET Keys, wellFormed : BOOLEAN, own : BOOLEAN,
   auto : BOOLEAN]

ASSUME InputsAssumption ==
  /\ Worlds \subseteq World
  /\ Specs \in Seq(CloudResourceSpec) /\ Specs # <<>>
  /\ Unsettable \subseteq Versions

ConfigurationSpec ==
  [revision : Versions, variables : [Keys -> {"own", "default", "revision", "unset"}],
   refs : {"own", "revision"}, auto : BOOLEAN]

CloudResourceObject ==
  [exists : BOOLEAN, gen : Generations, apply : Annotation,
   retry : Nat, deleting : BOOLEAN, finalizer : BOOLEAN,
   name : Names \cup {0}, shown : Phases, update : Versions \cup {0},
   ready : {"NotDetermined", "ActionRequired", "Error", "Deleting", "Ready"}]

ConfigurationObject ==
  [exists : BOOLEAN, spec : ConfigurationSpec, of : Generations,
   gen : 0..(Len(Specs) + 1), apply : Annotation, retry : Nat,
   tried : Nat, deleting : BOOLEAN, finalizer : BOOLEAN,
   planned : 0..(Len(Specs) + 1), phase : Phases]

NoSpec == [revision |-> CHOOSE v \in Versions : TRUE,
           variables |-> [k \in Keys |-> "unset"],
           refs |-> "revision", auto |-> FALSE]

NoConfiguration ==
  [exists |-> FALSE, spec |-> NoSpec, of |-> 1, gen |-> 0, apply |-> "none",
   retry |-> 0, tried |-> 0, deleting |-> FALSE, finalizer |-> FALSE, planned |-> 0,
   phase |-> "new"]

(***************************************************************************)
(* A CloudResource as the webhook admitted it, and a plan that offers      *)
(* every version.                                                          *)
(***************************************************************************)
Init ==
  /\ world \in Worlds
  /\ cr = [exists |-> TRUE, gen |-> 1, apply |-> world.manifest, retry |-> 0,
           deleting |-> FALSE, finalizer |-> FALSE, name |-> 0,
           shown |-> "new", update |-> 0, ready |-> "NotDetermined"]
  /\ crSeen = cr
  /\ cfgs = [i \in Names |-> NoConfiguration] /\ cfgsSeen = cfgs
  /\ plan = Versions /\ revs = Versions
  /\ resetting = 0 /\ faults = 0
  /\ approved = {} /\ applied = {}

-----------------------------------------------------------------------------
(***************************************************************************)
(* Writes to the API server and the caches.                                *)
(***************************************************************************)
WriteOrder(o) ==
  /\ cr' = o
  /\ crSeen' = IF "order" \in world.lag THEN crSeen ELSE o

WriteConfiguration(i, c) ==
  /\ cfgs' = [cfgs EXCEPT ![i] = c]
  /\ cfgsSeen' = IF "configuration" \in world.lag THEN cfgsSeen ELSE cfgs'

(* EnsureRunner.Run: the status fields that differ from the object as read *)
(* are patched onto the stored one, if it still exists.                    *)
StatusPatch(o, n) ==
  IF ~o.exists THEN o ELSE
  [o EXCEPT !.ready = IF n.ready # crSeen.ready THEN n.ready ELSE @,
            !.name = IF n.name # crSeen.name THEN n.name ELSE @,
            !.shown = IF n.shown # crSeen.shown THEN n.shown ELSE @,
            !.update = IF n.update # crSeen.update THEN n.update ELSE @]

(* The end of a run: the status is patched, or the patch fails, or the     *)
(* controller crashes before it.                                           *)
Finish(o, n) ==
  \/ WriteOrder(StatusPatch(o, n)) /\ UNCHANGED faults
  \/ faults < world.faults /\ faults' = faults + 1 /\ WriteOrder(o)

Says(reason) == [crSeen EXCEPT !.ready = reason]

-----------------------------------------------------------------------------
(***************************************************************************)
(* ensureConfigurationExists: what a CloudResource and its Revision render *)
(* to.  The variables are those of the Revision, then the defaults of its  *)
(* inputs, then the ones the CloudResource sets.                           *)
(***************************************************************************)
(* Faulty: the defaults of the inputs are set last. *)
RenderDefaultsLast(s) ==
  [revision |-> s.revision,
   variables |-> [k \in Keys |-> IF k \in Defaults[s.revision] THEN "default"
                                 ELSE IF k \in s.sets THEN "own"
                                 ELSE IF k \in Fixed[s.revision] THEN "revision"
                                 ELSE "unset"],
   refs |-> IF s.own THEN "own" ELSE "revision",
   auto |-> s.auto]

Render(s) ==
  [revision |-> s.revision,
   variables |-> [k \in Keys |-> IF k \in s.sets THEN "own"
                                 ELSE IF k \in Defaults[s.revision] THEN "default"
                                 ELSE IF k \in Fixed[s.revision] THEN "revision"
                                 ELSE "unset"],
   refs |-> IF s.own THEN "own" ELSE "revision",
   auto |-> s.auto]

(* MergeStringMaps: an annotation the CloudResource has wins. *)
MergeApply(ours, theirs) == IF theirs \in {"none", "unset"} THEN ours ELSE theirs

MergeRetry(ours, theirs) == IF theirs = 0 THEN ours ELSE theirs

(* The Configurations the cache lists under the CloudResource's label. *)
Labelled == {i \in Names : cfgsSeen[i].exists}

UpdateAvailable ==
  IF plan # {} /\ Specs[crSeen.gen].revision < Max(plan) THEN Max(plan) ELSE 0

(* ensureConfigurationStatus: what the CloudResource shows of it. *)
Shown(i, phase) ==
  [Says("Ready") EXCEPT !.name = i, !.shown = phase, !.update = UpdateAvailable]

Reconciled == crSeen.exists /\ ~crSeen.deleting /\ crSeen.finalizer

Settable(s) == s.revision \notin Unsettable /\ s.wellFormed

Offered == Specs[crSeen.gen].revision \in plan /\ Specs[crSeen.gen].revision \in revs

(* finalizer.EnsurePresent; an update of a stale object conflicts. *)
EnsureFinalizer ==
  /\ crSeen.exists /\ ~crSeen.deleting /\ ~crSeen.finalizer /\ crSeen = cr
  /\ WriteOrder([cr EXCEPT !.finalizer = TRUE])
  /\ UNCHANGED <<configurations, setting, resetting, faults, history>>

(* ensurePlanExists, ensureRevisionExists: nothing is offered. *)
RevisionMissing ==
  /\ Reconciled /\ ~Offered
  /\ Finish(cr, Says("ActionRequired"))
  /\ UNCHANGED <<configurations, setting, resetting, history>>

(* Any call to the API server may fail. *)
CallFails ==
  /\ Reconciled /\ faults < world.faults
  /\ faults' = faults + 1
  /\ WriteOrder(StatusPatch(cr, Says("Error")))
  /\ UNCHANGED <<configurations, setting, resetting, history>>

MultipleConfigurations ==
  /\ Reconciled /\ Offered /\ Cardinality(Labelled) > 1
  /\ Finish(cr, Says("ActionRequired"))
  /\ UNCHANGED <<configurations, setting, resetting, history>>

(* What a CloudResource renders to is computed before anything is written: *)
(* an input's default that cannot be set ends the run for good (ErrIgnore),*)
(* variables that cannot be decoded or set fail it.                        *)
NotRendered ==
  /\ Reconciled /\ Offered /\ Cardinality(Labelled) <= 1
  /\ ~Settable(Specs[crSeen.gen])
  /\ Finish(cr, Says(IF Specs[crSeen.gen].revision \in Unsettable
                     THEN "ActionRequired" ELSE "Error"))
  /\ UNCHANGED <<configurations, setting, resetting, history>>

(* The Configuration that was listed is not there to be read, a minute     *)
(* later to be looked for again, or not there to be patched.               *)
ConfigurationGone(i) ==
  /\ Reconciled /\ Offered /\ Labelled = {i} /\ ~cfgs[i].exists
  /\ \E reason \in {"ActionRequired", "Error"} : Finish(cr, Says(reason))
  /\ UNCHANGED <<configurations, setting, resetting, history>>

(* The Configuration to be created, annotations of the CloudResource included. *)
Created ==
  [exists |-> TRUE, spec |-> Render(Specs[crSeen.gen]), of |-> crSeen.gen, gen |-> 1,
   apply |-> crSeen.apply, retry |-> crSeen.retry, tried |-> 0, deleting |-> FALSE,
   finalizer |-> FALSE, planned |-> 0, phase |-> "new"]

CreateConfiguration(i) ==
  /\ Reconciled /\ Offered /\ Settable(Specs[crSeen.gen]) /\ Labelled = {}
  /\ ~cfgs[i].exists /\ cfgs[i].gen = 0
  /\ \A j \in Names : j < i => cfgs[j].gen # 0
  /\ WriteConfiguration(i, Created)
  /\ Finish(cr, Shown(i, "new"))
  /\ UNCHANGED <<setting, resetting, history>>

(* Faulty: an annotation that is on the Configuration already is kept. *)
PatchedKeepingAnnotations(i) ==
  LET seen == cfgsSeen[i]
      spec == Render(Specs[crSeen.gen])
  IN  [cfgs[i] EXCEPT
         !.spec = IF seen.spec # spec THEN spec ELSE @,
         !.gen = IF seen.spec # spec /\ cfgs[i].spec # spec THEN @ + 1 ELSE @,
         !.of = crSeen.gen,
         !.apply = MergeApply(crSeen.apply, @),
         !.retry = MergeRetry(crSeen.retry, @)]

(* The merge patch: what differs from the Configuration as read. *)
Patched(i) ==
  LET seen == cfgsSeen[i]
      spec == Render(Specs[crSeen.gen])
      apply == MergeApply(seen.apply, crSeen.apply)
      retry == MergeRetry(seen.retry, crSeen.retry)
  IN  [cfgs[i] EXCEPT
         !.spec = IF seen.spec # spec THEN spec ELSE @,
         !.gen = IF seen.spec # spec /\ cfgs[i].spec # spec THEN @ + 1 ELSE @,
         !.of = crSeen.gen,
         !.apply = IF seen.apply # apply THEN apply ELSE @,
         !.retry = IF seen.retry # retry THEN retry ELSE @]

PatchConfiguration(i) ==
  /\ Reconciled /\ Offered /\ Settable(Specs[crSeen.gen])
  /\ Labelled = {i} /\ cfgs[i].exists
  /\ WriteConfiguration(i, Patched(i))
  /\ Finish(cr, Shown(i, cfgsSeen[i].phase))
  /\ UNCHANGED <<setting, resetting, history>>

-----------------------------------------------------------------------------
(***************************************************************************)
(* ensureConfigurationRemoved, EnsureRemoved.                              *)
(***************************************************************************)
Removing == crSeen.exists /\ crSeen.deleting

Known == crSeen.name # 0 /\ cfgsSeen[crSeen.name].exists

(* A Configuration without its controller's finalizer goes at once. *)
Deleted(c) ==
  IF c.finalizer THEN [c EXCEPT !.deleting = TRUE] ELSE [c EXCEPT !.exists = FALSE]

(* Faulty: the Configuration is waited for and not deleted. *)
AwaitOnly ==
  /\ Removing /\ Known /\ ~cfgsSeen[crSeen.name].deleting
  /\ Finish(cr, Says("Deleting"))
  /\ UNCHANGED <<configurations, setting, resetting, history>>

DeleteConfiguration ==
  /\ Removing /\ Known /\ ~cfgsSeen[crSeen.name].deleting
  /\ cfgs[crSeen.name].exists
  /\ WriteConfiguration(crSeen.name, Deleted(cfgs[crSeen.name]))
  /\ Finish(cr, Says("Deleting"))
  /\ UNCHANGED <<setting, resetting, history>>

AwaitConfiguration ==
  /\ Removing /\ Known /\ cfgsSeen[crSeen.name].deleting
  /\ Finish(cr, Says(IF cfgsSeen[crSeen.name].phase = "destroyFailed"
                     THEN "ActionRequired" ELSE "Deleting"))
  /\ UNCHANGED <<configurations, setting, resetting, history>>

ReleaseOrder ==
  /\ Removing /\ ~Known /\ crSeen = cr
  /\ WriteOrder([cr EXCEPT !.exists = FALSE])
  /\ UNCHANGED <<configurations, setting, resetting, faults, history>>

OrderRun ==
  \/ EnsureFinalizer \/ RevisionMissing \/ CallFails \/ MultipleConfigurations
  \/ NotRendered \/ DeleteConfiguration \/ AwaitConfiguration \/ ReleaseOrder
  \/ \E i \in Names :
       ConfigurationGone(i) \/ CreateConfiguration(i) \/ PatchConfiguration(i)

(* The garbage collector deletes what the CloudResource owned. *)
CollectGarbage(i) ==
  /\ ~cr.exists /\ cfgs[i].exists /\ ~cfgs[i].deleting
  /\ WriteConfiguration(i, Deleted(cfgs[i]))
  /\ UNCHANGED <<orders, setting, resetting, faults, history>>

-----------------------------------------------------------------------------
(***************************************************************************)
(* The Configuration controller, as far as the approval and the end of a   *)
(* Configuration go; the rest of it is module Configuration.  One key is   *)
(* reconciled at a time, so a run of it waits for the one that resets.     *)
(***************************************************************************)
CfgIdle(i) == resetting # i /\ cfgsSeen[i].exists /\ cfgs[i].exists

(* No plan for this generation, or a retry that no run has come after. *)
Unplanned(i) ==
  /\ ~cfgsSeen[i].deleting /\ cfgsSeen[i].finalizer
  /\ \/ cfgsSeen[i].planned # cfgsSeen[i].gen
     \/ cfgsSeen[i].retry # cfgsSeen[i].tried

(* The end of a run stamps the status: a retry set before it is used up. *)
Stamped(c) == [c EXCEPT !.tried = c.retry]

FinalizeConfiguration(i) ==
  /\ CfgIdle(i) /\ ~cfgsSeen[i].deleting /\ ~cfgsSeen[i].finalizer
  /\ cfgsSeen[i] = cfgs[i]
  /\ WriteConfiguration(i, [Stamped(cfgs[i]) EXCEPT !.finalizer = TRUE])
  /\ UNCHANGED <<orders, setting, resetting, faults, history>>

(* ensureTerraformPlan: a plan is due, and no approval is asked for yet.   *)
WithdrawApproval(i) ==
  /\ CfgIdle(i) /\ Unplanned(i)
  /\ ~cfgsSeen[i].spec.auto /\ cfgsSeen[i].apply # "false"
  /\ WriteConfiguration(i, [cfgs[i] EXCEPT !.apply = "false"])
  /\ resetting' = i
  /\ UNCHANGED <<orders, setting, faults, history>>

(* Faulty: the CloudResource is not told. *)
WithdrawFromConfigurationOnly ==
  /\ resetting # 0
  /\ resetting' = 0
  /\ WriteConfiguration(resetting, Stamped(cfgs[resetting]))
  /\ UNCHANGED <<orders, setting, faults, history>>

(* The second half of the same run.  On an object without annotations the *)
(* assignment panics, and the next run finds the Configuration as it wants *)
(* it; so does the run after a patch that failed.                          *)
WithdrawFromOrder ==
  /\ resetting # 0
  /\ resetting' = 0
  /\ \/ /\ crSeen.exists /\ crSeen.apply # "none" /\ cr.exists
        /\ WriteOrder([cr EXCEPT !.apply =
             IF crSeen.apply # "false" THEN "false" ELSE @])
     \/ /\ ~crSeen.exists \/ crSeen.apply = "none" \/ ~cr.exists \/ world.resetFails
        /\ UNCHANGED orders
  /\ WriteConfiguration(resetting, Stamped(cfgs[resetting]))
  /\ UNCHANGED <<setting, faults, history>>

(* Faulty: a plan does not withdraw the approval of the one before. *)
RunPlanApproved(i) ==
  /\ CfgIdle(i) /\ Unplanned(i)
  /\ WriteConfiguration(i, [Stamped(cfgs[i]) EXCEPT
       !.planned = IF cfgs[i].gen = cfgsSeen[i].gen THEN cfgsSeen[i].gen ELSE @,
       !.phase = "waiting"])
  /\ UNCHANGED <<orders, setting, resetting, faults, history>>

RunPlan(i) ==
  /\ CfgIdle(i) /\ Unplanned(i)
  /\ cfgsSeen[i].spec.auto \/ cfgsSeen[i].apply = "false"
  /\ WriteConfiguration(i, [Stamped(cfgs[i]) EXCEPT
       !.planned = IF cfgs[i].gen = cfgsSeen[i].gen THEN cfgsSeen[i].gen ELSE @,
       !.phase = "waiting"])
  /\ UNCHANGED <<orders, setting, resetting, faults, history>>

(* ensureTerraformApply with the plan at hand: an approval that has been   *)
(* withdrawn is waited for again, also when the plan is applied already.   *)
AwaitApproval(i) ==
  /\ CfgIdle(i) /\ ~cfgsSeen[i].deleting /\ cfgsSeen[i].finalizer /\ ~Unplanned(i)
  /\ cfgsSeen[i].phase = "applied"
  /\ ~cfgsSeen[i].spec.auto /\ cfgsSeen[i].apply = "false"
  /\ WriteConfiguration(i, [Stamped(cfgs[i]) EXCEPT !.phase = "waiting"])
  /\ UNCHANGED <<orders, setting, resetting, faults, history>>

RunApply(i) ==
  /\ CfgIdle(i) /\ ~cfgsSeen[i].deleting /\ cfgsSeen[i].finalizer
  /\ ~Unplanned(i) /\ cfgsSeen[i].phase = "waiting"
  /\ cfgsSeen[i].spec.auto \/ cfgsSeen[i].apply = "true"
  /\ WriteConfiguration(i, [Stamped(cfgs[i]) EXCEPT !.phase = "applied"])
  /\ applied' = applied \cup {cfgsSeen[i].of}
  /\ UNCHANGED <<orders, setting, resetting, faults, approved>>

(* The deletion chain: terraform destroy ends well, or fails. *)
RunDestroy(i) ==
  /\ CfgIdle(i) /\ cfgsSeen[i].deleting /\ cfgsSeen[i].phase # "destroyFailed"
  /\ \E c \in {[cfgs[i] EXCEPT !.exists = FALSE],
               [cfgs[i] EXCEPT !.phase = "destroyFailed"]} :
       WriteConfiguration(i, c)
  /\ UNCHANGED <<orders, setting, resetting, faults, history>>

ConfigurationRun(i) ==
  \/ FinalizeConfiguration(i) \/ WithdrawApproval(i)
  \/ RunPlan(i) \/ AwaitApproval(i) \/ RunApply(i) \/ RunDestroy(i)

-----------------------------------------------------------------------------
(***************************************************************************)
(* The user, the platform and the informers.                               *)
(***************************************************************************)
Edit ==
  /\ cr.exists /\ ~cr.deleting /\ cr.gen <= world.edits /\ cr.gen < Len(Specs)
  /\ WriteOrder([cr EXCEPT !.gen = @ + 1])
  /\ UNCHANGED <<configurations, setting, resetting, faults, history>>

(* tnctl approve cloudresource: only an annotation that is "false". *)
ApproveOrder ==
  /\ cr.exists /\ cr.apply = "false"
  /\ WriteOrder([cr EXCEPT !.apply = "true"])
  /\ approved' = approved \cup {cr.gen}
  /\ UNCHANGED <<configurations, setting, resetting, faults, applied>>

(* tnctl approve configuration, on the Configuration of a CloudResource,   *)
(* which writes its own annotation back: once for each generation, or the  *)
(* two go on for ever.                                                     *)
ApproveConfiguration(i) ==
  /\ cfgs[i].exists /\ cfgs[i].apply = "false" /\ cfgs[i].of \notin approved
  /\ WriteConfiguration(i, [cfgs[i] EXCEPT !.apply = "true"])
  /\ approved' = approved \cup {cfgs[i].of}
  /\ UNCHANGED <<orders, setting, resetting, faults, applied>>

RetryOrder ==
  /\ cr.exists /\ cr.retry < world.retries
  /\ WriteOrder([cr EXCEPT !.retry = @ + 1,
                           !.apply = IF @ = "none" THEN "unset" ELSE @])
  /\ UNCHANGED <<configurations, setting, resetting, faults, history>>

DeleteOrder ==
  /\ cr.exists /\ ~cr.deleting
  /\ WriteOrder(IF cr.finalizer THEN [cr EXCEPT !.deleting = TRUE]
                ELSE [cr EXCEPT !.exists = FALSE])
  /\ UNCHANGED <<configurations, setting, resetting, faults, history>>

(* The webhook admits the deletion of a Configuration that is managed by a *)
(* CloudResource; it is made again once it has gone.                       *)
DeleteManaged(i) ==
  /\ cfgs[i].exists /\ ~cfgs[i].deleting
  /\ world.direct /\ cfgs[MaxConfigs].gen = 0
  /\ WriteConfiguration(i, Deleted(cfgs[i]))
  /\ UNCHANGED <<orders, setting, resetting, faults, history>>

(* The plan first loses a version, then the Revision goes. *)
Withdraw(v) ==
  /\ v \in world.withdrawn
  /\ \/ v \in plan /\ plan' = plan \ {v} /\ UNCHANGED revs
     \/ v \in revs \ plan /\ revs' = revs \ {v} /\ UNCHANGED plan
  /\ UNCHANGED <<orders, configurations, world, resetting, faults, history>>

SyncOrder ==
  /\ crSeen # cr /\ crSeen' = cr
  /\ UNCHANGED <<cr, configurations, setting, resetting, faults, history>>

SyncConfiguration(i) ==
  /\ cfgsSeen[i] # cfgs[i]
  /\ cfgsSeen' = [cfgsSeen EXCEPT ![i] = cfgs[i]]
  /\ UNCHANGED <<orders, cfgs, setting, resetting, faults, history>>

Next ==
  \/ OrderRun \/ WithdrawFromOrder
  \/ \E i \in Names : ConfigurationRun(i) \/ CollectGarbage(i)
  \/ Edit \/ ApproveOrder \/ RetryOrder \/ DeleteOrder
  \/ \E i \in Names : ApproveConfiguration(i) \/ DeleteManaged(i)
  \/ \E v \in Versions : Withdraw(v)
  \/ SyncOrder \/ \E i \in Names : SyncConfiguration(i)

Spec == Init /\ [][Next]_vars

(***************************************************************************)
(* A change of either object wakes both controllers, a missing revision is *)
(* looked for every five minutes, watches deliver, garbage is collected.   *)
(***************************************************************************)
Fairness ==
  /\ WF_vars(OrderRun) /\ WF_vars(WithdrawFromOrder) /\ WF_vars(SyncOrder)
  /\ \A i \in Names : /\ WF_vars(ConfigurationRun(i)) /\ WF_vars(CollectGarbage(i))
                      /\ WF_vars(SyncConfiguration(i))

FairSpec == Spec /\ Fairness

-----------------------------------------------------------------------------
(***************************************************************************)
(* What terraform apply runs for was approved by the user while it was     *)
(* what the CloudResource asked for, or approves itself, although the      *)
(* approval has two copies that two controllers write                      *)
(* (ensureConfigurationExists copies it down, ensureTerraformPlan          *)
(* withdraws it on both).                                                  *)
(***************************************************************************)
OrderApproved ==
  world.lag = {} => \A g \in applied : g \in approved \/ Specs[g].auto

(***************************************************************************)
(* A CloudResource that is left alone comes to have one Configuration that *)
(* carries what it asks for: its revision, its own variables before the    *)
(* defaults of the inputs, its own references before the Revision's, if    *)
(* all of these can be set.                                                *)
(***************************************************************************)
Carries(c, s) ==
  /\ c.spec.revision = s.revision
  /\ \A k \in s.sets : c.spec.variables[k] = "own"
  /\ \A k \in Defaults[s.revision] \ s.sets : c.spec.variables[k] = "default"
  /\ \A k \in Fixed[s.revision] : c.spec.variables[k] # "unset"
  /\ s.own <=> c.spec.refs = "own"

Followed ==
  /\ world.lag = {} /\ cr.exists /\ ~cr.deleting
  /\ Specs[cr.gen].revision \in plan /\ Settable(Specs[cr.gen])

OrderFollowed ==
  <>[](Followed =>
         \E i \in Names : /\ cr.name = i /\ cfgs[i].exists
                          /\ \A j \in Names \ {i} : ~cfgs[j].exists
                          /\ Carries(cfgs[i], Specs[cr.gen])
                          /\ cr.shown = cfgs[i].phase)

(***************************************************************************)
(* When a generation waits for approval, the user can give it: the         *)
(* CloudResource comes to carry the annotation that tnctl approve changes  *)
(* (ensureTerraformPlan, tnctl approve).  One that was submitted without   *)
(* annotations is the exception: the run that would tell it panics on the  *)
(* nil map (ensure.go:963), and the next one finds the Configuration's     *)
(* approval withdrawn and does not try again.                              *)
(***************************************************************************)
Awaits(i) ==
  /\ cfgs[i].exists /\ ~cfgs[i].deleting /\ cfgs[i].of = cr.gen
  /\ ~cfgs[i].spec.auto
  /\ cfgs[i].phase = "waiting" /\ cfgs[i].planned = cfgs[i].gen

ApprovalAsked ==
  world.manifest # "none" =>
    []<>~(\E i \in Names : /\ Awaits(i) /\ cr.exists /\ cr.gen \notin approved
                            /\ cr.apply # "false")

(***************************************************************************)
(* An approval given on the CloudResource is carried out, unless the       *)
(* CloudResource or its Configuration is changed or deleted meanwhile      *)
(* (ensureConfigurationExists, ensureTerraformApply).                      *)
(***************************************************************************)
ApprovalCarried ==
  []<>~(/\ world.lag = {} /\ cr.exists /\ ~cr.deleting
        /\ Specs[cr.gen].revision \in plan
        /\ cr.gen \in approved \ applied /\ cr.apply = "true"
        /\ \E i \in Names : Awaits(i))

(***************************************************************************)
(* Deleting a CloudResource ends with all its Configurations gone, the     *)
(* ones it created twice because of a stale cache or lost the name of      *)
(* included, unless a destroy that failed holds it up                      *)
(* (ensureConfigurationRemoved, the owner reference).                      *)
(***************************************************************************)
OrderRemoved ==
  (cr.deleting \/ ~cr.exists) ~>
    \/ \A i \in Names : ~cfgs[i].exists
    \/ \E i \in Names : cfgs[i].exists /\ cfgs[i].phase = "destroyFailed"

=============================================================================
