---------------------------- MODULE Configuration ----------------------------
(***************************************************************************)
(* One Configuration object and the Configuration controller that          *)
(* reconciles it (pkg/controller/configuration), together with what it     *)
(* shares state with: the API server's copy of the object, the             *)
(* controller's informer caches, the Terraform jobs it creates, the        *)
(* secrets those jobs upload, and the cloud they change.                   *)
(*                                                                         *)
(* A reconcile reads the CACHED object and the CACHED job list, runs the   *)
(* chain of ensure functions until one of them stops it, and patches the   *)
(* status of the object on the API server.  Each action named Ensure...    *)
(* or Reconcile... below is one whole run of the chain that stops at the   *)
(* function the action is named after; the conjuncts before the effect     *)
(* say that every earlier function of the chain let the run pass.          *)
(*                                                                         *)
(* Variables:                                                              *)
(*   cfg        the object as stored by the API server                     *)
(*   cache      the object as the controller's informer last saw it        *)
(*   queued     whether the workqueue holds the object's key               *)
(*   jobs       every Terraform job created so far, by order of creation   *)
(*   njobs      how many jobs have been created                            *)
(*   seen       for every job, what the controller's job informer shows:   *)
(*              "none" until the informer has delivered it                 *)
(*   planSecret the tfplan-json secret: the plan job that wrote it last    *)
(*              (its time stamp is the plan's ID) and whether the plan     *)
(*              has changes                                                *)
(*   report     the policy report secret: the plan job that wrote it last  *)
(*   verdict    what the policy scan of each plan found (history)          *)
(*   tfState    the Terraform state secret: absent, empty, or resources    *)
(*   shown      the plan, report and state secrets as the controller's     *)
(*              informer last saw them                                     *)
(*   vouched    whether the run that last found the apply stage done read  *)
(*              these secrets as they were stored (history)                *)
(*   cloud      the generation the cloud was last brought to, 0 when it    *)
(*              matches none, and whether managed resources exist          *)
(*   policyOn   whether a checkov constraint matches the Configuration     *)
(*   missing    the prerequisites that are not met right now               *)
(*   crApply    the apply annotation of the owning CloudResource           *)
(*   faults     failed API calls and crashes so far                        *)
(*   approved   generations approved by the user while they were current,  *)
(*              or by their own spec (history)                             *)
(*   planned    generations a plan job was created for (history)           *)
(***************************************************************************)
EXTENDS Naturals, FiniteSets

CONSTANTS
  MaxGeneration,  \* bound: metadata.generation
  MaxRetry,       \* bound: retry annotations the user sets
  MaxDrift,       \* bound: drift annotations the drift controller sets
  MaxJobs,        \* bound: Terraform jobs
  MaxFaults,      \* bound: failed API calls and crashes
  Flaky,          \* the prerequisites that may come and go
  ZeroGens,       \* generations whose module declares no managed resource
  AutoSettings,   \* input: the values of spec.enableAutoApproval
  DriftSettings,  \* input: the values of spec.enableDriftDetection
  Deletes,        \* input: the orphan annotations the user deletes with
  Reports,        \* input: what a checkov scan may find
  PolicyChanges,  \* input: whether a matching constraint may come, and go
  Managed,        \* the Configuration is owned by a CloudResource
  ReadYourWrites, \* the caches show the controller's own writes at once
  SecretsLag,     \* the secrets a job writes take their time to be shown
  Expiry          \* finished jobs outlive their TTL and are removed

(***************************************************************************)
(* The prerequisites checked by the chain, in the order in which it checks *)
(* them: the ones before ensureNoActivity, the ones after it, and the ones *)
(* of the deletion chain.                                                  *)
(***************************************************************************)
BeforeActivity == <<"reconcileAnnotation", "capturedState",
                    "configurationThreshold">>

AfterActivity == <<"costSecret", "valueFromSecret", "authenticationSecret",
                   "customJobTemplate", "providerReady", "providerPermits",
                   "backendTemplate", "policyDefaults", "jobConfiguration">>

DeletionChain == <<"capturedState", "providerReady", "providerPermits",
                   "backendTemplate", "policyDefaults", "valueFromSecret",
                   "authenticationSecret", "customJobTemplate",
                   "jobConfiguration">>

Prerequisites == {"reconcileAnnotation", "capturedState",
  "configurationThreshold", "costSecret", "valueFromSecret", "authenticationSecret",
  "customJobTemplate", "providerReady", "providerPermits", "backendTemplate",
  "policyDefaults", "jobConfiguration"}

(***************************************************************************)
(* A prerequisite that is not met stops the run.  These return ErrIgnore,  *)
(* and the key leaves the queue; the others ask to be requeued, or fail    *)
(* with an error, which requeues as well.                                  *)
(***************************************************************************)
Ignored == {"reconcileAnnotation", "customJobTemplate", "providerPermits",
            "backendTemplate"}

ASSUME BoundsAssumption ==
  /\ MaxGeneration \in Nat \ {0} /\ MaxJobs \in Nat \ {0}
  /\ MaxRetry \in Nat /\ MaxDrift \in Nat /\ MaxFaults \in Nat

ASSUME SettingsAssumption ==
  /\ Flaky \subseteq Prerequisites /\ ZeroGens \subseteq Nat
  /\ AutoSettings \subseteq BOOLEAN /\ DriftSettings \subseteq BOOLEAN
  /\ Deletes \subseteq BOOLEAN /\ PolicyChanges \subseteq BOOLEAN
  /\ Reports \subseteq {"passed", "failed", "malformed"}
  /\ {Managed, ReadYourWrites, SecretsLag, Expiry} \subseteq BOOLEAN

VARIABLES cfg, cache, queued, jobs, njobs, seen, planSecret, report, verdict,
          tfState, shown, vouched, cloud, policyOn, missing, crApply, faults,
          approved, planned

storedSecrets == <<planSecret, report, verdict, tfState>>

secrets == <<storedSecrets, shown, vouched>>

environment == <<cloud, policyOn, missing>>

vars == <<cfg, cache, queued, jobs, njobs, seen, secrets, environment,
          crApply, faults, approved, planned>>

-----------------------------------------------------------------------------
(***************************************************************************)
(* Types.  The status conditions keep the reason and the observed          *)
(* generation; status True is exactly the reason Ready, and CallError is   *)
(* the reason Error with the message of a failed API call.  An annotation  *)
(* that holds a time stamp is a number, 0 when it is not set.  retryState  *)
(* is how the retry annotation compares with status.lastReconcile.time:    *)
(* later ("fresh"), not later ("used"), or not a number ("invalid").       *)
(***************************************************************************)
Generations == 0..(MaxGeneration + 1)
JobIds == 1..MaxJobs
Reasons == {"NotDetermined", "InProgress", "Ready", "Error", "CallError",
            "ActionRequired", "Warning"}
Condition == [reason : Reasons, gen : Generations]
ConditionTypes == {"provider", "plan", "policy", "apply", "ready"}
Annotation == {"unset", "false", "true"}

Object ==
  [exists : BOOLEAN, gen : Generations, auto : BOOLEAN, drift : BOOLEAN,
   apply : Annotation, retry : 0..MaxRetry,
   retryState : {"fresh", "used", "invalid"}, driftAt : 0..MaxDrift,
   orphan : BOOLEAN, deleting : BOOLEAN, finalizer : BOOLEAN,
   conds : [ConditionTypes -> Condition], lastReconcile : Generations,
   resources : {"unset", "zero", "some"}, driftSeen : 0..MaxDrift,
   sync : {"OutOfSync", "InSync", "Deleting", "DeletionFailed"}]

Phases == {"none", "active", "complete", "failed", "gone"}

Job == [stage : {"none", "plan", "apply", "destroy"}, gen : Generations,
        retry : 0..MaxRetry, drift : 0..MaxDrift, plan : 0..MaxJobs,
        scan : BOOLEAN, step : 0..2, phase : Phases, removed : BOOLEAN,
        current : BOOLEAN, beside : BOOLEAN]

PlanSecret == [job : 0..MaxJobs, changes : BOOLEAN]
StateSecret == {"absent", "empty", "some"}
SecretView == [plan : PlanSecret, report : 0..MaxJobs, state : StateSecret]
Verdicts == {"none", "passed", "failed", "malformed"}

(***************************************************************************)
(* The type of every variable.                                             *)
(***************************************************************************)
TypeOK ==
  /\ cfg \in Object /\ cache \in Object /\ queued \in BOOLEAN
  /\ jobs \in [JobIds -> Job] /\ njobs \in 0..MaxJobs
  /\ seen \in [JobIds -> Phases]
  /\ planSecret \in PlanSecret
  /\ report \in 0..MaxJobs
  /\ verdict \in [JobIds -> Verdicts]
  /\ tfState \in StateSecret
  /\ shown \in SecretView /\ vouched \in BOOLEAN
  /\ cloud \in [at : Generations, resources : BOOLEAN]
  /\ policyOn \in BOOLEAN /\ missing \subseteq Flaky
  /\ crApply \in Annotation
  /\ faults \in 0..MaxFaults
  /\ approved \subseteq Generations /\ planned \subseteq Generations

NoCondition == [reason |-> "NotDetermined", gen |-> 0]

NoJob == [stage |-> "none", gen |-> 0, retry |-> 0, drift |-> 0, plan |-> 0,
          scan |-> FALSE, step |-> 0, phase |-> "none", removed |-> FALSE,
          current |-> TRUE, beside |-> FALSE]

(***************************************************************************)
(* The manager's client reads secrets from an informer of their own        *)
(* (server.go): a run may find a job complete and still be shown the plan, *)
(* the report or the state from before it.  A write of the controller is   *)
(* shown at once when ReadYourWrites.  Needs the secrets' next values.     *)
(***************************************************************************)
Stored == [plan |-> planSecret, report |-> report, state |-> tfState]

SecretsWritten(own) ==
  shown' = IF SecretsLag /\ ~(own /\ ReadYourWrites) THEN shown ELSE Stored'

BySpec(o) == IF o.auto THEN {o.gen} ELSE {}

(***************************************************************************)
(* A Configuration as the user submits it: the manifest may already carry  *)
(* the apply annotation.  The controller starts with synced caches.        *)
(***************************************************************************)
Init ==
  /\ \E auto \in AutoSettings, drift \in DriftSettings, apply \in Annotation :
       cfg = [exists |-> TRUE, gen |-> 1, auto |-> auto, drift |-> drift,
              apply |-> apply, retry |-> 0, retryState |-> "used",
              driftAt |-> 0, orphan |-> FALSE, deleting |-> FALSE,
              finalizer |-> FALSE,
              conds |-> [t \in ConditionTypes |-> NoCondition],
              lastReconcile |-> 0, resources |-> "unset", driftSeen |-> 0,
              sync |-> "OutOfSync"]
  /\ cache = cfg
  /\ queued = TRUE
  /\ jobs = [i \in JobIds |-> NoJob]
  /\ njobs = 0
  /\ seen = [i \in JobIds |-> "none"]
  /\ planSecret = [job |-> 0, changes |-> FALSE]
  /\ report = 0
  /\ verdict = [i \in JobIds |-> "none"]
  /\ tfState = "absent"
  /\ shown = Stored
  /\ vouched = FALSE
  /\ cloud = [at |-> 0, resources |-> FALSE]
  /\ policyOn \in (IF Reports = {} THEN {FALSE} ELSE BOOLEAN)
  /\ missing = {}
  /\ crApply = IF Managed THEN cfg.apply ELSE "unset"
  /\ faults = 0
  /\ approved = BySpec(cfg)
  /\ planned = {}

-----------------------------------------------------------------------------
(***************************************************************************)
(* Conditions (pkg/controller/status.go, apis/core condition_types.go).    *)
(***************************************************************************)
IsComplete(c, g) == c.reason = "Ready" /\ c.gen = g
IsFailed(c, g) == c.reason \in {"Error", "CallError"} /\ c.gen = g

SetCondition(o, type, reason) ==
  [o EXCEPT !.conds[type] = [reason |-> reason, gen |-> o.gen]]

(***************************************************************************)
(* Job filters (pkg/utils/filters/jobs.go) over the cached job list.  A    *)
(* label whose wanted value is empty filters nothing.                      *)
(***************************************************************************)
Listed == {i \in JobIds : seen[i] \in {"active", "complete", "failed"}}

WithLabel(wanted, value) == wanted = 0 \/ value = wanted

(* Faulty: a plan of any generation is taken for this one. *)
PlanJobsOfAnyGeneration(o) ==
  {i \in Listed : /\ jobs[i].stage = "plan"
                  /\ WithLabel(o.driftAt, jobs[i].drift)
                  /\ WithLabel(o.retry, jobs[i].retry)}

PlanJobs(o) ==
  {i \in Listed : /\ jobs[i].stage = "plan"
                  /\ jobs[i].gen = o.gen
                  /\ WithLabel(o.driftAt, jobs[i].drift)
                  /\ WithLabel(o.retry, jobs[i].retry)}

(* Faulty: a failed apply is not found again. *)
ApplyJobsNotFailed(o) ==
  {i \in Listed : /\ jobs[i].stage = "apply"
                  /\ jobs[i].gen = o.gen
                  /\ jobs[i].plan = shown.plan.job
                  /\ seen[i] # "failed"}

ApplyJobs(o) ==
  {i \in Listed : /\ jobs[i].stage = "apply"
                  /\ jobs[i].gen = o.gen
                  /\ jobs[i].plan = shown.plan.job}

DestroyJobs(o) ==
  {i \in Listed : /\ jobs[i].stage = "destroy"
                  /\ jobs[i].gen = o.gen
                  /\ WithLabel(o.retry, jobs[i].retry)}

Latest(S) == CHOOSE i \in S : \A k \in S : k <= i

(***************************************************************************)
(* What decides whether the plan stage runs (configuration_types.go and    *)
(* the switch at the top of ensureTerraformPlan).                          *)
(***************************************************************************)
IsRetryable(o) == o.retry # 0 /\ o.lastReconcile # 0 /\ o.retryState = "fresh"
RetryInvalid(o) == o.retryState = "invalid"
NeedsApproval(o) == o.apply = "false"

PlanIgnored(o) ==
  ~RetryInvalid(o) /\ ~IsRetryable(o) /\ IsFailed(o.conds["plan"], o.gen)

(* Faulty: a complete plan is not run again for a drift check. *)
PlanSkippedDespiteDrift(o) ==
  ~RetryInvalid(o) /\ ~IsRetryable(o) /\ IsComplete(o.conds["plan"], o.gen)

PlanSkipped(o) ==
  /\ ~RetryInvalid(o) /\ ~IsRetryable(o)
  /\ IsComplete(o.conds["plan"], o.gen)
  /\ ~o.drift \/ o.driftAt = 0

PlanRuns(o) == ~RetryInvalid(o) /\ ~PlanIgnored(o) /\ ~PlanSkipped(o)

-----------------------------------------------------------------------------
(***************************************************************************)
(* The end of every run (EnsureRunner.Run): with the object read as cache  *)
(* and computed as n, the status fields that changed are merge-patched     *)
(* onto the stored object.  lastReconcile is stamped whenever anything     *)
(* changed or the generation is new, and the stamp is later than any retry *)
(* annotation set so far.  The conditions are one list and are replaced    *)
(* together.  A stored object that is gone stays as it is.                 *)
(***************************************************************************)
StatusPatch(stored, n) ==
  LET stamped == n # cache \/ n.lastReconcile # n.gen
  IN  IF ~stored.exists THEN stored ELSE
      [stored EXCEPT
         !.conds = IF n.conds # cache.conds THEN n.conds ELSE @,
         !.resources = IF n.resources # cache.resources THEN n.resources ELSE @,
         !.sync = IF n.sync # cache.sync THEN n.sync ELSE @,
         !.driftSeen = IF n.driftSeen # cache.driftSeen THEN n.driftSeen ELSE @,
         !.lastReconcile = IF stamped THEN n.gen ELSE @,
         !.retryState = IF stamped /\ @ = "fresh" THEN "used" ELSE @]

(* Faulty: the retry and drift annotations do not wake the controller. *)
TriggersOnApproval(old, new) ==
  old.gen # new.gen \/ old.exists # new.exists \/ old.apply # new.apply

(* Faulty: a new generation does not wake the controller. *)
TriggersOnAnnotations(old, new) ==
  \/ old.exists # new.exists \/ old.apply # new.apply
  \/ old.retry # new.retry \/ old.driftAt # new.driftAt

(***************************************************************************)
(* The events the controller is woken by: a new generation, a changed      *)
(* annotation, or the object's removal (WithEventFilter).                  *)
(***************************************************************************)
Triggers(old, new) ==
  \/ old.gen # new.gen \/ old.exists # new.exists
  \/ old.apply # new.apply \/ old.retry # new.retry
  \/ old.driftAt # new.driftAt

Shown(j) == IF j.removed THEN "gone" ELSE j.phase

(***************************************************************************)
(* Ends a run: stored is the object after the run's other writes, n the    *)
(* object as the run computed it, again whether the result requeues.  The  *)
(* status patch may fail, or the controller may crash before it.  Needs    *)
(* jobs' to be fixed already.                                              *)
(***************************************************************************)
Finish(stored, n, again) ==
  /\ \/ /\ cfg' = StatusPatch(stored, n)
        /\ queued' = (again \/ (ReadYourWrites /\ Triggers(cache, cfg')))
        /\ UNCHANGED faults
     \/ /\ faults < MaxFaults
        /\ cfg' = stored
        /\ queued' = TRUE
        /\ faults' = faults + 1
  /\ cache' = IF ReadYourWrites THEN cfg' ELSE cache
  /\ seen' = IF ReadYourWrites THEN [i \in JobIds |-> Shown(jobs'[i])] ELSE seen

(***************************************************************************)
(* A run in which an API call failed: n carries the condition that says    *)
(* so, and the returned error requeues the key.                            *)
(***************************************************************************)
FinishFailed(stored, n) ==
  /\ faults < MaxFaults
  /\ faults' = faults + 1
  /\ cfg' = StatusPatch(stored, n)
  /\ queued' = TRUE
  /\ cache' = IF ReadYourWrites THEN cfg' ELSE cache
  /\ seen' = IF ReadYourWrites THEN [i \in JobIds |-> Shown(jobs'[i])] ELSE seen

NoJobCreated == UNCHANGED <<jobs, njobs, planned>>

(***************************************************************************)
(* Every job carries the labels of its stage: the retry and drift          *)
(* annotations on a plan, the plan's ID on an apply, the retry annotation  *)
(* on a destroy.  Two fields are history: whether the run that created an  *)
(* apply was shown the secrets as they were stored, and whether an apply   *)
(* was running when a destroy was created.                                 *)
(***************************************************************************)
Applying == \E i \in JobIds : jobs[i].stage = "apply" /\ jobs[i].phase = "active"

CreateJob(stage, o, plan) ==
  /\ njobs < MaxJobs
  /\ njobs' = njobs + 1
  /\ jobs' = [jobs EXCEPT ![njobs + 1] =
       [stage |-> stage, gen |-> o.gen,
        retry |-> IF stage = "apply" THEN 0 ELSE o.retry,
        drift |-> IF stage = "plan" THEN o.driftAt ELSE 0,
        plan |-> plan, scan |-> policyOn,
        step |-> 0, phase |-> "active", removed |-> FALSE,
        current |-> stage = "apply" => shown = Stored,
        beside |-> stage = "destroy" /\ Applying]]

-----------------------------------------------------------------------------
(***************************************************************************)
(* The first part of the chain.                                            *)
(***************************************************************************)
Reconciling == queued /\ cache.exists
Live == Reconciling /\ ~cache.deleting

(* The object is gone: the run ends at once. *)
ReconcileNotFound ==
  /\ queued /\ ~cache.exists
  /\ queued' = FALSE
  /\ UNCHANGED <<cfg, cache, jobs, njobs, seen, secrets, environment,
                 crApply, faults, approved, planned>>

(* The finalizer is written with an update, which a stale read makes       *)
(* conflict; both outcomes requeue at once.                                *)
EnsureFinalizerPresent ==
  /\ Live /\ ~cache.finalizer
  /\ NoJobCreated
  /\ Finish(IF cache = cfg THEN [cfg EXCEPT !.finalizer = TRUE] ELSE cfg,
            [cache EXCEPT !.finalizer = TRUE], TRUE)
  /\ UNCHANGED <<secrets, environment, crApply, approved>>

Met(chain) == \A k \in DOMAIN chain : chain[k] \notin missing

FirstMissing(chain, k) ==
  chain[k] \in missing /\ \A m \in 1..(k - 1) : chain[m] \notin missing

(* The object once the provider has been found ready. *)
Prepared == SetCondition(cache, "provider", "Ready")

(* A prerequisite at position k of the chain is not met. *)
StoppedAt(chain, k) ==
  LET passed == \E m \in 1..(k - 1) : chain[m] = "providerReady"
      o == IF passed THEN Prepared ELSE cache
  IN  CASE chain[k] \in {"reconcileAnnotation", "configurationThreshold"}
             -> SetCondition(o, "ready", "Warning")
        [] chain[k] = "providerReady" -> SetCondition(o, "provider", "Warning")
        [] chain[k] = "providerPermits" -> SetCondition(o, "provider", "ActionRequired")
        [] chain[k] = "jobConfiguration" -> SetCondition(o, "policy", "Error")
        [] OTHER -> SetCondition(o, "ready", "ActionRequired")

StopAtMissing(chain) ==
  /\ NoJobCreated
  /\ \E k \in DOMAIN chain :
       /\ FirstMissing(chain, k)
       /\ Finish(cfg, StoppedAt(chain, k), chain[k] \notin Ignored)
  /\ UNCHANGED <<secrets, environment, crApply, approved>>

(* Faulty: only jobs of another generation of the Configuration count. *)
ActivityOfOthers ==
  \E i \in Listed : seen[i] = "active" /\ jobs[i].gen # cache.gen

(* ensureNoActivity compares the generation of the job object itself, which *)
(* is 1, with the generation of the Configuration.                          *)
Activity == cache.gen # 1 /\ \E i \in Listed : seen[i] = "active"

EnsurePrerequisites ==
  /\ Live /\ cache.finalizer
  /\ \/ StopAtMissing(BeforeActivity)
     \/ Met(BeforeActivity) /\ ~Activity /\ StopAtMissing(AfterActivity)

EnsureNoActivity ==
  /\ Live /\ cache.finalizer /\ Met(BeforeActivity) /\ Activity
  /\ NoJobCreated
  /\ Finish(cfg, cache, TRUE)
  /\ UNCHANGED <<secrets, environment, crApply, approved>>

ReachesPlan ==
  /\ Live /\ cache.finalizer
  /\ Met(BeforeActivity) /\ ~Activity /\ Met(AfterActivity)

-----------------------------------------------------------------------------
(***************************************************************************)
(* ensureTerraformPlan.                                                    *)
(***************************************************************************)
PlanInvalidRetry ==
  /\ ReachesPlan /\ RetryInvalid(cache)
  /\ NoJobCreated
  /\ Finish(cfg, SetCondition(Prepared, "plan", "Error"), FALSE)
  /\ UNCHANGED <<secrets, environment, crApply, approved>>

PlanFailedBefore ==
  /\ ReachesPlan /\ PlanIgnored(cache)
  /\ NoJobCreated
  /\ Finish(cfg, Prepared, FALSE)
  /\ UNCHANGED <<secrets, environment, crApply, approved>>

NoPlanJob == ReachesPlan /\ PlanRuns(cache) /\ PlanJobs(cache) = {}

(* Faulty: an approval outlives the generation it was given for. *)
NeverReset == FALSE

MustReset == ~cache.auto /\ ~NeedsApproval(cache)

(* Without auto approval, the apply annotation is set to "false" before a   *)
(* plan is started, on the Configuration and then on its CloudResource.     *)
(* The response of the first patch overwrites the object read so far.       *)
RequireApproval ==
  LET held(o) == [o EXCEPT !.apply = "false"]
  IN  /\ NoPlanJob /\ MustReset
      /\ NoJobCreated
      /\ \/ /\ crApply' = IF Managed THEN "false" ELSE crApply
            /\ Finish(held(cfg), held(cfg), TRUE)
         \/ /\ UNCHANGED crApply
            /\ FinishFailed(cfg, SetCondition(Prepared, "plan", "CallError"))
         \/ /\ Managed
            /\ UNCHANGED crApply
            /\ FinishFailed(held(cfg), SetCondition(held(cfg), "plan", "CallError"))
      /\ UNCHANGED <<secrets, environment, approved>>

(* Faulty: nothing looks at the job again. *)
CreatePlanAndForget ==
  /\ NoPlanJob /\ ~MustReset
  /\ CreateJob("plan", cache, 0)
  /\ planned' = planned \cup {cache.gen}
  /\ Finish(cfg, SetCondition(Prepared, "plan", "InProgress"), FALSE)
  /\ UNCHANGED <<secrets, environment, crApply, approved>>

CreatePlan ==
  /\ NoPlanJob /\ ~MustReset
  /\ \/ /\ CreateJob("plan", cache, 0)
        /\ planned' = planned \cup {cache.gen}
        /\ Finish(cfg, SetCondition(Prepared, "plan", "InProgress"), TRUE)
     \/ /\ NoJobCreated
        /\ FinishFailed(cfg, SetCondition(Prepared, "plan", "CallError"))
  /\ UNCHANGED <<secrets, environment, crApply, approved>>

PlanJobIs(phase) ==
  /\ PlanRuns(cache) /\ PlanJobs(cache) # {}
  /\ seen[Latest(PlanJobs(cache))] = phase

PlanRunning ==
  /\ ReachesPlan /\ PlanJobIs("active")
  /\ NoJobCreated
  /\ Finish(cfg, SetCondition(Prepared, "plan", "InProgress"), TRUE)
  /\ UNCHANGED <<secrets, environment, crApply, approved>>

(* ensureErrorDetection requeues while the pod of the failed job runs. *)
PlanFails ==
  /\ ReachesPlan /\ PlanJobIs("failed")
  /\ NoJobCreated
  /\ \E podRuns \in BOOLEAN :
       Finish(cfg, SetCondition(Prepared, "plan", "Error"), podRuns)
  /\ UNCHANGED <<secrets, environment, crApply, approved>>

PlanComplete == ReachesPlan /\ (PlanSkipped(cache) \/ PlanJobIs("complete"))

Planned ==
  IF PlanSkipped(cache) THEN Prepared ELSE SetCondition(Prepared, "plan", "Ready")

(* ensureTerraformPlanSecret: a plan that is not shown ends the run, and    *)
(* nothing wakes the controller when the informer delivers it.              *)
PlanSecretMissing ==
  /\ PlanComplete /\ shown.plan.job = 0
  /\ NoJobCreated
  /\ Finish(cfg, SetCondition(Planned, "ready", "Error"), FALSE)
  /\ UNCHANGED <<secrets, environment, crApply, approved>>

PlanPassed == PlanComplete /\ shown.plan.job # 0

-----------------------------------------------------------------------------
(***************************************************************************)
(* ensurePolicyStatus: the report is the one the secret is shown to hold.   *)
(***************************************************************************)
StopAtPolicy(reason, again) ==
  /\ PlanPassed /\ policyOn
  /\ NoJobCreated
  /\ Finish(cfg, SetCondition(Planned, "policy", reason), again)
  /\ UNCHANGED <<secrets, environment, crApply, approved>>

PolicyReportMissing == shown.report = 0 /\ StopAtPolicy("Warning", TRUE)

ReportFinds(v) == shown.report # 0 /\ verdict[shown.report] = v

PolicyReportMalformed == ReportFinds("malformed") /\ StopAtPolicy("Error", FALSE)

PolicyFailed == ReportFinds("failed") /\ StopAtPolicy("ActionRequired", FALSE)

(* Faulty: a report that cannot be read passes. *)
PolicyNotFailed ==
  PlanPassed /\ (policyOn => shown.report # 0 /\ ~ReportFinds("failed"))

PolicyPassed == PlanPassed /\ (policyOn => ReportFinds("passed"))

(* The object after ensurePolicyStatus and ensureDriftDetection. *)
Checked ==
  [SetCondition(Planned, "policy", "Ready") EXCEPT
     !.driftSeen = IF cache.drift THEN cache.driftAt ELSE @]

-----------------------------------------------------------------------------
(***************************************************************************)
(* ensureTerraformApply and the rest of the chain.                         *)
(***************************************************************************)
(* Faulty: the plan's changes are not looked at. *)
NothingOnceApplied == PolicyPassed /\ shown.state # "absent"

NothingToApply == PolicyPassed /\ ~shown.plan.changes /\ shown.state # "absent"

(***************************************************************************)
(* The end of the chain, with the object as the apply stage leaves it:     *)
(* ensureConnectionSecret reads the state secret, writes its outputs into  *)
(* a secret of the user's, which may fail, and ensureTerraformStatus       *)
(* counts the resources in it.                                             *)
(***************************************************************************)
Applied(o) == [SetCondition(o, "apply", "Ready") EXCEPT !.sync = "InSync"]

Completed(o) ==
  [SetCondition(Applied(o), "ready", "Ready") EXCEPT
     !.resources = IF shown.state = "some" THEN "some" ELSE "zero"]

EndOfChain(o) ==
  /\ \/ /\ shown.state = "absent"
        /\ Finish(cfg, SetCondition(Applied(o), "ready", "Error"), FALSE)
     \/ /\ shown.state # "absent"
        /\ Finish(cfg, Completed(o), FALSE)
     \/ /\ shown.state # "absent"
        /\ FinishFailed(cfg, SetCondition(Applied(o), "ready", "CallError"))
  /\ vouched' = (shown = Stored)
  /\ UNCHANGED <<storedSecrets, shown, environment, crApply, approved>>

ApplySkipped == NothingToApply /\ NoJobCreated /\ EndOfChain(Checked)

ReachesApply == PolicyPassed /\ ~NothingToApply

(* Faulty: the approval is not waited for. *)
NeverHeld == FALSE

Held == NeedsApproval(cache) /\ ~cache.auto

WaitForApproval ==
  /\ ReachesApply /\ Held
  /\ NoJobCreated
  /\ Finish(cfg,
            [SetCondition(SetCondition(Checked, "apply", "ActionRequired"),
                          "ready", "InProgress") EXCEPT !.sync = "OutOfSync"],
            FALSE)
  /\ UNCHANGED <<secrets, environment, crApply, approved>>

CreateApply ==
  LET o == [Checked EXCEPT !.sync = "OutOfSync"]
  IN  /\ ReachesApply /\ ~Held /\ ApplyJobs(cache) = {}
      /\ UNCHANGED planned
      /\ \/ /\ CreateJob("apply", cache, shown.plan.job)
            /\ Finish(cfg, SetCondition(o, "apply", "InProgress"), TRUE)
         \/ /\ UNCHANGED <<jobs, njobs>>
            /\ FinishFailed(cfg, SetCondition(o, "apply", "CallError"))
      /\ UNCHANGED <<secrets, environment, crApply, approved>>

ApplyJobIs(phase) ==
  /\ ReachesApply /\ ~Held /\ ApplyJobs(cache) # {}
  /\ seen[Latest(ApplyJobs(cache))] = phase

ApplyRunning ==
  /\ ApplyJobIs("active")
  /\ NoJobCreated
  /\ Finish(cfg, SetCondition(Checked, "apply", "InProgress"), TRUE)
  /\ UNCHANGED <<secrets, environment, crApply, approved>>

ApplyFails ==
  /\ ApplyJobIs("failed")
  /\ NoJobCreated
  /\ \E podRuns \in BOOLEAN :
       Finish(cfg, SetCondition(Checked, "apply", "Error"), podRuns)
  /\ UNCHANGED <<secrets, environment, crApply, approved>>

ApplyDone == ApplyJobIs("complete") /\ NoJobCreated /\ EndOfChain(Checked)

-----------------------------------------------------------------------------
(***************************************************************************)
(* The deletion chain (delete.go).  ensureNoActivity is not part of it.    *)
(***************************************************************************)
DeletionBlocked ==
  /\ Reconciling /\ cache.deleting
  /\ StopAtMissing(DeletionChain)

ReachesDestroy == Reconciling /\ cache.deleting /\ Met(DeletionChain)

(* Faulty: a resource count that is not set is taken for zero. *)
DestroySkippedUnlessCounted ==
  cache.orphan \/ cache.resources # "some" \/ shown.state = "absent"

DestroySkipped == cache.orphan \/ cache.resources = "zero" \/ shown.state = "absent"

Destroying == [Prepared EXCEPT !.sync = "Deleting"]

(* The watcher is created after the job, and may fail on its own. *)
CreateDestroy ==
  /\ ReachesDestroy /\ ~DestroySkipped /\ DestroyJobs(cache) = {}
  /\ UNCHANGED planned
  /\ \/ /\ CreateJob("destroy", cache, 0)
        /\ Finish(cfg, SetCondition(Destroying, "ready", "InProgress"), TRUE)
     \/ /\ UNCHANGED <<jobs, njobs>> \/ CreateJob("destroy", cache, 0)
        /\ FinishFailed(cfg, SetCondition(Destroying, "ready", "CallError"))
  /\ UNCHANGED <<secrets, environment, crApply, approved>>

DestroyJobIs(phase) ==
  /\ ReachesDestroy /\ ~DestroySkipped /\ DestroyJobs(cache) # {}
  /\ seen[Latest(DestroyJobs(cache))] = phase

(* Faulty: nothing looks at the job again. *)
DestroyRunningForgotten ==
  /\ DestroyJobIs("active")
  /\ NoJobCreated
  /\ Finish(cfg, SetCondition(Destroying, "ready", "InProgress"), FALSE)
  /\ UNCHANGED <<secrets, environment, crApply, approved>>

DestroyRunning ==
  /\ DestroyJobIs("active")
  /\ NoJobCreated
  /\ Finish(cfg, SetCondition(Destroying, "ready", "InProgress"), TRUE)
  /\ UNCHANGED <<secrets, environment, crApply, approved>>

DestroyFails ==
  /\ DestroyJobIs("failed")
  /\ NoJobCreated
  /\ Finish(cfg,
            [SetCondition(Destroying, "ready", "Error") EXCEPT
               !.sync = "DeletionFailed"], FALSE)
  /\ UNCHANGED <<secrets, environment, crApply, approved>>

(* What the run leaves in the status before it cleans up. *)
Released ==
  IF cache.orphan THEN Prepared
  ELSE IF DestroySkipped THEN Destroying
  ELSE SetCondition(Destroying, "ready", "Ready")

(* The secrets and the listed jobs are deleted and the finalizer removed,   *)
(* again with an update that a stale read makes conflict.  The jobs are     *)
(* deleted without a propagation policy: what an active one runs goes on.   *)
CleanUp ==
  /\ ReachesDestroy
  /\ DestroySkipped \/ DestroyJobIs("complete")
  /\ planSecret' = [job |-> 0, changes |-> FALSE]
  /\ report' = 0
  /\ tfState' = "absent"
  /\ SecretsWritten(TRUE)
  /\ jobs' = [i \in JobIds |->
                IF i \in Listed THEN [jobs[i] EXCEPT !.removed = TRUE]
                                ELSE jobs[i]]
  /\ Finish(IF cache = cfg THEN [cfg EXCEPT !.exists = FALSE] ELSE cfg,
            [Released EXCEPT !.finalizer = FALSE], cache # cfg)
  /\ UNCHANGED <<njobs, planned, verdict, vouched, environment, crApply, approved>>

Reconcile ==
  \/ ReconcileNotFound \/ EnsureFinalizerPresent
  \/ EnsurePrerequisites \/ EnsureNoActivity
  \/ PlanInvalidRetry \/ PlanFailedBefore \/ RequireApproval \/ CreatePlan
  \/ PlanRunning \/ PlanFails \/ PlanSecretMissing
  \/ PolicyReportMissing \/ PolicyReportMalformed \/ PolicyFailed
  \/ ApplySkipped \/ WaitForApproval \/ CreateApply
  \/ ApplyRunning \/ ApplyFails \/ ApplyDone
  \/ DeletionBlocked \/ CreateDestroy \/ DestroyRunning \/ DestroyFails
  \/ CleanUp

-----------------------------------------------------------------------------
(***************************************************************************)
(* The informers and the process: the three caches catch up independently, *)
(* and the manager may be restarted, which lists everything again.         *)
(***************************************************************************)
SyncConfiguration ==
  /\ cache # cfg
  /\ cache' = cfg
  /\ queued' = (queued \/ Triggers(cache, cfg))
  /\ UNCHANGED <<cfg, jobs, njobs, seen, secrets, environment, crApply,
                 faults, approved, planned>>

SyncJobs ==
  /\ seen' = [i \in JobIds |-> Shown(jobs[i])]
  /\ seen' # seen
  /\ UNCHANGED <<cfg, cache, queued, jobs, njobs, secrets, environment,
                 crApply, faults, approved, planned>>

SyncSecrets ==
  /\ shown # Stored
  /\ shown' = Stored
  /\ UNCHANGED <<cfg, cache, queued, jobs, njobs, seen, storedSecrets, vouched,
                 environment, crApply, faults, approved, planned>>

Restart ==
  /\ faults < MaxFaults
  /\ faults' = faults + 1
  /\ cache' = cfg
  /\ seen' = [i \in JobIds |-> Shown(jobs[i])]
  /\ shown' = Stored
  /\ queued' = cfg.exists
  /\ UNCHANGED <<cfg, jobs, njobs, storedSecrets, vouched, environment, crApply,
                 approved, planned>>

-----------------------------------------------------------------------------
(***************************************************************************)
(* The user: edits the spec, approves with `tnctl approve` (which only     *)
(* turns "false" into "true"), retries with `tnctl retry`, deletes.        *)
(***************************************************************************)
Running(i) == jobs[i].phase = "active"
Idle == \A i \in JobIds : ~Running(i)

UserWrites(o) ==
  /\ cfg' = o
  /\ UNCHANGED <<cache, queued, jobs, njobs, seen, secrets, environment,
                 crApply, faults, planned>>

Edit(auto, drift) ==
  /\ cfg.exists /\ ~cfg.deleting /\ cfg.gen < MaxGeneration
  /\ UserWrites([cfg EXCEPT !.gen = @ + 1, !.auto = auto, !.drift = drift])
  /\ approved' = approved \cup BySpec(cfg')

(* Faulty: a value of the annotation the controller does not know. *)
ApproveWithYes ==
  /\ cfg.exists /\ cfg.apply = "false"
  /\ UserWrites([cfg EXCEPT !.apply = "yes"])
  /\ approved' = approved \cup {cfg.gen}

Approve ==
  /\ cfg.exists /\ cfg.apply = "false"
  /\ UserWrites([cfg EXCEPT !.apply = "true"])
  /\ approved' = approved \cup {cfg.gen}

Retry(state) ==
  /\ cfg.exists /\ cfg.retry < MaxRetry
  /\ UserWrites([cfg EXCEPT !.retry = @ + 1, !.retryState = state])
  /\ UNCHANGED approved

(* With the finalizer in place a delete sets the deletion time stamp, which *)
(* is a new generation; without it the object goes at once.                 *)
Delete(orphan) ==
  /\ cfg.exists /\ ~cfg.deleting
  /\ UserWrites(IF cfg.finalizer
                THEN [cfg EXCEPT !.deleting = TRUE, !.gen = @ + 1, !.orphan = orphan]
                ELSE [cfg EXCEPT !.exists = FALSE])
  /\ UNCHANGED approved

-----------------------------------------------------------------------------
(***************************************************************************)
(* The drift controller, as far as this Configuration is concerned: the    *)
(* last plan and the last apply are complete for this generation.          *)
(***************************************************************************)
AnnotateDrift ==
  /\ cache.exists /\ ~cache.deleting /\ cache.drift
  /\ IsComplete(cache.conds["plan"], cache.gen)
  /\ IsComplete(cache.conds["apply"], cache.gen)
  /\ cfg.exists /\ cfg.driftAt < MaxDrift
  /\ UserWrites([cfg EXCEPT !.driftAt = @ + 1])
  /\ UNCHANGED approved

-----------------------------------------------------------------------------
(***************************************************************************)
(* The platform: prerequisites come and go, a policy may start to match,   *)
(* and the cloud may be changed by someone else.                           *)
(***************************************************************************)
PlatformWrites ==
  UNCHANGED <<cfg, cache, jobs, njobs, seen, secrets, crApply, faults,
              approved, planned>>

LosePrerequisite ==
  /\ \E p \in Flaky \ missing : missing' = missing \cup {p}
  /\ queued' = (queued \/ ("reconcileAnnotation" \in missing' \ missing))
  /\ PlatformWrites /\ UNCHANGED <<cloud, policyOn>>

MeetPrerequisite ==
  /\ \E p \in missing : missing' = missing \ {p}
  /\ queued' = (queued \/ ("reconcileAnnotation" \in missing \ missing'))
  /\ PlatformWrites /\ UNCHANGED <<cloud, policyOn>>

MatchPolicy ==
  /\ TRUE \in PolicyChanges /\ ~policyOn /\ policyOn' = TRUE
  /\ PlatformWrites /\ UNCHANGED <<queued, cloud, missing>>

WithdrawPolicy ==
  /\ FALSE \in PolicyChanges /\ policyOn /\ policyOn' = FALSE
  /\ PlatformWrites /\ UNCHANGED <<queued, cloud, missing>>

CloudDrifts ==
  /\ MaxDrift > 0 /\ cloud.at # 0
  /\ cloud' = [cloud EXCEPT !.at = 0]
  /\ PlatformWrites /\ UNCHANGED <<queued, policyOn, missing>>

-----------------------------------------------------------------------------
(***************************************************************************)
(* The Terraform jobs (job.yaml.tpl): a plan job uploads the plan, then    *)
(* scans it if a constraint matched when the job was created (step 1 means *)
(* uploaded, 2 scanned), and completes when all its containers have.       *)
(***************************************************************************)
JobWrites ==
  UNCHANGED <<cfg, cache, queued, njobs, seen, policyOn, missing, crApply,
              faults, approved, planned>>

HasChanges(g) == IF g \in ZeroGens THEN cloud.resources ELSE cloud.at # g

UploadPlan(i) ==
  /\ Running(i) /\ jobs[i].stage = "plan" /\ jobs[i].step = 0
  /\ planSecret' = [job |-> i, changes |-> HasChanges(jobs[i].gen)]
  /\ jobs' = [jobs EXCEPT ![i].step = 1]
  /\ JobWrites /\ UNCHANGED <<report, verdict, tfState, vouched, cloud>>
  /\ SecretsWritten(FALSE)

UploadReport(i, v) ==
  /\ Running(i) /\ jobs[i].stage = "plan" /\ jobs[i].step = 1 /\ jobs[i].scan
  /\ report' = i
  /\ verdict' = [verdict EXCEPT ![i] = v]
  /\ jobs' = [jobs EXCEPT ![i].step = 2]
  /\ JobWrites /\ UNCHANGED <<planSecret, tfState, vouched, cloud>>
  /\ SecretsWritten(FALSE)

CompletePlan(i) ==
  /\ Running(i) /\ jobs[i].stage = "plan"
  /\ jobs[i].step = (IF jobs[i].scan THEN 2 ELSE 1)
  /\ jobs' = [jobs EXCEPT ![i].phase = "complete"]
  /\ JobWrites /\ UNCHANGED <<secrets, cloud>>

FailPlan(i) ==
  /\ Running(i) /\ jobs[i].stage = "plan"
  /\ jobs' = [jobs EXCEPT ![i].phase = "failed"]
  /\ JobWrites /\ UNCHANGED <<secrets, cloud>>

(* What the state secret shows after Terraform has changed the cloud. *)
Recorded(resources) == IF resources THEN "some" ELSE "empty"

FinishTerraform(i, phase, at, resources) ==
  /\ cloud' = [at |-> at, resources |-> resources]
  /\ tfState' = Recorded(resources)
  /\ jobs' = [jobs EXCEPT ![i].phase = phase]
  /\ JobWrites /\ UNCHANGED <<planSecret, report, verdict, vouched>>
  /\ SecretsWritten(FALSE)

CompleteApply(i) ==
  /\ Running(i) /\ jobs[i].stage = "apply"
  /\ FinishTerraform(i, "complete", jobs[i].gen, jobs[i].gen \notin ZeroGens)

(* A failed apply or destroy leaves some of the resources behind. *)
FailApply(i) ==
  /\ Running(i) /\ jobs[i].stage = "apply"
  /\ \E some \in {cloud.resources, jobs[i].gen \notin ZeroGens} :
       FinishTerraform(i, "failed", 0, some)

CompleteDestroy(i) ==
  /\ Running(i) /\ jobs[i].stage = "destroy"
  /\ FinishTerraform(i, "complete", 0, FALSE)

FailDestroy(i) ==
  /\ Running(i) /\ jobs[i].stage = "destroy"
  /\ FinishTerraform(i, "failed", 0, cloud.resources)

(* ttlSecondsAfterFinished: hours after the controller has come to rest. *)
ExpireJob(i) ==
  /\ Expiry /\ jobs[i].phase \in {"complete", "failed"} /\ ~jobs[i].removed
  /\ ~queued /\ seen[i] = jobs[i].phase
  /\ jobs' = [jobs EXCEPT ![i].removed = TRUE]
  /\ JobWrites /\ UNCHANGED <<secrets, cloud>>

JobStep(i) ==
  \/ UploadPlan(i) \/ (\E v \in Reports : UploadReport(i, v))
  \/ CompletePlan(i) \/ FailPlan(i) \/ CompleteApply(i) \/ FailApply(i)
  \/ CompleteDestroy(i) \/ FailDestroy(i)

-----------------------------------------------------------------------------
User ==
  \/ \E auto \in AutoSettings, drift \in DriftSettings : Edit(auto, drift)
  \/ Approve
  \/ \E state \in {"fresh", "invalid"} : Retry(state)
  \/ \E orphan \in Deletes : Delete(orphan)

Platform ==
  LosePrerequisite \/ MeetPrerequisite \/ MatchPolicy \/ WithdrawPolicy
  \/ CloudDrifts

Next ==
  \/ Reconcile \/ SyncConfiguration \/ SyncJobs \/ SyncSecrets \/ Restart
  \/ User \/ AnnotateDrift \/ Platform
  \/ \E i \in JobIds : JobStep(i) \/ ExpireJob(i)

Spec == Init /\ [][Next]_vars

(***************************************************************************)
(* Workqueue keys are taken, watches deliver, and a Terraform job ends.    *)
(***************************************************************************)
Fairness ==
  /\ WF_vars(Reconcile)
  /\ WF_vars(SyncConfiguration) /\ WF_vars(SyncJobs) /\ WF_vars(SyncSecrets)
  /\ \A i \in JobIds : WF_vars(JobStep(i))

FairSpec == Spec /\ Fairness

-----------------------------------------------------------------------------
(***************************************************************************)
(* Approval.  Terraform apply runs only for a generation that was approved *)
(* while it was current: by the user, or by its own enableAutoApproval.    *)
(* The approval of an earlier generation, still on the object as           *)
(* apply=true, never counts for a later one, however stale the caches are  *)
(* (the reset in ensureTerraformPlan, the wait in ensureTerraformApply).   *)
(***************************************************************************)
ApplyApproved ==
  \A i \in JobIds : jobs[i].stage = "apply" => jobs[i].gen \in approved

(***************************************************************************)
(* Why it holds, as an inductive invariant.  For the stored object and for *)
(* the cached one: a generation that approves itself is approved, and one  *)
(* that has been planned carries apply=false until it is approved; a plan  *)
(* condition that is Ready names a generation that has been planned.  No   *)
(* generation is planned before it is submitted.  The cache lags behind,   *)
(* and when it shows the current generation still unapproved while the     *)
(* stored object no longer does, the user has approved it in between.      *)
(***************************************************************************)
Approved(o) ==
  ~o.deleting =>
    /\ o.auto => o.gen \in approved
    /\ o.gen \in planned /\ ~NeedsApproval(o) => o.gen \in approved

PlanKnown(o) ==
  o.conds["plan"].reason = "Ready" => o.conds["plan"].gen \in planned

JobsKnown ==
  \A i \in JobIds :
    /\ i > njobs => jobs[i].stage = "none"
    /\ jobs[i].stage \in {"plan", "apply"} => jobs[i].gen \in planned
    /\ jobs[i].stage = "apply" => jobs[i].gen \in approved

CacheLags ==
  /\ cache.gen \in 1..cfg.gen /\ planned \subseteq 1..cfg.gen
  /\ cache.gen = cfg.gen /\ NeedsApproval(cache) /\ ~NeedsApproval(cfg) =>
       cfg.gen \in approved

ApprovalInv ==
  /\ Approved(cfg) /\ Approved(cache)
  /\ PlanKnown(cfg) /\ PlanKnown(cache)
  /\ JobsKnown /\ CacheLags

(***************************************************************************)
(* The controller implements the approval workflow: see ApprovalWorkflow.  *)
(***************************************************************************)
AppliedGens == {jobs[i].gen : i \in {k \in JobIds : jobs[k].stage = "apply"}}

Workflow == INSTANCE ApprovalWorkflow WITH current <- cfg.gen, applied <- AppliedGens

ImplementsWorkflow == Workflow!Spec

(***************************************************************************)
(* From the second generation on, ensureNoActivity keeps the plan and      *)
(* apply jobs of a Configuration apart: no two of them run together.       *)
(***************************************************************************)
Changing(i) == Running(i) /\ jobs[i].stage \in {"plan", "apply"}

NoOverlap ==
  \A i, k \in JobIds :
    Changing(i) /\ Changing(k) /\ i < k => jobs[k].gen = 1

(***************************************************************************)
(* Policy.  When a checkov constraint matches at the time terraform apply  *)
(* is started, by a run that is shown the secrets as they are stored, the  *)
(* plan the apply is for has itself been scanned and has passed.  There is *)
(* one plan secret and one report secret, overwritten by every plan job,   *)
(* so this rests on the plans not overlapping: from the second generation  *)
(* on.  A run that is shown a stale report takes it for the plan's.        *)
(***************************************************************************)
PolicyGate ==
  \A i \in JobIds :
    /\ jobs[i].stage = "apply" /\ jobs[i].current
    /\ jobs[i].scan /\ jobs[i].gen > 1
    => verdict[jobs[i].plan] = "passed"

(***************************************************************************)
(* An apply is for a plan of its own generation, although                  *)
(* ensureTerraformApply reads the plan secret as it is when it runs, for a *)
(* run that is shown the secrets as they are stored.                       *)
(***************************************************************************)
ApplyMatchesPlan ==
  \A i \in JobIds :
    jobs[i].stage = "apply" /\ jobs[i].current =>
      /\ jobs[i].plan # 0 /\ jobs[jobs[i].plan].stage = "plan"
      /\ jobs[jobs[i].plan].gen = jobs[i].gen

(***************************************************************************)
(* A plan is applied once: nothing that wakes the controller up again, and *)
(* no stale secret, starts a second apply of the same plan for the same    *)
(* generation, whether the first has completed or failed, unless the first *)
(* one's job has outlived its TTL and is gone.                             *)
(***************************************************************************)
AppliedOnce ==
  \A i, k \in JobIds :
    /\ jobs[i].stage = "apply" /\ jobs[k].stage = "apply" /\ i < k
    /\ jobs[i].plan = jobs[k].plan /\ jobs[i].gen = jobs[k].gen
    => jobs[i].removed

(***************************************************************************)
(* When the apply condition is Ready for the current generation and no job *)
(* runs, the cloud is at that generation, unless it has drifted since or   *)
(* the generation has nothing to create.  The run that found the apply     *)
(* done was shown the secrets as they are stored, and so was every run     *)
(* that started an apply: an old plan without changes would pass for this  *)
(* generation's, and an apply of it may fail behind a condition that is    *)
(* Ready already.                                                          *)
(***************************************************************************)
ReadyMeansApplied ==
  /\ cfg.exists /\ cfg.gen > 1 /\ Idle /\ IsComplete(cfg.conds["apply"], cfg.gen)
  /\ vouched /\ \A i \in JobIds : jobs[i].current
  => \/ cloud.at = cfg.gen
     \/ MaxDrift > 0 /\ cloud.at = 0
     \/ cfg.gen \in ZeroGens /\ ~cloud.resources

(***************************************************************************)
(* The finalizer is released only when terraform has destroyed everything, *)
(* unless the Configuration is orphaned on purpose or a job of it still    *)
(* runs (ensureTerraformDestroy and the chain behind it).                  *)
(***************************************************************************)
CleanRelease ==
  [][cfg.finalizer /\ cfg.exists /\ ~cfg'.exists /\ ~cfg.orphan /\ Idle =>
       ~cloud.resources]_vars

(***************************************************************************)
(* What CleanRelease comes to in the code.  The Terraform state of         *)
(* resources that exist is thrown away, with no job running, only where    *)
(* the destroy is skipped because the state is not shown, or because the   *)
(* resource count is an old one (ensureTerraformDestroy), or after a       *)
(* destroy that was started beside an apply.                               *)
(***************************************************************************)
CountMisleads == cache.resources = "zero" /\ (ZeroGens # {} \/ SecretsLag)

ReleaseAccounted ==
  [][/\ ~cache.orphan /\ Idle /\ cloud.resources
     /\ tfState # "absent" /\ tfState' = "absent"
     => \/ shown.state = "absent" \/ CountMisleads
        \/ \E i \in JobIds : jobs[i].stage = "destroy" /\ jobs[i].beside]_vars

(***************************************************************************)
(* The status says, for the current generation, why nothing happens.       *)
(***************************************************************************)
Says(o, type, reasons) ==
  o.conds[type].reason \in reasons /\ o.conds[type].gen = o.gen

Explained(o) ==
  \/ Says(o, "provider", {"Warning", "ActionRequired"})
  \/ Says(o, "ready", {"Warning", "ActionRequired"})
  \/ o.deleting /\ o.sync = "DeletionFailed"
  \/ /\ ~o.deleting
     /\ \/ Says(o, "plan", {"Error", "CallError"})
        \/ Says(o, "plan", {"Ready"}) /\ Says(o, "ready", {"Error"})
        \/ Says(o, "policy", {"Error", "Warning", "ActionRequired"})
        \/ Says(o, "apply", {"Ready", "Error", "ActionRequired"})

(***************************************************************************)
(* The controller never falls silent: when the key has left the queue and  *)
(* the cache is current, the status explains the state it stopped in.      *)
(* Several functions end a run without a requeue (ErrIgnore), and the      *)
(* event filter drops status updates, so nothing else wakes it.            *)
(***************************************************************************)
NeverSilent ==
  cfg.exists /\ cache = cfg /\ ~queued => Explained(cfg)

(***************************************************************************)
(* Every generation is decided: it is applied, fails, is refused or waits  *)
(* for the user, or the user moves on.  A user who approves for ever,      *)
(* before there is a plan, can keep the reset of the annotation and the    *)
(* approval alternating.                                                   *)
(***************************************************************************)
GenerationDecided ==
  \/ []<><<Approve>>_vars
  \/ \A g \in 1..MaxGeneration :
       cfg.exists /\ cfg.gen = g ~>
         ~cfg.exists \/ cfg.gen # g \/ Explained(cfg)

(***************************************************************************)
(* A deletion ends: the object goes, or the status says that terraform     *)
(* destroy has failed.                                                     *)
(***************************************************************************)
DeletionEnds ==
  cfg.deleting ~> ~cfg.exists \/ cfg.sync = "DeletionFailed"

(***************************************************************************)
(* A drift check the drift controller has asked for has run, as a plan of  *)
(* its own, once the status acknowledges it.                               *)
(***************************************************************************)
DriftChecked ==
  cfg.exists /\ cfg.driftSeen # 0 =>
    \E i \in JobIds : jobs[i].stage = "plan" /\ jobs[i].drift = cfg.driftSeen

(***************************************************************************)
(* A retry is not lost: once the controller sees a valid retry annotation  *)
(* set since its last status update, a job is run that carries it, unless  *)
(* the object goes or the annotation is replaced first.                    *)
(***************************************************************************)
RetryRuns ==
  \/ []<><<Approve>>_vars
  \/ \A r \in 1..MaxRetry :
       cache = cfg /\ cfg.exists /\ cfg.retry = r /\ IsRetryable(cfg) ~>
         \/ ~cfg.exists \/ cfg.retry # r
         \/ \E i \in JobIds : jobs[i].stage # "none" /\ jobs[i].retry = r

=============================================================================
