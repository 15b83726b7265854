------------------------- MODULE ConfigurationProofs -------------------------
(***************************************************************************)
(* Theorems about Configuration, for every value of its constants: the     *)
(* type invariant, and that terraform apply runs only for generations that *)
(* were planned and approved, however stale the controller's caches are.   *)
(***************************************************************************)
EXTENDS Configuration, TLAPS

(***************************************************************************)
(* Generations stay within their bound because only a deletion, which      *)
(* happens once, goes beyond MaxGeneration.                                *)
(***************************************************************************)
Bounded == ~cfg.deleting => cfg.gen <= MaxGeneration

TypeInv == TypeOK /\ Bounded

-----------------------------------------------------------------------------
(* SetCondition changes one condition and nothing else. *)
LEMMA SetConditionFacts ==
  ASSUME NEW o \in Object, NEW type \in ConditionTypes, NEW reason \in Reasons
  PROVE  /\ SetCondition(o, type, reason) \in Object
         /\ SetCondition(o, type, reason).gen = o.gen
         /\ SetCondition(o, type, reason).conds \in [ConditionTypes -> Condition]
         /\ type # "plan" =>
              SetCondition(o, type, reason).conds["plan"] = o.conds["plan"]
         /\ type = "plan" =>
              SetCondition(o, type, reason).conds["plan"]
                = [reason |-> reason, gen |-> o.gen]
BY DEF SetCondition, Object, Condition, ConditionTypes

(* A status patch writes the status fields only. *)
LEMMA StatusPatchFacts ==
  ASSUME NEW stored \in Object, NEW n \in Object
  PROVE  LET o == StatusPatch(stored, n)
         IN  /\ o \in Object
             /\ o.exists = stored.exists /\ o.gen = stored.gen
             /\ o.auto = stored.auto /\ o.apply = stored.apply
             /\ o.deleting = stored.deleting
             /\ o.conds \in {stored.conds, n.conds}
<1>1. CASE ~stored.exists
  BY <1>1 DEF StatusPatch
<1>2. CASE stored.exists
  <2> DEFINE stamped == n # cache \/ n.lastReconcile # n.gen
             conds == IF n.conds # cache.conds THEN n.conds ELSE stored.conds
             res == IF n.resources # cache.resources THEN n.resources
                                                     ELSE stored.resources
             sync == IF n.sync # cache.sync THEN n.sync ELSE stored.sync
             seenAt == IF n.driftSeen # cache.driftSeen THEN n.driftSeen
                                                        ELSE stored.driftSeen
             last == IF stamped THEN n.gen ELSE stored.lastReconcile
             state == IF stamped /\ stored.retryState = "fresh" THEN "used"
                                                            ELSE stored.retryState
  <2>1. /\ conds \in [ConditionTypes -> Condition]
        /\ conds \in {stored.conds, n.conds}
        /\ res \in {"unset", "zero", "some"}
        /\ sync \in {"OutOfSync", "InSync", "Deleting", "DeletionFailed"}
        /\ seenAt \in 0..MaxDrift
        /\ last \in Generations
        /\ state \in {"fresh", "used", "invalid"}
    BY DEF Object
  <2> DEFINE a == [stored EXCEPT !.conds = conds]
             b == [a EXCEPT !.resources = res]
             c == [b EXCEPT !.sync = sync]
             d == [c EXCEPT !.driftSeen = seenAt]
             e == [d EXCEPT !.lastReconcile = last]
             f == [e EXCEPT !.retryState = state]
             Kept(o) == /\ o.exists = stored.exists /\ o.gen = stored.gen
                        /\ o.auto = stored.auto /\ o.apply = stored.apply
                        /\ o.deleting = stored.deleting /\ o.conds = conds
  <2>2. StatusPatch(stored, n) = f
    BY <1>2 DEF StatusPatch
  <2> HIDE DEF stamped, conds, res, sync, seenAt, last, state
  <2>3. a \in Object /\ Kept(a)
    BY <2>1 DEF Object
  <2> HIDE DEF a
  <2>4. b \in Object /\ Kept(b)
    BY <2>1, <2>3 DEF Object
  <2> HIDE DEF b
  <2>5. c \in Object /\ Kept(c)
    BY <2>1, <2>4 DEF Object
  <2> HIDE DEF c
  <2>6. d \in Object /\ Kept(d)
    BY <2>1, <2>5 DEF Object
  <2> HIDE DEF d
  <2>7. e \in Object /\ Kept(e)
    BY <2>1, <2>6 DEF Object
  <2> HIDE DEF e
  <2>8. f \in Object /\ Kept(f)
    BY <2>1, <2>7 DEF Object
  <2> HIDE DEF f
  <2> QED BY <2>1, <2>2, <2>8
<1> QED BY <1>1, <1>2

-----------------------------------------------------------------------------
(***************************************************************************)
(* What a run of the chain leaves behind, when it writes stored and then   *)
(* patches the status computed as n.                                       *)
(***************************************************************************)
Result(stored, n) ==
  /\ cfg' \in Object
  /\ cfg'.gen = stored.gen /\ cfg'.auto = stored.auto
  /\ cfg'.apply = stored.apply /\ cfg'.deleting = stored.deleting
  /\ cfg'.conds \in {stored.conds, n.conds}
  /\ cache' \in {cfg', cache}
  /\ queued' \in BOOLEAN /\ faults' \in 0..MaxFaults
  /\ seen' \in [JobIds -> Phases]

LEMMA ShownFacts ==
  ASSUME jobs' \in [JobIds -> Job]
  PROVE  [i \in JobIds |-> Shown(jobs'[i])] \in [JobIds -> Phases]
BY DEF Shown, Job, Phases

LEMMA FinishFacts ==
  ASSUME TypeOK, BoundsAssumption, SettingsAssumption,
         NEW stored \in Object, NEW n \in Object, NEW again \in BOOLEAN,
         jobs' \in [JobIds -> Job], Finish(stored, n, again)
  PROVE  Result(stored, n)
<1>1. /\ seen' \in [JobIds -> Phases]
      /\ cache' \in {cfg', cache}
  BY ShownFacts DEF Finish, TypeOK
<1>2. CASE /\ cfg' = StatusPatch(stored, n)
           /\ queued' = (again \/ (ReadYourWrites /\ Triggers(cache, cfg')))
           /\ UNCHANGED faults
  <2>1. queued' \in BOOLEAN
    BY <1>2 DEF Triggers
  <2>2. faults' \in 0..MaxFaults
    BY <1>2 DEF TypeOK
  <2> QED BY <1>1, <1>2, <2>1, <2>2, StatusPatchFacts DEF Result
<1>3. CASE /\ faults < MaxFaults
           /\ cfg' = stored
           /\ queued' = TRUE
           /\ faults' = faults + 1
  <2>1. faults' \in 0..MaxFaults
    BY <1>3 DEF TypeOK, BoundsAssumption
  <2> QED BY <1>1, <1>3, <2>1 DEF Result
<1> QED BY <1>2, <1>3 DEF Finish

LEMMA FinishFailedFacts ==
  ASSUME TypeOK, BoundsAssumption,
         NEW stored \in Object, NEW n \in Object,
         jobs' \in [JobIds -> Job], FinishFailed(stored, n)
  PROVE  Result(stored, n)
<1>1. /\ seen' \in [JobIds -> Phases]
      /\ cache' \in {cfg', cache}
  BY ShownFacts DEF FinishFailed, TypeOK
<1>2. faults' \in 0..MaxFaults
  BY DEF FinishFailed, TypeOK, BoundsAssumption
<1>3. cfg' = StatusPatch(stored, n) /\ queued' \in BOOLEAN
  BY DEF FinishFailed
<1> QED BY <1>1, <1>2, <1>3, StatusPatchFacts DEF Result

LEMMA CreateJobFacts ==
  ASSUME TypeOK, NEW o \in Object, NEW stage \in {"plan", "apply", "destroy"},
         NEW plan \in 0..MaxJobs, CreateJob(stage, o, plan)
  PROVE  /\ jobs' \in [JobIds -> Job] /\ njobs' \in 0..MaxJobs
         /\ njobs + 1 \in JobIds
         /\ jobs'[njobs + 1].stage = stage /\ jobs'[njobs + 1].gen = o.gen
         /\ \A i \in JobIds \ {njobs + 1} : jobs'[i] = jobs[i]
<1> DEFINE j == [stage |-> stage, gen |-> o.gen,
                 retry |-> IF stage = "apply" THEN 0 ELSE o.retry,
                 drift |-> IF stage = "plan" THEN o.driftAt ELSE 0,
                 plan |-> plan, scan |-> policyOn,
                 step |-> 0, phase |-> "active", removed |-> FALSE,
                 current |-> stage = "apply" => shown = Stored,
                 beside |-> stage = "destroy" /\ Applying]
<1>1. j \in Job
  <2>1. /\ 0 \in 0..MaxRetry /\ 0 \in 0..MaxDrift
        /\ o.retry \in 0..MaxRetry /\ o.driftAt \in 0..MaxDrift
    BY BoundsAssumption DEF BoundsAssumption, Object
  <2> QED BY <2>1 DEF TypeOK, Object, Job, Phases
<1>2. njobs + 1 \in JobIds /\ njobs' \in 0..MaxJobs
  BY BoundsAssumption DEF CreateJob, TypeOK, JobIds, BoundsAssumption
<1>3. jobs' = [jobs EXCEPT ![njobs + 1] = j]
  BY DEF CreateJob
<1>4. j.stage = stage /\ j.gen = o.gen
  OBVIOUS
<1> HIDE DEF j
<1> QED BY <1>1, <1>2, <1>3, <1>4 DEF TypeOK
-----------------------------------------------------------------------------
(***************************************************************************)
(* The objects the runs compute: they are well typed, and their plan       *)
(* condition is Ready only for a planned generation.                       *)
(***************************************************************************)
LEMMA SetOther ==
  ASSUME NEW o \in Object, PlanKnown(o),
         NEW type \in ConditionTypes \ {"plan"}, NEW reason \in Reasons
  PROVE  /\ SetCondition(o, type, reason) \in Object
         /\ PlanKnown(SetCondition(o, type, reason))
         /\ SetCondition(o, type, reason).gen = o.gen
<1> DEFINE p == SetCondition(o, type, reason)
<1>1. type \in ConditionTypes /\ type # "plan"
  OBVIOUS
<1>2. p \in Object /\ p.gen = o.gen /\ p.conds["plan"] = o.conds["plan"]
  BY <1>1, SetConditionFacts
<1> HIDE DEF p
<1>3. PlanKnown(p)
  BY <1>2 DEF PlanKnown
<1> QED BY <1>2, <1>3 DEF p

LEMMA SetPlan ==
  ASSUME NEW o \in Object, NEW reason \in Reasons,
         reason # "Ready" \/ o.gen \in planned
  PROVE  /\ SetCondition(o, "plan", reason) \in Object
         /\ PlanKnown(SetCondition(o, "plan", reason))
         /\ SetCondition(o, "plan", reason).gen = o.gen
<1>1. "plan" \in ConditionTypes
  BY DEF ConditionTypes
<1> DEFINE p == SetCondition(o, "plan", reason)
<1>2. /\ p \in Object /\ p.gen = o.gen
      /\ p.conds["plan"] = [reason |-> reason, gen |-> o.gen]
  BY <1>1, SetConditionFacts
<1> HIDE DEF p
<1>3. PlanKnown(p)
  BY <1>2 DEF PlanKnown
<1> QED BY <1>2, <1>3 DEF p

LEMMA PreparedFacts ==
  ASSUME cache \in Object, PlanKnown(cache)
  PROVE  Prepared \in Object /\ PlanKnown(Prepared) /\ Prepared.gen = cache.gen
<1>1. "provider" \in ConditionTypes \ {"plan"} /\ "Ready" \in Reasons
  BY DEF ConditionTypes, Reasons
<1> QED BY <1>1, SetOther DEF Prepared

LEMMA StoppedAtFacts ==
  ASSUME cache \in Object, PlanKnown(cache), NEW chain, NEW k
  PROVE  StoppedAt(chain, k) \in Object /\ PlanKnown(StoppedAt(chain, k))
<1> DEFINE passed == \E m \in 1..(k - 1) : chain[m] = "providerReady"
           o == IF passed THEN Prepared ELSE cache
<1>1. o \in Object /\ PlanKnown(o)
  BY PreparedFacts
<1>2. /\ {"ready", "provider", "policy"} \subseteq ConditionTypes \ {"plan"}
      /\ {"Warning", "ActionRequired", "Error"} \subseteq Reasons
  BY DEF ConditionTypes, Reasons
<1>3. PICK type \in {"ready", "provider", "policy"},
           reason \in {"Warning", "ActionRequired", "Error"} :
           StoppedAt(chain, k) = SetCondition(o, type, reason)
  BY DEF StoppedAt
<1> HIDE DEF o
<1>4. type \in ConditionTypes \ {"plan"} /\ reason \in Reasons
  BY <1>2
<1> QED BY <1>1, <1>3, <1>4, SetOther

(* A run that passes the plan stage does so for a planned generation. *)
LEMMA PlanCompleteFacts ==
  ASSUME TypeOK, ApprovalInv, PlanComplete
  PROVE  cache.gen \in planned /\ ~cache.deleting
<1>1. ~cache.deleting
  BY DEF PlanComplete, ReachesPlan, Live
<1>2. CASE PlanSkipped(cache)
  BY <1>1, <1>2 DEF PlanSkipped, IsComplete, ApprovalInv, PlanKnown
<1>3. CASE PlanJobIs("complete")
  <2>1. PICK i \in PlanJobs(cache) : TRUE
    BY <1>3 DEF PlanJobIs
  <2>2. i \in JobIds /\ jobs[i].stage = "plan" /\ jobs[i].gen = cache.gen
    BY <2>1 DEF PlanJobs, Listed
  <2> QED BY <1>1, <2>2 DEF ApprovalInv, JobsKnown
<1> QED BY <1>2, <1>3 DEF PlanComplete

LEMMA PlanPassedFacts ==
  ASSUME TypeOK, ApprovalInv, PlanPassed
  PROVE  cache.gen \in planned /\ ~cache.deleting
BY PlanCompleteFacts DEF PlanPassed

LEMMA PlannedFacts ==
  ASSUME TypeOK, ApprovalInv, PlanComplete
  PROVE  Planned \in Object /\ PlanKnown(Planned) /\ Planned.gen = cache.gen
<1>1. Prepared \in Object /\ PlanKnown(Prepared) /\ Prepared.gen = cache.gen
  BY PreparedFacts DEF TypeOK, ApprovalInv
<1>2. "Ready" \in Reasons
  BY DEF Reasons
<1> QED BY <1>1, <1>2, PlanCompleteFacts, SetPlan DEF Planned

(* Writing a field that is not a condition keeps what is known of it. *)
LEMMA CheckedFacts ==
  ASSUME TypeOK, ApprovalInv, PlanPassed
  PROVE  Checked \in Object /\ PlanKnown(Checked) /\ Checked.gen = cache.gen
<1> DEFINE o == SetCondition(Planned, "policy", "Ready")
<1>1. "policy" \in ConditionTypes \ {"plan"} /\ "Ready" \in Reasons
  BY DEF ConditionTypes, Reasons
<1>2. o \in Object /\ PlanKnown(o) /\ o.gen = cache.gen
  BY <1>1, PlannedFacts, SetOther DEF PlanPassed
<1> DEFINE d == IF cache.drift THEN cache.driftAt ELSE o.driftSeen
<1>3. d \in 0..MaxDrift
  BY <1>2 DEF Object, TypeOK
<1>4. Checked = [o EXCEPT !.driftSeen = d]
  BY DEF Checked
<1> HIDE DEF o, d
<1> QED BY <1>2, <1>3, <1>4 DEF Object, PlanKnown

LEMMA SyncFacts ==
  ASSUME NEW o \in Object, PlanKnown(o),
         NEW v \in {"OutOfSync", "InSync", "Deleting", "DeletionFailed"}
  PROVE  /\ [o EXCEPT !.sync = v] \in Object
         /\ PlanKnown([o EXCEPT !.sync = v])
         /\ [o EXCEPT !.sync = v].gen = o.gen
BY DEF Object, PlanKnown

LEMMA AppliedFacts ==
  ASSUME NEW o \in Object, PlanKnown(o)
  PROVE  Applied(o) \in Object /\ PlanKnown(Applied(o))
<1> DEFINE a == SetCondition(o, "apply", "Ready")
<1>1. "apply" \in ConditionTypes \ {"plan"} /\ "Ready" \in Reasons
  BY DEF ConditionTypes, Reasons
<1>2. a \in Object /\ PlanKnown(a)
  BY <1>1, SetOther
<1>3. Applied(o) = [a EXCEPT !.sync = "InSync"]
  BY DEF Applied
<1> HIDE DEF a
<1> QED BY <1>2, <1>3, SyncFacts

LEMMA CompletedFacts ==
  ASSUME NEW o \in Object, PlanKnown(o)
  PROVE  Completed(o) \in Object /\ PlanKnown(Completed(o))
<1> DEFINE p == SetCondition(Applied(o), "ready", "Ready")
           r == IF shown.state = "some" THEN "some" ELSE "zero"
<1>1. "Ready" \in Reasons /\ "ready" \in ConditionTypes \ {"plan"}
  BY DEF ConditionTypes, Reasons
<1>2. p \in Object /\ PlanKnown(p)
  BY <1>1, AppliedFacts, SetOther
<1>3. Completed(o) = [p EXCEPT !.resources = r]
  BY DEF Completed
<1>4. r \in {"unset", "zero", "some"}
  OBVIOUS
<1> HIDE DEF p, r
<1> QED BY <1>2, <1>3, <1>4 DEF Object, PlanKnown

-----------------------------------------------------------------------------
(***************************************************************************)
(* A run as the invariant sees it: it writes an object that keeps the      *)
(* stored one's specification and conditions and does not approve it, and  *)
(* then patches a status whose plan condition is known.                    *)
(***************************************************************************)
Kept(stored) ==
  /\ stored.gen = cfg.gen /\ stored.auto = cfg.auto
  /\ stored.deleting = cfg.deleting /\ stored.conds = cfg.conds
  /\ stored.apply \in {cfg.apply, "false"}

Leaves ==
  \E stored, n \in Object : Kept(stored) /\ PlanKnown(n) /\ Result(stored, n)

(* Such a run plans its own generation, and only when it need not reset. *)
PlansOwn ==
  \/ planned' = planned
  \/ planned' = planned \cup {cache.gen} /\ ~MustReset /\ ~cache.deleting

(* It applies its own generation, and only when that is planned and approved. *)
AppliesOwn ==
  \/ AppliedGens' = AppliedGens
  \/ /\ planned' = planned /\ cache.gen \in planned \cap approved
     /\ AppliedGens' = AppliedGens \cup {cache.gen}

LEMMA LeavesFacts ==
  ASSUME TypeInv, ApprovalInv, Leaves, PlansOwn, approved' = approved, JobsKnown'
  PROVE  /\ cfg' \in Object /\ cache' \in Object /\ queued' \in BOOLEAN
         /\ faults' \in 0..MaxFaults /\ seen' \in [JobIds -> Phases]
         /\ planned' \subseteq Generations /\ approved' \subseteq Generations
         /\ Bounded' /\ ApprovalInv'
<1>1. PICK stored \in Object, n \in Object :
           Kept(stored) /\ PlanKnown(n) /\ Result(stored, n)
  BY DEF Leaves
<1>2. /\ cfg' \in Object /\ cache' \in {cfg', cache} /\ cache \in Object
      /\ cfg \in Object
      /\ queued' \in BOOLEAN /\ faults' \in 0..MaxFaults
      /\ seen' \in [JobIds -> Phases]
      /\ planned \subseteq Generations /\ approved \subseteq Generations
  BY <1>1 DEF Result, TypeInv, TypeOK
<1>3. /\ cfg'.gen = cfg.gen /\ cfg'.auto = cfg.auto
      /\ cfg'.deleting = cfg.deleting
      /\ cfg'.apply \in {cfg.apply, "false"}
      /\ cfg'.conds \in {cfg.conds, n.conds}
  BY <1>1 DEF Kept, Result
<1>4. planned' \subseteq Generations /\ planned \subseteq planned'
  BY <1>2 DEF PlansOwn, Object
<1>5. Bounded'
  BY <1>3 DEF TypeInv, Bounded
<1>6. PlanKnown(cfg)' /\ PlanKnown(cache)'
  <2>1. PlanKnown(cfg)'
    BY <1>1, <1>3, <1>4 DEF ApprovalInv, PlanKnown
  <2>2. PlanKnown(cache)'
    BY <1>2, <1>4, <2>1 DEF ApprovalInv, PlanKnown
  <2> QED BY <2>1, <2>2
<1>7. Approved(cfg)' /\ Approved(cache)'
  <2>1. cache.gen \in planned' \ planned =>
          cache.gen \in approved \/ NeedsApproval(cache)
    BY DEF PlansOwn, MustReset, ApprovalInv, Approved
  <2>2. cfg.gen \in planned' \ planned => cfg.gen = cache.gen
    BY DEF PlansOwn
  <2>3. Approved(cfg)'
    BY <1>3, <2>1, <2>2 DEF ApprovalInv, Approved, CacheLags, NeedsApproval
  <2>4. CASE cache' = cfg'
    BY <2>3, <2>4 DEF Approved, NeedsApproval
  <2>5. CASE cache' = cache
    BY <2>1, <2>3, <2>5 DEF ApprovalInv, Approved, NeedsApproval
  <2> QED BY <1>2, <2>3, <2>4, <2>5
<1>8. CacheLags'
  <2>1. /\ cache.gen \in 1..cfg.gen /\ planned \subseteq 1..cfg.gen
        /\ cfg.gen \in Nat
    BY <1>2, BoundsAssumption
       DEF ApprovalInv, CacheLags, Object, Generations, BoundsAssumption
  <2>2. cache'.gen \in 1..cfg'.gen /\ planned' \subseteq 1..cfg'.gen
    <3>1. planned' \subseteq 1..cfg'.gen
      BY <1>3, <2>1 DEF PlansOwn
    <3>2. cache'.gen \in {cfg.gen, cache.gen}
      BY <1>2, <1>3
    <3> QED BY <1>3, <2>1, <3>1, <3>2
  <2>3. CASE cache' = cfg'
    BY <2>2, <2>3 DEF CacheLags
  <2>4. CASE cache' = cache
    BY <1>3, <2>2, <2>4 DEF ApprovalInv, CacheLags, NeedsApproval
  <2> QED BY <1>2, <2>3, <2>4
<1> QED BY <1>2, <1>4, <1>5, <1>6, <1>7, <1>8 DEF ApprovalInv

-----------------------------------------------------------------------------
(***************************************************************************)
(* Every run of the chain is of this kind.  SideTyped is the part of the   *)
(* type invariant that no run's object has a say in.                       *)
(***************************************************************************)
SideTyped ==
  /\ planSecret \in PlanSecret
  /\ report \in 0..MaxJobs
  /\ verdict \in [JobIds -> Verdicts]
  /\ tfState \in StateSecret
  /\ shown \in SecretView /\ vouched \in BOOLEAN
  /\ cloud \in [at : Generations, resources : BOOLEAN]
  /\ policyOn \in BOOLEAN /\ missing \subseteq Flaky
  /\ crApply \in Annotation

RunEffect ==
  /\ Leaves /\ PlansOwn /\ AppliesOwn /\ approved' = approved /\ JobsKnown'
  /\ jobs' \in [JobIds -> Job] /\ njobs' \in 0..MaxJobs /\ SideTyped'

LEMMA RunEffectFacts ==
  ASSUME TypeInv, ApprovalInv, RunEffect
  PROVE  TypeInv' /\ ApprovalInv'
BY LeavesFacts DEF RunEffect, SideTyped, TypeInv, TypeOK

LEMMA SideUnchanged ==
  ASSUME TypeOK, UNCHANGED <<storedSecrets, shown, environment>>,
         vouched' \in BOOLEAN, crApply' \in Annotation
  PROVE  SideTyped'
BY DEF TypeOK, SideTyped, storedSecrets, environment, SecretView, PlanSecret,
       StateSecret

LEMMA SecretsKept ==
  ASSUME TypeInv, UNCHANGED secrets
  PROVE  UNCHANGED <<storedSecrets, shown>> /\ vouched' \in BOOLEAN
BY DEF secrets, TypeInv, TypeOK

(* The names the runs use. *)
LEMMA Names ==
  /\ {"provider", "policy", "apply", "ready"} = ConditionTypes \ {"plan"}
  /\ {"InProgress", "Ready", "Error", "CallError", "ActionRequired",
      "Warning"} \subseteq Reasons
BY DEF ConditionTypes, Reasons

(* A run that creates no job. *)
LEMMA QuietRun ==
  ASSUME TypeInv, ApprovalInv, NEW stored \in Object, NEW n \in Object,
         Kept(stored), PlanKnown(n), Result(stored, n), NoJobCreated,
         UNCHANGED <<storedSecrets, shown, environment, approved>>,
         vouched' \in BOOLEAN, crApply' \in Annotation
  PROVE  RunEffect
<1>1. SideTyped'
  BY SideUnchanged DEF TypeInv
<1>2. Leaves
  BY DEF Leaves
<1>3. /\ PlansOwn /\ JobsKnown' /\ approved' = approved
      /\ jobs' \in [JobIds -> Job] /\ njobs' \in 0..MaxJobs
  BY DEF NoJobCreated, PlansOwn, ApprovalInv, JobsKnown, TypeInv, TypeOK
<1>4. AppliesOwn
  BY DEF NoJobCreated, AppliesOwn, AppliedGens
<1> QED BY <1>1, <1>2, <1>3, <1>4 DEF RunEffect

(* The common case: the stored object is patched and nothing else written. *)
LEMMA PatchRun ==
  ASSUME TypeInv, ApprovalInv, NEW n \in Object, NEW again \in BOOLEAN,
         PlanKnown(n), NoJobCreated,
         Finish(cfg, n, again) \/ FinishFailed(cfg, n),
         UNCHANGED <<secrets, environment, crApply, approved>>
  PROVE  RunEffect
<1>1. cfg \in Object /\ Kept(cfg) /\ jobs' \in [JobIds -> Job]
      /\ crApply' \in Annotation
  BY DEF TypeInv, TypeOK, Kept, NoJobCreated
<1>2. Result(cfg, n)
  BY <1>1, FinishFacts, FinishFailedFacts, BoundsAssumption, SettingsAssumption
     DEF TypeInv
<1> QED BY <1>1, <1>2, SecretsKept, QuietRun

(* The end of the chain, which also notes what it was shown. *)
LEMMA EndOfChainRun ==
  ASSUME TypeInv, ApprovalInv, NEW o \in Object, PlanKnown(o), NoJobCreated,
         EndOfChain(o)
  PROVE  RunEffect
<1> DEFINE a == Applied(o)
           results == {SetCondition(a, "ready", "Error"),
                       SetCondition(a, "ready", "CallError"), Completed(o)}
<1>1. a \in Object /\ PlanKnown(a)
  BY AppliedFacts
<1>2. \A n \in results : n \in Object /\ PlanKnown(n)
  <2> HIDE DEF a
  <2>1. \A r \in {"Error", "CallError"} : /\ SetCondition(a, "ready", r) \in Object
                                         /\ PlanKnown(SetCondition(a, "ready", r))
    BY <1>1, SetOther, Names
  <2>2. Completed(o) \in Object /\ PlanKnown(Completed(o))
    BY CompletedFacts
  <2> QED BY <2>1, <2>2
<1>3. PICK n \in results : Finish(cfg, n, FALSE) \/ FinishFailed(cfg, n)
  <2>1. \/ Finish(cfg, SetCondition(a, "ready", "Error"), FALSE)
        \/ Finish(cfg, Completed(o), FALSE)
        \/ FinishFailed(cfg, SetCondition(a, "ready", "CallError"))
    BY DEF EndOfChain
  <2> HIDE DEF a
  <2> QED BY <2>1
<1> HIDE DEF results
<1>4. n \in Object /\ PlanKnown(n)
  BY <1>2, <1>3
<1>5. cfg \in Object /\ Kept(cfg) /\ jobs' \in [JobIds -> Job]
      /\ crApply' \in Annotation
  BY DEF EndOfChain, TypeInv, TypeOK, Kept, NoJobCreated
<1>6. Result(cfg, n)
  BY <1>3, <1>4, <1>5, FinishFacts, FinishFailedFacts, BoundsAssumption,
     SettingsAssumption DEF TypeInv
<1>7. /\ UNCHANGED <<storedSecrets, shown, environment, approved>>
      /\ vouched' \in BOOLEAN
  BY DEF EndOfChain
<1> QED BY <1>4, <1>5, <1>6, <1>7, QuietRun

LEMMA StopAtMissingRun ==
  ASSUME TypeInv, ApprovalInv, NEW chain, StopAtMissing(chain)
  PROVE  RunEffect
<1>1. PICK k \in DOMAIN chain :
           Finish(cfg, StoppedAt(chain, k), chain[k] \notin Ignored)
  BY DEF StopAtMissing
<1>2. StoppedAt(chain, k) \in Object /\ PlanKnown(StoppedAt(chain, k))
  BY StoppedAtFacts DEF TypeInv, TypeOK, ApprovalInv
<1>3. (chain[k] \notin Ignored) \in BOOLEAN
  OBVIOUS
<1> QED BY <1>1, <1>2, <1>3, PatchRun DEF StopAtMissing

LEMMA EarlyRuns ==
  ASSUME TypeInv, ApprovalInv,
         EnsureFinalizerPresent \/ EnsurePrerequisites \/ EnsureNoActivity
           \/ DeletionBlocked
  PROVE  RunEffect
<1>1. CASE EnsureFinalizerPresent
  <2> DEFINE stored == IF cache = cfg THEN [cfg EXCEPT !.finalizer = TRUE] ELSE cfg
             n == [cache EXCEPT !.finalizer = TRUE]
  <2>1. stored \in Object /\ Kept(stored)
    <3> DEFINE o == [cfg EXCEPT !.finalizer = TRUE]
    <3>1. cfg \in Object /\ Kept(cfg)
      BY DEF TypeInv, TypeOK, Kept
    <3>2. o \in Object /\ Kept(o)
      BY <3>1 DEF Object, Kept
    <3> QED BY <3>1, <3>2
  <2>2. n \in Object /\ PlanKnown(n)
    BY DEF TypeInv, TypeOK, Object, ApprovalInv, PlanKnown
  <2>3. /\ Finish(stored, n, TRUE) /\ NoJobCreated
        /\ UNCHANGED <<secrets, environment, crApply, approved>>
    BY <1>1 DEF EnsureFinalizerPresent
  <2> HIDE DEF stored, n
  <2>4. jobs' \in [JobIds -> Job] /\ crApply' \in Annotation
    BY <2>3 DEF NoJobCreated, TypeInv, TypeOK
  <2>5. Result(stored, n)
    BY <2>1, <2>2, <2>3, <2>4, FinishFacts, BoundsAssumption,
       SettingsAssumption DEF TypeInv
  <2> QED BY <2>1, <2>2, <2>3, <2>4, <2>5, SecretsKept, QuietRun
<1>2. CASE EnsurePrerequisites
  BY <1>2, StopAtMissingRun DEF EnsurePrerequisites
<1>3. CASE EnsureNoActivity
  BY <1>3, PatchRun DEF EnsureNoActivity, TypeInv, TypeOK, ApprovalInv
<1>4. CASE DeletionBlocked
  BY <1>4, StopAtMissingRun DEF DeletionBlocked
<1> QED BY <1>1, <1>2, <1>3, <1>4

(* The reset of the annotation, and the ways it can fail. *)
LEMMA RequireApprovalRun ==
  ASSUME TypeInv, ApprovalInv, RequireApproval
  PROVE  RunEffect
<1> DEFINE held == [cfg EXCEPT !.apply = "false"]
           failed == SetCondition(held, "plan", "CallError")
<1>1. held \in Object /\ Kept(held) /\ PlanKnown(held)
  BY DEF TypeInv, TypeOK, Object, Annotation, Kept, ApprovalInv, PlanKnown
<1>2. /\ NoJobCreated /\ UNCHANGED <<secrets, environment, approved>>
      /\ jobs' \in [JobIds -> Job]
  BY DEF RequireApproval, NoJobCreated, TypeInv, TypeOK
<1>3. \/ /\ crApply' = IF Managed THEN "false" ELSE crApply
         /\ Finish(held, held, TRUE)
      \/ /\ UNCHANGED crApply
         /\ FinishFailed(cfg, SetCondition(Prepared, "plan", "CallError"))
      \/ /\ UNCHANGED crApply
         /\ FinishFailed(held, failed)
  BY DEF RequireApproval
<1>4. crApply' \in Annotation
  BY <1>3 DEF TypeInv, TypeOK, Annotation
<1>5. failed \in Object /\ PlanKnown(failed)
  BY <1>1, SetPlan, Names
<1> HIDE DEF held, failed
<1>6. CASE Finish(held, held, TRUE)
  BY <1>1, <1>2, <1>4, <1>6, FinishFacts, BoundsAssumption,
     SettingsAssumption, SecretsKept, QuietRun DEF TypeInv
<1>7. CASE FinishFailed(held, failed)
  BY <1>1, <1>2, <1>4, <1>5, <1>7, FinishFailedFacts, BoundsAssumption,
     SecretsKept, QuietRun DEF TypeInv
<1>8. CASE /\ UNCHANGED crApply
           /\ FinishFailed(cfg, SetCondition(Prepared, "plan", "CallError"))
  <2>1. /\ SetCondition(Prepared, "plan", "CallError") \in Object
        /\ PlanKnown(SetCondition(Prepared, "plan", "CallError"))
    BY PreparedFacts, SetPlan, Names DEF TypeInv, TypeOK, ApprovalInv
  <2> QED BY <1>2, <1>8, <2>1, PatchRun
<1> QED BY <1>3, <1>6, <1>7, <1>8

LEMMA PlanStageRuns ==
  ASSUME TypeInv, ApprovalInv,
         PlanInvalidRetry \/ PlanFailedBefore \/ PlanRunning \/ PlanFails
  PROVE  RunEffect
<1>1. /\ Prepared \in Object /\ PlanKnown(Prepared)
      /\ \A r \in {"Error", "InProgress"} :
           /\ SetCondition(Prepared, "plan", r) \in Object
           /\ PlanKnown(SetCondition(Prepared, "plan", r))
  BY PreparedFacts, SetPlan, Names DEF TypeInv, TypeOK, ApprovalInv
<1>2. PICK n \in {Prepared, SetCondition(Prepared, "plan", "Error"),
                  SetCondition(Prepared, "plan", "InProgress")}, again \in BOOLEAN :
           Finish(cfg, n, again)
  BY DEF PlanInvalidRetry, PlanFailedBefore, PlanRunning, PlanFails
<1>3. NoJobCreated /\ UNCHANGED <<secrets, environment, crApply, approved>>
  BY DEF PlanInvalidRetry, PlanFailedBefore, PlanRunning, PlanFails
<1>4. n \in Object /\ PlanKnown(n)
  BY <1>1, <1>2
<1> QED BY <1>2, <1>3, <1>4, PatchRun

LEMMA PlanSecretRun ==
  ASSUME TypeInv, ApprovalInv, PlanSecretMissing
  PROVE  RunEffect
<1>1. /\ SetCondition(Planned, "ready", "Error") \in Object
      /\ PlanKnown(SetCondition(Planned, "ready", "Error"))
  BY PlannedFacts, SetOther, Names DEF PlanSecretMissing, TypeInv
<1> QED BY <1>1, PatchRun DEF PlanSecretMissing

LEMMA PolicyStageRuns ==
  ASSUME TypeInv, ApprovalInv,
         PolicyReportMissing \/ PolicyReportMalformed \/ PolicyFailed
  PROVE  RunEffect
<1>1. PICK reason \in {"Warning", "Error", "ActionRequired"}, again \in BOOLEAN :
           StopAtPolicy(reason, again)
  BY DEF PolicyReportMissing, PolicyReportMalformed, PolicyFailed
<1>2. /\ SetCondition(Planned, "policy", reason) \in Object
      /\ PlanKnown(SetCondition(Planned, "policy", reason))
  BY <1>1, PlannedFacts, SetOther, Names DEF StopAtPolicy, PlanPassed, TypeInv
<1> QED BY <1>1, <1>2, PatchRun DEF StopAtPolicy

(* The runs of the apply stage that create no job. *)
LEMMA ApplyStageRuns ==
  ASSUME TypeInv, ApprovalInv,
         ApplySkipped \/ WaitForApproval \/ ApplyRunning \/ ApplyFails \/ ApplyDone
  PROVE  RunEffect
<1> DEFINE waits == [SetCondition(SetCondition(Checked, "apply", "ActionRequired"),
                                  "ready", "InProgress") EXCEPT !.sync = "OutOfSync"]
           runs == SetCondition(Checked, "apply", "InProgress")
           fails == SetCondition(Checked, "apply", "Error")
<1>1. PlanPassed
  BY DEF ApplySkipped, NothingToApply, WaitForApproval, ApplyRunning, ApplyFails,
         ApplyDone, ApplyJobIs, ReachesApply, PolicyPassed
<1>2. Checked \in Object /\ PlanKnown(Checked)
  BY <1>1, CheckedFacts DEF TypeInv
<1>3. /\ runs \in Object /\ PlanKnown(runs)
      /\ fails \in Object /\ PlanKnown(fails)
  BY <1>2, SetOther, Names
<1>4. waits \in Object /\ PlanKnown(waits)
  <2> DEFINE a == SetCondition(Checked, "apply", "ActionRequired")
             b == SetCondition(a, "ready", "InProgress")
  <2>1. a \in Object /\ PlanKnown(a)
    BY <1>2, SetOther, Names
  <2>2. b \in Object /\ PlanKnown(b)
    BY <2>1, SetOther, Names
  <2>3. waits = [b EXCEPT !.sync = "OutOfSync"]
    OBVIOUS
  <2> HIDE DEF b, waits
  <2> QED BY <2>2, <2>3, SyncFacts
<1>5. CASE ApplySkipped \/ ApplyDone
  BY <1>2, <1>5, EndOfChainRun DEF ApplySkipped, ApplyDone
<1>6. CASE WaitForApproval \/ ApplyRunning \/ ApplyFails
  <2>1. PICK n \in {waits, runs, fails}, again \in BOOLEAN : Finish(cfg, n, again)
    BY <1>6 DEF WaitForApproval, ApplyRunning, ApplyFails
  <2>2. NoJobCreated /\ UNCHANGED <<secrets, environment, crApply, approved>>
    BY <1>6 DEF WaitForApproval, ApplyRunning, ApplyFails
  <2> HIDE DEF waits, runs, fails
  <2>3. n \in Object /\ PlanKnown(n)
    BY <1>3, <1>4, <2>1
  <2> QED BY <2>1, <2>2, <2>3, PatchRun
<1> QED BY <1>5, <1>6

LEMMA DestroyingFacts ==
  ASSUME TypeInv, ApprovalInv
  PROVE  /\ Destroying \in Object /\ PlanKnown(Destroying)
         /\ \A r \in {"InProgress", "Error", "CallError", "Ready"} :
              /\ SetCondition(Destroying, "ready", r) \in Object
              /\ PlanKnown(SetCondition(Destroying, "ready", r))
<1>1. Prepared \in Object /\ PlanKnown(Prepared)
  BY PreparedFacts DEF TypeInv, TypeOK, ApprovalInv
<1>2. Destroying \in Object /\ PlanKnown(Destroying)
  BY <1>1, SyncFacts DEF Destroying
<1> QED BY <1>2, SetOther, Names

LEMMA DestroyStageRuns ==
  ASSUME TypeInv, ApprovalInv, DestroyRunning \/ DestroyFails
  PROVE  RunEffect
<1> DEFINE runs == SetCondition(Destroying, "ready", "InProgress")
           error == SetCondition(Destroying, "ready", "Error")
           fails == [error EXCEPT !.sync = "DeletionFailed"]
<1>1. /\ runs \in Object /\ PlanKnown(runs)
      /\ error \in Object /\ PlanKnown(error)
  BY DestroyingFacts
<1>2. fails \in Object /\ PlanKnown(fails)
  <2> HIDE DEF error
  <2> QED BY <1>1, SyncFacts
<1>3. PICK n \in {runs, fails}, again \in BOOLEAN : Finish(cfg, n, again)
  BY DEF DestroyRunning, DestroyFails
<1>4. NoJobCreated /\ UNCHANGED <<secrets, environment, crApply, approved>>
  BY DEF DestroyRunning, DestroyFails
<1> HIDE DEF runs, fails
<1> QED BY <1>1, <1>2, <1>3, <1>4, PatchRun

-----------------------------------------------------------------------------
(***************************************************************************)
(* The runs that create a job, and the one that cleans up.                 *)
(***************************************************************************)
LEMMA JobRun ==
  ASSUME TypeInv, ApprovalInv, NEW stage \in {"plan", "apply", "destroy"},
         NEW plan \in 0..MaxJobs, CreateJob(stage, cache, plan),
         NEW n \in Object, PlanKnown(n), NEW again \in BOOLEAN,
         Finish(cfg, n, again) \/ FinishFailed(cfg, n),
         UNCHANGED <<secrets, environment, crApply, approved>>, PlansOwn,
         stage \in {"plan", "apply"} => cache.gen \in planned',
         stage = "apply" => /\ planned' = planned
                            /\ cache.gen \in planned /\ cache.gen \in approved
  PROVE  RunEffect
<1>1. /\ cfg \in Object /\ cache \in Object /\ Kept(cfg)
      /\ crApply' \in Annotation
  BY DEF TypeInv, TypeOK, Kept
<1>2. /\ jobs' \in [JobIds -> Job] /\ njobs' \in 0..MaxJobs
      /\ njobs + 1 \in JobIds
      /\ jobs'[njobs + 1].stage = stage /\ jobs'[njobs + 1].gen = cache.gen
      /\ \A i \in JobIds \ {njobs + 1} : jobs'[i] = jobs[i]
  BY <1>1, CreateJobFacts DEF TypeInv
<1>3. Result(cfg, n)
  BY <1>1, <1>2, FinishFacts, FinishFailedFacts, BoundsAssumption,
     SettingsAssumption DEF TypeInv
<1>4. Leaves
  BY <1>1, <1>3 DEF Leaves
<1>5. SideTyped'
  BY <1>1, SecretsKept, SideUnchanged DEF TypeInv
<1>6. JobsKnown'
  <2> SUFFICES ASSUME NEW i \in JobIds
               PROVE  /\ i > njobs' => jobs'[i].stage = "none"
                      /\ jobs'[i].stage \in {"plan", "apply"} =>
                           jobs'[i].gen \in planned'
                      /\ jobs'[i].stage = "apply" => jobs'[i].gen \in approved'
    BY DEF JobsKnown
  <2>1. njobs' = njobs + 1 /\ njobs \in Nat /\ JobIds \subseteq Nat
    BY BoundsAssumption
       DEF CreateJob, TypeInv, TypeOK, JobIds, BoundsAssumption
  <2>2. CASE i = njobs + 1
    BY <1>2, <2>1, <2>2
  <2>3. CASE i # njobs + 1
    <3>1. jobs'[i] = jobs[i] /\ planned \subseteq planned'
      BY <1>2, <2>3 DEF PlansOwn
    <3>2. i > njobs' => i > njobs
      BY <2>1
    <3> QED BY <3>1, <3>2 DEF ApprovalInv, JobsKnown
  <2> QED BY <2>2, <2>3
<1>7. AppliesOwn
  <2>1. jobs[njobs + 1].stage = "none"
    BY <1>2, BoundsAssumption
       DEF ApprovalInv, JobsKnown, TypeInv, TypeOK, BoundsAssumption
  <2>2. CASE stage = "apply"
    <3>1. AppliedGens' = AppliedGens \cup {cache.gen}
      BY <1>2, <2>1, <2>2 DEF AppliedGens
    <3> QED BY <2>2, <3>1 DEF AppliesOwn
  <2>3. CASE stage # "apply"
    <3>1. AppliedGens' = AppliedGens
      BY <1>2, <2>1, <2>3 DEF AppliedGens
    <3> QED BY <3>1 DEF AppliesOwn
  <2> QED BY <2>2, <2>3
<1> QED BY <1>2, <1>4, <1>5, <1>6, <1>7 DEF RunEffect

LEMMA CreatePlanRun ==
  ASSUME TypeInv, ApprovalInv, CreatePlan
  PROVE  RunEffect
<1>1. \A r \in {"InProgress", "CallError"} :
        /\ SetCondition(Prepared, "plan", r) \in Object
        /\ PlanKnown(SetCondition(Prepared, "plan", r))
  BY PreparedFacts, SetPlan, Names DEF TypeInv, TypeOK, ApprovalInv
<1>2. UNCHANGED <<secrets, environment, crApply, approved>>
  BY DEF CreatePlan
<1>3. ~MustReset /\ ~cache.deleting
  BY DEF CreatePlan, NoPlanJob, ReachesPlan, Live
<1>4. CASE /\ CreateJob("plan", cache, 0)
           /\ planned' = planned \cup {cache.gen}
           /\ Finish(cfg, SetCondition(Prepared, "plan", "InProgress"), TRUE)
  <2>1. PlansOwn /\ cache.gen \in planned' /\ 0 \in 0..MaxJobs
    BY <1>3, <1>4, BoundsAssumption DEF PlansOwn, BoundsAssumption
  <2> QED BY <1>1, <1>2, <1>4, <2>1, JobRun
<1>5. CASE /\ NoJobCreated
           /\ FinishFailed(cfg, SetCondition(Prepared, "plan", "CallError"))
  BY <1>1, <1>2, <1>5, PatchRun
<1> QED BY <1>4, <1>5 DEF CreatePlan

(* An apply job is created for a generation that is planned and approved. *)
LEMMA CreateApplyApproved ==
  ASSUME TypeInv, ApprovalInv, CreateApply
  PROVE  PlanPassed /\ cache.gen \in planned /\ cache.gen \in approved
<1>1. PlanPassed
  BY DEF CreateApply, ReachesApply, PolicyPassed
<1>2. cache.gen \in planned /\ ~cache.deleting
  BY <1>1, PlanPassedFacts DEF TypeInv
<1>3. cache.auto \/ ~NeedsApproval(cache)
  BY DEF CreateApply, Held
<1> QED BY <1>1, <1>2, <1>3 DEF ApprovalInv, Approved

LEMMA CreateApplyRun ==
  ASSUME TypeInv, ApprovalInv, CreateApply
  PROVE  RunEffect
<1> DEFINE o == [Checked EXCEPT !.sync = "OutOfSync"]
<1>1. PlanPassed /\ cache.gen \in planned /\ cache.gen \in approved
  BY CreateApplyApproved
<1>2. o \in Object /\ PlanKnown(o)
  BY <1>1, CheckedFacts, SyncFacts DEF TypeInv
<1>3. /\ UNCHANGED <<secrets, environment, crApply, approved, planned>>
      /\ \/ /\ CreateJob("apply", cache, shown.plan.job)
            /\ Finish(cfg, SetCondition(o, "apply", "InProgress"), TRUE)
         \/ /\ UNCHANGED <<jobs, njobs>>
            /\ FinishFailed(cfg, SetCondition(o, "apply", "CallError"))
  BY DEF CreateApply
<1> HIDE DEF o
<1>4. \A r \in {"InProgress", "CallError"} :
        /\ SetCondition(o, "apply", r) \in Object
        /\ PlanKnown(SetCondition(o, "apply", r))
  BY <1>2, SetOther, Names
<1>5. PlansOwn /\ cache.gen \in planned' /\ shown.plan.job \in 0..MaxJobs
  BY <1>1, <1>3 DEF PlansOwn, TypeInv, TypeOK, SecretView, PlanSecret
<1>6. CASE /\ CreateJob("apply", cache, shown.plan.job)
           /\ Finish(cfg, SetCondition(o, "apply", "InProgress"), TRUE)
  BY <1>1, <1>3, <1>4, <1>5, <1>6, JobRun
<1>7. CASE /\ UNCHANGED <<jobs, njobs>>
           /\ FinishFailed(cfg, SetCondition(o, "apply", "CallError"))
  <2>1. NoJobCreated
    BY <1>3, <1>7 DEF NoJobCreated
  <2> QED BY <1>3, <1>4, <1>7, <2>1, PatchRun
<1> QED BY <1>3, <1>6, <1>7

LEMMA CreateDestroyRun ==
  ASSUME TypeInv, ApprovalInv, CreateDestroy
  PROVE  RunEffect
<1>1. UNCHANGED <<secrets, environment, crApply, approved, planned>>
  BY DEF CreateDestroy
<1>2. PICK n \in {SetCondition(Destroying, "ready", "InProgress"),
                  SetCondition(Destroying, "ready", "CallError")} :
        /\ Finish(cfg, n, TRUE) \/ FinishFailed(cfg, n)
        /\ CreateJob("destroy", cache, 0) \/ UNCHANGED <<jobs, njobs>>
  BY DEF CreateDestroy
<1>3. n \in Object /\ PlanKnown(n)
  BY <1>2, DestroyingFacts
<1>4. PlansOwn /\ 0 \in 0..MaxJobs
  BY <1>1, BoundsAssumption DEF PlansOwn, BoundsAssumption
<1>5. CASE CreateJob("destroy", cache, 0)
  BY <1>1, <1>2, <1>3, <1>4, <1>5, JobRun
<1>6. CASE UNCHANGED <<jobs, njobs>>
  <2>1. NoJobCreated
    BY <1>1, <1>6 DEF NoJobCreated
  <2> QED BY <1>1, <1>2, <1>3, <2>1, PatchRun
<1> QED BY <1>2, <1>5, <1>6

LEMMA WrittenTyped ==
  ASSUME TypeOK, NEW own \in BOOLEAN, SecretsWritten(own),
         planSecret' \in PlanSecret, report' \in 0..MaxJobs, tfState' \in StateSecret
  PROVE  shown' \in SecretView
BY DEF SecretsWritten, Stored, SecretView, TypeOK

LEMMA CleanUpRun ==
  ASSUME TypeInv, ApprovalInv, CleanUp
  PROVE  RunEffect
<1> DEFINE stored == IF cache = cfg THEN [cfg EXCEPT !.exists = FALSE] ELSE cfg
           n == [Released EXCEPT !.finalizer = FALSE]
           again == cache # cfg
<1>1. stored \in Object /\ Kept(stored)
  <2> DEFINE o == [cfg EXCEPT !.exists = FALSE]
  <2>1. cfg \in Object /\ Kept(cfg)
    BY DEF TypeInv, TypeOK, Kept
  <2>2. o \in Object /\ Kept(o)
    BY <2>1 DEF Object, Kept
  <2> QED BY <2>1, <2>2
<1>2. n \in Object /\ PlanKnown(n)
  <2>1. Released \in Object /\ PlanKnown(Released)
    BY DestroyingFacts, PreparedFacts DEF Released, TypeInv, TypeOK, ApprovalInv
  <2> QED BY <2>1 DEF Object, PlanKnown
<1>3. jobs' \in [JobIds -> Job] /\ njobs' \in 0..MaxJobs
  <2>1. \A i \in JobIds : [jobs[i] EXCEPT !.removed = TRUE] \in Job
    BY DEF TypeInv, TypeOK, Job
  <2> QED BY <2>1 DEF CleanUp, TypeInv, TypeOK
<1>4. JobsKnown' /\ PlansOwn /\ AppliesOwn /\ approved' = approved
  <2>1. \A i \in JobIds : jobs'[i].stage = jobs[i].stage /\ jobs'[i].gen = jobs[i].gen
    BY DEF CleanUp, TypeInv, TypeOK, Job
  <2>2. planned' = planned /\ approved' = approved /\ njobs' = njobs
    BY DEF CleanUp
  <2>3. AppliedGens' = AppliedGens
    BY <2>1 DEF AppliedGens
  <2> QED BY <2>1, <2>2, <2>3 DEF JobsKnown, ApprovalInv, PlansOwn, AppliesOwn
<1>5. SideTyped'
  <2>1. /\ planSecret' \in PlanSecret /\ report' \in 0..MaxJobs
        /\ tfState' \in StateSecret
    BY BoundsAssumption DEF CleanUp, PlanSecret, StateSecret, BoundsAssumption
  <2>2. shown' \in SecretView
    BY <2>1, WrittenTyped DEF CleanUp, TypeInv
  <2> QED BY <2>1, <2>2 DEF CleanUp, environment, SideTyped, TypeInv, TypeOK
<1>6. Finish(stored, n, again) /\ again \in BOOLEAN
  BY DEF CleanUp
<1> HIDE DEF stored, n, again
<1>7. Result(stored, n)
  BY <1>1, <1>2, <1>3, <1>6, FinishFacts, BoundsAssumption, SettingsAssumption
     DEF TypeInv
<1>8. Leaves
  BY <1>1, <1>2, <1>7 DEF Leaves
<1> QED BY <1>3, <1>4, <1>5, <1>8 DEF RunEffect

LEMMA ReconcileRuns ==
  ASSUME TypeInv, ApprovalInv, Reconcile, ~ReconcileNotFound
  PROVE  RunEffect
BY EarlyRuns, RequireApprovalRun, PlanStageRuns, PlanSecretRun, PolicyStageRuns,
   ApplyStageRuns,
   DestroyStageRuns, CreatePlanRun, CreateApplyRun, CreateDestroyRun, CleanUpRun
   DEF Reconcile

LEMMA ReconcileStep ==
  ASSUME TypeInv, ApprovalInv, Reconcile
  PROVE  TypeInv' /\ ApprovalInv'
<1>1. CASE ReconcileNotFound
  <2>1. TypeInv'
    BY <1>1 DEF ReconcileNotFound, TypeInv, TypeOK, Bounded, secrets,
                storedSecrets, environment
  <2>2. ApprovalInv'
    BY <1>1 DEF ReconcileNotFound, ApprovalInv, Approved, PlanKnown, JobsKnown,
                CacheLags, NeedsApproval
  <2> QED BY <2>1, <2>2
<1>2. CASE ~ReconcileNotFound
  BY <1>2, ReconcileRuns, RunEffectFacts
<1> QED BY <1>1, <1>2

-----------------------------------------------------------------------------
(***************************************************************************)
(* The other steps.                                                        *)
(***************************************************************************)
LEMMA InformerStep ==
  ASSUME TypeInv, ApprovalInv, SyncConfiguration \/ SyncJobs \/ SyncSecrets \/ Restart
  PROVE  TypeInv' /\ ApprovalInv'
<1>1. /\ UNCHANGED <<cfg, jobs, njobs, storedSecrets, vouched, environment,
                     crApply, approved, planned>>
      /\ cache' \in {cfg, cache} /\ shown' \in {Stored, shown}
  BY DEF SyncConfiguration, SyncJobs, SyncSecrets, Restart, secrets
<1>2. queued' \in BOOLEAN /\ faults' \in 0..MaxFaults
  <2>1. CASE SyncConfiguration \/ SyncJobs \/ SyncSecrets
    BY <2>1 DEF SyncConfiguration, SyncJobs, SyncSecrets, Triggers, TypeInv, TypeOK
  <2>2. CASE Restart
    <3>1. queued' \in BOOLEAN
      BY <2>2 DEF Restart, TypeInv, TypeOK, Object
    <3>2. faults' \in 0..MaxFaults
      BY <2>2, BoundsAssumption DEF Restart, TypeInv, TypeOK, BoundsAssumption
    <3> QED BY <3>1, <3>2
  <2> QED BY <2>1, <2>2
<1>3. seen' \in [JobIds -> Phases]
  BY DEF SyncConfiguration, SyncJobs, SyncSecrets, Restart, Shown, TypeInv, TypeOK, Job, Phases
<1>4. TypeInv'
  <2>1. shown' \in SecretView
    BY <1>1 DEF Stored, SecretView, TypeInv, TypeOK
  <2> QED BY <1>1, <1>2, <1>3, <2>1
          DEF TypeInv, TypeOK, Bounded, storedSecrets, environment
<1>5. Approved(cfg)' /\ PlanKnown(cfg)' /\ JobsKnown'
  BY <1>1 DEF ApprovalInv, Approved, PlanKnown, JobsKnown, NeedsApproval
<1>6. Approved(cache)' /\ PlanKnown(cache)' /\ CacheLags'
  <2>1. CASE cache' = cache
    BY <1>1, <2>1
       DEF ApprovalInv, Approved, PlanKnown, CacheLags, NeedsApproval
  <2>2. CASE cache' = cfg
    BY <1>1, <2>2, BoundsAssumption
       DEF ApprovalInv, Approved, PlanKnown, CacheLags, NeedsApproval, TypeInv,
           TypeOK, Object, Generations, BoundsAssumption
  <2> QED BY <1>1, <2>1, <2>2
<1> QED BY <1>4, <1>5, <1>6 DEF ApprovalInv

(* Platform and job steps leave the object and its history alone. *)
LEMMA PlatformStep ==
  ASSUME TypeInv, ApprovalInv, Platform
  PROVE  TypeInv' /\ ApprovalInv'
<1>1. /\ UNCHANGED <<cfg, cache, jobs, njobs, seen, secrets, crApply, faults,
                     approved, planned>>
  BY DEF Platform, LosePrerequisite, MeetPrerequisite, MatchPolicy,
         WithdrawPolicy, CloudDrifts, PlatformWrites
<1>2. queued' \in BOOLEAN /\ policyOn' \in BOOLEAN /\ missing' \subseteq Flaky
  BY DEF Platform, LosePrerequisite, MeetPrerequisite, MatchPolicy,
         WithdrawPolicy, CloudDrifts, PlatformWrites, TypeInv, TypeOK
<1>3. cloud' \in [at : Generations, resources : BOOLEAN]
  <2>1. cloud' \in {cloud, [cloud EXCEPT !.at = 0]}
    BY DEF Platform, LosePrerequisite, MeetPrerequisite, MatchPolicy,
           WithdrawPolicy, CloudDrifts
  <2>2. 0 \in Generations /\ cloud \in [at : Generations, resources : BOOLEAN]
    BY BoundsAssumption DEF TypeInv, TypeOK, Generations, BoundsAssumption
  <2> QED BY <2>1, <2>2
<1>4. TypeInv'
  BY <1>1, <1>2, <1>3 DEF TypeInv, TypeOK, Bounded, secrets, storedSecrets
<1>5. ApprovalInv'
  BY <1>1 DEF ApprovalInv, Approved, PlanKnown, JobsKnown, CacheLags, NeedsApproval
<1> QED BY <1>4, <1>5

(* What the user changes, and what it means for approval. *)
LEMMA UserFacts ==
  ASSUME TypeInv, ApprovalInv, User \/ AnnotateDrift
  PROVE  /\ cfg'.gen \in {cfg.gen, cfg.gen + 1} /\ cfg'.conds = cfg.conds
         /\ approved' \in {approved, approved \cup {cfg'.gen}}
         /\ ~cfg'.deleting /\ cfg'.auto => cfg'.gen \in approved'
         /\ cfg'.gen = cfg.gen => /\ cfg'.deleting = cfg.deleting
                                  /\ \/ cfg'.apply = cfg.apply
                                     \/ cfg'.gen \in approved'
<1>0. cfg \in Object /\ cfg.gen \in Nat
  BY BoundsAssumption DEF TypeInv, TypeOK, Object, Generations, BoundsAssumption
<1>1. CASE \E auto \in AutoSettings, drift \in DriftSettings : Edit(auto, drift)
  BY <1>0, <1>1 DEF Edit, UserWrites, BySpec, Object
<1>2. CASE Approve
  BY <1>0, <1>2 DEF Approve, UserWrites, Object
<1>3. CASE \/ \E state \in {"fresh", "invalid"} : Retry(state)
           \/ AnnotateDrift
  BY <1>0, <1>3 DEF Retry, AnnotateDrift, UserWrites, Object, ApprovalInv, Approved
<1>4. CASE \E orphan \in Deletes : Delete(orphan)
  <2>1. PICK orphan \in Deletes : Delete(orphan)
    BY <1>4
  <2>2. CASE cfg.finalizer
    <3>1. /\ cfg' = [cfg EXCEPT !.deleting = TRUE, !.gen = @ + 1, !.orphan = orphan]
          /\ approved' = approved
      BY <2>1, <2>2 DEF Delete, UserWrites
    <3>2. /\ cfg'.gen = cfg.gen + 1 /\ cfg'.conds = cfg.conds /\ cfg'.deleting
          /\ cfg'.gen # cfg.gen
      BY <1>0, <3>1 DEF Object
    <3> QED BY <3>1, <3>2
  <2>3. CASE ~cfg.finalizer
    BY <1>0, <2>1, <2>3 DEF Delete, UserWrites, Object, ApprovalInv, Approved
  <2> QED BY <2>2, <2>3
<1> QED BY <1>1, <1>2, <1>3, <1>4 DEF User

LEMMA UserStep ==
  ASSUME TypeInv, ApprovalInv, User \/ AnnotateDrift
  PROVE  TypeInv' /\ ApprovalInv'
<1>1. /\ UNCHANGED <<cache, queued, jobs, njobs, seen, secrets, environment,
                     crApply, faults, planned>>
      /\ approved \subseteq approved'
  BY DEF User, AnnotateDrift, Edit, Approve, Retry, Delete, UserWrites
<1>2. /\ cfg \in Object /\ cfg.gen \in Nat /\ cfg.gen \in Generations
      /\ approved \subseteq Generations /\ planned \subseteq 1..cfg.gen
      /\ cache.gen \in 1..cfg.gen
  BY BoundsAssumption DEF TypeInv, TypeOK, ApprovalInv, CacheLags, Object,
                          Generations, BoundsAssumption
<1>3. /\ cfg' \in Object /\ Bounded'
  <2>1. CASE \E auto \in AutoSettings, drift \in DriftSettings : Edit(auto, drift)
    <3>1. PICK auto \in BOOLEAN, drift \in BOOLEAN :
            /\ cfg.gen < MaxGeneration
            /\ cfg' = [cfg EXCEPT !.gen = @ + 1, !.auto = auto, !.drift = drift]
      BY <2>1, SettingsAssumption DEF Edit, UserWrites, SettingsAssumption
    <3>2. cfg.gen + 1 \in Generations /\ cfg.gen + 1 <= MaxGeneration
      BY <1>2, <3>1, BoundsAssumption DEF Generations, BoundsAssumption
    <3> QED BY <1>2, <3>1, <3>2 DEF Object, Bounded
  <2>2. CASE Approve
    BY <1>2, <2>2 DEF Approve, UserWrites, TypeInv, Bounded, Object, Annotation
  <2>3. CASE \E state \in {"fresh", "invalid"} : Retry(state)
    <3>1. PICK state \in {"fresh", "invalid"} :
            /\ cfg.retry < MaxRetry
            /\ cfg' = [cfg EXCEPT !.retry = @ + 1, !.retryState = state]
      BY <2>3 DEF Retry, UserWrites
    <3>2. cfg.retry + 1 \in 0..MaxRetry
      BY <1>2, <3>1, BoundsAssumption DEF Object, BoundsAssumption
    <3> QED BY <1>2, <3>1, <3>2 DEF Object, TypeInv, Bounded
  <2>4. CASE \E orphan \in Deletes : Delete(orphan)
    <3>1. PICK orphan \in BOOLEAN :
            /\ ~cfg.deleting
            /\ \/ cfg' = [cfg EXCEPT !.deleting = TRUE, !.gen = @ + 1,
                                     !.orphan = orphan]
               \/ cfg' = [cfg EXCEPT !.exists = FALSE]
      BY <2>4, SettingsAssumption DEF Delete, UserWrites, SettingsAssumption
    <3>2. cfg.gen + 1 \in Generations
      BY <1>2, <3>1, BoundsAssumption DEF Generations, BoundsAssumption, TypeInv,
                                          Bounded
    <3> QED BY <1>2, <3>1, <3>2 DEF Object, TypeInv, Bounded
  <2>5. CASE AnnotateDrift
    <3>1. cfg' = [cfg EXCEPT !.driftAt = @ + 1] /\ cfg.driftAt < MaxDrift
      BY <2>5 DEF AnnotateDrift, UserWrites
    <3>2. cfg.driftAt + 1 \in 0..MaxDrift
      BY <1>2, <3>1, BoundsAssumption DEF Object, BoundsAssumption
    <3> QED BY <1>2, <3>1, <3>2 DEF Object, TypeInv, Bounded
  <2> QED BY <2>1, <2>2, <2>3, <2>4, <2>5 DEF User
<1>4. /\ cfg'.gen \in {cfg.gen, cfg.gen + 1} /\ cfg'.conds = cfg.conds
      /\ approved' \in {approved, approved \cup {cfg'.gen}}
      /\ ~cfg'.deleting /\ cfg'.auto => cfg'.gen \in approved'
      /\ cfg'.gen = cfg.gen => /\ cfg'.deleting = cfg.deleting
                               /\ \/ cfg'.apply = cfg.apply
                                  \/ cfg'.gen \in approved'
  BY UserFacts
<1>5. TypeInv'
  <2>1. approved' \subseteq Generations
    BY <1>2, <1>3, <1>4 DEF Object
  <2> QED BY <1>1, <1>3, <2>1
          DEF TypeInv, TypeOK, secrets, storedSecrets, environment
<1>6. cache'.gen \in 1..cfg'.gen /\ planned' \subseteq 1..cfg'.gen
  BY <1>1, <1>2, <1>4
<1>7. Approved(cfg)'
  <2>1. CASE cfg'.gen = cfg.gen
    BY <1>1, <1>4, <2>1 DEF ApprovalInv, Approved, NeedsApproval
  <2>2. CASE cfg'.gen = cfg.gen + 1
    <3>1. cfg'.gen \notin planned'
      BY <1>1, <1>2, <2>2
    <3> QED BY <1>4, <3>1 DEF Approved
  <2> QED BY <1>4, <2>1, <2>2
<1>8. Approved(cache)' /\ PlanKnown(cfg)' /\ PlanKnown(cache)' /\ JobsKnown'
  BY <1>1, <1>4 DEF ApprovalInv, Approved, PlanKnown, JobsKnown, NeedsApproval
<1>9. CacheLags'
  <2>1. CASE cfg'.gen = cfg.gen
    BY <1>1, <1>4, <1>6, <2>1 DEF ApprovalInv, CacheLags, NeedsApproval
  <2>2. CASE cfg'.gen = cfg.gen + 1
    <3>1. cache'.gen # cfg'.gen
      BY <1>1, <1>2, <2>2
    <3> QED BY <1>6, <3>1 DEF CacheLags
  <2> QED BY <1>4, <2>1, <2>2
<1> QED BY <1>5, <1>7, <1>8, <1>9 DEF ApprovalInv

(* A job step rewrites the progress of one job, and secrets and the cloud. *)
LEMMA JobProgress ==
  ASSUME TypeInv, NEW i \in JobIds, JobStep(i) \/ ExpireJob(i)
  PROVE  \E j \in Job : /\ jobs' = [jobs EXCEPT ![i] = j]
                        /\ j.stage = jobs[i].stage /\ j.gen = jobs[i].gen
<1>1. jobs[i] \in Job
  BY DEF TypeInv, TypeOK
<1>2. \/ jobs' = [jobs EXCEPT ![i] = [jobs[i] EXCEPT !.step = 1]]
      \/ jobs' = [jobs EXCEPT ![i] = [jobs[i] EXCEPT !.step = 2]]
      \/ jobs' = [jobs EXCEPT ![i] = [jobs[i] EXCEPT !.phase = "complete"]]
      \/ jobs' = [jobs EXCEPT ![i] = [jobs[i] EXCEPT !.phase = "failed"]]
      \/ jobs' = [jobs EXCEPT ![i] = [jobs[i] EXCEPT !.removed = TRUE]]
  BY DEF JobStep, ExpireJob, UploadPlan, UploadReport, CompletePlan, FailPlan,
         CompleteApply, FailApply, CompleteDestroy, FailDestroy, FinishTerraform
<1>3. ASSUME NEW k \in {1, 2}
      PROVE  LET j == [jobs[i] EXCEPT !.step = k]
             IN  j \in Job /\ j.stage = jobs[i].stage /\ j.gen = jobs[i].gen
  BY <1>1 DEF Job
<1>4. ASSUME NEW p \in {"complete", "failed"}
      PROVE  LET j == [jobs[i] EXCEPT !.phase = p]
             IN  j \in Job /\ j.stage = jobs[i].stage /\ j.gen = jobs[i].gen
  BY <1>1 DEF Job, Phases
<1>5. LET j == [jobs[i] EXCEPT !.removed = TRUE]
      IN  j \in Job /\ j.stage = jobs[i].stage /\ j.gen = jobs[i].gen
  BY <1>1 DEF Job
<1> QED BY <1>2, <1>3, <1>4, <1>5

LEMMA JobStepStep ==
  ASSUME TypeInv, ApprovalInv, NEW i \in JobIds, JobStep(i) \/ ExpireJob(i)
  PROVE  TypeInv' /\ ApprovalInv'
<1>1. /\ UNCHANGED <<cfg, cache, queued, njobs, seen, policyOn, missing, crApply,
                     faults, approved, planned>>
  BY DEF JobStep, ExpireJob, UploadPlan, UploadReport, CompletePlan, FailPlan,
         CompleteApply, FailApply, CompleteDestroy, FailDestroy, FinishTerraform,
         JobWrites
<1>2. /\ jobs' \in [JobIds -> Job]
      /\ \A k \in JobIds : jobs'[k].stage = jobs[k].stage /\ jobs'[k].gen = jobs[k].gen
  <2>1. PICK j \in Job : /\ jobs' = [jobs EXCEPT ![i] = j]
                         /\ j.stage = jobs[i].stage /\ j.gen = jobs[i].gen
    BY JobProgress
  <2> QED BY <2>1 DEF TypeInv, TypeOK
<1>3. /\ jobs[i].gen \in Generations /\ 0 \in Generations /\ i \in 0..MaxJobs
      /\ cloud \in [at : Generations, resources : BOOLEAN]
  <2>1. jobs[i] \in Job
    BY DEF TypeInv, TypeOK
  <2>2. jobs[i].gen \in Generations
    BY <2>1 DEF Job
  <2>3. 0 \in Generations /\ i \in 0..MaxJobs
    BY BoundsAssumption DEF Generations, JobIds, BoundsAssumption
  <2>4. cloud \in [at : Generations, resources : BOOLEAN]
    BY DEF TypeInv, TypeOK
  <2> QED BY <2>2, <2>3, <2>4
<1>4. planSecret' \in PlanSecret
  <2>1. HasChanges(jobs[i].gen) \in BOOLEAN
    BY <1>3 DEF HasChanges
  <2>2. \/ planSecret' = planSecret
        \/ planSecret' = [job |-> i, changes |-> HasChanges(jobs[i].gen)]
    BY DEF JobStep, ExpireJob, UploadPlan, UploadReport, CompletePlan, FailPlan,
           CompleteApply, FailApply, CompleteDestroy, FailDestroy,
           FinishTerraform, secrets, storedSecrets
  <2> QED BY <1>3, <2>1, <2>2 DEF TypeInv, TypeOK, PlanSecret
<1>5. report' \in 0..MaxJobs /\ verdict' \in [JobIds -> Verdicts]
  BY <1>3, SettingsAssumption
     DEF JobStep, ExpireJob, UploadPlan, UploadReport, CompletePlan, FailPlan,
         CompleteApply, FailApply, CompleteDestroy, FailDestroy, FinishTerraform,
         secrets, storedSecrets, TypeInv, TypeOK, Verdicts, SettingsAssumption
<1>6. /\ tfState' \in StateSecret
      /\ cloud' \in [at : Generations, resources : BOOLEAN]
  <2>1. \/ UNCHANGED <<tfState, cloud>>
        \/ \E phase \in {"complete", "failed"}, at \in {0, jobs[i].gen},
              some \in {FALSE, cloud.resources, jobs[i].gen \notin ZeroGens} :
             FinishTerraform(i, phase, at, some)
    BY DEF JobStep, ExpireJob, UploadPlan, UploadReport, CompletePlan, FailPlan,
           CompleteApply, FailApply, CompleteDestroy, FailDestroy, secrets,
           storedSecrets
  <2>2. CASE UNCHANGED <<tfState, cloud>>
    BY <2>2 DEF TypeInv, TypeOK
  <2>3. ASSUME NEW phase, NEW at \in {0, jobs[i].gen},
               NEW some \in {FALSE, cloud.resources, jobs[i].gen \notin ZeroGens},
               FinishTerraform(i, phase, at, some)
        PROVE  /\ tfState' \in StateSecret
               /\ cloud' \in [at : Generations, resources : BOOLEAN]
    <3>1. some \in BOOLEAN /\ at \in Generations
      BY <1>3
    <3>2. cloud' = [at |-> at, resources |-> some] /\ tfState' = Recorded(some)
      BY <2>3 DEF FinishTerraform
    <3> QED BY <3>1, <3>2 DEF Recorded, StateSecret
  <2> QED BY <2>1, <2>2, <2>3
<1>7. shown' \in SecretView /\ vouched' = vouched
  <2>1. vouched' = vouched /\ (shown' = shown \/ SecretsWritten(FALSE))
    BY DEF JobStep, ExpireJob, UploadPlan, UploadReport, CompletePlan, FailPlan,
           CompleteApply, FailApply, CompleteDestroy, FailDestroy,
           FinishTerraform, secrets
  <2> QED BY <1>4, <1>5, <1>6, <2>1, WrittenTyped DEF TypeInv, TypeOK
<1>8. TypeInv'
  BY <1>1, <1>2, <1>4, <1>5, <1>6, <1>7 DEF TypeInv, TypeOK, Bounded
<1>9. ApprovalInv'
  BY <1>1, <1>2 DEF ApprovalInv, Approved, PlanKnown, JobsKnown, CacheLags,
                    NeedsApproval
<1> QED BY <1>8, <1>9

-----------------------------------------------------------------------------
(***************************************************************************)
(* The inductive invariant, and the theorems.                              *)
(***************************************************************************)
IInv == TypeInv /\ ApprovalInv

LEMMA InitIInv == Init => IInv
<1> SUFFICES ASSUME Init PROVE IInv
  OBVIOUS
<1>1. PICK auto \in AutoSettings, drift \in DriftSettings, apply \in Annotation :
       cfg = [exists |-> TRUE, gen |-> 1, auto |-> auto, drift |-> drift,
              apply |-> apply, retry |-> 0, retryState |-> "used",
              driftAt |-> 0, orphan |-> FALSE, deleting |-> FALSE,
              finalizer |-> FALSE,
              conds |-> [t \in ConditionTypes |-> NoCondition],
              lastReconcile |-> 0, resources |-> "unset", driftSeen |-> 0,
              sync |-> "OutOfSync"]
  BY DEF Init
<1>2. /\ auto \in BOOLEAN /\ drift \in BOOLEAN
      /\ 0 \in Generations /\ 1 \in Generations /\ 1 <= MaxGeneration
      /\ 0 \in 0..MaxRetry /\ 0 \in 0..MaxDrift /\ 0 \in 0..MaxJobs
      /\ 0 \in 0..MaxFaults
  BY SettingsAssumption, BoundsAssumption
     DEF SettingsAssumption, BoundsAssumption, Generations
<1>3. NoCondition \in Condition
  BY <1>2 DEF NoCondition, Condition, Reasons
<1>4. cfg \in Object /\ cfg.gen = 1 /\ ~cfg.deleting
      /\ cfg.conds["plan"].reason = "NotDetermined"
  BY <1>1, <1>2, <1>3 DEF Object, ConditionTypes, NoCondition
<1>5. NoJob \in Job /\ NoJob.stage = "none"
  BY <1>2 DEF NoJob, Job, Phases
<1>6. TypeOK
  <2>1. jobs \in [JobIds -> Job] /\ verdict \in [JobIds -> Verdicts]
        /\ seen \in [JobIds -> Phases]
    BY <1>5 DEF Init, Verdicts, Phases
  <2>2. approved \subseteq Generations /\ cfg.apply \in Annotation
        /\ crApply \in Annotation
    BY <1>2, <1>4 DEF Init, BySpec, Object, Annotation
  <2>3. /\ planSecret \in PlanSecret /\ tfState \in StateSecret
        /\ report \in 0..MaxJobs
        /\ cloud \in [at : Generations, resources : BOOLEAN]
        /\ policyOn \in BOOLEAN
    BY <1>2 DEF Init, PlanSecret, StateSecret
  <2>4. shown \in SecretView
    BY <2>3 DEF Init, Stored, SecretView
  <2> QED BY <1>2, <1>4, <2>1, <2>2, <2>3, <2>4 DEF Init, TypeOK
<1>7. Bounded
  BY <1>2, <1>4 DEF Bounded
<1>8. ApprovalInv
  BY <1>4, <1>5 DEF Init, ApprovalInv, Approved, PlanKnown, JobsKnown, CacheLags,
                    BySpec, NeedsApproval
<1> QED BY <1>6, <1>7, <1>8 DEF IInv, TypeInv

LEMMA NextIInv == IInv /\ [Next]_vars => IInv'
<1> SUFFICES ASSUME TypeInv, ApprovalInv, [Next]_vars
             PROVE  TypeInv' /\ ApprovalInv'
  BY DEF IInv
<1>1. CASE Next
  BY <1>1, ReconcileStep, InformerStep, UserStep, PlatformStep, JobStepStep DEF Next
<1>2. CASE UNCHANGED vars
  <2>1. TypeInv'
    BY <1>2 DEF vars, secrets, storedSecrets, environment, TypeInv, TypeOK, Bounded
  <2>2. ApprovalInv'
    BY <1>2 DEF vars, ApprovalInv, Approved, PlanKnown, JobsKnown, CacheLags,
                NeedsApproval
  <2> QED BY <2>1, <2>2
<1> QED BY <1>1, <1>2

(* The invariant holds in every reachable state. *)
THEOREM Inductive == Spec => []IInv
BY InitIInv, NextIInv, PTL DEF Spec

(***************************************************************************)
(* Every variable keeps its type, whatever the bounds: in particular no    *)
(* run of the chain, no sequence of edits and deletions and no interleaved *)
(* status patch takes a field out of its range.                            *)
(***************************************************************************)
THEOREM TypeCorrect == Spec => []TypeOK
<1>1. IInv => TypeOK
  BY DEF IInv, TypeInv
<1> QED BY <1>1, Inductive, PTL

(***************************************************************************)
(* terraform apply runs only for an approved generation, for any number of *)
(* generations, jobs, retries, faults and restarts and however far the     *)
(* controller's caches lag behind the API server.                          *)
(***************************************************************************)
THEOREM ApplySafe == Spec => []ApplyApproved
<1>1. IInv => ApplyApproved
  BY DEF IInv, ApprovalInv, JobsKnown, ApplyApproved
<1> QED BY <1>1, Inductive, PTL

-----------------------------------------------------------------------------
(***************************************************************************)
(* Refinement: what the steps do to the approval workflow.                 *)
(***************************************************************************)
LEMMA RunImplements ==
  ASSUME TypeInv, ApprovalInv, RunEffect
  PROVE  [Workflow!Next]_(Workflow!vars)
<1>1. cfg'.gen = cfg.gen
  BY DEF RunEffect, Leaves, Kept, Result
<1>2. approved' = approved /\ cache.gen \in 1..cfg.gen
  BY DEF RunEffect, ApprovalInv, CacheLags
<1>3. CASE planned' = planned /\ AppliedGens' = AppliedGens
  BY <1>1, <1>2, <1>3 DEF Workflow!vars
<1>4. CASE planned' = planned \cup {cache.gen} /\ AppliedGens' = AppliedGens
  BY <1>1, <1>2, <1>4 DEF Workflow!Next, Workflow!Plan
<1>5. CASE /\ planned' = planned /\ cache.gen \in planned \cap approved
           /\ AppliedGens' = AppliedGens \cup {cache.gen}
  BY <1>1, <1>2, <1>5 DEF Workflow!Next, Workflow!Apply
<1> QED BY <1>3, <1>4, <1>5 DEF RunEffect, PlansOwn, AppliesOwn

LEMMA UserImplements ==
  ASSUME TypeInv, ApprovalInv, User \/ AnnotateDrift
  PROVE  [Workflow!Next]_(Workflow!vars)
<1>1. planned' = planned /\ jobs' = jobs
  BY DEF User, AnnotateDrift, Edit, Approve, Retry, Delete, UserWrites
<1>2. AppliedGens' = AppliedGens
  BY <1>1 DEF AppliedGens
<1>3. /\ cfg'.gen \in {cfg.gen, cfg.gen + 1}
      /\ approved' \in {approved, approved \cup {cfg'.gen}}
  BY UserFacts
<1>4. CASE cfg'.gen = cfg.gen
  BY <1>1, <1>2, <1>3, <1>4 DEF Workflow!Next, Workflow!Approve, Workflow!vars
<1>5. CASE cfg'.gen = cfg.gen + 1
  BY <1>1, <1>2, <1>3, <1>5 DEF Workflow!Next, Workflow!Submit
<1> QED BY <1>3, <1>4, <1>5

LEMMA NextImplements == IInv /\ [Next]_vars => [Workflow!Next]_(Workflow!vars)
<1> SUFFICES ASSUME TypeInv, ApprovalInv, [Next]_vars
             PROVE  [Workflow!Next]_(Workflow!vars)
  BY DEF IInv
<1>1. CASE Reconcile /\ ~ReconcileNotFound
  BY <1>1, ReconcileRuns, RunImplements
<1>2. CASE User \/ AnnotateDrift
  BY <1>2, UserImplements
<1>3. CASE \/ ReconcileNotFound \/ SyncConfiguration \/ SyncJobs \/ SyncSecrets
           \/ Restart \/ Platform \/ UNCHANGED vars
  <2>1. UNCHANGED <<cfg, jobs, approved, planned>>
    BY <1>3 DEF ReconcileNotFound, SyncConfiguration, SyncJobs, SyncSecrets, Restart,
                Platform,
                LosePrerequisite, MeetPrerequisite, MatchPolicy, WithdrawPolicy,
                CloudDrifts, PlatformWrites, vars
  <2> QED BY <2>1 DEF Workflow!vars, AppliedGens
<1>4. ASSUME NEW i \in JobIds, JobStep(i) \/ ExpireJob(i)
      PROVE  [Workflow!Next]_(Workflow!vars)
  <2>1. UNCHANGED <<cfg, approved, planned>>
    BY <1>4 DEF JobStep, ExpireJob, UploadPlan, UploadReport, CompletePlan,
                FailPlan, CompleteApply, FailApply, CompleteDestroy, FailDestroy,
                FinishTerraform, JobWrites
  <2>2. PICK j \in Job : /\ jobs' = [jobs EXCEPT ![i] = j]
                         /\ j.stage = jobs[i].stage /\ j.gen = jobs[i].gen
    BY <1>4, JobProgress
  <2>3. \A k \in JobIds : jobs'[k].stage = jobs[k].stage /\ jobs'[k].gen = jobs[k].gen
    BY <2>2 DEF TypeInv, TypeOK
  <2>4. AppliedGens' = AppliedGens
    BY <2>3 DEF AppliedGens
  <2> QED BY <2>1, <2>4 DEF Workflow!vars
<1> QED BY <1>1, <1>2, <1>3, <1>4 DEF Next

LEMMA InitImplements == Init => Workflow!Init
<1> SUFFICES ASSUME Init PROVE Workflow!Init
  OBVIOUS
<1>1. cfg.gen = 1 /\ planned = {} /\ approved = BySpec(cfg)
  BY DEF Init
<1>2. AppliedGens = {}
  BY DEF Init, AppliedGens, NoJob
<1> QED BY <1>1, <1>2 DEF BySpec, Workflow!Init

(***************************************************************************)
(* The controller implements the approval workflow: every step of every    *)
(* run, user, informer, platform and job is a step of ApprovalWorkflow or  *)
(* leaves its state alone, so a generation is applied only once it has     *)
(* been planned and approved.                                              *)
(***************************************************************************)
THEOREM Refinement == Spec => ImplementsWorkflow
BY InitImplements, NextImplements, Inductive, PTL
   DEF Spec, ImplementsWorkflow, Workflow!Spec

=============================================================================
