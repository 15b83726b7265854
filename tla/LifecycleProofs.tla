--------------------------- MODULE LifecycleProofs ----------------------------
(***************************************************************************)
(* Two theorems about how the controller comes to rest, for every value of *)
(* the constants.  It never falls silent, when its caches show its own     *)
(* writes: a run that is not queued again has left the reason in the       *)
(* status, and every later event that matters wakes the controller up.     *)
(* And it throws the Terraform state of resources that exist away in three *)
(* ways only.                                                              *)
(***************************************************************************)
EXTENDS PlansProofs

(***************************************************************************)
(* The cache shows the sync state the controller wrote, and an approval it *)
(* has not seen yet is one the user has given, not one that was reset.     *)
(***************************************************************************)
StatusShown ==
  /\ cache.sync = cfg.sync
  /\ cfg.apply = "false" => cache.apply = "false"

(* When nothing is queued, an event is on its way or the status explains   *)
(* why nothing happens.                                                    *)
Awake == cfg.exists /\ ~queued => Triggers(cache, cfg) \/ Explained(cfg)

SilenceInv == StatusShown /\ Awake

-----------------------------------------------------------------------------
(* An object computed from the cached one, by a run. *)
Computed(n) == n \in Object /\ n.gen = cache.gen /\ n.deleting = cache.deleting

LEMMA SetComputed ==
  ASSUME NEW o, Computed(o), NEW type \in ConditionTypes, NEW reason \in Reasons
  PROVE  LET n == SetCondition(o, type, reason)
         IN  /\ Computed(n) /\ n.sync = o.sync
             /\ n.conds[type].reason = reason /\ n.conds[type].gen = n.gen
             /\ \A t \in ConditionTypes : t # type => n.conds[t] = o.conds[t]
<1> DEFINE n == SetCondition(o, type, reason)
           c == [reason |-> reason, gen |-> o.gen]
<1>1. n \in Object
  BY SetConditionFacts DEF Computed
<1>2. n = [o EXCEPT !.conds[type] = c]
  BY DEF SetCondition
<1>3. c.reason = reason /\ c.gen = o.gen
  OBVIOUS
<1> HIDE DEF c
<1>4. /\ n.gen = o.gen /\ n.deleting = o.deleting /\ n.sync = o.sync
      /\ n.conds[type] = c /\ \A t \in ConditionTypes : t # type => n.conds[t] = o.conds[t]
  BY <1>2 DEF Computed, Object
<1> HIDE DEF n
<1>5. Computed(n) /\ n.conds[type].reason = reason /\ n.conds[type].gen = n.gen
  BY <1>1, <1>3, <1>4 DEF Computed
<1> QED BY <1>4, <1>5 DEF n

LEMMA SetSays ==
  ASSUME NEW o, Computed(o), NEW type \in ConditionTypes, NEW reason \in Reasons,
         NEW reasons, reason \in reasons
  PROVE  Says(SetCondition(o, type, reason), type, reasons)
BY SetComputed DEF Says

LEMMA ComputedChain ==
  ASSUME TypeOK
  PROVE  Computed(cache) /\ Computed(Prepared) /\ Computed(Planned) /\ Computed(Checked)
<1>1. Computed(cache)
  BY DEF Computed, TypeOK
<1>2. Computed(Prepared)
  BY <1>1, SetComputed, TypeNames DEF Prepared
<1>3. Computed(Planned)
  BY <1>2, SetComputed, TypeNames DEF Planned
<1> DEFINE o == SetCondition(Planned, "policy", "Ready")
           d == IF cache.drift THEN cache.driftAt ELSE o.driftSeen
<1>4. Computed(o)
  BY <1>3, SetComputed, TypeNames
<1>5. Checked = [o EXCEPT !.driftSeen = d]
  BY DEF Checked
<1> HIDE DEF o
<1>6. d \in 0..MaxDrift
  BY <1>1, <1>4 DEF Computed, Object
<1> HIDE DEF d
<1>7. Computed(Checked)
  BY <1>4, <1>5, <1>6 DEF Computed, Object
<1> QED BY <1>1, <1>2, <1>3, <1>7

-----------------------------------------------------------------------------
(***************************************************************************)
(* A run that patches the status and is not queued again explains itself.  *)
(***************************************************************************)
Explains == cfg'.exists /\ ~queued' => Explained(cfg')

LEMMA FinishExplains ==
  ASSUME TypeOK, ReadYourWrites, CacheCurrent, StatusShown, cache.gen <= cfg.gen,
         NEW n, Computed(n), NEW again \in BOOLEAN, Finish(cfg, n, again),
         again \/ Explained(n)
  PROVE  Explains
<1> SUFFICES ASSUME cfg'.exists, ~queued'
             PROVE  Explained(cfg')
  BY DEF Explains
<1>1. cfg' = StatusPatch(cfg, n) /\ ~again /\ ~Triggers(cache, cfg')
  BY DEF Finish
<1>2. cfg'.gen = cache.gen
  BY <1>1 DEF Triggers
<1>3. cfg \in Object /\ n \in Object /\ cfg.gen \in Nat /\ cache.gen \in Nat
  BY ObjectTypes DEF TypeOK, Computed
<1>4. /\ cfg'.gen = cfg.gen /\ cfg'.deleting = cfg.deleting /\ cfg'.exists = cfg.exists
      /\ cfg'.conds = n.conds
  BY <1>1, <1>3, PatchKeeps DEF CacheCurrent
<1>5. cfg'.sync = n.sync
  <2>1. cfg.exists
    BY <1>4
  <2> QED BY <1>1, <1>3, <2>1 DEF StatusPatch, Object, StatusShown
<1>6. cfg'.deleting = n.deleting
  <2>1. cfg.deleting \in BOOLEAN /\ cache.deleting \in BOOLEAN
    BY DEF TypeOK, Object
  <2>2. ~(cache.gen < cfg.gen)
    BY <1>2, <1>3, <1>4
  <2>3. cfg.deleting <=> cache.deleting
    BY <2>2 DEF CacheCurrent
  <2>4. cfg.deleting = cache.deleting
    BY <2>1, <2>3
  <2> QED BY <1>4, <2>4 DEF Computed
<1>7. cfg'.gen = n.gen
  BY <1>2 DEF Computed
<1>8. Explained(n)
  BY <1>1
<1> QED BY <1>4, <1>5, <1>6, <1>7, <1>8 DEF Explained, Says

LEMMA Requeues ==
  ASSUME NEW stored, NEW n, Finish(stored, n, TRUE) \/ FinishFailed(stored, n)
  PROVE  Explains
BY DEF Finish, FinishFailed, Explains

LEMMA StopExplained ==
  ASSUME TypeOK, NEW chain, NEW k, chain[k] \in Ignored
  PROVE  Computed(StoppedAt(chain, k)) /\ Explained(StoppedAt(chain, k))
<1> DEFINE passed == \E m \in 1..(k - 1) : chain[m] = "providerReady"
           o == IF passed THEN Prepared ELSE cache
<1>1. Computed(o)
  BY ComputedChain
<1>2. \/ StoppedAt(chain, k) = SetCondition(o, "ready", "Warning")
      \/ StoppedAt(chain, k) = SetCondition(o, "provider", "ActionRequired")
      \/ StoppedAt(chain, k) = SetCondition(o, "ready", "ActionRequired")
  BY DEF StoppedAt, Ignored
<1> HIDE DEF o
<1>3. PICK t \in {"provider", "ready"}, r \in {"Warning", "ActionRequired"} :
           StoppedAt(chain, k) = SetCondition(o, t, r)
  BY <1>2
<1>4. t \in ConditionTypes /\ r \in Reasons
  BY TypeNames
<1>5. Computed(StoppedAt(chain, k))
  BY <1>1, <1>3, <1>4, SetComputed
<1>6. Says(StoppedAt(chain, k), t, {"Warning", "ActionRequired"})
  BY <1>1, <1>3, <1>4, SetSays
<1> QED BY <1>5, <1>6 DEF Explained

(* A condition of the plan, policy or apply stage that explains. *)
LEMMA StageExplained ==
  ASSUME NEW n, Computed(n), ~cache.deleting,
         \/ Says(n, "plan", {"Error", "CallError"})
         \/ Says(n, "plan", {"Ready"}) /\ Says(n, "ready", {"Error"})
         \/ Says(n, "policy", {"Error", "Warning", "ActionRequired"})
         \/ Says(n, "apply", {"Ready", "Error", "ActionRequired"})
  PROVE  Explained(n)
BY DEF Explained, Computed

-----------------------------------------------------------------------------
(* The runs of the chain, stage by stage. *)
RunState ==
  /\ TypeOK /\ ReadYourWrites /\ CacheCurrent /\ StatusShown /\ cache.gen <= cfg.gen

LEMMA EarlyExplains ==
  ASSUME RunState,
         EnsureFinalizerPresent \/ EnsurePrerequisites \/ EnsureNoActivity
           \/ DeletionBlocked
  PROVE  Explains
<1>1. CASE EnsureFinalizerPresent
  BY <1>1, Requeues DEF EnsureFinalizerPresent
<1>2. CASE EnsureNoActivity
  BY <1>2, Requeues DEF EnsureNoActivity
<1>3. CASE EnsurePrerequisites \/ DeletionBlocked
  <2>1. PICK chain \in {BeforeActivity, AfterActivity, DeletionChain} :
             StopAtMissing(chain)
    BY <1>3 DEF EnsurePrerequisites, DeletionBlocked
  <2>2. PICK k \in DOMAIN chain :
             Finish(cfg, StoppedAt(chain, k), chain[k] \notin Ignored)
    BY <2>1 DEF StopAtMissing
  <2>3. CASE chain[k] \notin Ignored
    <3>1. (chain[k] \notin Ignored) = TRUE
      BY <2>3
    <3>2. Finish(cfg, StoppedAt(chain, k), TRUE)
      BY <2>2, <3>1
    <3> QED BY <3>2, Requeues
  <2>4. CASE chain[k] \in Ignored
    <3>1. (chain[k] \notin Ignored) \in BOOLEAN
      OBVIOUS
    <3> QED BY <2>2, <2>4, <3>1, StopExplained, FinishExplains DEF RunState
  <2> QED BY <2>3, <2>4
<1> QED BY <1>1, <1>2, <1>3

LEMMA PlanExplains ==
  ASSUME RunState,
         \/ PlanInvalidRetry \/ PlanFailedBefore \/ RequireApproval \/ CreatePlan
         \/ PlanRunning \/ PlanFails
  PROVE  Explains
<1>1. CASE RequireApproval
  BY <1>1, Requeues DEF RequireApproval
<1>2. CASE CreatePlan
  BY <1>2, Requeues DEF CreatePlan
<1>3. CASE PlanRunning
  BY <1>3, Requeues DEF PlanRunning
<1>4. CASE PlanInvalidRetry \/ PlanFails
  <2> DEFINE n == SetCondition(Prepared, "plan", "Error")
  <2>1. PICK again \in BOOLEAN : Finish(cfg, n, again)
    BY <1>4 DEF PlanInvalidRetry, PlanFails
  <2>2. ~cache.deleting
    BY <1>4 DEF PlanInvalidRetry, PlanFails, ReachesPlan, Live
  <2>3. Computed(n) /\ Says(n, "plan", {"Error", "CallError"})
    BY ComputedChain, SetComputed, SetSays, TypeNames DEF RunState
  <2> HIDE DEF n
  <2> QED BY <2>1, <2>2, <2>3, StageExplained, FinishExplains DEF RunState
<1>5. CASE PlanFailedBefore
  <2>1. Finish(cfg, Prepared, FALSE) /\ ~cache.deleting /\ IsFailed(cache.conds["plan"], cache.gen)
    BY <1>5 DEF PlanFailedBefore, ReachesPlan, Live, PlanIgnored
  <2>2. Computed(Prepared) /\ Prepared.conds["plan"] = cache.conds["plan"]
    <3>1. "plan" \in ConditionTypes /\ "provider" \in ConditionTypes /\ "Ready" \in Reasons
      BY TypeNames
    <3>2. Computed(cache) /\ Computed(Prepared) /\ "plan" # "provider"
      BY ComputedChain DEF RunState
    <3>3. SetCondition(cache, "provider", "Ready").conds["plan"] = cache.conds["plan"]
      BY <3>1, <3>2, SetComputed
    <3> QED BY <3>2, <3>3 DEF Prepared
  <2>3. Says(Prepared, "plan", {"Error", "CallError"})
    BY <2>1, <2>2 DEF Says, IsFailed, Computed
  <2> QED BY <2>1, <2>2, <2>3, StageExplained, FinishExplains DEF RunState
<1> QED BY <1>1, <1>2, <1>3, <1>4, <1>5

(* A plan that is not shown: the plan condition is Ready, and ready Error. *)
LEMMA PlanSecretExplains ==
  ASSUME RunState, PlanSecretMissing
  PROVE  Explains
<1> DEFINE n == SetCondition(Planned, "ready", "Error")
<1>1. Finish(cfg, n, FALSE) /\ PlanComplete /\ ~cache.deleting
  BY DEF PlanSecretMissing, PlanComplete, ReachesPlan, Live
<1>2. /\ {"provider", "plan", "ready"} \subseteq ConditionTypes
      /\ {"Ready", "Error"} \subseteq Reasons
  BY TypeNames
<1>3. Computed(cache) /\ Computed(Prepared) /\ Computed(Planned)
  BY ComputedChain DEF RunState
<1>4. Says(Planned, "plan", {"Ready"})
  <2>1. CASE PlanSkipped(cache)
    <3>1. cache.conds["plan"].reason = "Ready" /\ cache.conds["plan"].gen = cache.gen
      BY <2>1 DEF PlanSkipped, IsComplete
    <3>2. SetCondition(cache, "provider", "Ready").conds["plan"] = cache.conds["plan"]
      BY <1>2, <1>3, SetComputed
    <3>3. Planned = Prepared /\ Prepared.conds["plan"] = cache.conds["plan"]
      BY <2>1, <3>2 DEF Planned, Prepared
    <3> QED BY <1>3, <3>1, <3>3 DEF Says, Computed
  <2>2. CASE ~PlanSkipped(cache)
    BY <1>2, <1>3, <2>2, SetSays DEF Planned
  <2> QED BY <2>1, <2>2
<1>5. Computed(n) /\ Says(n, "ready", {"Error"})
  BY <1>2, <1>3, SetComputed, SetSays
<1>6. Says(n, "plan", {"Ready"})
  <2>1. n.conds["plan"] = Planned.conds["plan"]
    BY <1>2, <1>3, SetComputed
  <2> QED BY <1>3, <1>4, <1>5, <2>1 DEF Says, Computed
<1> HIDE DEF n
<1> QED BY <1>1, <1>5, <1>6, StageExplained, FinishExplains DEF RunState

LEMMA PolicyExplains ==
  ASSUME RunState, PolicyReportMissing \/ PolicyReportMalformed \/ PolicyFailed
  PROVE  Explains
<1>1. PICK reason \in {"Warning", "Error", "ActionRequired"}, again \in BOOLEAN :
           StopAtPolicy(reason, again)
  BY DEF PolicyReportMissing, PolicyReportMalformed, PolicyFailed
<1> DEFINE n == SetCondition(Planned, "policy", reason)
<1>2. Finish(cfg, n, again) /\ ~cache.deleting
  BY <1>1 DEF StopAtPolicy, PlanPassed, PlanComplete, ReachesPlan, Live
<1>3. reason \in Reasons /\ "policy" \in ConditionTypes
  BY TypeNames
<1>4. Computed(n) /\ Says(n, "policy", {"Error", "Warning", "ActionRequired"})
  BY <1>3, ComputedChain, SetComputed, SetSays DEF RunState
<1> HIDE DEF n
<1> QED BY <1>2, <1>4, StageExplained, FinishExplains DEF RunState

LEMMA ApplyExplains ==
  ASSUME RunState,
         \/ ApplySkipped \/ WaitForApproval \/ CreateApply
         \/ ApplyRunning \/ ApplyFails \/ ApplyDone
  PROVE  Explains
<1> DEFINE R == {"Ready", "Error", "ActionRequired"}
<1>0. ~cache.deleting /\ Computed(Checked)
  BY ComputedChain DEF ApplySkipped, WaitForApproval, CreateApply, ApplyRunning, ApplyFails,
     ApplyDone, NothingToApply, ApplyJobIs, ReachesApply, PolicyPassed, PlanPassed,
     PlanComplete, ReachesPlan, Live, RunState
<1>1. CASE CreateApply
  BY <1>1, Requeues DEF CreateApply
<1>2. CASE ApplyRunning
  BY <1>2, Requeues DEF ApplyRunning
<1>3. ASSUME NEW reason \in R
      PROVE  /\ Computed(SetCondition(Checked, "apply", reason))
             /\ Says(SetCondition(Checked, "apply", reason), "apply", R)
  <2>1. reason \in Reasons /\ "apply" \in ConditionTypes
    BY TypeNames
  <2> QED BY <1>0, <2>1, SetComputed, SetSays
<1>4. CASE ApplyFails
  <2> DEFINE n == SetCondition(Checked, "apply", "Error")
  <2>1. PICK again \in BOOLEAN : Finish(cfg, n, again)
    BY <1>4 DEF ApplyFails
  <2>2. Computed(n) /\ Says(n, "apply", R)
    BY <1>3
  <2> HIDE DEF n
  <2> QED BY <1>0, <2>1, <2>2, StageExplained, FinishExplains DEF RunState
(* The ready condition and the fields set after the apply condition. *)
<1>5. ASSUME NEW reason \in R, NEW other \in Reasons, NEW n \in Object,
             n.gen = SetCondition(SetCondition(Checked, "apply", reason), "ready", other).gen,
             n.deleting = SetCondition(SetCondition(Checked, "apply", reason), "ready", other).deleting,
             n.conds = SetCondition(SetCondition(Checked, "apply", reason), "ready", other).conds
      PROVE  Computed(n) /\ Says(n, "apply", R)
  <2> DEFINE a == SetCondition(Checked, "apply", reason)
             b == SetCondition(a, "ready", other)
  <2>1. Computed(a) /\ Says(a, "apply", R)
    BY <1>3
  <2> HIDE DEF a
  <2>2. Computed(b) /\ b.conds["apply"] = a.conds["apply"]
    <3>1. "ready" \in ConditionTypes /\ "apply" \in ConditionTypes /\ "apply" # "ready"
      BY TypeNames
    <3> QED BY <2>1, <3>1, SetComputed
  <2>3. n.gen = b.gen /\ n.deleting = b.deleting /\ n.conds = b.conds
    BY <1>5 DEF a
  <2> HIDE DEF b
  <2> QED BY <2>1, <2>2, <2>3 DEF Computed, Says
<1>6. CASE WaitForApproval
  <2> DEFINE b == SetCondition(SetCondition(Checked, "apply", "ActionRequired"),
                               "ready", "InProgress")
             n == [b EXCEPT !.sync = "OutOfSync"]
  <2>1. Finish(cfg, n, FALSE)
    BY <1>6 DEF WaitForApproval
  <2>2. b \in Object /\ "ActionRequired" \in R /\ "InProgress" \in Reasons
    BY <1>3, SetComputed, TypeNames DEF Computed
  <2>3. n \in Object /\ n.gen = b.gen /\ n.deleting = b.deleting /\ n.conds = b.conds
    <3> HIDE DEF b
    <3> QED BY <2>2 DEF Object
  <2>4. Computed(n) /\ Says(n, "apply", R)
    <3> HIDE DEF n
    <3> QED BY <1>5, <2>2, <2>3
  <2> HIDE DEF n
  <2> QED BY <1>0, <2>1, <2>4, StageExplained, FinishExplains DEF RunState
(* The end of the chain: the apply condition is Ready, whatever follows.   *)
<1>7. CASE ApplySkipped \/ ApplyDone
  <2> DEFINE a == SetCondition(Checked, "apply", "Ready")
             m == Applied(Checked)
  <2>1. Computed(a) /\ Says(a, "apply", R)
    BY <1>3
  <2>2. m = [a EXCEPT !.sync = "InSync"]
    BY DEF Applied
  <2> HIDE DEF a, m
  <2>3. Computed(m) /\ Says(m, "apply", R)
    BY <2>1, <2>2 DEF Computed, Object, Says
  <2>4. ASSUME NEW other \in {"Ready", "Error"}
        PROVE  /\ Computed(SetCondition(m, "ready", other))
               /\ Says(SetCondition(m, "ready", other), "apply", R)
    <3> DEFINE b == SetCondition(m, "ready", other)
    <3>1. Computed(b) /\ b.conds["apply"] = m.conds["apply"]
      <4>1. {"ready", "apply"} \subseteq ConditionTypes /\ other \in Reasons
        BY TypeNames
      <4> QED BY <2>3, <4>1, SetComputed
    <3> HIDE DEF b
    <3>2. Computed(b) /\ Says(b, "apply", R)
      BY <2>3, <3>1 DEF Computed, Says
    <3> QED BY <3>2 DEF b
  <2>5. Computed(Completed(Checked)) /\ Says(Completed(Checked), "apply", R)
    <3> DEFINE b == SetCondition(m, "ready", "Ready")
               r == IF shown.state = "some" THEN "some" ELSE "zero"
               n == Completed(Checked)
    <3>1. Computed(b) /\ Says(b, "apply", R)
      BY <2>4
    <3>2. n = [b EXCEPT !.resources = r] /\ r \in {"zero", "some"}
      BY DEF Completed, m
    <3> HIDE DEF b, r, n
    <3>3. Computed(n) /\ Says(n, "apply", R)
      BY <3>1, <3>2 DEF Computed, Object, Says
    <3> QED BY <3>3 DEF n
  <2>6. PICK n \in {SetCondition(m, "ready", "Error"), Completed(Checked)} :
             Finish(cfg, n, FALSE) \/ Explains
    BY <1>7, Requeues DEF ApplySkipped, ApplyDone, EndOfChain, m
  <2>7. Computed(n) /\ Says(n, "apply", R)
    BY <2>4, <2>5
  <2> QED BY <1>0, <2>6, <2>7, StageExplained, FinishExplains DEF RunState
<1> QED BY <1>1, <1>2, <1>4, <1>6, <1>7

LEMMA DeletionExplains ==
  ASSUME RunState, CreateDestroy \/ DestroyRunning \/ DestroyFails \/ CleanUp
  PROVE  Explains
<1>1. CASE CreateDestroy
  BY <1>1, Requeues DEF CreateDestroy
<1>2. CASE DestroyRunning
  BY <1>2, Requeues DEF DestroyRunning
<1>3. CASE DestroyFails
  <2> DEFINE e == SetCondition(Destroying, "ready", "Error")
             n == [e EXCEPT !.sync = "DeletionFailed"]
  <2>1. Finish(cfg, n, FALSE) /\ cache.deleting
    BY <1>3 DEF DestroyFails, DestroyJobIs, ReachesDestroy
  <2>2. Computed(Destroying)
    BY ComputedChain DEF RunState, Destroying, Computed, Object
  <2>3. Computed(e)
    BY <2>2, SetComputed, TypeNames
  <2> HIDE DEF e
  <2>4. Computed(n) /\ n.sync = "DeletionFailed"
    BY <2>3 DEF Computed, Object
  <2> HIDE DEF n
  <2>5. Explained(n)
    BY <2>1, <2>4 DEF Explained, Computed
  <2> QED BY <2>1, <2>4, <2>5, FinishExplains DEF RunState
<1>4. CASE CleanUp
  <2>1. CASE cache = cfg
    <3> DEFINE stored == [cfg EXCEPT !.exists = FALSE]
               n == [Released EXCEPT !.finalizer = FALSE]
    <3>1. Finish(stored, n, cache # cfg)
      BY <1>4, <2>1 DEF CleanUp
    <3>2. ~stored.exists
      BY DEF RunState, TypeOK, Object
    <3> HIDE DEF stored, n
    <3>3. cfg' = stored
      BY <3>1, <3>2 DEF Finish, StatusPatch
    <3> QED BY <3>2, <3>3 DEF Explains
  <2>2. CASE cache # cfg
    <3>1. (cache # cfg) = TRUE
      BY <2>2
    <3>2. Finish(cfg, [Released EXCEPT !.finalizer = FALSE], TRUE)
      BY <1>4, <2>2, <3>1 DEF CleanUp
    <3> QED BY <3>2, Requeues
  <2> QED BY <2>1, <2>2
<1> QED BY <1>1, <1>2, <1>3, <1>4

-----------------------------------------------------------------------------
(* Every run shows its own writes. *)
LEMMA RunsShow ==
  ASSUME ReadYourWrites, Reconcile, ~ReconcileNotFound
  PROVE  cache' = cfg'
BY DEF Reconcile, EnsureFinalizerPresent, EnsurePrerequisites, EnsureNoActivity,
  PlanInvalidRetry, PlanFailedBefore, RequireApproval, CreatePlan, PlanRunning, PlanFails,
  PlanSecretMissing, PolicyReportMissing, PolicyReportMalformed, PolicyFailed,
  StopAtPolicy, ApplySkipped, WaitForApproval, CreateApply, ApplyRunning, ApplyFails,
  ApplyDone, EndOfChain, DeletionBlocked,
  CreateDestroy, DestroyRunning, DestroyFails, CleanUp, StopAtMissing, Finish, FinishFailed

LEMMA RunSilence ==
  ASSUME RunState, SilenceInv, Reconcile
  PROVE  SilenceInv'
<1>1. CASE ReconcileNotFound
  <2>1. cfg' = cfg /\ cache' = cache /\ ~cfg.exists
    BY <1>1 DEF ReconcileNotFound, RunState, CacheCurrent
  <2> QED BY <2>1 DEF SilenceInv, StatusShown, Awake
<1>2. CASE ~ReconcileNotFound
  <2>1. Explains
    BY <1>2, EarlyExplains, PlanExplains, PlanSecretExplains, PolicyExplains,
       ApplyExplains, DeletionExplains DEF Reconcile
  <2>2. cache' = cfg'
    BY <1>2, RunsShow DEF RunState
  <2> QED BY <2>1, <2>2 DEF Explains, SilenceInv, StatusShown, Awake
<1> QED BY <1>1, <1>2

(* Whatever the user writes, the controller is going to hear of it. *)
LEMMA UserSilence ==
  ASSUME RunState, SilenceInv, User \/ AnnotateDrift
  PROVE  SilenceInv'
<1>1. cache' = cache /\ cfg.exists /\ queued' = queued
  BY DEF User, AnnotateDrift, Edit, Approve, Retry, Delete, UserWrites
<1>2. /\ cfg \in Object /\ cache.exists
      /\ cfg.gen \in Nat /\ cfg.retry \in Nat /\ cfg.driftAt \in Nat
      /\ cache.gen \in Nat /\ cache.retry \in Nat /\ cache.driftAt \in Nat
      /\ cache.gen <= cfg.gen /\ cache.retry <= cfg.retry /\ cache.driftAt <= cfg.driftAt
  BY <1>1, ObjectTypes DEF RunState, TypeOK, CacheCurrent
<1>3. StatusShown
  BY DEF SilenceInv
<1> SUFFICES /\ cfg'.sync = cfg.sync
             /\ cfg'.apply = cfg.apply \/ cfg'.apply = "true"
             /\ ~cfg'.exists \/ Triggers(cache, cfg')
  BY <1>1, <1>3 DEF SilenceInv, StatusShown, Awake
<1>4. CASE \E auto \in AutoSettings, drift \in DriftSettings : Edit(auto, drift)
  <2>1. PICK auto \in AutoSettings, drift \in DriftSettings :
             cfg' = [cfg EXCEPT !.gen = cfg.gen + 1, !.auto = auto, !.drift = drift]
    BY <1>4 DEF Edit, UserWrites
  <2>2. cfg'.gen = cfg.gen + 1 /\ cfg'.sync = cfg.sync /\ cfg'.apply = cfg.apply
    BY <1>2, <2>1 DEF Object
  <2>3. Triggers(cache, cfg')
    <3>1. cache.gen # cfg'.gen
      BY <1>2, <2>2
    <3> QED BY <3>1 DEF Triggers
  <2> QED BY <2>2, <2>3
<1>5. CASE Approve
  <2>1. cfg' = [cfg EXCEPT !.apply = "true"] /\ cfg.apply = "false"
    BY <1>5 DEF Approve, UserWrites
  <2>2. cfg'.apply = "true" /\ cfg'.sync = cfg.sync
    BY <1>2, <2>1 DEF Object
  <2> QED BY <1>3, <2>1, <2>2 DEF StatusShown, Triggers
<1>6. CASE \E state \in {"fresh", "invalid"} : Retry(state)
  <2>1. PICK state \in {"fresh", "invalid"} :
             cfg' = [cfg EXCEPT !.retry = cfg.retry + 1, !.retryState = state]
    BY <1>6 DEF Retry, UserWrites
  <2>2. cfg'.retry = cfg.retry + 1 /\ cfg'.sync = cfg.sync /\ cfg'.apply = cfg.apply
    BY <1>2, <2>1 DEF Object
  <2>3. Triggers(cache, cfg')
    <3>1. cache.retry # cfg'.retry
      BY <1>2, <2>2
    <3> QED BY <3>1 DEF Triggers
  <2> QED BY <2>2, <2>3
<1>7. CASE AnnotateDrift
  <2>1. cfg' = [cfg EXCEPT !.driftAt = cfg.driftAt + 1]
    BY <1>7 DEF AnnotateDrift, UserWrites
  <2>2. cfg'.driftAt = cfg.driftAt + 1 /\ cfg'.sync = cfg.sync /\ cfg'.apply = cfg.apply
    BY <1>2, <2>1 DEF Object
  <2>3. Triggers(cache, cfg')
    <3>1. cache.driftAt # cfg'.driftAt
      BY <1>2, <2>2
    <3> QED BY <3>1 DEF Triggers
  <2> QED BY <2>2, <2>3
<1>8. CASE \E orphan \in Deletes : Delete(orphan)
  <2>1. PICK orphan \in Deletes : Delete(orphan)
    BY <1>8
  <2>2. CASE cfg.finalizer
    <3>1. cfg' = [cfg EXCEPT !.deleting = TRUE, !.gen = cfg.gen + 1, !.orphan = orphan]
      BY <2>1, <2>2 DEF Delete, UserWrites
    <3>2. cfg'.gen = cfg.gen + 1 /\ cfg'.sync = cfg.sync /\ cfg'.apply = cfg.apply
      BY <1>2, <3>1 DEF Object
    <3>3. Triggers(cache, cfg')
      <4>1. cache.gen # cfg'.gen
        BY <1>2, <3>2
      <4> QED BY <4>1 DEF Triggers
    <3> QED BY <3>2, <3>3
  <2>3. CASE ~cfg.finalizer
    <3>1. cfg' = [cfg EXCEPT !.exists = FALSE]
      BY <2>1, <2>3 DEF Delete, UserWrites
    <3> QED BY <1>2, <3>1 DEF Object
  <2> QED BY <2>2, <2>3
<1> QED BY <1>4, <1>5, <1>6, <1>7, <1>8 DEF User

(* The informers, the platform and the jobs. *)
LEMMA OtherSilence ==
  ASSUME RunState, SilenceInv,
         \/ SyncConfiguration \/ SyncJobs \/ SyncSecrets \/ Restart \/ Platform
         \/ UNCHANGED vars
         \/ \E i \in JobIds : JobStep(i) \/ ExpireJob(i)
  PROVE  SilenceInv'
<1>1. CASE SyncConfiguration
  BY <1>1 DEF SyncConfiguration, SilenceInv, StatusShown, Awake
<1>2. CASE Restart
  BY <1>2 DEF Restart, SilenceInv, StatusShown, Awake
<1>3. CASE \/ SyncJobs \/ SyncSecrets \/ Platform \/ UNCHANGED vars
           \/ \E i \in JobIds : JobStep(i) \/ ExpireJob(i)
  <2>1. cfg' = cfg /\ cache' = cache /\ (queued => queued')
    <3>1. CASE SyncJobs \/ SyncSecrets \/ UNCHANGED vars
      BY <3>1 DEF SyncJobs, SyncSecrets, vars
    <3>2. CASE Platform
      <4>1. PlatformWrites /\ (queued' = queued \/ \E b : queued' = (queued \/ b))
        BY <3>2, Zenon DEF Platform, LosePrerequisite, MeetPrerequisite, MatchPolicy,
                           WithdrawPolicy, CloudDrifts
      <4>2. cfg' = cfg /\ cache' = cache
        BY <4>1 DEF PlatformWrites
      <4>3. queued => queued'
        BY <4>1, Zenon
      <4> QED BY <4>2, <4>3
    <3>3. CASE \E i \in JobIds : JobStep(i) \/ ExpireJob(i)
      <4>1. JobWrites
        BY <3>3, Zenon DEF JobStep, ExpireJob, UploadPlan, UploadReport, CompletePlan,
           FailPlan, CompleteApply, FailApply, CompleteDestroy, FailDestroy, FinishTerraform
      <4> QED BY <4>1 DEF JobWrites
    <3> QED BY <1>3, <3>1, <3>2, <3>3
  <2> QED BY <2>1 DEF SilenceInv, StatusShown, Awake
<1> QED BY <1>1, <1>2, <1>3

(***************************************************************************)
(* The controller never falls silent: with nothing queued and nothing left *)
(* to deliver, the status explains the state, whichever function of the    *)
(* chain ended the last run, whatever failed and whoever wrote since.      *)
(***************************************************************************)
THEOREM NeverFallsSilent ==
  ASSUME ReadYourWrites
  PROVE  Spec => []NeverSilent
<1>1. Init => SilenceInv
  <2>1. ASSUME Init PROVE cache = cfg /\ queued
    BY <2>1 DEF Init
  <2> QED BY <2>1 DEF SilenceInv, StatusShown, Awake
<1>2. IInv /\ PlansInv /\ SilenceInv /\ [Next]_vars => SilenceInv'
  <2> SUFFICES ASSUME IInv, PlansInv, SilenceInv, [Next]_vars
               PROVE  SilenceInv'
    OBVIOUS
  <2>1. TypeOK /\ cache.gen \in 1..cfg.gen /\ cfg.gen \in Nat
    BY ObjectTypes DEF IInv, TypeInv, TypeOK, ApprovalInv, CacheLags
  <2>2. RunState
    BY <2>1 DEF RunState, PlansInv, SilenceInv
  <2>3. CASE Next
    BY <2>2, <2>3, RunSilence, UserSilence, OtherSilence DEF Next
  <2>4. CASE UNCHANGED vars
    BY <2>2, <2>4, OtherSilence
  <2> QED BY <2>3, <2>4
<1>3. SilenceInv => NeverSilent
  BY DEF SilenceInv, Awake, NeverSilent, Triggers
<1> QED BY <1>1, <1>2, <1>3, PlansInductive, PTL DEF Spec

-----------------------------------------------------------------------------
(***************************************************************************)
(* The release of the finalizer.  What is known of it without any          *)
(* hypothesis on the caches, the calls that fail or the constants: see     *)
(* ReleaseAccounted.                                                       *)
(***************************************************************************)
DeletionSeen == cache.deleting => cfg.deleting

(* What has been seen to complete has completed. *)
EndsSeen ==
  \A i \in JobIds :
    /\ i > njobs => jobs[i].phase = "none"
    /\ seen[i] = "complete" => jobs[i].phase = "complete"

(* A destroy starts in the deletion chain, which creates no apply. *)
DestroysLate ==
  \A i \in JobIds : jobs[i].stage = "destroy" => cache.deleting

(* Where no destroy was started beside an apply, none runs beside one, and *)
(* one that has completed has left nothing.                                *)
NoneBeside ==
  \A i \in JobIds : jobs[i].stage = "destroy" => ~jobs[i].beside

DestroysAlone ==
  NoneBeside =>
    \A i \in JobIds :
      jobs[i].stage = "destroy" =>
        /\ \A k \in JobIds : jobs[k].stage = "apply" => ~Running(k)
        /\ jobs[i].phase = "complete" => ~cloud.resources

(* Secrets that do not lag are shown as they are stored. *)
ShownStored == ~SecretsLag => shown = Stored

(* Then, and when every generation declares a managed resource, the count  *)
(* of resources does not mislead. *)
CountsTell == ZeroGens = {} /\ ~SecretsLag

CountsSome == cfg.resources # "zero" /\ cache.resources # "zero"

(* Until the controller sees the deletion, a plan without changes, a cloud *)
(* that matches a generation and an apply that has completed all mean that *)
(* something has been created, and that the state secret shows it.         *)
CreatedShown ==
  /\ \A i \in JobIds :
       jobs[i].stage = "apply" /\ jobs[i].phase = "complete" => tfState = "some"
  /\ planSecret.job # 0 /\ ~planSecret.changes => tfState = "some"
  /\ cloud.at # 0 => tfState = "some"
  /\ tfState = "some" => cloud.resources

ReleaseInv ==
  /\ DeletionSeen /\ EndsSeen /\ DestroysLate /\ DestroysAlone /\ ShownStored
  /\ CountsTell => CountsSome /\ (~cache.deleting => CreatedShown)

-----------------------------------------------------------------------------
(***************************************************************************)
(* What a run does to the count in the status.                             *)
(***************************************************************************)
CountTo(r) ==
  \/ r \in {cache.resources, cfg.resources}
  \/ r = "some"
  \/ shown.state # "some" /\ (ApplySkipped \/ ApplyDone)

RunShape == CountTo(cfg'.resources)

Uncounted(o) == o \in Object /\ o.resources = cache.resources

LEMMA FinishShape ==
  ASSUME NEW stored \in Object, NEW n \in Object, NEW again \in BOOLEAN,
         stored.resources = cfg.resources, CountTo(n.resources),
         Finish(stored, n, again) \/ FinishFailed(stored, n)
  PROVE  RunShape
<1> DEFINE o == StatusPatch(stored, n)
<1>1. o.resources \in {stored.resources, n.resources}
  BY DEF StatusPatch, Object
<1>2. cfg' = o \/ cfg' = stored
  BY DEF Finish, FinishFailed
<1> HIDE DEF o
<1>3. cfg'.resources \in {cfg.resources, n.resources}
  BY <1>1, <1>2
<1>4. CountTo(cfg.resources)
  BY DEF CountTo
<1> QED BY <1>3, <1>4 DEF RunShape

LEMMA PatchShape ==
  ASSUME TypeOK, NEW n, Uncounted(n), NEW again \in BOOLEAN,
         Finish(cfg, n, again) \/ FinishFailed(cfg, n)
  PROVE  RunShape
<1>1. cfg \in Object /\ n \in Object /\ CountTo(n.resources)
  BY DEF TypeOK, Uncounted, CountTo
<1> QED BY <1>1, FinishShape

LEMMA SetUncounted ==
  ASSUME NEW o, Uncounted(o), NEW type \in ConditionTypes, NEW reason \in Reasons
  PROVE  Uncounted(SetCondition(o, type, reason))
<1>1. SetCondition(o, type, reason) \in Object
  BY SetConditionFacts DEF Uncounted
<1>2. SetCondition(o, type, reason).resources = o.resources
  BY DEF SetCondition, Object, Uncounted
<1> QED BY <1>1, <1>2 DEF Uncounted

LEMMA SyncUncounted ==
  ASSUME NEW o, Uncounted(o),
         NEW v \in {"OutOfSync", "InSync", "Deleting", "DeletionFailed"}
  PROVE  Uncounted([o EXCEPT !.sync = v])
BY DEF Uncounted, Object

LEMMA ChainUncounted ==
  ASSUME TypeOK
  PROVE  /\ Uncounted(cache) /\ Uncounted(Prepared) /\ Uncounted(Planned)
         /\ Uncounted(Checked) /\ Uncounted(Destroying)
<1>1. Uncounted(cache)
  BY DEF Uncounted, TypeOK
<1>2. Uncounted(Prepared)
  BY <1>1, SetUncounted, TypeNames DEF Prepared
<1>3. Uncounted(Planned)
  BY <1>2, SetUncounted, TypeNames DEF Planned
<1>4. Uncounted(Checked)
  <2> DEFINE o == SetCondition(Planned, "policy", "Ready")
             d == IF cache.drift THEN cache.driftAt ELSE o.driftSeen
  <2>1. Uncounted(o)
    BY <1>3, SetUncounted, TypeNames
  <2>2. Checked = [o EXCEPT !.driftSeen = d]
    BY DEF Checked
  <2> HIDE DEF o
  <2>3. d \in 0..MaxDrift
    BY <1>1, <2>1 DEF Uncounted, Object
  <2> HIDE DEF d
  <2> QED BY <2>1, <2>2, <2>3 DEF Uncounted, Object
<1>5. Uncounted(Destroying)
  BY <1>2, SyncUncounted DEF Destroying
<1> QED BY <1>1, <1>2, <1>3, <1>4, <1>5

LEMMA StopUncounted ==
  ASSUME TypeOK, NEW chain, NEW k
  PROVE  Uncounted(StoppedAt(chain, k))
<1> DEFINE passed == \E m \in 1..(k - 1) : chain[m] = "providerReady"
           o == IF passed THEN Prepared ELSE cache
<1>1. Uncounted(o)
  BY ChainUncounted
<1>2. \/ StoppedAt(chain, k) = SetCondition(o, "ready", "Warning")
      \/ StoppedAt(chain, k) = SetCondition(o, "provider", "Warning")
      \/ StoppedAt(chain, k) = SetCondition(o, "provider", "ActionRequired")
      \/ StoppedAt(chain, k) = SetCondition(o, "policy", "Error")
      \/ StoppedAt(chain, k) = SetCondition(o, "ready", "ActionRequired")
  BY DEF StoppedAt
<1> HIDE DEF o
<1> QED BY <1>1, <1>2, SetUncounted, TypeNames

LEMMA EarlyShape ==
  ASSUME TypeOK,
         EnsureFinalizerPresent \/ EnsurePrerequisites \/ EnsureNoActivity
           \/ DeletionBlocked
  PROVE  RunShape
<1>1. CASE EnsureFinalizerPresent
  <2> DEFINE stored == IF cache = cfg THEN [cfg EXCEPT !.finalizer = TRUE] ELSE cfg
             n == [cache EXCEPT !.finalizer = TRUE]
  <2>1. stored \in Object /\ stored.resources = cfg.resources
    <3> DEFINE o == [cfg EXCEPT !.finalizer = TRUE]
    <3>1. o \in Object /\ o.resources = cfg.resources
      BY DEF TypeOK, Object
    <3>2. cfg \in Object /\ (stored = o \/ stored = cfg)
      BY DEF TypeOK
    <3> HIDE DEF o, stored
    <3> QED BY <3>1, <3>2
  <2>2. n \in Object /\ n.resources = cache.resources
    BY DEF TypeOK, Object
  <2>3. Finish(stored, n, TRUE)
    BY <1>1 DEF EnsureFinalizerPresent
  <2> HIDE DEF stored, n
  <2>4. CountTo(n.resources)
    BY <2>2 DEF CountTo
  <2> QED BY <2>1, <2>2, <2>3, <2>4, FinishShape
<1>2. CASE EnsureNoActivity
  BY <1>2, ChainUncounted, PatchShape DEF EnsureNoActivity
<1>3. CASE EnsurePrerequisites \/ DeletionBlocked
  <2>1. PICK chain \in {BeforeActivity, AfterActivity, DeletionChain} :
             StopAtMissing(chain)
    BY <1>3 DEF EnsurePrerequisites, DeletionBlocked
  <2>2. PICK k \in DOMAIN chain :
             Finish(cfg, StoppedAt(chain, k), chain[k] \notin Ignored)
    BY <2>1 DEF StopAtMissing
  <2>3. (chain[k] \notin Ignored) \in BOOLEAN
    OBVIOUS
  <2> QED BY <2>2, <2>3, StopUncounted, PatchShape
<1> QED BY <1>1, <1>2, <1>3

LEMMA PlanShape ==
  ASSUME TypeOK,
         \/ PlanInvalidRetry \/ PlanFailedBefore \/ RequireApproval \/ CreatePlan
         \/ PlanRunning \/ PlanFails \/ PlanSecretMissing
  PROVE  RunShape
<1>0. {"InProgress", "Error", "CallError"} \subseteq Reasons /\ "plan" \in ConditionTypes
  BY TypeNames
<1>1. ASSUME NEW r \in {"InProgress", "Error", "CallError"}
      PROVE  Uncounted(SetCondition(Prepared, "plan", r))
  BY <1>0, ChainUncounted, SetUncounted
<1>2. CASE PlanFailedBefore
  BY <1>2, ChainUncounted, PatchShape DEF PlanFailedBefore
<1>3. CASE PlanInvalidRetry \/ CreatePlan \/ PlanRunning \/ PlanFails
  <2>1. PICK r \in {"InProgress", "Error", "CallError"}, again \in BOOLEAN :
          LET n == SetCondition(Prepared, "plan", r)
          IN  Finish(cfg, n, again) \/ FinishFailed(cfg, n)
    BY <1>3 DEF PlanInvalidRetry, CreatePlan, PlanRunning, PlanFails
  <2> QED BY <1>1, <2>1, PatchShape
<1>4. CASE RequireApproval
  <2> DEFINE held == [cfg EXCEPT !.apply = "false"]
             f == SetCondition(held, "plan", "CallError")
  <2>1. \/ Finish(held, held, TRUE)
        \/ FinishFailed(cfg, SetCondition(Prepared, "plan", "CallError"))
        \/ FinishFailed(held, f)
    BY <1>4 DEF RequireApproval
  <2>2. held \in Object /\ held.resources = cfg.resources
    BY DEF TypeOK, Object, Annotation
  <2> HIDE DEF held
  <2>3. f \in Object /\ f.resources = held.resources
    <3>1. f \in Object
      BY <1>0, <2>2, SetFacts
    <3>2. f.resources = held.resources
      BY <2>2 DEF SetCondition, Object
    <3> QED BY <3>1, <3>2
  <2> HIDE DEF f
  <2>4. CountTo(held.resources) /\ CountTo(f.resources)
    BY <2>2, <2>3 DEF CountTo
  <2>5. CASE FinishFailed(cfg, SetCondition(Prepared, "plan", "CallError"))
    BY <1>1, <2>5, PatchShape
  <2>6. CASE Finish(held, held, TRUE)
    BY <2>2, <2>4, <2>6, FinishShape
  <2>7. CASE FinishFailed(held, f)
    BY <2>2, <2>3, <2>4, <2>7, FinishShape
  <2> QED BY <2>1, <2>5, <2>6, <2>7
<1>5. CASE PlanSecretMissing
  <2>1. Uncounted(SetCondition(Planned, "ready", "Error"))
    BY <1>0, ChainUncounted, SetUncounted, TypeNames
  <2> QED BY <1>5, <2>1, PatchShape DEF PlanSecretMissing
<1> QED BY <1>2, <1>3, <1>4, <1>5

LEMMA PolicyShape ==
  ASSUME TypeOK, PolicyReportMissing \/ PolicyReportMalformed \/ PolicyFailed
  PROVE  RunShape
<1>1. PICK reason \in {"Warning", "Error", "ActionRequired"}, again \in BOOLEAN :
           Finish(cfg, SetCondition(Planned, "policy", reason), again)
  BY DEF PolicyReportMissing, PolicyReportMalformed, PolicyFailed, StopAtPolicy
<1>2. reason \in Reasons /\ "policy" \in ConditionTypes
  BY TypeNames
<1>3. Uncounted(SetCondition(Planned, "policy", reason))
  BY <1>2, ChainUncounted, SetUncounted
<1> QED BY <1>1, <1>3, PatchShape

LEMMA ApplyShape ==
  ASSUME TypeInv, ApprovalInv,
         \/ ApplySkipped \/ WaitForApproval \/ CreateApply
         \/ ApplyRunning \/ ApplyFails \/ ApplyDone
  PROVE  RunShape
<1>0. /\ {"InProgress", "Error", "CallError", "ActionRequired", "Ready"} \subseteq Reasons
      /\ {"apply", "ready"} \subseteq ConditionTypes
  BY TypeNames
<1>1. TypeOK /\ cfg \in Object /\ Uncounted(Checked)
  BY ChainUncounted DEF TypeInv, TypeOK
<1>2. CASE WaitForApproval
  <2> DEFINE a == SetCondition(Checked, "apply", "ActionRequired")
             b == SetCondition(a, "ready", "InProgress")
             n == [b EXCEPT !.sync = "OutOfSync"]
  <2>1. Finish(cfg, n, FALSE)
    BY <1>2 DEF WaitForApproval
  <2>2. Uncounted(a)
    BY <1>0, <1>1, SetUncounted
  <2> HIDE DEF a
  <2>3. Uncounted(b)
    BY <1>0, <2>2, SetUncounted
  <2> HIDE DEF b
  <2>4. Uncounted(n)
    BY <2>3, SyncUncounted
  <2> HIDE DEF n
  <2> QED BY <1>1, <2>1, <2>4, PatchShape
<1>3. CASE CreateApply
  <2> DEFINE o == [Checked EXCEPT !.sync = "OutOfSync"]
  <2>1. Uncounted(o)
    BY <1>1, SyncUncounted
  <2>2. PICK r \in {"InProgress", "CallError"} :
             \/ Finish(cfg, SetCondition(o, "apply", r), TRUE)
             \/ FinishFailed(cfg, SetCondition(o, "apply", r))
    BY <1>3 DEF CreateApply
  <2> HIDE DEF o
  <2>3. Uncounted(SetCondition(o, "apply", r))
    BY <1>0, <2>1, SetUncounted
  <2> QED BY <1>1, <2>2, <2>3, PatchShape
<1>4. CASE ApplyRunning \/ ApplyFails
  <2>1. PICK r \in {"InProgress", "Error"}, again \in BOOLEAN :
             Finish(cfg, SetCondition(Checked, "apply", r), again)
    BY <1>4 DEF ApplyRunning, ApplyFails
  <2>2. Uncounted(SetCondition(Checked, "apply", r))
    BY <1>0, <1>1, SetUncounted
  <2> QED BY <1>1, <2>1, <2>2, PatchShape
<1>5. CASE ApplySkipped \/ ApplyDone
  <2> DEFINE a == SetCondition(Checked, "apply", "Ready")
             m == Applied(Checked)
  <2>1. Uncounted(m)
    <3>1. Uncounted(a)
      BY <1>0, <1>1, SetUncounted
    <3> HIDE DEF a
    <3>2. Uncounted([a EXCEPT !.sync = "InSync"])
      BY <3>1, SyncUncounted
    <3> QED BY <3>2 DEF Applied, a
  <2> HIDE DEF m
  <2>2. ASSUME NEW other \in {"Ready", "Error", "CallError"}
        PROVE  Uncounted(SetCondition(m, "ready", other))
    BY <1>0, <2>1, SetUncounted
  <2> DEFINE b == SetCondition(m, "ready", "Ready")
             c == IF shown.state = "some" THEN "some" ELSE "zero"
             n == Completed(Checked)
  <2>3. n \in Object /\ CountTo(n.resources)
    <3>1. n = [b EXCEPT !.resources = c] /\ c \in {"zero", "some"}
      BY DEF Completed, m
    <3>2. b \in Object
      BY <2>2 DEF Uncounted
    <3>3. shown.state = "some" => c = "some"
      OBVIOUS
    <3> HIDE DEF b, c, n
    <3>4. n \in Object /\ n.resources = c
      BY <3>1, <3>2 DEF Object
    <3> QED BY <1>5, <3>3, <3>4 DEF CountTo
  <2> HIDE DEF b, c, n
  <2>4. \/ Finish(cfg, SetCondition(m, "ready", "Error"), FALSE)
        \/ Finish(cfg, n, FALSE)
        \/ FinishFailed(cfg, SetCondition(m, "ready", "CallError"))
    BY <1>5 DEF ApplySkipped, ApplyDone, EndOfChain, m, n
  <2>5. CASE Finish(cfg, n, FALSE)
    BY <1>1, <2>3, <2>5, FinishShape
  <2>6. CASE Finish(cfg, SetCondition(m, "ready", "Error"), FALSE)
    BY <1>1, <2>2, <2>6, PatchShape
  <2>7. CASE FinishFailed(cfg, SetCondition(m, "ready", "CallError"))
    BY <1>1, <2>2, <2>7, PatchShape
  <2> QED BY <2>4, <2>5, <2>6, <2>7
<1> QED BY <1>2, <1>3, <1>4, <1>5

LEMMA DestroyShape ==
  ASSUME TypeOK, CreateDestroy \/ DestroyRunning \/ DestroyFails \/ CleanUp
  PROVE  RunShape
<1>0. /\ {"InProgress", "Error", "CallError", "Ready"} \subseteq Reasons
      /\ "ready" \in ConditionTypes
  BY TypeNames
<1>1. ASSUME NEW r \in {"InProgress", "Error", "CallError", "Ready"}
      PROVE  Uncounted(SetCondition(Destroying, "ready", r))
  BY <1>0, ChainUncounted, SetUncounted
<1>2. CASE CreateDestroy \/ DestroyRunning
  <2>1. PICK r \in {"InProgress", "CallError"}, again \in BOOLEAN :
          LET n == SetCondition(Destroying, "ready", r)
          IN  Finish(cfg, n, again) \/ FinishFailed(cfg, n)
    BY <1>2 DEF CreateDestroy, DestroyRunning
  <2> QED BY <1>1, <2>1, PatchShape
<1>3. CASE DestroyFails
  <2> DEFINE e == SetCondition(Destroying, "ready", "Error")
             n == [e EXCEPT !.sync = "DeletionFailed"]
  <2>1. Finish(cfg, n, FALSE)
    BY <1>3 DEF DestroyFails
  <2>2. Uncounted(e)
    BY <1>1
  <2> HIDE DEF e
  <2>3. Uncounted(n)
    BY <2>2, SyncUncounted
  <2> HIDE DEF n
  <2> QED BY <2>1, <2>3, PatchShape
<1>4. CASE CleanUp
  <2> DEFINE stored == IF cache = cfg THEN [cfg EXCEPT !.exists = FALSE] ELSE cfg
             n == [Released EXCEPT !.finalizer = FALSE]
             again == cache # cfg
  <2>1. stored \in Object /\ stored.resources = cfg.resources
    <3> DEFINE o == [cfg EXCEPT !.exists = FALSE]
    <3>1. o \in Object /\ o.resources = cfg.resources
      BY DEF TypeOK, Object
    <3>2. cfg \in Object /\ (stored = o \/ stored = cfg)
      BY DEF TypeOK
    <3> HIDE DEF o, stored
    <3> QED BY <3>1, <3>2
  <2>2. Uncounted(Released)
    BY <1>1, ChainUncounted DEF Released
  <2>3. n \in Object /\ n.resources = cache.resources
    BY <2>2 DEF Uncounted, Object
  <2>4. Finish(stored, n, again) /\ again \in BOOLEAN
    BY <1>4 DEF CleanUp
  <2> HIDE DEF stored, n, again
  <2>5. CountTo(n.resources)
    BY <2>3 DEF CountTo
  <2> QED BY <2>1, <2>3, <2>4, <2>5, FinishShape
<1> QED BY <1>2, <1>3, <1>4

LEMMA RunsShape ==
  ASSUME TypeInv, ApprovalInv, Reconcile
  PROVE  RunShape
<1>1. TypeOK
  BY DEF TypeInv
<1>2. CASE ReconcileNotFound
  BY <1>2 DEF ReconcileNotFound, RunShape, CountTo
<1> QED BY <1>1, <1>2, EarlyShape, PlanShape, PolicyShape, ApplyShape, DestroyShape
        DEF Reconcile

-----------------------------------------------------------------------------
(***************************************************************************)
(* The steps, as far as the release depends on them.                       *)
(***************************************************************************)
(* The informers, the platform, and what changes nothing that matters. *)
Idles ==
  /\ UNCHANGED <<cfg, jobs, njobs, storedSecrets>>
  /\ cache' \in {cache, cfg}
  /\ seen' = seen \/ seen' = [i \in JobIds |-> Shown(jobs'[i])]
  /\ cloud'.resources = cloud.resources /\ cloud'.at \in {cloud.at, 0}

UserShape ==
  cfg'.resources = cfg.resources /\ (cfg.deleting => cfg'.deleting)

(* The state secret follows the cloud, and a destroy only takes away. *)
TerraformShows(i) ==
  /\ CloudChanged(i) /\ tfState' = Recorded(cloud'.resources)
  /\ jobs[i].stage = "destroy" =>
       /\ cloud'.resources => cloud.resources
       /\ jobs'[i].phase = "complete" => ~cloud'.resources

RunCreates ==
  RunShape /\ (Quiet \/ PlanCreated \/ ApplyCreated \/ DestroyCreated)

Releases == CleanUp /\ Cleaned /\ RunShape

JobMoves(i) ==
  Uploads(i) \/ Reported(i) \/ PlanEnded(i) \/ TerraformShows(i) \/ Expired(i)

LEMMA UsersShape ==
  ASSUME TypeOK, User \/ AnnotateDrift
  PROVE  UserShape
<1>1. cfg \in Object
  BY DEF TypeOK
<1>2. CASE \E auto \in AutoSettings, drift \in DriftSettings : Edit(auto, drift)
  <2>1. PICK auto \in AutoSettings, drift \in DriftSettings :
             cfg' = [cfg EXCEPT !.gen = cfg.gen + 1, !.auto = auto, !.drift = drift]
    BY <1>2 DEF Edit, UserWrites
  <2> QED BY <1>1, <2>1 DEF Object, UserShape
<1>3. CASE Approve
  BY <1>1, <1>3 DEF Approve, UserWrites, Object, UserShape
<1>4. CASE \E state \in {"fresh", "invalid"} : Retry(state)
  <2>1. PICK state \in {"fresh", "invalid"} :
             cfg' = [cfg EXCEPT !.retry = cfg.retry + 1, !.retryState = state]
    BY <1>4 DEF Retry, UserWrites
  <2> QED BY <1>1, <2>1 DEF Object, UserShape
<1>5. CASE AnnotateDrift
  BY <1>1, <1>5 DEF AnnotateDrift, UserWrites, Object, UserShape
<1>6. CASE \E orphan \in Deletes : Delete(orphan)
  <2>1. PICK orphan \in Deletes : Delete(orphan)
    BY <1>6
  <2>2. CASE cfg.finalizer
    <3>1. /\ cfg' = [cfg EXCEPT !.deleting = TRUE, !.gen = cfg.gen + 1, !.orphan = orphan]
          /\ ~cfg.deleting
      BY <2>1, <2>2 DEF Delete, UserWrites
    <3> QED BY <1>1, <3>1 DEF Object, UserShape
  <2>3. CASE ~cfg.finalizer
    <3>1. cfg' = [cfg EXCEPT !.exists = FALSE]
      BY <2>1, <2>3 DEF Delete, UserWrites
    <3> QED BY <1>1, <2>3, <3>1 DEF Object, UserShape
  <2> QED BY <2>2, <2>3
<1> QED BY <1>2, <1>3, <1>4, <1>5, <1>6 DEF User

LEMMA JobShape ==
  ASSUME TypeInv, NEW i \in JobIds, JobStep(i) \/ ExpireJob(i)
  PROVE  JobMoves(i)
<1>1. Uploads(i) \/ Reported(i) \/ PlanEnded(i) \/ CloudChanged(i) \/ Expired(i)
  BY JobKinds
<1>2. ASSUME CloudChanged(i)
      PROVE  TerraformShows(i)
  <2>1. Running(i) /\ jobs[i].stage \in {"apply", "destroy"} /\ tfState' # "absent"
    BY <1>2 DEF CloudChanged
  <2>2. ASSUME NEW phase \in {"complete", "failed"}, NEW at, NEW some \in BOOLEAN,
               FinishTerraform(i, phase, at, some),
               jobs[i].stage = "destroy" =>
                 (some => cloud.resources) /\ (phase = "complete" => ~some)
        PROVE  TerraformShows(i)
    <3>1. /\ cloud' = [at |-> at, resources |-> some] /\ tfState' = Recorded(some)
          /\ jobs' = [jobs EXCEPT ![i].phase = phase]
      BY <2>2 DEF FinishTerraform
    <3>2. cloud'.resources = some
      BY <3>1
    <3>3. jobs'[i].phase = phase
      BY <3>1 DEF TypeInv, TypeOK, Job
    <3> QED BY <1>2, <2>2, <3>1, <3>2, <3>3 DEF TerraformShows
  <2>3. cloud.resources \in BOOLEAN /\ (jobs[i].gen \notin ZeroGens) \in BOOLEAN
    BY DEF TypeInv, TypeOK
  <2>4. CASE CompleteApply(i)
    BY <2>2, <2>3, <2>4 DEF CompleteApply
  <2>5. CASE FailApply(i)
    <3>1. PICK some \in {cloud.resources, jobs[i].gen \notin ZeroGens} :
               FinishTerraform(i, "failed", 0, some)
      BY <2>5 DEF FailApply
    <3>2. jobs[i].stage = "apply"
      BY <2>5 DEF FailApply
    <3> QED BY <2>2, <2>3, <3>1, <3>2
  <2>6. CASE CompleteDestroy(i)
    BY <2>2, <2>6 DEF CompleteDestroy
  <2>7. CASE FailDestroy(i)
    BY <2>2, <2>3, <2>7 DEF FailDestroy
  <2>8. CASE ExpireJob(i)
    BY <2>1, <2>8 DEF ExpireJob, Running
  <2>9. jobs[i].stage # "plan"
    BY <2>1
  <2> QED BY <2>4, <2>5, <2>6, <2>7, <2>8, <2>9
          DEF JobStep, UploadPlan, UploadReport, CompletePlan, FailPlan
<1> QED BY <1>1, <1>2 DEF JobMoves

LEMMA IdlesShape ==
  ASSUME TypeOK,
         UNCHANGED vars \/ SyncConfiguration \/ SyncJobs \/ SyncSecrets \/ Restart
           \/ Platform \/ ReconcileNotFound
  PROVE  Idles
<1>0. cloud \in [at : Generations, resources : BOOLEAN]
  BY DEF TypeOK
<1>1. CASE UNCHANGED vars
  BY <1>1 DEF vars, Idles, environment, secrets
<1>2. CASE ReconcileNotFound
  BY <1>2 DEF ReconcileNotFound, Idles, environment, secrets
<1>3. CASE SyncConfiguration \/ SyncJobs \/ SyncSecrets \/ Restart
  BY <1>3, SyncKind DEF Synced, Idles, environment
<1>4. CASE Platform
  <2>1. PlatformMoves
    BY <1>4, PlatformKind
  <2>2. cloud'.resources = cloud.resources /\ cloud'.at \in {cloud.at, 0}
    BY <1>0, <2>1 DEF PlatformMoves
  <2> QED BY <2>1, <2>2 DEF PlatformMoves, Idles
<1> QED BY <1>1, <1>2, <1>3, <1>4

LEMMA ReleaseKinds ==
  ASSUME IInv, [Next]_vars
  PROVE  \/ Idles \/ RunCreates \/ Releases
         \/ Written /\ UserShape
         \/ \E i \in JobIds : JobMoves(i)
<1>1. TypeInv /\ ApprovalInv /\ TypeOK
  BY DEF IInv, TypeInv
<1>2. CASE UNCHANGED vars \/ SyncConfiguration \/ SyncJobs \/ SyncSecrets \/ Restart
             \/ Platform
  BY <1>1, <1>2, IdlesShape
<1>3. CASE Reconcile
  <2>1. RunShape
    BY <1>1, <1>3, RunsShape
  <2>2. CASE CleanUp
    BY <1>1, <2>1, <2>2, CleanUpEnds DEF Releases
  <2>3. CASE ReconcileNotFound
    BY <1>1, <2>3, IdlesShape
  <2>4. CASE ~CleanUp /\ ~ReconcileNotFound
    BY <1>1, <1>3, <2>1, <2>4, EarlyEnds, RequireApprovalEnds, PlanEnds,
       PlanSecretEnds, PolicyEnds,
       ApplyEnds, DestroyEnds, CreatePlanEnds, CreateApplyEnds, CreateDestroyEnds
       DEF Reconcile, RunCreates
  <2> QED BY <2>2, <2>3, <2>4
<1>4. CASE User \/ AnnotateDrift
  BY <1>1, <1>4, UserKind, UsersShape
<1>5. CASE \E i \in JobIds : JobStep(i) \/ ExpireJob(i)
  BY <1>1, <1>5, JobShape
<1> QED BY <1>2, <1>3, <1>4, <1>5 DEF Next

(* A step creates a job or keeps the jobs, and the controller sees them as *)
(* they are or as it saw them.                                             *)
LEMMA JobsShape ==
  ASSUME IInv, [Next]_vars
  PROVE  /\ \/ JobsKeep
            \/ Created("plan", 0) /\ ~cache.deleting
            \/ Created("apply", shown.plan.job) /\ ~cache.deleting
            \/ Created("destroy", 0) /\ cache.deleting
         /\ seen' = seen \/ seen' = [i \in JobIds |-> Shown(jobs'[i])]
<1>1. CASE Idles
  BY <1>1, SameKeeps DEF Idles
<1>2. CASE RunCreates
  <2>1. Ends
    BY <1>2 DEF RunCreates, Quiet, PlanCreated, ApplyCreated, DestroyCreated
  <2>2. seen' = seen \/ seen' = [i \in JobIds |-> Shown(jobs'[i])]
    BY <2>1 DEF Ends
  <2>3. CASE Quiet
    BY <2>2, <2>3, SameKeeps DEF Quiet
  <2>4. CASE PlanCreated
    BY <2>2, <2>4, CreatedFacts DEF PlanCreated, ReachesPlan, Live
  <2>5. CASE ApplyCreated
    BY <2>2, <2>5, CreatedFacts
       DEF ApplyCreated, ReachesApply, PolicyPassed, PlanPassed, PlanComplete, ReachesPlan,
           Live
  <2>6. CASE DestroyCreated
    BY <2>2, <2>6, CreatedFacts DEF DestroyCreated
  <2> QED BY <1>2, <2>3, <2>4, <2>5, <2>6 DEF RunCreates
<1>3. CASE Releases
  BY <1>3, CleanedKeeps DEF Releases, Cleaned, Ends, IInv
<1>4. CASE Written
  BY <1>4, SameKeeps DEF Written
<1>5. CASE \E i \in JobIds : JobMoves(i)
  BY <1>5, MovesKeep DEF JobMoves, TerraformShows
<1> QED BY <1>1, <1>2, <1>3, <1>4, <1>5, ReleaseKinds

-----------------------------------------------------------------------------
(***************************************************************************)
(* The steps preserve each part of ReleaseInv.                             *)
(***************************************************************************)
LEMMA DeletionStep ==
  ASSUME IInv, DeletionSeen, [Next]_vars
  PROVE  DeletionSeen' /\ (cache.deleting => cache'.deleting)
<1>1. CASE Idles
  BY <1>1 DEF Idles, DeletionSeen
<1>2. CASE Written /\ UserShape
  BY <1>2 DEF Written, UserShape, DeletionSeen
<1>3. CASE RunCreates \/ Releases
  <2>1. Ends
    BY <1>3 DEF RunCreates, Releases, Quiet, PlanCreated, ApplyCreated, DestroyCreated,
                Cleaned
  <2>2. cfg'.deleting = cfg.deleting /\ cache' \in {cache, cfg'}
    BY <2>1 DEF Ends
  <2> QED BY <2>2 DEF DeletionSeen
<1>4. CASE \E i \in JobIds : JobMoves(i)
  <2>1. cfg' = cfg /\ cache' = cache
    BY <1>4, MovesKeep DEF JobMoves, TerraformShows
  <2> QED BY <2>1 DEF DeletionSeen
<1> QED BY <1>1, <1>2, <1>3, <1>4, ReleaseKinds

(* Every write of a secret is followed by the informer at once, or it lags. *)
LEMMA ShownStep ==
  ASSUME ShownStored, [Next]_vars
  PROVE  ShownStored'
<1> SUFFICES ASSUME ~SecretsLag, shown = Stored
             PROVE  shown' = Stored'
  BY DEF ShownStored
<1>1. ASSUME UNCHANGED <<storedSecrets, shown>>
      PROVE  shown' = Stored'
  BY <1>1 DEF storedSecrets, Stored
<1>2. CASE UNCHANGED vars
  BY <1>1, <1>2 DEF vars, secrets
<1>3. CASE Reconcile
  <2>1. CASE CleanUp
    BY <2>1 DEF CleanUp, SecretsWritten
  <2>2. CASE ApplySkipped \/ ApplyDone
    BY <1>1, <2>2 DEF ApplySkipped, ApplyDone, EndOfChain
  <2>3. CASE ~CleanUp /\ ~ApplySkipped /\ ~ApplyDone
    <3>1. UNCHANGED secrets
      BY <1>3, <2>3, Zenon DEF Reconcile, ReconcileNotFound, EnsureFinalizerPresent,
         EnsureNoActivity, EnsurePrerequisites, DeletionBlocked, StopAtMissing,
         PlanInvalidRetry, PlanFailedBefore, RequireApproval, CreatePlan, PlanRunning,
         PlanFails, PlanSecretMissing, PolicyReportMissing, PolicyReportMalformed,
         PolicyFailed, StopAtPolicy, WaitForApproval, CreateApply, ApplyRunning,
         ApplyFails, CreateDestroy, DestroyRunning, DestroyFails
    <3> QED BY <1>1, <3>1 DEF secrets
  <2> QED BY <2>1, <2>2, <2>3
<1>4. CASE SyncSecrets \/ Restart
  BY <1>4 DEF SyncSecrets, Restart, Stored, storedSecrets
<1>5. CASE SyncConfiguration \/ SyncJobs \/ User \/ AnnotateDrift \/ Platform
  <2>1. UNCHANGED secrets
    BY <1>5, Zenon DEF SyncConfiguration, SyncJobs, User, AnnotateDrift, Edit, Approve,
       Retry, Delete, UserWrites, Platform, LosePrerequisite, MeetPrerequisite,
       MatchPolicy, WithdrawPolicy, CloudDrifts, PlatformWrites
  <2> QED BY <1>1, <2>1 DEF secrets
<1>6. CASE \E i \in JobIds : JobStep(i) \/ ExpireJob(i)
  <2>1. SecretsWritten(FALSE) \/ UNCHANGED secrets
    BY <1>6, Zenon DEF JobStep, ExpireJob, UploadPlan, UploadReport, CompletePlan, FailPlan,
       CompleteApply, FailApply, CompleteDestroy, FailDestroy, FinishTerraform
  <2> QED BY <1>1, <2>1 DEF SecretsWritten, secrets
<1> QED BY <1>2, <1>3, <1>4, <1>5, <1>6 DEF Next

(* A run that completes the apply stage finds something in the state. *)
LEMMA AppliedShown ==
  ASSUME EndsSeen, CreatedShown, shown = Stored, ApplySkipped \/ ApplyDone
  PROVE  shown.state = "some"
<1>0. shown.plan = planSecret /\ shown.state = tfState
  BY DEF Stored
<1>1. CASE ApplySkipped
  BY <1>0, <1>1 DEF ApplySkipped, NothingToApply, PolicyPassed, PlanPassed, CreatedShown
<1>2. CASE ApplyDone
  <2> DEFINE m == Latest(ApplyJobs(cache))
  <2>1. ApplyJobs(cache) \in SUBSET JobIds /\ ApplyJobs(cache) # {}
    BY <1>2 DEF ApplyJobs, Listed, ApplyJobIs, ApplyDone
  <2>2. m \in ApplyJobs(cache)
    BY <2>1, LatestFacts
  <2>3. seen[m] = "complete"
    BY <1>2 DEF ApplyJobIs, ApplyDone
  <2> HIDE DEF m
  <2>4. m \in JobIds /\ jobs[m].stage = "apply"
    BY <2>2 DEF ApplyJobs, Listed
  <2> QED BY <1>0, <2>3, <2>4 DEF EndsSeen, CreatedShown
<1> QED BY <1>1, <1>2

LEMMA CountStep ==
  ASSUME IInv, ReleaseInv, CountsTell, [Next]_vars
  PROVE  CountsSome'
<1>0. CountsSome
  BY DEF ReleaseInv
<1>1. CASE Idles
  BY <1>0, <1>1 DEF Idles, CountsSome
<1>2. CASE Written /\ UserShape
  BY <1>0, <1>2 DEF Written, UserShape, CountsSome
<1>3. CASE RunCreates \/ Releases
  <2>1. Ends /\ CountTo(cfg'.resources)
    BY <1>3 DEF RunCreates, Releases, RunShape, Quiet, PlanCreated, ApplyCreated,
       DestroyCreated, Cleaned
  <2>2. cache' \in {cache, cfg'}
    BY <2>1 DEF Ends
  <2>3. ApplySkipped \/ ApplyDone => shown.state = "some"
    <3>1. ApplySkipped \/ ApplyDone => ~cache.deleting
      BY DEF ApplySkipped, ApplyDone, NothingToApply, ApplyJobIs, ReachesApply,
         PolicyPassed, PlanPassed, PlanComplete, ReachesPlan, Live
    <3> QED BY <3>1, AppliedShown DEF ReleaseInv, ShownStored, CountsTell
  <2>4. cfg'.resources # "zero"
    BY <1>0, <2>1, <2>3 DEF CountTo, CountsSome
  <2> QED BY <1>0, <2>2, <2>4 DEF CountsSome
<1>4. CASE \E i \in JobIds : JobMoves(i)
  <2>1. cfg' = cfg /\ cache' = cache
    BY <1>4, MovesKeep DEF JobMoves, TerraformShows
  <2> QED BY <1>0, <2>1 DEF CountsSome
<1> QED BY <1>0, <1>1, <1>2, <1>3, <1>4, ReleaseKinds

LEMMA EndsStep ==
  ASSUME IInv, EndsSeen, [Next]_vars
  PROVE  EndsSeen'
<1>0. njobs \in Nat /\ JobIds \subseteq Nat \ {0}
  BY JobTypes DEF IInv, TypeInv
<1>1. ASSUME NEW i \in JobIds, jobs[i].phase = "complete"
      PROVE  jobs'[i].phase = "complete"
  <2>1. ASSUME NEW stage, NEW p, Created(stage, p)
        PROVE  jobs'[i] = jobs[i]
    <3>1. njobs + 1 > njobs /\ njobs + 1 \in JobIds
      BY <1>0, <2>1 DEF Created
    <3>2. i # njobs + 1
      BY <1>1, <3>1 DEF EndsSeen
    <3> QED BY <2>1, <3>2 DEF Created
  <2>2. CASE JobsKeep
    BY <1>1, <2>2 DEF JobsKeep, Running
  <2> QED BY <1>1, <2>1, <2>2, JobsShape
<1>2. ASSUME NEW i \in JobIds, i > njobs'
      PROVE  jobs'[i].phase = "none"
  <2>1. ASSUME NEW stage, NEW p, Created(stage, p)
        PROVE  jobs'[i].phase = "none"
    <3>1. i > njobs /\ i # njobs + 1
      BY <1>0, <1>2, <2>1 DEF Created
    <3> QED BY <2>1, <3>1 DEF Created, EndsSeen
  <2>2. CASE JobsKeep
    BY <1>2, <2>2 DEF JobsKeep, EndsSeen, Running
  <2> QED BY <2>1, <2>2, JobsShape
<1>3. ASSUME NEW i \in JobIds, seen'[i] = "complete"
      PROVE  jobs'[i].phase = "complete"
  <2>1. CASE seen' = seen
    BY <1>1, <1>3, <2>1 DEF EndsSeen
  <2>2. CASE seen' = [k \in JobIds |-> Shown(jobs'[k])]
    BY <1>3, <2>2 DEF Shown
  <2> QED BY <2>1, <2>2, JobsShape
<1> QED BY <1>2, <1>3 DEF EndsSeen

LEMMA LateStep ==
  ASSUME IInv, ReleaseInv, [Next]_vars
  PROVE  DestroysLate'
<1>1. DestroysLate /\ (cache.deleting => cache'.deleting)
  BY DeletionStep DEF ReleaseInv
<1>2. CASE JobsKeep
  BY <1>1, <1>2 DEF JobsKeep, SameLabels, DestroysLate
<1>3. ASSUME NEW stage, NEW p, Created(stage, p), stage = "destroy" => cache.deleting
      PROVE  DestroysLate'
  BY <1>1, <1>3 DEF Created, DestroysLate
<1> QED BY <1>2, <1>3, JobsShape

LEMMA AloneStep ==
  ASSUME IInv, ReleaseInv, [Next]_vars
  PROVE  DestroysAlone'
<1> SUFFICES ASSUME NoneBeside'
             PROVE  \A i \in JobIds :
                      jobs'[i].stage = "destroy" =>
                        /\ \A k \in JobIds : jobs'[k].stage = "apply" => ~Running(k)'
                        /\ jobs'[i].phase = "complete" => ~cloud'.resources
  BY DEF DestroysAlone
<1>1. DestroysLate /\ DestroysAlone
  BY DEF ReleaseInv
<1>2. NoneBeside
  <2>1. CASE JobsKeep
    BY <2>1 DEF JobsKeep, SameLabels, NoneBeside
  <2>2. ASSUME NEW stage, NEW p, Created(stage, p)
        PROVE  NoneBeside
    BY <2>2 DEF Created, NoneBeside
  <2> QED BY <2>1, <2>2, JobsShape
<1>3. \A i \in JobIds :
        jobs[i].stage = "destroy" =>
          /\ \A k \in JobIds : jobs[k].stage = "apply" => ~Running(k)
          /\ jobs[i].phase = "complete" => ~cloud.resources
  BY <1>1, <1>2 DEF DestroysAlone
(* No apply starts or runs again. *)
<1>4. ASSUME NEW i \in JobIds, jobs'[i].stage = "destroy",
             NEW k \in JobIds, jobs'[k].stage = "apply"
      PROVE  ~Running(k)'
  <2>1. CASE JobsKeep
    BY <1>3, <1>4, <2>1 DEF JobsKeep, SameLabels, Running
  <2>2. ASSUME NEW stage \in {"plan", "apply"}, NEW p, Created(stage, p), ~cache.deleting
        PROVE  FALSE
    BY <1>1, <1>4, <2>2 DEF Created, DestroysLate
  <2>3. CASE Created("destroy", 0)
    <3> DEFINE n == njobs + 1
    <3>1. /\ n \in JobIds /\ jobs'[n].beside = ("destroy" = "destroy" /\ Applying)
          /\ \A m \in JobIds : m # n => jobs'[m] = jobs[m]
      BY <2>3 DEF Created
    <3>2. jobs'[n].stage = "destroy"
      BY <2>3 DEF Created
    <3> HIDE DEF n
    <3>3. ~Applying
      <4>1. ~jobs'[n].beside
        BY <3>1, <3>2 DEF NoneBeside
      <4> QED BY <3>1, <4>1
    <3>4. k # n
      BY <1>4, <3>2
    <3> QED BY <1>4, <3>1, <3>3, <3>4 DEF Applying, Running
  <2> QED BY <2>1, <2>2, <2>3, JobsShape
(* Terraform takes nothing back. *)
<1>5. ASSUME cloud'.resources = cloud.resources,
             \A i \in JobIds : jobs'[i].phase = "complete" /\ jobs'[i].stage = "destroy" =>
               jobs[i].phase = "complete" /\ jobs[i].stage = "destroy"
      PROVE  \A i \in JobIds :
               jobs'[i].stage = "destroy" /\ jobs'[i].phase = "complete" => ~cloud'.resources
  BY <1>3, <1>5
<1>6. CASE Idles \/ Written
  BY <1>4, <1>5, <1>6 DEF Idles, Written, environment
<1>7. CASE RunCreates
  <2>1. cloud' = cloud
    BY <1>7, Zenon DEF RunCreates, Quiet, PlanCreated, ApplyCreated, DestroyCreated,
                       environment
  <2>2. ASSUME NEW i \in JobIds, jobs'[i].phase = "complete"
        PROVE  jobs'[i] = jobs[i]
    <3>1. CASE jobs' = jobs
      BY <3>1
    <3>2. ASSUME NEW stage, NEW p, Created(stage, p)
          PROVE  jobs'[i] = jobs[i]
      BY <2>2, <3>2 DEF Created
    <3> QED BY <1>7, <3>1, <3>2, CreatedFacts
            DEF RunCreates, Quiet, PlanCreated, ApplyCreated, DestroyCreated
  <2> QED BY <1>4, <1>5, <2>1, <2>2
<1>8. CASE Releases
  <2>1. cloud' = cloud /\ \A k \in JobIds : jobs'[k].phase = jobs[k].phase
                                            /\ jobs'[k].stage = jobs[k].stage
    BY <1>8, CleanedKeeps DEF Releases, Cleaned, environment, IInv, JobsKeep, SameLabels
  <2> QED BY <1>4, <1>5, <2>1
<1>9. ASSUME NEW i \in JobIds, JobMoves(i)
      PROVE  \A k \in JobIds :
               jobs'[k].stage = "destroy" /\ jobs'[k].phase = "complete" => ~cloud'.resources
  <2>1. JobsKeep /\ Moves(i)
    BY <1>9, MovesKeep
       DEF JobMoves, TerraformShows, Uploads, Reported, PlanEnded, CloudChanged, Expired
  <2>2. \A k \in JobIds : SameLabels(k) /\ (k # i => jobs'[k] = jobs[k])
    BY <2>1 DEF Moves
  <2>3. CASE TerraformShows(i)
    <3>1. /\ Running(i) /\ jobs[i].stage \in {"apply", "destroy"}
          /\ jobs[i].stage = "destroy" =>
               /\ cloud'.resources => cloud.resources
               /\ jobs'[i].phase = "complete" => ~cloud'.resources
      BY <2>3 DEF TerraformShows, CloudChanged
    <3>2. ASSUME NEW k \in JobIds, jobs'[k].stage = "destroy", jobs'[k].phase = "complete"
          PROVE  ~cloud'.resources
      <4>1. jobs[k].stage = "destroy"
        BY <2>2, <3>2 DEF SameLabels
      <4>2. jobs[i].stage = "destroy"
        BY <1>3, <3>1, <4>1
      <4>3. CASE k = i
        BY <3>1, <3>2, <4>2, <4>3
      <4>4. CASE k # i
        BY <1>3, <2>2, <3>1, <3>2, <4>2, <4>4
      <4> QED BY <4>3, <4>4
    <3> QED BY <3>2
  <2>4. CASE ~TerraformShows(i)
    <3>1. /\ cloud' = cloud
          /\ jobs'[i].phase = "complete" =>
               jobs[i].stage = "plan" \/ jobs[i].phase = "complete"
      BY <1>9, <2>4 DEF JobMoves, Uploads, Reported, PlanEnded, Expired
    <3> QED BY <1>3, <2>2, <3>1 DEF SameLabels
  <2> QED BY <2>3, <2>4
<1> QED BY <1>4, <1>6, <1>7, <1>8, <1>9, ReleaseKinds

LEMMA CreatedStep ==
  ASSUME IInv, ReleaseInv, CountsTell, [Next]_vars, ~cache'.deleting
  PROVE  CreatedShown'
<1>0. ~cache.deleting /\ CreatedShown /\ DestroysLate /\ ZeroGens = {}
  BY DeletionStep DEF ReleaseInv, CountsTell
<1>1. ASSUME NEW i \in JobIds
      PROVE  jobs[i].stage # "destroy"
  BY <1>0 DEF DestroysLate
(* The secrets and the cloud stay, or the cloud drifts. *)
<1>2. ASSUME UNCHANGED <<planSecret, tfState>>, cloud'.at \in {cloud.at, 0},
             cloud'.resources = cloud.resources,
             \A i \in JobIds : jobs'[i].stage = "apply" /\ jobs'[i].phase = "complete" =>
                                 tfState = "some"
      PROVE  CreatedShown'
  BY <1>0, <1>2 DEF CreatedShown
<1>3. CASE Idles \/ Written
  <2>1. /\ planSecret' = planSecret /\ tfState' = tfState /\ jobs' = jobs
        /\ cloud'.at \in {cloud.at, 0} /\ cloud'.resources = cloud.resources
    BY <1>3 DEF Idles, Written, storedSecrets, environment
  <2> QED BY <1>0, <1>2, <2>1 DEF CreatedShown
<1>4. CASE RunCreates
  <2>1. UNCHANGED <<storedSecrets, environment>>
    BY <1>4, Zenon DEF RunCreates, Quiet, PlanCreated, ApplyCreated, DestroyCreated
  <2>2. planSecret' = planSecret /\ tfState' = tfState /\ cloud' = cloud
    BY <2>1 DEF storedSecrets, environment
  <2>3. ASSUME NEW stage, NEW p, Created(stage, p)
        PROVE  CreatedShown'
    BY <1>0, <1>2, <2>2, <2>3 DEF Created, CreatedShown
  <2>4. CASE jobs' = jobs
    BY <1>0, <1>2, <2>2, <2>4 DEF CreatedShown
  <2> QED BY <1>4, <2>3, <2>4, CreatedFacts
          DEF RunCreates, Quiet, PlanCreated, ApplyCreated, DestroyCreated
<1>5. CASE Releases
  BY <1>0, <1>5 DEF Releases, Cleaned
<1>6. ASSUME NEW i \in JobIds, JobMoves(i)
      PROVE  CreatedShown'
  <2>1. \A k \in JobIds : SameLabels(k) /\ (k # i => jobs'[k] = jobs[k])
    BY <1>6 DEF JobMoves, TerraformShows, Uploads, Reported, PlanEnded, CloudChanged,
                Expired, Moves
  <2>2. jobs[i].stage \in {"plan", "apply"} => jobs[i].gen # 0
    <3>1. jobs[i].gen \in Nat /\ cfg.gen \in Nat
      BY JobTypes, ObjectTypes DEF IInv, TypeInv, TypeOK
    <3>2. jobs[i].stage \in {"plan", "apply"} => jobs[i].gen \in 1..cfg.gen
      BY DEF IInv, ApprovalInv, JobsKnown, CacheLags
    <3> QED BY <3>1, <3>2
  <2>3. CASE Uploads(i)
    <3>1. /\ planSecret' = [job |-> i, changes |-> HasChanges(jobs[i].gen)]
          /\ jobs[i].stage = "plan" /\ tfState' = tfState /\ cloud' = cloud
          /\ jobs'[i].phase = "active"
      BY <2>3 DEF Uploads
    <3>2. ~planSecret'.changes => tfState = "some"
      <4>1. planSecret'.changes = (cloud.at # jobs[i].gen)
        BY <1>0, <3>1 DEF HasChanges
      <4> QED BY <1>0, <2>2, <3>1, <4>1 DEF CreatedShown
    <3>3. ASSUME NEW k \in JobIds
          PROVE  jobs'[k].stage = "apply" /\ jobs'[k].phase = "complete" =>
                   tfState' = "some"
      BY <1>0, <2>1, <3>1 DEF CreatedShown, SameLabels
    <3> QED BY <1>0, <3>1, <3>2, <3>3 DEF CreatedShown
  <2>4. CASE Reported(i) \/ PlanEnded(i) \/ Expired(i)
    <3>1. planSecret' = planSecret /\ tfState' = tfState /\ cloud' = cloud
      BY <2>4 DEF Reported, PlanEnded, Expired, storedSecrets
    <3>2. jobs[i].stage = "apply" /\ jobs'[i].phase = "complete" => tfState = "some"
      <4>1. CASE Reported(i) \/ PlanEnded(i)
        BY <4>1 DEF Reported, PlanEnded
      <4>2. CASE Expired(i)
        BY <1>0, <4>2 DEF Expired, CreatedShown
      <4> QED BY <2>4, <4>1, <4>2
    <3> QED BY <1>0, <1>2, <2>1, <3>1, <3>2 DEF CreatedShown, SameLabels
  <2>5. CASE TerraformShows(i)
    <3>1. /\ jobs[i].stage = "apply" /\ planSecret' = planSecret
          /\ tfState' = Recorded(cloud'.resources)
      BY <1>1, <2>5 DEF TerraformShows, CloudChanged
    <3>2. \/ cloud' = [at |-> jobs[i].gen, resources |-> TRUE]
          \/ /\ jobs'[i].phase = "failed"
             /\ \E some \in {cloud.resources, TRUE} :
                  cloud' = [at |-> 0, resources |-> some]
      <4>1. (jobs[i].gen \notin ZeroGens) = TRUE
        BY <1>0
      <4> QED BY <2>5, <3>1, <4>1 DEF TerraformShows, CloudChanged
    <3>3. \/ tfState' = "some" /\ cloud'.resources
          \/ /\ cloud'.at = 0 /\ jobs'[i].phase = "failed" /\ tfState # "some"
             /\ tfState' # "some"
      <4>1. CASE cloud'.resources
        BY <3>1, <4>1 DEF Recorded
      <4>2. CASE ~cloud'.resources
        <5>1. cloud' = [at |-> 0, resources |-> cloud.resources]
              /\ jobs'[i].phase = "failed"
          BY <3>2, <4>2
        <5>2. ~cloud.resources /\ cloud'.at = 0
          BY <4>2, <5>1
        <5>3. tfState # "some" /\ tfState' # "some"
          BY <1>0, <3>1, <4>2, <5>2 DEF CreatedShown, Recorded
        <5> QED BY <5>1, <5>2, <5>3
      <4> QED BY <4>1, <4>2
    <3>4. ASSUME NEW k \in JobIds
          PROVE  jobs'[k].stage = "apply" /\ jobs'[k].phase = "complete" =>
                   tfState' = "some"
      BY <1>0, <2>1, <3>1, <3>3 DEF CreatedShown, SameLabels
    <3>5. /\ cloud'.at # 0 => tfState' = "some"
          /\ planSecret.job # 0 /\ ~planSecret.changes => tfState' = "some"
          /\ tfState' = "some" => cloud'.resources
      BY <1>0, <3>3 DEF CreatedShown
    <3> QED BY <3>1, <3>4, <3>5 DEF CreatedShown
  <2> QED BY <1>6, <2>3, <2>4, <2>5 DEF JobMoves
<1> QED BY <1>0, <1>3, <1>4, <1>5, <1>6, ReleaseKinds

LEMMA InitReleaseInv ==
  ASSUME Init
  PROVE  ReleaseInv
<1>1. /\ cache = cfg /\ ~cfg.deleting /\ cfg.resources = "unset"
      /\ planSecret.job = 0 /\ tfState = "absent" /\ shown = Stored
      /\ cloud.at = 0
      /\ \A i \in JobIds : jobs[i] = NoJob /\ seen[i] = "none"
  BY DEF Init
<1>2. \A i \in JobIds : jobs[i].stage = "none" /\ jobs[i].phase = "none"
  BY <1>1 DEF NoJob
<1> QED BY <1>1, <1>2 DEF ReleaseInv, DeletionSeen, EndsSeen, DestroysLate, DestroysAlone,
        ShownStored, CountsSome, CreatedShown

LEMMA NextReleaseInv ==
  ASSUME IInv, ReleaseInv, [Next]_vars
  PROVE  ReleaseInv'
<1>1. DeletionSeen' /\ EndsSeen' /\ ShownStored'
  BY DeletionStep, EndsStep, ShownStep DEF ReleaseInv
<1>2. DestroysLate' /\ DestroysAlone'
  BY LateStep, AloneStep
<1>3. CountsTell => CountsSome' /\ (~cache'.deleting => CreatedShown')
  BY CountStep, CreatedStep
<1> QED BY <1>1, <1>2, <1>3 DEF ReleaseInv, CountsTell

(* The run that cleans up beside resources that exist. *)
LEMMA CleanUpAccounted ==
  ASSUME ReleaseInv, CleanUp, ~cache.orphan, cloud.resources
  PROVE  \/ shown.state = "absent" \/ CountMisleads
         \/ \E i \in JobIds : jobs[i].stage = "destroy" /\ jobs[i].beside
<1>1. CASE DestroySkipped
  <2>1. cache.resources = "zero" \/ shown.state = "absent"
    BY <1>1 DEF DestroySkipped
  <2>2. CountsTell => cache.resources # "zero"
    BY DEF ReleaseInv, CountsSome
  <2> QED BY <2>1, <2>2 DEF CountMisleads, CountsTell
<1>2. CASE DestroyJobIs("complete")
  <2> DEFINE m == Latest(DestroyJobs(cache))
  <2>1. DestroyJobs(cache) \in SUBSET JobIds /\ DestroyJobs(cache) # {}
    BY <1>2 DEF DestroyJobs, Listed, DestroyJobIs
  <2>2. m \in DestroyJobs(cache)
    BY <2>1, LatestFacts
  <2>3. seen[m] = "complete"
    BY <1>2 DEF DestroyJobIs
  <2> HIDE DEF m
  <2>4. m \in JobIds /\ jobs[m].stage = "destroy"
    BY <2>2 DEF DestroyJobs, Listed
  <2>5. jobs[m].phase = "complete"
    BY <2>3, <2>4 DEF ReleaseInv, EndsSeen
  <2>6. ~NoneBeside
    BY <2>4, <2>5 DEF ReleaseInv, DestroysAlone
  <2> QED BY <2>6 DEF NoneBeside
<1> QED BY <1>1, <1>2 DEF CleanUp

(***************************************************************************)
(* The Terraform state of resources that exist is thrown away, with no job *)
(* running, in three ways only: the informer did not show the state, the   *)
(* resource count was an old zero, which takes a generation without        *)
(* managed resources or secrets that lag, or a destroy was started beside  *)
(* an apply.  For every value of the constants: whatever the caches show,  *)
(* the calls that fail, and the user does.                                 *)
(***************************************************************************)
THEOREM ReleasesAccounted == Spec => ReleaseAccounted
<1> DEFINE Accounted ==
             /\ ~cache.orphan /\ Idle /\ cloud.resources
             /\ tfState # "absent" /\ tfState' = "absent"
             => \/ shown.state = "absent" \/ CountMisleads
                \/ \E i \in JobIds : jobs[i].stage = "destroy" /\ jobs[i].beside
<1>1. Init => ReleaseInv
  BY InitReleaseInv
<1>2. IInv /\ ReleaseInv /\ [Next]_vars => ReleaseInv'
  BY NextReleaseInv
<1>3. IInv /\ ReleaseInv /\ [Next]_vars => [Accounted]_vars
  <2> SUFFICES ASSUME IInv, ReleaseInv, [Next]_vars, ~cache.orphan, cloud.resources,
                      tfState # "absent", tfState' = "absent"
               PROVE  \/ shown.state = "absent" \/ CountMisleads
                      \/ \E i \in JobIds : jobs[i].stage = "destroy" /\ jobs[i].beside
    OBVIOUS
  <2>1. ~Idles /\ ~Written /\ ~RunCreates
    <3>1. Idles \/ Written \/ RunCreates => UNCHANGED storedSecrets
      BY Zenon DEF Idles, Written, RunCreates, Quiet, PlanCreated, ApplyCreated,
                   DestroyCreated, storedSecrets
    <3> QED BY <3>1 DEF storedSecrets
  <2>2. \A i \in JobIds : ~JobMoves(i)
    BY DEF JobMoves, TerraformShows, CloudChanged, Uploads, Reported, PlanEnded, Expired,
           storedSecrets
  <2>3. CleanUp
    BY <2>1, <2>2, ReleaseKinds DEF Releases
  <2> QED BY <2>3, CleanUpAccounted
<1> HIDE DEF Accounted
<1>4. Spec => [][Accounted]_vars
  BY <1>1, <1>2, <1>3, Inductive, PTL DEF Spec
<1> QED BY <1>4 DEF Accounted, ReleaseAccounted

=============================================================================
