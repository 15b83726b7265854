---------------------------- MODULE PlansProofs ------------------------------
(***************************************************************************)
(* Theorems about the plan and apply jobs of a Configuration, for every    *)
(* value of the constants: which plan an apply is for, that jobs do not    *)
(* overlap, that a plan is applied once and only when its own scan has     *)
(* passed, what a Ready apply condition means, and that an acknowledged    *)
(* drift check has run.  All but the last need caches that show the        *)
(* controller's own writes (ReadYourWrites).                               *)
(***************************************************************************)
EXTENDS ConfigurationProofs, WellFoundedInduction

(***************************************************************************)
(* The cache shows every status the controller wrote, and lags only behind *)
(* the user.  The apply condition of a Configuration that is being deleted *)
(* is about an earlier generation.                                         *)
(***************************************************************************)
CacheCurrent ==
  /\ cache.conds = cfg.conds /\ (cfg.exists => cache.exists)
  /\ cache.retry <= cfg.retry /\ cache.driftAt <= cfg.driftAt
  /\ cache.deleting => cfg.deleting
  /\ cfg.deleting /\ ~cache.deleting => cache.gen < cfg.gen
  /\ cfg.conds["apply"].gen <= cache.gen
  /\ cfg.deleting => cfg.conds["apply"].gen < cfg.gen

(* Jobs carry the labels the cache had when they were created, and none of *)
(* these goes back: the generation of every job, and what asked for a plan. *)
Before(i, k) ==
  /\ jobs[i].gen <= jobs[k].gen
  /\ jobs[i].stage = "plan" /\ jobs[k].stage = "plan" =>
       jobs[i].retry <= jobs[k].retry /\ jobs[i].drift <= jobs[k].drift

JobsOrdered ==
  /\ \A i \in JobIds :
       /\ i > njobs => /\ jobs[i].stage = "none" /\ jobs[i].phase = "none"
                       /\ ~jobs[i].scan
       /\ i <= njobs => /\ jobs[i].stage # "none"
                        /\ jobs[i].phase \in {"active", "complete", "failed"}
                        /\ jobs[i].gen \in 1..cache.gen
                        /\ jobs[i].retry <= cache.retry
                        /\ jobs[i].drift <= cache.driftAt
  /\ \A i, k \in JobIds : i < k /\ k <= njobs => Before(i, k)

(* From the second generation on a plan or an apply starts when every      *)
(* earlier job has ended.                                                  *)
JobsApart ==
  \A i, k \in JobIds :
    i < k /\ jobs[k].stage \in {"plan", "apply"} /\ jobs[k].gen > 1 => ~Running(i)

(* Until the controller sees the deletion, it sees every job that runs, and *)
(* every job that ever ran until it expires.                                *)
JobsSeen ==
  ~cache.deleting =>
    \A i \in JobIds :
      /\ jobs[i].stage # "destroy"
      /\ Running(i) => seen[i] = "active"
      /\ seen[i] \in {"complete", "failed"} => jobs[i].phase = seen[i]
      /\ jobs[i].removed => Expiry /\ ~Running(i)
      /\ i <= njobs /\ ~jobs[i].removed => i \in Listed

(* The plan secret is the one of the last plan job that uploaded anything. *)
PlansUploaded ==
  /\ \A i \in JobIds :
       jobs[i].stage = "plan" /\ jobs[i].phase = "complete" =>
         jobs[i].step = IF jobs[i].scan THEN 2 ELSE 1
  /\ planSecret.job # 0 => jobs[planSecret.job].stage = "plan"
  /\ ~cache.deleting =>
       \A i \in JobIds :
         jobs[i].stage = "plan" /\ jobs[i].step # 0 =>
           planSecret.job # 0 /\ (jobs[i].gen > 1 => i <= planSecret.job)

(* A plan condition that is Ready is about a plan job that completed. *)
PlanReady ==
  cfg.conds["plan"].reason = "Ready" =>
    \E i \in JobIds : /\ jobs[i].stage = "plan" /\ jobs[i].phase = "complete"
                      /\ jobs[i].gen = cfg.conds["plan"].gen

PlansInv ==
  /\ CacheCurrent /\ JobsOrdered /\ JobsApart /\ JobsSeen
  /\ PlansUploaded /\ PlanReady /\ ApplyMatchesPlan

-----------------------------------------------------------------------------
(* The cloud is where a generation wants it, or has drifted. *)
Settled(c, g) ==
  \/ g \notin ZeroGens /\ c.at = g
  \/ g \in ZeroGens /\ ~c.resources
  \/ MaxDrift > 0 /\ c.at = 0

(* Without a state secret nothing has been applied. *)
StateRecorded ==
  tfState = "absent" =>
    /\ ~cloud.resources /\ cloud.at = 0
    /\ \A i \in JobIds : jobs[i].stage = "apply" => jobs[i].phase # "complete"

(* A plan without changes found the cloud settled, and it stays so. *)
NoChanges ==
  planSecret.job # 0 /\ jobs[planSecret.job].gen > 1 /\ ~planSecret.changes =>
    LET g == jobs[planSecret.job].gen
    IN  Settled(cloud, g) /\ (tfState = "absent" => g \in ZeroGens)

(* An apply that runs is for the plan in the secret, which was there first, *)
(* and one of a plan without changes has nothing to create.  One that       *)
(* completed leaves the cloud settled until the next plan.                  *)
ApplyEffect ==
  \A i \in JobIds :
    jobs[i].stage = "apply" =>
      /\ jobs[i].plan < i
      /\ Running(i) /\ jobs[i].gen > 1 =>
           /\ jobs[i].plan = planSecret.job
           /\ ~planSecret.changes => jobs[i].gen \in ZeroGens /\ ~cloud.resources
      /\ /\ jobs[i].phase = "complete" /\ jobs[i].plan = planSecret.job
         /\ jobs[i].gen > 1
         => Settled(cloud, jobs[i].gen)

(* A Ready apply condition, found by a run that was shown the secrets. *)
ReadySettled ==
  vouched /\ cfg.gen > 1 /\ IsComplete(cfg.conds["apply"], cfg.gen) =>
    LET g == cfg.gen
    IN  /\ Settled(cloud, g) /\ tfState # "absent"
        /\ \A i \in JobIds :
             jobs[i].stage = "apply" /\ Running(i) =>
               jobs[i].gen = g /\ (g \in ZeroGens \/ MaxDrift > 0)
        /\ /\ g \notin ZeroGens /\ MaxDrift = 0 /\ planSecret.changes
           /\ planSecret.job # 0 /\ jobs[planSecret.job].gen = g
           => \E i \in JobIds :
                jobs[i].stage = "apply" /\ jobs[i].plan = planSecret.job

(* Every apply was started by a run that was shown the secrets. *)
AppliesCurrent == \A i \in JobIds : jobs[i].stage = "apply" => jobs[i].current

CloudInv ==
  ~Expiry /\ ~cache.deleting /\ AppliesCurrent =>
    StateRecorded /\ NoChanges /\ ApplyEffect /\ ReadySettled

-----------------------------------------------------------------------------
(* The report secret is the one of the last plan job that was scanned. *)
Scanned ==
  /\ \A i \in JobIds : verdict[i] # "none" => i <= njobs /\ jobs[i].step = 2
  /\ ~cache.deleting =>
       /\ report # 0 =>
            /\ jobs[report].stage = "plan" /\ jobs[report].step = 2
            /\ jobs[report].scan
       /\ \A i \in JobIds :
            jobs[i].stage = "plan" /\ jobs[i].step = 2 /\ jobs[i].gen > 1 =>
              i <= report

(* A constraint that matches does so from then on. *)
ScansStay ==
  /\ \A i \in JobIds : jobs[i].scan => policyOn
  /\ \A i, k \in JobIds : i < k /\ k <= njobs /\ jobs[i].scan => jobs[k].scan

(* The plan condition is Ready only for the last plan of its generation. *)
LastPlanReady ==
  cache.exists /\ ~cache.deleting /\ cfg.conds["plan"].reason = "Ready" =>
    \A i \in JobIds :
      /\ jobs[i].stage = "plan" /\ jobs[i].gen = cfg.conds["plan"].gen
      /\ jobs[i].phase # "complete"
      => \E k \in JobIds : /\ k > i /\ jobs[k].stage = "plan"
                           /\ jobs[k].gen = jobs[i].gen
                           /\ jobs[k].phase = "complete"

Undisturbed == ~Expiry /\ FALSE \notin PolicyChanges /\ faults = 0

GateInv == Undisturbed => Scanned /\ ScansStay /\ LastPlanReady /\ PolicyGate

-----------------------------------------------------------------------------
(***************************************************************************)
(* The types the proofs use.                                               *)
(***************************************************************************)
LEMMA JobTypes ==
  ASSUME TypeOK
  PROVE  /\ njobs \in Nat /\ JobIds \subseteq Nat \ {0} /\ MaxJobs \in Nat
         /\ 0 \notin JobIds
         /\ \A p \in 0..MaxJobs : p # 0 => p \in JobIds
         /\ planSecret.job \in 0..MaxJobs /\ report \in 0..MaxJobs
         /\ \A i \in JobIds :
              /\ jobs[i] \in Job
              /\ jobs[i].gen \in Nat /\ jobs[i].retry \in Nat /\ jobs[i].drift \in Nat
              /\ jobs[i].plan \in 0..MaxJobs /\ jobs[i].step \in 0..2
              /\ jobs[i].phase \in Phases
              /\ jobs[i].stage \in {"none", "plan", "apply", "destroy"}
<1>1. njobs \in Nat /\ JobIds \subseteq Nat \ {0} /\ MaxJobs \in Nat /\ 0 \notin JobIds
  BY BoundsAssumption DEF TypeOK, JobIds, BoundsAssumption
<1>2. \A p \in 0..MaxJobs : p # 0 => p \in JobIds
  BY BoundsAssumption DEF JobIds, BoundsAssumption
<1>3. planSecret.job \in 0..MaxJobs /\ report \in 0..MaxJobs
  BY DEF TypeOK, PlanSecret
<1>4. ASSUME NEW i \in JobIds
      PROVE  /\ jobs[i] \in Job
             /\ jobs[i].gen \in Nat /\ jobs[i].retry \in Nat /\ jobs[i].drift \in Nat
             /\ jobs[i].plan \in 0..MaxJobs /\ jobs[i].step \in 0..2
             /\ jobs[i].phase \in Phases
             /\ jobs[i].stage \in {"none", "plan", "apply", "destroy"}
  <2>1. jobs[i] \in Job
    BY DEF TypeOK
  <2>2. Generations \subseteq Nat /\ 0..MaxRetry \subseteq Nat /\ 0..MaxDrift \subseteq Nat
    BY BoundsAssumption DEF Generations, BoundsAssumption
  <2> QED BY <2>1, <2>2 DEF Job
<1> QED BY <1>1, <1>2, <1>3, <1>4

LEMMA ObjectTypes ==
  ASSUME NEW o \in Object
  PROVE  /\ o.gen \in Nat /\ o.retry \in Nat /\ o.driftAt \in Nat /\ o.driftSeen \in Nat
         /\ o.conds["plan"] \in Condition /\ o.conds["apply"] \in Condition
         /\ o.conds["plan"].gen \in Nat /\ o.conds["apply"].gen \in Nat
<1>1. Generations \subseteq Nat /\ 0..MaxRetry \subseteq Nat /\ 0..MaxDrift \subseteq Nat
  BY BoundsAssumption DEF Generations, BoundsAssumption
<1>2. o.conds["plan"] \in Condition /\ o.conds["apply"] \in Condition
  BY DEF Object, ConditionTypes
<1> QED BY <1>1, <1>2 DEF Object, Condition

-----------------------------------------------------------------------------
(***************************************************************************)
(* What a run leaves of the object: it computes n from the cached object,  *)
(* writes stored and patches the status.                                   *)
(***************************************************************************)
Stays(stored) ==
  /\ stored.gen = cfg.gen /\ stored.deleting = cfg.deleting
  /\ stored.retry = cfg.retry /\ stored.driftAt = cfg.driftAt
  /\ stored.conds = cfg.conds /\ stored.driftSeen = cfg.driftSeen
  /\ stored.exists => cfg.exists

(* The plan condition turns Ready after a plan only, the apply condition   *)
(* after an apply, and a drift check is acknowledged after its plan.       *)
PlanTo(c) ==
  \/ c \in {cache.conds["plan"], cfg.conds["plan"]}
  \/ c.reason # "Ready"
  \/ c = [reason |-> "Ready", gen |-> cache.gen] /\ PlanComplete

ApplyTo(c) ==
  \/ c \in {cache.conds["apply"], cfg.conds["apply"]}
  \/ /\ ~cache.deleting /\ c.gen = cache.gen
     /\ c.reason = "Ready" => ApplySkipped \/ ApplyDone

DriftTo(d) ==
  \/ d \in {cache.driftSeen, cfg.driftSeen}
  \/ d = cache.driftAt /\ PlanComplete /\ cache.drift

Outcome(n) ==
  PlanTo(n.conds["plan"]) /\ ApplyTo(n.conds["apply"]) /\ DriftTo(n.driftSeen)

After(stored, n) ==
  /\ cache' = (IF ReadYourWrites THEN cfg' ELSE cache)
  /\ seen' = (IF ReadYourWrites THEN [i \in JobIds |-> Shown(jobs'[i])] ELSE seen)
  /\ cfg'.gen = stored.gen /\ cfg'.deleting = stored.deleting
  /\ cfg'.retry = stored.retry /\ cfg'.driftAt = stored.driftAt
  /\ cfg'.exists = stored.exists
  /\ cfg'.conds \in {stored.conds, n.conds}
  /\ cfg'.driftSeen \in {stored.driftSeen, n.driftSeen}
  /\ faults' \in {faults, faults + 1}
  /\ faults' = faults /\ stored.exists /\ stored.conds = cache.conds =>
       cfg'.conds = n.conds

Ends ==
  /\ cache' = (IF ReadYourWrites THEN cfg' ELSE cache)
  /\ seen' = (IF ReadYourWrites THEN [i \in JobIds |-> Shown(jobs'[i])] ELSE seen)
  /\ cfg'.gen = cfg.gen /\ cfg'.deleting = cfg.deleting
  /\ cfg'.retry = cfg.retry /\ cfg'.driftAt = cfg.driftAt
  /\ cfg'.exists => cfg.exists
  /\ PlanTo(cfg'.conds["plan"]) /\ ApplyTo(cfg'.conds["apply"])
  /\ DriftTo(cfg'.driftSeen)
  /\ faults' \in {faults, faults + 1}

LEMMA PatchKeeps ==
  ASSUME NEW stored \in Object, NEW n \in Object
  PROVE  LET o == StatusPatch(stored, n)
         IN  /\ o.gen = stored.gen /\ o.deleting = stored.deleting
             /\ o.retry = stored.retry /\ o.driftAt = stored.driftAt
             /\ o.exists = stored.exists
             /\ o.conds \in {stored.conds, n.conds}
             /\ o.driftSeen \in {stored.driftSeen, n.driftSeen}
             /\ stored.exists /\ stored.conds = cache.conds => o.conds = n.conds
BY DEF StatusPatch, Object

LEMMA FinishAfter ==
  ASSUME TypeOK, NEW stored \in Object, NEW n \in Object, NEW again \in BOOLEAN,
         Finish(stored, n, again) \/ FinishFailed(stored, n)
  PROVE  After(stored, n)
<1> DEFINE o == StatusPatch(stored, n)
<1>1. /\ o.gen = stored.gen /\ o.deleting = stored.deleting
      /\ o.retry = stored.retry /\ o.driftAt = stored.driftAt
      /\ o.exists = stored.exists
      /\ o.conds \in {stored.conds, n.conds}
      /\ o.driftSeen \in {stored.driftSeen, n.driftSeen}
      /\ stored.exists /\ stored.conds = cache.conds => o.conds = n.conds
  BY PatchKeeps
<1>2. /\ cache' = (IF ReadYourWrites THEN cfg' ELSE cache)
      /\ seen' = (IF ReadYourWrites THEN [i \in JobIds |-> Shown(jobs'[i])] ELSE seen)
      /\ \/ cfg' = o /\ faults' \in {faults, faults + 1}
         \/ cfg' = stored /\ faults' = faults + 1
  BY DEF Finish, FinishFailed
<1>3. faults + 1 # faults
  BY BoundsAssumption DEF TypeOK, BoundsAssumption
<1> HIDE DEF o
<1> QED BY <1>1, <1>2, <1>3 DEF After

LEMMA EndsFacts ==
  ASSUME NEW stored \in Object, NEW n \in Object, Stays(stored), Outcome(n),
         cfg \in Object, After(stored, n)
  PROVE  Ends
<1>1. /\ cfg'.conds["plan"] \in {cfg.conds["plan"], n.conds["plan"]}
      /\ cfg'.conds["apply"] \in {cfg.conds["apply"], n.conds["apply"]}
      /\ cfg'.driftSeen \in {cfg.driftSeen, n.driftSeen}
  BY DEF After, Stays
<1>2. PlanTo(cfg'.conds["plan"])
  BY <1>1 DEF Outcome, PlanTo
<1>3. ApplyTo(cfg'.conds["apply"])
  BY <1>1 DEF Outcome, ApplyTo
<1>4. DriftTo(cfg'.driftSeen)
  BY <1>1 DEF Outcome, DriftTo
<1> QED BY <1>2, <1>3, <1>4 DEF After, Stays, Ends

(* The common case: the stored object is patched and nothing else written. *)
LEMMA PatchEnds ==
  ASSUME TypeOK, NEW n \in Object, NEW again \in BOOLEAN, Outcome(n),
         Finish(cfg, n, again) \/ FinishFailed(cfg, n)
  PROVE  Ends
<1>1. cfg \in Object /\ Stays(cfg)
  BY DEF TypeOK, Stays
<1> QED BY <1>1, FinishAfter, EndsFacts

-----------------------------------------------------------------------------
(***************************************************************************)
(* What the runs compute.                                                  *)
(***************************************************************************)
(* SetCondition, as far as Outcome can tell. *)
LEMMA SetFacts ==
  ASSUME NEW o \in Object, NEW type \in ConditionTypes, NEW reason \in Reasons
  PROVE  /\ SetCondition(o, type, reason) \in Object
         /\ SetCondition(o, type, reason).gen = o.gen
         /\ SetCondition(o, type, reason).driftSeen = o.driftSeen
         /\ SetCondition(o, type, reason).conds["plan"] =
              IF type = "plan" THEN [reason |-> reason, gen |-> o.gen]
                               ELSE o.conds["plan"]
         /\ SetCondition(o, type, reason).conds["apply"] =
              IF type = "apply" THEN [reason |-> reason, gen |-> o.gen]
                                ELSE o.conds["apply"]
BY SetConditionFacts DEF SetCondition, Object, ConditionTypes

LEMMA SetKeepsDrift ==
  ASSUME NEW o \in Object, NEW type \in ConditionTypes, NEW reason \in Reasons
  PROVE  SetCondition(o, type, reason).driftSeen = o.driftSeen
BY DEF SetCondition, Object

LEMMA SetKeepsApply ==
  ASSUME NEW o \in Object, NEW type \in ConditionTypes, NEW reason \in Reasons,
         type # "apply"
  PROVE  SetCondition(o, type, reason).conds["apply"] = o.conds["apply"]
BY DEF SetCondition, Object, ConditionTypes

LEMMA SetBeside ==
  ASSUME NEW o \in Object, NEW type \in ConditionTypes, NEW reason \in Reasons,
         type # "plan", type # "apply"
  PROVE  /\ SetCondition(o, type, reason) \in Object
         /\ SetCondition(o, type, reason).gen = o.gen
         /\ SetCondition(o, type, reason).driftSeen = o.driftSeen
         /\ SetCondition(o, type, reason).conds["plan"] = o.conds["plan"]
         /\ SetCondition(o, type, reason).conds["apply"] = o.conds["apply"]
<1>1. /\ SetCondition(o, type, reason) \in Object
      /\ SetCondition(o, type, reason).gen = o.gen
      /\ SetCondition(o, type, reason).conds["plan"] = o.conds["plan"]
  BY SetConditionFacts
<1>2. SetCondition(o, type, reason).driftSeen = o.driftSeen
  BY SetKeepsDrift
<1>3. SetCondition(o, type, reason).conds["apply"] = o.conds["apply"]
  BY SetKeepsApply
<1> QED BY <1>1, <1>2, <1>3

(* Like the cached object, for the plan and apply conditions and the drift *)
(* check that the status acknowledges.                                     *)
Like(o) ==
  /\ o.conds["plan"] = cache.conds["plan"] /\ o.conds["apply"] = cache.conds["apply"]
  /\ o.driftSeen = cache.driftSeen

LEMMA TypeNames ==
  /\ {"provider", "plan", "policy", "apply", "ready"} = ConditionTypes
  /\ {"InProgress", "Ready", "Error", "CallError", "ActionRequired",
      "Warning"} \subseteq Reasons
BY DEF ConditionTypes, Reasons

LEMMA SetLike ==
  ASSUME NEW o \in Object, Like(o), NEW type \in {"provider", "policy", "ready"},
         NEW reason \in Reasons
  PROVE  Like(SetCondition(o, type, reason))
<1>1. type \in ConditionTypes /\ type # "plan" /\ type # "apply"
  BY DEF ConditionTypes
<1> DEFINE n == SetCondition(o, type, reason)
<1>2. /\ n.driftSeen = o.driftSeen
      /\ n.conds["plan"] = o.conds["plan"] /\ n.conds["apply"] = o.conds["apply"]
  BY <1>1, SetBeside
<1> HIDE DEF n
<1>3. Like(n)
  BY <1>2 DEF Like
<1> QED BY <1>3 DEF n

LEMMA LikeOutcome ==
  ASSUME NEW o, Like(o)
  PROVE  Outcome(o)
BY DEF Like, Outcome, PlanTo, ApplyTo, DriftTo

LEMMA PreparedLike ==
  ASSUME TypeInv, ApprovalInv
  PROVE  Prepared \in Object /\ Like(Prepared) /\ Prepared.gen = cache.gen
<1>1. cache \in Object /\ PlanKnown(cache) /\ Like(cache)
  BY DEF TypeInv, TypeOK, ApprovalInv, Like
<1> QED BY <1>1, PreparedFacts, SetLike, TypeNames DEF Prepared

LEMMA StoppedAtLike ==
  ASSUME TypeInv, ApprovalInv, NEW chain, NEW k
  PROVE  StoppedAt(chain, k) \in Object /\ Like(StoppedAt(chain, k))
<1> DEFINE passed == \E m \in 1..(k - 1) : chain[m] = "providerReady"
           o == IF passed THEN Prepared ELSE cache
<1>1. cache \in Object /\ PlanKnown(cache) /\ Like(cache)
  BY DEF TypeInv, TypeOK, ApprovalInv, Like
<1>2. o \in Object /\ Like(o)
  BY <1>1, PreparedLike
<1>3. PICK type \in {"provider", "policy", "ready"}, reason \in Reasons :
           StoppedAt(chain, k) = SetCondition(o, type, reason)
  <2>1. {"Warning", "ActionRequired", "Error"} \subseteq Reasons
    BY TypeNames
  <2>2. \/ StoppedAt(chain, k) = SetCondition(o, "ready", "Warning")
        \/ StoppedAt(chain, k) = SetCondition(o, "provider", "Warning")
        \/ StoppedAt(chain, k) = SetCondition(o, "provider", "ActionRequired")
        \/ StoppedAt(chain, k) = SetCondition(o, "policy", "Error")
        \/ StoppedAt(chain, k) = SetCondition(o, "ready", "ActionRequired")
    BY DEF StoppedAt
  <2> QED BY <2>1, <2>2
<1> HIDE DEF o
<1>4. StoppedAt(chain, k) \in Object
  BY <1>1, StoppedAtFacts
<1> QED BY <1>2, <1>3, <1>4, SetLike

(* The plan stage. *)
LEMMA PlanOutcome ==
  ASSUME TypeInv, ApprovalInv, NEW reason \in Reasons, reason # "Ready"
  PROVE  /\ SetCondition(Prepared, "plan", reason) \in Object
         /\ SetCondition(Prepared, "plan", reason).conds["plan"].reason = reason
         /\ Outcome(SetCondition(Prepared, "plan", reason))
<1> DEFINE n == SetCondition(Prepared, "plan", reason)
<1>1. "plan" \in ConditionTypes /\ "plan" # "apply"
  BY DEF ConditionTypes
<1>2. /\ n \in Object /\ n.conds["plan"] = [reason |-> reason, gen |-> cache.gen]
      /\ n.conds["apply"] = cache.conds["apply"] /\ n.driftSeen = cache.driftSeen
  BY <1>1, PreparedLike, SetFacts DEF Like
<1> HIDE DEF n
<1>3. Outcome(n)
  BY <1>2 DEF Outcome, PlanTo, ApplyTo, DriftTo
<1> QED BY <1>2, <1>3 DEF n

(* The stages behind a plan that has passed. *)
Behind(o) ==
  /\ o \in Object /\ o.gen = cache.gen
  /\ PlanTo(o.conds["plan"]) /\ o.conds["apply"] = cache.conds["apply"]
  /\ DriftTo(o.driftSeen)

LEMMA BehindOutcome ==
  ASSUME NEW o, Behind(o)
  PROVE  Outcome(o)
BY DEF Behind, Outcome, ApplyTo

LEMMA BehindSet ==
  ASSUME NEW o, Behind(o), NEW type \in {"policy", "ready"}, NEW reason \in Reasons
  PROVE  Behind(SetCondition(o, type, reason))
<1>1. type \in ConditionTypes /\ type # "plan" /\ type # "apply"
  BY DEF ConditionTypes
<1> DEFINE n == SetCondition(o, type, reason)
<1>2. /\ n \in Object /\ n.gen = o.gen /\ n.driftSeen = o.driftSeen
      /\ n.conds["plan"] = o.conds["plan"] /\ n.conds["apply"] = o.conds["apply"]
  <2>1. o \in Object
    BY DEF Behind
  <2> QED BY <1>1, <2>1, SetBeside
<1> HIDE DEF n
<1>3. Behind(n)
  BY <1>2 DEF Behind
<1> QED BY <1>3 DEF n

LEMMA PlannedBehind ==
  ASSUME TypeInv, ApprovalInv, PlanComplete
  PROVE  Behind(Planned)
<1>1. Prepared \in Object /\ Like(Prepared) /\ Prepared.gen = cache.gen
  BY PreparedLike
<1>2. Behind(Prepared)
  BY <1>1 DEF Like, Behind, PlanTo, DriftTo
<1>3. Behind(SetCondition(Prepared, "plan", "Ready"))
  BY <1>1, SetFacts, TypeNames DEF Like, Behind, PlanTo, DriftTo
<1> QED BY <1>2, <1>3 DEF Planned

LEMMA CheckedBehind ==
  ASSUME TypeInv, ApprovalInv, PlanPassed
  PROVE  Behind(Checked)
<1> DEFINE o == SetCondition(Planned, "policy", "Ready")
           d == IF cache.drift THEN cache.driftAt ELSE o.driftSeen
<1>1. Behind(o) /\ PlanComplete
  BY PlannedBehind, BehindSet, TypeNames DEF PlanPassed
<1>2. Checked = [o EXCEPT !.driftSeen = d]
  BY DEF Checked
<1>3. DriftTo(d)
  BY <1>1 DEF Behind, DriftTo
<1>4. Checked \in Object /\ Checked.gen = cache.gen
  BY CheckedFacts DEF TypeInv
<1> HIDE DEF o, d
<1>5. Checked.conds = o.conds /\ Checked.driftSeen = d
  BY <1>1, <1>2 DEF Behind, Object
<1> QED BY <1>1, <1>3, <1>4, <1>5 DEF Behind

LEMMA BehindSync ==
  ASSUME NEW o, Behind(o),
         NEW v \in {"OutOfSync", "InSync", "Deleting", "DeletionFailed"}
  PROVE  Behind([o EXCEPT !.sync = v])
BY DEF Behind, Object

(* The apply condition, set behind a plan that has passed. *)
LEMMA ApplyOutcome ==
  ASSUME TypeInv, NEW o, Behind(o), ~cache.deleting, NEW reason \in Reasons,
         reason = "Ready" => ApplySkipped \/ ApplyDone
  PROVE  /\ SetCondition(o, "apply", reason) \in Object
         /\ SetCondition(o, "apply", reason).gen = cache.gen
         /\ Outcome(SetCondition(o, "apply", reason))
<1> DEFINE n == SetCondition(o, "apply", reason)
<1>1. "apply" \in ConditionTypes /\ "plan" # "apply"
  BY DEF ConditionTypes
<1>2. /\ n \in Object /\ n.gen = cache.gen
      /\ n.conds["apply"] = [reason |-> reason, gen |-> cache.gen]
      /\ n.conds["plan"] = o.conds["plan"] /\ n.driftSeen = o.driftSeen
  BY <1>1, SetFacts DEF Behind
<1> HIDE DEF n
<1>3. n.conds["apply"].gen = cache.gen /\ n.conds["apply"].reason = reason
  BY <1>2
<1>4. ApplyTo(n.conds["apply"])
  BY <1>3 DEF ApplyTo
<1>5. Outcome(n)
  BY <1>2, <1>4 DEF Behind, Outcome
<1> QED BY <1>2, <1>5 DEF n

LEMMA OutcomeReady ==
  ASSUME NEW o \in Object, Outcome(o), NEW reason \in Reasons
  PROVE  /\ SetCondition(o, "ready", reason) \in Object
         /\ Outcome(SetCondition(o, "ready", reason))
<1>1. "ready" \in ConditionTypes /\ "ready" # "apply" /\ "ready" # "plan"
  BY DEF ConditionTypes
<1> QED BY <1>1, SetFacts DEF Outcome

-----------------------------------------------------------------------------
(***************************************************************************)
(* Every run ends with Ends.  QuietRun changes nothing else that matters   *)
(* here; the others create a job or clean up.                              *)
(***************************************************************************)
Quiet == Ends /\ UNCHANGED <<jobs, njobs, storedSecrets, environment>>

LEMMA EarlyEnds ==
  ASSUME TypeInv, ApprovalInv,
         EnsureFinalizerPresent \/ EnsurePrerequisites \/ EnsureNoActivity
           \/ DeletionBlocked
  PROVE  Quiet
<1>1. cfg \in Object /\ cache \in Object /\ Like(cache) /\ TypeOK
  BY DEF TypeInv, TypeOK, Like
<1>2. CASE EnsureFinalizerPresent
  <2> DEFINE stored == IF cache = cfg THEN [cfg EXCEPT !.finalizer = TRUE] ELSE cfg
             n == [cache EXCEPT !.finalizer = TRUE]
  <2>1. stored \in Object /\ Stays(stored)
    <3> DEFINE o == [cfg EXCEPT !.finalizer = TRUE]
    <3>1. o \in Object /\ Stays(o)
      BY <1>1 DEF Object, Stays
    <3>2. Stays(cfg)
      BY DEF Stays
    <3> QED BY <1>1, <3>1, <3>2
  <2>2. n \in Object /\ Like(n)
    BY <1>1 DEF Object, Like
  <2>3. Finish(stored, n, TRUE) /\ UNCHANGED <<jobs, njobs, storedSecrets, environment>>
    BY <1>2 DEF EnsureFinalizerPresent, NoJobCreated, secrets
  <2> HIDE DEF stored, n
  <2>4. After(stored, n)
    BY <1>1, <2>1, <2>2, <2>3, FinishAfter
  <2>5. Outcome(n)
    BY <2>2, LikeOutcome
  <2> QED BY <1>1, <2>1, <2>2, <2>3, <2>4, <2>5, EndsFacts DEF Quiet
<1>3. CASE EnsurePrerequisites \/ DeletionBlocked
  <2>1. PICK chain \in {BeforeActivity, AfterActivity, DeletionChain} :
             StopAtMissing(chain)
    BY <1>3 DEF EnsurePrerequisites, DeletionBlocked
  <2>2. PICK k \in DOMAIN chain :
             Finish(cfg, StoppedAt(chain, k), chain[k] \notin Ignored)
    BY <2>1 DEF StopAtMissing
  <2>3. StoppedAt(chain, k) \in Object /\ Outcome(StoppedAt(chain, k))
    BY StoppedAtLike, LikeOutcome
  <2>4. (chain[k] \notin Ignored) \in BOOLEAN
    OBVIOUS
  <2>5. Ends
    BY <1>1, <2>2, <2>3, <2>4, PatchEnds
  <2> QED BY <2>1, <2>5 DEF StopAtMissing, NoJobCreated, Quiet, secrets
<1>4. CASE EnsureNoActivity
  <2>1. Finish(cfg, cache, TRUE) /\ UNCHANGED <<jobs, njobs, storedSecrets, environment>>
    BY <1>4 DEF EnsureNoActivity, NoJobCreated, secrets
  <2>2. Outcome(cache)
    BY <1>1, LikeOutcome
  <2> QED BY <1>1, <2>1, <2>2, PatchEnds DEF Quiet
<1> QED BY <1>2, <1>3, <1>4

LEMMA RequireApprovalEnds ==
  ASSUME TypeInv, ApprovalInv, RequireApproval
  PROVE  Quiet
<1> DEFINE held == [cfg EXCEPT !.apply = "false"]
           failed == SetCondition(held, "plan", "CallError")
<1>1. cfg \in Object /\ TypeOK
  BY DEF TypeInv, TypeOK
<1>2. /\ held \in Object /\ Stays(held) /\ held.conds = cfg.conds
      /\ held.driftSeen = cfg.driftSeen
  BY <1>1 DEF Object, Stays, Annotation
<1>3. Outcome(held)
  BY <1>2 DEF Outcome, PlanTo, ApplyTo, DriftTo
<1>4. /\ UNCHANGED <<jobs, njobs, storedSecrets, environment>>
      /\ \/ Finish(held, held, TRUE)
         \/ FinishFailed(cfg, SetCondition(Prepared, "plan", "CallError"))
         \/ FinishFailed(held, failed)
  BY DEF RequireApproval, NoJobCreated, secrets
<1> HIDE DEF held
<1>5. failed \in Object /\ Outcome(failed)
  <2>1. "plan" \in ConditionTypes /\ "CallError" \in Reasons /\ "plan" # "apply"
    BY DEF ConditionTypes, Reasons
  <2>2. /\ failed \in Object
        /\ failed.conds["plan"] = [reason |-> "CallError", gen |-> held.gen]
        /\ failed.conds["apply"] = cfg.conds["apply"]
        /\ failed.driftSeen = cfg.driftSeen
    BY <1>2, <2>1, SetFacts
  <2> HIDE DEF failed
  <2>3. failed.conds["plan"].reason # "Ready"
    BY <2>2
  <2> QED BY <2>2, <2>3 DEF Outcome, PlanTo, ApplyTo, DriftTo
<1> HIDE DEF failed
<1>6. CASE Finish(held, held, TRUE)
  <2>1. After(held, held)
    BY <1>1, <1>2, <1>6, FinishAfter
  <2> QED BY <1>1, <1>2, <1>3, <1>4, <2>1, EndsFacts DEF Quiet
<1>7. CASE FinishFailed(cfg, SetCondition(Prepared, "plan", "CallError"))
  <2>1. "CallError" \in Reasons /\ "CallError" # "Ready" /\ TRUE \in BOOLEAN
    BY DEF Reasons
  <2> QED BY <1>1, <1>4, <1>7, <2>1, PlanOutcome, PatchEnds DEF Quiet
<1>8. CASE FinishFailed(held, failed)
  <2>1. After(held, failed)
    BY <1>1, <1>2, <1>5, <1>8, FinishAfter
  <2> QED BY <1>1, <1>2, <1>5, <1>4, <2>1, EndsFacts DEF Quiet
<1> QED BY <1>4, <1>6, <1>7, <1>8

LEMMA PlanEnds ==
  ASSUME TypeInv, ApprovalInv,
         PlanInvalidRetry \/ PlanFailedBefore \/ PlanRunning \/ PlanFails
  PROVE  Quiet
<1>1. UNCHANGED <<jobs, njobs, storedSecrets, environment>> /\ TypeOK
  BY DEF PlanInvalidRetry, PlanFailedBefore, PlanRunning, PlanFails, NoJobCreated,
         TypeInv, secrets
<1>2. CASE PlanFailedBefore
  <2>1. Finish(cfg, Prepared, FALSE)
    BY <1>2 DEF PlanFailedBefore
  <2> QED BY <1>1, <2>1, PreparedLike, LikeOutcome, PatchEnds DEF Quiet
<1>3. CASE PlanInvalidRetry \/ PlanRunning \/ PlanFails
  <2>1. PICK reason \in {"Error", "InProgress"}, again \in BOOLEAN :
             Finish(cfg, SetCondition(Prepared, "plan", reason), again)
    BY <1>3 DEF PlanInvalidRetry, PlanRunning, PlanFails
  <2>2. reason \in Reasons /\ reason # "Ready"
    BY DEF Reasons
  <2> QED BY <1>1, <2>1, <2>2, PlanOutcome, PatchEnds DEF Quiet
<1> QED BY <1>2, <1>3

LEMMA PlanSecretEnds ==
  ASSUME TypeInv, ApprovalInv, PlanSecretMissing
  PROVE  Quiet
<1>1. /\ PlanComplete /\ UNCHANGED <<jobs, njobs, storedSecrets, environment>> /\ TypeOK
      /\ Finish(cfg, SetCondition(Planned, "ready", "Error"), FALSE)
  BY DEF PlanSecretMissing, NoJobCreated, TypeInv, secrets
<1>2. Behind(SetCondition(Planned, "ready", "Error"))
  BY <1>1, PlannedBehind, BehindSet, TypeNames
<1> QED BY <1>1, <1>2, BehindOutcome, PatchEnds DEF Quiet, Behind

LEMMA PolicyEnds ==
  ASSUME TypeInv, ApprovalInv,
         PolicyReportMissing \/ PolicyReportMalformed \/ PolicyFailed
  PROVE  Quiet
<1>1. PICK reason \in {"Warning", "Error", "ActionRequired"}, again \in BOOLEAN :
           StopAtPolicy(reason, again)
  BY DEF PolicyReportMissing, PolicyReportMalformed, PolicyFailed
<1>2. /\ PlanComplete /\ UNCHANGED <<jobs, njobs, storedSecrets, environment>> /\ TypeOK
      /\ Finish(cfg, SetCondition(Planned, "policy", reason), again)
  BY <1>1 DEF StopAtPolicy, NoJobCreated, TypeInv, secrets, PlanPassed
<1>3. reason \in Reasons
  BY DEF Reasons
<1>4. Behind(SetCondition(Planned, "policy", reason))
  BY <1>2, <1>3, PlannedBehind, BehindSet
<1> QED BY <1>2, <1>4, BehindOutcome, PatchEnds DEF Quiet, Behind

(* The end of the chain. *)
LEMMA AppliedOutcome ==
  ASSUME TypeInv, ApprovalInv, ApplySkipped \/ ApplyDone, PlanPassed, ~cache.deleting
  PROVE  /\ Applied(Checked) \in Object /\ Outcome(Applied(Checked))
         /\ \A r \in {"Ready", "Error", "CallError"} :
              /\ SetCondition(Applied(Checked), "ready", r) \in Object
              /\ Outcome(SetCondition(Applied(Checked), "ready", r))
<1> DEFINE a == SetCondition(Checked, "apply", "Ready")
<1>1. {"Ready", "Error", "CallError"} \subseteq Reasons
  BY DEF Reasons
<1>2. a \in Object /\ Outcome(a)
  BY <1>1, CheckedBehind, ApplyOutcome
<1>3. Applied(Checked) = [a EXCEPT !.sync = "InSync"]
  BY DEF Applied
<1> HIDE DEF a
<1>4. Applied(Checked) \in Object /\ Outcome(Applied(Checked))
  BY <1>2, <1>3 DEF Object, Outcome
<1> QED BY <1>1, <1>4, OutcomeReady

LEMMA CompletedOutcome ==
  ASSUME TypeInv, ApprovalInv, ApplySkipped \/ ApplyDone, PlanPassed, ~cache.deleting
  PROVE  Completed(Checked) \in Object /\ Outcome(Completed(Checked))
<1> DEFINE b == SetCondition(Applied(Checked), "ready", "Ready")
           r == IF shown.state = "some" THEN "some" ELSE "zero"
<1>1. b \in Object /\ Outcome(b)
  BY AppliedOutcome
<1>2. Completed(Checked) = [b EXCEPT !.resources = r]
  BY DEF Completed
<1> HIDE DEF b
<1>3. r \in {"zero", "some"}
  OBVIOUS
<1> HIDE DEF r
<1>4. /\ Completed(Checked) \in Object /\ Completed(Checked).conds = b.conds
      /\ Completed(Checked).driftSeen = b.driftSeen
  BY <1>1, <1>2, <1>3 DEF Object
<1> QED BY <1>1, <1>4 DEF Outcome

LEMMA ApplyEnds ==
  ASSUME TypeInv, ApprovalInv,
         ApplySkipped \/ WaitForApproval \/ ApplyRunning \/ ApplyFails \/ ApplyDone
  PROVE  Quiet
<1>1. UNCHANGED <<jobs, njobs, storedSecrets, environment>> /\ TypeOK
  BY DEF ApplySkipped, WaitForApproval, ApplyRunning, ApplyFails, ApplyDone,
         EndOfChain, NoJobCreated, TypeInv, secrets
<1>2. PlanPassed /\ ~cache.deleting
  BY DEF ApplySkipped, WaitForApproval, ApplyRunning, ApplyFails, ApplyDone,
         NothingToApply, ApplyJobIs, ReachesApply, PolicyPassed, PlanPassed,
         PlanComplete, ReachesPlan, Live
<1>3. Behind(Checked)
  BY <1>2, CheckedBehind
<1>4. CASE ApplySkipped \/ ApplyDone
  <2> DEFINE a == Applied(Checked)
  <2>1. \/ Finish(cfg, SetCondition(a, "ready", "Error"), FALSE)
        \/ Finish(cfg, Completed(Checked), FALSE)
        \/ FinishFailed(cfg, SetCondition(a, "ready", "CallError"))
    BY <1>4 DEF ApplySkipped, ApplyDone, EndOfChain
  <2>2. \A r \in {"Error", "CallError"} : /\ SetCondition(a, "ready", r) \in Object
                                         /\ Outcome(SetCondition(a, "ready", r))
    BY <1>2, <1>4, AppliedOutcome
  <2> HIDE DEF a
  <2> QED BY <1>1, <1>2, <1>4, <2>1, <2>2, CompletedOutcome, PatchEnds DEF Quiet
<1>5. CASE ApplyRunning \/ ApplyFails
  <2>1. PICK reason \in {"InProgress", "Error"}, again \in BOOLEAN :
             Finish(cfg, SetCondition(Checked, "apply", reason), again)
    BY <1>5 DEF ApplyRunning, ApplyFails
  <2>2. reason \in Reasons /\ reason # "Ready"
    BY DEF Reasons
  <2> QED BY <1>1, <1>2, <1>3, <2>1, <2>2, ApplyOutcome, PatchEnds DEF Quiet
<1>6. CASE WaitForApproval
  <2> DEFINE a == SetCondition(Checked, "apply", "ActionRequired")
             b == SetCondition(a, "ready", "InProgress")
             n == [b EXCEPT !.sync = "OutOfSync"]
  <2>1. {"ActionRequired", "InProgress"} \subseteq Reasons /\ "ActionRequired" # "Ready"
    BY DEF Reasons
  <2>2. a \in Object /\ Outcome(a)
    BY <1>2, <1>3, <2>1, ApplyOutcome
  <2>3. Finish(cfg, n, FALSE)
    BY <1>6 DEF WaitForApproval
  <2> HIDE DEF a
  <2>4. b \in Object /\ Outcome(b)
    BY <2>1, <2>2, OutcomeReady
  <2> HIDE DEF b
  <2>5. n \in Object /\ Outcome(n)
    BY <2>4 DEF Object, Outcome
  <2> HIDE DEF n
  <2> QED BY <1>1, <2>3, <2>5, PatchEnds DEF Quiet
<1> QED BY <1>4, <1>5, <1>6

LEMMA DestroyingLike ==
  ASSUME TypeInv, ApprovalInv
  PROVE  /\ Destroying \in Object /\ Outcome(Destroying)
         /\ \A r \in {"InProgress", "Error", "CallError", "Ready"} :
              /\ SetCondition(Destroying, "ready", r) \in Object
              /\ Outcome(SetCondition(Destroying, "ready", r))
<1>1. Prepared \in Object /\ Like(Prepared)
  BY PreparedLike
<1>2. Destroying \in Object /\ Like(Destroying)
  BY <1>1 DEF Destroying, Object, Like
<1>3. {"InProgress", "Error", "CallError", "Ready"} \subseteq Reasons
  BY DEF Reasons
<1> QED BY <1>2, <1>3, LikeOutcome, OutcomeReady

LEMMA DestroyEnds ==
  ASSUME TypeInv, ApprovalInv, DestroyRunning \/ DestroyFails
  PROVE  Quiet
<1> DEFINE error == SetCondition(Destroying, "ready", "Error")
           n == [error EXCEPT !.sync = "DeletionFailed"]
<1>1. UNCHANGED <<jobs, njobs, storedSecrets, environment>> /\ TypeOK
  BY DEF DestroyRunning, DestroyFails, NoJobCreated, TypeInv, secrets
<1>2. \/ Finish(cfg, SetCondition(Destroying, "ready", "InProgress"), TRUE)
      \/ Finish(cfg, n, FALSE)
  BY DEF DestroyRunning, DestroyFails
<1>3. error \in Object /\ Outcome(error)
  BY DestroyingLike
<1> HIDE DEF error
<1>4. n \in Object /\ Outcome(n)
  BY <1>3 DEF Object, Outcome
<1> HIDE DEF n
<1>5. CASE Finish(cfg, n, FALSE)
  BY <1>1, <1>4, <1>5, PatchEnds DEF Quiet
<1>6. CASE Finish(cfg, SetCondition(Destroying, "ready", "InProgress"), TRUE)
  BY <1>1, <1>6, DestroyingLike, PatchEnds DEF Quiet
<1> QED BY <1>2, <1>5, <1>6

(* The runs that create a job, and the one that cleans up. *)
PlanCreated ==
  /\ Ends /\ CreateJob("plan", cache, 0) /\ UNCHANGED <<storedSecrets, environment>>
  /\ ReachesPlan
  /\ faults' = faults /\ cfg'.exists /\ cfg.conds = cache.conds =>
       cfg'.conds["plan"].reason # "Ready"

ApplyCreated ==
  /\ Ends /\ CreateJob("apply", cache, shown.plan.job)
  /\ UNCHANGED <<storedSecrets, environment>>
  /\ ReachesApply /\ ApplyJobs(cache) = {}

DestroyCreated ==
  /\ Ends /\ CreateJob("destroy", cache, 0) /\ UNCHANGED <<storedSecrets, environment>>
  /\ cache.deleting

Cleaned ==
  /\ Ends /\ cache.deleting
  /\ planSecret'.job = 0 /\ njobs' = njobs
  /\ jobs' = [i \in JobIds |-> IF i \in Listed THEN [jobs[i] EXCEPT !.removed = TRUE]
                                               ELSE jobs[i]]
  /\ UNCHANGED <<verdict, environment>>

LEMMA CreatePlanEnds ==
  ASSUME TypeInv, ApprovalInv, CreatePlan
  PROVE  Quiet \/ PlanCreated
<1> DEFINE n == SetCondition(Prepared, "plan", "InProgress")
           f == SetCondition(Prepared, "plan", "CallError")
<1>1. /\ UNCHANGED <<storedSecrets, environment>> /\ ReachesPlan /\ TypeOK /\ cfg \in Object
      /\ \/ CreateJob("plan", cache, 0) /\ Finish(cfg, n, TRUE)
         \/ UNCHANGED <<jobs, njobs>> /\ FinishFailed(cfg, f)
  BY DEF CreatePlan, NoPlanJob, NoJobCreated, TypeInv, TypeOK, secrets
<1>2. {"InProgress", "CallError"} \subseteq Reasons \ {"Ready"}
  BY DEF Reasons
<1>3. /\ n \in Object /\ Outcome(n) /\ f \in Object /\ Outcome(f)
      /\ n.conds["plan"].reason # "Ready"
  BY <1>2, PlanOutcome
<1> HIDE DEF n, f
<1>4. CASE CreateJob("plan", cache, 0) /\ Finish(cfg, n, TRUE)
  <2>1. After(cfg, n) /\ Ends
    BY <1>1, <1>3, <1>4, FinishAfter, PatchEnds
  <2>2. faults' = faults /\ cfg'.exists /\ cfg.conds = cache.conds =>
          cfg'.conds["plan"].reason # "Ready"
    BY <1>3, <2>1 DEF After
  <2> QED BY <1>1, <1>4, <2>1, <2>2 DEF PlanCreated
<1>5. CASE UNCHANGED <<jobs, njobs>> /\ FinishFailed(cfg, f)
  BY <1>1, <1>3, <1>5, PatchEnds DEF Quiet
<1> QED BY <1>1, <1>4, <1>5

LEMMA CreateApplyEnds ==
  ASSUME TypeInv, ApprovalInv, CreateApply
  PROVE  Quiet \/ ApplyCreated
<1> DEFINE o == [Checked EXCEPT !.sync = "OutOfSync"]
           n == SetCondition(o, "apply", "InProgress")
           f == SetCondition(o, "apply", "CallError")
<1>1. /\ UNCHANGED <<storedSecrets, environment>> /\ ReachesApply /\ ApplyJobs(cache) = {}
      /\ TypeOK
      /\ \/ CreateJob("apply", cache, shown.plan.job) /\ Finish(cfg, n, TRUE)
         \/ UNCHANGED <<jobs, njobs>> /\ FinishFailed(cfg, f)
  BY DEF CreateApply, TypeInv, secrets
<1>2. PlanPassed /\ ~cache.deleting
  BY <1>1 DEF ReachesApply, PolicyPassed, PlanPassed, PlanComplete, ReachesPlan, Live
<1>3. Behind(o)
  BY <1>2, CheckedBehind, BehindSync
<1>4. {"InProgress", "CallError"} \subseteq Reasons \ {"Ready"}
  BY DEF Reasons
<1> HIDE DEF o
<1>5. n \in Object /\ Outcome(n) /\ f \in Object /\ Outcome(f)
  BY <1>2, <1>3, <1>4, ApplyOutcome
<1> HIDE DEF n, f
<1>6. CASE CreateJob("apply", cache, shown.plan.job) /\ Finish(cfg, n, TRUE)
  BY <1>1, <1>5, <1>6, PatchEnds DEF ApplyCreated
<1>7. CASE UNCHANGED <<jobs, njobs>> /\ FinishFailed(cfg, f)
  BY <1>1, <1>5, <1>7, PatchEnds DEF Quiet
<1> QED BY <1>1, <1>6, <1>7

LEMMA CreateDestroyEnds ==
  ASSUME TypeInv, ApprovalInv, CreateDestroy
  PROVE  Quiet \/ DestroyCreated
<1>1. UNCHANGED <<storedSecrets, environment>> /\ cache.deleting /\ TypeOK
  BY DEF CreateDestroy, ReachesDestroy, TypeInv, secrets
<1>2. PICK r \in {"InProgress", "CallError"} :
        /\ \/ Finish(cfg, SetCondition(Destroying, "ready", r), TRUE)
           \/ FinishFailed(cfg, SetCondition(Destroying, "ready", r))
        /\ CreateJob("destroy", cache, 0) \/ UNCHANGED <<jobs, njobs>>
  BY DEF CreateDestroy
<1>3. Ends
  BY <1>1, <1>2, DestroyingLike, PatchEnds
<1> QED BY <1>1, <1>2, <1>3 DEF Quiet, DestroyCreated

LEMMA CleanUpEnds ==
  ASSUME TypeInv, ApprovalInv, CleanUp
  PROVE  Cleaned
<1> DEFINE stored == IF cache = cfg THEN [cfg EXCEPT !.exists = FALSE] ELSE cfg
           n == [Released EXCEPT !.finalizer = FALSE]
           again == cache # cfg
<1>1. cfg \in Object /\ TypeOK
  BY DEF TypeInv, TypeOK
<1>2. stored \in Object /\ Stays(stored)
  <2> DEFINE o == [cfg EXCEPT !.exists = FALSE]
  <2>1. o \in Object /\ Stays(o)
    BY <1>1 DEF Object, Stays
  <2>2. Stays(cfg)
    BY DEF Stays
  <2> QED BY <1>1, <2>1, <2>2
<1>3. n \in Object /\ Outcome(n)
  <2>1. Released \in Object /\ Outcome(Released)
    BY DestroyingLike, PreparedLike, LikeOutcome DEF Released
  <2> QED BY <2>1 DEF Object, Outcome
<1>4. Finish(stored, n, again) /\ again \in BOOLEAN
  BY DEF CleanUp
<1> HIDE DEF stored, n, again
<1>5. Ends
  BY <1>1, <1>2, <1>3, <1>4, FinishAfter, EndsFacts
<1>6. cache.deleting /\ planSecret'.job = 0
  BY DEF CleanUp, ReachesDestroy
<1> QED BY <1>5, <1>6 DEF CleanUp, Cleaned

(* Nothing changes but the queue, the approvals and the prerequisites. *)
Untouched ==
  UNCHANGED <<cfg, cache, jobs, njobs, seen, storedSecrets, cloud, policyOn, faults>>

LEMMA RunKinds ==
  ASSUME TypeInv, ApprovalInv, Reconcile
  PROVE  \/ Untouched \/ Quiet \/ PlanCreated \/ ApplyCreated \/ DestroyCreated
         \/ Cleaned
<1>1. CASE ReconcileNotFound
  BY <1>1 DEF ReconcileNotFound, Untouched, secrets, environment
<1>2. CASE ~ReconcileNotFound
  BY <1>2, EarlyEnds, RequireApprovalEnds, PlanEnds, PlanSecretEnds, PolicyEnds,
     ApplyEnds, DestroyEnds, CreatePlanEnds, CreateApplyEnds, CreateDestroyEnds, CleanUpEnds
  DEF Reconcile
<1> QED BY <1>1, <1>2

-----------------------------------------------------------------------------
(***************************************************************************)
(* What the other steps do.                                                *)
(***************************************************************************)
(* The user, or the drift controller, writes the object. *)
Written ==
  /\ UNCHANGED <<cache, jobs, njobs, seen, storedSecrets, environment, faults>>
  /\ cfg'.conds = cfg.conds /\ cfg'.driftSeen = cfg.driftSeen /\ cfg.exists
  /\ cfg'.retry >= cfg.retry /\ cfg'.driftAt >= cfg.driftAt
  /\ \/ cfg'.gen = cfg.gen /\ cfg'.deleting = cfg.deleting
     \/ cfg'.gen = cfg.gen + 1 /\ ~cfg.deleting

LEMMA UserKind ==
  ASSUME TypeInv, User \/ AnnotateDrift
  PROVE  Written
<1>1. UNCHANGED <<cache, jobs, njobs, seen, storedSecrets, environment, faults>> /\ cfg.exists
  BY DEF User, AnnotateDrift, Edit, Approve, Retry, Delete, UserWrites, secrets
<1>2. cfg \in Object /\ cfg.gen \in Nat /\ cfg.retry \in Nat /\ cfg.driftAt \in Nat
  BY ObjectTypes DEF TypeInv, TypeOK
<1>3. CASE \E auto \in AutoSettings, drift \in DriftSettings : Edit(auto, drift)
  <2>1. PICK auto \in AutoSettings, drift \in DriftSettings : Edit(auto, drift)
    BY <1>3
  <2>2. /\ cfg' = [cfg EXCEPT !.gen = cfg.gen + 1, !.auto = auto, !.drift = drift]
        /\ ~cfg.deleting
    BY <2>1 DEF Edit, UserWrites
  <2> QED BY <1>1, <1>2, <2>2 DEF Written, Object
<1>4. CASE Approve
  BY <1>1, <1>2, <1>4 DEF Approve, UserWrites, Object, Written
<1>5. CASE \/ \E state \in {"fresh", "invalid"} : Retry(state)
           \/ AnnotateDrift
  <2>1. CASE \E state \in {"fresh", "invalid"} : Retry(state)
    <3>1. PICK state \in {"fresh", "invalid"} :
               cfg' = [cfg EXCEPT !.retry = cfg.retry + 1, !.retryState = state]
      BY <2>1 DEF Retry, UserWrites
    <3>2. /\ cfg'.retry = cfg.retry + 1 /\ cfg'.gen = cfg.gen
          /\ cfg'.driftAt = cfg.driftAt /\ cfg'.deleting = cfg.deleting
          /\ cfg'.conds = cfg.conds /\ cfg'.driftSeen = cfg.driftSeen
      BY <1>2, <3>1 DEF Object
    <3> QED BY <1>1, <1>2, <3>2 DEF Written
  <2>2. CASE AnnotateDrift
    <3>1. cfg' = [cfg EXCEPT !.driftAt = cfg.driftAt + 1]
      BY <2>2 DEF AnnotateDrift, UserWrites
    <3>2. /\ cfg'.retry = cfg.retry /\ cfg'.gen = cfg.gen
          /\ cfg'.driftAt = cfg.driftAt + 1 /\ cfg'.deleting = cfg.deleting
          /\ cfg'.conds = cfg.conds /\ cfg'.driftSeen = cfg.driftSeen
      BY <1>2, <3>1 DEF Object
    <3> QED BY <1>1, <1>2, <3>2 DEF Written
  <2> QED BY <1>5, <2>1, <2>2
<1>6. CASE \E orphan \in Deletes : Delete(orphan)
  <2>1. PICK orphan \in Deletes : Delete(orphan)
    BY <1>6
  <2>2. CASE cfg.finalizer
    <3>0. ~cfg.deleting
      BY <2>1 DEF Delete
    <3>1. cfg' = [cfg EXCEPT !.deleting = TRUE, !.gen = cfg.gen + 1, !.orphan = orphan]
      BY <2>1, <2>2 DEF Delete, UserWrites
    <3>2. /\ cfg'.retry = cfg.retry /\ cfg'.gen = cfg.gen + 1
          /\ cfg'.driftAt = cfg.driftAt
          /\ cfg'.conds = cfg.conds /\ cfg'.driftSeen = cfg.driftSeen
      BY <1>2, <3>1 DEF Object
    <3> QED BY <1>1, <1>2, <3>0, <3>2 DEF Written
  <2>3. CASE ~cfg.finalizer
    <3>1. cfg' = [cfg EXCEPT !.exists = FALSE]
      BY <2>1, <2>3 DEF Delete, UserWrites
    <3> QED BY <1>1, <1>2, <3>1 DEF Written, Object
  <2> QED BY <2>2, <2>3
<1> QED BY <1>3, <1>4, <1>5, <1>6 DEF User

(* A job step moves one job that runs, or removes one that has ended. *)
SameLabels(i) ==
  /\ jobs'[i].stage = jobs[i].stage /\ jobs'[i].gen = jobs[i].gen
  /\ jobs'[i].retry = jobs[i].retry /\ jobs'[i].drift = jobs[i].drift
  /\ jobs'[i].plan = jobs[i].plan /\ jobs'[i].scan = jobs[i].scan
  /\ jobs'[i].current = jobs[i].current /\ jobs'[i].beside = jobs[i].beside

Moves(i) ==
  /\ UNCHANGED <<cfg, cache, njobs, seen, policyOn, faults>>
  /\ \A k \in JobIds : SameLabels(k) /\ (k # i => jobs'[k] = jobs[k])

Uploads(i) ==
  /\ Moves(i) /\ Running(i) /\ jobs[i].stage = "plan" /\ jobs[i].step = 0
  /\ jobs'[i].step = 1 /\ jobs'[i].phase = "active"
  /\ jobs'[i].removed = jobs[i].removed
  /\ planSecret' = [job |-> i, changes |-> HasChanges(jobs[i].gen)]
  /\ UNCHANGED <<report, verdict, tfState, cloud>>

Reported(i) ==
  /\ Moves(i) /\ Running(i) /\ jobs[i].stage = "plan" /\ jobs[i].step = 1
  /\ jobs[i].scan
  /\ jobs'[i].step = 2 /\ jobs'[i].phase = "active"
  /\ jobs'[i].removed = jobs[i].removed
  /\ report' = i /\ \A k \in JobIds \ {i} : verdict'[k] = verdict[k]
  /\ UNCHANGED <<planSecret, tfState, cloud>>

PlanEnded(i) ==
  /\ Moves(i) /\ Running(i) /\ jobs[i].stage = "plan"
  /\ jobs'[i].step = jobs[i].step /\ jobs'[i].removed = jobs[i].removed
  /\ \/ jobs'[i].phase = "failed"
     \/ /\ jobs'[i].phase = "complete"
        /\ jobs[i].step = (IF jobs[i].scan THEN 2 ELSE 1)
  /\ UNCHANGED <<storedSecrets, cloud>>

CloudChanged(i) ==
  /\ Moves(i) /\ Running(i) /\ jobs[i].stage \in {"apply", "destroy"}
  /\ jobs'[i].step = jobs[i].step /\ jobs'[i].removed = jobs[i].removed
  /\ jobs'[i].phase \in {"complete", "failed"}
  /\ jobs[i].stage = "apply" =>
       \/ /\ jobs'[i].phase = "complete"
          /\ cloud' = [at |-> jobs[i].gen, resources |-> jobs[i].gen \notin ZeroGens]
       \/ /\ jobs'[i].phase = "failed"
          /\ \E some \in {cloud.resources, jobs[i].gen \notin ZeroGens} :
               cloud' = [at |-> 0, resources |-> some]
  /\ tfState' # "absent"
  /\ UNCHANGED <<planSecret, report, verdict>>

Expired(i) ==
  /\ Moves(i) /\ Expiry /\ jobs[i].phase \in {"complete", "failed"}
  /\ jobs'[i].step = jobs[i].step /\ jobs'[i].phase = jobs[i].phase
  /\ jobs'[i].removed
  /\ UNCHANGED <<storedSecrets, cloud>>

LEMMA JobKinds ==
  ASSUME TypeInv, NEW i \in JobIds, JobStep(i) \/ ExpireJob(i)
  PROVE  Uploads(i) \/ Reported(i) \/ PlanEnded(i) \/ CloudChanged(i) \/ Expired(i)
<1>1. jobs \in [JobIds -> Job] /\ jobs[i] \in Job
  BY DEF TypeInv, TypeOK
<1>2. ASSUME NEW s \in 0..2, jobs' = [jobs EXCEPT ![i].step = s]
      PROVE  /\ \A k \in JobIds : SameLabels(k) /\ (k # i => jobs'[k] = jobs[k])
             /\ jobs'[i].step = s /\ jobs'[i].phase = jobs[i].phase
             /\ jobs'[i].removed = jobs[i].removed
  BY <1>1, <1>2 DEF SameLabels, Job
<1>3. ASSUME NEW p \in {"complete", "failed"}, jobs' = [jobs EXCEPT ![i].phase = p]
      PROVE  /\ \A k \in JobIds : SameLabels(k) /\ (k # i => jobs'[k] = jobs[k])
             /\ jobs'[i].step = jobs[i].step /\ jobs'[i].phase = p
             /\ jobs'[i].removed = jobs[i].removed
  BY <1>1, <1>3 DEF SameLabels, Job
<1>4. CASE UploadPlan(i)
  BY <1>2, <1>4 DEF UploadPlan, JobWrites, Uploads, Moves, Running
<1>5. CASE \E v \in Reports : UploadReport(i, v)
  <2>1. PICK v \in Reports : UploadReport(i, v)
    BY <1>5
  <2>2. \A k \in JobIds \ {i} : verdict'[k] = verdict[k]
    BY <2>1 DEF UploadReport, TypeInv, TypeOK
  <2> QED BY <1>2, <2>1, <2>2 DEF UploadReport, JobWrites, Reported, Moves, Running
<1>6. CASE CompletePlan(i)
  BY <1>3, <1>6 DEF CompletePlan, JobWrites, PlanEnded, Moves, secrets
<1>7. CASE FailPlan(i)
  BY <1>3, <1>7 DEF FailPlan, JobWrites, PlanEnded, Moves, secrets
<1>8. ASSUME NEW phase \in {"complete", "failed"}, NEW at, NEW some \in BOOLEAN,
             FinishTerraform(i, phase, at, some)
      PROVE  /\ Moves(i) /\ jobs'[i].step = jobs[i].step
             /\ jobs'[i].removed = jobs[i].removed /\ jobs'[i].phase = phase
             /\ cloud' = [at |-> at, resources |-> some]
             /\ tfState' # "absent" /\ UNCHANGED <<planSecret, report, verdict>>
  <2>1. tfState' # "absent"
    BY <1>8 DEF FinishTerraform, Recorded
  <2> QED BY <1>3, <1>8, <2>1 DEF FinishTerraform, JobWrites, Moves
<1>9. cloud.resources \in BOOLEAN
  BY DEF TypeInv, TypeOK
<1>10. CASE CompleteApply(i)
  <2>1. FinishTerraform(i, "complete", jobs[i].gen, jobs[i].gen \notin ZeroGens)
    BY <1>10 DEF CompleteApply
  <2>2. (jobs[i].gen \notin ZeroGens) \in BOOLEAN
    OBVIOUS
  <2> QED BY <1>8, <1>10, <2>1, <2>2 DEF CompleteApply, CloudChanged
<1>11. CASE FailApply(i)
  <2>1. PICK some \in {cloud.resources, jobs[i].gen \notin ZeroGens} :
             FinishTerraform(i, "failed", 0, some)
    BY <1>11 DEF FailApply
  <2>2. some \in BOOLEAN
    BY <1>9
  <2> QED BY <1>8, <1>11, <2>1, <2>2 DEF FailApply, CloudChanged
<1>12. CASE CompleteDestroy(i) \/ FailDestroy(i)
  <2>1. PICK phase \in {"complete", "failed"}, some \in BOOLEAN :
             FinishTerraform(i, phase, 0, some)
    BY <1>9, <1>12 DEF CompleteDestroy, FailDestroy
  <2> QED BY <1>8, <1>12, <2>1 DEF CompleteDestroy, FailDestroy, CloudChanged
<1>13. CASE ExpireJob(i)
  <2>1. jobs' = [jobs EXCEPT ![i].removed = TRUE]
    BY <1>13 DEF ExpireJob
  <2>2. /\ \A k \in JobIds : SameLabels(k) /\ (k # i => jobs'[k] = jobs[k])
        /\ jobs'[i].step = jobs[i].step /\ jobs'[i].phase = jobs[i].phase
        /\ jobs'[i].removed
    BY <1>1, <2>1 DEF SameLabels, Job
  <2> QED BY <1>13, <2>2 DEF ExpireJob, JobWrites, Expired, Moves, secrets
<1> QED BY <1>4, <1>5, <1>6, <1>7, <1>10, <1>11, <1>12, <1>13 DEF JobStep

(* The informers, and the platform. *)
Synced ==
  /\ UNCHANGED <<cfg, jobs, njobs, storedSecrets, environment>>
  /\ cache' \in {cache, cfg}
  /\ \/ seen' = seen
     \/ seen' = [i \in JobIds |-> Shown(jobs[i])]
  /\ faults' \in {faults, faults + 1}

LEMMA SyncKind ==
  ASSUME SyncConfiguration \/ SyncJobs \/ SyncSecrets \/ Restart
  PROVE  Synced
BY DEF SyncConfiguration, SyncJobs, SyncSecrets, Restart, Synced, secrets

PlatformMoves ==
  /\ UNCHANGED <<cfg, cache, jobs, njobs, seen, storedSecrets, faults>>
  /\ cloud' = cloud \/ (MaxDrift > 0 /\ cloud' = [cloud EXCEPT !.at = 0])
  /\ policyOn => policyOn' \/ FALSE \in PolicyChanges

LEMMA PlatformKind ==
  ASSUME Platform
  PROVE  PlatformMoves
<1>1. UNCHANGED <<cfg, cache, jobs, njobs, seen, storedSecrets, faults>>
  BY DEF Platform, LosePrerequisite, MeetPrerequisite, MatchPolicy, WithdrawPolicy,
         CloudDrifts, PlatformWrites, secrets
<1>2. CASE LosePrerequisite \/ MeetPrerequisite
  <2>1. cloud' = cloud /\ policyOn' = policyOn
    BY <1>2 DEF LosePrerequisite, MeetPrerequisite
  <2> QED BY <1>1, <2>1 DEF PlatformMoves
<1>3. CASE MatchPolicy \/ WithdrawPolicy
  BY <1>1, <1>3 DEF MatchPolicy, WithdrawPolicy, PlatformMoves
<1>4. CASE CloudDrifts
  <2>1. /\ MaxDrift > 0 /\ cloud' = [cloud EXCEPT !.at = 0] /\ policyOn' = policyOn
    BY <1>4 DEF CloudDrifts
  <2> QED BY <1>1, <2>1 DEF PlatformMoves
<1> QED BY <1>2, <1>3, <1>4 DEF Platform

(* Every step is of one of these kinds. *)
LEMMA StepKinds ==
  ASSUME IInv, [Next]_vars
  PROVE  \/ Untouched \/ Quiet \/ PlanCreated \/ ApplyCreated \/ DestroyCreated
         \/ Cleaned \/ Written \/ Synced \/ PlatformMoves
         \/ \E i \in JobIds : \/ Uploads(i) \/ Reported(i) \/ PlanEnded(i)
                              \/ CloudChanged(i) \/ Expired(i)
<1>1. TypeInv /\ ApprovalInv
  BY DEF IInv
<1>2. CASE UNCHANGED vars
  BY <1>2 DEF vars, Untouched, environment, secrets
<1>3. CASE Next
  <2>1. CASE \E i \in JobIds : JobStep(i) \/ ExpireJob(i)
    BY <1>1, <2>1, JobKinds
  <2>2. CASE Reconcile
    BY <1>1, <2>2, RunKinds
  <2>3. CASE User \/ AnnotateDrift
    BY <1>1, <2>3, UserKind
  <2>4. CASE SyncConfiguration \/ SyncJobs \/ SyncSecrets \/ Restart
    BY <2>4, SyncKind
  <2>5. CASE Platform
    BY <2>5, PlatformKind
  <2> QED BY <1>3, <2>1, <2>2, <2>3, <2>4, <2>5 DEF Next
<1> QED BY <1>2, <1>3

-----------------------------------------------------------------------------
(***************************************************************************)
(* The latest of a set of jobs exists.                                     *)
(***************************************************************************)
LEMMA LeastNatural ==
  ASSUME NEW T \in SUBSET Nat, T # {}
  PROVE  \E x \in T : \A y \in T : x <= y
<1>1. PICK x \in T : \A y \in T : ~ (<<y, x>> \in OpToRel(<, Nat))
  BY WFMin, NatLessThanWellFounded, Zenon
<1>2. \A y \in T : ~(y < x)
  BY <1>1 DEF OpToRel
<1> QED BY <1>2

LEMMA LatestFacts ==
  ASSUME NEW S \in SUBSET JobIds, S # {}
  PROVE  Latest(S) \in S /\ \A k \in S : k <= Latest(S)
<1> DEFINE T == {MaxJobs - i : i \in S}
<1>0. MaxJobs \in Nat /\ \A i \in S : i \in 1..MaxJobs
  BY BoundsAssumption DEF JobIds, BoundsAssumption
<1>1. T \in SUBSET Nat /\ T # {}
  <2>1. \A i \in S : MaxJobs - i \in Nat
    BY <1>0
  <2>2. T \subseteq Nat
    BY <2>1
  <2>3. PICK i \in S : TRUE
    OBVIOUS
  <2>4. MaxJobs - i \in T
    OBVIOUS
  <2> QED BY <2>2, <2>4
<1>2. PICK x \in T : \A y \in T : x <= y
  <2> HIDE DEF T
  <2> QED BY <1>1, LeastNatural
<1>3. PICK i \in S : x = MaxJobs - i
  OBVIOUS
<1>4. \A k \in S : k <= i
  <2> TAKE k \in S
  <2>1. MaxJobs - k \in T
    OBVIOUS
  <2>2. MaxJobs - i <= MaxJobs - k
    BY <1>2, <1>3, <2>1
  <2> QED BY <1>0, <2>2
<1> HIDE DEF T
<1> QED BY <1>4 DEF Latest

-----------------------------------------------------------------------------
(***************************************************************************)
(* The cache never goes back, and shows the controller's own writes.       *)
(***************************************************************************)
CacheGrows ==
  /\ cache.gen <= cache'.gen /\ cache.retry <= cache'.retry
  /\ cache.driftAt <= cache'.driftAt
  /\ cache.deleting => cache'.deleting
  /\ cache'.exists => cache.exists

LEMMA CacheStep ==
  ASSUME IInv, IInv', ReadYourWrites, CacheCurrent, [Next]_vars
  PROVE  CacheCurrent' /\ CacheGrows
<1>1. /\ cfg \in Object /\ cache \in Object /\ cfg' \in Object /\ cache' \in Object
      /\ cache.gen <= cfg.gen
  <2>1. TypeOK /\ TypeOK' /\ cache.gen \in 1..cfg.gen
    BY DEF IInv, TypeInv, ApprovalInv, CacheLags
  <2>2. cfg.gen \in Nat
    BY <2>1, ObjectTypes DEF TypeOK
  <2> QED BY <2>1, <2>2 DEF TypeOK
<1>2. /\ cfg.gen \in Nat /\ cfg.retry \in Nat /\ cfg.driftAt \in Nat
      /\ cfg.conds["apply"].gen \in Nat
      /\ cache.gen \in Nat /\ cache.retry \in Nat /\ cache.driftAt \in Nat
      /\ cfg'.gen \in Nat /\ cfg'.retry \in Nat /\ cfg'.driftAt \in Nat
      /\ cfg'.conds["apply"].gen \in Nat
  BY <1>1, ObjectTypes
<1>3. CASE Ends
  <2>1. /\ cache' = cfg' /\ cfg'.gen = cfg.gen /\ cfg'.retry = cfg.retry
        /\ cfg'.driftAt = cfg.driftAt /\ ApplyTo(cfg'.conds["apply"])
        /\ cfg'.deleting = cfg.deleting /\ (cfg'.exists => cfg.exists)
    BY <1>3 DEF Ends
  <2>2. CacheGrows
    BY <1>1, <1>2, <2>1 DEF CacheGrows, CacheCurrent
  <2>3. \/ cfg'.conds["apply"] = cfg.conds["apply"]
        \/ ~cache.deleting /\ cfg'.conds["apply"].gen = cache.gen
    BY <2>1 DEF ApplyTo, CacheCurrent
  <2>4. /\ cfg'.conds["apply"].gen <= cache'.gen
        /\ cfg'.deleting => cfg'.conds["apply"].gen < cfg'.gen
    BY <1>1, <1>2, <2>1, <2>3 DEF CacheCurrent
  <2> QED BY <1>2, <2>1, <2>2, <2>4 DEF CacheCurrent
<1>4. CASE Written
  <2>1. /\ cache' = cache /\ cfg'.conds = cfg.conds /\ cfg.exists
        /\ cfg'.retry >= cfg.retry /\ cfg'.driftAt >= cfg.driftAt
        /\ \/ cfg'.gen = cfg.gen /\ cfg'.deleting = cfg.deleting
           \/ cfg'.gen = cfg.gen + 1 /\ ~cfg.deleting
    BY <1>4 DEF Written
  <2> QED BY <1>1, <1>2, <2>1 DEF CacheCurrent, CacheGrows
<1>5. CASE cfg' = cfg /\ cache' \in {cache, cfg}
  BY <1>1, <1>2, <1>5 DEF CacheCurrent, CacheGrows
<1>6. Ends \/ Written \/ (cfg' = cfg /\ cache' \in {cache, cfg})
  BY StepKinds DEF Untouched, Quiet, PlanCreated, ApplyCreated, DestroyCreated, Cleaned,
     Synced, PlatformMoves, Uploads, Reported, PlanEnded, CloudChanged, Expired, Moves
<1> QED BY <1>3, <1>4, <1>5, <1>6

-----------------------------------------------------------------------------
(***************************************************************************)
(* Jobs are created with the labels of the cached object, and keep them.   *)
(***************************************************************************)
Created(stage, plan) ==
  LET n == njobs + 1
  IN  /\ n \in JobIds /\ njobs' = n /\ jobs[n].stage = "none"
      /\ jobs'[n].stage = stage /\ jobs'[n].plan = plan
      /\ jobs'[n].gen = cache.gen /\ jobs'[n].scan = policyOn
      /\ jobs'[n].retry = (IF stage = "apply" THEN 0 ELSE cache.retry)
      /\ jobs'[n].drift = (IF stage = "plan" THEN cache.driftAt ELSE 0)
      /\ jobs'[n].current = (stage = "apply" => shown = Stored)
      /\ jobs'[n].beside = (stage = "destroy" /\ Applying)
      /\ jobs'[n].step = 0 /\ jobs'[n].phase = "active" /\ ~jobs'[n].removed
      /\ \A k \in JobIds : k # n => jobs'[k] = jobs[k]
      /\ Ends /\ UNCHANGED <<storedSecrets, environment>>

LEMMA CreatedFacts ==
  ASSUME IInv, NEW stage, NEW plan, CreateJob(stage, cache, plan),
         Ends, UNCHANGED <<storedSecrets, environment>>
  PROVE  Created(stage, plan)
<1> DEFINE n == njobs + 1
           j == [stage |-> stage, gen |-> cache.gen,
                 retry |-> IF stage = "apply" THEN 0 ELSE cache.retry,
                 drift |-> IF stage = "plan" THEN cache.driftAt ELSE 0,
                 plan |-> plan, scan |-> policyOn,
                 step |-> 0, phase |-> "active", removed |-> FALSE,
                 current |-> stage = "apply" => shown = Stored,
                 beside |-> stage = "destroy" /\ Applying]
<1>1. /\ n \in JobIds /\ njobs' = n /\ jobs \in [JobIds -> Job]
      /\ jobs' = [jobs EXCEPT ![n] = j] /\ n > njobs
  BY BoundsAssumption DEF IInv, TypeInv, TypeOK, CreateJob, JobIds, BoundsAssumption
<1>2. jobs[n].stage = "none"
  BY <1>1 DEF IInv, ApprovalInv, JobsKnown
<1>3. jobs'[n] = j /\ \A k \in JobIds : k # n => jobs'[k] = jobs[k]
  <2> HIDE DEF j
  <2> QED BY <1>1
<1>4. /\ jobs'[n].stage = stage /\ jobs'[n].plan = plan
      /\ jobs'[n].gen = cache.gen /\ jobs'[n].step = 0
      /\ jobs'[n].phase = "active"
      /\ jobs'[n].retry = (IF stage = "apply" THEN 0 ELSE cache.retry)
      /\ jobs'[n].drift = (IF stage = "plan" THEN cache.driftAt ELSE 0)
  BY <1>3
<1>5. /\ jobs'[n].scan = policyOn /\ ~jobs'[n].removed
      /\ jobs'[n].current = (stage = "apply" => shown = Stored)
      /\ jobs'[n].beside = (stage = "destroy" /\ Applying)
  BY <1>3
<1> QED BY <1>1, <1>2, <1>3, <1>4, <1>5 DEF Created

JobsKeep ==
  /\ njobs' = njobs
  /\ \A k \in JobIds :
       /\ SameLabels(k)
       /\ \/ jobs'[k].phase = jobs[k].phase
          \/ Running(k) /\ jobs'[k].phase \in {"complete", "failed"}
       /\ jobs[k].removed => jobs'[k].removed
       /\ jobs'[k].removed => \/ cache.deleting \/ jobs[k].removed
                              \/ Expiry /\ ~Running(k)

LEMMA CleanedKeeps ==
  ASSUME TypeInv, Cleaned
  PROVE  /\ JobsKeep
         /\ \A k \in JobIds : jobs'[k].step = jobs[k].step /\ jobs'[k].phase = jobs[k].phase
<1>1. ASSUME NEW k \in JobIds
      PROVE  /\ SameLabels(k) /\ jobs'[k].step = jobs[k].step
             /\ jobs'[k].phase = jobs[k].phase
             /\ jobs[k].removed => jobs'[k].removed
  <2>1. jobs'[k] = (IF k \in Listed THEN [jobs[k] EXCEPT !.removed = TRUE] ELSE jobs[k])
    BY DEF Cleaned
  <2>2. jobs[k] \in Job
    BY DEF TypeInv, TypeOK
  <2>3. CASE k \in Listed
    <3>1. jobs'[k] = [jobs[k] EXCEPT !.removed = TRUE]
      BY <2>1, <2>3
    <3> QED BY <2>2, <3>1 DEF SameLabels, Job
  <2>4. CASE k \notin Listed
    BY <2>1, <2>4 DEF SameLabels
  <2> QED BY <2>3, <2>4
<1> QED BY <1>1 DEF Cleaned, JobsKeep

LEMMA SameKeeps ==
  ASSUME jobs' = jobs, njobs' = njobs
  PROVE  JobsKeep
BY DEF JobsKeep, SameLabels

LEMMA MovesKeep ==
  ASSUME NEW i \in JobIds,
         Uploads(i) \/ Reported(i) \/ PlanEnded(i) \/ CloudChanged(i) \/ Expired(i)
  PROVE  JobsKeep /\ seen' = seen /\ cache' = cache /\ cfg' = cfg
<1>1. /\ Moves(i)
      /\ \/ jobs'[i].phase = jobs[i].phase
         \/ Running(i) /\ jobs'[i].phase \in {"complete", "failed"}
  BY DEF Uploads, Reported, PlanEnded, CloudChanged, Expired, Running
<1>2. /\ jobs'[i].removed => jobs[i].removed \/ (Expiry /\ ~Running(i))
      /\ jobs[i].removed => jobs'[i].removed
  BY DEF Uploads, Reported, PlanEnded, CloudChanged, Expired, Running
<1>3. /\ njobs' = njobs /\ seen' = seen /\ cache' = cache /\ cfg' = cfg
      /\ \A k \in JobIds : SameLabels(k) /\ (k # i => jobs'[k] = jobs[k])
  BY <1>1 DEF Moves
<1> QED BY <1>1, <1>2, <1>3 DEF JobsKeep

(* Every step creates a job or keeps the jobs, and shows the jobs to the   *)
(* controller or leaves what it sees.                                      *)
LEMMA JobsStep ==
  ASSUME IInv, ReadYourWrites, [Next]_vars
  PROVE  /\ \/ JobsKeep
            \/ PlanCreated /\ Created("plan", 0)
            \/ ApplyCreated /\ Created("apply", shown.plan.job)
            \/ DestroyCreated /\ Created("destroy", 0)
         /\ \/ seen' = [i \in JobIds |-> Shown(jobs'[i])]
            \/ seen' = seen /\ JobsKeep
<1>1. CASE Untouched \/ Quiet \/ Written \/ Synced \/ PlatformMoves
  <2>1. JobsKeep
    BY <1>1, SameKeeps DEF Untouched, Quiet, Written, Synced, PlatformMoves
  <2>2. seen' = seen \/ seen' = [i \in JobIds |-> Shown(jobs'[i])]
    BY <1>1 DEF Untouched, Quiet, Written, Synced, PlatformMoves, Ends
  <2> QED BY <2>1, <2>2
<1>2. CASE Cleaned
  BY <1>2, CleanedKeeps DEF Cleaned, Ends, IInv
<1>3. CASE PlanCreated \/ ApplyCreated \/ DestroyCreated
  BY <1>3, CreatedFacts DEF PlanCreated, ApplyCreated, DestroyCreated, Ends
<1>4. CASE \E i \in JobIds : \/ Uploads(i) \/ Reported(i) \/ PlanEnded(i)
                             \/ CloudChanged(i) \/ Expired(i)
  BY <1>4, MovesKeep
<1> QED BY <1>1, <1>2, <1>3, <1>4, StepKinds

-----------------------------------------------------------------------------
(***************************************************************************)
(* The steps preserve each part of PlansInv.                               *)
(***************************************************************************)
LEMMA OrderedStep ==
  ASSUME IInv, IInv', ReadYourWrites, CacheGrows, JobsOrdered, [Next]_vars
  PROVE  JobsOrdered'
<1>1. /\ njobs \in Nat /\ JobIds \subseteq Nat
      /\ cache.gen \in Nat /\ cache.retry \in Nat /\ cache.driftAt \in Nat
      /\ cache'.gen \in Nat /\ cache'.retry \in Nat /\ cache'.driftAt \in Nat
      /\ cache.gen >= 1
      /\ \A i \in JobIds : jobs[i].gen \in Nat /\ jobs[i].retry \in Nat
                           /\ jobs[i].drift \in Nat
  <2>1. TypeOK /\ TypeOK' /\ cache.gen \in 1..cfg.gen
    BY DEF IInv, TypeInv, ApprovalInv, CacheLags
  <2>2. cache \in Object /\ cache' \in Object /\ cfg \in Object
    BY <2>1 DEF TypeOK
  <2> QED BY <2>1, <2>2, JobTypes, ObjectTypes
<1>2. CASE JobsKeep
  <2>1. ASSUME NEW i \in JobIds
        PROVE  /\ i > njobs' => /\ jobs'[i].stage = "none" /\ jobs'[i].phase = "none"
                                /\ ~jobs'[i].scan
               /\ i <= njobs' => /\ jobs'[i].stage # "none"
                                 /\ jobs'[i].phase \in {"active", "complete", "failed"}
    BY <1>2 DEF JobsKeep, SameLabels, JobsOrdered, Running
  <2>2. ASSUME NEW i \in JobIds, i <= njobs'
        PROVE  /\ jobs'[i].gen \in 1..cache'.gen /\ jobs'[i].retry <= cache'.retry
               /\ jobs'[i].drift <= cache'.driftAt
    <3>1. /\ jobs'[i].gen = jobs[i].gen /\ jobs'[i].retry = jobs[i].retry
          /\ jobs'[i].drift = jobs[i].drift
      BY <1>2 DEF JobsKeep, SameLabels
    <3>2. /\ jobs[i].gen \in 1..cache.gen /\ jobs[i].retry <= cache.retry
          /\ jobs[i].drift <= cache.driftAt
      BY <1>2, <2>2 DEF JobsKeep, JobsOrdered
    <3> QED BY <1>1, <3>1, <3>2 DEF CacheGrows
  <2>3. \A i, k \in JobIds : i < k /\ k <= njobs' => Before(i, k)'
    BY <1>2 DEF JobsKeep, SameLabels, JobsOrdered, Before
  <2> QED BY <2>1, <2>2, <2>3 DEF JobsOrdered
<1>3. ASSUME NEW stage \in {"plan", "apply", "destroy"}, NEW p, Created(stage, p)
      PROVE  JobsOrdered'
  <2> DEFINE n == njobs + 1
  <2>1. /\ n \in JobIds /\ njobs' = n
        /\ jobs'[n].stage = stage /\ stage # "none" /\ jobs'[n].phase = "active"
        /\ jobs'[n].gen = cache.gen
        /\ jobs'[n].retry \in {0, cache.retry} /\ jobs'[n].drift \in {0, cache.driftAt}
        /\ stage = "plan" =>
             jobs'[n].retry = cache.retry /\ jobs'[n].drift = cache.driftAt
        /\ \A k \in JobIds : k # n => jobs'[k] = jobs[k]
    BY <1>3 DEF Created
  <2>2. \A i \in JobIds : (i > njobs' => i > njobs /\ i # n) /\
                          (i <= njobs' => i = n \/ (i # n /\ i <= njobs))
    BY <1>1, <2>1
  <2>3. ASSUME NEW i \in JobIds
        PROVE  /\ i > njobs' => /\ jobs'[i].stage = "none" /\ jobs'[i].phase = "none"
                                /\ ~jobs'[i].scan
               /\ i <= njobs' => /\ jobs'[i].stage # "none"
                                 /\ jobs'[i].phase \in {"active", "complete", "failed"}
    BY <2>1, <2>2 DEF JobsOrdered
  <2>4. ASSUME NEW i \in JobIds, i <= njobs'
        PROVE  /\ jobs'[i].gen \in 1..cache.gen /\ jobs'[i].retry <= cache.retry
               /\ jobs'[i].drift <= cache.driftAt
    <3>1. CASE i = n
      BY <1>1, <2>1, <3>1
    <3>2. CASE i # n /\ i <= njobs
      BY <2>1, <3>2 DEF JobsOrdered
    <3> QED BY <2>2, <2>4, <3>1, <3>2
  <2>5. ASSUME NEW i \in JobIds, i <= njobs'
        PROVE  /\ jobs'[i].gen \in 1..cache'.gen /\ jobs'[i].retry <= cache'.retry
               /\ jobs'[i].drift <= cache'.driftAt
    <3>1. jobs'[i].retry \in Nat /\ jobs'[i].drift \in Nat
      BY <1>1, <2>1
    <3> QED BY <1>1, <2>4, <2>5, <3>1 DEF CacheGrows
  <2>6. ASSUME NEW i \in JobIds, NEW k \in JobIds, i < k, k <= njobs'
        PROVE  Before(i, k)'
    <3>1. CASE k = n
      <4>1. i <= njobs'
        BY <1>1, <2>1, <2>6, <3>1
      <4>2. jobs'[i].gen <= cache.gen
        BY <1>1, <2>4, <4>1
      <4> QED BY <2>1, <2>4, <3>1, <4>1, <4>2 DEF Before
    <3>2. CASE k # n /\ k <= njobs
      <4>1. i # n
        BY <1>1, <2>1, <2>6, <3>2
      <4> QED BY <2>1, <2>6, <3>2, <4>1 DEF JobsOrdered, Before
    <3> QED BY <2>2, <2>6, <3>1, <3>2
  <2> QED BY <2>3, <2>5, <2>6 DEF JobsOrdered
<1> QED BY <1>2, <1>3, JobsStep

(* ensureNoActivity, with a cache that shows every running job. *)
LEMMA IdleAtStart ==
  ASSUME JobsSeen, ReachesPlan, cache.gen # 1
  PROVE  Idle
<1>1. ~Activity /\ ~cache.deleting
  BY DEF ReachesPlan, Live
<1> QED BY <1>1 DEF Activity, Listed, JobsSeen, Idle

LEMMA ApplyReaches ==
  ASSUME ReachesApply
  PROVE  PlanPassed /\ ReachesPlan /\ ~cache.deleting
BY DEF ReachesApply, PolicyPassed, PlanPassed, PlanComplete, ReachesPlan, Live

LEMMA ApartStep ==
  ASSUME IInv, ReadYourWrites, JobsSeen, JobsOrdered, JobsApart, [Next]_vars
  PROVE  JobsApart'
<1>0. \A k \in JobIds : k > njobs => jobs[k].stage = "none"
  BY DEF JobsOrdered
<1>1. njobs \in Nat /\ JobIds \subseteq Nat /\ cache.gen \in Nat
  BY JobTypes, ObjectTypes DEF IInv, TypeInv, TypeOK
<1>2. CASE JobsKeep
  BY <1>2 DEF JobsKeep, SameLabels, JobsApart, Running
<1>3. ASSUME NEW stage \in {"plan", "apply", "destroy"}, NEW p, Created(stage, p),
             stage = "destroy" \/ ReachesPlan
      PROVE  JobsApart'
  <2> DEFINE n == njobs + 1
  <2>0. ASSUME NEW k \in JobIds, k > n
        PROVE  jobs[k].stage = "none"
    <3>1. k > njobs
      BY <1>1, <2>0
    <3> QED BY <1>0, <3>1
  <2>1. /\ n \in JobIds /\ njobs' = n
        /\ jobs'[n].stage = stage /\ jobs'[n].gen = cache.gen
        /\ \A k \in JobIds : k # n => jobs'[k] = jobs[k]
    BY <1>3 DEF Created
  <2> SUFFICES ASSUME NEW i \in JobIds, NEW k \in JobIds, i < k,
                      jobs'[k].stage \in {"plan", "apply"}, jobs'[k].gen > 1
               PROVE  ~Running(i)'
    BY DEF JobsApart
  <2>2. CASE k = n
    <3>1. cache.gen # 1 /\ stage # "destroy"
      BY <1>1, <2>1, <2>2
    <3>2. Idle
      BY <1>3, <3>1, IdleAtStart
    <3>3. i # n
      BY <1>1, <2>1, <2>2
    <3> QED BY <2>1, <3>2, <3>3 DEF Idle, Running
  <2>3. CASE k # n
    <3>1. jobs'[k] = jobs[k] /\ ~(k > n)
      BY <2>0, <2>1, <2>3
    <3>2. i # n
      BY <1>1, <2>1, <2>3, <3>1
    <3> QED BY <2>1, <3>1, <3>2 DEF JobsApart, Running
  <2> QED BY <2>2, <2>3
<1>4. PlanCreated => ReachesPlan
  BY DEF PlanCreated
<1>5. ApplyCreated => ReachesPlan
  BY ApplyReaches DEF ApplyCreated
<1> QED BY <1>2, <1>3, <1>4, <1>5, JobsStep

LEMMA SeenStep ==
  ASSUME IInv, ReadYourWrites, CacheGrows, JobsSeen, JobsOrdered, JobsOrdered',
         [Next]_vars
  PROVE  JobsSeen'
<1> SUFFICES ASSUME ~cache'.deleting
             PROVE  \A i \in JobIds :
                      /\ jobs'[i].stage # "destroy"
                      /\ Running(i)' => seen'[i] = "active"
                      /\ seen'[i] \in {"complete", "failed"} => jobs'[i].phase = seen'[i]
                      /\ jobs'[i].removed => Expiry /\ ~Running(i)'
                      /\ i <= njobs' /\ ~jobs'[i].removed => i \in Listed'
  BY DEF JobsSeen
<1>1. ~cache.deleting
  BY DEF CacheGrows
<1>2. ~DestroyCreated
  BY <1>1 DEF DestroyCreated
<1>3. \A i \in JobIds : /\ jobs'[i].stage # "destroy"
                        /\ jobs'[i].removed => Expiry /\ ~Running(i)'
  <2>1. CASE JobsKeep
    BY <1>1, <2>1 DEF JobsSeen, JobsKeep, SameLabels, Running
  <2>2. CASE Created("plan", 0) \/ Created("apply", shown.plan.job)
    BY <1>1, <2>2 DEF JobsSeen, Created, Running
  <2> QED BY <1>2, <2>1, <2>2, JobsStep
<1>4. CASE seen' = [i \in JobIds |-> Shown(jobs'[i])]
  <2> TAKE i \in JobIds
  <2>1. seen'[i] = Shown(jobs'[i])
    BY <1>4
  <2>2. i <= njobs' => jobs'[i].phase \in {"active", "complete", "failed"}
    BY DEF JobsOrdered
  <2> QED BY <1>3, <2>1, <2>2 DEF Shown, Listed, Running
<1>5. CASE seen' = seen /\ JobsKeep
  <2> TAKE i \in JobIds
  <2>1. /\ Running(i) => seen[i] = "active"
        /\ seen[i] \in {"complete", "failed"} => jobs[i].phase = seen[i]
        /\ i <= njobs /\ ~jobs[i].removed => i \in Listed
    BY <1>1 DEF JobsSeen
  <2>2. /\ njobs' = njobs /\ (jobs[i].removed => jobs'[i].removed)
        /\ \/ jobs'[i].phase = jobs[i].phase
           \/ Running(i) /\ jobs'[i].phase \in {"complete", "failed"}
    BY <1>5 DEF JobsKeep
  <2> QED BY <1>3, <1>5, <2>1, <2>2 DEF Listed, Running
<1> QED BY <1>4, <1>5, JobsStep

-----------------------------------------------------------------------------
(* The step a plan job has come to. *)
LEMMA UploadedStep ==
  ASSUME IInv, ReadYourWrites, CacheGrows, JobsOrdered, JobsApart, PlansUploaded,
         [Next]_vars
  PROVE  PlansUploaded'
<1>1. /\ JobIds \subseteq Nat \ {0} /\ planSecret.job \in 0..MaxJobs
      /\ \A p \in 0..MaxJobs : p # 0 => p \in JobIds
      /\ \A i \in JobIds : jobs[i].gen \in Nat
  BY JobTypes DEF IInv, TypeInv
(* The jobs keep their steps and the secret is not written. *)
<1>2. ASSUME planSecret' = planSecret,
             \A k \in JobIds : jobs'[k].stage = "plan" =>
               \/ /\ jobs[k].stage = "plan" /\ jobs'[k].gen = jobs[k].gen
                  /\ jobs[k].step # 0 \/ jobs'[k].step = 0
                  /\ jobs'[k].phase = "complete" =>
                       jobs'[k].step = IF jobs'[k].scan THEN 2 ELSE 1
               \/ jobs'[k].step = 0 /\ jobs'[k].phase # "complete",
             \A k \in JobIds : jobs[k].stage = "plan" => jobs'[k].stage = "plan"
      PROVE  PlansUploaded'
  <2>1. planSecret'.job # 0 => jobs'[planSecret'.job].stage = "plan"
    BY <1>1, <1>2 DEF PlansUploaded
  <2>2. ASSUME NEW i \in JobIds, jobs'[i].stage = "plan", jobs'[i].phase = "complete"
        PROVE  jobs'[i].step = IF jobs'[i].scan THEN 2 ELSE 1
    BY <1>2, <2>2
  <2>3. ASSUME ~cache'.deleting, NEW i \in JobIds, jobs'[i].stage = "plan",
               jobs'[i].step # 0
        PROVE  planSecret'.job # 0 /\ (jobs'[i].gen > 1 => i <= planSecret'.job)
    BY <1>2, <2>3 DEF CacheGrows, PlansUploaded
  <2> QED BY <2>1, <2>2, <2>3 DEF PlansUploaded
<1>3. CASE Untouched \/ Quiet \/ Written \/ Synced \/ PlatformMoves
  <2>1. planSecret' = planSecret /\ jobs' = jobs
    BY <1>3 DEF Untouched, Quiet, Written, Synced, PlatformMoves, storedSecrets
  <2> QED BY <1>2, <2>1 DEF PlansUploaded
<1>4. CASE Cleaned
  <2>1. /\ \A k \in JobIds : /\ SameLabels(k) /\ jobs'[k].step = jobs[k].step
                             /\ jobs'[k].phase = jobs[k].phase
        /\ planSecret'.job = 0 /\ cache'.deleting
    BY <1>4, CleanedKeeps DEF IInv, JobsKeep, Cleaned, CacheGrows
  <2> QED BY <2>1 DEF PlansUploaded, SameLabels
<1>5. ASSUME NEW stage, NEW p, Created(stage, p)
      PROVE  PlansUploaded'
  <2>1. planSecret' = planSecret
    BY <1>5 DEF Created, storedSecrets
  <2> QED BY <1>2, <1>5, <2>1 DEF Created, PlansUploaded
<1>6. ASSUME NEW i \in JobIds,
             Reported(i) \/ PlanEnded(i) \/ CloudChanged(i) \/ Expired(i)
      PROVE  PlansUploaded'
  <2>1. Moves(i) /\ planSecret' = planSecret
    BY <1>6 DEF Reported, PlanEnded, CloudChanged, Expired, storedSecrets
  <2>2. /\ jobs[i].stage = "plan" => jobs[i].step # 0 \/ jobs'[i].step = 0
        /\ jobs[i].stage = "plan" /\ jobs'[i].phase = "complete" =>
             jobs'[i].step = IF jobs[i].scan THEN 2 ELSE 1
    BY <1>6 DEF Reported, PlanEnded, CloudChanged, Expired, PlansUploaded
  <2> QED BY <1>2, <2>1, <2>2 DEF Moves, SameLabels, PlansUploaded
<1>7. ASSUME NEW i \in JobIds, Uploads(i)
      PROVE  PlansUploaded'
  <2>1. /\ planSecret'.job = i /\ jobs'[i].phase = "active" /\ jobs'[i].stage = "plan"
        /\ Running(i)
        /\ \A k \in JobIds : SameLabels(k) /\ (k # i => jobs'[k] = jobs[k])
    BY <1>7 DEF Uploads, Moves, SameLabels
  <2>2. i # 0
    BY <1>1
  <2>3. ASSUME NEW k \in JobIds, jobs'[k].stage = "plan", jobs'[k].phase = "complete"
        PROVE  jobs'[k].step = IF jobs'[k].scan THEN 2 ELSE 1
    BY <2>1, <2>3 DEF PlansUploaded
  <2>4. ASSUME NEW k \in JobIds, jobs'[k].stage = "plan", jobs'[k].gen > 1
        PROVE  k <= i
    <3>1. jobs[k].stage = "plan" /\ jobs[k].gen > 1
      BY <2>1, <2>4 DEF SameLabels
    <3> QED BY <1>1, <2>1, <3>1 DEF JobsApart
  <2> QED BY <2>1, <2>2, <2>3, <2>4 DEF PlansUploaded
<1> QED BY <1>3, <1>4, <1>5, <1>6, <1>7, StepKinds, CreatedFacts
        DEF PlanCreated, ApplyCreated, DestroyCreated

-----------------------------------------------------------------------------
(* A run that gets past the plan stage has a complete plan job of the      *)
(* generation it sees.                                                     *)
LEMMA PlanDone ==
  ASSUME CacheCurrent, JobsSeen, PlanReady, PlanComplete
  PROVE  \E i \in JobIds : /\ jobs[i].stage = "plan" /\ jobs[i].phase = "complete"
                           /\ jobs[i].gen = cache.gen
<1>1. CASE PlanSkipped(cache)
  <2>1. cache.conds["plan"].reason = "Ready" /\ cache.conds["plan"].gen = cache.gen
    BY <1>1 DEF PlanSkipped, IsComplete
  <2> QED BY <2>1 DEF CacheCurrent, PlanReady
<1>2. CASE PlanJobIs("complete")
  <2> DEFINE m == Latest(PlanJobs(cache))
  <2>1. PlanJobs(cache) \in SUBSET JobIds /\ PlanJobs(cache) # {}
    BY <1>2 DEF PlanJobs, Listed, PlanJobIs
  <2>2. m \in PlanJobs(cache)
    BY <2>1, LatestFacts
  <2>3. seen[m] = "complete" /\ ~cache.deleting
    BY <1>2 DEF PlanJobIs, PlanComplete, ReachesPlan, Live
  <2> HIDE DEF m
  <2>4. m \in JobIds /\ jobs[m].stage = "plan" /\ jobs[m].gen = cache.gen
    BY <2>2 DEF PlanJobs, Listed
  <2>5. jobs[m].phase = "complete"
    BY <2>3, <2>4 DEF JobsSeen
  <2> QED BY <2>4, <2>5
<1> QED BY <1>1, <1>2 DEF PlanComplete

LEMMA ReadyStep ==
  ASSUME IInv, ReadYourWrites, CacheCurrent, JobsSeen, PlanReady, [Next]_vars
  PROVE  PlanReady'
<1>1. ASSUME NEW i \in JobIds, jobs[i].stage = "plan", jobs[i].phase = "complete"
      PROVE  /\ jobs'[i].stage = "plan" /\ jobs'[i].phase = "complete"
             /\ jobs'[i].gen = jobs[i].gen
  <2>1. CASE JobsKeep
    BY <1>1, <2>1 DEF JobsKeep, SameLabels, Running
  <2>2. ASSUME NEW stage, NEW p, Created(stage, p)
        PROVE  jobs'[i] = jobs[i]
    BY <1>1, <2>2 DEF Created
  <2> QED BY <1>1, <2>1, <2>2, JobsStep
<1>2. CASE cfg'.conds = cfg.conds
  BY <1>1, <1>2 DEF PlanReady
<1>3. CASE Ends
  <2> SUFFICES ASSUME cfg'.conds["plan"].reason = "Ready"
               PROVE  \E i \in JobIds : /\ jobs'[i].stage = "plan"
                                        /\ jobs'[i].phase = "complete"
                                        /\ jobs'[i].gen = cfg'.conds["plan"].gen
    BY DEF PlanReady
  <2>1. \/ cfg'.conds["plan"] = cfg.conds["plan"]
        \/ cfg'.conds["plan"] = [reason |-> "Ready", gen |-> cache.gen] /\ PlanComplete
    BY <1>3 DEF Ends, PlanTo, CacheCurrent
  <2>2. CASE cfg'.conds["plan"] = cfg.conds["plan"]
    BY <1>1, <2>2 DEF PlanReady
  <2>3. CASE cfg'.conds["plan"] = [reason |-> "Ready", gen |-> cache.gen] /\ PlanComplete
    <3>1. cfg'.conds["plan"].gen = cache.gen
      BY <2>3
    <3> QED BY <1>1, <2>3, <3>1, PlanDone
  <2> QED BY <2>1, <2>2, <2>3
<1>4. Ends \/ cfg'.conds = cfg.conds
  BY StepKinds DEF Untouched, Quiet, PlanCreated, ApplyCreated, DestroyCreated, Cleaned,
     Written, Synced, PlatformMoves, Uploads, Reported, PlanEnded, CloudChanged,
     Expired, Moves
<1> QED BY <1>2, <1>3, <1>4

(* Past the plan stage the secret holds a plan of the generation that is   *)
(* seen, whatever plan is shown.                                           *)
LEMMA SecretCurrent ==
  ASSUME IInv, PlansInv, PlanComplete
  PROVE  /\ planSecret.job \in JobIds /\ jobs[planSecret.job].stage = "plan"
         /\ jobs[planSecret.job].gen = cache.gen
<1>1. /\ JobIds \subseteq Nat \ {0} /\ planSecret.job \in 0..MaxJobs
      /\ \A p \in 0..MaxJobs : p # 0 => p \in JobIds
      /\ njobs \in Nat /\ cache.gen \in Nat
      /\ \A i \in JobIds : jobs[i].gen \in Nat
  BY JobTypes, ObjectTypes DEF IInv, TypeInv, TypeOK
<1>2. PICK k \in JobIds : /\ jobs[k].stage = "plan" /\ jobs[k].phase = "complete"
                          /\ jobs[k].gen = cache.gen
  BY PlanDone DEF PlansInv
<1>3. jobs[k].step # 0 /\ ~cache.deleting
  BY <1>2 DEF PlansInv, PlansUploaded, PlanComplete, ReachesPlan, Live
<1>4. /\ planSecret.job \in JobIds /\ jobs[planSecret.job].stage = "plan"
      /\ jobs[k].gen > 1 => k <= planSecret.job
  BY <1>1, <1>2, <1>3 DEF PlansInv, PlansUploaded
<1> DEFINE p == planSecret.job
<1>5. p <= njobs /\ jobs[p].gen \in 1..cache.gen
  BY <1>1, <1>4 DEF PlansInv, JobsOrdered
<1>6. jobs[k].gen > 1 => k = p \/ jobs[k].gen <= jobs[p].gen
  BY <1>1, <1>2, <1>4, <1>5 DEF PlansInv, JobsOrdered, Before
<1> HIDE DEF p
<1>7. jobs[p].gen = cache.gen
  BY <1>1, <1>2, <1>5, <1>6
<1> QED BY <1>4, <1>7 DEF p

(* An apply that exists, or the one that is created. *)
LEMMA AppliesStep ==
  ASSUME IInv, ReadYourWrites, PlansInv, [Next]_vars
  PROVE  /\ \A i \in JobIds : jobs[i].stage \in {"plan", "apply"} => SameLabels(i)
         /\ \A i \in JobIds :
              jobs'[i].stage = "apply" =>
                \/ jobs[i].stage = "apply"
                \/ /\ ApplyCreated /\ Created("apply", shown.plan.job) /\ i = njobs + 1
                   /\ PlanComplete
                   /\ jobs'[i].plan = shown.plan.job /\ jobs'[i].gen = cache.gen
                   /\ jobs'[i].current => shown = Stored
<1>1. CASE JobsKeep
  BY <1>1 DEF JobsKeep, SameLabels
<1>2. CASE Created("plan", 0) \/ Created("destroy", 0)
  BY <1>2 DEF Created, SameLabels
<1>3. CASE ApplyCreated /\ Created("apply", shown.plan.job)
  BY <1>3, ApplyReaches DEF ApplyCreated, Created, SameLabels, PlanPassed
<1> QED BY <1>1, <1>2, <1>3, JobsStep

LEMMA MatchStep ==
  ASSUME IInv, ReadYourWrites, PlansInv, [Next]_vars
  PROVE  ApplyMatchesPlan'
<1> SUFFICES ASSUME NEW i \in JobIds, jobs'[i].stage = "apply", jobs'[i].current
             PROVE  /\ jobs'[i].plan # 0 /\ jobs'[jobs'[i].plan].stage = "plan"
                    /\ jobs'[jobs'[i].plan].gen = jobs'[i].gen
  BY DEF ApplyMatchesPlan
<1>1. /\ \A p \in 0..MaxJobs : p # 0 => p \in JobIds
      /\ 0 \notin JobIds /\ \A k \in JobIds : jobs[k].plan \in 0..MaxJobs
  BY JobTypes DEF IInv, TypeInv
<1>2. \A k \in JobIds : jobs[k].stage \in {"plan", "apply"} => SameLabels(k)
  BY AppliesStep
<1>3. CASE jobs[i].stage = "apply"
  <2>1. /\ jobs[i].plan # 0 /\ jobs[jobs[i].plan].stage = "plan"
        /\ jobs[jobs[i].plan].gen = jobs[i].gen
    BY <1>2, <1>3 DEF PlansInv, ApplyMatchesPlan, SameLabels
  <2>2. jobs[i].plan \in JobIds
    BY <1>1, <2>1
  <2> QED BY <1>2, <1>3, <2>1, <2>2 DEF SameLabels
<1>4. CASE /\ PlanComplete /\ jobs'[i].plan = shown.plan.job
           /\ jobs'[i].gen = cache.gen /\ shown = Stored
  <2>1. /\ planSecret.job \in JobIds /\ jobs[planSecret.job].stage = "plan"
        /\ jobs[planSecret.job].gen = cache.gen
    BY <1>4, SecretCurrent
  <2>2. shown.plan.job = planSecret.job
    BY <1>4 DEF Stored
  <2> QED BY <1>1, <1>2, <1>4, <2>1, <2>2 DEF SameLabels
<1> QED BY <1>3, <1>4, AppliesStep

LEMMA NextPlansInv ==
  ASSUME IInv, IInv', ReadYourWrites, PlansInv, [Next]_vars
  PROVE  PlansInv' /\ CacheGrows
<1>1. CacheCurrent' /\ CacheGrows
  BY CacheStep DEF PlansInv
<1>2. JobsOrdered'
  BY <1>1, OrderedStep DEF PlansInv
<1>3. JobsApart'
  BY ApartStep DEF PlansInv
<1>4. JobsSeen'
  BY <1>1, <1>2, SeenStep DEF PlansInv
<1>5. PlansUploaded'
  BY <1>1, UploadedStep DEF PlansInv
<1>6. PlanReady'
  BY ReadyStep DEF PlansInv
<1>7. ApplyMatchesPlan'
  BY MatchStep
<1> QED BY <1>1, <1>2, <1>3, <1>4, <1>5, <1>6, <1>7 DEF PlansInv

LEMMA InitPlans ==
  ASSUME Init
  PROVE  /\ cfg.gen = 1 /\ ~cfg.deleting /\ cfg.retry = 0 /\ cfg.driftAt = 0
         /\ cfg.driftSeen = 0 /\ cfg.conds["apply"] = NoCondition
         /\ cfg.conds["plan"] = NoCondition
         /\ cache = cfg /\ njobs = 0 /\ \A i \in JobIds : jobs[i] = NoJob
<1>1. PICK auto \in AutoSettings, drift \in DriftSettings, apply \in Annotation :
       cfg = [exists |-> TRUE, gen |-> 1, auto |-> auto, drift |-> drift,
              apply |-> apply, retry |-> 0, retryState |-> "used",
              driftAt |-> 0, orphan |-> FALSE, deleting |-> FALSE,
              finalizer |-> FALSE,
              conds |-> [t \in ConditionTypes |-> NoCondition],
              lastReconcile |-> 0, resources |-> "unset", driftSeen |-> 0,
              sync |-> "OutOfSync"]
  BY DEF Init
<1>2. cfg.conds["apply"] = NoCondition /\ cfg.conds["plan"] = NoCondition
  BY <1>1 DEF ConditionTypes
<1>3. \A i \in JobIds : jobs[i] = NoJob
  BY DEF Init
<1> QED BY <1>1, <1>2, <1>3 DEF Init

LEMMA InitPlansInv ==
  ASSUME Init
  PROVE  PlansInv /\ AppliedOnce
<1>1. /\ \A i \in JobIds : /\ jobs[i].stage = "none" /\ jobs[i].phase = "none"
                           /\ ~jobs[i].scan /\ ~jobs[i].removed
      /\ cfg.conds["apply"].gen = 0 /\ cfg.conds["plan"].reason = "NotDetermined"
      /\ JobIds \subseteq Nat \ {0}
  BY InitPlans, BoundsAssumption DEF NoJob, NoCondition, JobIds, BoundsAssumption
<1>2. CacheCurrent /\ PlanReady
  BY <1>1, InitPlans DEF CacheCurrent, PlanReady
<1>3. JobsOrdered
  BY <1>1, InitPlans DEF JobsOrdered
<1>4. JobsApart /\ ApplyMatchesPlan /\ AppliedOnce
  BY <1>1 DEF JobsApart, ApplyMatchesPlan, AppliedOnce, Running
<1>5. PlansUploaded
  BY <1>1 DEF PlansUploaded, Init
<1>6. JobsSeen
  BY <1>1, InitPlans DEF JobsSeen, Running, Init
<1> QED BY <1>2, <1>3, <1>4, <1>5, <1>6 DEF PlansInv

(***************************************************************************)
(* The invariant above holds in every reachable state.                     *)
(***************************************************************************)
THEOREM PlansInductive ==
  ASSUME ReadYourWrites
  PROVE  Spec => [](IInv /\ PlansInv)
<1>1. Init => IInv /\ PlansInv
  BY InitIInv, InitPlansInv
<1>2. IInv /\ PlansInv /\ [Next]_vars => (IInv /\ PlansInv)'
  BY NextIInv, NextPlansInv
<1> QED BY <1>1, <1>2, PTL DEF Spec

(***************************************************************************)
(* No two plan or apply jobs of a Configuration run together from the      *)
(* second generation on: ensureNoActivity lists every running job.         *)
(***************************************************************************)
THEOREM JobsNeverOverlap ==
  ASSUME ReadYourWrites
  PROVE  Spec => []NoOverlap
<1>1. ASSUME IInv, PlansInv
      PROVE  NoOverlap
  <2> SUFFICES ASSUME NEW i \in JobIds, NEW k \in JobIds, Changing(i), Changing(k), i < k
               PROVE  jobs[k].gen = 1
    BY DEF NoOverlap
  <2>1. ~(jobs[k].gen > 1)
    BY <1>1 DEF PlansInv, JobsApart, Changing
  <2>2. njobs \in Nat /\ JobIds \subseteq Nat /\ cache.gen \in Nat
    BY <1>1, JobTypes, ObjectTypes DEF IInv, TypeInv, TypeOK
  <2>3. jobs[k].gen \in 1..cache.gen
    BY <1>1, <2>2 DEF PlansInv, JobsOrdered, Changing
  <2> QED BY <2>1, <2>2, <2>3
<1> QED BY <1>1, PlansInductive, PTL

(***************************************************************************)
(* Every apply that is started by a run that is shown the secrets as they  *)
(* are stored is for a plan of its own generation, although the plan       *)
(* secret it is named after is overwritten by every plan job, and however  *)
(* far the informer lagged before.                                         *)
(***************************************************************************)
THEOREM AppliesOwnPlan ==
  ASSUME ReadYourWrites
  PROVE  Spec => []ApplyMatchesPlan
<1>1. IInv /\ PlansInv => ApplyMatchesPlan
  BY DEF PlansInv
<1> QED BY <1>1, PlansInductive, PTL

-----------------------------------------------------------------------------
(* An apply of the plan and the generation that are seen is found again,   *)
(* unless its job has been removed.                                        *)
LEMMA AppliedFound ==
  ASSUME IInv, PlansInv, PlanComplete, NEW a \in JobIds, jobs[a].stage = "apply",
         jobs[a].plan = shown.plan.job, jobs[a].gen = cache.gen, ~jobs[a].removed
  PROVE  a \in ApplyJobs(cache)
<1>1. a <= njobs
  <2>1. njobs \in Nat /\ a \in Nat
    BY JobTypes DEF IInv, TypeInv
  <2> QED BY <2>1 DEF PlansInv, JobsOrdered
<1>2. a \in Listed
  BY <1>1 DEF PlansInv, JobsSeen, PlanComplete, ReachesPlan, Live
<1> QED BY <1>2 DEF ApplyJobs

LEMMA NextOnce ==
  ASSUME IInv, ReadYourWrites, PlansInv, AppliedOnce, [Next]_vars
  PROVE  AppliedOnce'
<1> SUFFICES ASSUME NEW i \in JobIds, NEW k \in JobIds, i < k,
                    jobs'[i].stage = "apply", jobs'[k].stage = "apply",
                    jobs'[i].plan = jobs'[k].plan, jobs'[i].gen = jobs'[k].gen
             PROVE  jobs'[i].removed
  BY DEF AppliedOnce
<1>1. \A a \in JobIds : jobs[a].stage = "apply" => SameLabels(a)
  BY AppliesStep
<1>2. ASSUME jobs[i].stage = "apply", jobs[i].removed
      PROVE  jobs'[i].removed
  <2>1. CASE JobsKeep
    BY <1>2, <2>1 DEF JobsKeep
  <2>2. ASSUME NEW stage, NEW p, Created(stage, p)
        PROVE  jobs'[i] = jobs[i]
    BY <1>2, <2>2 DEF Created
  <2> QED BY <1>2, <2>1, <2>2, JobsStep
<1>3. CASE jobs[i].stage = "apply" /\ jobs[k].stage = "apply"
  BY <1>1, <1>2, <1>3 DEF AppliedOnce, SameLabels
<1>4. CASE jobs[i].stage = "apply" /\ jobs[k].stage # "apply"
  <2>1. /\ ApplyCreated /\ PlanComplete
        /\ jobs'[k].plan = shown.plan.job /\ jobs'[k].gen = cache.gen
    BY <1>4, AppliesStep
  <2>2. jobs[i].plan = shown.plan.job /\ jobs[i].gen = cache.gen
    BY <1>1, <1>4, <2>1 DEF SameLabels
  <2>3. jobs[i].removed
    BY <1>4, <2>1, <2>2, AppliedFound DEF ApplyCreated
  <2> QED BY <1>2, <1>4, <2>3
<1>5. CASE jobs[i].stage # "apply"
  <2>1. i = njobs + 1
    BY <1>5, AppliesStep
  <2>2. /\ njobs \in Nat /\ i \in Nat /\ k \in Nat
    BY JobTypes DEF IInv, TypeInv
  <2>3. jobs[k].stage # "apply" => k = njobs + 1
    BY AppliesStep
  <2>4. jobs[k].stage = "apply" => k <= njobs
    BY <2>2 DEF PlansInv, JobsOrdered
  <2> QED BY <2>1, <2>2, <2>3, <2>4
<1> QED BY <1>3, <1>4, <1>5

(***************************************************************************)
(* A plan is applied once for a generation, whatever plan a lagging        *)
(* informer shows, until the first apply's job has expired.                *)
(***************************************************************************)
THEOREM PlanAppliedOnce ==
  ASSUME ReadYourWrites
  PROVE  Spec => []AppliedOnce
<1>1. Init => AppliedOnce
  BY InitPlansInv
<1>2. IInv /\ PlansInv /\ AppliedOnce /\ [Next]_vars => AppliedOnce'
  BY NextOnce
<1> QED BY <1>1, <1>2, PlansInductive, PTL DEF Spec

-----------------------------------------------------------------------------
(***************************************************************************)
(* The cloud.  What the steps that leave plan and state secret alone       *)
(* preserve.                                                               *)
(***************************************************************************)
AppliesSame ==
  \A k \in JobIds :
    /\ jobs'[k].stage = "apply" => jobs[k].stage = "apply"
    /\ jobs[k].stage = "apply" => SameLabels(k) /\ jobs'[k].phase = jobs[k].phase
    /\ jobs[k].stage = "plan" => SameLabels(k)

CloudStays == cloud' = cloud \/ (MaxDrift > 0 /\ cloud' = [cloud EXCEPT !.at = 0])

LEMMA SettledStays ==
  ASSUME TypeOK, CloudStays, NEW g, Settled(cloud, g)
  PROVE  Settled(cloud', g)
<1>1. CASE cloud' = cloud
  BY <1>1 DEF Settled
<1>2. CASE MaxDrift > 0 /\ cloud' = [cloud EXCEPT !.at = 0]
  BY <1>2 DEF TypeOK, Settled
<1> QED BY <1>1, <1>2 DEF CloudStays

LEMMA CloudFrame ==
  ASSUME TypeOK, PlansUploaded, ApplyMatchesPlan, StateRecorded, NoChanges, ApplyEffect,
         AppliesSame, CloudStays, planSecret' = planSecret, tfState' = tfState
  PROVE  StateRecorded' /\ NoChanges' /\ ApplyEffect'
<1>1. cloud'.resources = cloud.resources /\ (cloud.at = 0 => cloud'.at = 0)
  BY DEF CloudStays, TypeOK
<1>2. /\ planSecret.job # 0 => planSecret.job \in JobIds
      /\ planSecret.job # 0 => SameLabels(planSecret.job)
  <2>1. planSecret.job # 0 => planSecret.job \in JobIds
    BY JobTypes
  <2> QED BY <2>1 DEF PlansUploaded, AppliesSame
<1>3. StateRecorded'
  BY <1>1 DEF StateRecorded, AppliesSame
<1>4. NoChanges'
  <2> SUFFICES ASSUME planSecret'.job # 0, jobs'[planSecret'.job].gen > 1,
                      ~planSecret'.changes
               PROVE  /\ Settled(cloud', jobs'[planSecret'.job].gen)
                      /\ tfState' = "absent" => jobs'[planSecret'.job].gen \in ZeroGens
    BY DEF NoChanges
  <2> DEFINE g == jobs[planSecret.job].gen
  <2>1. jobs'[planSecret'.job].gen = g
    BY <1>2 DEF SameLabels
  <2>2. Settled(cloud, g) /\ (tfState = "absent" => g \in ZeroGens)
    BY <2>1 DEF NoChanges
  <2> HIDE DEF g
  <2> QED BY <2>1, <2>2, SettledStays
<1>5. ApplyEffect'
  <2> SUFFICES ASSUME NEW i \in JobIds, jobs'[i].stage = "apply"
               PROVE  /\ jobs'[i].plan < i
                      /\ Running(i)' /\ jobs'[i].gen > 1 =>
                           /\ jobs'[i].plan = planSecret'.job
                           /\ ~planSecret'.changes =>
                                jobs'[i].gen \in ZeroGens /\ ~cloud'.resources
                      /\ /\ jobs'[i].phase = "complete"
                         /\ jobs'[i].plan = planSecret'.job /\ jobs'[i].gen > 1
                         => Settled(cloud', jobs'[i].gen)
    BY DEF ApplyEffect
  <2>1. /\ jobs[i].stage = "apply" /\ jobs'[i].plan = jobs[i].plan
        /\ jobs'[i].gen = jobs[i].gen /\ jobs'[i].phase = jobs[i].phase
    BY DEF AppliesSame, SameLabels
  <2>2. /\ jobs[i].plan < i
        /\ Running(i) /\ jobs[i].gen > 1 =>
             /\ jobs[i].plan = planSecret.job
             /\ ~planSecret.changes => jobs[i].gen \in ZeroGens /\ ~cloud.resources
        /\ /\ jobs[i].phase = "complete" /\ jobs[i].plan = planSecret.job
           /\ jobs[i].gen > 1
           => Settled(cloud, jobs[i].gen)
    BY <2>1 DEF ApplyEffect
  <2>3. Settled(cloud, jobs[i].gen) => Settled(cloud', jobs'[i].gen)
    BY <2>1, SettledStays
  <2> QED BY <1>1, <2>1, <2>2, <2>3 DEF Running
<1> QED BY <1>3, <1>4, <1>5

LEMMA ReadyFrame ==
  ASSUME TypeOK, PlansUploaded, ReadySettled, AppliesSame, CloudStays,
         planSecret' = planSecret, tfState' = tfState, vouched' => vouched,
         cfg'.gen > 1 /\ IsComplete(cfg'.conds["apply"], cfg'.gen) =>
           cfg'.gen = cfg.gen /\ IsComplete(cfg.conds["apply"], cfg.gen)
  PROVE  ReadySettled'
<1> DEFINE g == cfg.gen
<1> SUFFICES ASSUME cfg'.gen = g, cfg.gen > 1, IsComplete(cfg.conds["apply"], cfg.gen),
                    vouched
             PROVE  /\ Settled(cloud', g) /\ tfState' # "absent"
                    /\ \A i \in JobIds :
                         jobs'[i].stage = "apply" /\ Running(i)' =>
                           jobs'[i].gen = g /\ (g \in ZeroGens \/ MaxDrift > 0)
                    /\ /\ g \notin ZeroGens /\ MaxDrift = 0 /\ planSecret'.changes
                       /\ planSecret'.job # 0 /\ jobs'[planSecret'.job].gen = g
                       => \E i \in JobIds :
                            jobs'[i].stage = "apply" /\ jobs'[i].plan = planSecret'.job
  BY DEF ReadySettled, IsComplete, Settled
<1>1. /\ Settled(cloud, g) /\ tfState # "absent"
      /\ \A i \in JobIds :
           jobs[i].stage = "apply" /\ Running(i) =>
             jobs[i].gen = g /\ (g \in ZeroGens \/ MaxDrift > 0)
      /\ /\ g \notin ZeroGens /\ MaxDrift = 0 /\ planSecret.changes
         /\ planSecret.job # 0 /\ jobs[planSecret.job].gen = g
         => \E i \in JobIds :
              jobs[i].stage = "apply" /\ jobs[i].plan = planSecret.job
  BY DEF ReadySettled
<1>2. planSecret.job # 0 => SameLabels(planSecret.job)
  <2>1. planSecret.job # 0 => planSecret.job \in JobIds
    BY JobTypes
  <2> QED BY <2>1 DEF PlansUploaded, AppliesSame
<1> HIDE DEF g
<1>3. Settled(cloud', g)
  BY <1>1, SettledStays
<1>4. \A i \in JobIds :
        jobs'[i].stage = "apply" /\ Running(i)' =>
          jobs'[i].gen = g /\ (g \in ZeroGens \/ MaxDrift > 0)
  BY <1>1 DEF AppliesSame, SameLabels, Running
<1>5. \A i \in JobIds : jobs[i].stage = "apply" =>
        jobs'[i].stage = "apply" /\ jobs'[i].plan = jobs[i].plan
  BY DEF AppliesSame, SameLabels
<1> QED BY <1>1, <1>2, <1>3, <1>4, <1>5 DEF SameLabels

(* From the second generation on a plan or an apply runs alone. *)
LEMMA RunsAlone ==
  ASSUME IInv, PlansInv, NEW i \in JobIds, NEW k \in JobIds, Running(i), Running(k),
         jobs[i].stage \in {"plan", "apply"}, jobs[k].stage \in {"plan", "apply"},
         jobs[k].gen > 1
  PROVE  i = k
<1>1. /\ i \in Nat /\ k \in Nat /\ njobs \in Nat
      /\ jobs[i].gen \in Nat /\ jobs[k].gen \in Nat
  BY JobTypes DEF IInv, TypeInv
<1>2. ~(i < k)
  BY DEF PlansInv, JobsApart
<1>3. ASSUME k < i
      PROVE  FALSE
  <2>1. i <= njobs
    BY <1>1 DEF PlansInv, JobsOrdered
  <2>2. jobs[k].gen <= jobs[i].gen
    BY <1>3, <2>1 DEF PlansInv, JobsOrdered, Before
  <2> QED BY <1>1, <1>3, <2>2 DEF PlansInv, JobsApart
<1> QED BY <1>1, <1>2, <1>3

(* What a run that was shown the secrets has found when it sets the apply  *)
(* condition to Ready.                                                     *)
LEMMA NewlyReady ==
  ASSUME IInv, PlansInv, StateRecorded, NoChanges, ApplyEffect,
         ApplySkipped \/ ApplyDone, shown = Stored, cache.gen > 1
  PROVE  /\ Settled(cloud, cache.gen) /\ tfState # "absent" /\ Idle
         /\ planSecret.changes =>
              \E i \in JobIds : jobs[i].stage = "apply" /\ jobs[i].plan = planSecret.job
<1>0. shown.plan = planSecret /\ shown.state = tfState
  BY DEF Stored
<1>1. PlanComplete /\ ReachesPlan
  BY ApplyReaches DEF ApplySkipped, ApplyDone, NothingToApply, PolicyPassed, ApplyJobIs,
                      PlanPassed, PlanComplete
<1>2. /\ planSecret.job \in JobIds /\ jobs[planSecret.job].gen = cache.gen
      /\ 0 \notin JobIds /\ cache.gen \in Nat
  BY <1>1, SecretCurrent, JobTypes, ObjectTypes DEF IInv, TypeInv, TypeOK
<1>3. Idle
  BY <1>1, <1>2, IdleAtStart DEF PlansInv
<1>4. CASE ApplySkipped
  <2>1. ~planSecret.changes /\ tfState # "absent"
    BY <1>0, <1>4 DEF ApplySkipped, NothingToApply
  <2>2. Settled(cloud, cache.gen)
    BY <1>2, <2>1 DEF NoChanges
  <2> QED BY <1>3, <2>1, <2>2
<1>5. CASE ApplyDone
  <2> DEFINE m == Latest(ApplyJobs(cache))
  <2>1. ApplyJobs(cache) \in SUBSET JobIds /\ ApplyJobs(cache) # {}
    BY <1>5 DEF ApplyDone, ApplyJobIs, ApplyJobs, Listed
  <2>2. m \in ApplyJobs(cache) /\ seen[m] = "complete"
    BY <1>5, <2>1, LatestFacts DEF ApplyDone, ApplyJobIs
  <2> HIDE DEF m
  <2>3. /\ m \in JobIds /\ jobs[m].stage = "apply" /\ jobs[m].gen = cache.gen
        /\ jobs[m].plan = planSecret.job
    BY <1>0, <2>2 DEF ApplyJobs, Listed
  <2>4. jobs[m].phase = "complete"
    BY <1>1, <2>2, <2>3 DEF PlansInv, JobsSeen, ReachesPlan, Live
  <2>5. Settled(cloud, cache.gen)
    BY <2>3, <2>4 DEF ApplyEffect
  <2>6. tfState # "absent"
    BY <2>3, <2>4 DEF StateRecorded
  <2> QED BY <1>3, <2>3, <2>5, <2>6
<1> QED BY <1>4, <1>5

(***************************************************************************)
(* The steps preserve CloudInv.                                            *)
(***************************************************************************)
CloudParts == StateRecorded /\ NoChanges /\ ApplyEffect /\ ReadySettled

(* Only the end of the chain notes what it was shown. *)
LEMMA VouchedStep ==
  ASSUME [Next]_vars
  PROVE  \/ vouched' = vouched
         \/ (ApplySkipped \/ ApplyDone) /\ vouched' = (shown = Stored)
<1>1. CASE UNCHANGED vars
  BY <1>1 DEF vars, secrets
<1>2. CASE Reconcile
  <2>1. CASE ApplySkipped \/ ApplyDone
    BY <2>1 DEF ApplySkipped, ApplyDone, EndOfChain
  <2>2. CASE ReconcileNotFound \/ EnsureFinalizerPresent \/ EnsureNoActivity
             \/ EnsurePrerequisites \/ DeletionBlocked
    BY <2>2 DEF ReconcileNotFound, EnsureFinalizerPresent, EnsureNoActivity,
                EnsurePrerequisites, DeletionBlocked, StopAtMissing, secrets
  <2>3. CASE PlanInvalidRetry \/ PlanFailedBefore \/ RequireApproval \/ CreatePlan
             \/ PlanRunning \/ PlanFails \/ PlanSecretMissing
    BY <2>3 DEF PlanInvalidRetry, PlanFailedBefore, RequireApproval, CreatePlan,
                PlanRunning, PlanFails, PlanSecretMissing, secrets
  <2>4. CASE PolicyReportMissing \/ PolicyReportMalformed \/ PolicyFailed
    BY <2>4 DEF PolicyReportMissing, PolicyReportMalformed, PolicyFailed, StopAtPolicy,
                secrets
  <2>5. CASE WaitForApproval \/ CreateApply \/ ApplyRunning \/ ApplyFails
    BY <2>5 DEF WaitForApproval, CreateApply, ApplyRunning, ApplyFails, secrets
  <2>6. CASE CreateDestroy \/ DestroyRunning \/ DestroyFails \/ CleanUp
    BY <2>6 DEF CreateDestroy, DestroyRunning, DestroyFails, CleanUp, secrets
  <2> QED BY <1>2, <2>1, <2>2, <2>3, <2>4, <2>5, <2>6 DEF Reconcile
<1>3. CASE SyncConfiguration \/ SyncJobs \/ SyncSecrets \/ Restart
  BY <1>3 DEF SyncConfiguration, SyncJobs, SyncSecrets, Restart, secrets
<1>4. CASE User \/ AnnotateDrift
  BY <1>4 DEF User, AnnotateDrift, Edit, Approve, Retry, Delete, UserWrites, secrets
<1>5. CASE Platform
  BY <1>5 DEF Platform, LosePrerequisite, MeetPrerequisite, MatchPolicy, WithdrawPolicy,
              CloudDrifts, PlatformWrites, secrets
<1>6. CASE \E i \in JobIds : JobStep(i) \/ ExpireJob(i)
  BY <1>6 DEF JobStep, ExpireJob, UploadPlan, UploadReport, CompletePlan, FailPlan,
              CompleteApply, FailApply, CompleteDestroy, FailDestroy, FinishTerraform,
              secrets
<1> QED BY <1>1, <1>2, <1>3, <1>4, <1>5, <1>6 DEF Next

(* A run, or a write, that does not create a job. *)
LEMMA CloudQuiet ==
  ASSUME IInv, ReadYourWrites, PlansInv, CloudParts, jobs' = jobs, planSecret' = planSecret,
         tfState' = tfState, CloudStays, [Next]_vars,
         Ends \/ ((Written \/ cfg' = cfg) /\ vouched' = vouched)
  PROVE  CloudParts'
<1>1. AppliesSame /\ TypeOK /\ PlansUploaded
  BY DEF AppliesSame, SameLabels, IInv, TypeInv, PlansInv
<1>2. StateRecorded' /\ NoChanges' /\ ApplyEffect'
  BY <1>1, CloudFrame DEF CloudParts, PlansInv
<1>3. /\ cfg.gen \in Nat /\ cache.gen \in Nat /\ cfg.conds["apply"].gen \in Nat
      /\ cfg.conds["apply"].gen <= cache.gen /\ cache.gen <= cfg.gen
  BY ObjectTypes DEF IInv, TypeInv, TypeOK, ApprovalInv, CacheLags, PlansInv, CacheCurrent
<1>4. CASE cfg' = cfg /\ vouched' = vouched
  BY <1>1, <1>2, <1>4, ReadyFrame DEF CloudParts
<1>5. CASE Written /\ vouched' = vouched
  <2>1. /\ cfg'.conds = cfg.conds
        /\ cfg'.gen = cfg.gen \/ cfg'.gen = cfg.gen + 1
    BY <1>5 DEF Written
  <2>2. IsComplete(cfg'.conds["apply"], cfg'.gen) =>
          cfg'.gen = cfg.gen /\ IsComplete(cfg.conds["apply"], cfg.gen)
    BY <1>3, <2>1 DEF IsComplete
  <2> QED BY <1>1, <1>2, <1>5, <2>2, ReadyFrame DEF CloudParts
<1>6. CASE Ends
  <2>1. cfg'.gen = cfg.gen /\ ApplyTo(cfg'.conds["apply"])
    BY <1>6 DEF Ends
  <2>2. CASE ApplySkipped \/ ApplyDone
    <3> SUFFICES ASSUME vouched', cfg.gen > 1, IsComplete(cfg'.conds["apply"], cfg.gen)
                 PROVE  ReadySettled'
      BY <1>2, <2>1 DEF CloudParts, ReadySettled
    <3>1. cfg.gen = cache.gen
      BY <1>3, <2>1 DEF ApplyTo, IsComplete, PlansInv, CacheCurrent
    <3>2. shown = Stored
      BY <2>2 DEF ApplySkipped, ApplyDone, EndOfChain
    <3>3. /\ Settled(cloud, cfg.gen) /\ tfState # "absent" /\ Idle
          /\ planSecret.changes =>
               \E i \in JobIds : jobs[i].stage = "apply" /\ jobs[i].plan = planSecret.job
      BY <2>2, <3>1, <3>2, NewlyReady DEF CloudParts
    <3>4. Settled(cloud', cfg.gen)
      BY <1>1, <3>3, SettledStays
    <3> QED BY <2>1, <3>3, <3>4 DEF ReadySettled, Idle, Running
  <2>3. CASE ~ApplySkipped /\ ~ApplyDone
    <3>1. vouched' = vouched
      BY <2>3, VouchedStep
    <3>2. IsComplete(cfg'.conds["apply"], cfg.gen) => IsComplete(cfg.conds["apply"], cfg.gen)
      BY <2>1, <2>3 DEF ApplyTo, IsComplete, PlansInv, CacheCurrent
    <3> QED BY <1>1, <1>2, <2>1, <3>1, <3>2, ReadyFrame DEF CloudParts
  <2> QED BY <2>2, <2>3
<1> QED BY <1>4, <1>5, <1>6

(* A run that creates a plan job. *)
LEMMA CloudPlan ==
  ASSUME IInv, ReadYourWrites, PlansInv, CloudParts, Created("plan", 0), [Next]_vars
  PROVE  CloudParts'
<1>1. AppliesSame /\ TypeOK /\ PlansUploaded /\ CloudStays /\ planSecret' = planSecret
      /\ tfState' = tfState /\ Ends
  BY DEF Created, AppliesSame, SameLabels, IInv, TypeInv, PlansInv, CloudStays, storedSecrets,
         environment
<1>2. StateRecorded' /\ NoChanges' /\ ApplyEffect'
  BY <1>1, CloudFrame DEF CloudParts, PlansInv
<1>3. ~ApplySkipped /\ ~ApplyDone
  BY DEF Created, ApplySkipped, ApplyDone, NoJobCreated
<1>4. cfg'.gen = cfg.gen /\ ApplyTo(cfg'.conds["apply"])
  BY <1>1 DEF Ends
<1>5. IsComplete(cfg'.conds["apply"], cfg'.gen) => IsComplete(cfg.conds["apply"], cfg.gen)
  BY <1>3, <1>4 DEF ApplyTo, IsComplete, PlansInv, CacheCurrent
<1>6. vouched' = vouched
  BY <1>3, VouchedStep
<1> QED BY <1>1, <1>2, <1>4, <1>5, <1>6, ReadyFrame DEF CloudParts

(* A run that is shown the secrets and creates an apply job. *)
LEMMA CloudApply ==
  ASSUME IInv, ReadYourWrites, PlansInv, CloudParts, AppliesCurrent, ~Expiry,
         shown = Stored, ApplyCreated, Created("apply", shown.plan.job), [Next]_vars
  PROVE  CloudParts'
<1> DEFINE n == njobs + 1
           p == planSecret.job
<1>0. shown.plan = planSecret /\ shown.state = tfState
  BY DEF Stored
<1>1. /\ n \in JobIds /\ jobs'[n].stage = "apply" /\ jobs'[n].plan = p
      /\ jobs'[n].gen = cache.gen /\ jobs'[n].phase = "active"
      /\ \A k \in JobIds : k # n => jobs'[k] = jobs[k]
      /\ planSecret' = planSecret /\ tfState' = tfState /\ cloud' = cloud
      /\ jobs[n].stage = "none"
  BY <1>0 DEF Created, storedSecrets, environment
<1>2. PlanComplete /\ PlanPassed /\ ReachesPlan /\ ~cache.deleting
  BY ApplyReaches DEF ApplyCreated, PlanPassed
<1>3. p \in JobIds /\ jobs[p].stage = "plan" /\ jobs[p].gen = cache.gen
  BY <1>2, SecretCurrent
<1>4. /\ njobs \in Nat /\ p \in Nat /\ p # 0 /\ cache.gen \in Nat /\ cfg.gen \in Nat
      /\ cfg.conds["apply"].gen \in Nat /\ MaxDrift \in Nat
  BY <1>3, JobTypes, ObjectTypes, BoundsAssumption
     DEF IInv, TypeInv, TypeOK, BoundsAssumption
<1>5. p < n /\ p # n /\ jobs'[p] = jobs[p]
  BY <1>1, <1>3, <1>4 DEF PlansInv, JobsOrdered
<1>6. ~planSecret.changes => tfState = "absent"
  BY <1>0 DEF ApplyCreated, ReachesApply, NothingToApply
<1>7. cache.gen > 1 /\ ~planSecret.changes => cache.gen \in ZeroGens /\ ~cloud.resources
  BY <1>3, <1>4, <1>6 DEF CloudParts, NoChanges, StateRecorded
<1> HIDE DEF n, p
<1>8. StateRecorded'
  BY <1>1 DEF CloudParts, StateRecorded
<1>9. NoChanges'
  BY <1>1, <1>5 DEF CloudParts, NoChanges, p
<1>10. ApplyEffect'
  <2> SUFFICES ASSUME NEW i \in JobIds, jobs'[i].stage = "apply"
               PROVE  /\ jobs'[i].plan < i
                      /\ Running(i)' /\ jobs'[i].gen > 1 =>
                           /\ jobs'[i].plan = planSecret'.job
                           /\ ~planSecret'.changes =>
                                jobs'[i].gen \in ZeroGens /\ ~cloud'.resources
                      /\ /\ jobs'[i].phase = "complete"
                         /\ jobs'[i].plan = planSecret'.job /\ jobs'[i].gen > 1
                         => Settled(cloud', jobs'[i].gen)
    BY DEF ApplyEffect
  <2>1. CASE i = n
    BY <1>1, <1>5, <1>7, <2>1 DEF p
  <2>2. CASE i # n
    <3>1. jobs'[i] = jobs[i]
      BY <1>1, <2>2
    <3> QED BY <1>1, <3>1 DEF CloudParts, ApplyEffect, Running
  <2> QED BY <2>1, <2>2
<1>11. ReadySettled'
  <2>1. cfg'.gen = cfg.gen /\ ApplyTo(cfg'.conds["apply"])
    BY DEF ApplyCreated, Ends
  <2>2. ~ApplySkipped /\ ~ApplyDone
    <3>1. jobs' # jobs
      BY <1>1
    <3> QED BY <3>1 DEF ApplySkipped, ApplyDone, NoJobCreated
  <2>0. vouched' = vouched
    BY <2>2, VouchedStep
  <2> SUFFICES ASSUME vouched, cfg.gen > 1, IsComplete(cfg'.conds["apply"], cfg.gen)
               PROVE  /\ Settled(cloud', cfg.gen) /\ tfState' # "absent"
                      /\ \A i \in JobIds :
                           jobs'[i].stage = "apply" /\ Running(i)' =>
                             /\ jobs'[i].gen = cfg.gen
                             /\ cfg.gen \in ZeroGens \/ MaxDrift > 0
                      /\ \E i \in JobIds :
                           jobs'[i].stage = "apply" /\ jobs'[i].plan = planSecret'.job
    BY <2>0, <2>1 DEF ReadySettled
  <2>3. IsComplete(cfg.conds["apply"], cfg.gen)
    BY <2>1, <2>2 DEF ApplyTo, IsComplete, PlansInv, CacheCurrent
  <2>4. cache.gen = cfg.gen
    <3>1. cfg.conds["apply"].gen <= cache.gen /\ cache.gen <= cfg.gen
      BY <1>4 DEF IInv, ApprovalInv, CacheLags, PlansInv, CacheCurrent
    <3> QED BY <1>4, <2>3, <3>1 DEF IsComplete
  <2>5. /\ Settled(cloud, cfg.gen) /\ tfState # "absent"
        /\ /\ cfg.gen \notin ZeroGens /\ MaxDrift = 0 /\ planSecret.changes
           /\ planSecret.job # 0 /\ jobs[planSecret.job].gen = cfg.gen
           => \E i \in JobIds :
                jobs[i].stage = "apply" /\ jobs[i].plan = planSecret.job
    BY <2>3 DEF CloudParts, ReadySettled
  <2>6. cfg.gen \in ZeroGens \/ MaxDrift > 0
    <3> SUFFICES ASSUME cfg.gen \notin ZeroGens, MaxDrift = 0
                 PROVE  FALSE
      BY <1>4
    <3>1. planSecret.changes
      BY <1>7, <2>4
    <3>2. PICK i \in JobIds : jobs[i].stage = "apply" /\ jobs[i].plan = planSecret.job
      BY <1>3, <1>4, <2>4, <2>5, <3>1 DEF p
    <3>3. jobs[i].gen = cache.gen
      BY <1>3, <3>2 DEF PlansInv, ApplyMatchesPlan, AppliesCurrent, p
    <3>4. ~jobs[i].removed
      BY <1>2 DEF PlansInv, JobsSeen
    <3> QED BY <1>0, <1>2, <3>2, <3>3, <3>4, AppliedFound DEF ApplyCreated
  <2>7. Idle
    BY <1>2, <1>4, <2>4, IdleAtStart DEF PlansInv
  <2>8. \A i \in JobIds : Running(i)' => i = n
    BY <1>1, <2>7 DEF Idle, Running
  <2> QED BY <1>1, <2>4, <2>5, <2>6, <2>8 DEF p
<1> QED BY <1>8, <1>9, <1>10, <1>11 DEF CloudParts

(* A plan is uploaded. *)
LEMMA CloudUpload ==
  ASSUME IInv, PlansInv, CloudParts, NEW i \in JobIds, Uploads(i), vouched' = vouched
  PROVE  CloudParts'
<1> DEFINE g == jobs[i].gen
<1>1. /\ planSecret'.job = i /\ tfState' = tfState /\ cloud' = cloud /\ cfg' = cfg
      /\ planSecret'.changes = HasChanges(g)
      /\ Running(i) /\ jobs[i].stage = "plan"
      /\ \A k \in JobIds : SameLabels(k) /\ jobs'[k].phase = jobs[k].phase
  <2>1. /\ planSecret' = [job |-> i, changes |-> HasChanges(g)] /\ Running(i)
        /\ jobs[i].stage = "plan" /\ jobs'[i].phase = "active"
        /\ tfState' = tfState /\ cloud' = cloud /\ Moves(i)
    BY DEF Uploads
  <2>2. planSecret'.job = i /\ planSecret'.changes = HasChanges(g)
    BY <2>1
  <2> QED BY <2>1, <2>2 DEF Moves, Running
<1>2. /\ \A k \in JobIds : /\ jobs[k].gen \in Nat /\ jobs[k].plan \in 0..MaxJobs
                           /\ k \in Nat
      /\ MaxDrift \in Nat /\ MaxJobs \in Nat
  BY JobTypes, BoundsAssumption DEF IInv, TypeInv, BoundsAssumption
<1>3. /\ HasChanges(g) /\ g \notin ZeroGens => cloud.at # g
      /\ ~HasChanges(g) => Settled(cloud, g)
      /\ ~HasChanges(g) /\ g \notin ZeroGens => cloud.at = g
  BY DEF HasChanges, Settled
<1> HIDE DEF g
<1>4. StateRecorded'
  BY <1>1 DEF CloudParts, StateRecorded, SameLabels
<1>5. NoChanges'
  <2>1. tfState = "absent" => cloud.at = 0
    BY DEF CloudParts, StateRecorded
  <2>2. jobs'[i].gen = g
    BY <1>1 DEF SameLabels, g
  <2>3. g > 1 => g # 0
    BY <1>2 DEF g
  <2> QED BY <1>1, <1>3, <2>1, <2>2, <2>3 DEF NoChanges
<1>6. ApplyEffect'
  <2> SUFFICES ASSUME NEW k \in JobIds, jobs'[k].stage = "apply"
               PROVE  /\ jobs'[k].plan < k
                      /\ Running(k)' => ~(jobs'[k].gen > 1)
                      /\ jobs'[k].plan = i => ~(jobs'[k].gen > 1)
    BY <1>1 DEF ApplyEffect
  <2>1. /\ jobs[k].stage = "apply" /\ jobs'[k].plan = jobs[k].plan
        /\ jobs'[k].gen = jobs[k].gen /\ jobs'[k].phase = jobs[k].phase
    BY <1>1 DEF SameLabels
  <2>2. jobs[k].plan < k
    BY <2>1 DEF CloudParts, ApplyEffect
  <2>3. Running(k) => ~(jobs[k].gen > 1)
    BY <1>1, <2>1, RunsAlone
  <2>4. jobs[k].plan = i => ~(jobs[k].gen > 1)
    BY <1>1, <2>1, <2>2 DEF PlansInv, JobsApart
  <2> QED BY <2>1, <2>2, <2>3, <2>4 DEF Running
<1>7. ReadySettled'
  <2> SUFFICES ASSUME vouched, cfg.gen > 1, IsComplete(cfg.conds["apply"], cfg.gen)
               PROVE  /\ Settled(cloud, cfg.gen) /\ tfState # "absent"
                      /\ \A k \in JobIds :
                           jobs'[k].stage = "apply" /\ Running(k)' =>
                             /\ jobs'[k].gen = cfg.gen
                             /\ cfg.gen \in ZeroGens \/ MaxDrift > 0
                      /\ ~(/\ cfg.gen \notin ZeroGens /\ MaxDrift = 0 /\ planSecret'.changes
                           /\ jobs'[i].gen = cfg.gen)
    BY <1>1 DEF ReadySettled
  <2>1. /\ Settled(cloud, cfg.gen) /\ tfState # "absent"
        /\ \A k \in JobIds :
             jobs[k].stage = "apply" /\ Running(k) =>
               jobs[k].gen = cfg.gen /\ (cfg.gen \in ZeroGens \/ MaxDrift > 0)
    BY DEF CloudParts, ReadySettled
  <2>2. \A k \in JobIds :
          jobs'[k].stage = "apply" /\ Running(k)' =>
            jobs'[k].gen = cfg.gen /\ (cfg.gen \in ZeroGens \/ MaxDrift > 0)
    BY <1>1, <2>1 DEF SameLabels, Running
  <2>3. ASSUME cfg.gen \notin ZeroGens, MaxDrift = 0, planSecret'.changes,
               jobs'[i].gen = cfg.gen
        PROVE  FALSE
    <3>1. g = cfg.gen
      BY <1>1, <2>3 DEF SameLabels, g
    <3>2. cloud.at # g
      BY <1>1, <1>3, <2>3, <3>1
    <3> QED BY <1>2, <2>1, <2>3, <3>1, <3>2 DEF Settled
  <2> QED BY <2>1, <2>2, <2>3
<1> QED BY <1>4, <1>5, <1>6, <1>7 DEF CloudParts

(* A plan is scanned, or ends. *)
LEMMA CloudPlanEnds ==
  ASSUME IInv, PlansInv, CloudParts, NEW i \in JobIds, Reported(i) \/ PlanEnded(i),
         vouched' = vouched
  PROVE  CloudParts'
<1>1. /\ planSecret' = planSecret /\ tfState' = tfState /\ cloud' = cloud /\ cfg' = cfg
      /\ jobs[i].stage = "plan"
      /\ \A k \in JobIds : SameLabels(k) /\ (k # i => jobs'[k] = jobs[k])
  BY DEF Reported, PlanEnded, Moves, storedSecrets
<1>2. AppliesSame
  BY <1>1 DEF AppliesSame, SameLabels
<1>3. CloudStays /\ TypeOK /\ PlansUploaded /\ ApplyMatchesPlan
  BY <1>1 DEF CloudStays, IInv, TypeInv, PlansInv
<1> QED BY <1>1, <1>2, <1>3, CloudFrame, ReadyFrame DEF CloudParts

(* Terraform changes the cloud. *)
LEMMA CloudMoves ==
  ASSUME IInv, PlansInv, CloudParts, AppliedOnce, AppliesCurrent, ~Expiry,
         ~cache.deleting, NEW i \in JobIds, CloudChanged(i), vouched' = vouched
  PROVE  CloudParts'
<1> DEFINE p == planSecret.job
<1>1. /\ planSecret' = planSecret /\ tfState' # "absent" /\ cfg' = cfg /\ Running(i)
      /\ \A k \in JobIds : SameLabels(k) /\ (k # i => jobs'[k] = jobs[k])
      /\ jobs'[i].phase \in {"complete", "failed"}
  BY DEF CloudChanged, Moves
<1>2. jobs[i].stage = "apply"
  BY DEF CloudChanged, PlansInv, JobsSeen
<1>3. \/ /\ jobs'[i].phase = "complete"
         /\ cloud' = [at |-> jobs[i].gen, resources |-> jobs[i].gen \notin ZeroGens]
      \/ /\ jobs'[i].phase = "failed"
         /\ \E some \in {cloud.resources, jobs[i].gen \notin ZeroGens} :
              cloud' = [at |-> 0, resources |-> some]
  BY <1>2 DEF CloudChanged
<1>4. /\ jobs'[i].phase = "complete" => Settled(cloud', jobs[i].gen)
      /\ jobs'[i].phase # "complete" => cloud'.at = 0
      /\ jobs[i].gen \in ZeroGens /\ ~cloud.resources => ~cloud'.resources
  <2> DEFINE some == jobs[i].gen \notin ZeroGens
  <2>1. cloud.resources \in BOOLEAN /\ some \in BOOLEAN
    BY DEF IInv, TypeInv, TypeOK
  <2> HIDE DEF some
  <2>2. CASE /\ jobs'[i].phase = "complete"
             /\ cloud' = [at |-> jobs[i].gen, resources |-> some]
    <3>1. cloud'.at = jobs[i].gen /\ cloud'.resources = some
      BY <2>2
    <3> QED BY <2>2, <3>1 DEF Settled, some
  <2>3. ASSUME NEW r \in {cloud.resources, some}, jobs'[i].phase = "failed",
               cloud' = [at |-> 0, resources |-> r]
        PROVE  /\ jobs'[i].phase # "complete" /\ cloud'.at = 0
               /\ jobs[i].gen \in ZeroGens /\ ~cloud.resources => ~cloud'.resources
    <3>1. cloud'.at = 0 /\ cloud'.resources = r
      BY <2>3
    <3> QED BY <2>1, <2>3, <3>1 DEF some
  <2> QED BY <1>3, <2>2, <2>3 DEF some
<1>5. \A k \in JobIds : k \in Nat /\ jobs[k].gen \in Nat
  BY JobTypes DEF IInv, TypeInv
<1>6. njobs \in Nat /\ (p # 0 => p \in JobIds) /\ MaxDrift \in Nat /\ cache.gen \in Nat
  BY JobTypes, ObjectTypes, BoundsAssumption DEF IInv, TypeInv, TypeOK, BoundsAssumption
(* No later plan or apply, and no other one, runs. *)
<1>7. ASSUME NEW k \in JobIds, k # i, jobs[k].stage \in {"plan", "apply"}, jobs[k].gen > 1
      PROVE  /\ ~Running(k)
             /\ jobs[i].gen > 1
  <2>1. ~Running(k)
    BY <1>1, <1>2, <1>7, RunsAlone
  <2>2. ~(i < k)
    BY <1>1, <1>7 DEF PlansInv, JobsApart
  <2>3. i <= njobs
    BY <1>2, <1>5, <1>6 DEF PlansInv, JobsOrdered
  <2>4. jobs[k].gen <= jobs[i].gen
    BY <1>5, <1>6, <1>7, <2>2, <2>3 DEF PlansInv, JobsOrdered, Before
  <2> QED BY <1>5, <1>7, <2>1, <2>4
<1>8. /\ p # 0 => jobs[p].stage = "plan"
      /\ p # 0 => jobs'[p].gen = jobs[p].gen
  BY <1>1, <1>6 DEF PlansInv, PlansUploaded, SameLabels
<1>9. /\ jobs[i].gen > 1 => /\ jobs[i].plan = p
                            /\ ~planSecret.changes =>
                                 jobs[i].gen \in ZeroGens /\ ~cloud.resources
      /\ jobs[jobs[i].plan].gen = jobs[i].gen
  BY <1>1, <1>2 DEF CloudParts, ApplyEffect, PlansInv, ApplyMatchesPlan, AppliesCurrent
<1> HIDE DEF p
<1>10. StateRecorded'
  BY <1>1 DEF StateRecorded
<1>11. NoChanges'
  <2> SUFFICES ASSUME p # 0, jobs[p].gen > 1, ~planSecret.changes
               PROVE  Settled(cloud', jobs[p].gen)
    BY <1>1, <1>8 DEF NoChanges, p
  <2>1. jobs[i].gen > 1
    BY <1>2, <1>6, <1>7, <1>8
  <2>2. jobs[i].plan = p /\ jobs[p].gen = jobs[i].gen /\ jobs[i].gen \in ZeroGens
        /\ ~cloud.resources
    BY <1>9, <2>1
  <2> QED BY <1>4, <2>2 DEF Settled
<1>12. ApplyEffect'
  <2> SUFFICES ASSUME NEW k \in JobIds, jobs'[k].stage = "apply"
               PROVE  /\ jobs'[k].plan < k
                      /\ Running(k)' => ~(jobs'[k].gen > 1)
                      /\ /\ jobs'[k].phase = "complete"
                         /\ jobs'[k].plan = p /\ jobs'[k].gen > 1
                         => Settled(cloud', jobs'[k].gen)
    BY <1>1 DEF ApplyEffect, p
  <2>1. /\ jobs[k].stage = "apply" /\ jobs'[k].plan = jobs[k].plan
        /\ jobs'[k].gen = jobs[k].gen
    BY <1>1 DEF SameLabels
  <2>2. jobs[k].plan < k
    BY <2>1 DEF CloudParts, ApplyEffect
  <2>3. CASE k = i
    BY <1>1, <1>4, <2>1, <2>2, <2>3 DEF Running
  <2>4. CASE k # i
    <3>1. ASSUME jobs[k].gen > 1
          PROVE  ~Running(k) /\ jobs[k].plan # p
      <4>1. ~Running(k) /\ jobs[i].gen > 1
        BY <1>7, <2>1, <2>4, <3>1
      <4>2. /\ jobs[jobs[k].plan].gen = jobs[k].gen
            /\ jobs[jobs[i].plan].gen = jobs[i].gen
        BY <1>2, <2>1 DEF PlansInv, ApplyMatchesPlan, AppliesCurrent
      <4>3. ~jobs[i].removed /\ ~jobs[k].removed
        BY DEF PlansInv, JobsSeen
      <4>4. jobs[k].plan # jobs[i].plan
        BY <1>2, <1>5, <2>1, <2>4, <4>2, <4>3 DEF AppliedOnce
      <4> QED BY <1>9, <4>1, <4>4
    <3> QED BY <1>1, <2>1, <2>2, <2>4, <3>1 DEF Running
  <2> QED BY <2>3, <2>4
<1>13. ReadySettled'
  <2> SUFFICES ASSUME vouched, cfg.gen > 1, IsComplete(cfg.conds["apply"], cfg.gen)
               PROVE  /\ Settled(cloud', cfg.gen)
                      /\ \A k \in JobIds :
                           jobs'[k].stage = "apply" /\ Running(k)' =>
                             /\ jobs'[k].gen = cfg.gen
                             /\ cfg.gen \in ZeroGens \/ MaxDrift > 0
                      /\ /\ cfg.gen \notin ZeroGens /\ MaxDrift = 0 /\ planSecret.changes
                         /\ p # 0 /\ jobs[p].gen = cfg.gen
                         => \E k \in JobIds :
                              jobs'[k].stage = "apply" /\ jobs'[k].plan = p
    BY <1>1, <1>8 DEF ReadySettled, p
  <2>1. /\ Settled(cloud, cfg.gen)
        /\ \A k \in JobIds :
             jobs[k].stage = "apply" /\ Running(k) =>
               jobs[k].gen = cfg.gen /\ (cfg.gen \in ZeroGens \/ MaxDrift > 0)
        /\ /\ cfg.gen \notin ZeroGens /\ MaxDrift = 0 /\ planSecret.changes
           /\ p # 0 /\ jobs[p].gen = cfg.gen
           => \E k \in JobIds : jobs[k].stage = "apply" /\ jobs[k].plan = p
    BY DEF CloudParts, ReadySettled, p
  <2>2. jobs[i].gen = cfg.gen /\ (cfg.gen \in ZeroGens \/ MaxDrift > 0)
    BY <1>1, <1>2, <2>1
  <2>3. Settled(cloud', cfg.gen)
    <3>1. CASE jobs'[i].phase = "complete"
      BY <1>4, <2>2, <3>1
    <3>2. CASE jobs'[i].phase # "complete" /\ MaxDrift > 0
      BY <1>4, <3>2 DEF Settled
    <3>3. CASE cfg.gen \in ZeroGens /\ ~(MaxDrift > 0)
      BY <1>4, <2>1, <2>2, <3>3 DEF Settled
    <3> QED BY <2>2, <3>1, <3>2, <3>3
  <2>4. \A k \in JobIds :
          jobs'[k].stage = "apply" /\ Running(k)' =>
            jobs'[k].gen = cfg.gen /\ (cfg.gen \in ZeroGens \/ MaxDrift > 0)
    BY <1>1, <2>1 DEF SameLabels, Running
  <2>5. \A k \in JobIds : jobs[k].stage = "apply" =>
          jobs'[k].stage = "apply" /\ jobs'[k].plan = jobs[k].plan
    BY <1>1 DEF SameLabels
  <2> QED BY <2>1, <2>3, <2>4, <2>5
<1> QED BY <1>10, <1>11, <1>12, <1>13 DEF CloudParts

LEMMA NextCloudInv ==
  ASSUME IInv, IInv', ReadYourWrites, PlansInv, AppliedOnce, CloudInv, [Next]_vars
  PROVE  CloudInv'
<1> SUFFICES ASSUME ~Expiry, ~cache'.deleting, AppliesCurrent'
             PROVE  CloudParts'
  BY DEF CloudInv, CloudParts
<1>1. CacheGrows
  BY NextPlansInv
<1>0. AppliesCurrent
  BY AppliesStep DEF AppliesCurrent, SameLabels
<1>2. ~cache.deleting /\ CloudParts
  BY <1>0, <1>1 DEF CacheGrows, CloudInv, CloudParts
<1>3. ASSUME Untouched \/ Quiet \/ Written \/ Synced \/ PlatformMoves
      PROVE  CloudParts'
  <2>1. jobs' = jobs /\ planSecret' = planSecret /\ tfState' = tfState
    BY <1>3 DEF Untouched, Quiet, Written, Synced, PlatformMoves, storedSecrets
  <2>2. CloudStays
    BY <1>3 DEF Untouched, Quiet, Written, Synced, PlatformMoves, CloudStays, environment
  <2>3. Ends \/ Written \/ cfg' = cfg
    BY <1>3 DEF Untouched, Quiet, Synced, PlatformMoves
  <2>4. Ends \/ vouched' = vouched
    <3>1. ApplySkipped \/ ApplyDone => Ends
      BY ApplyEnds DEF Quiet, IInv
    <3> QED BY <3>1, VouchedStep
  <2> QED BY <1>2, <2>1, <2>2, <2>3, <2>4, CloudQuiet
<1>4. ASSUME PlanCreated
      PROVE  CloudParts'
  BY <1>2, <1>4, CreatedFacts, CloudPlan DEF PlanCreated
<1>5. ASSUME ApplyCreated
      PROVE  CloudParts'
  <2>1. Created("apply", shown.plan.job)
    BY <1>5, CreatedFacts DEF ApplyCreated
  <2>2. shown = Stored
    BY <2>1 DEF AppliesCurrent, Created
  <2> QED BY <1>0, <1>2, <1>5, <2>1, <2>2, CloudApply
<1>6. ~DestroyCreated /\ ~Cleaned
  BY <1>2 DEF DestroyCreated, Cleaned
<1>7. ASSUME NEW i \in JobIds, \/ Uploads(i) \/ Reported(i) \/ PlanEnded(i)
                               \/ CloudChanged(i) \/ Expired(i)
      PROVE  CloudParts'
  <2>1. ~Expired(i)
    BY DEF Expired
  <2>2. jobs' # jobs
    BY <1>7, <2>1 DEF Uploads, Reported, PlanEnded, CloudChanged, Running
  <2>3. vouched' = vouched
    BY <2>2, VouchedStep DEF ApplySkipped, ApplyDone, NoJobCreated
  <2> QED BY <1>0, <1>2, <1>7, <2>1, <2>3, CloudUpload, CloudPlanEnds, CloudMoves
<1> QED BY <1>3, <1>4, <1>5, <1>6, <1>7, StepKinds

(***************************************************************************)
(* A Ready apply condition means that the generation has been applied, as  *)
(* long as finished jobs are kept and the runs that start an apply, or     *)
(* find it done, are shown the secrets as they are stored: the stage never *)
(* takes the result of an older plan for it.  From the second generation   *)
(* on, where the jobs do not overlap.                                      *)
(***************************************************************************)
THEOREM ReadyIsApplied ==
  ASSUME ReadYourWrites, ~Expiry
  PROVE  Spec => []ReadyMeansApplied
<1> DEFINE All == IInv /\ PlansInv /\ AppliedOnce /\ CloudInv
<1>1. Init => All
  <2> SUFFICES ASSUME Init PROVE All
    OBVIOUS
  <2>1. \A i \in JobIds : jobs[i].stage = "none"
    BY InitPlans DEF NoJob
  <2>2. cfg.gen = 1
    BY InitPlans
  <2>3. StateRecorded /\ NoChanges /\ ApplyEffect
    BY <2>1 DEF Init, StateRecorded, NoChanges, ApplyEffect
  <2>4. ReadySettled
    BY <2>2 DEF ReadySettled
  <2>5. AppliedOnce
    BY <2>1 DEF AppliedOnce
  <2> QED BY <2>3, <2>4, <2>5, InitIInv, InitPlansInv DEF CloudInv
<1>2. All /\ [Next]_vars => All'
  BY NextIInv, NextPlansInv, NextOnce, NextCloudInv
<1>3. All => ReadyMeansApplied
  <2> SUFFICES ASSUME All, cfg.gen > 1, IsComplete(cfg.conds["apply"], cfg.gen),
                      vouched, \A i \in JobIds : jobs[i].current
               PROVE  Settled(cloud, cfg.gen)
    BY DEF ReadyMeansApplied, Settled
  <2>1. cfg.gen \in Nat
    BY ObjectTypes DEF IInv, TypeInv, TypeOK
  <2>2. ~cfg.deleting
    BY <2>1 DEF PlansInv, CacheCurrent, IsComplete
  <2>3. ~cache.deleting
    BY <2>2 DEF PlansInv, CacheCurrent
  <2> QED BY <2>3 DEF CloudInv, ReadySettled, AppliesCurrent
<1> HIDE DEF All
<1> QED BY <1>1, <1>2, <1>3, PTL DEF Spec

-----------------------------------------------------------------------------
(***************************************************************************)
(* The policy gate.                                                        *)
(***************************************************************************)
(* Past the plan stage, the last plan job of the generation is complete.   *)
LEMMA LastPlanDone ==
  ASSUME IInv, PlansInv, LastPlanReady, ~Expiry, PlanComplete,
         NEW i \in JobIds, jobs[i].stage = "plan", jobs[i].gen = cache.gen,
         jobs[i].phase # "complete"
  PROVE  \E k \in JobIds : /\ k > i /\ jobs[k].stage = "plan"
                           /\ jobs[k].gen = jobs[i].gen /\ jobs[k].phase = "complete"
<1>1. cache.exists /\ ~cache.deleting
  BY DEF PlanComplete, ReachesPlan, Live, Reconciling
<1>2. CASE PlanSkipped(cache)
  <2>1. cache.conds["plan"].reason = "Ready" /\ cache.conds["plan"].gen = cache.gen
    BY <1>2 DEF PlanSkipped, IsComplete
  <2> QED BY <1>1, <2>1 DEF LastPlanReady, PlansInv, CacheCurrent
<1>3. CASE PlanJobIs("complete")
  <2> DEFINE m == Latest(PlanJobs(cache))
  <2>1. PlanJobs(cache) \in SUBSET JobIds /\ PlanJobs(cache) # {}
    BY <1>3 DEF PlanJobs, Listed, PlanJobIs
  <2>2. m \in PlanJobs(cache) /\ \A k \in PlanJobs(cache) : k <= m
    BY <2>1, LatestFacts
  <2>3. seen[m] = "complete"
    BY <1>3 DEF PlanJobIs
  <2> HIDE DEF m
  <2>4. /\ m \in JobIds /\ jobs[m].stage = "plan" /\ jobs[m].gen = cache.gen
        /\ WithLabel(cache.driftAt, jobs[m].drift)
        /\ WithLabel(cache.retry, jobs[m].retry)
    BY <2>2 DEF PlanJobs, Listed
  <2>5. jobs[m].phase = "complete"
    BY <1>1, <2>3, <2>4 DEF PlansInv, JobsSeen
  <2>6. /\ i \in Nat /\ m \in Nat /\ njobs \in Nat /\ cache.retry \in Nat
        /\ cache.driftAt \in Nat
        /\ \A k \in JobIds : jobs[k].retry \in Nat /\ jobs[k].drift \in Nat
    BY <2>4, JobTypes, ObjectTypes DEF IInv, TypeInv, TypeOK
  <2>7. i <= njobs
    BY <2>6 DEF PlansInv, JobsOrdered
  <2>8. i \in Listed
    BY <1>1, <2>7 DEF PlansInv, JobsSeen
  <2>9. ~(m < i)
    <3> SUFFICES ASSUME m < i PROVE FALSE
      OBVIOUS
    <3>1. /\ jobs[m].retry <= jobs[i].retry /\ jobs[m].drift <= jobs[i].drift
          /\ jobs[i].retry <= cache.retry /\ jobs[i].drift <= cache.driftAt
      BY <2>4, <2>7 DEF PlansInv, JobsOrdered, Before
    <3>2. /\ WithLabel(cache.driftAt, jobs[i].drift)
          /\ WithLabel(cache.retry, jobs[i].retry)
      BY <2>4, <2>6, <3>1 DEF WithLabel
    <3>3. i \in PlanJobs(cache)
      BY <2>8, <3>2 DEF PlanJobs
    <3> QED BY <2>2, <2>6, <3>3
  <2> QED BY <2>4, <2>5, <2>6, <2>9
<1> QED BY <1>2, <1>3 DEF PlanComplete

(* The report in the secret is the one of the plan in the secret. *)
LEMMA ReportCurrent ==
  ASSUME IInv, PlansInv, Scanned, ScansStay, LastPlanReady, ~Expiry, PlanComplete,
         cache.gen > 1, report # 0
  PROVE  planSecret.job = report
<1> DEFINE p == planSecret.job
           r == report
<1>1. p \in JobIds /\ jobs[p].stage = "plan" /\ jobs[p].gen = cache.gen
  BY SecretCurrent
<1>2. ~cache.deleting
  BY DEF PlanComplete, ReachesPlan, Live
<1>3. r \in JobIds /\ jobs[r].stage = "plan" /\ jobs[r].step = 2 /\ jobs[r].scan
  BY <1>2, JobTypes DEF Scanned, IInv, TypeInv
<1>4. /\ p \in Nat /\ r \in Nat /\ njobs \in Nat
      /\ \A k \in JobIds : k \in Nat /\ jobs[k].gen \in Nat
  BY <1>1, <1>3, JobTypes DEF IInv, TypeInv
<1>5. p <= njobs /\ r <= njobs
  BY <1>1, <1>3, <1>4 DEF PlansInv, JobsOrdered
<1>6. jobs[p].phase = "complete"
  <2> SUFFICES ASSUME jobs[p].phase # "complete" PROVE FALSE
    OBVIOUS
  <2>1. PICK k \in JobIds : /\ k > p /\ jobs[k].stage = "plan"
                            /\ jobs[k].gen = jobs[p].gen /\ jobs[k].phase = "complete"
    BY <1>1, LastPlanDone
  <2>2. jobs[k].step # 0
    BY <2>1 DEF PlansInv, PlansUploaded
  <2>3. k <= p
    BY <1>1, <1>2, <2>1, <2>2 DEF PlansInv, PlansUploaded
  <2> QED BY <1>4, <2>1, <2>3
<1>7. jobs[p].scan => p <= r
  <2>1. jobs[p].scan => jobs[p].step = 2
    BY <1>1, <1>6 DEF PlansInv, PlansUploaded
  <2> QED BY <1>1, <1>2, <2>1 DEF Scanned
<1> HIDE DEF p, r
<1>8. ~(r < p)
  <2>1. r < p => jobs[p].scan
    BY <1>1, <1>3, <1>5 DEF ScansStay
  <2> QED BY <1>4, <1>7, <2>1
<1>9. ~(p < r)
  <2> SUFFICES ASSUME p < r PROVE FALSE
    OBVIOUS
  <2>1. jobs[p].gen <= jobs[r].gen
    BY <1>1, <1>3, <1>5 DEF PlansInv, JobsOrdered, Before
  <2>2. jobs[r].gen > 1
    BY <1>1, <1>3, <1>4, <2>1
  <2>3. r <= p
    BY <1>2, <1>3, <2>2 DEF PlansInv, PlansUploaded, p
  <2> QED BY <1>4, <2>3
<1> QED BY <1>4, <1>8, <1>9 DEF p, r

LEMMA ScannedStep ==
  ASSUME IInv, PlansInv, ReadYourWrites, CacheGrows, Scanned, [Next]_vars
  PROVE  Scanned'
<1>1. /\ \A p \in 0..MaxJobs : p # 0 => p \in JobIds
      /\ report \in 0..MaxJobs /\ njobs \in Nat
      /\ \A k \in JobIds : k \in Nat /\ k # 0 /\ jobs[k].gen \in Nat
  BY JobTypes DEF IInv, TypeInv
(* Nothing is scanned, and every job that has been stays so. *)
<1>2. ASSUME verdict' = verdict, njobs' >= njobs, njobs' \in Nat,
             \A k \in JobIds :
               /\ jobs[k].step = 2 /\ k <= njobs => jobs'[k].step = 2
               /\ jobs[k].stage = "plan" /\ jobs[k].step = 2 =>
                    SameLabels(k) /\ jobs'[k].step = 2
               /\ jobs'[k].stage = "plan" /\ jobs'[k].step = 2 =>
                    SameLabels(k) /\ jobs[k].step = 2,
             report' = report \/ cache.deleting
      PROVE  Scanned'
  <2>1. \A k \in JobIds : verdict'[k] # "none" => k <= njobs' /\ jobs'[k].step = 2
    BY <1>1, <1>2 DEF Scanned
  <2>2. ASSUME ~cache'.deleting
        PROVE  /\ report' # 0 => /\ jobs'[report'].stage = "plan"
                                 /\ jobs'[report'].step = 2 /\ jobs'[report'].scan
               /\ \A k \in JobIds :
                    jobs'[k].stage = "plan" /\ jobs'[k].step = 2 /\ jobs'[k].gen > 1 =>
                      k <= report'
    <3>1. ~cache.deleting /\ report' = report
      BY <1>2, <2>2 DEF CacheGrows
    <3>2. report # 0 => /\ report \in JobIds /\ jobs[report].stage = "plan"
                        /\ jobs[report].step = 2 /\ jobs[report].scan
      BY <1>1, <3>1 DEF Scanned
    <3>3. report # 0 => SameLabels(report) /\ jobs'[report].step = 2
      BY <1>2, <3>2
    <3>4. \A k \in JobIds :
            jobs'[k].stage = "plan" /\ jobs'[k].step = 2 /\ jobs'[k].gen > 1 =>
              k <= report
      BY <1>2, <3>1 DEF Scanned, SameLabels
    <3> QED BY <3>1, <3>2, <3>3, <3>4 DEF SameLabels
  <2> QED BY <2>1, <2>2 DEF Scanned
<1>3. CASE Untouched \/ Quiet \/ Written \/ Synced \/ PlatformMoves
  <2>1. verdict' = verdict /\ report' = report /\ jobs' = jobs /\ njobs' = njobs
    BY <1>3 DEF Untouched, Quiet, Written, Synced, PlatformMoves, storedSecrets
  <2> QED BY <1>1, <1>2, <2>1 DEF SameLabels
<1>4. CASE Cleaned
  <2>1. \A k \in JobIds : SameLabels(k) /\ jobs'[k].step = jobs[k].step
    BY <1>4, CleanedKeeps DEF IInv, JobsKeep
  <2> QED BY <1>1, <1>2, <1>4, <2>1 DEF Cleaned, SameLabels
<1>5. ASSUME NEW stage, NEW p, Created(stage, p)
      PROVE  Scanned'
  <2> DEFINE n == njobs + 1
  <2>1. /\ verdict' = verdict /\ report' = report /\ njobs' = n /\ n \in JobIds
        /\ jobs'[n].step = 0 /\ jobs[n].stage = "none"
        /\ \A k \in JobIds : k # n => jobs'[k] = jobs[k]
    BY <1>5 DEF Created, storedSecrets
  <2>2. \A k \in JobIds : /\ k <= njobs => k # n
                          /\ k # n => SameLabels(k) /\ jobs'[k].step = jobs[k].step
    BY <1>1, <2>1 DEF SameLabels
  <2>3. njobs' >= njobs /\ njobs' \in Nat
    BY <1>1, <2>1
  <2> HIDE DEF n
  <2> QED BY <1>2, <2>1, <2>2, <2>3
<1>6. ASSUME NEW i \in JobIds,
             Uploads(i) \/ PlanEnded(i) \/ CloudChanged(i) \/ Expired(i)
      PROVE  Scanned'
  <2>1. Moves(i) /\ verdict' = verdict /\ report' = report
    BY <1>6 DEF Uploads, PlanEnded, CloudChanged, Expired, storedSecrets
  <2>2. jobs'[i].step = 2 <=> jobs[i].step = 2
    BY <1>6 DEF Uploads, PlanEnded, CloudChanged, Expired
  <2> QED BY <1>1, <1>2, <2>1, <2>2 DEF Moves
<1>7. ASSUME NEW i \in JobIds, Reported(i)
      PROVE  Scanned'
  <2>1. /\ report' = i /\ Running(i) /\ jobs'[i].step = 2 /\ njobs' = njobs
        /\ jobs[i].stage = "plan" /\ jobs[i].scan
        /\ \A k \in JobIds : SameLabels(k) /\ (k # i => jobs'[k] = jobs[k])
        /\ \A k \in JobIds \ {i} : verdict'[k] = verdict[k]
    BY <1>7 DEF Reported, Moves
  <2>2. i <= njobs
    BY <1>1, <2>1 DEF PlansInv, JobsOrdered
  <2>3. \A k \in JobIds : verdict'[k] # "none" => k <= njobs' /\ jobs'[k].step = 2
    BY <2>1, <2>2 DEF Scanned
  <2>4. ASSUME NEW k \in JobIds, jobs'[k].stage = "plan", jobs'[k].gen > 1
        PROVE  k <= i
    <3>1. jobs[k].stage = "plan" /\ jobs[k].gen > 1
      BY <2>1, <2>4 DEF SameLabels
    <3> QED BY <1>1, <2>1, <3>1 DEF PlansInv, JobsApart
  <2> QED BY <2>1, <2>3, <2>4 DEF Scanned, SameLabels
<1> QED BY <1>3, <1>4, <1>5, <1>6, <1>7, StepKinds, CreatedFacts
        DEF PlanCreated, ApplyCreated, DestroyCreated

LEMMA ScansStep ==
  ASSUME IInv, PlansInv, ReadYourWrites, ScansStay, FALSE \notin PolicyChanges,
         [Next]_vars
  PROVE  ScansStay'
<1>1. njobs \in Nat /\ (\A k \in JobIds : k \in Nat) /\ policyOn \in BOOLEAN
  BY JobTypes DEF IInv, TypeInv, TypeOK
<1>2. policyOn => policyOn'
  BY StepKinds DEF Untouched, Quiet, PlanCreated, ApplyCreated, DestroyCreated, Cleaned,
     Written, Synced, PlatformMoves, Uploads, Reported, PlanEnded, CloudChanged,
     Expired, Moves, environment
<1>3. CASE JobsKeep
  BY <1>2, <1>3 DEF JobsKeep, SameLabels, ScansStay
<1>4. ASSUME NEW stage, NEW p, Created(stage, p)
      PROVE  ScansStay'
  <2> DEFINE n == njobs + 1
  <2>1. /\ n \in JobIds /\ njobs' = n /\ jobs'[n].scan = policyOn
        /\ \A k \in JobIds : k # n => jobs'[k] = jobs[k]
    BY <1>4 DEF Created
  <2>2. \A i \in JobIds : jobs'[i].scan => policyOn
    BY <2>1 DEF ScansStay
  <2>3. ASSUME NEW i \in JobIds, NEW k \in JobIds, i < k, k <= njobs', jobs'[i].scan
        PROVE  jobs'[k].scan
    <3>1. CASE k = n
      BY <1>1, <2>1, <2>2, <2>3, <3>1
    <3>2. CASE k # n
      <4>1. k <= njobs /\ i # n
        BY <1>1, <2>1, <2>3, <3>2
      <4> QED BY <2>1, <2>3, <3>2, <4>1 DEF ScansStay
    <3> QED BY <3>1, <3>2
  <2> QED BY <1>2, <2>2, <2>3 DEF ScansStay
<1> QED BY <1>3, <1>4, JobsStep

LEMMA LastPlanStep ==
  ASSUME IInv, PlansInv, ReadYourWrites, CacheGrows, LastPlanReady, ~Expiry,
         faults' = faults, [Next]_vars
  PROVE  LastPlanReady'
<1> DEFINE c == cfg'.conds["plan"]
<1> SUFFICES ASSUME cache'.exists, ~cache'.deleting, c.reason = "Ready",
                    NEW i \in JobIds, jobs'[i].stage = "plan", jobs'[i].gen = c.gen,
                    jobs'[i].phase # "complete"
             PROVE  \E k \in JobIds : /\ k > i /\ jobs'[k].stage = "plan"
                                      /\ jobs'[k].gen = jobs'[i].gen
                                      /\ jobs'[k].phase = "complete"
  BY DEF LastPlanReady
<1>1. cache.exists /\ ~cache.deleting
  BY DEF CacheGrows
<1>2. ~PlanCreated
  <2> SUFFICES ASSUME PlanCreated PROVE FALSE
    OBVIOUS
  <2>1. cfg'.exists
    BY DEF PlanCreated, Ends
  <2> QED BY <2>1 DEF PlanCreated, PlansInv, CacheCurrent
<1>3. ASSUME NEW k \in JobIds, jobs[k].stage = "plan"
      PROVE  /\ SameLabels(k) /\ (jobs[k].phase = "complete" => jobs'[k].phase = "complete")
  <2>1. CASE JobsKeep
    BY <2>1 DEF JobsKeep, Running
  <2>2. ASSUME NEW stage, NEW p, Created(stage, p)
        PROVE  jobs'[k] = jobs[k]
    BY <1>3, <2>2 DEF Created
  <2> QED BY <2>1, <2>2, JobsStep DEF SameLabels
<1>4. jobs[i].stage = "plan"
  <2>1. CASE JobsKeep
    BY <2>1 DEF JobsKeep, SameLabels
  <2>2. CASE Created("apply", shown.plan.job) \/ Created("destroy", 0)
    BY <2>2 DEF Created
  <2> QED BY <1>2, <2>1, <2>2, JobsStep
<1>5. jobs[i].gen = c.gen /\ jobs[i].phase # "complete"
  BY <1>3, <1>4 DEF SameLabels
<1>6. \/ c = cfg.conds["plan"]
      \/ c = [reason |-> "Ready", gen |-> cache.gen] /\ PlanComplete
  BY StepKinds DEF Untouched, Quiet, PlanCreated, ApplyCreated, DestroyCreated, Cleaned,
     Written, Synced, PlatformMoves, Uploads, Reported, PlanEnded, CloudChanged,
     Expired, Moves, Ends, PlanTo, PlansInv, CacheCurrent
<1> HIDE DEF c
<1>7. \E k \in JobIds : /\ k > i /\ jobs[k].stage = "plan"
                        /\ jobs[k].gen = jobs[i].gen /\ jobs[k].phase = "complete"
  <2>1. CASE c = cfg.conds["plan"]
    BY <1>1, <1>4, <1>5, <2>1 DEF LastPlanReady
  <2>2. CASE c = [reason |-> "Ready", gen |-> cache.gen] /\ PlanComplete
    <3>1. c.gen = cache.gen
      BY <2>2
    <3> QED BY <1>4, <1>5, <2>2, <3>1, LastPlanDone
  <2> QED BY <1>6, <2>1, <2>2
<1> QED BY <1>3, <1>4, <1>7 DEF SameLabels

LEMMA GateStep ==
  ASSUME IInv, PlansInv, ReadYourWrites, Scanned, ScansStay, LastPlanReady, PolicyGate,
         ~Expiry, [Next]_vars
  PROVE  PolicyGate'
<1> SUFFICES ASSUME NEW i \in JobIds, jobs'[i].stage = "apply", jobs'[i].scan,
                    jobs'[i].current, jobs'[i].gen > 1
             PROVE  verdict'[jobs'[i].plan] = "passed"
  BY DEF PolicyGate
<1>1. ASSUME NEW p \in JobIds, verdict[p] = "passed"
      PROVE  verdict'[p] = "passed"
  <2>1. jobs[p].step = 2
    BY <1>1 DEF Scanned
  <2>2. verdict' = verdict \/ \E k \in JobIds : Reported(k)
    BY StepKinds DEF Untouched, Quiet, PlanCreated, ApplyCreated, DestroyCreated, Cleaned,
       Written, Synced, PlatformMoves, Uploads, PlanEnded, CloudChanged, Expired, storedSecrets
  <2>3. ASSUME NEW k \in JobIds, Reported(k)
        PROVE  verdict'[p] = verdict[p]
    BY <2>1, <2>3 DEF Reported
  <2> QED BY <1>1, <2>2, <2>3
<1>2. \A k \in JobIds : jobs[k].plan \in 0..MaxJobs /\ (jobs[k].plan # 0 => jobs[k].plan \in JobIds)
  BY JobTypes DEF IInv, TypeInv
<1>3. CASE jobs[i].stage = "apply"
  <2>1. SameLabels(i)
    BY <1>3, AppliesStep
  <2>2. verdict[jobs[i].plan] = "passed" /\ jobs[i].plan \in JobIds
    BY <1>2, <1>3, <2>1 DEF PolicyGate, SameLabels, PlansInv, ApplyMatchesPlan
  <2> QED BY <1>1, <2>1, <2>2 DEF SameLabels
<1>4. ASSUME ApplyCreated, Created("apply", shown.plan.job), i = njobs + 1
      PROVE  verdict'[jobs'[i].plan] = "passed"
  <2>1. /\ policyOn /\ shown = Stored /\ jobs'[i].plan = shown.plan.job
        /\ jobs'[i].gen = cache.gen
    BY <1>4 DEF Created
  <2>2. /\ shown.plan = planSecret /\ shown.report = report
    BY <2>1 DEF Stored
  <2>3. PlanComplete /\ report # 0 /\ verdict[report] = "passed"
    BY <1>4, <2>1, <2>2 DEF ApplyCreated, ReachesApply, PolicyPassed, PlanPassed, ReportFinds
  <2>4. planSecret.job = report
    BY <2>1, <2>3, ReportCurrent
  <2>5. planSecret.job \in JobIds
    BY <2>3, <2>4, JobTypes DEF IInv, TypeInv
  <2> QED BY <1>1, <2>1, <2>2, <2>3, <2>4, <2>5
<1> QED BY <1>3, <1>4, AppliesStep

LEMMA NextGateInv ==
  ASSUME IInv, IInv', PlansInv, ReadYourWrites, GateInv, [Next]_vars
  PROVE  GateInv'
<1> SUFFICES ASSUME ~Expiry, FALSE \notin PolicyChanges, faults' = 0
             PROVE  Scanned' /\ ScansStay' /\ LastPlanReady' /\ PolicyGate'
  BY DEF GateInv, Undisturbed
<1>1. faults \in Nat
  BY BoundsAssumption DEF IInv, TypeInv, TypeOK, BoundsAssumption
<1>2. faults' \in {faults, faults + 1}
  BY StepKinds DEF Untouched, Quiet, PlanCreated, ApplyCreated, DestroyCreated, Cleaned,
     Written, Synced, PlatformMoves, Uploads, Reported, PlanEnded, CloudChanged,
     Expired, Moves, Ends
<1>3. faults = 0 /\ faults' = faults
  BY <1>1, <1>2
<1>4. Scanned /\ ScansStay /\ LastPlanReady /\ PolicyGate
  BY <1>3 DEF GateInv, Undisturbed
<1>5. CacheGrows
  BY NextPlansInv
<1> QED BY <1>3, <1>4, <1>5, ScannedStep, ScansStep, LastPlanStep, GateStep

(***************************************************************************)
(* The policy gate: until an API call fails or the controller crashes, and *)
(* as long as no constraint is withdrawn and finished jobs are kept, an    *)
(* apply that is created while a constraint matches, from the second       *)
(* generation on and by a run that is shown the secrets as they are        *)
(* stored, is for a plan whose own scan has passed, although plan and      *)
(* report are secrets that every plan overwrites.                          *)
(***************************************************************************)
THEOREM ScannedBeforeApply ==
  ASSUME ReadYourWrites, ~Expiry, FALSE \notin PolicyChanges
  PROVE  Spec => [](faults = 0 => PolicyGate)
<1>1. Init => GateInv
  <2> SUFFICES ASSUME Init PROVE GateInv
    OBVIOUS
  <2>1. \A i \in JobIds : jobs[i].stage = "none" /\ ~jobs[i].scan /\ verdict[i] = "none"
    BY InitPlans DEF NoJob, Init
  <2>2. report = 0
    BY DEF Init
  <2> QED BY <2>1, <2>2 DEF GateInv, Scanned, ScansStay, LastPlanReady, PolicyGate
<1>2. IInv /\ PlansInv /\ GateInv /\ [Next]_vars => GateInv'
  BY NextIInv, NextGateInv
<1>3. GateInv => (faults = 0 => PolicyGate)
  BY DEF GateInv, Undisturbed
<1> QED BY <1>1, <1>2, <1>3, PlansInductive, PTL DEF Spec

-----------------------------------------------------------------------------
(***************************************************************************)
(* Drift checks.  Neither the stored nor the cached status acknowledges    *)
(* one that no plan job was created for.                                   *)
(***************************************************************************)
DriftPlanned(o) ==
  o.driftSeen # 0 =>
    \E i \in JobIds : jobs[i].stage = "plan" /\ jobs[i].drift = o.driftSeen

DriftInv == DriftPlanned(cfg) /\ DriftPlanned(cache)

LEMMA PlansStay ==
  ASSUME IInv, [Next]_vars, NEW i \in JobIds, jobs[i].stage = "plan"
  PROVE  jobs'[i].stage = "plan" /\ jobs'[i].drift = jobs[i].drift
<1>1. CASE Untouched \/ Quiet \/ Written \/ Synced \/ PlatformMoves
  BY <1>1 DEF Untouched, Quiet, Written, Synced, PlatformMoves
<1>2. CASE Cleaned
  BY <1>2, CleanedKeeps DEF IInv, JobsKeep, SameLabels
<1>3. ASSUME NEW stage, NEW p, Created(stage, p)
      PROVE  jobs'[i] = jobs[i]
  BY <1>3 DEF Created
<1>4. CASE \E k \in JobIds : \/ Uploads(k) \/ Reported(k) \/ PlanEnded(k)
                             \/ CloudChanged(k) \/ Expired(k)
  BY <1>4, MovesKeep DEF JobsKeep, SameLabels
<1> QED BY <1>1, <1>2, <1>3, <1>4, StepKinds, CreatedFacts
        DEF PlanCreated, ApplyCreated, DestroyCreated

(* The plan stage is passed with a plan job that carries the annotation. *)
LEMMA DriftPassed ==
  ASSUME PlanComplete, cache.drift, cache.driftAt # 0
  PROVE  \E i \in JobIds : jobs[i].stage = "plan" /\ jobs[i].drift = cache.driftAt
<1>1. PlanJobIs("complete")
  BY DEF PlanComplete, PlanSkipped
<1>2. PlanJobs(cache) \in SUBSET JobIds /\ PlanJobs(cache) # {}
  BY <1>1 DEF PlanJobs, Listed, PlanJobIs
<1> QED BY <1>2 DEF PlanJobs, WithLabel

LEMMA NextDriftInv ==
  ASSUME IInv, DriftInv, [Next]_vars
  PROVE  DriftInv'
<1> DEFINE Ran(d) == d # 0 => \E i \in JobIds : jobs'[i].stage = "plan" /\ jobs'[i].drift = d
<1>1. Ran(cfg.driftSeen) /\ Ran(cache.driftSeen)
  BY PlansStay DEF DriftInv, DriftPlanned
<1>2. ASSUME cache.drift, PlanComplete
      PROVE  Ran(cache.driftAt)
  BY <1>2, DriftPassed, PlansStay
<1>3. \/ Ends
      \/ cfg'.driftSeen = cfg.driftSeen /\ cache' = cache
      \/ cfg' = cfg /\ cache' \in {cache, cfg}
  BY StepKinds DEF Untouched, Quiet, PlanCreated, ApplyCreated, DestroyCreated, Cleaned,
     Written, Synced, PlatformMoves, Uploads, Reported, PlanEnded, CloudChanged,
     Expired, Moves
<1>4. CASE Ends
  <2>1. DriftTo(cfg'.driftSeen) /\ cache' \in {cfg', cache}
    BY <1>4 DEF Ends
  <2>2. Ran(cfg'.driftSeen)
    BY <1>1, <1>2, <2>1 DEF DriftTo
  <2> QED BY <1>1, <2>1, <2>2 DEF DriftInv, DriftPlanned
<1> QED BY <1>1, <1>3, <1>4 DEF DriftInv, DriftPlanned

(***************************************************************************)
(* A drift check the status acknowledges has been run as a plan job of its *)
(* own, whatever the caches show, the faults, and the jobs that expire.    *)
(***************************************************************************)
THEOREM DriftChecksRun == Spec => []DriftChecked
<1>1. Init => DriftInv
  BY InitPlans DEF DriftInv, DriftPlanned
<1>2. IInv /\ DriftInv /\ [Next]_vars => DriftInv'
  BY NextDriftInv
<1>3. DriftInv => DriftChecked
  BY DEF DriftInv, DriftPlanned, DriftChecked
<1> QED BY <1>1, <1>2, <1>3, Inductive, PTL DEF Spec

=============================================================================
