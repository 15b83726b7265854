------------------------------ MODULE Catalogue ------------------------------
(***************************************************************************)
(* One Plan, its Revisions and the CloudResources that use them: the plan, *)
(* revision and expire controllers (pkg/controller/plan, revision, expire) *)
(* and what the admission webhooks and the finalizer of the CloudResource  *)
(* controller do to the same objects (pkg/handlers/cloudresources).        *)
(*                                                                         *)
(* A Plan is never written by the user.  Its list of revisions is written  *)
(* by the reconciles of the Revisions, up to ten of them at a time, each   *)
(* with a merge patch that replaces the whole list by one computed from    *)
(* the CACHED Plan; its status is written by the plan controller.          *)
(*                                                                         *)
(* A Revision is its version: versions are numbers, ordered as semantic    *)
(* versions are, and the webhook admits one Revision per version.          *)
(*                                                                         *)
(* Variables:                                                              *)
(*   plan       the Plan as stored by the API server                       *)
(*   watch      the versions of the Plan the informer has not seen yet     *)
(*   planSeen   the Plan as the informer last saw it                       *)
(*   planQueued whether the plan controller's queue holds the Plan         *)
(*   revs       the Revisions as stored, and revsSeen as cached            *)
(*   crs        the CloudResources as stored, and crsSeen as cached        *)
(*   created    versions submitted so far (history)                        *)
(*   withdrawn  versions the user has deleted (history)                    *)
(***************************************************************************)
EXTENDS Naturals, Sequences, FiniteSets, FiniteSetsExt

CONSTANTS
  Versions,     \* the versions of the plan
  CRs,          \* the CloudResources that use the plan
  MaxLag,       \* bound: versions of the Plan an informer may be behind
  Withdrawals,  \* input: the versions the user may delete
  Wanted,       \* input: spec.plan.revision of a CloudResource, 0 if empty
  CacheLags     \* the caches of Revisions and CloudResources lag behind

ASSUME CatalogueAssumption ==
  /\ Versions \subseteq Nat \ {0} /\ IsFiniteSet(Versions) /\ IsFiniteSet(CRs)
  /\ MaxLag \in Nat \ {0}
  /\ Withdrawals \subseteq Versions /\ Wanted \subseteq Versions \cup {0}
  /\ CacheLags \in BOOLEAN

VARIABLES plan, watch, planSeen, planQueued, revs, revsSeen, crs, crsSeen,
          created, withdrawn

plans == <<plan, watch, planSeen, planQueued>>
revisions == <<revs, revsSeen>>
resources == <<crs, crsSeen>>
history == <<created, withdrawn>>

vars == <<plans, revisions, resources, history>>

Plan == [exists : BOOLEAN, deleting : BOOLEAN, finalizer : BOOLEAN,
         revisions : SUBSET Versions, latest : Versions \cup {0},
         ready : BOOLEAN]

Revision == [exists : BOOLEAN, deleting : BOOLEAN, finalizer : BOOLEAN,
             old : BOOLEAN, inUse : 0..Cardinality(CRs)]

CloudResource == [exists : BOOLEAN, deleting : BOOLEAN, finalizer : BOOLEAN,
                  revision : Versions \cup {0}, label : Versions \cup {0}]

NoPlan == [exists |-> FALSE, deleting |-> FALSE, finalizer |-> FALSE,
           revisions |-> {}, latest |-> 0, ready |-> FALSE]

NoRevision == [exists |-> FALSE, deleting |-> FALSE, finalizer |-> FALSE,
               old |-> FALSE, inUse |-> 0]

NoResource == [exists |-> FALSE, deleting |-> FALSE, finalizer |-> FALSE,
               revision |-> 0, label |-> 0]

Init ==
  /\ plan = NoPlan /\ planSeen = NoPlan /\ watch = <<>> /\ planQueued = FALSE
  /\ revs = [v \in Versions |-> NoRevision] /\ revsSeen = revs
  /\ crs = [c \in CRs |-> NoResource] /\ crsSeen = crs
  /\ created = {} /\ withdrawn = {}

-----------------------------------------------------------------------------
(***************************************************************************)
(* Writes.  Every version of the Plan reaches the informer in turn; the    *)
(* other caches show the newest version whenever they are brought up to    *)
(* date.  A delete only marks an object that has a finalizer.              *)
(***************************************************************************)
WritePlan(p) ==
  /\ p # plan => Len(watch) < MaxLag
  /\ plan' = p
  /\ watch' = IF p = plan THEN watch ELSE Append(watch, p)
  /\ UNCHANGED planSeen

WriteRevision(v, r) ==
  /\ revs' = [revs EXCEPT ![v] = r]
  /\ revsSeen' = IF CacheLags THEN revsSeen ELSE revs'

WriteResource(c, r) ==
  /\ crs' = [crs EXCEPT ![c] = r]
  /\ crsSeen' = IF CacheLags THEN crsSeen ELSE crs'

Deleted(o, none) ==
  IF o.exists /\ o.finalizer THEN [o EXCEPT !.deleting = TRUE] ELSE none

-----------------------------------------------------------------------------
(***************************************************************************)
(* The revision controller.  Its runs are repeated every ten minutes, so   *)
(* they are always possible.                                               *)
(***************************************************************************)
(* A finalizer is written with an update, which a stale read makes conflict. *)
AddRevisionFinalizer(v) ==
  /\ revsSeen[v].exists /\ ~revsSeen[v].deleting /\ ~revsSeen[v].finalizer
  /\ revsSeen[v] = revs[v]
  /\ WriteRevision(v, [revs[v] EXCEPT !.finalizer = TRUE])
  /\ UNCHANGED <<plans, resources, history>>

Reconciled(v) ==
  revsSeen[v].exists /\ ~revsSeen[v].deleting /\ revsSeen[v].finalizer

(* ensurePlanExists: no Plan, so one is created; an existing one conflicts. *)
CreatePlan(v) ==
  /\ Reconciled(v) /\ ~planSeen.exists /\ ~plan.exists
  /\ WritePlan([NoPlan EXCEPT !.exists = TRUE, !.revisions = {v}])
  /\ UNCHANGED <<planQueued, revisions, resources, history>>

(* The CloudResources the cache lists under the label of a version. *)
LabelledWith(v) == {c \in CRs : crsSeen[c].exists /\ crsSeen[c].label = v}

(* ensureInUseCount, and the status patch on a Revision that still exists. *)
CountUse(v) ==
  WriteRevision(v, IF revs[v].exists
                   THEN [revs[v] EXCEPT !.inUse = Cardinality(LabelledWith(v))]
                   ELSE revs[v])

(* Faulty: the list is not patched once the Plan exists. *)
ListOnlyOnce(v) ==
  /\ Reconciled(v) /\ planSeen.exists
  /\ CountUse(v)
  /\ UNCHANGED <<plans, resources, history>>

(* ensurePlanExists with a Plan, then ensureInUseCount.  The patch of a Plan *)
(* that is gone fails and ends the run.                                      *)
ListRevision(v) ==
  /\ Reconciled(v) /\ planSeen.exists
  /\ \/ v \in planSeen.revisions /\ UNCHANGED plans
     \/ /\ v \notin planSeen.revisions /\ plan.exists
        /\ WritePlan([plan EXCEPT !.revisions = planSeen.revisions \cup {v}])
        /\ UNCHANGED planQueued
  /\ CountUse(v)
  /\ UNCHANGED <<resources, history>>

(* Faulty: the run stops when the Plan is not found. *)
UnlistFromExisting(v) ==
  /\ revsSeen[v].exists /\ revsSeen[v].deleting
  /\ planSeen.exists /\ plan.exists
  /\ WritePlan([plan EXCEPT !.revisions = planSeen.revisions \ {v}])
  /\ WriteRevision(v, IF revsSeen[v] = revs[v] THEN NoRevision ELSE revs[v])
  /\ UNCHANGED <<planQueued, resources, history>>

(* ensureRevisionDeleted and EnsureRemoved. *)
UnlistRevision(v) ==
  /\ revsSeen[v].exists /\ revsSeen[v].deleting
  /\ \/ /\ planSeen.exists /\ v \in planSeen.revisions
        /\ plan.exists
        /\ WritePlan([plan EXCEPT !.revisions = planSeen.revisions \ {v}])
        /\ UNCHANGED planQueued
     \/ /\ ~planSeen.exists \/ v \notin planSeen.revisions
        /\ UNCHANGED plans
  /\ WriteRevision(v, IF revsSeen[v] = revs[v] THEN NoRevision ELSE revs[v])
  /\ UNCHANGED <<resources, history>>

RevisionRun(v) ==
  \/ AddRevisionFinalizer(v) \/ CreatePlan(v) \/ ListRevision(v)
  \/ UnlistRevision(v)

-----------------------------------------------------------------------------
(***************************************************************************)
(* The plan controller: woken by a new or removed Plan and a new           *)
(* generation, never by the clock.                                         *)
(***************************************************************************)
PlanNotFound ==
  /\ planQueued /\ ~planSeen.exists
  /\ planQueued' = FALSE
  /\ UNCHANGED <<plan, watch, planSeen, revisions, resources, history>>

(* The two updates of the finalizer; a conflict keeps the key queued. *)
AddPlanFinalizer ==
  /\ planQueued /\ planSeen.exists /\ ~planSeen.deleting /\ ~planSeen.finalizer
  /\ watch = <<>>
  /\ WritePlan([plan EXCEPT !.finalizer = TRUE])
  /\ UNCHANGED <<planQueued, revisions, resources, history>>

RemovePlanFinalizer ==
  /\ planQueued /\ planSeen.exists /\ planSeen.deleting
  /\ watch = <<>>
  /\ WritePlan(NoPlan)
  /\ planQueued' = FALSE
  /\ UNCHANGED <<revisions, resources, history>>

LatestOf(p) == IF p.revisions = {} THEN p.latest ELSE Max(p.revisions)

(* The status patch holds what differs from the Plan as it was read. *)
PlanStatus(p) ==
  IF p.exists
  THEN [p EXCEPT !.latest = IF LatestOf(planSeen) # planSeen.latest
                            THEN LatestOf(planSeen) ELSE @,
                 !.ready = @ \/ ~planSeen.ready]
  ELSE p

(* ensureLatestOnPlan, ensurePlanDeleted.  The delete fails on a Plan that *)
(* is gone, and the key is queued again.                                   *)
UpdatePlan ==
  /\ planQueued /\ planSeen.exists /\ ~planSeen.deleting /\ planSeen.finalizer
  /\ \/ /\ planSeen.revisions # {}
        /\ WritePlan(PlanStatus(plan))
        /\ planQueued' = FALSE
     \/ /\ planSeen.revisions = {} /\ plan.exists
        /\ WritePlan(PlanStatus(Deleted(plan, NoPlan)))
        /\ planQueued' = FALSE
  /\ UNCHANGED <<revisions, resources, history>>

PlanRun == PlanNotFound \/ AddPlanFinalizer \/ RemovePlanFinalizer \/ UpdatePlan

WakesPlan(old, new) ==
  \/ old.exists # new.exists \/ old.deleting # new.deleting
  \/ old.revisions # new.revisions

DeliverPlan ==
  /\ watch # <<>>
  /\ planSeen' = Head(watch)
  /\ watch' = Tail(watch)
  /\ planQueued' = (planQueued \/ WakesPlan(planSeen, planSeen'))
  /\ UNCHANGED <<plan, revisions, resources, history>>

-----------------------------------------------------------------------------
(***************************************************************************)
(* The expire controller, once an hour for every Revision.                 *)
(***************************************************************************)
Listed == {v \in Versions : revsSeen[v].exists}

(* Faulty: the latest one is not spared. *)
ExpirableAny(v) ==
  /\ revsSeen[v].exists /\ ~revsSeen[v].deleting /\ revsSeen[v].old
  /\ Cardinality(Listed) > 1
  /\ LabelledWith(v) = {}

Expirable(v) ==
  /\ revsSeen[v].exists /\ ~revsSeen[v].deleting /\ revsSeen[v].old
  /\ Cardinality(Listed) > 1
  /\ v # Max(Listed)
  /\ LabelledWith(v) = {}

Expire(v) ==
  /\ Expirable(v) /\ revs[v].exists
  /\ WriteRevision(v, Deleted(revs[v], NoRevision))
  /\ UNCHANGED <<plans, resources, history>>

-----------------------------------------------------------------------------
(***************************************************************************)
(* The CloudResources: the webhooks, which see the caches as well, and the *)
(* finalizer.  Every update is admitted anew, the controller's too.        *)
(***************************************************************************)
Admitted(version) ==
  /\ planSeen.exists /\ planSeen.ready
  /\ version \in planSeen.revisions
  /\ revsSeen[version].exists

(* The label is set before the revision is defaulted. *)
CreateResource(c, wanted) ==
  LET version == IF wanted = 0 THEN planSeen.latest ELSE wanted
  IN  /\ ~crs[c].exists
      /\ Admitted(version)
      /\ WriteResource(c, [NoResource EXCEPT !.exists = TRUE,
                             !.revision = version, !.label = wanted])
      /\ UNCHANGED <<plans, revisions, history>>

UpdateRevision(c, version) ==
  /\ crs[c].exists /\ ~crs[c].deleting /\ crs[c].revision # version
  /\ Admitted(version)
  /\ WriteResource(c, [crs[c] EXCEPT !.revision = version, !.label = version])
  /\ UNCHANGED <<plans, revisions, history>>

AddResourceFinalizer(c) ==
  /\ crsSeen[c].exists /\ ~crsSeen[c].deleting /\ ~crsSeen[c].finalizer
  /\ crsSeen[c] = crs[c] /\ Admitted(crs[c].revision)
  /\ WriteResource(c, [crs[c] EXCEPT !.finalizer = TRUE, !.label = crs[c].revision])
  /\ UNCHANGED <<plans, revisions, history>>

DeleteResource(c) ==
  /\ crs[c].exists /\ ~crs[c].deleting
  /\ WriteResource(c, Deleted(crs[c], NoResource))
  /\ UNCHANGED <<plans, revisions, history>>

(* EnsureRemoved, after the Configuration has gone. *)
ReleaseResource(c) ==
  /\ crsSeen[c].exists /\ crsSeen[c].deleting
  /\ crsSeen[c] = crs[c] /\ Admitted(crs[c].revision)
  /\ WriteResource(c, NoResource)
  /\ UNCHANGED <<plans, revisions, history>>

ResourceRun(c) == AddResourceFinalizer(c) \/ ReleaseResource(c)

-----------------------------------------------------------------------------
(***************************************************************************)
(* The user and time.                                                      *)
(***************************************************************************)
SubmitRevision(v) ==
  /\ v \notin created
  /\ created' = created \cup {v}
  /\ WriteRevision(v, [NoRevision EXCEPT !.exists = TRUE])
  /\ UNCHANGED <<plans, resources, withdrawn>>

WithdrawRevision(v) ==
  /\ v \in Withdrawals /\ revs[v].exists /\ ~revs[v].deleting
  /\ withdrawn' = withdrawn \cup {v}
  /\ WriteRevision(v, Deleted(revs[v], NoRevision))
  /\ UNCHANGED <<plans, resources, created>>

Age(v) ==
  /\ revs[v].exists /\ ~revs[v].old
  /\ revs' = [revs EXCEPT ![v].old = TRUE]
  /\ revsSeen' = [revsSeen EXCEPT ![v].old = @ \/ revsSeen[v].exists]
  /\ UNCHANGED <<plans, resources, history>>

SyncRevision(v) ==
  /\ revsSeen[v] # revs[v]
  /\ revsSeen' = [revsSeen EXCEPT ![v] = revs[v]]
  /\ UNCHANGED <<plans, revs, resources, history>>

SyncResource(c) ==
  /\ crsSeen[c] # crs[c]
  /\ crsSeen' = [crsSeen EXCEPT ![c] = crs[c]]
  /\ UNCHANGED <<plans, revisions, crs, history>>

Next ==
  \/ PlanRun \/ DeliverPlan
  \/ \E v \in Versions :
       \/ RevisionRun(v) \/ Expire(v) \/ SyncRevision(v)
       \/ SubmitRevision(v) \/ WithdrawRevision(v) \/ Age(v)
  \/ \E c \in CRs :
       \/ ResourceRun(c) \/ SyncResource(c) \/ DeleteResource(c)
       \/ \E wanted \in Wanted : CreateResource(c, wanted)
       \/ \E v \in Versions : UpdateRevision(c, v)

Spec == Init /\ [][Next]_vars

(***************************************************************************)
(* Watches deliver, queued keys are taken, and Revisions are reconciled    *)
(* again every ten minutes.  Expiry is not required to happen.             *)
(***************************************************************************)
Fairness ==
  /\ WF_vars(PlanRun) /\ WF_vars(DeliverPlan)
  /\ \A v \in Versions : WF_vars(RevisionRun(v)) /\ WF_vars(SyncRevision(v))
  /\ \A c \in CRs : WF_vars(ResourceRun(c)) /\ WF_vars(SyncResource(c))

FairSpec == Spec /\ Fairness

-----------------------------------------------------------------------------
Live(v) == revs[v].exists /\ ~revs[v].deleting

(***************************************************************************)
(* As long as the user deletes none, the highest version ever submitted is *)
(* never expired, however far the caches of the expire controller lag: a   *)
(* plan in use is not emptied by expiry (ensureMultipleRevisions,          *)
(* ensureNotLatest).                                                       *)
(***************************************************************************)
Highest(v) == v \in created /\ \A w \in created : w <= v

HighestKept ==
  withdrawn = {} => \A v \in Versions : Highest(v) => Live(v)

(***************************************************************************)
(* The Plan comes to list every Revision and keeps listing it, although    *)
(* concurrent patches of the whole list overwrite each other and an empty  *)
(* Plan may be deleted while a Revision is added to it (ensurePlanExists,  *)
(* ensurePlanDeleted, and the ten minute requeue that repairs both).       *)
(***************************************************************************)
RevisionsListed ==
  <>[](\A v \in Versions :
         Live(v) => plan.exists /\ ~plan.deleting /\ v \in plan.revisions)

(***************************************************************************)
(* The deletion of a Revision ends, also when the Plan goes at the same    *)
(* time (ensureRevisionDeleted, EnsureRemoved).                            *)
(***************************************************************************)
RevisionDeletionEnds ==
  \A v \in Versions : revs[v].deleting ~> ~revs[v].exists

(***************************************************************************)
(* The deletion of a CloudResource ends once its Configuration is gone     *)
(* (EnsureRemoved behind the validating webhook).                          *)
(***************************************************************************)
ResourceDeletionEnds ==
  \A c \in CRs : crs[c].deleting ~> ~crs[c].exists

=============================================================================
