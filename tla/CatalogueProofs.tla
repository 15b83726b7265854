--------------------------- MODULE CatalogueProofs ---------------------------
(***************************************************************************)
(* That the highest version submitted survives expiry, for any number of   *)
(* versions and CloudResources and any lag of the caches.                  *)
(*                                                                         *)
(* The property is about stored Revisions, and the expire controller works *)
(* on cached ones.  The strengthening says what the cache can show: only   *)
(* versions that were submitted, and no deletion of one that is live.      *)
(***************************************************************************)
EXTENDS Catalogue, FiniteSetTheorems, TLAPS

Stored == [exists : BOOLEAN, deleting : BOOLEAN, finalizer : BOOLEAN,
           old : BOOLEAN, inUse : Nat]

Shape ==
  /\ revs \in [Versions -> Stored] /\ revsSeen \in [Versions -> Stored]
  /\ created \subseteq Versions

Submitted ==
  \A v \in Versions :
    revs[v].exists \/ revs[v].deleting \/ revsSeen[v].exists => v \in created

SeenDeleting ==
  \A v \in Versions : revsSeen[v].deleting => v \in created /\ ~Live(v)

ExpiryInv == Shape /\ Submitted /\ SeenDeleting /\ HighestKept

(***************************************************************************)
(* The revisions are what the invariant is about: a step that leaves them  *)
(* and the history alone preserves it.                                     *)
(***************************************************************************)
LEMMA Untouched ==
  ASSUME ExpiryInv, UNCHANGED <<revisions, history>>
  PROVE  ExpiryInv'
BY DEF ExpiryInv, Shape, Submitted, SeenDeleting, HighestKept, Highest, Live,
       revisions, history, Stored

(***************************************************************************)
(* The count of ensureInUseCount is a number.                              *)
(***************************************************************************)
LEMMA UseIsNat ==
  ASSUME NEW v
  PROVE  Cardinality(LabelledWith(v)) \in Nat
<1>1. LabelledWith(v) \subseteq CRs
  BY DEF LabelledWith
<1>2. IsFiniteSet(CRs)
  BY CatalogueAssumption
<1> QED
  BY <1>1, <1>2, FS_Subset, FS_CardinalityType

(***************************************************************************)
(* A write of a Revision that was submitted preserves the invariant when   *)
(* the Revision does not come to life by it, and does not die by it unless *)
(* it is not the highest or the user has deleted one.                      *)
(***************************************************************************)
LEMMA Write ==
  ASSUME ExpiryInv, NEW v \in Versions, NEW r \in Stored,
         v \in created, WriteRevision(v, r), UNCHANGED created,
         withdrawn' = {} => withdrawn = {},
         r.exists /\ ~r.deleting => Live(v),
         withdrawn' = {} /\ Highest(v) => r.exists /\ ~r.deleting
  PROVE  ExpiryInv'
<1> USE DEF ExpiryInv, WriteRevision
<1>1. Shape'
  BY DEF Shape
<1>2. \A w \in Versions : w # v => revs'[w] = revs[w]
  BY DEF Shape
<1>3. revs'[v] = r
  BY DEF Shape
<1>4. Submitted'
  BY <1>2, <1>3 DEF Submitted
<1>5. \A w \in Versions : ~Live(w) => ~Live(w)'
  BY <1>2, <1>3 DEF Live, Stored
<1>6. SeenDeleting'
  <2>1. CASE CacheLags
    BY <2>1, <1>5 DEF SeenDeleting, Shape
  <2>2. CASE ~CacheLags
    BY <2>2, <1>2, <1>3, <1>4, <1>5 DEF SeenDeleting, Live, Submitted
  <2> QED BY <2>1, <2>2
<1>7. HighestKept'
  BY <1>2, <1>3 DEF HighestKept, Highest, Live
<1> QED BY <1>1, <1>4, <1>6, <1>7

(***************************************************************************)
(* Deleting a Revision marks it or removes it.                             *)
(***************************************************************************)
LEMMA DeletedStored ==
  ASSUME NEW r \in Stored
  PROVE  /\ Deleted(r, NoRevision) \in Stored
         /\ ~(Deleted(r, NoRevision).exists /\ ~Deleted(r, NoRevision).deleting)
BY DEF Deleted, NoRevision, Stored

LEMMA InitExpiry == Init => ExpiryInv
BY DEF Init, ExpiryInv, Shape, Submitted, SeenDeleting, HighestKept, Highest,
       Live, NoRevision, Stored

(***************************************************************************)
(* The revision controller: it takes up a Revision again only when the     *)
(* cache shows it deleted, and then it is.                                 *)
(***************************************************************************)
LEMMA RevisionRunStep ==
  ASSUME ExpiryInv, NEW v \in Versions, RevisionRun(v)
  PROVE  ExpiryInv'
<1>0. revs[v] \in Stored /\ revsSeen[v] \in Stored /\ NoRevision \in Stored
  BY DEF ExpiryInv, Shape, NoRevision, Stored
<1>a. revsSeen[v].exists => v \in created
  BY DEF ExpiryInv, Submitted
<1>k. withdrawn = {} /\ Highest(v) => Live(v)
  BY DEF ExpiryInv, HighestKept
<1>1. CASE AddRevisionFinalizer(v)
  <2>1. [revs[v] EXCEPT !.finalizer = TRUE] \in Stored
    BY <1>0 DEF Stored
  <2>2. WriteRevision(v, [revs[v] EXCEPT !.finalizer = TRUE])
    BY <1>1 DEF AddRevisionFinalizer
  <2>3. Live(v) /\ v \in created /\ UNCHANGED <<created, withdrawn>>
    BY <1>1, <1>a DEF AddRevisionFinalizer, Live, history
  <2> QED BY <1>0, <2>1, <2>2, <2>3, Write DEF Live, Stored
<1>2. CASE CreatePlan(v)
  BY <1>2, Untouched DEF CreatePlan
<1>3. CASE ListRevision(v)
  <2> DEFINE r == IF revs[v].exists
                  THEN [revs[v] EXCEPT !.inUse = Cardinality(LabelledWith(v))]
                  ELSE revs[v]
  <2>1. r \in Stored /\ r.exists = revs[v].exists /\ r.deleting = revs[v].deleting
    BY <1>0, UseIsNat DEF Stored
  <2>2. WriteRevision(v, r)
    BY <1>3 DEF ListRevision, CountUse
  <2>3. v \in created /\ UNCHANGED <<created, withdrawn>>
    BY <1>3, <1>a DEF ListRevision, Reconciled, history
  <2> HIDE DEF r
  <2> QED BY <2>1, <2>2, <2>3, <1>k, Write DEF Live
<1>4. CASE UnlistRevision(v)
  <2> DEFINE r == IF revsSeen[v] = revs[v] THEN NoRevision ELSE revs[v]
  <2>1. r \in Stored
    BY <1>0
  <2>2. WriteRevision(v, r)
    BY <1>4 DEF UnlistRevision
  <2>3. v \in created /\ UNCHANGED <<created, withdrawn>> /\ ~Live(v)
    BY <1>4, <1>a DEF UnlistRevision, history, ExpiryInv, SeenDeleting
  <2>4. ~(r.exists /\ ~r.deleting)
    BY <2>3 DEF NoRevision, Live
  <2> HIDE DEF r
  <2> QED BY <2>1, <2>2, <2>3, <2>4, <1>k, Write
<1> QED BY <1>1, <1>2, <1>3, <1>4 DEF RevisionRun

(***************************************************************************)
(* The expire controller: the highest version submitted is the highest one *)
(* the cache lists, if the cache lists it at all.                          *)
(***************************************************************************)
LEMMA ExpireStep ==
  ASSUME ExpiryInv, NEW v \in Versions, Expire(v)
  PROVE  ExpiryInv'
<1>1. v \in Listed /\ v # Max(Listed) /\ revs[v].exists
  BY DEF Expire, Expirable, Listed
<1>2. Listed \subseteq created
  BY DEF Listed, ExpiryInv, Submitted
<1>3. Versions \subseteq Nat
  BY CatalogueAssumption
<1>4. ~Highest(v)
  <2> SUFFICES ASSUME Highest(v) PROVE FALSE
    OBVIOUS
  <2>1. v \in Listed /\ \A w \in Listed : v >= w
    BY <1>1, <1>2, <1>3 DEF Highest, Listed
  <2>2. Max(Listed) \in Listed /\ \A w \in Listed : Max(Listed) >= w
    BY <2>1 DEF Max
  <2>3. Listed \subseteq Nat
    BY <1>3 DEF Listed
  <2> DEFINE m == Max(Listed)
  <2>4. m \in Nat /\ v \in Nat /\ m >= v /\ v >= m
    BY <2>1, <2>2, <2>3
  <2>5. m # v
    BY <1>1
  <2> HIDE DEF m
  <2> QED BY <2>4, <2>5
<1>5. revs[v] \in Stored
  BY DEF ExpiryInv, Shape
<1>6. WriteRevision(v, Deleted(revs[v], NoRevision)) /\ UNCHANGED <<created, withdrawn>>
  BY DEF Expire, history
<1>7. v \in created
  BY <1>1, <1>2
<1> QED BY <1>4, <1>5, <1>6, <1>7, DeletedStored, Write

(***************************************************************************)
(* The user: a new version is live from the start, and a deletion by the   *)
(* user ends what is promised.                                             *)
(***************************************************************************)
LEMMA SubmitStep ==
  ASSUME ExpiryInv, NEW v \in Versions, SubmitRevision(v)
  PROVE  ExpiryInv'
<1> DEFINE r == [NoRevision EXCEPT !.exists = TRUE]
<1>0. v \notin created /\ created' = created \cup {v} /\ UNCHANGED withdrawn
  BY DEF SubmitRevision
<1>1. r \in Stored /\ r.exists /\ ~r.deleting
  BY DEF NoRevision, Stored
<1>2. WriteRevision(v, r)
  BY DEF SubmitRevision
<1>3. revs' = [revs EXCEPT ![v] = r]
      /\ revsSeen' = IF CacheLags THEN revsSeen ELSE revs'
  BY <1>2 DEF WriteRevision
<1> HIDE DEF r
<1>4. Shape'
  BY <1>0, <1>1, <1>3 DEF ExpiryInv, Shape
<1>5. revs'[v] = r /\ \A w \in Versions : w # v => revs'[w] = revs[w]
  BY <1>3 DEF ExpiryInv, Shape
<1>6. Submitted'
  BY <1>0, <1>1, <1>3, <1>5 DEF ExpiryInv, Submitted
<1>7. SeenDeleting'
  <2>1. CASE CacheLags
    BY <2>1, <1>0, <1>1, <1>3, <1>5 DEF ExpiryInv, SeenDeleting, Live
  <2>2. CASE ~CacheLags
    BY <2>2, <1>0, <1>1, <1>3, <1>5, <1>6 DEF SeenDeleting, Live, Submitted
  <2> QED BY <2>1, <2>2
<1>8. HighestKept'
  BY <1>0, <1>1, <1>5 DEF ExpiryInv, HighestKept, Highest, Live
<1> QED BY <1>4, <1>6, <1>7, <1>8 DEF ExpiryInv

LEMMA WithdrawStep ==
  ASSUME ExpiryInv, NEW v \in Versions, WithdrawRevision(v)
  PROVE  ExpiryInv'
<1>1. revs[v] \in Stored /\ v \in created
  BY DEF WithdrawRevision, ExpiryInv, Shape, Submitted
<1>2. WriteRevision(v, Deleted(revs[v], NoRevision)) /\ UNCHANGED created
      /\ withdrawn' # {}
  BY DEF WithdrawRevision
<1> QED BY <1>1, <1>2, DeletedStored, Write

LEMMA AgeStep ==
  ASSUME ExpiryInv, NEW v \in Versions, Age(v) \/ SyncRevision(v)
  PROVE  ExpiryInv'
<1>1. UNCHANGED <<created, withdrawn>>
  BY DEF Age, SyncRevision, history
<1>2. CASE Age(v)
  <2>1. Shape'
    BY <1>1, <1>2 DEF Age, ExpiryInv, Shape, Stored
  <2>2. \A w \in Versions :
          /\ revs'[w].exists = revs[w].exists /\ revs'[w].deleting = revs[w].deleting
          /\ revsSeen'[w].exists = revsSeen[w].exists
          /\ revsSeen'[w].deleting = revsSeen[w].deleting
    BY <1>2 DEF Age, ExpiryInv, Shape, Stored
  <2> QED BY <1>1, <2>1, <2>2
          DEF ExpiryInv, Submitted, SeenDeleting, HighestKept, Highest, Live
<1>3. CASE SyncRevision(v)
  <2>1. Shape'
    BY <1>1, <1>3 DEF SyncRevision, ExpiryInv, Shape
  <2>2. /\ revs' = revs
        /\ \A w \in Versions : revsSeen'[w] \in {revs[w], revsSeen[w]}
    BY <1>3 DEF SyncRevision, ExpiryInv, Shape
  <2> QED BY <1>1, <2>1, <2>2
          DEF ExpiryInv, Submitted, SeenDeleting, HighestKept, Highest, Live
<1> QED BY <1>2, <1>3

LEMMA NextExpiry ==
  ASSUME ExpiryInv, [Next]_vars
  PROVE  ExpiryInv'
<1>1. CASE PlanRun \/ DeliverPlan
  BY <1>1, Untouched
     DEF PlanRun, DeliverPlan, PlanNotFound, AddPlanFinalizer,
         RemovePlanFinalizer, UpdatePlan
<1>2. ASSUME NEW v \in Versions,
             RevisionRun(v) \/ Expire(v) \/ SyncRevision(v)
             \/ SubmitRevision(v) \/ WithdrawRevision(v) \/ Age(v)
      PROVE  ExpiryInv'
  BY <1>2, RevisionRunStep, ExpireStep, SubmitStep, WithdrawStep, AgeStep
<1>3. ASSUME NEW c \in CRs,
             \/ ResourceRun(c) \/ SyncResource(c) \/ DeleteResource(c)
             \/ \E wanted \in Wanted : CreateResource(c, wanted)
             \/ \E v \in Versions : UpdateRevision(c, v)
      PROVE  ExpiryInv'
  <2>1. UNCHANGED <<revisions, history>>
    BY <1>3 DEF ResourceRun, AddResourceFinalizer, ReleaseResource, SyncResource,
                DeleteResource, CreateResource, UpdateRevision
  <2> QED BY <2>1, Untouched
<1>4. CASE UNCHANGED vars
  BY <1>4, Untouched DEF vars
<1> QED BY <1>1, <1>2, <1>3, <1>4 DEF Next

(***************************************************************************)
(* The highest version submitted is never expired, for every value of the  *)
(* constants: expiry leaves a plan its latest revision.                    *)
(***************************************************************************)
THEOREM ExpirySafe == Spec => []HighestKept
<1>1. ExpiryInv => HighestKept
  BY DEF ExpiryInv
<1> QED BY <1>1, InitExpiry, NextExpiry, PTL DEF Spec

=============================================================================
