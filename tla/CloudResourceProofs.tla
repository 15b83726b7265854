------------------------- MODULE CloudResourceProofs -------------------------
(***************************************************************************)
(* The proof that terraform apply runs for a CloudResource only with an    *)
(* approval, although the approval has two copies that two controllers     *)
(* write, for any number of edits, retries, failed calls and               *)
(* Configurations. Caches show what is stored and the second patch of a    *)
(* withdrawn approval is carried out (Undisturbed); without the latter the *)
(* property fails. Most steps leave the approval alone (QuietStep); the    *)
(* others are taken one by one.                                            *)
(***************************************************************************)
EXTENDS CloudResource, TLAPS

(* The types, as wide as the proof allows. *)
Specced == {Render(Specs[g]) : g \in Generations} \cup {NoSpec}
Updates == Versions \cup {0} \cup {Max(S) : S \in (SUBSET Versions) \ {{}}}
Reasons == {"NotDetermined", "ActionRequired", "Error", "Deleting", "Ready"}

OrderType ==
  [exists : BOOLEAN, gen : Generations, apply : Annotation, retry : Nat,
   deleting : BOOLEAN, finalizer : BOOLEAN, name : Names \cup {0},
   shown : Phases, update : Updates, ready : Reasons]

ConfigType ==
  [exists : BOOLEAN, spec : Specced, of : Generations, gen : Nat,
   apply : Annotation, retry : Nat, tried : Nat, deleting : BOOLEAN,
   finalizer : BOOLEAN, planned : Nat, phase : Phases]

Shape ==
  /\ cr \in OrderType
  /\ cfgs \in [Names -> ConfigType]
  /\ plan \subseteq Versions
  /\ resetting \in Names \cup {0}
  /\ applied \subseteq Generations

(* The caches show what is stored. *)
Synced == crSeen = cr /\ cfgsSeen = cfgs

(* There is one Configuration at most. *)
Single == \A i, j \in Names : cfgs[i].exists /\ cfgs[j].exists => i = j

(* The Configuration whose approval is being withdrawn stays until it is. *)
Resets == resetting # 0 => cfgs[resetting].exists /\ cfgs[resetting].finalizer

(* A Configuration is what a generation of the CloudResource that can be   *)
(* set rendered to, and no plan of it is ahead.                            *)
Follows(i) ==
  cfgs[i].exists => /\ cfgs[i].spec = Render(Specs[cfgs[i].of])
                    /\ Settable(Specs[cfgs[i].of])
                    /\ cfgs[i].of <= cr.gen
                    /\ cfgs[i].planned <= cfgs[i].gen

(* A plan of the current generation of Configuration i waits for approval  *)
(* or has been applied.                                                    *)
Due(i) ==
  /\ cfgs[i].exists /\ ~Specs[cfgs[i].of].auto /\ cfgs[i].planned = cfgs[i].gen

(* The CloudResource is about to copy an approval onto Configuration i,    *)
(* for what i already is.                                                  *)
Pushes(i) == cr.exists /\ cr.gen = cfgs[i].of /\ cr.apply = "true"

(* An approval on a Configuration with a plan was given for it. *)
Earned(i) == Due(i) /\ cfgs[i].apply = "true" => cfgs[i].of \in approved

(* So was one that is about to be copied onto it. *)
PushEarned(i) == Due(i) /\ Pushes(i) => cfgs[i].of \in approved

(* Where an approval has been withdrawn on both objects, one on the        *)
(* CloudResource is a new one.                                             *)
Withdrawn(i) ==
  /\ cfgs[i].exists /\ cfgs[i].apply = "false" /\ resetting # i /\ Pushes(i)
  => cfgs[i].of \in approved

(* What was applied was approved. *)
Allowed == \A g \in applied : g \in approved \/ Specs[g].auto

Core ==
  /\ Shape /\ Synced /\ Single /\ Resets /\ Allowed
  /\ \A i \in Names : Follows(i) /\ Earned(i) /\ PushEarned(i) /\ Withdrawn(i)

(* What the invariant is about. *)
Undisturbed == world.lag = {} /\ ~world.resetFails

(* The inductive invariant. *)
IInv == Undisturbed => Core

(* Every edit of the CloudResource changes what it renders to, if it can   *)
(* be rendered.                                                            *)
EditsDiffer ==
  \A g, h \in {k \in Generations : Settable(Specs[k])} :
    Render(Specs[g]) = Render(Specs[h]) => g = h

-----------------------------------------------------------------------------
(* Steps that leave the approval alone. *)
QuietOrder ==
  /\ cr' \in OrderType
  /\ cr'.exists => cr.exists
  /\ cr'.gen = cr.gen
  /\ cr'.apply = "true" => cr.apply = "true"

QuietConfig(i) ==
  cfgs'[i].exists =>
    /\ cfgs[i].exists
    /\ cfgs'[i].spec = cfgs[i].spec /\ cfgs'[i].of = cfgs[i].of
    /\ cfgs'[i].gen = cfgs[i].gen /\ cfgs'[i].planned = cfgs[i].planned
    /\ cfgs'[i].apply = cfgs[i].apply

QuietStep ==
  /\ QuietOrder
  /\ cfgs' \in [Names -> ConfigType]
  /\ \A i \in Names : QuietConfig(i)
  /\ plan' \subseteq Versions
  /\ Synced' /\ Resets'
  /\ resetting' = resetting /\ approved' = approved /\ applied' = applied

(* A step that leaves the approval alone preserves the invariant. *)
LEMMA QuietInv ==
  ASSUME Core, QuietStep
  PROVE  Core'
<1>1. Shape'
  BY DEF Core, Shape, QuietStep, QuietOrder
<1>2. Synced' /\ Resets'
  BY DEF QuietStep
<1>3. Single'
  BY DEF Core, Single, QuietStep, QuietConfig
<1>4. Allowed'
  BY DEF Core, Allowed, QuietStep
<1>5. ASSUME NEW i \in Names
      PROVE  Follows(i)' /\ Earned(i)' /\ PushEarned(i)' /\ Withdrawn(i)'
  <2>1. Follows(i)'
    BY DEF Core, Follows, QuietStep, QuietConfig, QuietOrder
  <2>2. Due(i)' => Due(i) /\ cfgs'[i].of = cfgs[i].of /\ cfgs'[i].apply = cfgs[i].apply
    BY DEF Due, QuietStep, QuietConfig
  <2>3. cfgs'[i].exists /\ Pushes(i)' => Pushes(i)
    BY DEF Pushes, QuietStep, QuietConfig, QuietOrder
  <2>4. Earned(i)' /\ PushEarned(i)'
    BY <2>2, <2>3 DEF Core, Earned, PushEarned, QuietStep, Due
  <2>5. Withdrawn(i)'
    BY <2>3 DEF Core, Withdrawn, QuietStep, QuietConfig
  <2> QED
    BY <2>1, <2>4, <2>5
<1> QED
  BY <1>1, <1>2, <1>3, <1>4, <1>5 DEF Core

-----------------------------------------------------------------------------
(* A CloudResource of which only the status has changed. *)
SameOrder(o) ==
  /\ o \in OrderType
  /\ o.exists = cr.exists /\ o.gen = cr.gen /\ o.apply = cr.apply

(* The patch of the status changes nothing else. *)
LEMMA StatusPatchEffect ==
  ASSUME cr \in OrderType, NEW n \in OrderType
  PROVE  SameOrder(StatusPatch(cr, n))
<1>1. CASE ~cr.exists
  BY <1>1 DEF StatusPatch, SameOrder
<1>2. CASE cr.exists
  <2> DEFINE r == IF n.ready # crSeen.ready THEN n.ready ELSE cr.ready
             m == IF n.name # crSeen.name THEN n.name ELSE cr.name
             s == IF n.shown # crSeen.shown THEN n.shown ELSE cr.shown
             u == IF n.update # crSeen.update THEN n.update ELSE cr.update
             o1 == [cr EXCEPT !.ready = r]
             o2 == [o1 EXCEPT !.name = m]
             o3 == [o2 EXCEPT !.shown = s]
             o4 == [o3 EXCEPT !.update = u]
  <2>0. r \in Reasons /\ m \in Names \cup {0} /\ s \in Phases /\ u \in Updates
    BY DEF OrderType
  <2>1. SameOrder(o1) /\ o1.name = cr.name /\ o1.shown = cr.shown /\ o1.update = cr.update
    <3> HIDE DEF r
    <3> QED
      BY <2>0 DEF OrderType, SameOrder
  <2>2. SameOrder(o2) /\ o2.shown = cr.shown /\ o2.update = cr.update
    <3> HIDE DEF o1, m
    <3> QED
      BY <2>0, <2>1 DEF OrderType, SameOrder
  <2>3. SameOrder(o3) /\ o3.update = cr.update
    <3> HIDE DEF o2, s
    <3> QED
      BY <2>0, <2>2 DEF OrderType, SameOrder
  <2>4. SameOrder(o4)
    <3> HIDE DEF o3, u
    <3> QED
      BY <2>0, <2>3 DEF OrderType, SameOrder
  <2>5. StatusPatch(cr, n) = o4
    BY <1>2, <2>1, <2>2, <2>3 DEF StatusPatch
  <2> QED
    BY <2>4, <2>5
<1> QED
  BY <1>1, <1>2

(* A status with a reason. *)
LEMMA SaysType ==
  ASSUME Core, NEW r \in Reasons
  PROVE  Says(r) \in OrderType
BY DEF Core, Shape, Synced, Says, OrderType

(* A status that shows a Configuration. *)
LEMMA ShownType ==
  ASSUME Core, NEW i \in Names, NEW p \in Phases
  PROVE  Shown(i, p) \in OrderType
<1> DEFINE o1 == [Says("Ready") EXCEPT !.name = i]
           o2 == [o1 EXCEPT !.shown = p]
           o3 == [o2 EXCEPT !.update = UpdateAvailable]
<1>1. UpdateAvailable \in Updates
  BY DEF UpdateAvailable, Updates, Core, Shape
<1>2. o1 \in OrderType
  <2>1. Says("Ready") \in OrderType
    BY SaysType DEF Reasons
  <2> QED
    BY <2>1 DEF OrderType
<1>3. o2 \in OrderType
  <2> HIDE DEF o1
  <2> QED
    BY <1>2 DEF OrderType
<1>4. o3 \in OrderType
  <2> HIDE DEF o2
  <2> QED
    BY <1>1, <1>3 DEF OrderType
<1> QED
  BY <1>4 DEF Shown

(* The end of a run changes the status at most. *)
LEMMA FinishEffect ==
  ASSUME Core, Undisturbed, NEW n \in OrderType, Finish(cr, n)
  PROVE  SameOrder(cr') /\ crSeen' = cr'
<1>1. cr \in OrderType
  BY DEF Core, Shape
<1>2. SameOrder(cr) /\ SameOrder(StatusPatch(cr, n))
  BY <1>1, StatusPatchEffect DEF SameOrder
<1>3. cr' \in {cr, StatusPatch(cr, n)} /\ crSeen' = cr'
  BY DEF Finish, WriteOrder, Undisturbed
<1> QED
  BY <1>2, <1>3

(* A quiet step of the CloudResource alone. *)
LEMMA OrderOnlyQuiet ==
  ASSUME Core, QuietOrder, crSeen' = cr', UNCHANGED <<configurations, resetting, history>>,
         plan' \subseteq Versions
  PROVE  QuietStep
BY DEF Core, Shape, Synced, Resets, QuietStep, QuietConfig, configurations, history

(* A change of the status is quiet. *)
LEMMA SameIsQuiet ==
  ASSUME SameOrder(cr')
  PROVE  QuietOrder
BY DEF SameOrder, QuietOrder

(* What a write of a Configuration does. *)
LEMMA ConfigWritten ==
  ASSUME Core, Undisturbed, NEW i \in Names, NEW c \in ConfigType, WriteConfiguration(i, c)
  PROVE  /\ cfgs' = [cfgs EXCEPT ![i] = c] /\ cfgsSeen' = cfgs'
         /\ cfgs' \in [Names -> ConfigType]
BY DEF Core, Shape, Undisturbed, WriteConfiguration

(* A Configuration that is written without a change of its approval. *)
QuietWrite(i, c) ==
  /\ c \in ConfigType
  /\ c.exists =>
       /\ cfgs[i].exists /\ c.spec = cfgs[i].spec /\ c.of = cfgs[i].of
       /\ c.gen = cfgs[i].gen /\ c.planned = cfgs[i].planned /\ c.apply = cfgs[i].apply
  /\ resetting = i => c.exists /\ c.finalizer

(* A quiet write of one Configuration. *)
LEMMA ConfigWriteQuiet ==
  ASSUME Core, Undisturbed, NEW i \in Names, NEW c, WriteConfiguration(i, c), QuietWrite(i, c),
         SameOrder(cr'), crSeen' = cr', plan' = plan, resetting' = resetting, UNCHANGED history
  PROVE  QuietStep
<1>1. /\ cfgs' = [cfgs EXCEPT ![i] = c] /\ cfgsSeen' = cfgs'
      /\ cfgs' \in [Names -> ConfigType]
  BY ConfigWritten DEF QuietWrite
<1>2. \A j \in Names : QuietConfig(j)
  BY <1>1 DEF QuietConfig, QuietWrite, Core, Shape
<1>3. Synced' /\ Resets'
  BY <1>1 DEF Synced, Resets, QuietWrite, Core, Shape
<1> QED
  BY <1>1, <1>2, <1>3, SameIsQuiet DEF QuietStep, Core, Shape, history

(* A deletion is a quiet write. *)
LEMMA DeletedQuiet ==
  ASSUME Core, NEW i \in Names, cfgs[i].exists
  PROVE  QuietWrite(i, Deleted(cfgs[i]))
<1>1. cfgs[i] \in ConfigType
  BY DEF Core, Shape
<1>2. CASE cfgs[i].finalizer
  BY <1>1, <1>2 DEF Deleted, QuietWrite, ConfigType
<1>3. CASE ~cfgs[i].finalizer
  <2>1. i # 0
    BY MaxConfigsAssumption DEF Names
  <2>2. resetting # i
    BY <1>3, <2>1 DEF Core, Resets
  <2>3. Deleted(cfgs[i]) = [cfgs[i] EXCEPT !.exists = FALSE]
    BY <1>3 DEF Deleted
  <2>4. Deleted(cfgs[i]) \in ConfigType /\ ~Deleted(cfgs[i]).exists
    BY <1>1, <2>3 DEF ConfigType
  <2> QED
    BY <2>2, <2>4 DEF QuietWrite
<1> QED
  BY <1>2, <1>3

(* The stamp at the end of a run changes nothing the proof is about. *)
LEMMA StampedEffect ==
  ASSUME NEW c \in ConfigType
  PROVE  /\ Stamped(c) \in ConfigType /\ Stamped(c).exists = c.exists
         /\ Stamped(c).spec = c.spec /\ Stamped(c).of = c.of /\ Stamped(c).gen = c.gen
         /\ Stamped(c).planned = c.planned /\ Stamped(c).apply = c.apply
         /\ Stamped(c).finalizer = c.finalizer
BY DEF Stamped, ConfigType

-----------------------------------------------------------------------------
(* The runs of the CloudResource controller that neither create nor patch  *)
(* a Configuration.                                                        *)
LEMMA OrderRunQuiet ==
  ASSUME Core, Undisturbed,
         \/ EnsureFinalizer \/ RevisionMissing \/ CallFails \/ MultipleConfigurations
         \/ NotRendered \/ DeleteConfiguration \/ AwaitConfiguration \/ ReleaseOrder
         \/ \E i \in Names : ConfigurationGone(i)
  PROVE  Core'
<1> USE DEF setting, history
<1>1. cr \in OrderType /\ crSeen = cr /\ cfgsSeen = cfgs /\ plan \subseteq Versions
  BY DEF Core, Shape, Synced
<1>2. \A r \in Reasons : Says(r) \in OrderType
  BY SaysType
<1>3. CASE EnsureFinalizer \/ ReleaseOrder
  <2>1. crSeen' = cr' /\ QuietOrder
    <3>1. CASE EnsureFinalizer
      BY <1>1, <3>1 DEF EnsureFinalizer, WriteOrder, Undisturbed, QuietOrder, OrderType
    <3>2. CASE ReleaseOrder
      BY <1>1, <3>2 DEF ReleaseOrder, WriteOrder, Undisturbed, QuietOrder, OrderType
    <3> QED
      BY <1>3, <3>1, <3>2
  <2>2. UNCHANGED <<configurations, resetting, history, plan>>
    BY <1>3 DEF EnsureFinalizer, ReleaseOrder
  <2> QED
    BY <1>1, <2>1, <2>2, OrderOnlyQuiet, QuietInv
<1>4. CASE \/ RevisionMissing \/ CallFails \/ MultipleConfigurations \/ NotRendered
           \/ AwaitConfiguration \/ \E i \in Names : ConfigurationGone(i)
  <2>1. crSeen' = cr' /\ SameOrder(cr')
    <3>1. CASE RevisionMissing \/ MultipleConfigurations
      BY <1>2, <3>1, FinishEffect DEF RevisionMissing, MultipleConfigurations, Reasons
    <3>2. CASE CallFails
      BY <1>1, <1>2, <3>2, StatusPatchEffect DEF CallFails, WriteOrder, Undisturbed, Reasons
    <3>3. CASE NotRendered \/ AwaitConfiguration \/ \E i \in Names : ConfigurationGone(i)
      <4>1. PICK r \in Reasons : Finish(cr, Says(r))
        BY <3>3 DEF NotRendered, AwaitConfiguration, ConfigurationGone, Reasons
      <4> QED
        BY <1>2, <4>1, FinishEffect
    <3> QED
      BY <1>4, <3>1, <3>2, <3>3
  <2>2. UNCHANGED <<configurations, resetting, history, plan>>
    BY <1>4 DEF RevisionMissing, CallFails, MultipleConfigurations, NotRendered,
       AwaitConfiguration, ConfigurationGone
  <2> QED
    BY <1>1, <2>1, <2>2, SameIsQuiet, OrderOnlyQuiet, QuietInv
<1>5. CASE DeleteConfiguration
  <2>1. crSeen' = cr' /\ SameOrder(cr')
    BY <1>2, <1>5, FinishEffect DEF DeleteConfiguration, Reasons
  <2>2. PICK i \in Names : cfgs[i].exists /\ WriteConfiguration(i, Deleted(cfgs[i]))
    <3>1. crSeen.name \in Names
      BY <1>1, <1>5 DEF DeleteConfiguration, Known, OrderType
    <3> QED
      BY <1>5, <3>1 DEF DeleteConfiguration
  <2>3. UNCHANGED <<resetting, history, plan>>
    BY <1>5 DEF DeleteConfiguration
  <2> QED
    BY <2>1, <2>2, <2>3, DeletedQuiet, ConfigWriteQuiet, QuietInv
<1> QED
  BY <1>3, <1>4, <1>5

(* The runs of the Configuration controller, and the deletions, that are   *)
(* not about the approval.                                                 *)
LEMMA ConfigRunQuiet ==
  ASSUME Core, Undisturbed, NEW i \in Names,
         \/ FinalizeConfiguration(i) \/ AwaitApproval(i) \/ RunDestroy(i)
         \/ CollectGarbage(i) \/ DeleteManaged(i)
  PROVE  Core'
<1> USE DEF setting, history, orders
<1>1. /\ cr \in OrderType /\ crSeen = cr /\ cfgsSeen = cfgs /\ SameOrder(cr)
      /\ cfgs[i] \in ConfigType
  BY DEF Core, Shape, Synced, SameOrder
<1>2. UNCHANGED <<cr, crSeen, resetting, history, plan>>
  BY DEF FinalizeConfiguration, AwaitApproval, RunDestroy, CollectGarbage, DeleteManaged
<1>3. SameOrder(cr') /\ crSeen' = cr'
  BY <1>1, <1>2 DEF SameOrder
<1>4. \E c : WriteConfiguration(i, c) /\ QuietWrite(i, c)
  <2>1. CASE FinalizeConfiguration(i)
    <3>1. WriteConfiguration(i, [Stamped(cfgs[i]) EXCEPT !.finalizer = TRUE])
      BY <2>1 DEF FinalizeConfiguration
    <3>2. QuietWrite(i, [Stamped(cfgs[i]) EXCEPT !.finalizer = TRUE])
      <4>1. cfgs[i].exists /\ resetting # i
        BY <2>1 DEF FinalizeConfiguration, CfgIdle
      <4>2. PICK r \in ConfigType : r = Stamped(cfgs[i])
        BY <1>1, StampedEffect
      <4>3. QuietWrite(i, r)
        BY <1>1, <4>1, <4>2, StampedEffect DEF QuietWrite
      <4>4. QuietWrite(i, [r EXCEPT !.finalizer = TRUE])
        BY <4>1, <4>2, <4>3 DEF QuietWrite, ConfigType
      <4> QED
        BY <4>2, <4>4
    <3> QED
      BY <3>1, <3>2
  <2>2. CASE AwaitApproval(i)
    <3>1. WriteConfiguration(i, [Stamped(cfgs[i]) EXCEPT !.phase = "waiting"])
      BY <2>2 DEF AwaitApproval
    <3>2. QuietWrite(i, [Stamped(cfgs[i]) EXCEPT !.phase = "waiting"])
      <4>1. cfgs[i].exists /\ resetting # i
        BY <2>2 DEF AwaitApproval, CfgIdle
      <4> QED
        BY <1>1, <4>1, StampedEffect DEF QuietWrite, ConfigType, Phases
    <3> QED
      BY <3>1, <3>2
  <2>3. CASE RunDestroy(i)
    <3>1. cfgs[i].exists /\ resetting # i
      BY <2>3 DEF RunDestroy, CfgIdle
    <3>2. QuietWrite(i, [cfgs[i] EXCEPT !.exists = FALSE])
      BY <1>1, <3>1 DEF QuietWrite, ConfigType
    <3>3. QuietWrite(i, [cfgs[i] EXCEPT !.phase = "destroyFailed"])
      BY <1>1, <3>1 DEF QuietWrite, ConfigType, Phases
    <3> QED
      BY <2>3, <3>2, <3>3 DEF RunDestroy
  <2>4. CASE CollectGarbage(i) \/ DeleteManaged(i)
    BY <2>4, DeletedQuiet DEF CollectGarbage, DeleteManaged
  <2> QED
    BY <2>1, <2>2, <2>3, <2>4
<1> QED
  BY <1>2, <1>3, <1>4, ConfigWriteQuiet, QuietInv

(* The steps of the user, the platform and the informers that are not      *)
(* about the approval.                                                     *)
LEMMA OthersQuiet ==
  ASSUME Core, Undisturbed,
         \/ RetryOrder \/ DeleteOrder \/ SyncOrder \/ UNCHANGED vars
         \/ \E v \in Versions : Withdraw(v)
         \/ \E i \in Names : SyncConfiguration(i)
  PROVE  Core'
<1> USE DEF setting, history, orders, configurations
<1>1. cr \in OrderType /\ crSeen = cr /\ cfgsSeen = cfgs /\ plan \subseteq Versions
  BY DEF Core, Shape, Synced
<1>2. CASE RetryOrder
  <2>1. crSeen' = cr' /\ QuietOrder
    <3> DEFINE a == IF cr.apply = "none" THEN "unset" ELSE cr.apply
               o == [cr EXCEPT !.retry = cr.retry + 1]
    <3>1. a \in Annotation /\ (a = "true" => cr.apply = "true")
      BY <1>1 DEF OrderType, Annotation
    <3>2. SameOrder(o)
      BY <1>1 DEF OrderType, SameOrder
    <3>3. cr' = [o EXCEPT !.apply = a] /\ crSeen' = cr'
      BY <1>1, <1>2 DEF RetryOrder, WriteOrder, Undisturbed, OrderType
    <3> HIDE DEF a, o
    <3> QED
      BY <3>1, <3>2, <3>3 DEF SameOrder, OrderType, QuietOrder
  <2>2. UNCHANGED <<configurations, resetting, history, plan>>
    BY <1>2 DEF RetryOrder
  <2> QED
    BY <1>1, <2>1, <2>2, OrderOnlyQuiet, QuietInv
<1>3. CASE DeleteOrder
  <2>1. crSeen' = cr' /\ QuietOrder
    <3>1. crSeen' = cr' /\ cr' \in {[cr EXCEPT !.deleting = TRUE], [cr EXCEPT !.exists = FALSE]}
      BY <1>3 DEF DeleteOrder, WriteOrder, Undisturbed
    <3>2. CASE cr' = [cr EXCEPT !.deleting = TRUE]
      BY <1>1, <3>1, <3>2 DEF QuietOrder, OrderType
    <3>3. CASE cr' = [cr EXCEPT !.exists = FALSE]
      BY <1>1, <3>1, <3>3 DEF QuietOrder, OrderType
    <3> QED
      BY <3>1, <3>2, <3>3
  <2>2. UNCHANGED <<configurations, resetting, history, plan>>
    BY <1>3 DEF DeleteOrder
  <2> QED
    BY <1>1, <2>1, <2>2, OrderOnlyQuiet, QuietInv
<1>4. CASE SyncOrder \/ UNCHANGED vars \/ (\E v \in Versions : Withdraw(v))
           \/ \E i \in Names : SyncConfiguration(i)
  <2>1. UNCHANGED <<cr, configurations, resetting, history>> /\ crSeen' = cr'
        /\ plan' \subseteq Versions
    <3>1. CASE SyncOrder \/ UNCHANGED vars
      BY <1>1, <3>1 DEF SyncOrder, vars
    <3>2. CASE \E v \in Versions : Withdraw(v)
      BY <1>1, <3>2 DEF Withdraw
    <3>3. CASE \E i \in Names : SyncConfiguration(i)
      BY <1>1, <3>3 DEF SyncConfiguration
    <3> QED
      BY <1>4, <3>1, <3>2, <3>3
  <2>2. QuietOrder
    BY <1>1, <2>1 DEF QuietOrder
  <2> QED
    BY <2>1, <2>2, OrderOnlyQuiet, QuietInv
<1> QED
  BY <1>2, <1>3, <1>4

-----------------------------------------------------------------------------
(* Steps that are about the approval. *)
Approval(i) == Follows(i) /\ Earned(i) /\ PushEarned(i) /\ Withdrawn(i)

(* No other Configuration exists. *)
Alone(i) == \A j \in Names \ {i} : ~cfgs[j].exists

(* A write of the only Configuration there is preserves the invariant if   *)
(* the approval of that one is right.                                      *)
LEMMA WriteAlone ==
  ASSUME Core, NEW i \in Names, NEW c \in ConfigType,
         cfgs' = [cfgs EXCEPT ![i] = c], cfgsSeen' = cfgs', Alone(i),
         cr' \in OrderType, crSeen' = cr', plan' = plan,
         resetting' \in Names \cup {0}, Resets', applied' \subseteq Generations,
         Allowed', Approval(i)'
  PROVE  Core'
<1>1. Shape'
  BY DEF Core, Shape
<1>2. \A j \in Names \ {i} : ~cfgs'[j].exists
  BY DEF Core, Shape, Alone
<1>3. Single' /\ Synced'
  BY <1>2 DEF Single, Synced
<1>4. \A j \in Names : Approval(j)'
  <2> SUFFICES ASSUME NEW j \in Names \ {i} PROVE Approval(j)'
    OBVIOUS
  <2>1. ~cfgs'[j].exists
    BY <1>2
  <2> QED
    BY <2>1 DEF Approval, Follows, Earned, PushEarned, Withdrawn, Due
<1> QED
  BY <1>1, <1>3, <1>4 DEF Core, Approval

(* A Configuration that exists is the only one. *)
LEMMA SingleAlone ==
  ASSUME Core, NEW i \in Names, cfgs[i].exists
  PROVE  Alone(i)
BY DEF Core, Single, Alone

(* What a generation renders to approves itself exactly if it does. *)
LEMMA GenerationSpec ==
  ASSUME NEW g \in Generations
  PROVE  /\ Specs[g] \in CloudResourceSpec /\ Render(Specs[g]) \in Specced
         /\ Render(Specs[g]).auto = Specs[g].auto
<1>1. Specs[g] \in CloudResourceSpec
  BY InputsAssumption DEF Generations
<1>2. Render(Specs[g]).auto = Specs[g].auto
  BY DEF Render
<1> QED
  BY <1>1, <1>2 DEF Specced

(* A new Configuration has no plan. *)
LEMMA CreateInv ==
  ASSUME Core, Undisturbed, NEW i \in Names, CreateConfiguration(i)
  PROVE  Core'
<1> USE DEF setting, history
<1>1. /\ cr \in OrderType /\ crSeen = cr /\ cfgsSeen = cfgs
      /\ cfgs \in [Names -> ConfigType] /\ cr.gen \in Generations
  BY DEF Core, Shape, Synced, OrderType
<1> DEFINE c == Created
<1>2. WriteConfiguration(i, c)
  BY DEF CreateConfiguration
<1>3. c \in ConfigType
  BY <1>1, GenerationSpec DEF Created, ConfigType, OrderType, Phases
<1>4. SameOrder(cr') /\ crSeen' = cr'
  <2>1. Shown(i, "new") \in OrderType
    BY ShownType DEF Phases
  <2> QED
    BY <2>1, FinishEffect DEF CreateConfiguration
<1>5. cfgs' = [cfgs EXCEPT ![i] = c] /\ cfgsSeen' = cfgs'
  BY <1>2, <1>3, ConfigWritten
<1>6. \A j \in Names : ~cfgs[j].exists
  BY <1>1 DEF CreateConfiguration, Labelled
<1>7. UNCHANGED <<plan, resetting, history>>
  BY DEF CreateConfiguration
<1>8. resetting' \in Names \cup {0} /\ Resets'
  BY <1>6, <1>7 DEF Core, Shape, Resets
<1>9. applied' \subseteq Generations /\ Allowed'
  BY <1>7 DEF Core, Shape, Allowed
<1>10. Approval(i)'
  <2>1. cfgs'[i] = c
    BY <1>1, <1>5
  <2>2. c.spec = Render(Specs[c.of]) /\ c.of = cr.gen /\ c.planned = 0 /\ c.gen = 1
        /\ c.apply = cr.apply /\ Settable(Specs[c.of])
    BY <1>1 DEF Created, CreateConfiguration
  <2>3. cr'.gen = cr.gen /\ cr'.apply = cr.apply /\ cr.gen \in Nat
    BY <1>1, <1>4 DEF SameOrder, Generations
  <2> HIDE DEF c
  <2>4. Follows(i)'
    BY <2>1, <2>2, <2>3 DEF Follows
  <2>5. Earned(i)' /\ PushEarned(i)'
    BY <2>1, <2>2 DEF Earned, PushEarned, Due
  <2>6. Withdrawn(i)'
    BY <2>1, <2>2, <2>3 DEF Withdrawn, Pushes
  <2> QED
    BY <2>4, <2>5, <2>6 DEF Approval
<1> HIDE DEF c
<1> QED
  BY <1>3, <1>4, <1>5, <1>6, <1>7, <1>8, <1>9, <1>10, WriteAlone DEF Alone, SameOrder

(* What the merge patch does, when the cache is up to date. *)
LEMMA PatchedEffect ==
  ASSUME Core, NEW i \in Names
  PROVE  LET spec == Render(Specs[cr.gen]) IN
         /\ Patched(i) \in ConfigType
         /\ Patched(i).exists = cfgs[i].exists /\ Patched(i).finalizer = cfgs[i].finalizer
         /\ Patched(i).spec = spec /\ Patched(i).of = cr.gen
         /\ Patched(i).gen = (IF cfgs[i].spec # spec THEN cfgs[i].gen + 1 ELSE cfgs[i].gen)
         /\ Patched(i).planned = cfgs[i].planned
         /\ Patched(i).apply = MergeApply(cfgs[i].apply, cr.apply)
<1> DEFINE s == Render(Specs[cr.gen])
           a == MergeApply(cfgs[i].apply, cr.apply)
           t == MergeRetry(cfgs[i].retry, cr.retry)
           g == IF cfgs[i].spec # s THEN cfgs[i].gen + 1 ELSE cfgs[i].gen
           c1 == [cfgs[i] EXCEPT !.spec = s]
           c2 == [c1 EXCEPT !.gen = g]
           c3 == [c2 EXCEPT !.of = cr.gen]
           c4 == [c3 EXCEPT !.apply = a]
           c5 == [c4 EXCEPT !.retry = t]
           Frame(c) == /\ c \in ConfigType /\ c.exists = cfgs[i].exists
                       /\ c.finalizer = cfgs[i].finalizer /\ c.planned = cfgs[i].planned
<1>1. /\ cr \in OrderType /\ crSeen = cr /\ cfgsSeen = cfgs /\ cfgs[i] \in ConfigType
      /\ cr.gen \in Generations
  BY DEF Core, Shape, Synced, OrderType
<1>2. s \in Specced /\ a \in Annotation /\ t \in Nat /\ g \in Nat
  <2>1. s \in Specced
    BY <1>1, GenerationSpec
  <2>2. a \in Annotation /\ t \in Nat
    BY <1>1 DEF MergeApply, MergeRetry, OrderType, ConfigType
  <2>3. g \in Nat
    BY <1>1 DEF ConfigType
  <2> QED
    BY <2>1, <2>2, <2>3
<1> HIDE DEF s, a, t, g
<1>3. Frame(c1) /\ c1.spec = s /\ c1.gen = cfgs[i].gen
  BY <1>1, <1>2 DEF ConfigType
<1>4. Frame(c2) /\ c2.spec = s /\ c2.gen = g
  <2> HIDE DEF c1
  <2> QED
    BY <1>2, <1>3 DEF ConfigType
<1>5. Frame(c3) /\ c3.spec = s /\ c3.gen = g /\ c3.of = cr.gen
  <2> HIDE DEF c2
  <2> QED
    BY <1>1, <1>2, <1>4 DEF ConfigType
<1>6. Frame(c4) /\ c4.spec = s /\ c4.gen = g /\ c4.of = cr.gen /\ c4.apply = a
  <2> HIDE DEF c3
  <2> QED
    BY <1>1, <1>2, <1>5 DEF ConfigType
<1>7. Frame(c5) /\ c5.spec = s /\ c5.gen = g /\ c5.of = cr.gen /\ c5.apply = a
  <2> HIDE DEF c4
  <2> QED
    BY <1>1, <1>2, <1>6 DEF ConfigType
<1>8. Patched(i) = c5
  <2>1. /\ (IF cfgs[i].spec # s THEN s ELSE cfgs[i].spec) = s
        /\ (IF cfgs[i].spec # s /\ cfgs[i].spec # s THEN cfgs[i].gen + 1 ELSE cfgs[i].gen) = g
        /\ (IF cfgs[i].apply # a THEN a ELSE cfgs[i].apply) = a
        /\ (IF cfgs[i].retry # t THEN t ELSE cfgs[i].retry) = t
    BY DEF g
  <2>2. Patched(i) =
          [cfgs[i] EXCEPT
             !.spec = IF cfgs[i].spec # s THEN s ELSE @,
             !.gen = IF cfgs[i].spec # s /\ cfgs[i].spec # s THEN @ + 1 ELSE @,
             !.of = cr.gen,
             !.apply = IF cfgs[i].apply # a THEN a ELSE @,
             !.retry = IF cfgs[i].retry # t THEN t ELSE @]
    BY <1>1 DEF Patched, s, a, t
  <2> QED
    BY <2>1, <2>2
<1> QED
  BY <1>7, <1>8 DEF s, a, g

(* A patch copies an approval down onto a Configuration that has just      *)
(* become unplanned, or onto one the approval is for.                      *)
LEMMA PatchInv ==
  ASSUME Core, Undisturbed, EditsDiffer, NEW i \in Names, PatchConfiguration(i)
  PROVE  Core'
<1> USE DEF setting, history
<1> DEFINE c == Patched(i)
<1>1. /\ cr \in OrderType /\ crSeen = cr /\ cfgsSeen = cfgs /\ cfgs[i] \in ConfigType
      /\ cr.gen \in Generations /\ cfgs[i].exists /\ cfgs[i].of \in Generations
      /\ cfgs \in [Names -> ConfigType]
  BY DEF Core, Shape, Synced, OrderType, ConfigType, PatchConfiguration
<1>2. /\ c \in ConfigType /\ c.exists = cfgs[i].exists /\ c.finalizer = cfgs[i].finalizer
      /\ c.spec = Render(Specs[cr.gen]) /\ c.of = cr.gen /\ c.planned = cfgs[i].planned
      /\ c.gen = (IF cfgs[i].spec # Render(Specs[cr.gen]) THEN cfgs[i].gen + 1 ELSE cfgs[i].gen)
      /\ c.apply = MergeApply(cfgs[i].apply, cr.apply)
  BY PatchedEffect
<1>3. cfgs' = [cfgs EXCEPT ![i] = c] /\ cfgsSeen' = cfgs'
  BY <1>2, ConfigWritten DEF PatchConfiguration
<1> HIDE DEF c
<1>4. SameOrder(cr') /\ crSeen' = cr'
  <2>1. Shown(i, cfgs[i].phase) \in OrderType
    BY <1>1, ShownType DEF ConfigType
  <2> QED
    BY <1>1, <2>1, FinishEffect DEF PatchConfiguration
<1>5. UNCHANGED <<plan, resetting, history>>
  BY DEF PatchConfiguration
<1>6. resetting' \in Names \cup {0} /\ Resets'
  BY <1>1, <1>2, <1>3, <1>5 DEF Core, Shape, Resets
<1>7. applied' \subseteq Generations /\ Allowed'
  BY <1>5 DEF Core, Shape, Allowed
<1>8. Approval(i)'
  <2>1. cfgs'[i] = c
    BY <1>1, <1>3
  <2>2. cr'.gen = cr.gen /\ cr'.apply = cr.apply /\ cr'.exists = cr.exists /\ cr.gen \in Nat
        /\ cfgs[i].planned \in Nat /\ cfgs[i].gen \in Nat
    BY <1>1, <1>4 DEF SameOrder, Generations, ConfigType
  <2>3. /\ cfgs[i].spec = Render(Specs[cfgs[i].of]) /\ cfgs[i].planned <= cfgs[i].gen
        /\ Settable(Specs[cfgs[i].of]) /\ Settable(Specs[cr.gen])
    BY <1>1 DEF Core, Follows, PatchConfiguration
  <2>4. Follows(i)'
    BY <1>2, <2>1, <2>2, <2>3 DEF Follows
  <2>5. Withdrawn(i)'
    BY <1>2, <2>1, <2>2 DEF Withdrawn, Pushes, MergeApply
  <2>6. CASE cfgs[i].of # cr.gen
    <3>1. cfgs[i].spec # Render(Specs[cr.gen])
      BY <1>1, <2>3, <2>6 DEF EditsDiffer
    <3>2. c.planned # c.gen
      BY <1>2, <2>2, <2>3, <3>1
    <3> QED
      BY <2>1, <2>4, <2>5, <3>2 DEF Approval, Earned, PushEarned, Due
  <2>7. CASE cfgs[i].of = cr.gen
    <3>1. c.gen = cfgs[i].gen
      BY <1>2, <2>3, <2>7
    <3>2. Due(i)' => Due(i)
      BY <1>1, <1>2, <2>1, <2>7, <3>1 DEF Due
    <3>3. Pushes(i)' => Pushes(i)
      BY <1>2, <2>1, <2>2, <2>7 DEF Pushes
    <3>4. PushEarned(i)'
      BY <1>2, <1>5, <2>1, <2>7, <3>2, <3>3 DEF Core, PushEarned
    <3>5. c.apply = "true" => cfgs[i].apply = "true" \/ cr.apply = "true"
      BY <1>2 DEF MergeApply
    <3>6. cr.exists
      BY <1>1 DEF PatchConfiguration, Reconciled
    <3>7. Earned(i)'
      BY <1>2, <1>5, <2>1, <2>7, <3>2, <3>5, <3>6 DEF Core, Earned, PushEarned, Pushes
    <3> QED
      BY <2>4, <2>5, <3>4, <3>7 DEF Approval
  <2> QED
    BY <2>6, <2>7
<1> QED
  BY <1>1, <1>2, <1>3, <1>4, <1>5, <1>6, <1>7, <1>8, SingleAlone, WriteAlone DEF SameOrder

(* The first half of a withdrawal. *)
LEMMA WithdrawApprovalInv ==
  ASSUME Core, Undisturbed, NEW i \in Names, WithdrawApproval(i)
  PROVE  Core'
<1> USE DEF setting, history, orders
<1> DEFINE c == [cfgs[i] EXCEPT !.apply = "false"]
<1>1. /\ cr \in OrderType /\ crSeen = cr /\ cfgsSeen = cfgs /\ cfgs[i] \in ConfigType
      /\ cfgs \in [Names -> ConfigType] /\ cfgs[i].exists
  BY DEF Core, Shape, Synced, WithdrawApproval, CfgIdle
<1>2. /\ c \in ConfigType /\ c.exists = cfgs[i].exists /\ c.finalizer = cfgs[i].finalizer
      /\ c.spec = cfgs[i].spec /\ c.of = cfgs[i].of /\ c.planned = cfgs[i].planned
      /\ c.gen = cfgs[i].gen /\ c.apply = "false"
  BY <1>1 DEF ConfigType, Annotation
<1>3. cfgs' = [cfgs EXCEPT ![i] = c] /\ cfgsSeen' = cfgs'
  BY <1>2, ConfigWritten DEF WithdrawApproval
<1> HIDE DEF c
<1>4. UNCHANGED <<cr, crSeen, plan, history>> /\ resetting' = i /\ cfgs[i].finalizer
  BY <1>1 DEF WithdrawApproval, Unplanned
<1>5. SameOrder(cr') /\ crSeen' = cr'
  BY <1>1, <1>4 DEF SameOrder
<1>6. resetting' \in Names \cup {0} /\ Resets'
  BY <1>1, <1>2, <1>3, <1>4 DEF Resets
<1>7. applied' \subseteq Generations /\ Allowed'
  BY <1>4 DEF Core, Shape, Allowed
<1>8. Approval(i)'
  <2>1. cfgs'[i] = c
    BY <1>1, <1>3
  <2>2. Follows(i)' /\ Earned(i)' /\ Withdrawn(i)'
    BY <1>2, <1>4, <2>1 DEF Core, Follows, Earned, Withdrawn
  <2>3. PushEarned(i)'
    BY <1>2, <1>4, <2>1 DEF Core, PushEarned, Due, Pushes
  <2> QED
    BY <2>2, <2>3 DEF Approval
<1> QED
  BY <1>1, <1>2, <1>3, <1>4, <1>5, <1>6, <1>7, <1>8, SingleAlone, WriteAlone DEF SameOrder

(* The second half: afterwards the CloudResource copies no approval down. *)
LEMMA WithdrawFromOrderInv ==
  ASSUME Core, Undisturbed, WithdrawFromOrder
  PROVE  Core'
<1> USE DEF setting, history, orders
<1> DEFINE i == resetting
           c == Stamped(cfgs[i])
<1>0. i \in Names /\ i # 0
  BY DEF Core, Shape, WithdrawFromOrder
<1>1. /\ cr \in OrderType /\ crSeen = cr /\ cfgsSeen = cfgs /\ cfgs[i] \in ConfigType
      /\ cfgs \in [Names -> ConfigType] /\ cfgs[i].exists
  BY <1>0 DEF Core, Shape, Synced, Resets
<1>2. /\ c \in ConfigType /\ c.exists = cfgs[i].exists
      /\ c.spec = cfgs[i].spec /\ c.of = cfgs[i].of /\ c.planned = cfgs[i].planned
      /\ c.gen = cfgs[i].gen /\ c.apply = cfgs[i].apply
  BY <1>1, StampedEffect
<1>3. cfgs' = [cfgs EXCEPT ![i] = c] /\ cfgsSeen' = cfgs'
  BY <1>0, <1>2, ConfigWritten DEF WithdrawFromOrder
<1> HIDE DEF c
<1>4. UNCHANGED <<plan, history>> /\ resetting' = 0
  BY DEF WithdrawFromOrder
<1>5. /\ cr' \in OrderType /\ crSeen' = cr' /\ cr'.gen = cr.gen
      /\ ~(cr'.exists /\ cr'.apply = "true")
  <2>1. CASE ~crSeen.exists \/ crSeen.apply = "none" \/ ~cr.exists
    <3>1. cr' = cr /\ crSeen' = crSeen
      BY <1>1, <2>1 DEF WithdrawFromOrder, Undisturbed
    <3> QED
      BY <1>1, <2>1, <3>1
  <2>2. CASE crSeen.exists /\ crSeen.apply # "none" /\ cr.exists
    <3>1. cr' = [cr EXCEPT !.apply = "false"] /\ crSeen' = cr'
      <4>1. WriteOrder([cr EXCEPT !.apply = IF crSeen.apply # "false" THEN "false" ELSE @])
        BY <2>2 DEF WithdrawFromOrder, Undisturbed
      <4>2. (IF crSeen.apply # "false" THEN "false" ELSE cr.apply) = "false"
        BY <1>1
      <4> QED
        BY <4>1, <4>2 DEF WriteOrder, Undisturbed
    <3> QED
      BY <1>1, <3>1 DEF OrderType, Annotation
  <2> QED
    BY <2>1, <2>2
<1>6. resetting' \in Names \cup {0} /\ Resets'
  BY <1>4 DEF Resets
<1>7. applied' \subseteq Generations /\ Allowed'
  BY <1>4 DEF Core, Shape, Allowed
<1>8. PICK k \in Names : k = i
  BY <1>0
<1>9. Approval(k)'
  <2>1. cfgs'[k] = c
    BY <1>1, <1>3, <1>8
  <2>2. Follows(k)'
    BY <1>2, <1>5, <1>8, <2>1 DEF Core, Follows
  <2>3. Earned(k)'
    BY <1>2, <1>4, <1>8, <2>1 DEF Core, Earned, Due
  <2>4. PushEarned(k)' /\ Withdrawn(k)'
    BY <1>5 DEF PushEarned, Withdrawn, Pushes
  <2> QED
    BY <2>2, <2>3, <2>4 DEF Approval
<1> QED
  BY <1>1, <1>2, <1>3, <1>4, <1>5, <1>6, <1>7, <1>8, <1>9, SingleAlone, WriteAlone

(* A plan runs when the approval is withdrawn on both objects. *)
LEMMA RunPlanInv ==
  ASSUME Core, Undisturbed, NEW i \in Names, RunPlan(i)
  PROVE  Core'
<1> USE DEF setting, history, orders
<1> DEFINE s == Stamped(cfgs[i])
           c1 == [s EXCEPT !.planned = cfgs[i].gen]
           c == [c1 EXCEPT !.phase = "waiting"]
<1>1. /\ cr \in OrderType /\ crSeen = cr /\ cfgsSeen = cfgs /\ cfgs[i] \in ConfigType
      /\ cfgs \in [Names -> ConfigType] /\ cfgs[i].exists /\ resetting # i
      /\ cfgs[i].of \in Generations /\ cfgs[i].gen \in Nat
  BY DEF Core, Shape, Synced, RunPlan, CfgIdle, ConfigType
<1>2. /\ c \in ConfigType /\ c.exists = cfgs[i].exists
      /\ c.spec = cfgs[i].spec /\ c.of = cfgs[i].of /\ c.planned = cfgs[i].gen
      /\ c.gen = cfgs[i].gen /\ c.apply = cfgs[i].apply
  <2>1. /\ s \in ConfigType /\ s.exists = cfgs[i].exists
        /\ s.spec = cfgs[i].spec /\ s.of = cfgs[i].of
        /\ s.gen = cfgs[i].gen /\ s.apply = cfgs[i].apply
    BY <1>1, StampedEffect
  <2>2. /\ c1 \in ConfigType /\ c1.exists = cfgs[i].exists
        /\ c1.spec = cfgs[i].spec /\ c1.of = cfgs[i].of /\ c1.planned = cfgs[i].gen
        /\ c1.gen = cfgs[i].gen /\ c1.apply = cfgs[i].apply
    <3> HIDE DEF s
    <3> QED
      BY <1>1, <2>1 DEF ConfigType
  <2> HIDE DEF c1
  <2> QED
    BY <1>1, <2>2 DEF ConfigType, Phases
<1>3. cfgs' = [cfgs EXCEPT ![i] = c] /\ cfgsSeen' = cfgs'
  <2>1. WriteConfiguration(i, [s EXCEPT
          !.planned = IF cfgs[i].gen = cfgsSeen[i].gen THEN cfgsSeen[i].gen ELSE @,
          !.phase = "waiting"])
    BY DEF RunPlan
  <2>2. (IF cfgs[i].gen = cfgsSeen[i].gen THEN cfgsSeen[i].gen ELSE s.planned) = cfgs[i].gen
    BY <1>1
  <2>3. WriteConfiguration(i, c)
    BY <2>1, <2>2
  <2> HIDE DEF c
  <2> QED
    BY <1>2, <2>3, ConfigWritten
<1> HIDE DEF c
<1>4. UNCHANGED <<cr, crSeen, plan, history, resetting>>
  BY DEF RunPlan
<1>5. resetting' \in Names \cup {0} /\ Resets'
  BY <1>1, <1>3, <1>4 DEF Core, Shape, Resets
<1>6. applied' \subseteq Generations /\ Allowed'
  BY <1>4 DEF Core, Shape, Allowed
<1>7. Approval(i)'
  <2>1. cfgs'[i] = c
    BY <1>1, <1>3
  <2>2. cfgs[i].spec.auto = Specs[cfgs[i].of].auto
    BY <1>1, GenerationSpec DEF Core, Follows
  <2>3. Follows(i)'
    BY <1>1, <1>2, <1>4, <2>1 DEF Core, Follows
  <2>4. CASE Specs[cfgs[i].of].auto
    BY <1>1, <1>2, <1>4, <2>1, <2>3, <2>4
       DEF Core, Approval, Earned, PushEarned, Withdrawn, Due, Pushes
  <2>5. CASE ~Specs[cfgs[i].of].auto
    <3>1. cfgs[i].apply = "false"
      BY <1>1, <2>2, <2>5 DEF RunPlan
    <3>2. Pushes(i) => cfgs[i].of \in approved
      BY <1>1, <3>1 DEF Core, Withdrawn
    <3>3. Pushes(i)' <=> Pushes(i)
      BY <1>2, <1>4, <2>1 DEF Pushes
    <3> QED
      BY <1>2, <1>4, <2>1, <2>3, <3>1, <3>2, <3>3 DEF Approval, Earned, PushEarned, Withdrawn
  <2> QED
    BY <2>4, <2>5
<1> QED
  BY <1>1, <1>2, <1>3, <1>4, <1>5, <1>6, <1>7, SingleAlone, WriteAlone

(* An apply runs for what is approved. *)
LEMMA RunApplyInv ==
  ASSUME Core, Undisturbed, NEW i \in Names, RunApply(i)
  PROVE  Core'
<1> USE DEF setting, history, orders
<1> DEFINE s == Stamped(cfgs[i])
           c == [s EXCEPT !.phase = "applied"]
<1>1. /\ cr \in OrderType /\ crSeen = cr /\ cfgsSeen = cfgs /\ cfgs[i] \in ConfigType
      /\ cfgs \in [Names -> ConfigType] /\ cfgs[i].exists /\ resetting # i
      /\ cfgs[i].of \in Generations
  BY DEF Core, Shape, Synced, RunApply, CfgIdle, ConfigType
<1>2. /\ c \in ConfigType /\ c.exists = cfgs[i].exists
      /\ c.spec = cfgs[i].spec /\ c.of = cfgs[i].of /\ c.planned = cfgs[i].planned
      /\ c.gen = cfgs[i].gen /\ c.apply = cfgs[i].apply
  <2>1. /\ s \in ConfigType /\ s.exists = cfgs[i].exists
        /\ s.spec = cfgs[i].spec /\ s.of = cfgs[i].of /\ s.planned = cfgs[i].planned
        /\ s.gen = cfgs[i].gen /\ s.apply = cfgs[i].apply
    BY <1>1, StampedEffect
  <2> HIDE DEF s
  <2> QED
    BY <2>1 DEF ConfigType, Phases
<1>3. cfgs' = [cfgs EXCEPT ![i] = c] /\ cfgsSeen' = cfgs'
  BY <1>2, ConfigWritten DEF RunApply
<1> HIDE DEF c
<1>4. /\ UNCHANGED <<cr, crSeen, plan, approved, resetting>>
      /\ applied' = applied \cup {cfgs[i].of}
  BY <1>1 DEF RunApply
<1>5. resetting' \in Names \cup {0} /\ Resets'
  BY <1>1, <1>3, <1>4 DEF Core, Shape, Resets
<1>6. cfgs[i].of \in approved \/ Specs[cfgs[i].of].auto
  <2>1. cfgs[i].spec.auto = Specs[cfgs[i].of].auto
    BY <1>1, GenerationSpec DEF Core, Follows
  <2>2. cfgs[i].planned = cfgs[i].gen
    BY <1>1 DEF RunApply, Unplanned
  <2> QED
    BY <1>1, <2>1, <2>2 DEF RunApply, Core, Earned, Due
<1>7. applied' \subseteq Generations /\ Allowed'
  BY <1>1, <1>4, <1>6 DEF Core, Shape, Allowed
<1>8. Approval(i)'
  <2>1. cfgs'[i] = c
    BY <1>1, <1>3
  <2> QED
    BY <1>2, <1>4, <2>1
       DEF Core, Approval, Follows, Earned, PushEarned, Withdrawn, Due, Pushes
<1> QED
  BY <1>1, <1>2, <1>3, <1>4, <1>5, <1>7, <1>8, SingleAlone, WriteAlone

(* An approval given on the Configuration. *)
LEMMA ApproveConfigurationInv ==
  ASSUME Core, Undisturbed, NEW i \in Names, ApproveConfiguration(i)
  PROVE  Core'
<1> USE DEF setting, history, orders
<1> DEFINE c == [cfgs[i] EXCEPT !.apply = "true"]
<1>1. /\ cr \in OrderType /\ crSeen = cr /\ cfgsSeen = cfgs /\ cfgs[i] \in ConfigType
      /\ cfgs \in [Names -> ConfigType] /\ cfgs[i].exists
  BY DEF Core, Shape, Synced, ApproveConfiguration
<1>2. /\ c \in ConfigType /\ c.exists = cfgs[i].exists /\ c.finalizer = cfgs[i].finalizer
      /\ c.spec = cfgs[i].spec /\ c.of = cfgs[i].of /\ c.planned = cfgs[i].planned
      /\ c.gen = cfgs[i].gen
  BY <1>1 DEF ConfigType, Annotation
<1>3. cfgs' = [cfgs EXCEPT ![i] = c] /\ cfgsSeen' = cfgs'
  BY <1>2, ConfigWritten DEF ApproveConfiguration
<1> HIDE DEF c
<1>4. /\ UNCHANGED <<cr, crSeen, plan, applied, resetting>>
      /\ approved' = approved \cup {cfgs[i].of}
  BY DEF ApproveConfiguration
<1>5. resetting' \in Names \cup {0} /\ Resets'
  BY <1>1, <1>2, <1>3, <1>4 DEF Core, Shape, Resets
<1>6. applied' \subseteq Generations /\ Allowed'
  BY <1>4 DEF Core, Shape, Allowed
<1>7. Approval(i)'
  <2>1. cfgs'[i] = c
    BY <1>1, <1>3
  <2> QED
    BY <1>2, <1>4, <2>1 DEF Core, Approval, Follows, Earned, PushEarned, Withdrawn
<1> QED
  BY <1>1, <1>2, <1>3, <1>4, <1>5, <1>6, <1>7, SingleAlone, WriteAlone

(* An edit and an approval of the CloudResource: after an edit it pushes   *)
(* nothing onto a Configuration of an older generation as it is.           *)
LEMMA EditInv ==
  ASSUME Core, Undisturbed, Edit \/ ApproveOrder
  PROVE  Core'
<1> USE DEF setting, history, configurations
<1>1. /\ cr \in OrderType /\ cr.gen \in Generations /\ cr.gen \in Nat /\ crSeen = cr
      /\ cfgsSeen = cfgs /\ cfgs \in [Names -> ConfigType]
  BY DEF Core, Shape, Synced, OrderType, Generations
<1>2. UNCHANGED <<cfgs, cfgsSeen, plan, applied, resetting>>
  BY DEF Edit, ApproveOrder
<1>3. /\ cr' \in OrderType /\ crSeen' = cr' /\ cr'.gen \in Nat /\ cr.gen <= cr'.gen
      /\ approved \subseteq approved'
      /\ cr'.gen # cr.gen \/ cr'.gen \in approved'
      /\ cr'.gen # cr.gen => cr.gen < cr'.gen
  <2>1. CASE Edit
    <3>1. cr' = [cr EXCEPT !.gen = cr.gen + 1] /\ crSeen' = cr' /\ cr.gen < Len(Specs)
          /\ approved' = approved
      BY <2>1 DEF Edit, WriteOrder, Undisturbed
    <3>2. cr.gen + 1 \in Generations
      BY <1>1, <3>1, InputsAssumption DEF Generations
    <3> QED
      BY <1>1, <3>1, <3>2 DEF OrderType
  <2>2. CASE ApproveOrder
    BY <1>1, <2>2 DEF ApproveOrder, WriteOrder, Undisturbed, OrderType, Annotation
  <2> QED
    BY <2>1, <2>2
<1>4. Shape' /\ Synced' /\ Single' /\ Resets' /\ Allowed'
  BY <1>1, <1>2, <1>3 DEF Core, Shape, Synced, Single, Resets, Allowed
<1>5. ASSUME NEW i \in Names PROVE Approval(i)'
  <2>1. cfgs[i].of \in Nat
    BY <1>1 DEF ConfigType, Generations
  <2>2. cfgs[i].exists => cfgs[i].of <= cr.gen
    BY DEF Core, Follows
  <2>3. cfgs[i].exists /\ Pushes(i)' => cfgs[i].of \in approved'
    BY <1>1, <1>2, <1>3, <2>1, <2>2 DEF Pushes
  <2>4. Follows(i)'
    BY <1>1, <1>2, <1>3, <2>1 DEF Core, Follows
  <2>5. Earned(i)' /\ PushEarned(i)' /\ Withdrawn(i)'
    BY <1>2, <1>3, <2>3 DEF Core, Earned, PushEarned, Withdrawn, Due
  <2> QED
    BY <2>4, <2>5 DEF Approval
<1> QED
  BY <1>4, <1>5 DEF Core, Approval

-----------------------------------------------------------------------------
(* The initial states satisfy the invariant. *)
LEMMA InitInv ==
  ASSUME Init
  PROVE  IInv
<1> SUFFICES ASSUME Undisturbed PROVE Core
  BY DEF IInv
<1>1. world \in World /\ Len(Specs) \in Nat \ {0}
  BY InputsAssumption DEF Init
<1>2. cr \in OrderType /\ cr.gen = 1
  BY <1>1 DEF Init, OrderType, World, Generations, Annotation, Phases, Updates, Reasons
<1>3. NoConfiguration \in ConfigType /\ ~NoConfiguration.exists
  BY <1>1 DEF NoConfiguration, ConfigType, Specced, Generations, Annotation, Phases
<1>4. \A i \in Names : ~cfgs[i].exists
  BY <1>3 DEF Init
<1>5. Shape
  BY <1>2, <1>3 DEF Init, Shape
<1>6. Synced /\ Single /\ Resets /\ Allowed
  BY <1>4 DEF Init, Synced, Single, Resets, Allowed
<1>7. \A i \in Names : Follows(i) /\ Earned(i) /\ PushEarned(i) /\ Withdrawn(i)
  BY <1>4 DEF Follows, Earned, PushEarned, Withdrawn, Due
<1> QED
  BY <1>5, <1>6, <1>7 DEF Core

(* Every step preserves the invariant. *)
LEMMA NextInv ==
  ASSUME IInv, EditsDiffer, [Next]_vars
  PROVE  IInv'
<1>1. world' = world
  BY DEF Next, OrderRun, ConfigurationRun, EnsureFinalizer, RevisionMissing, CallFails,
         MultipleConfigurations, NotRendered, DeleteConfiguration, AwaitConfiguration,
         ReleaseOrder, ConfigurationGone, CreateConfiguration, PatchConfiguration, WithdrawFromOrder, CollectGarbage,
         FinalizeConfiguration, WithdrawApproval, RunPlan, AwaitApproval, RunApply,
         RunDestroy, Edit, ApproveOrder, RetryOrder, DeleteOrder, ApproveConfiguration,
         DeleteManaged, Withdraw, SyncOrder, SyncConfiguration, setting, vars
<1> SUFFICES ASSUME Undisturbed PROVE Core'
  BY <1>1 DEF IInv, Undisturbed
<1>2. Core
  BY DEF IInv
<1>3. CASE OrderRun
  BY <1>2, <1>3, OrderRunQuiet, CreateInv, PatchInv DEF OrderRun
<1>4. CASE WithdrawFromOrder
  BY <1>2, <1>4, WithdrawFromOrderInv
<1>5. CASE \E i \in Names : ConfigurationRun(i) \/ CollectGarbage(i)
  BY <1>2, <1>5, ConfigRunQuiet, WithdrawApprovalInv, RunPlanInv, RunApplyInv
     DEF ConfigurationRun
<1>6. CASE Edit \/ ApproveOrder
  BY <1>2, <1>6, EditInv
<1>7. CASE \E i \in Names : ApproveConfiguration(i) \/ DeleteManaged(i)
  BY <1>2, <1>7, ApproveConfigurationInv, ConfigRunQuiet
<1>8. CASE \/ RetryOrder \/ DeleteOrder \/ SyncOrder \/ UNCHANGED vars
           \/ \E v \in Versions : Withdraw(v)
           \/ \E i \in Names : SyncConfiguration(i)
  BY <1>2, <1>8, OthersQuiet
<1> QED
  BY <1>3, <1>4, <1>5, <1>6, <1>7, <1>8 DEF Next

(***************************************************************************)
(* Terraform apply runs only for generations of a CloudResource that the   *)
(* user approved while they were current, or that approve themselves, when *)
(* the caches are up to date and the second patch of a withdrawn approval  *)
(* does not fail (ensureConfigurationExists copies the approval down,      *)
(* ensureTerraformPlan withdraws it on both). An edit must change what is  *)
(* rendered: after an edit back to an earlier form an approval given in    *)
(* between would be taken for it.                                          *)
(***************************************************************************)
THEOREM OrderSafe ==
  ASSUME EditsDiffer
  PROVE  Spec => [](~world.resetFails => OrderApproved)
<1>1. Init => IInv
  BY InitInv
<1>2. IInv /\ [Next]_vars => IInv'
  BY NextInv
<1>3. IInv => (~world.resetFails => OrderApproved)
  BY DEF IInv, Undisturbed, Core, Allowed, OrderApproved
<1> QED
  BY <1>1, <1>2, <1>3, PTL DEF Spec
=============================================================================
