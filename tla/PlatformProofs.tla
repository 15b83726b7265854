---------------------------- MODULE PlatformProofs ----------------------------
(***************************************************************************)
(* Theorems about the start of the server, about the preload of a provider *)
(* and about the drift worker, for any flags, launches and outages, any    *)
(* specs, accounts, faults and interleavings, and a fleet of any size.     *)
(***************************************************************************)
EXTENDS ProviderPreload, Server, Drift, FiniteSetTheorems, SequenceTheorems, TLAPS

ServerSpec == ServerInit /\ [][ServerNext]_server

-----------------------------------------------------------------------------
(* What manageWebhooks works through. *)
Docs == {"mutating", "validating", "namespace"}

PathsOf(doc) ==
  IF doc = "mutating" THEN {<<"mutate", k>> : k \in Mutated}
  ELSE IF doc = "validating" THEN {<<"validate", k>> : k \in Validated}
  ELSE {<<"validate", "namespaces">>}

Document(doc) == [doc |-> doc, paths |-> PathsOf(doc)]

(* The documents that are left, of which there are four states. *)
LastOne == <<Document("namespace")>>
LastTwo == <<Document("validating"), Document("namespace")>>
AllThree == <<Document("mutating"), Document("validating"), Document("namespace")>>

DocsLeft == {todo[i].doc : i \in DOMAIN todo}

LEMMA AllDocuments ==
  Documents = AllThree
<1>1. /\ PathsOf("mutating") = {<<"mutate", k>> : k \in Mutated}
      /\ PathsOf("validating") = {<<"validate", k>> : k \in Validated}
      /\ PathsOf("namespace") = {<<"validate", "namespaces">>}
  BY DEF PathsOf
<1> QED BY <1>1 DEF Documents, AllThree, Document

LEMMA AllPaths ==
  UNION {h.paths : h \in Range(Documents)} = UNION {PathsOf(doc) : doc \in Docs}
<1>1. Range(Documents) = {Document(doc) : doc \in Docs}
  BY AllDocuments DEF Range, AllThree, Docs
<1>2. \A doc \in Docs : Document(doc).paths = PathsOf(doc)
  BY DEF Document
<1>3. {h.paths : h \in Range(Documents)} = {PathsOf(doc) : doc \in Docs}
  BY <1>1, <1>2
<1> QED BY <1>3

LEMMA NextDocument ==
  ASSUME todo \in {LastOne, LastTwo, AllThree}
  PROVE  \E doc \in Docs :
           /\ Head(todo) = Document(doc) /\ Tail(todo) \in {<<>>, LastOne, LastTwo}
           /\ DocsLeft = {Tail(todo)[i].doc : i \in DOMAIN Tail(todo)} \cup {doc}
<1>1. CASE todo = LastOne
  <2>1. Head(todo) = Document("namespace") /\ Tail(todo) = <<>>
    BY <1>1 DEF LastOne
  <2>2. DocsLeft = {"namespace"}
    BY <1>1 DEF LastOne, DocsLeft, Document
  <2> QED BY <2>1, <2>2 DEF Docs
<1>2. CASE todo = LastTwo
  <2>1. Head(todo) = Document("validating") /\ Tail(todo) = LastOne
    BY <1>2 DEF LastTwo, LastOne
  <2>2. DocsLeft = {"validating", "namespace"}
    BY <1>2 DEF LastTwo, DocsLeft, Document
  <2>3. {LastOne[i].doc : i \in DOMAIN LastOne} = {"namespace"}
    BY DEF LastOne, Document
  <2> QED BY <2>1, <2>2, <2>3 DEF Docs
<1>3. CASE todo = AllThree
  <2>1. Head(todo) = Document("mutating") /\ Tail(todo) = LastTwo
    BY <1>3 DEF LastTwo, AllThree
  <2>2. DocsLeft = {"mutating", "validating", "namespace"}
    BY <1>3 DEF AllThree, DocsLeft, Document
  <2>3. {LastTwo[i].doc : i \in DOMAIN LastTwo} = {"validating", "namespace"}
    BY DEF LastTwo, Document
  <2> QED BY <2>1, <2>2, <2>3 DEF Docs
<1> QED BY <1>1, <1>2, <1>3

-----------------------------------------------------------------------------
(***************************************************************************)
(* What every state of the server keeps.                                   *)
(***************************************************************************)
Launched == rollout \in Rollouts /\ at \in 1..Len(rollout)

(* A custom resource that is not established is still to be applied. *)
CrdsPending ==
  /\ crds \in [CrdNames -> {"absent", "stored", "established"}]
  /\ stage \in {"crds", "checking"} =>
       /\ todo \in Seq(CrdNames)
       /\ flags.registerCRDs =>
            \A n \in CrdNames : crds[n] = "established" \/ \E i \in 1..Len(todo) : todo[i] = n
  /\ stage = "checking" => todo # <<>>
  /\ stage \in {"hooks", "serving"} /\ flags.registerCRDs =>
       \A n \in CrdNames : crds[n] = "established"

(* The process answers what it registers. *)
Answered ==
  /\ stage \in {"down", "crds", "checking", "hooks", "serving"}
  /\ stage = "hooks" => flags.webhooks /\ todo \in {<<>>, LastOne, LastTwo, AllThree}
  /\ stage = "serving" => todo = <<>>
  /\ stage \in {"hooks", "serving"} /\ flags.webhooks =>
       serves = UNION {PathsOf(doc) : doc \in Docs}

(* The documents the process is through with are registered as its flags   *)
(* ask for; the other ones are as some earlier process left them.          *)
HooksDone ==
  Steady =>
    /\ DOMAIN hooks \subseteq {NameOf(doc) : doc \in Docs}
    /\ \A doc \in Docs : NameOf(doc) \in DOMAIN hooks =>
         hooks[NameOf(doc)].paths = PathsOf(doc)
    /\ stage \in {"hooks", "serving"} =>
         \A doc \in Docs \ DocsLeft :
           /\ NameOf(doc) \in DOMAIN hooks <=> Keeps(doc)
           /\ NameOf(doc) \in DOMAIN hooks => hooks[NameOf(doc)].ca = flags.ca

ServerInv == Launched /\ CrdsPending /\ Answered /\ HooksDone

LEMMA NamesDiffer ==
  ASSUME NEW d, NEW e, NameOf(d) = NameOf(e)
  PROVE  d = e
BY DEF NameOf

LEMMA NothingLeft ==
  ASSUME todo = <<>>
  PROVE  DocsLeft = {}
BY DEF DocsLeft

(* SetToSeqs lists every element of a finite set. *)
LEMMA ListsAll ==
  ASSUME NEW S, IsFiniteSet(S), NEW order \in SetToSeqs(S)
  PROVE  order \in Seq(S) /\ \A x \in S : \E i \in 1..Len(order) : order[i] = x
<1> DEFINE n == Cardinality(S)
<1>1. n \in Nat
  BY FS_CardinalityType
<1>2. order \in [1..n -> S] /\ \A i, j \in 1..n : i # j => order[i] # order[j]
  BY DEF SetToSeqs
<1>3. order \in Injection(1..n, S)
  BY <1>2 DEF Injection, IsInjective
<1>4. Cardinality(1..n) = n
  BY <1>1, FS_Interval
<1>5. order \in Surjection(1..n, S)
  BY <1>3, <1>4, FS_Injection
<1>6. \A x \in S : \E i \in 1..n : order[i] = x
  BY <1>2, <1>5 DEF Surjection
<1>7. order \in Seq(S) /\ Len(order) = n
  BY <1>1, <1>2
<1> QED BY <1>6, <1>7

LEMMA ServerStarts ==
  ASSUME ServerInit
  PROVE  ServerInv
<1>1. Launched
  BY RolloutsAssumption DEF ServerInit, Launched
<1>2. CrdsPending
  BY DEF ServerInit, CrdsPending
<1>3. Answered
  BY DEF ServerInit, Answered
<1>4. HooksDone
  BY DEF ServerInit, HooksDone
<1> QED BY <1>1, <1>2, <1>3, <1>4 DEF ServerInv

-----------------------------------------------------------------------------
(***************************************************************************)
(* Every step of the server keeps the invariant.                           *)
(***************************************************************************)
LEMMA FlagsKept ==
  ASSUME rollout' = rollout, at' = at
  PROVE  /\ flags' = flags /\ (Steady' <=> Steady)
         /\ \A doc : NameOf(doc)' = NameOf(doc) /\ (Keeps(doc)' <=> Keeps(doc))
BY DEF flags, Steady, NameOf, Keeps

LEMMA LaunchedKept ==
  ASSUME Launched, UNCHANGED <<rollout, at>>
  PROVE  Launched'
BY DEF Launched

(* A process that goes down leaves the cluster as it is. *)
LEMMA DownKept ==
  ASSUME ServerInv, Exit, UNCHANGED <<rollout, at, crds, hooks>>
  PROVE  ServerInv'
<1>1. Launched'
  BY LaunchedKept DEF ServerInv
<1>2. CrdsPending'
  BY DEF ServerInv, CrdsPending, Exit
<1>3. Answered'
  BY DEF Answered, Exit
<1>4. HooksDone'
  BY FlagsKept DEF ServerInv, HooksDone, Exit
<1> QED BY <1>1, <1>2, <1>3, <1>4 DEF ServerInv

LEMMA LaunchKeeps ==
  ASSUME ServerInv, Launch
  PROVE  ServerInv'
<1>1. Launched'
  BY LaunchedKept DEF ServerInv, Launch
<1>2. CrdsPending'
  <2>1. PICK order \in SetToSeqs(IF flags.registerCRDs THEN CrdNames ELSE {}) : todo' = order
    BY DEF Launch
  <2>2. IsFiniteSet({}) /\ IsFiniteSet(CrdNames)
    BY FS_EmptySet, RolloutsAssumption
  <2>3. CASE flags.registerCRDs
    <3>1. order \in Seq(CrdNames) /\ \A n \in CrdNames : \E i \in 1..Len(order) : order[i] = n
      BY <2>1, <2>2, <2>3, ListsAll
    <3> QED BY <2>1, <3>1 DEF ServerInv, CrdsPending, Launch
  <2>4. CASE ~flags.registerCRDs
    <3>1. order \in Seq({})
      BY <2>1, <2>2, <2>4, ListsAll
    <3>2. order \in Seq(CrdNames)
      BY <3>1, SeqMonotonic
    <3> QED BY <2>1, <2>4, <3>2, FlagsKept DEF ServerInv, CrdsPending, Launch
  <2> QED BY <2>3, <2>4
<1>3. Answered'
  BY DEF Answered, Launch
<1>4. HooksDone'
  BY FlagsKept DEF ServerInv, HooksDone, Launch
<1> QED BY <1>1, <1>2, <1>3, <1>4 DEF ServerInv

LEMMA ApplyCRDKeeps ==
  ASSUME ServerInv, ApplyCRD
  PROVE  ServerInv'
<1>1. Launched'
  BY LaunchedKept DEF ServerInv, ApplyCRD
<1>2. CrdsPending'
  <2>1. todo \in Seq(CrdNames) /\ todo # <<>> /\ Head(todo) \in CrdNames
    BY DEF ServerInv, CrdsPending, ApplyCRD
  <2>2. crds' \in [CrdNames -> {"absent", "stored", "established"}]
    BY <2>1 DEF ServerInv, CrdsPending, ApplyCRD
  <2>3. \A n \in CrdNames : crds[n] = "established" => crds'[n] = "established"
    BY <2>1 DEF ServerInv, CrdsPending, ApplyCRD
  <2>4. stage = "crds" /\ stage' = "checking" /\ todo' = todo
    BY DEF ApplyCRD
  <2>5. flags' = flags
    BY FlagsKept DEF ApplyCRD
  <2> QED BY <2>1, <2>2, <2>3, <2>4, <2>5 DEF ServerInv, CrdsPending
<1>3. Answered'
  BY DEF Answered, ApplyCRD
<1>4. HooksDone'
  BY FlagsKept DEF ServerInv, HooksDone, ApplyCRD
<1> QED BY <1>1, <1>2, <1>3, <1>4 DEF ServerInv

LEMMA CheckCRDKeeps ==
  ASSUME ServerInv, CheckCRD
  PROVE  ServerInv'
<1>1. Launched'
  BY LaunchedKept DEF ServerInv, CheckCRD
<1>2. CrdsPending'
  <2>1. todo \in Seq(CrdNames) /\ todo # <<>> /\ stage = "checking"
    BY DEF ServerInv, CrdsPending, CheckCRD
  <2>2. todo' \in Seq(CrdNames) /\ todo' = Tail(todo) /\ stage' = "crds" /\ crds' = crds
    BY <2>1 DEF CheckCRD
  <2>3. flags' = flags
    BY FlagsKept DEF CheckCRD
  <2>4. ASSUME flags.registerCRDs, NEW n \in CrdNames
        PROVE  crds[n] = "established" \/ \E i \in 1..Len(Tail(todo)) : Tail(todo)[i] = n
    <3>1. CASE crds[n] = "established"
      BY <3>1
    <3>2. CASE crds[n] # "established"
      <4>1. PICK i \in 1..Len(todo) : todo[i] = n
        BY <2>1, <2>4, <3>2 DEF ServerInv, CrdsPending
      <4>2. i # 1
        BY <2>1, <3>2, <4>1 DEF CheckCRD
      <4>3. i - 1 \in 1..Len(Tail(todo)) /\ Tail(todo)[i - 1] = n
        BY <2>1, <4>1, <4>2
      <4> QED BY <4>3
    <3> QED BY <3>1, <3>2
  <2> QED BY <2>2, <2>3, <2>4 DEF ServerInv, CrdsPending
<1>3. Answered'
  BY DEF Answered, CheckCRD
<1>4. HooksDone'
  BY FlagsKept DEF ServerInv, HooksDone, CheckCRD
<1> QED BY <1>1, <1>2, <1>3, <1>4 DEF ServerInv

LEMMA AddControllersKeeps ==
  ASSUME ServerInv, AddControllers
  PROVE  ServerInv'
<1>1. Launched'
  BY LaunchedKept DEF ServerInv, AddControllers
<1>2. flags' = flags /\ crds' = crds /\ hooks' = hooks
  BY FlagsKept DEF AddControllers
<1>3. flags.registerCRDs => \A n \in CrdNames : crds[n] = "established"
  <2>1. stage = "crds" /\ todo = <<>>
    BY DEF AddControllers
  <2>2. 1..Len(todo) = {}
    BY <2>1
  <2> QED BY <2>1, <2>2 DEF ServerInv, CrdsPending
<1>4. CASE ~flags.webhooks
  <2>1. stage' = "serving" /\ todo' = <<>>
    BY <1>4 DEF AddControllers
  <2>2. CrdsPending'
    BY <1>2, <1>3, <2>1 DEF ServerInv, CrdsPending
  <2>3. Answered'
    BY <1>2, <1>4, <2>1 DEF Answered
  <2>4. ~Steady'
    BY <1>1, <1>2, <1>4 DEF Steady, Launched, flags
  <2> QED BY <1>1, <2>2, <2>3, <2>4 DEF ServerInv, HooksDone
<1>5. CASE flags.webhooks /\ flags.ca = ""
  BY <1>5, DownKept DEF AddControllers
<1>6. CASE flags.webhooks /\ flags.ca # ""
  <2>1. stage' = "hooks" /\ todo' = AllThree /\ serves' = UNION {PathsOf(doc) : doc \in Docs}
    BY <1>6, AllDocuments, AllPaths DEF AddControllers
  <2>2. CrdsPending'
    BY <1>2, <1>3, <2>1 DEF ServerInv, CrdsPending
  <2>3. Answered'
    BY <1>2, <1>6, <2>1 DEF Answered
  <2>4. DocsLeft' = Docs
    BY <2>1 DEF DocsLeft, AllThree, Document, Docs
  <2>5. HooksDone'
    BY <1>2, <2>1, <2>4, FlagsKept DEF ServerInv, HooksDone, AddControllers
  <2> QED BY <1>1, <2>2, <2>3, <2>5 DEF ServerInv
<1> QED BY <1>4, <1>5, <1>6

LEMMA ManageWebhookKeeps ==
  ASSUME ServerInv, ManageWebhook
  PROVE  ServerInv'
<1>1. Launched'
  BY LaunchedKept DEF ServerInv, ManageWebhook
<1>2. /\ stage = "hooks" /\ stage' = "hooks" /\ crds' = crds /\ serves' = serves
      /\ flags' = flags /\ todo' = Tail(todo)
  BY FlagsKept DEF ManageWebhook
<1>3. CrdsPending'
  BY <1>2 DEF ServerInv, CrdsPending
<1>4. todo \in {LastOne, LastTwo, AllThree}
  BY DEF ServerInv, Answered, ManageWebhook
<1>5. PICK now \in Docs :
        /\ Head(todo) = Document(now) /\ Tail(todo) \in {<<>>, LastOne, LastTwo}
        /\ DocsLeft = {Tail(todo)[i].doc : i \in DOMAIN Tail(todo)} \cup {now}
  BY <1>4, NextDocument
<1>6. Answered'
  BY <1>2, <1>5 DEF ServerInv, Answered
<1>7. DocsLeft = DocsLeft' \cup {now}
  BY <1>2, <1>5 DEF DocsLeft
<1>8. Head(todo).doc = now /\ Head(todo).paths = PathsOf(now)
  BY <1>5 DEF Document
<1>9. HooksDone'
  <2> SUFFICES ASSUME Steady'
               PROVE  /\ DOMAIN hooks' \subseteq {NameOf(doc)' : doc \in Docs}
                      /\ \A doc \in Docs : NameOf(doc)' \in DOMAIN hooks' =>
                           hooks'[NameOf(doc)'].paths = PathsOf(doc)
                      /\ \A doc \in Docs \ DocsLeft' :
                           /\ NameOf(doc)' \in DOMAIN hooks' <=> Keeps(doc)'
                           /\ NameOf(doc)' \in DOMAIN hooks' =>
                                hooks'[NameOf(doc)'].ca = flags'.ca
    BY DEF HooksDone
  <2>1. \A doc : NameOf(doc)' = NameOf(doc) /\ (Keeps(doc)' <=> Keeps(doc))
    BY FlagsKept DEF ManageWebhook
  <2>2. /\ DOMAIN hooks \subseteq {NameOf(doc) : doc \in Docs}
        /\ \A doc \in Docs : NameOf(doc) \in DOMAIN hooks =>
             hooks[NameOf(doc)].paths = PathsOf(doc)
        /\ \A doc \in Docs \ DocsLeft :
             /\ NameOf(doc) \in DOMAIN hooks <=> Keeps(doc)
             /\ NameOf(doc) \in DOMAIN hooks => hooks[NameOf(doc)].ca = flags.ca
    BY <1>2, FlagsKept DEF ServerInv, HooksDone, ManageWebhook
  <2>3. \A doc \in Docs : NameOf(doc) = NameOf(now) => doc = now
    BY NamesDiffer
  <2>4. CASE Keeps(now)
    <3>1. /\ DOMAIN hooks' = DOMAIN hooks \cup {NameOf(now)}
          /\ hooks'[NameOf(now)] = [paths |-> PathsOf(now), ca |-> flags.ca]
          /\ \A n \in DOMAIN hooks \ {NameOf(now)} : hooks'[n] = hooks[n]
      BY <1>8, <2>4 DEF ManageWebhook, Register
    <3>2. hooks'[NameOf(now)].paths = PathsOf(now) /\ hooks'[NameOf(now)].ca = flags.ca
      BY <3>1
    <3>3. ASSUME NEW doc \in Docs, doc # now
          PROVE  /\ NameOf(doc) \in DOMAIN hooks' <=> NameOf(doc) \in DOMAIN hooks
                 /\ NameOf(doc) \in DOMAIN hooks => hooks'[NameOf(doc)] = hooks[NameOf(doc)]
      BY <2>3, <3>1, <3>3
    <3> QED BY <1>2, <1>7, <2>1, <2>2, <2>4, <3>1, <3>2, <3>3
  <2>5. CASE ~Keeps(now)
    <3>1. /\ DOMAIN hooks' = DOMAIN hooks \ {NameOf(now)}
          /\ \A n \in DOMAIN hooks \ {NameOf(now)} : hooks'[n] = hooks[n]
      BY <1>8, <2>5 DEF ManageWebhook, Unregister, Restrict
    <3>3. ASSUME NEW doc \in Docs, doc # now
          PROVE  /\ NameOf(doc) \in DOMAIN hooks' <=> NameOf(doc) \in DOMAIN hooks
                 /\ NameOf(doc) \in DOMAIN hooks => hooks'[NameOf(doc)] = hooks[NameOf(doc)]
      BY <2>3, <3>1, <3>3
    <3> QED BY <1>2, <1>7, <2>1, <2>2, <2>5, <3>1, <3>3
  <2> QED BY <2>4, <2>5
<1> QED BY <1>1, <1>3, <1>6, <1>9 DEF ServerInv

LEMMA StartKeeps ==
  ASSUME ServerInv, Start
  PROVE  ServerInv'
<1>1. Launched'
  BY LaunchedKept DEF ServerInv, Start
<1>2. flags' = flags /\ DocsLeft' = DocsLeft
  BY FlagsKept DEF Start, DocsLeft
<1>3. CrdsPending'
  BY <1>2 DEF ServerInv, CrdsPending, Start
<1>4. Answered'
  BY <1>2 DEF ServerInv, Answered, Start
<1>5. HooksDone'
  BY <1>2, FlagsKept DEF ServerInv, HooksDone, Start
<1> QED BY <1>1, <1>3, <1>4, <1>5 DEF ServerInv

LEMMA EstablishKeeps ==
  ASSUME ServerInv, NEW m \in CrdNames, Establish(m)
  PROVE  ServerInv'
<1>1. Launched'
  BY LaunchedKept DEF ServerInv, Establish
<1>2. flags' = flags /\ DocsLeft' = DocsLeft
  BY FlagsKept DEF Establish, DocsLeft
<1>3. CrdsPending'
  <2>1. crds' \in [CrdNames -> {"absent", "stored", "established"}]
    BY DEF ServerInv, CrdsPending, Establish
  <2>2. \A n \in CrdNames : crds[n] = "established" => crds'[n] = "established"
    BY DEF ServerInv, CrdsPending, Establish
  <2>3. stage' = stage /\ todo' = todo
    BY DEF Establish
  <2> QED BY <1>2, <2>1, <2>2, <2>3 DEF ServerInv, CrdsPending
<1>4. Answered'
  BY <1>2 DEF ServerInv, Answered, Establish
<1>5. HooksDone'
  BY <1>2, FlagsKept DEF ServerInv, HooksDone, Establish
<1> QED BY <1>1, <1>3, <1>4, <1>5 DEF ServerInv

(* As long as the names of the webhooks stay, so do their documents. *)
LEMMA UpgradeKeeps ==
  ASSUME ServerInv, Upgrade
  PROVE  ServerInv'
<1>1. Launched'
  BY RolloutsAssumption DEF ServerInv, Launched, Upgrade
<1>2. CrdsPending'
  BY DEF ServerInv, CrdsPending, Upgrade, Exit
<1>3. Answered'
  BY DEF Answered, Upgrade, Exit
<1>4. HooksDone'
  <2> SUFFICES ASSUME Steady'
               PROVE  /\ DOMAIN hooks' \subseteq {NameOf(doc)' : doc \in Docs}
                      /\ \A doc \in Docs : NameOf(doc)' \in DOMAIN hooks' =>
                           hooks'[NameOf(doc)'].paths = PathsOf(doc)
    BY DEF HooksDone, Upgrade, Exit
  <2>1. at \in 1..at' /\ at' \in 1..at' /\ 1..at \subseteq 1..at'
    BY <1>1, RolloutsAssumption DEF ServerInv, Launched, Upgrade
  <2>2. Steady /\ flags'.prefix = flags.prefix
    BY <2>1 DEF Steady, Upgrade, flags
  <2>3. \A doc : NameOf(doc)' = NameOf(doc)
    BY <2>2 DEF NameOf
  <2> QED BY <2>2, <2>3 DEF ServerInv, HooksDone, Upgrade
<1> QED BY <1>1, <1>2, <1>3, <1>4 DEF ServerInv

LEMMA ServerStutters ==
  ASSUME ServerInv, UNCHANGED server
  PROVE  ServerInv'
<1>1. Launched'
  BY LaunchedKept DEF ServerInv, server
<1>2. flags' = flags /\ DocsLeft' = DocsLeft
  BY FlagsKept DEF server, DocsLeft
<1>3. CrdsPending'
  BY <1>2 DEF ServerInv, CrdsPending, server
<1>4. Answered'
  BY <1>2 DEF ServerInv, Answered, server
<1>5. HooksDone'
  BY <1>2, FlagsKept DEF ServerInv, HooksDone, server
<1> QED BY <1>1, <1>3, <1>4, <1>5 DEF ServerInv

LEMMA ServerStepKeeps ==
  ASSUME ServerInv, [ServerNext]_server
  PROVE  ServerInv'
<1>1. CASE Launch BY <1>1, LaunchKeeps
<1>2. CASE ApplyCRD BY <1>2, ApplyCRDKeeps
<1>3. CASE CheckCRD BY <1>3, CheckCRDKeeps
<1>4. CASE AddControllers BY <1>4, AddControllersKeeps
<1>5. CASE ManageWebhook BY <1>5, ManageWebhookKeeps
<1>6. CASE Start BY <1>6, StartKeeps
<1>7. CASE Outage BY <1>7, DownKept DEF Outage
<1>8. CASE Upgrade BY <1>8, UpgradeKeeps
<1>9. CASE \E n \in CrdNames : Establish(n) BY <1>9, EstablishKeeps
<1>10. CASE UNCHANGED server BY <1>10, ServerStutters
<1> QED
  BY <1>1, <1>2, <1>3, <1>4, <1>5, <1>6, <1>7, <1>8, <1>9, <1>10 DEF ServerNext, Starts

(* The invariant holds in every state (New, manageWebhooks). *)
THEOREM ServerInductive == ServerSpec => []ServerInv
<1>1. ServerInit => ServerInv
  BY ServerStarts
<1>2. ServerInv /\ [ServerNext]_server => ServerInv'
  BY ServerStepKeeps
<1> QED BY <1>1, <1>2, PTL DEF ServerSpec

(***************************************************************************)
(* A process that serves has its custom resources established and its      *)
(* webhooks registered as its flags ask for, whatever flags came before,   *)
(* wherever earlier starts ended and in whatever order the custom          *)
(* resources are listed (New, manageWebhooks).                             *)
(***************************************************************************)
THEOREM ServerComplete == ServerSpec => []ServingComplete
<1>1. ServerInv => ServingComplete
  <2> SUFFICES ASSUME ServerInv, stage = "serving"
               PROVE  ServingComplete
    BY DEF ServingComplete
  <2>1. flags.registerCRDs => \A n \in CrdNames : crds[n] = "established"
    BY DEF ServerInv, CrdsPending
  <2>2. ASSUME Steady
        PROVE  /\ DOMAIN hooks = {NameOf(doc) : doc \in {d \in Docs : Keeps(d)}}
               /\ \A n \in DOMAIN hooks : hooks[n].ca = flags.ca /\ hooks[n].paths \subseteq serves
    <3>1. DocsLeft = {}
      BY NothingLeft DEF ServerInv, Answered
    <3>2. flags.webhooks
      BY <2>2, RolloutsAssumption DEF Steady, ServerInv, Launched, flags
    <3>3. serves = UNION {PathsOf(doc) : doc \in Docs}
      BY <3>2 DEF ServerInv, Answered
    <3>4. /\ DOMAIN hooks \subseteq {NameOf(doc) : doc \in Docs}
          /\ \A doc \in Docs : NameOf(doc) \in DOMAIN hooks =>
               hooks[NameOf(doc)].paths = PathsOf(doc)
          /\ \A doc \in Docs :
               /\ NameOf(doc) \in DOMAIN hooks <=> Keeps(doc)
               /\ NameOf(doc) \in DOMAIN hooks => hooks[NameOf(doc)].ca = flags.ca
      BY <2>2, <3>1 DEF ServerInv, HooksDone
    <3>5. \A doc \in Docs : PathsOf(doc) \subseteq serves
      BY <3>3
    <3>6. ASSUME NEW n \in DOMAIN hooks
          PROVE  hooks[n].ca = flags.ca /\ hooks[n].paths \subseteq serves
      <4>1. PICK doc \in Docs : n = NameOf(doc)
        BY <3>4
      <4> QED BY <4>1, <3>4, <3>5
    <3>7. DOMAIN hooks = {NameOf(doc) : doc \in {d \in Docs : Keeps(d)}}
      BY <3>4
    <3> QED BY <3>6, <3>7
  <2> QED BY <2>1, <2>2 DEF ServingComplete, Docs
<1> QED BY <1>1, ServerInductive, PTL

-----------------------------------------------------------------------------
(***************************************************************************)
(* The preload of a provider.                                              *)
(***************************************************************************)
PreloadSpec == ProviderInit /\ [][ProviderNext]_providers

IsProvider(o) == o \in [gen : {o.gen}, conds : {o.conds}, recent : BOOLEAN]

ProvidersHeld ==
  /\ IsProvider(prov) /\ IsProvider(provSeen)
  /\ checking # <<>> => \E o : checking = <<o>> /\ IsProvider(o)
  /\ loading # <<>> => \E o : loading = <<o>> /\ IsProvider(o)
  /\ setting \in Settings /\ faulty \in Nat

(* The cache has a prefix of the jobs, some of them as they were earlier. *)
JobsBehind ==
  /\ jobs \in Seq({"active", "complete", "failed"})
  /\ jobsSeen \in Seq({"active", "complete", "failed"})
  /\ Len(jobsSeen) <= Len(jobs)
  /\ \A i \in 1..Len(jobsSeen) : jobs[i] = "active" => jobsSeen[i] = "active"
  /\ "jobs" \notin setting.lag => jobsSeen = jobs

OneCacheLags == ~("jobs" \in setting.lag /\ (faulty > 0 \/ "provider" \in setting.lag))

(* A job the cache does not have yet has left its time stamp behind. *)
Stamped ==
  OneCacheLags /\ Len(jobsSeen) < Len(jobs) =>
    prov.recent /\ (loading # <<>> => Head(loading).recent)

FreshProvider == "provider" \notin setting.lag => provSeen = prov

OnlyLatest == OneCacheLags => \A i \in 1..Len(jobs) : jobs[i] = "active" => i = Len(jobs)

PreloadInv == ProvidersHeld /\ JobsBehind /\ FreshProvider /\ Stamped /\ OnlyLatest

LEMMA ConditionKeeps ==
  ASSUME NEW o, IsProvider(o), NEW type, NEW reason
  PROVE  IsProvider(Condition(o, type, reason)) /\ Condition(o, type, reason).recent = o.recent
BY DEF IsProvider, Condition

LEMMA RegisteredKeeps ==
  ASSUME NEW o, IsProvider(o)
  PROVE  IsProvider(Registered(o)) /\ Registered(o).recent = o.recent
BY DEF IsProvider, Registered

LEMMA Patched ==
  ASSUME NEW o, IsProvider(o), NEW c, NEW r \in BOOLEAN
  PROVE  /\ IsProvider([o EXCEPT !.conds = c, !.recent = r])
         /\ [o EXCEPT !.conds = c, !.recent = r].recent = r
BY DEF IsProvider

(* A status patch never takes the time stamp away. *)
LEMMA StatusKeeps ==
  ASSUME IsProvider(prov), NEW read, IsProvider(read), NEW o, IsProvider(o)
  PROVE  /\ IsProvider(StatusOf(read, o)) /\ (prov.recent => StatusOf(read, o).recent)
         /\ o.recent /\ ~read.recent => StatusOf(read, o).recent
<1> DEFINE stamp == prov.recent \/ (o.recent /\ ~read.recent)
           conds == IF o.conds # read.conds THEN o.conds ELSE prov.conds
<1>1. stamp \in BOOLEAN
  OBVIOUS
<1>2. StatusOf(read, o) = [prov EXCEPT !.conds = conds, !.recent = stamp]
  BY DEF StatusOf
<1>3. (prov.recent => stamp) /\ (o.recent /\ ~read.recent => stamp)
  OBVIOUS
<1> HIDE DEF stamp, conds
<1>4. StatusOf(read, o).recent = stamp /\ IsProvider(StatusOf(read, o))
  <2>1. /\ IsProvider([prov EXCEPT !.conds = conds, !.recent = stamp])
        /\ [prov EXCEPT !.conds = conds, !.recent = stamp].recent = stamp
    BY <1>1, Patched, Zenon
  <2> QED BY <1>2, <2>1, Zenon
<1> QED BY <1>3, <1>4

LEMMA PreloadStarts ==
  ASSUME ProviderInit
  PROVE  PreloadInv
<1>1. ProvidersHeld
  BY DEF ProviderInit, ProvidersHeld, IsProvider
<1>2. JobsBehind
  BY DEF ProviderInit, JobsBehind
<1>3. FreshProvider
  BY DEF ProviderInit, FreshProvider
<1>4. Len(jobs) = 0 /\ Len(jobsSeen) = 0
  BY DEF ProviderInit
<1>5. Stamped /\ OnlyLatest
  BY <1>4 DEF Stamped, OnlyLatest
<1> QED BY <1>1, <1>2, <1>3, <1>5 DEF PreloadInv

-----------------------------------------------------------------------------
(***************************************************************************)
(* Every step of the provider's controllers keeps the invariant.           *)
(***************************************************************************)
LEMMA HeadOfRun ==
  ASSUME PreloadInv
  PROVE  /\ loading # <<>> => IsProvider(Head(loading))
         /\ checking # <<>> => IsProvider(Head(checking))
<1>1. ASSUME NEW run, NEW o, run = <<o>>, IsProvider(o)
      PROVE  IsProvider(Head(run))
  <2>1. Head(run) = o
    BY <1>1
  <2> QED BY <1>1, <2>1
<1> QED BY <1>1 DEF PreloadInv, ProvidersHeld

(* The Provider is stored, or left as it is. *)
LEMMA StoredProvider ==
  ASSUME PreloadInv, setting' = setting, NEW o, IsProvider(o), StoreProvider(o)
  PROVE  prov' = o /\ IsProvider(prov') /\ IsProvider(provSeen') /\ FreshProvider'
BY DEF PreloadInv, ProvidersHeld, StoreProvider, FreshProvider

LEMMA KeptProvider ==
  ASSUME PreloadInv, setting' = setting, UNCHANGED objects
  PROVE  /\ prov' = prov /\ IsProvider(prov') /\ IsProvider(provSeen')
         /\ FreshProvider'
BY DEF PreloadInv, ProvidersHeld, objects, FreshProvider

(* A step that leaves the jobs alone. *)
LEMMA JobsAlone ==
  ASSUME PreloadInv, UNCHANGED jobState, setting' = setting,
         faulty' \in {faulty, faulty + 1}, ProvidersHeld', FreshProvider',
         prov.recent => prov'.recent, loading' \in {<<>>, loading, <<provSeen>>}
  PROVE  PreloadInv'
<1>1. jobs' = jobs /\ jobsSeen' = jobsSeen
  BY DEF jobState
<1>2. JobsBehind'
  BY <1>1 DEF PreloadInv, JobsBehind
<1>3. OneCacheLags' => OneCacheLags
  BY DEF OneCacheLags, PreloadInv, ProvidersHeld
<1>4. OnlyLatest'
  BY <1>1, <1>3 DEF PreloadInv, OnlyLatest
<1>5. Stamped'
  <2> SUFFICES ASSUME OneCacheLags, Len(jobsSeen) < Len(jobs)
               PROVE  prov'.recent /\ (loading' # <<>> => Head(loading').recent)
    BY <1>1, <1>3 DEF Stamped
  <2>1. prov.recent /\ (loading # <<>> => Head(loading).recent)
    BY DEF PreloadInv, Stamped
  <2>2. "provider" \notin setting.lag
    BY DEF OneCacheLags, PreloadInv, JobsBehind
  <2>3. provSeen = prov
    BY <2>2 DEF PreloadInv, FreshProvider
  <2>4. Head(<<provSeen>>) = provSeen
    OBVIOUS
  <2> QED BY <2>1, <2>3, <2>4
<1> QED BY <1>2, <1>4, <1>5 DEF PreloadInv

(* The end of a run of the preload controller. *)
LEMMA RunEnds ==
  ASSUME PreloadInv, loading # <<>>, NEW o, IsProvider(o), NEW requeue, EndPreload(o, requeue)
  PROVE  /\ ProvidersHeld' /\ FreshProvider' /\ faulty' \in {faulty, faulty + 1}
         /\ setting' = setting /\ loading' = <<>> /\ (prov.recent => prov'.recent)
         /\ faulty' = faulty /\ o.recent /\ ~Head(loading).recent => prov'.recent
<1>1. /\ setting' = setting /\ loading' = <<>> /\ checking' = checking
      /\ faulty' \in {faulty, faulty + 1}
  BY DEF EndPreload
<1>2. faulty \in Nat
  BY DEF PreloadInv, ProvidersHeld
<1>3. IsProvider(Head(loading)) /\ IsProvider(prov)
  BY HeadOfRun DEF PreloadInv, ProvidersHeld
<1>4. CASE StoreProvider(StatusOf(Head(loading), o)) /\ faulty' = faulty
  <2>1. IsProvider(StatusOf(Head(loading), o))
    BY <1>3, StatusKeeps
  <2>2. /\ prov' = StatusOf(Head(loading), o) /\ IsProvider(prov')
        /\ IsProvider(provSeen') /\ FreshProvider'
    BY <1>1, <1>4, <2>1, StoredProvider
  <2>3. ProvidersHeld'
    BY <1>1, <2>2 DEF PreloadInv, ProvidersHeld
  <2>4. (prov.recent => prov'.recent) /\ (o.recent /\ ~Head(loading).recent => prov'.recent)
    BY <1>3, <2>2, StatusKeeps
  <2> QED BY <1>1, <2>2, <2>3, <2>4
<1>5. CASE faulty' = faulty + 1 /\ UNCHANGED objects
  <2>1. prov' = prov /\ IsProvider(prov') /\ IsProvider(provSeen') /\ FreshProvider'
    BY <1>1, <1>5, KeptProvider
  <2>2. ProvidersHeld'
    BY <1>1, <1>2, <1>5, <2>1 DEF PreloadInv, ProvidersHeld
  <2>3. faulty' # faulty
    BY <1>2, <1>5
  <2> QED BY <1>1, <2>1, <2>2, <2>3
<1> QED BY <1>4, <1>5 DEF EndPreload

LEMMA ReadsKeep ==
  ASSUME PreloadInv, ReadForCheck \/ ReadForPreload
  PROVE  PreloadInv'
<1>1. /\ UNCHANGED objects /\ UNCHANGED jobState /\ setting' = setting /\ faulty' = faulty
      /\ loading' \in {loading, <<provSeen>>}
  BY DEF ReadForCheck, ReadForPreload
<1>2. prov' = prov /\ IsProvider(prov') /\ IsProvider(provSeen') /\ FreshProvider'
  BY <1>1, KeptProvider
<1>3. (\E o : checking' = <<o>> /\ IsProvider(o)) \/ checking' = checking
  BY RegisteredKeeps DEF ReadForCheck, ReadForPreload, PreloadInv, ProvidersHeld
<1>4. ProvidersHeld'
  BY <1>1, <1>2, <1>3 DEF PreloadInv, ProvidersHeld
<1> QED BY <1>1, <1>2, <1>4, JobsAlone

LEMMA CheckKeeps ==
  ASSUME PreloadInv, CheckProvider
  PROVE  PreloadInv'
<1> DEFINE read == Head(checking)
           fits == SecretFits(SpecOf(read))
           o == Condition(read, "ready", IF fits THEN "Ready" ELSE "ActionRequired")
<1>1. /\ UNCHANGED jobState /\ setting' = setting /\ loading' = loading /\ checking' = <<>>
      /\ checking # <<>>
      /\ \/ StoreProvider(StatusOf(read, o)) /\ faulty' = faulty
         \/ UNCHANGED objects /\ faulty' = faulty + 1
  BY DEF CheckProvider
<1>2. IsProvider(read) /\ IsProvider(prov) /\ faulty \in Nat
  BY <1>1, HeadOfRun DEF PreloadInv, ProvidersHeld
<1>3. IsProvider(o)
  BY <1>2, ConditionKeeps
<1> HIDE DEF o, read
<1>4. CASE StoreProvider(StatusOf(read, o)) /\ faulty' = faulty
  <2>1. IsProvider(StatusOf(read, o)) /\ (prov.recent => StatusOf(read, o).recent)
    BY <1>2, <1>3, StatusKeeps
  <2>2. prov' = StatusOf(read, o) /\ IsProvider(prov') /\ IsProvider(provSeen') /\ FreshProvider'
    BY <1>1, <1>4, <2>1, StoredProvider
  <2>3. ProvidersHeld'
    BY <1>1, <1>4, <2>2 DEF PreloadInv, ProvidersHeld
  <2>4. prov.recent => prov'.recent
    BY <2>1, <2>2
  <2> QED BY <1>1, <1>4, <2>2, <2>3, <2>4, JobsAlone
<1>5. CASE UNCHANGED objects /\ faulty' = faulty + 1
  <2>1. prov' = prov /\ IsProvider(prov') /\ IsProvider(provSeen') /\ FreshProvider'
    BY <1>1, <1>5, KeptProvider
  <2>2. ProvidersHeld'
    BY <1>1, <1>2, <1>5, <2>1 DEF PreloadInv, ProvidersHeld
  <2> QED BY <1>1, <1>5, <2>1, <2>2, JobsAlone
<1> QED BY <1>1, <1>4, <1>5

(* The runs that start no job. *)
LEMMA RunsKeep ==
  ASSUME PreloadInv, PreloadDisabled \/ AwaitReady \/ AwaitJob \/ PreloadRecent
  PROVE  PreloadInv'
<1>1. loading # <<>> /\ UNCHANGED jobState
  BY DEF PreloadDisabled, AwaitReady, AwaitJob, PreloadRecent
<1> DEFINE o == Head(loading)
<1>2. IsProvider(o)
  BY <1>1, HeadOfRun
<1>3. \E new, requeue : IsProvider(new) /\ EndPreload(new, requeue)
  <2>1. \A reason : IsProvider(Condition(o, "preload", reason))
    BY <1>2, ConditionKeeps
  <2>2. IsProvider(PreloadStatus(o))
    <3> HIDE DEF o
    <3>1. PreloadStatus(o) \in {Condition(o, "preload", "Failed"),
                                Condition(o, "preload", "Success"), o}
      BY Zenon DEF PreloadStatus
    <3> QED BY <1>2, <2>1, <3>1
  <2>3. CASE PreloadDisabled
    BY <2>1, <2>3 DEF PreloadDisabled
  <2>4. CASE AwaitReady
    BY <2>1, <2>4 DEF AwaitReady
  <2>5. CASE AwaitJob
    BY <2>1, <2>5 DEF AwaitJob
  <2>6. CASE PreloadRecent
    BY <2>2, <2>6 DEF PreloadRecent
  <2> QED BY <2>3, <2>4, <2>5, <2>6
<1>4. PICK new, requeue : IsProvider(new) /\ EndPreload(new, requeue)
  BY <1>3
<1>5. /\ ProvidersHeld' /\ FreshProvider' /\ faulty' \in {faulty, faulty + 1}
      /\ setting' = setting /\ loading' = <<>> /\ (prov.recent => prov'.recent)
  BY <1>1, <1>4, RunEnds
<1> QED BY <1>1, <1>5, JobsAlone

LEMMA FailureKeeps ==
  ASSUME PreloadInv, PreloadFails
  PROVE  PreloadInv'
<1> DEFINE o == Condition(Head(loading), "preload", "Failed")
<1>1. /\ loading # <<>> /\ UNCHANGED jobState /\ setting' = setting /\ loading' = <<>>
      /\ checking' = checking /\ faulty' = faulty + 1 /\ faulty \in Nat
      /\ StoreProvider(StatusOf(Head(loading), o))
  BY DEF PreloadFails, PreloadInv, ProvidersHeld
<1>2. IsProvider(Head(loading)) /\ IsProvider(prov)
  BY <1>1, HeadOfRun DEF PreloadInv, ProvidersHeld
<1>3. IsProvider(o)
  BY <1>2, ConditionKeeps
<1> HIDE DEF o
<1>4. IsProvider(StatusOf(Head(loading), o)) /\ (prov.recent => StatusOf(Head(loading), o).recent)
  BY <1>2, <1>3, StatusKeeps
<1>5. /\ prov' = StatusOf(Head(loading), o) /\ IsProvider(prov')
      /\ IsProvider(provSeen') /\ FreshProvider'
  BY <1>1, <1>4, StoredProvider
<1>6. ProvidersHeld'
  BY <1>1, <1>5 DEF PreloadInv, ProvidersHeld
<1>7. prov.recent => prov'.recent
  BY <1>4, <1>5
<1> QED BY <1>1, <1>5, <1>6, <1>7, JobsAlone

LEMMA EditKeeps ==
  ASSUME PreloadInv, EditProvider
  PROVE  PreloadInv'
<1> DEFINE o == [prov EXCEPT !.gen = @ + 1]
<1>1. /\ UNCHANGED jobState /\ setting' = setting /\ loading' = loading
      /\ checking' = checking /\ faulty' = faulty /\ StoreProvider(o)
  BY DEF EditProvider
<1>2. IsProvider(o) /\ o.recent = prov.recent
  BY DEF PreloadInv, ProvidersHeld, IsProvider
<1> HIDE DEF o
<1>3. prov' = o /\ IsProvider(prov') /\ IsProvider(provSeen') /\ FreshProvider'
  BY <1>1, <1>2, StoredProvider
<1>4. ProvidersHeld'
  BY <1>1, <1>3 DEF PreloadInv, ProvidersHeld
<1>5. prov.recent => prov'.recent
  BY <1>2, <1>3
<1> QED BY <1>1, <1>3, <1>4, <1>5, JobsAlone

LEMMA OutsideKeeps ==
  ASSUME PreloadInv, CloudChanges \/ SyncProvider \/ \E s \in DOMAIN secrets : FixSecret(s)
  PROVE  PreloadInv'
<1>1. /\ UNCHANGED jobState /\ setting' = setting /\ loading' = loading
      /\ checking' = checking /\ faulty' = faulty /\ prov' = prov
      /\ provSeen' \in {provSeen, prov}
  BY DEF CloudChanges, SyncProvider, FixSecret, objects
<1>2. ProvidersHeld' /\ FreshProvider'
  BY <1>1 DEF PreloadInv, ProvidersHeld, FreshProvider
<1> QED BY <1>1, <1>2, JobsAlone

(* By the time an interval has passed the cache has the jobs. *)
LEMMA IntervalKeeps ==
  ASSUME PreloadInv, IntervalPasses
  PROVE  PreloadInv'
<1>1. /\ jobs' = jobs /\ jobsSeen' = jobsSeen /\ setting' = setting /\ loading' = loading
      /\ checking' = checking /\ faulty' = faulty /\ Len(jobsSeen) = Len(jobs)
      /\ prov' = [prov EXCEPT !.recent = FALSE]
      /\ provSeen' = [provSeen EXCEPT !.recent = FALSE]
  BY DEF IntervalPasses, jobState
<1>2. IsProvider(prov') /\ IsProvider(provSeen')
  BY <1>1 DEF PreloadInv, ProvidersHeld, IsProvider
<1>3. ProvidersHeld' /\ FreshProvider'
  BY <1>1, <1>2 DEF PreloadInv, ProvidersHeld, FreshProvider
<1>4. JobsBehind' /\ OnlyLatest'
  BY <1>1 DEF PreloadInv, JobsBehind, OnlyLatest, OneCacheLags
<1>5. Stamped'
  BY <1>1 DEF PreloadInv, JobsBehind, Stamped
<1> QED BY <1>3, <1>4, <1>5 DEF PreloadInv

LEMMA SyncJobsKeeps ==
  ASSUME PreloadInv, SyncJobs
  PROVE  PreloadInv'
<1>1. /\ jobs' = jobs /\ jobsSeen' = jobs /\ setting' = setting /\ loading' = loading
      /\ checking' = checking /\ faulty' = faulty /\ UNCHANGED objects
  BY DEF SyncJobs
<1>2. prov' = prov /\ IsProvider(prov') /\ IsProvider(provSeen') /\ FreshProvider'
  BY <1>1, KeptProvider
<1>3. ProvidersHeld'
  BY <1>1, <1>2 DEF PreloadInv, ProvidersHeld
<1>4. JobsBehind' /\ OnlyLatest'
  BY <1>1 DEF PreloadInv, JobsBehind, OnlyLatest, OneCacheLags
<1>5. Stamped'
  BY <1>1 DEF PreloadInv, JobsBehind, Stamped
<1> QED BY <1>2, <1>3, <1>4, <1>5 DEF PreloadInv

LEMMA JobEndKeeps ==
  ASSUME PreloadInv, NEW i \in DOMAIN jobs, JobEnds(i)
  PROVE  PreloadInv'
<1>1. PICK end \in {"complete", "failed"} : StoreJobs([jobs EXCEPT ![i] = end])
  BY DEF JobEnds, JobLoads, JobFails
<1>2. /\ setting' = setting /\ loading' = loading /\ checking' = checking
      /\ faulty' = faulty /\ UNCHANGED objects
  BY DEF JobEnds, JobLoads, JobFails
<1>3. prov' = prov /\ IsProvider(prov') /\ IsProvider(provSeen') /\ FreshProvider'
  BY <1>2, KeptProvider
<1>4. ProvidersHeld'
  BY <1>2, <1>3 DEF PreloadInv, ProvidersHeld
<1>5. /\ jobs' = [jobs EXCEPT ![i] = end]
      /\ jobsSeen' = IF "jobs" \in setting.lag THEN jobsSeen ELSE jobs'
  BY <1>1 DEF StoreJobs
<1>6. /\ jobs' \in Seq({"active", "complete", "failed"}) /\ Len(jobs') = Len(jobs)
      /\ \A k \in 1..Len(jobs) : jobs'[k] = "active" => jobs[k] = "active"
  BY <1>5 DEF PreloadInv, JobsBehind
<1>7. JobsBehind'
  <2>1. CASE "jobs" \in setting.lag
    <3>1. jobsSeen' = jobsSeen /\ Len(jobsSeen) <= Len(jobs)
      BY <1>5, <2>1 DEF PreloadInv, JobsBehind
    <3>2. \A k \in 1..Len(jobsSeen) : jobs'[k] = "active" => jobs[k] = "active"
      BY <1>6, <3>1 DEF PreloadInv, JobsBehind
    <3> QED BY <1>2, <1>6, <2>1, <3>1, <3>2 DEF PreloadInv, JobsBehind
  <2>2. CASE "jobs" \notin setting.lag
    BY <1>2, <1>5, <1>6, <2>2 DEF JobsBehind
  <2> QED BY <2>1, <2>2
<1>8. OneCacheLags' <=> OneCacheLags
  BY <1>2 DEF OneCacheLags
<1>9. OnlyLatest'
  BY <1>6, <1>8 DEF PreloadInv, OnlyLatest
<1>10. Len(jobsSeen') < Len(jobs') => Len(jobsSeen) < Len(jobs)
  BY <1>5, <1>6 DEF PreloadInv, JobsBehind
<1>11. Stamped'
  BY <1>2, <1>3, <1>8, <1>10 DEF PreloadInv, Stamped
<1> QED BY <1>3, <1>4, <1>7, <1>9, <1>11 DEF PreloadInv

(* The run that starts a job: the job before it has ended. *)
LEMMA StartPreloadKeeps ==
  ASSUME PreloadInv, StartPreload
  PROVE  PreloadInv'
<1> DEFINE read == Head(loading)
           shown == Condition(Condition(read, "preload", "Loading"), "ready", "Ready")
           o == Timed(shown)
           requeue == "jobs" \notin setting.lag
<1>1. /\ loading # <<>> /\ ~IsActive(LatestJob(jobsSeen)) /\ ~read.recent
      /\ StoreJobs(Append(jobs, "active")) /\ EndPreload(o, requeue)
  BY DEF StartPreload
<1>2. IsProvider(read)
  BY <1>1, HeadOfRun
<1>3. IsProvider(shown)
  BY <1>2, ConditionKeeps
<1>4. IsProvider(o) /\ o.recent
  <2> HIDE DEF shown
  <2> QED BY <1>3 DEF Timed, IsProvider
<1> HIDE DEF o, requeue, shown
<1>5. /\ ProvidersHeld' /\ FreshProvider' /\ faulty' \in {faulty, faulty + 1}
      /\ setting' = setting /\ loading' = <<>>
      /\ faulty' = faulty => prov'.recent
  BY <1>1, <1>4, RunEnds
<1>6. /\ jobs \in Seq({"active", "complete", "failed"}) /\ faulty \in Nat
      /\ jobs' = Append(jobs, "active")
      /\ jobsSeen' = IF "jobs" \in setting.lag THEN jobsSeen ELSE jobs'
  BY <1>1 DEF PreloadInv, JobsBehind, ProvidersHeld, StoreJobs
<1>7. /\ jobs' \in Seq({"active", "complete", "failed"}) /\ Len(jobs') = Len(jobs) + 1
      /\ \A i \in 1..Len(jobs) : jobs'[i] = jobs[i]
  BY <1>6
<1>8. JobsBehind'
  <2>1. CASE "jobs" \in setting.lag
    <3>1. jobsSeen' = jobsSeen /\ Len(jobsSeen) <= Len(jobs) /\ Len(jobsSeen) \in Nat
      BY <1>6, <2>1 DEF PreloadInv, JobsBehind
    <3>2. \A i \in 1..Len(jobsSeen) : jobs'[i] = jobs[i]
      BY <1>7, <3>1
    <3> QED BY <1>5, <1>7, <2>1, <3>1, <3>2 DEF PreloadInv, JobsBehind
  <2>2. CASE "jobs" \notin setting.lag
    BY <1>5, <1>6, <1>7, <2>2 DEF JobsBehind
  <2> QED BY <2>1, <2>2
<1>9. OneCacheLags' => OneCacheLags
  BY <1>5, <1>6 DEF OneCacheLags
<1>10. ASSUME OneCacheLags
       PROVE  \A i \in 1..Len(jobs) : jobs[i] # "active"
  <2>1. Len(jobsSeen) = Len(jobs)
    BY <1>1, <1>10 DEF PreloadInv, JobsBehind, Stamped
  <2>2. jobsSeen # <<>> => jobsSeen[Len(jobsSeen)] # "active"
    BY <1>1 DEF LatestJob, Last, IsActive
  <2>3. Len(jobs) \in Nat
    BY <1>6
  <2>4. Len(jobs) > 0 => jobs[Len(jobs)] # "active"
    BY <2>1, <2>2, <2>3 DEF PreloadInv, JobsBehind
  <2> QED BY <1>10, <2>3, <2>4 DEF PreloadInv, OnlyLatest
<1>11. OnlyLatest'
  <2> SUFFICES ASSUME OneCacheLags', NEW i \in 1..Len(jobs'), jobs'[i] = "active"
               PROVE  i = Len(jobs')
    BY DEF OnlyLatest
  <2>1. i \notin 1..Len(jobs)
    BY <1>7, <1>9, <1>10
  <2> QED BY <1>6, <1>7, <2>1
<1>12. Stamped'
  <2> SUFFICES ASSUME OneCacheLags', Len(jobsSeen') < Len(jobs')
               PROVE  prov'.recent
    BY <1>5 DEF Stamped
  <2>1. "jobs" \in setting.lag
    BY <1>6
  <2>2. faulty' = faulty
    BY <1>5, <1>6, <2>1 DEF OneCacheLags
  <2> QED BY <1>5, <2>2
<1> QED BY <1>5, <1>8, <1>11, <1>12 DEF PreloadInv

LEMMA PreloadStutters ==
  ASSUME PreloadInv, UNCHANGED providers
  PROVE  PreloadInv'
<1>1. /\ UNCHANGED jobState /\ setting' = setting /\ loading' = loading
      /\ checking' = checking /\ faulty' = faulty /\ UNCHANGED objects
  BY DEF providers
<1>2. prov' = prov /\ IsProvider(prov') /\ IsProvider(provSeen') /\ FreshProvider'
  BY <1>1, KeptProvider
<1>3. ProvidersHeld'
  BY <1>1, <1>2 DEF PreloadInv, ProvidersHeld
<1> QED BY <1>1, <1>2, <1>3, JobsAlone

LEMMA PreloadStepKeeps ==
  ASSUME PreloadInv, [ProviderNext]_providers
  PROVE  PreloadInv'
<1>1. CASE ReadForCheck \/ ReadForPreload BY <1>1, ReadsKeep
<1>2. CASE CheckProvider BY <1>2, CheckKeeps
<1>3. CASE PreloadDisabled \/ AwaitReady \/ AwaitJob \/ PreloadRecent BY <1>3, RunsKeep
<1>4. CASE StartPreload BY <1>4, StartPreloadKeeps
<1>5. CASE PreloadFails BY <1>5, FailureKeeps
<1>6. CASE \E i \in DOMAIN jobs : JobEnds(i) BY <1>6, JobEndKeeps
<1>7. CASE EditProvider BY <1>7, EditKeeps
<1>8. CASE CloudChanges \/ SyncProvider \/ \E s \in DOMAIN secrets : FixSecret(s)
  BY <1>8, OutsideKeeps
<1>9. CASE IntervalPasses BY <1>9, IntervalKeeps
<1>10. CASE SyncJobs BY <1>10, SyncJobsKeeps
<1>11. CASE UNCHANGED providers BY <1>11, PreloadStutters
<1> QED
  BY <1>1, <1>2, <1>3, <1>4, <1>5, <1>6, <1>7, <1>8, <1>9, <1>10, <1>11
  DEF ProviderNext, ProviderRun, PreloadRun

(***************************************************************************)
(* Two preload jobs never run at the same time, however the two            *)
(* controllers, the jobs, the edits and the failures interleave, unless    *)
(* the cache of the jobs lags and the Provider does not show the time of   *)
(* the last preload (ensurePreloadNotRunning, ensurePreload).              *)
(***************************************************************************)
THEOREM PreloadsOneAtATime == PreloadSpec => []PreloadOnce
<1>1. ProviderInit => PreloadInv
  BY PreloadStarts
<1>2. PreloadInv /\ [ProviderNext]_providers => PreloadInv'
  BY PreloadStepKeeps
<1>3. PreloadInv => PreloadOnce
  <2> DEFINE running == {i \in DOMAIN jobs : IsActive(jobs[i])}
  <2> SUFFICES ASSUME PreloadInv, OneCacheLags
               PROVE  Cardinality(running) <= 1
    BY DEF PreloadOnce, OneCacheLags
  <2>1. running \subseteq {Len(jobs)}
    BY DEF PreloadInv, JobsBehind, OnlyLatest, IsActive
  <2>2. IsFiniteSet({Len(jobs)}) /\ Cardinality({Len(jobs)}) = 1
    BY FS_Singleton
  <2>3. Cardinality(running) <= Cardinality({Len(jobs)})
    BY <2>1, <2>2, FS_Subset
  <2> QED BY <2>2, <2>3
<1> QED BY <1>1, <1>2, <1>3, PTL DEF PreloadSpec

-----------------------------------------------------------------------------
(***************************************************************************)
(* The Context.  What a preload finds does not depend on the order of the  *)
(* listings.                                                               *)
(***************************************************************************)
LEMMA ListingIsWhole ==
  ASSUME NEW S, IsFiniteSet(S), NEW s \in Listings(S)
  PROVE  Range(s) = S /\ IsInjective(s) /\ DOMAIN s \subseteq Int
<1>1. s \in [1..Cardinality(S) -> S] /\ IsInjective(s) /\ DOMAIN s = 1..Cardinality(S)
  BY DEF Listings
<1>2. s \in Injection(1..Cardinality(S), S)
  BY <1>1 DEF Injection
<1>3. Cardinality(S) \in Nat
  BY FS_CardinalityType
<1>4. Cardinality(1..Cardinality(S)) = Cardinality(S)
  BY <1>3, FS_Interval
<1>5. s \in Surjection(1..Cardinality(S), S)
  BY <1>2, <1>4, FS_Injection
<1>6. S \subseteq Range(s) /\ Range(s) \subseteq S
  BY <1>1, <1>5 DEF Surjection, Range
<1> QED BY <1>1, <1>3, <1>6

LEMMA SortedSame ==
  ASSUME NEW s, NEW t, Range(s) = Range(t), NEW kept
  PROVE  SortedUnique(s, kept) = SortedUnique(t, kept)
BY DEF SortedUnique

LEMMA LastOfOne ==
  ASSUME NEW s, DOMAIN s \subseteq Int, IsInjective(s), NEW i \in DOMAIN s
  PROVE  LastOf(s, {s[i]}) = s[i]
<1> DEFINE P(k) == s[k] \in {s[i]} /\ \A j \in DOMAIN s : s[j] \in {s[i]} => j <= k
<1>1. \A j \in DOMAIN s : s[j] \in {s[i]} => j = i
  BY DEF IsInjective
<1>2. P(i)
  <2>1. i \in Int /\ i <= i
    OBVIOUS
  <2> QED BY <1>1, <2>1
<1>3. (CHOOSE k \in DOMAIN s : P(k)) \in DOMAIN s /\ P(CHOOSE k \in DOMAIN s : P(k))
  <2> HIDE DEF P
  <2> QED BY <1>2
<1>4. s[CHOOSE k \in DOMAIN s : P(k)] = s[i]
  BY <1>3
<1> QED BY <1>4 DEF LastOf

(* Of names that are distinct the listing does not matter. *)
LEMMA NamedOnce ==
  ASSUME NEW names, Distinct(names), NEW s, Range(s) = DOMAIN names, IsInjective(s),
         DOMAIN s \subseteq Int
  PROVE  LastNamed(names, s) = [k \in KeysOf(names) |-> CHOOSE x \in Keyed(names, k) : TRUE]
<1> DEFINE last(k) == LastOf(s, Keyed(names, k))
           owner(k) == CHOOSE x \in Keyed(names, k) : TRUE
<1>1. ASSUME NEW k \in KeysOf(names)
      PROVE  last(k) = owner(k)
  <2>1. PICK x \in DOMAIN names : x \in Keyed(names, k)
    BY <1>1 DEF KeysOf, Keyed, Range
  <2>2. Keyed(names, k) = {x}
    BY <1>1, <2>1 DEF Distinct
  <2>3. PICK i \in DOMAIN s : s[i] = x
    BY <2>1 DEF Range
  <2>4. last(k) = x
    BY <2>2, <2>3, LastOfOne
  <2>5. owner(k) = x
    BY <2>2
  <2> QED BY <2>4, <2>5
<1> HIDE DEF last, owner
<1>2. [k \in KeysOf(names) |-> last(k)] = [k \in KeysOf(names) |-> owner(k)]
  BY <1>1
<1> QED BY <1>2 DEF LastNamed, last, owner

(* Of two orderings of one account. *)
LEMMA NamedSame ==
  ASSUME NEW names, Distinct(names), IsFiniteSet(DOMAIN names),
         NEW s \in Listings(DOMAIN names), NEW t \in Listings(DOMAIN names)
  PROVE  LastNamed(names, s) = LastNamed(names, t)
<1>1. /\ Range(s) = DOMAIN names /\ IsInjective(s) /\ DOMAIN s \subseteq Int
      /\ Range(t) = DOMAIN names /\ IsInjective(t) /\ DOMAIN t \subseteq Int
  BY ListingIsWhole
<1>2. LastNamed(names, s) = [k \in KeysOf(names) |-> CHOOSE x \in Keyed(names, k) : TRUE]
  BY <1>1, NamedOnce
<1>3. LastNamed(names, t) = [k \in KeysOf(names) |-> CHOOSE x \in Keyed(names, k) : TRUE]
  BY <1>1, NamedOnce
<1> QED BY <1>2, <1>3

LoadsOf(c) == {Load(c, o) : o \in Orderings(c)}

ContextFields == {"cluster", "lists", "fixed", "subnets", "tables", "named", "groups"}

SortedFields == ContextFields \ {"lists"}

ListNames ==
  {"eks_subnet_ids", "eks_security_group_ids", "eks_public_access_cidrs", "eks_tags"}

IsFunction(f) == f = [x \in DOMAIN f |-> f[x]]

IsContext(v) ==
  /\ DOMAIN v = ContextFields /\ IsFunction(v)
  /\ \A k \in SortedFields : IsFunction(v[k])
  /\ DOMAIN v["lists"] = ListNames

LEMMA LoadIsContext ==
  ASSUME NEW c, NEW data \in LoadsOf(c)
  PROVE  IsContext(data)
<1>1. PICK o \in Orderings(c) : data = Load(c, o)
  BY DEF LoadsOf
<1> DEFINE s == o.subnets
           t == o.tables
<1>2. /\ DOMAIN data = ContextFields /\ IsFunction(data)
      /\ data["cluster"] = FindCluster(c) /\ data["fixed"] = Fixed(c, s, t)
      /\ data["subnets"] = NetworkSubnets(c, s, o.networks)
      /\ data["tables"] = NetworkTables(c, t, o.routed)
      /\ data["named"] = FindRouteTables(c, t)
      /\ data["groups"] = FindSecurityGroups(c, o.groups)
      /\ data["lists"] = o.lists
  BY <1>1 DEF Load, ContextFields, IsFunction
<1>3. IsFunction(FindCluster(c)) BY DEF IsFunction, FindCluster
<1>4. IsFunction(Fixed(c, s, t)) BY DEF IsFunction, Fixed
<1>5. IsFunction(NetworkSubnets(c, s, o.networks)) BY DEF IsFunction, NetworkSubnets
<1>6. IsFunction(NetworkTables(c, t, o.routed)) BY DEF IsFunction, NetworkTables
<1>7. IsFunction(FindRouteTables(c, t)) BY DEF IsFunction, FindRouteTables, LastNamed
<1>8. IsFunction(FindSecurityGroups(c, o.groups))
  BY DEF IsFunction, FindSecurityGroups, LastNamed
<1>9. DOMAIN o.lists = ListNames
  BY DEF Orderings, ClusterLists, ListNames
<1> HIDE DEF s, t
<1> QED
  BY <1>2, <1>3, <1>4, <1>5, <1>6, <1>7, <1>8, <1>9 DEF IsContext, ContextFields, SortedFields

(* What is sorted is the same in two loads of one account, and what is not *)
(* has the same members. *)
SameFinds(d, e) ==
  /\ \A k \in SortedFields : d[k] = e[k]
  /\ \A l \in ListNames : Range(d["lists"][l]) = Range(e["lists"][l])

LEMMA LoadsSame ==
  ASSUME NEW c \in Range(Clouds), NamesDistinct(c), NEW d \in LoadsOf(c), NEW e \in LoadsOf(c)
  PROVE  SameFinds(d, e)
<1>1. PICK o \in Orderings(c) : d = Load(c, o)
  BY DEF LoadsOf
<1>2. PICK p \in Orderings(c) : e = Load(c, p)
  BY DEF LoadsOf
<1>3. /\ IsFiniteSet(Subnets(c)) /\ IsFiniteSet(DOMAIN c.tables) /\ IsFiniteSet(DOMAIN c.groups)
      /\ DOMAIN c.names = DOMAIN c.tables /\ IsFiniteSet(Range(c.network))
      /\ IsFiniteSet(c.eks) /\ IsFiniteSet(c.tags)
      /\ IsFiniteSet(c.attached) /\ IsFiniteSet(c.cidrs)
  BY CloudsAssumption DEF CloudsAssumption, Subnets
<1>4. IsFiniteSet(Networks(c)) /\ IsFiniteSet(Routed(c)) /\ Routed(c) \subseteq Networks(c)
  <2>1. Networks(c) \subseteq Range(c.network) /\ Routed(c) \subseteq Networks(c)
    BY DEF Networks, Routed
  <2> QED BY <1>3, <2>1, FS_Subset
<1>5. ASSUME NEW q \in Orderings(c)
      PROVE  /\ q.subnets \in Listings(Subnets(c)) /\ q.tables \in Listings(DOMAIN c.tables)
             /\ q.groups \in Listings(DOMAIN c.groups)
             /\ q.networks \in Listings(Networks(c)) /\ q.routed \in Listings(Routed(c))
             /\ q.lists \in ClusterLists(c)
  BY <1>5 DEF Orderings
<1>6. /\ Range(o.subnets) = Range(p.subnets)
      /\ Range(o.tables) = Range(p.tables)
  BY <1>3, <1>5, ListingIsWhole
<1>7. FindRouteTables(c, o.tables) = FindRouteTables(c, p.tables)
  BY <1>3, <1>5, NamedSame DEF NamesDistinct, FindRouteTables
<1>8. FindSecurityGroups(c, o.groups) = FindSecurityGroups(c, p.groups)
  BY <1>3, <1>5, NamedSame DEF NamesDistinct, FindSecurityGroups
<1>9. ASSUME NEW kept
      PROVE  /\ SortedUnique(o.subnets, kept) = SortedUnique(p.subnets, kept)
             /\ SortedUnique(o.tables, kept) = SortedUnique(p.tables, kept)
  BY <1>6, SortedSame
<1>10. Fixed(c, o.subnets, o.tables) = Fixed(c, p.subnets, p.tables)
  BY <1>9 DEF Fixed
<1>11. NetworkSubnets(c, o.subnets, o.networks) = NetworkSubnets(c, p.subnets, p.networks)
  <2>1. DOMAIN Itself(Networks(c)) = Networks(c) /\ Distinct(Itself(Networks(c)))
    BY DEF Itself, NamesDistinct
  <2>2. LastNamed(Itself(Networks(c)), o.networks) = LastNamed(Itself(Networks(c)), p.networks)
    BY <1>4, <1>5, <2>1, NamedSame
  <2> QED BY <1>9, <2>2 DEF NetworkSubnets
<1>12. NetworkTables(c, o.tables, o.routed) = NetworkTables(c, p.tables, p.routed)
  <2>1. DOMAIN Itself(Routed(c)) = Routed(c)
    BY DEF Itself
  <2>2. Distinct(Itself(Routed(c)))
    <3>1. ASSUME NEW k, NEW t \in Keyed(Itself(Routed(c)), k), NEW u \in Keyed(Itself(Routed(c)), k)
          PROVE  t = u
      <4>1. /\ t \in Networks(c) /\ t # "" /\ SanitizeName[t] = k
            /\ u \in Networks(c) /\ u # "" /\ SanitizeName[u] = k
        BY <1>4 DEF Itself, Keyed
      <4>2. t \in Keyed(Itself(Networks(c)), k) /\ u \in Keyed(Itself(Networks(c)), k)
        BY <4>1 DEF Itself, Keyed
      <4>3. k \in KeysOf(Itself(Networks(c)))
        BY <4>1 DEF Itself, KeysOf, Range
      <4> QED BY <4>2, <4>3 DEF NamesDistinct, Distinct
    <3> QED BY <3>1 DEF Distinct
  <2>3. LastNamed(Itself(Routed(c)), o.routed) = LastNamed(Itself(Routed(c)), p.routed)
    BY <1>4, <1>5, <2>1, <2>2, NamedSame
  <2> QED BY <1>9, <2>3 DEF NetworkTables
<1>13. ASSUME NEW l \in ListNames
       PROVE  Range(o.lists[l]) = Range(p.lists[l])
  <2>1. PICK S \in {c.eks, c.attached, c.cidrs, c.tags} :
             o.lists[l] \in Listings(S) /\ p.lists[l] \in Listings(S)
    BY <1>5 DEF ClusterLists, ListNames
  <2> QED BY <1>3, <2>1, ListingIsWhole
<1> QED
  BY <1>1, <1>2, <1>7, <1>8, <1>10, <1>11, <1>12, <1>13
     DEF Load, SameFinds, SortedFields, ContextFields

(* What has been loaded is in the Context. *)
Covers(v, data) ==
  /\ \A k \in SortedFields : \A x \in DOMAIN data[k] : x \in DOMAIN v[k] /\ v[k][x] = data[k][x]
  /\ \A l \in ListNames : Range(v["lists"][l]) = Range(data["lists"][l])

ContextInv ==
  /\ cloud \in Range(Clouds)
  /\ ctx # <<>> =>
       /\ loaded \in Range(Clouds) /\ IsContext(ctx)
       /\ NamesDistinct(loaded) => \A data \in LoadsOf(loaded) : Covers(ctx, data)

LEMMA LoadKeeps ==
  ASSUME ContextInv, NEW i, JobLoads(i)
  PROVE  /\ ContextInv'
         /\ ctx # <<>> /\ loaded = cloud /\ NamesDistinct(cloud) => SameContext(ctx, ctx')
<1>1. /\ cloud' = cloud /\ loaded' = cloud /\ cloud \in Range(Clouds)
  BY DEF JobLoads, ContextInv
<1>2. PICK data \in LoadsOf(cloud) : ctx' = MakeContext(data)
  BY DEF JobLoads, Loads, LoadsOf
<1>3. IsContext(data) /\ DOMAIN data = ContextFields
  BY <1>2, LoadIsContext DEF IsContext
<1>4. "lists" \in ContextFields /\ SortedFields \subseteq ContextFields
  BY DEF ContextFields, SortedFields
<1>5. IsContext(ctx') /\ Covers(ctx', data)
  <2>1. CASE ctx = <<>>
    BY <1>2, <1>3, <2>1 DEF MakeContext, Covers, IsContext
  <2>2. CASE ctx # <<>>
    <3>1. ctx' = [k \in ContextFields |-> SetIn(ctx[k], data[k])]
      BY <1>2, <1>3, <2>2 DEF MakeContext
    <3>2. \A k \in SortedFields : IsFunction(ctx'[k])
      BY <1>4, <3>1 DEF SetIn, IsFunction
    <3>3. DOMAIN ctx["lists"] = ListNames /\ DOMAIN data["lists"] = ListNames
      BY <1>3, <2>2 DEF IsContext, ContextInv
    <3>4. ctx'["lists"] = [l \in ListNames |-> data["lists"][l]]
      BY <1>4, <3>1, <3>3 DEF SetIn
    <3>5. \A k \in SortedFields :
            \A x \in DOMAIN data[k] : x \in DOMAIN ctx'[k] /\ ctx'[k][x] = data[k][x]
      BY <1>4, <3>1 DEF SetIn
    <3>6. Covers(ctx', data)
      BY <3>4, <3>5 DEF Covers
    <3>7. DOMAIN ctx' = ContextFields /\ IsFunction(ctx')
      BY <3>1 DEF IsFunction
    <3> QED BY <3>2, <3>4, <3>6, <3>7 DEF IsContext
  <2> QED BY <2>1, <2>2
<1>6. ASSUME NamesDistinct(cloud), NEW d \in LoadsOf(cloud)
      PROVE  Covers(ctx', d)
  <2>1. SameFinds(data, d)
    BY <1>1, <1>2, <1>6, LoadsSame
  <2> QED BY <1>5, <2>1 DEF Covers, SameFinds
<1>7. ContextInv'
  BY <1>1, <1>5, <1>6 DEF ContextInv
<1>8. ASSUME ctx # <<>>, loaded = cloud, NamesDistinct(cloud)
      PROVE  SameContext(ctx, ctx')
  <2>1. IsContext(ctx) /\ Covers(ctx, data)
    BY <1>2, <1>8 DEF ContextInv
  <2>2. ctx' = [k \in ContextFields |-> SetIn(ctx[k], data[k])]
    BY <1>2, <1>3, <1>8 DEF MakeContext
  <2>3. ASSUME NEW k \in SortedFields
        PROVE  ctx'[k] = ctx[k]
    <3>1. /\ DOMAIN data[k] \subseteq DOMAIN ctx[k]
          /\ \A x \in DOMAIN data[k] : ctx[k][x] = data[k][x]
          /\ ctx[k] = [x \in DOMAIN ctx[k] |-> ctx[k][x]]
      BY <2>1, <2>3 DEF Covers, IsContext, IsFunction
    <3>2. SetIn(ctx[k], data[k]) = [x \in DOMAIN ctx[k] |-> ctx[k][x]]
      BY <3>1 DEF SetIn
    <3> QED BY <1>4, <2>2, <3>1, <3>2
  <2>4. DOMAIN ctx'["lists"] = ListNames /\ DOMAIN ctx["lists"] = ListNames
    BY <1>5, <2>1 DEF IsContext
  <2>5. \A l \in ListNames : Range(ctx'["lists"][l]) = Range(ctx["lists"][l])
    BY <1>5, <2>1 DEF Covers
  <2>6. DOMAIN ctx = ContextFields /\ DOMAIN ctx' = ContextFields
    BY <1>5, <2>1 DEF IsContext
  <2> QED BY <2>3, <2>4, <2>5, <2>6 DEF SameContext, SortedFields
<1> QED BY <1>7, <1>8

(* Only a job that loads writes the Context. *)
LEMMA ContextStepKeeps ==
  ASSUME ContextInv, [ProviderNext]_providers
  PROVE  /\ ContextInv'
         /\ ctx # <<>> /\ loaded = cloud /\ loaded' = cloud /\ NamesDistinct(cloud)
              => SameContext(ctx, ctx')
<1>1. CASE \E i \in DOMAIN jobs : JobLoads(i)
  BY <1>1, LoadKeeps
<1>2. CASE UNCHANGED <<loaded, ctx>> /\ cloud' \in Range(Clouds)
  BY <1>2 DEF ContextInv, SameContext
<1>3. CASE CloudChanges
  BY <1>2, <1>3 DEF CloudChanges
<1>4. CASE UNCHANGED account
  BY <1>2, <1>4 DEF account, ContextInv
<1>5. ReadForCheck \/ CheckProvider \/ ReadForPreload => UNCHANGED account
  BY DEF ReadForCheck, CheckProvider, ReadForPreload
<1>6. PreloadRun => UNCHANGED account
  BY DEF PreloadRun, PreloadDisabled, AwaitReady, AwaitJob, PreloadRecent, StartPreload,
         PreloadFails, EndPreload
<1>7. (\E i \in DOMAIN jobs : JobFails(i)) => UNCHANGED account
  BY DEF JobFails
<1>8. /\ EditProvider \/ IntervalPasses \/ SyncProvider \/ SyncJobs => UNCHANGED account
      /\ (\E s \in DOMAIN secrets : FixSecret(s)) => UNCHANGED account
  BY DEF EditProvider, IntervalPasses, SyncProvider, SyncJobs, FixSecret
<1>9. UNCHANGED providers => UNCHANGED account
  BY DEF providers
<1> QED
  BY <1>1, <1>3, <1>4, <1>5, <1>6, <1>7, <1>8, <1>9 DEF ProviderNext, ProviderRun, JobEnds

(***************************************************************************)
(* A preload of an account that has not changed leaves the Context as it   *)
(* is, for accounts with any number of subnets, tables, groups, networks   *)
(* and tags and every order they come in, up to the order of the four      *)
(* lists that are not sorted (Load, findCluster, makeContext).             *)
(***************************************************************************)
THEOREM ContextIsStable == PreloadSpec => ContextStable
<1>1. ProviderInit => ContextInv
  <2>1. Clouds \in Seq(Range(Clouds)) /\ Clouds # <<>>
    BY CloudsAssumption DEF CloudsAssumption
  <2>2. Clouds[1] \in Range(Clouds)
    BY <2>1
  <2> QED BY <2>2 DEF ProviderInit, ContextInv
<1>2. ContextInv /\ [ProviderNext]_providers
        => /\ ContextInv'
           /\ [ctx # <<>> /\ loaded = cloud /\ loaded' = cloud /\ NamesDistinct(cloud)
                 => SameContext(ctx, ctx')]_providers
  BY ContextStepKeeps
<1> QED BY <1>1, <1>2, PTL DEF PreloadSpec, ContextStable

-----------------------------------------------------------------------------
(***************************************************************************)
(* The drift worker.                                                       *)
(***************************************************************************)
DriftSpec == FleetInit /\ [][FleetNext]_drift

Watched ==
  [stage : Stages, asked : BOOLEAN, check : BOOLEAN, quiet : BOOLEAN,
   enabled : BOOLEAN, leaving : BOOLEAN]

(* A drift check that has been taken up is a plan that runs. *)
ChecksPlan(f) == \A c \in DOMAIN f : f[c].check => f[c].stage = "planning"

FleetInv ==
  /\ manner \in Manners
  /\ DOMAIN fleet \subseteq Fleet /\ fleet \in [DOMAIN fleet -> Watched]
  /\ ChecksPlan(fleet)
  /\ ~manner.lag => fleetSeen = fleet

(* The step asks for no check. *)
AsksNone ==
  \A c \in DOMAIN fleet \cap DOMAIN fleet' : fleet'[c].asked => fleet[c].asked

LEMMA FleetStarts == FleetInit => FleetInv
<1> SUFFICES ASSUME FleetInit PROVE FleetInv
  OBVIOUS
<1>1. PICK s \in [manner.fleet -> {"new", "done"}] :
        fleet = [c \in manner.fleet |-> [stage |-> s[c], asked |-> FALSE, check |-> FALSE,
                                         quiet |-> s[c] = "done", enabled |-> TRUE,
                                         leaving |-> FALSE]]
  BY DEF FleetInit
<1>2. manner \in Manners /\ manner.fleet \subseteq Fleet /\ fleetSeen = fleet
  BY ThresholdAssumption DEF FleetInit, ThresholdAssumption
<1>3. DOMAIN fleet = manner.fleet
  BY <1>1
<1>4. ASSUME NEW c \in manner.fleet
      PROVE  fleet[c] \in Watched /\ ~fleet[c].check
  <2>1. fleet[c] = [stage |-> s[c], asked |-> FALSE, check |-> FALSE,
                    quiet |-> s[c] = "done", enabled |-> TRUE, leaving |-> FALSE]
    BY <1>1
  <2>2. s[c] \in Stages /\ (s[c] = "done") \in BOOLEAN
    BY DEF Stages
  <2> QED BY <2>1, <2>2 DEF Watched
<1>5. fleet \in [manner.fleet -> Watched]
  BY <1>1, <1>4
<1> QED BY <1>2, <1>3, <1>4, <1>5 DEF FleetInv, ChecksPlan

(* One Configuration is written. *)
LEMMA WriteKeeps ==
  ASSUME FleetInv, NEW c \in DOMAIN fleet, NEW o \in Watched,
         o.check => o.stage = "planning", o.asked => fleet[c].asked,
         fleet' = [fleet EXCEPT ![c] = o], manner' = manner,
         ~manner.lag => fleetSeen' = fleet'
  PROVE  FleetInv' /\ AsksNone
<1>1. /\ DOMAIN fleet' = DOMAIN fleet /\ fleet' \in [DOMAIN fleet -> Watched]
      /\ fleet'[c] = o /\ \A d \in DOMAIN fleet \ {c} : fleet'[d] = fleet[d]
  BY DEF FleetInv
<1>2. ChecksPlan(fleet')
  BY <1>1 DEF FleetInv, ChecksPlan
<1> QED BY <1>1, <1>2 DEF FleetInv, AsksNone

LEMMA NothingWritten ==
  ASSUME FleetInv, fleet' = fleet, manner' = manner, ~manner.lag => fleetSeen' = fleet
  PROVE  FleetInv' /\ AsksNone
BY DEF FleetInv, AsksNone, ChecksPlan

LEMMA ProgressKeeps ==
  ASSUME FleetInv, NEW c \in DOMAIN fleet, Progresses(c)
  PROVE  FleetInv' /\ AsksNone
<1> DEFINE was == fleet[c]
<1>1. was \in Watched /\ (was.check => was.stage = "planning")
  BY DEF FleetInv, ChecksPlan
<1>2. ASSUME NEW s \in Stages, NEW k \in BOOLEAN, NEW a \in BOOLEAN, k => s = "planning",
             a => was.asked,
             WriteFleet(c, [was EXCEPT !.stage = s, !.check = k, !.asked = a, !.quiet = FALSE])
      PROVE  FleetInv' /\ AsksNone
  <2> DEFINE o == [was EXCEPT !.stage = s, !.check = k, !.asked = a, !.quiet = FALSE]
  <2>1. o \in Watched /\ o.check = k /\ o.stage = s /\ o.asked = a
    BY <1>1 DEF Watched
  <2>2. /\ fleet' = [fleet EXCEPT ![c] = o] /\ manner' = manner
        /\ ~manner.lag => fleetSeen' = fleet'
    BY <1>2 DEF WriteFleet
  <2> HIDE DEF o
  <2> QED BY <1>2, <2>1, <2>2, WriteKeeps
<1>3. {"done", "applying", "approval", "failed", "planning"} \subseteq Stages
  BY DEF Stages
<1>4. CASE PlanStarts(c)
  <2>1. WriteFleet(c, [was EXCEPT !.stage = "planning", !.check = was.check \/ was.asked,
                                  !.asked = FALSE, !.quiet = FALSE])
    BY <1>4 DEF PlanStarts
  <2>2. (was.check \/ was.asked) \in BOOLEAN
    OBVIOUS
  <2> QED BY <1>2, <1>3, <2>1, <2>2
<1>5. CASE PlanEnds(c)
  <2>1. PICK s \in {"done", "applying", "approval", "failed"} :
          WriteFleet(c, [was EXCEPT !.stage = s, !.check = FALSE, !.quiet = FALSE])
    BY <1>5 DEF PlanEnds
  <2>2. [was EXCEPT !.stage = s, !.check = FALSE, !.quiet = FALSE]
          = [was EXCEPT !.stage = s, !.check = FALSE, !.asked = was.asked, !.quiet = FALSE]
    BY <1>1 DEF Watched
  <2>3. was.asked \in BOOLEAN
    BY <1>1 DEF Watched
  <2> QED BY <1>2, <1>3, <2>1, <2>2, <2>3
<1>6. CASE ApplyProceeds(c)
  <2>1. PICK s \in {"applying", "done"} :
          WriteFleet(c, [was EXCEPT !.quiet = FALSE, !.stage = s])
    BY <1>6 DEF ApplyProceeds
  <2>2. ~was.check /\ was.asked \in BOOLEAN /\ was.check \in BOOLEAN
    BY <1>1, <1>6 DEF ApplyProceeds, Watched
  <2>3. [was EXCEPT !.quiet = FALSE, !.stage = s]
          = [was EXCEPT !.stage = s, !.check = FALSE, !.asked = was.asked, !.quiet = FALSE]
    BY <1>1, <2>2 DEF Watched
  <2> QED BY <1>2, <1>3, <2>1, <2>2, <2>3
<1> QED BY <1>4, <1>5, <1>6 DEF Progresses

LEMMA OutsidersKeep ==
  ASSUME FleetInv, NEW c \in DOMAIN fleet,
         DriftIntervalPasses(c) \/ EditSpec(c) \/ ToggleDrift(c) \/ MarkDeleted(c)
  PROVE  FleetInv' /\ AsksNone
<1> DEFINE was == fleet[c]
<1>1. was \in Watched /\ (was.check => was.stage = "planning")
  BY DEF FleetInv, ChecksPlan
<1>2. CASE DriftIntervalPasses(c)
  <2> DEFINE o == [was EXCEPT !.quiet = TRUE]
  <2>1. o \in Watched /\ o.check = was.check /\ o.stage = was.stage /\ o.asked = was.asked
    BY <1>1 DEF Watched
  <2>2. fleet' = [fleet EXCEPT ![c] = o] /\ manner' = manner
    BY <1>2 DEF DriftIntervalPasses
  <2>3. ~manner.lag => fleetSeen' = fleet'
    <3> SUFFICES ASSUME ~manner.lag PROVE fleetSeen' = fleet'
      OBVIOUS
    <3>1. fleetSeen = fleet
      BY DEF FleetInv
    <3>2. fleetSeen' = [fleet EXCEPT ![c].quiet = (fleet[c].stage = "done")]
      BY <1>2, <3>1 DEF DriftIntervalPasses
    <3>3. (fleet[c].stage = "done") = TRUE
      BY <1>2 DEF DriftIntervalPasses
    <3> QED BY <1>2, <3>2, <3>3 DEF DriftIntervalPasses
  <2> HIDE DEF o
  <2> QED BY <1>1, <2>1, <2>2, <2>3, WriteKeeps
<1>3. ASSUME NEW o \in Watched, o.check = was.check, o.asked = was.asked,
             was.check => o.stage = "planning", WriteFleet(c, o)
      PROVE  FleetInv' /\ AsksNone
  BY <1>3, WriteKeeps DEF WriteFleet
<1>4. CASE EditSpec(c)
  <2> DEFINE o == [was EXCEPT !.stage = "edited"]
  <2>1. o \in Watched /\ o.check = was.check /\ o.asked = was.asked
    BY <1>1 DEF Watched, Stages
  <2>2. ~was.check /\ WriteFleet(c, o)
    BY <1>1, <1>4 DEF EditSpec
  <2> HIDE DEF o
  <2> QED BY <1>3, <2>1, <2>2
<1>5. CASE ToggleDrift(c)
  <2> DEFINE o == [was EXCEPT !.enabled = ~was.enabled]
  <2>1. o \in Watched /\ o.check = was.check /\ o.asked = was.asked /\ o.stage = was.stage
    BY <1>1 DEF Watched
  <2>2. WriteFleet(c, o)
    BY <1>5 DEF ToggleDrift
  <2> HIDE DEF o
  <2> QED BY <1>1, <1>3, <2>1, <2>2
<1>6. CASE MarkDeleted(c)
  <2> DEFINE o == [was EXCEPT !.leaving = TRUE]
  <2>1. o \in Watched /\ o.check = was.check /\ o.asked = was.asked /\ o.stage = was.stage
    BY <1>1 DEF Watched
  <2>2. WriteFleet(c, o)
    BY <1>6 DEF MarkDeleted
  <2> HIDE DEF o
  <2> QED BY <1>1, <1>3, <2>1, <2>2
<1> QED BY <1>2, <1>4, <1>5, <1>6

LEMMA GoneKeeps ==
  ASSUME FleetInv, NEW c \in DOMAIN fleet, Gone(c)
  PROVE  FleetInv' /\ AsksNone
<1>1. fleet' = [d \in DOMAIN fleet \ {c} |-> fleet[d]] /\ manner' = manner
  BY DEF Gone, Restrict
<1>2. ~manner.lag => fleetSeen' = fleet'
  BY DEF Gone
<1>3. DOMAIN fleet' \subseteq DOMAIN fleet /\ \A d \in DOMAIN fleet' : fleet'[d] = fleet[d]
  BY <1>1
<1>4. fleet' \in [DOMAIN fleet' -> Watched] /\ DOMAIN fleet' \subseteq Fleet
  BY <1>1, <1>3 DEF FleetInv
<1> QED BY <1>1, <1>2, <1>3, <1>4 DEF FleetInv, AsksNone, ChecksPlan

(* The caches, the timers and a restart. *)
LEMMA RestKeeps ==
  ASSUME FleetInv,
         \/ RestartDrift
         \/ \E c \in Fleet : SkipDrift(c) \/ CheckIntervalPasses(c) \/ Resync(c) \/ SyncFleet(c)
  PROVE  FleetInv' /\ AsksNone
<1>1. fleet' = fleet /\ manner' = manner
  BY DEF RestartDrift, SkipDrift, CheckIntervalPasses, Resync, SyncFleet
<1>2. ASSUME ~manner.lag PROVE fleetSeen' = fleet
  <2>1. fleetSeen = fleet
    BY <1>2 DEF FleetInv
  <2> QED BY <2>1 DEF RestartDrift, SkipDrift, CheckIntervalPasses, Resync, SyncFleet
<1> QED BY <1>1, <1>2, NothingWritten

(***************************************************************************)
(* A check is asked for when fewer plans run than the share allows, and    *)
(* every check that runs is one of these plans.                            *)
(***************************************************************************)
LEMMA ShareLeft ==
  ASSUME FleetInv, NEW c \in DOMAIN fleet, manner.prompt, ~manner.lag, AskForDrift(c),
         fleet' = [fleet EXCEPT ![c].asked = TRUE]
  PROVE  Cardinality(Checking(fleet')) <= TotalAllowed(fleet)
<1> DEFINE plans == {d \in DOMAIN fleet : fleet[d].stage # "new" /\ PlanIs(fleet[d], "InProgress")}
<1>1. fleetSeen = fleet /\ \A d \in DOMAIN fleet : ~Pending(fleet[d])
  BY DEF FleetInv, AskForDrift, TakenUp
<1>2. Cardinality(plans) < TotalAllowed(fleet)
  BY <1>1 DEF AskForDrift, ReadyForDrift, TotalRunning, Present
<1>3. IsFiniteSet(DOMAIN fleet)
  BY FleetAssumption, FS_Subset DEF FleetInv, FleetAssumption
<1>4. IsFiniteSet(plans) /\ Cardinality(plans) \in Nat
  BY <1>3, FS_Subset, FS_CardinalityType
<1>5. Checking(fleet') \subseteq plans \cup {c}
  <2> SUFFICES ASSUME NEW d \in DOMAIN fleet', d # c,
                      Pending(fleet'[d]) \/ fleet'[d].check
               PROVE  d \in plans
    BY DEF Checking
  <2>1. d \in DOMAIN fleet /\ fleet'[d] = fleet[d]
    OBVIOUS
  <2>2. fleet[d].stage = "planning"
    BY <1>1, <2>1 DEF FleetInv, ChecksPlan
  <2> QED BY <2>1, <2>2 DEF PlanIs
<1>6. /\ IsFiniteSet(plans \cup {c})
      /\ Cardinality(plans \cup {c}) <= Cardinality(plans) + 1
  <2> HIDE DEF plans
  <2>1. IsFiniteSet(plans \cup {c})
    BY <1>4, FS_AddElement
  <2>2. Cardinality(plans \cup {c}) = Cardinality(plans) \/ Cardinality(plans \cup {c}) = Cardinality(plans) + 1
    BY <1>4, FS_AddElement, Zenon
  <2> QED BY <1>4, <2>1, <2>2
<1>7. /\ Cardinality(Checking(fleet')) <= Cardinality(plans \cup {c})
      /\ Cardinality(Checking(fleet')) \in Nat /\ Cardinality(plans \cup {c}) \in Nat
  BY <1>5, <1>6, FS_Subset, FS_CardinalityType
<1>8. TotalAllowed(fleet) \in Int
  <2>1. Cardinality(DOMAIN fleet) \in Nat
    BY <1>3, FS_CardinalityType
  <2>2. Threshold \in Nat
    BY ThresholdAssumption DEF ThresholdAssumption
  <2>3. Cardinality(DOMAIN fleet) * Threshold \in Nat
    BY <2>1, <2>2
  <2> QED BY <2>3 DEF TotalAllowed, Present
<1> HIDE DEF plans
<1> QED BY <1>2, <1>4, <1>6, <1>7, <1>8

LEMMA AskKeeps ==
  ASSUME FleetInv, NEW c \in Fleet, AskForDrift(c)
  PROVE  FleetInv' /\ (manner.prompt /\ ~manner.lag => AsksWithin)
<1>1. CASE /\ c \in DOMAIN fleet /\ fleet' = [fleet EXCEPT ![c].asked = TRUE]
           /\ fleetSeen' = IF manner.lag THEN fleetSeen ELSE fleet'
  <2>1. /\ DOMAIN fleet' = DOMAIN fleet /\ fleet' \in [DOMAIN fleet -> Watched]
        /\ \A d \in DOMAIN fleet : /\ fleet'[d].check = fleet[d].check
                                   /\ fleet'[d].stage = fleet[d].stage
    BY <1>1 DEF FleetInv, Watched
  <2>2. manner' = manner
    BY DEF AskForDrift
  <2>3. FleetInv'
    BY <1>1, <2>1, <2>2 DEF FleetInv, ChecksPlan
  <2> QED BY <1>1, <2>3, ShareLeft DEF AsksWithin
<1>2. CASE UNCHANGED <<fleet, fleetSeen, due>>
  BY <1>2, NothingWritten DEF AskForDrift, FleetInv, AsksNone, AsksWithin
<1> QED BY <1>1, <1>2 DEF AskForDrift

LEMMA FleetStepKeeps ==
  ASSUME FleetInv, [FleetNext]_drift
  PROVE  FleetInv' /\ (manner.prompt /\ ~manner.lag => AsksWithin)
<1>1. AsksNone => AsksWithin
  BY DEF AsksNone, AsksWithin
<1>2. CASE UNCHANGED drift
  BY <1>1, <1>2, NothingWritten DEF drift, FleetInv
<1>3. CASE \E c \in Fleet : AskForDrift(c)
  BY <1>3, AskKeeps
<1>4. CASE \/ RestartDrift
           \/ \E c \in Fleet : SkipDrift(c) \/ CheckIntervalPasses(c) \/ Resync(c) \/ SyncFleet(c)
  BY <1>1, <1>4, RestKeeps
<1>5. CASE \E c \in DOMAIN fleet :
             \/ Progresses(c) \/ DriftIntervalPasses(c) \/ EditSpec(c) \/ ToggleDrift(c)
             \/ MarkDeleted(c) \/ Gone(c)
  BY <1>1, <1>5, ProgressKeeps, OutsidersKeep, GoneKeeps
<1> QED BY <1>2, <1>3, <1>4, <1>5 DEF FleetNext, DriftRun

(***************************************************************************)
(* The drift worker keeps to its share (ensureConfigurationReadyForDrift), *)
(* for a fleet of any size and every threshold.                            *)
(***************************************************************************)
THEOREM DriftShareKept == DriftSpec => ShareKept
<1>1. FleetInit => FleetInv
  BY FleetStarts
<1>2. FleetInv /\ [FleetNext]_drift
        => FleetInv' /\ [manner.prompt /\ ~manner.lag => AsksWithin]_drift
  BY FleetStepKeeps
<1> QED BY <1>1, <1>2, PTL DEF DriftSpec, ShareKept
=============================================================================
