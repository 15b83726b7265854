-------------------------------- MODULE Server --------------------------------
(***************************************************************************)
(* The start of the controller (pkg/server): its custom resources, its     *)
(* controllers with the paths of their webhooks, and the registration of   *)
(* the webhooks with the API server.  The process starts many times, after *)
(* upgrades with other flags and after crashes, and what an earlier start  *)
(* registered is still there.  A registered webhook nobody answers refuses *)
(* every write (failurePolicy Fail).                                       *)
(*                                                                         *)
(* Variables:                                                              *)
(*   stage      where the process is: see Launch                           *)
(*   rollout    the flags of the launches, at: which one it is at          *)
(*   todo       what is left of the stage                                  *)
(*   crds       every custom resource: absent, stored or established       *)
(*   hooks      the registered webhooks, by name: [paths, ca]              *)
(*   serves     the paths the process answers                              *)
(*   outages    failed calls and crashes so far                            *)
(***************************************************************************)
EXTENDS Naturals, Sequences, FiniteSets, SequencesExt, Functions

CONSTANTS
  Rollouts,     \* input: the flags of one launch after the other
  CrdNames,     \* the custom resources
  MaxOutages    \* bound: failed calls and crashes

(***************************************************************************)
(* Flags: whether New accepts the drift threshold, and the flags the start *)
(* depends on; ca is the content of the CA file, "" if there is none.      *)
(***************************************************************************)
Flags == [valid : BOOLEAN, registerCRDs : BOOLEAN, webhooks : BOOLEAN,
          registration : BOOLEAN, prefix : BOOLEAN, protection : BOOLEAN,
          ca : STRING]

ASSUME RolloutsAssumption ==
  /\ MaxOutages \in Nat /\ IsFiniteSet(CrdNames)
  /\ Rollouts \subseteq Seq(Flags) \ {<<>>}

VARIABLES stage, rollout, at, todo, crds, hooks, serves, outages

server == <<stage, rollout, at, todo, crds, hooks, serves, outages>>

flags == rollout[at]

ServerInit ==
  /\ rollout \in Rollouts /\ at = 1
  /\ stage = "down" /\ todo = <<>> /\ serves = {} /\ outages = 0
  /\ crds = [n \in CrdNames |-> "absent"]
  /\ hooks = [n \in {} |-> n]

(* The kinds of a webhook, and the webhooks: the two documents of the      *)
(* manifests and the one for namespaces.                                   *)
Mutated == {"cloudresources", "configurations", "revisions"}

Validated == Mutated \cup {"contexts", "policies", "providers"}

Documents ==
  <<[doc |-> "mutating", paths |-> {<<"mutate", k>> : k \in Mutated}],
    [doc |-> "validating", paths |-> {<<"validate", k>> : k \in Validated}],
    [doc |-> "namespace", paths |-> {<<"validate", "namespaces">>}]>>

NameOf(doc) == <<flags.prefix, doc>>

-----------------------------------------------------------------------------
(***************************************************************************)
(* New.  The process goes down on every error, and is started again.       *)
(***************************************************************************)
Exit == stage' = "down" /\ todo' = <<>> /\ serves' = {}

(* AssetNames lists the custom resources in the order of a Go map. *)
Launch ==
  /\ stage = "down" /\ flags.valid
  /\ stage' = "crds"
  /\ \E order \in SetToSeqs(IF flags.registerCRDs THEN CrdNames ELSE {}) : todo' = order
  /\ UNCHANGED <<rollout, at, crds, hooks, serves, outages>>

(* Faulty: the custom resource is created without looking for it. *)
CreateCRD ==
  /\ stage = "crds" /\ todo # <<>>
  /\ IF crds[Head(todo)] # "absent" THEN Exit /\ UNCHANGED crds
     ELSE /\ stage' = "checking" /\ crds' = [crds EXCEPT ![Head(todo)] = "stored"]
          /\ UNCHANGED <<todo, serves>>
  /\ UNCHANGED <<rollout, at, hooks, outages>>

(* ApplyCustomResourceDefinition: an update leaves it established. *)
ApplyCRD ==
  /\ stage = "crds" /\ todo # <<>>
  /\ stage' = "checking"
  /\ crds' = [crds EXCEPT ![Head(todo)] = IF @ = "absent" THEN "stored" ELSE @]
  /\ UNCHANGED <<rollout, at, todo, hooks, serves, outages>>

(* CheckCustomResourceDefinition polls for ten seconds. *)
CheckCRD ==
  /\ stage = "checking" /\ crds[Head(todo)] = "established"
  /\ stage' = "crds" /\ todo' = Tail(todo)
  /\ UNCHANGED <<rollout, at, crds, hooks, serves, outages>>

(* The controllers are added, and with them the paths they answer;         *)
(* manageWebhooks then reads the CA file.                                  *)
AddControllers ==
  /\ stage = "crds" /\ todo = <<>>
  /\ IF ~flags.webhooks THEN stage' = "serving" /\ UNCHANGED <<todo, serves>>
     ELSE IF flags.ca = "" THEN Exit
     ELSE /\ stage' = "hooks" /\ todo' = Documents
          /\ serves' = UNION {h.paths : h \in Range(Documents)}
  /\ UNCHANGED <<rollout, at, crds, hooks, outages>>

-----------------------------------------------------------------------------
(***************************************************************************)
(* manageWebhooks, one document after the other.                           *)
(***************************************************************************)
Keeps(doc) == flags.registration /\ (doc = "namespace" => flags.protection)

(* Faulty: a webhook that is there is left as it is. *)
RegisterOnce(h) ==
  [n \in DOMAIN hooks \cup {NameOf(h.doc)} |->
     IF n \in DOMAIN hooks THEN hooks[n] ELSE [paths |-> h.paths, ca |-> flags.ca]]

(* CreateOrForceUpdate *)
Register(h) ==
  [n \in DOMAIN hooks \cup {NameOf(h.doc)} |->
     IF n = NameOf(h.doc) THEN [paths |-> h.paths, ca |-> flags.ca] ELSE hooks[n]]

(* DeleteIfExists *)
Unregister(h) == Restrict(hooks, DOMAIN hooks \ {NameOf(h.doc)})

ManageWebhook ==
  /\ stage = "hooks" /\ todo # <<>>
  /\ hooks' = IF Keeps(Head(todo).doc) THEN Register(Head(todo)) ELSE Unregister(Head(todo))
  /\ todo' = Tail(todo)
  /\ UNCHANGED <<stage, rollout, at, crds, serves, outages>>

Start ==
  /\ stage = "hooks" /\ todo = <<>>
  /\ stage' = "serving"
  /\ UNCHANGED <<rollout, at, todo, crds, hooks, serves, outages>>

Starts ==
  Launch \/ ApplyCRD \/ CheckCRD \/ AddControllers \/ ManageWebhook \/ Start

-----------------------------------------------------------------------------
(* A call fails, a custom resource takes too long, the process crashes. *)
Outage ==
  /\ stage # "down" /\ outages < MaxOutages
  /\ outages' = outages + 1 /\ Exit
  /\ UNCHANGED <<rollout, at, crds, hooks>>

(* The API server establishes a custom resource. *)
Establish(n) ==
  /\ crds[n] = "stored"
  /\ crds' = [crds EXCEPT ![n] = "established"]
  /\ UNCHANGED <<stage, rollout, at, todo, hooks, serves, outages>>

(* The process is replaced by one with the next flags. *)
Upgrade ==
  /\ at < Len(rollout) /\ at' = at + 1
  /\ Exit
  /\ UNCHANGED <<rollout, crds, hooks, outages>>

ServerNext ==
  \/ Starts \/ Outage \/ Upgrade
  \/ \E n \in CrdNames : Establish(n)

-----------------------------------------------------------------------------
(* No launch so far has switched webhooks off or changed their names. *)
Steady ==
  \A i \in 1..at : rollout[i].webhooks /\ rollout[i].prefix = rollout[1].prefix

(***************************************************************************)
(* A process that serves has everything it needs, whatever launches, with  *)
(* whatever flags and however far, came before it: the custom resources    *)
(* are established, and the registered webhooks are the ones its flags ask *)
(* for, with its CA, and answered by it, as long as webhooks are not       *)
(* switched off or renamed (New, manageWebhooks).                          *)
(***************************************************************************)
ServingComplete ==
  stage = "serving" =>
    /\ flags.registerCRDs => \A n \in CrdNames : crds[n] = "established"
    /\ Steady =>
         /\ DOMAIN hooks = {NameOf(doc) : doc \in {d \in {"mutating", "validating", "namespace"} :
                                                    Keeps(d)}}
         /\ \A n \in DOMAIN hooks : hooks[n].ca = flags.ca /\ hooks[n].paths \subseteq serves

(***************************************************************************)
(* With flags it accepts, the process ends up serving, however often it    *)
(* went down half way before (Start; every step of it can be repeated).    *)
(***************************************************************************)
Startable == flags.valid /\ (flags.webhooks => flags.ca # "")

ServerSettles == <>[](Startable => stage = "serving")
=============================================================================
