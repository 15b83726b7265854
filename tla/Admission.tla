------------------------------ MODULE Admission ------------------------------
(***************************************************************************)
(* The admission webhooks of Configurations, Policies, Providers, Contexts *)
(* and namespaces (pkg/handlers) and the choice of the constraint a plan   *)
(* is scanned with (pkg/utils/policies).                                   *)
(*                                                                         *)
(* EVERY write to a Configuration passes the webhooks: the user's, the     *)
(* annotations tnctl sets, the finalizer its controller adds and removes.  *)
(* They default and check the whole object against what the caches hold at *)
(* that moment.  So a policy that appears later changes, or refuses, a     *)
(* write that only concerns the metadata, the one that ends a deletion     *)
(* included.                                                               *)
(*                                                                         *)
(* Variables:                                                              *)
(*   cluster    the objects as stored, by kind                             *)
(*   cached     the objects as the webhooks see them, by kind              *)
(*   versions   the flag that allows terraformVersion (a restart flips it) *)
(*   under      the policies with defaults that the last write of a        *)
(*              Configuration saw (history)                                *)
(*   scene      what may happen in this behaviour, see Scene               *)
(***************************************************************************)
EXTENDS Naturals, Sequences, FiniteSets, SequencesExt, Functions

CONSTANTS
  Configs,       \* names of Configurations
  Labels,        \* labels of namespaces and Configurations
  NamespaceOf,   \* the namespace of each Configuration
  NamespaceLabels, \* the labels of each namespace
  Scenes         \* what happens together in one behaviour: see Scene

Kinds == {"policies", "providers", "contexts", "namespaces", "configs"}

Namespaces == DOMAIN NamespaceLabels

ASSUME ScenesAssumption ==
  /\ NamespaceOf \in [Configs -> Namespaces]
  /\ NamespaceLabels \in [Namespaces -> SUBSET Labels]
  /\ \A s \in Scenes : s.lag \subseteq Kinds

AtMostOne(S) == \A x, y \in S : x = y

(* Lists are sequences, what may be absent is at most one, and no policy is *)
(* named like an outcome of FindMatchingPolicy.                             *)
ASSUME PoliciesAssumption ==
  \A s \in Scenes : \A p \in s.policies :
    /\ DOMAIN p.spec.defaults = 1..Len(p.spec.defaults) /\ Len(p.spec.defaults) \in Nat
    /\ AtMostOne(p.spec.checkov)
    /\ \A k \in p.spec.checkov : AtMostOne(k.ns) /\ AtMostOne(k.res)
    /\ p.name \notin {"none", "error"}

VARIABLES cluster, cached, versions, under, scene

admission == <<cluster, cached, versions, under, scene>>

(***************************************************************************)
(* Types.  A label selector is the set of labels it requires; a field that *)
(* may be absent is a set of at most one element.  Regexes are the set of  *)
(* modules they match, and do not compile when they are bad.               *)
(*                                                                         *)
(*   defaults entry  [ns, modules, bad, secrets, vars]                     *)
(*   policy          [defaults : Seq, modules : [ns, res, allowed, bad],   *)
(*                    checkov : [ns, res, checks, skips, source, external],*)
(*                    skipCheck]                                           *)
(*   provider        [source, ref, account, default, select : [ns, res],   *)
(*                    preload]                                             *)
(*   request         [wellFormed, provider, module, labels, plan, version, *)
(*                    context, vars]                                       *)
(* A scene is [requests, policies, providers, contexts, leaving, lag,      *)
(* protected, restart]: what is submitted, the namespaces the user may     *)
(* delete, the kinds whose caches lag, whether namespaces are protected,   *)
(* and whether the controller is restarted without versions.               *)
(***************************************************************************)
Nothing == [k \in {} |-> k]

AdmissionInit ==
  /\ scene \in Scenes
  /\ cluster = [policies |-> Nothing, providers |-> Nothing, contexts |-> {},
                namespaces |-> [n \in Namespaces |-> "active"], configs |-> Nothing]
  /\ cached = cluster
  /\ versions = TRUE
  /\ under = [c \in Configs |-> Nothing]

Without(f, x) == Restrict(f, DOMAIN f \ {x})

(* The keys of both, with the value of the top one. *)
Overlay(top, f) ==
  [x \in DOMAIN top \cup DOMAIN f |-> IF x \in DOMAIN top THEN top[x] ELSE f[x]]

With(f, x, v) == Overlay([y \in {x} |-> v], f)

(* A write, and the cache that follows it at once or lags behind. *)
Store(kind, objects) ==
  /\ cluster' = [cluster EXCEPT ![kind] = objects]
  /\ cached' = IF kind \in scene.lag THEN cached ELSE [cached EXCEPT ![kind] = objects]

-----------------------------------------------------------------------------
(***************************************************************************)
(* Selectors.  The three places that match labels differ in what an empty  *)
(* selector selects.                                                       *)
(***************************************************************************)
(* IsLabelSelectorMatch: an empty selector selects nothing. *)
IsLabelSelectorMatch(labels, need) == need # {} /\ need \subseteq labels

IsSelectorMatch(sel, labels, nsLabels) ==
  /\ \A need \in sel.ns : IsLabelSelectorMatch(nsLabels, need)
  /\ \A need \in sel.res : IsLabelSelectorMatch(labels, need)

(* isMatch: an empty namespace selector selects every namespace. *)
IsMatch(d, module, nsLabels) ==
  /\ \A need \in d.ns : need \subseteq nsLabels
  /\ d.modules # {} => \E ms \in d.modules : module \in ms

-----------------------------------------------------------------------------
(***************************************************************************)
(* The mutating webhook of a Configuration.  An operator here maps an      *)
(* object to the set of objects it may become, {} when it is refused.      *)
(***************************************************************************)
DefaultProviders ==
  {p \in DOMAIN cached.providers : cached.providers[p].default}

MutateOnProviderDefault(o) ==
  CASE o.provider # {}                    -> {o}
    [] Cardinality(DefaultProviders) <= 1 -> {[o EXCEPT !.provider = DefaultProviders]}
    [] OTHER                              -> {}

MutateOnPlan(o) == [o EXCEPT !.labels = IF o.plan THEN @ \cup {"plan"} ELSE @]

HasVariables(d) == DOMAIN d.vars # {}

(* Faulty: what the user has set is kept. *)
MergeUnderUser(vars, set) == Overlay(vars, set)

(* The merge patch: the policy's value wins. *)
MergeDefaults(vars, set) == Overlay(set, vars)

(* Maps merged one after the other: of two with one key the last one wins. *)
LastWins(maps) ==
  [v \in UNION {DOMAIN maps[i] : i \in DOMAIN maps} |->
     LET has == {i \in DOMAIN maps : v \in DOMAIN maps[i]}
         last == CHOOSE i \in has : \A j \in has : j <= i
     IN  maps[last][v]]

(* The cache lists the policies in no particular order. *)
Orders(ps) == {s \in [1..Cardinality(DOMAIN ps) -> DOMAIN ps] : Range(s) = DOMAIN ps}

Selected(d, o) == HasVariables(d) /\ IsMatch(d, o.module, NamespaceLabels[o.ns])

(* A regex is compiled only where there are variables to set. *)
BadSelector(ps) ==
  \E p \in DOMAIN ps : \E i \in DOMAIN ps[p].defaults :
    HasVariables(ps[p].defaults[i]) /\ ps[p].defaults[i].bad

Injecting(ps, o) ==
  {p \in DOMAIN ps : \E i \in DOMAIN ps[p].defaults : Selected(ps[p].defaults[i], o)}

(* What the selected entries of one policy set, and those of all of them. *)
PolicyVars(p, o) ==
  LastWins([i \in DOMAIN p.defaults |->
              IF Selected(p.defaults[i], o) THEN p.defaults[i].vars ELSE Nothing])

DefaultVars(ps, o, order) == LastWins([k \in DOMAIN order |-> PolicyVars(ps[order[k]], o)])

MutateOnPolicyDefaults(o) ==
  LET ps == cached.policies
      names == Injecting(ps, o)
  IN  CASE DOMAIN ps = {}                         -> {o}
        [] o.ns \notin DOMAIN cached.namespaces   -> {}
        [] BadSelector(ps)                        -> {}
        [] OTHER -> {[o EXCEPT !.vars = MergeDefaults(@, DefaultVars(ps, o, order)),
                               !.names = IF names = {} THEN @ ELSE names] :
                       order \in Orders(ps)}

Default(o) ==
  UNION {MutateOnPolicyDefaults(MutateOnPlan(x)) : x \in MutateOnProviderDefault(o)}

-----------------------------------------------------------------------------
(***************************************************************************)
(* The validating webhook of a Configuration: before is {} on a creation.  *)
(***************************************************************************)
(* Faulty: an update is checked like a creation. *)
VersionMustBeEmpty(before, o) == versions \/ o.version = ""

VersionAllowed(before, o) ==
  \/ versions \/ o.version = ""
  \/ \E b \in before : b.version = o.version

ValidateProvider(o) ==
  \A p \in o.provider \cap DOMAIN cached.providers :
    \A sel \in cached.providers[p].select :
      IsSelectorMatch(sel, o.labels, NamespaceLabels[o.ns])

(* The module constraints that apply; one of them must allow the module. *)
ModuleConstraints(ps, o) ==
  {m \in UNION {ps[p].modules : p \in DOMAIN ps} :
     IsSelectorMatch(m, o.labels, NamespaceLabels[o.ns])}

ValidateModuleConstraints(ps, o) ==
  LET ms == ModuleConstraints(ps, o)
  IN  ms # {} => \E m \in ms : o.module \in m.allowed

Validate(before, o) ==
  /\ o.provider # {} /\ o.wellFormed
  /\ VersionAllowed(before, o)
  /\ o.ns \in DOMAIN cached.namespaces
  /\ ValidateProvider(o)
  /\ ValidateModuleConstraints(cached.policies, o)

(* The writes the two webhooks let through. *)
Admits(before, o) == {x \in Default(o) : Validate(before, x)}

-----------------------------------------------------------------------------
(***************************************************************************)
(* Configurations.                                                         *)
(***************************************************************************)
(* The policies that have variables to inject. *)
Defaulting(ps) == Restrict(ps, {p \in DOMAIN ps : ps[p].defaults # <<>>})

Stored(c) == c \in DOMAIN cluster.configs

WriteConfig(c, o) ==
  /\ Store("configs", With(cluster.configs, c, o))
  /\ under' = [under EXCEPT ![c] = Defaulting(cached.policies)]
  /\ UNCHANGED <<versions, scene>>

Submitted(c, r) ==
  [wellFormed |-> r.wellFormed, ns |-> NamespaceOf[c], provider |-> r.provider,
   module |-> r.module, labels |-> r.labels, plan |-> r.plan, version |-> r.version,
   context |-> r.context, vars |-> r.vars, names |-> {}, deleting |-> FALSE,
   finalizer |-> FALSE]

CreateConfig(c, r) ==
  /\ ~Stored(c)
  /\ NamespaceOf[c] \in DOMAIN cluster.namespaces
  /\ cluster.namespaces[NamespaceOf[c]] = "active"
  /\ \E o \in Admits({}, Submitted(c, r)) : WriteConfig(c, o)

(* kubectl apply keeps the fields the manifest does not have. *)
EditConfig(c, r) ==
  /\ Stored(c) /\ ~cluster.configs[c].deleting
  /\ LET b == cluster.configs[c]
         edited == [b EXCEPT !.wellFormed = r.wellFormed, !.module = r.module,
                             !.labels = @ \cup r.labels, !.plan = r.plan,
                             !.version = r.version, !.context = r.context,
                             !.provider = IF r.provider = {} THEN @ ELSE r.provider,
                             !.vars = Overlay(r.vars, @)]
     IN  \E o \in Admits({b}, edited) : WriteConfig(c, o)

(* The controller adds its finalizer; later, tnctl patches annotations. *)
TouchConfig(c) ==
  /\ Stored(c)
  /\ LET b == cluster.configs[c]
     IN  \E o \in Admits({b}, IF b.deleting THEN b ELSE [b EXCEPT !.finalizer = TRUE]) :
           WriteConfig(c, o)

RemoveConfig(c) ==
  /\ Store("configs", Without(cluster.configs, c))
  /\ under' = [under EXCEPT ![c] = Nothing]
  /\ UNCHANGED <<versions, scene>>

MarkConfig(c) ==
  IF cluster.configs[c].finalizer
  THEN /\ Store("configs", [cluster.configs EXCEPT ![c].deleting = TRUE])
       /\ UNCHANGED <<versions, under, scene>>
  ELSE RemoveConfig(c)

(* ValidateDelete admits every deletion. *)
DeleteConfig(c) == Stored(c) /\ ~cluster.configs[c].deleting /\ MarkConfig(c)

(* The last step of a deletion is an update without the finalizer. *)
ReleaseConfig(c) ==
  /\ Stored(c) /\ cluster.configs[c].deleting
  /\ LET b == cluster.configs[c]
     IN  Admits({b}, [b EXCEPT !.finalizer = FALSE]) # {}
  /\ RemoveConfig(c)

-----------------------------------------------------------------------------
(***************************************************************************)
(* Policies.  The regexes of module constraints are compiled; those of     *)
(* defaults are not.                                                       *)
(***************************************************************************)
ValidateDefaultVariables(p) ==
  \A i \in DOMAIN p.defaults : HasVariables(p.defaults[i]) \/ p.defaults[i].secrets

ValidateModuleConstraint(p) == \A m \in p.modules : ~m.bad

ValidateCheckovConstraints(p) ==
  \A k \in p.checkov :
    /\ k.checks \cap k.skips = {}
    /\ k.source # {} => /\ k.checks = {} /\ k.skips = {}
                        /\ k.source \subseteq {"complete"}
    /\ k.external \subseteq {"complete"}

SubmitPolicy(s) ==
  /\ s.name \in DOMAIN cluster.policies => cluster.policies[s.name] # s.spec
  /\ ValidateDefaultVariables(s.spec)
  /\ ValidateCheckovConstraints(s.spec)
  /\ ValidateModuleConstraint(s.spec)
  /\ Store("policies", With(cluster.policies, s.name, s.spec))
  /\ UNCHANGED <<versions, under, scene>>

(* Faulty: the annotation of a Configuration is not looked at. *)
PolicyFree(p) == TRUE

(* The Configurations that name the policy in their annotation. *)
PolicyUnused(p) ==
  \/ cluster.policies[p].skipCheck
  \/ \A c \in DOMAIN cached.configs : p \notin cached.configs[c].names

DeletePolicy(p) ==
  /\ PolicyUnused(p)
  /\ Store("policies", Without(cluster.policies, p))
  /\ UNCHANGED <<versions, under, scene>>

-----------------------------------------------------------------------------
(***************************************************************************)
(* Providers, contexts and namespaces.                                     *)
(***************************************************************************)
ValidProvider(s) ==
  /\ \/ s.spec.source = "secret" /\ s.spec.ref = "jobNamespace"
     \/ s.spec.source = "injected" /\ s.spec.account
  /\ s.spec.default => DefaultProviders \subseteq {s.name}
  /\ s.spec.preload \subseteq {"complete"}

SubmitProvider(s) ==
  /\ s.name \in DOMAIN cluster.providers => cluster.providers[s.name] # s.spec
  /\ ValidProvider(s)
  /\ Store("providers", With(cluster.providers, s.name, s.spec))
  /\ UNCHANGED <<versions, under, scene>>

DeleteProvider(p) ==
  /\ Store("providers", Without(cluster.providers, p))
  /\ UNCHANGED <<versions, under, scene>>

(* A variable of a context needs a description and a value. *)
SubmitContext(x) ==
  /\ x.name \notin cluster.contexts /\ x.described
  /\ Store("contexts", cluster.contexts \cup {x.name})
  /\ UNCHANGED <<versions, under, scene>>

ContextUnused(x) ==
  \/ x.orphan
  \/ \A c \in DOMAIN cached.configs : x.name \notin cached.configs[c].context

DeleteContext(x) ==
  /\ x.name \in cluster.contexts /\ ContextUnused(x)
  /\ Store("contexts", cluster.contexts \ {x.name})
  /\ UNCHANGED <<versions, under, scene>>

DeleteNamespace(n) ==
  /\ n \in scene.leaving /\ cluster.namespaces[n] = "active"
  /\ scene.protected => \A c \in DOMAIN cached.configs : NamespaceOf[c] # n
  /\ Store("namespaces", [cluster.namespaces EXCEPT ![n] = "terminating"])
  /\ UNCHANGED <<versions, under, scene>>

(* The namespace controller deletes what is in it, and then the namespace. *)
EmptyNamespace(n) ==
  /\ cluster.namespaces[n] = "terminating"
  /\ \/ \E c \in DOMAIN cluster.configs :
          NamespaceOf[c] = n /\ ~cluster.configs[c].deleting /\ MarkConfig(c)
     \/ /\ \A c \in DOMAIN cluster.configs : NamespaceOf[c] # n
        /\ Store("namespaces", Without(cluster.namespaces, n))
        /\ UNCHANGED <<versions, under, scene>>

(* The administrator restarts the controller without the flag. *)
DisableVersions ==
  /\ scene.restart /\ versions
  /\ versions' = FALSE
  /\ UNCHANGED <<cluster, cached, under, scene>>

SyncKind(k) ==
  /\ cached[k] # cluster[k]
  /\ cached' = [cached EXCEPT ![k] = cluster[k]]
  /\ UNCHANGED <<cluster, versions, under, scene>>

AdmissionNext ==
  \/ \E c \in Configs, r \in scene.requests : CreateConfig(c, r) \/ EditConfig(c, r)
  \/ \E c \in Configs : TouchConfig(c) \/ DeleteConfig(c) \/ ReleaseConfig(c)
  \/ \E s \in scene.policies : SubmitPolicy(s)
  \/ \E p \in DOMAIN cluster.policies : DeletePolicy(p)
  \/ \E s \in scene.providers : SubmitProvider(s)
  \/ \E p \in DOMAIN cluster.providers : DeleteProvider(p)
  \/ \E x \in scene.contexts : SubmitContext(x) \/ DeleteContext(x)
  \/ \E n \in DOMAIN cluster.namespaces : DeleteNamespace(n) \/ EmptyNamespace(n)
  \/ DisableVersions
  \/ \E k \in Kinds : SyncKind(k)

-----------------------------------------------------------------------------
(***************************************************************************)
(* FindMatchingPolicy: the scan constraint of a Configuration.  The weight *)
(* of a constraint is 10 for a namespace selector and 20 for a resource    *)
(* selector, and an empty selector selects everything here.                *)
(***************************************************************************)
CheckovMatches(k, o) ==
  /\ \A need \in k.ns : need \subseteq NamespaceLabels[o.ns]
  /\ \A need \in k.res : need \subseteq o.labels

(* Faulty: the two selectors weigh the same. *)
WeightByCount(k) == 10 * Cardinality(k.ns) + 10 * Cardinality(k.res)

Weight(k) == 10 * Cardinality(k.ns) + 20 * Cardinality(k.res)

Scanning(ps, o) ==
  {p \in DOMAIN ps : \E k \in ps[p].checkov : CheckovMatches(k, o)}

WeightOf(ps, p) == LET k == CHOOSE k \in ps[p].checkov : TRUE IN Weight(k)

Highest(ps, o) ==
  {p \in Scanning(ps, o) : \A q \in Scanning(ps, o) : WeightOf(ps, q) <= WeightOf(ps, p)}

FindMatchingPolicy(ps, o) ==
  CASE Scanning(ps, o) = {}             -> "none"
    [] Cardinality(Highest(ps, o)) > 1  -> "error"
    [] OTHER                            -> CHOOSE p \in Highest(ps, o) : TRUE

-----------------------------------------------------------------------------
(***************************************************************************)
(* What two policies that apply to a Configuration set it to is the same.  *)
(***************************************************************************)
Agree(ps, o) ==
  \A p, q \in DOMAIN ps :
    \A i \in DOMAIN ps[p].defaults, j \in DOMAIN ps[q].defaults :
      LET d == ps[p].defaults[i]
          e == ps[q].defaults[j]
      IN  Selected(d, o) /\ Selected(e, o) =>
            \A v \in DOMAIN d.vars \cap DOMAIN e.vars : d.vars[v] = e.vars[v]

(***************************************************************************)
(* A Configuration carries the variables of every policy that applied to   *)
(* it when it was last written, and names these policies, whatever its     *)
(* user set before or after and although no write mentions them            *)
(* (mutateOnPolicyDefaults).                                               *)
(***************************************************************************)
DefaultsEnforced ==
  \A c \in DOMAIN cluster.configs :
    LET o == cluster.configs[c]
        ps == under[c]
    IN  /\ Injecting(ps, o) \subseteq o.names
        /\ Agree(ps, o) =>
             \A p \in DOMAIN ps : \A i \in DOMAIN ps[p].defaults :
               LET d == ps[p].defaults[i]
               IN  Selected(d, o) => \A v \in DOMAIN d.vars :
                                        v \in DOMAIN o.vars /\ o.vars[v] = d.vars[v]

(***************************************************************************)
(* As long as the caches are up to date, a policy that a Configuration was *)
(* last given variables by stays as long as the Configuration does, unless *)
(* it is marked to be deletable (the ValidateDelete of policies).          *)
(***************************************************************************)
DefaultsHeld ==
  scene.lag = {} =>
    \A c \in DOMAIN cluster.configs : \A p \in cluster.configs[c].names :
      \/ p \in DOMAIN cluster.policies
      \/ \E s \in scene.policies : s.name = p /\ s.spec.skipCheck

(***************************************************************************)
(* The constraint a plan is scanned with is the most specific one that     *)
(* matches: a resource selector says more than a namespace selector, the   *)
(* two together more than one; two that are equally specific are an error  *)
(* (FindMatchingPolicy, Weights).                                          *)
(***************************************************************************)
MoreSpecific(k, l) ==
  \/ l.res = {} /\ k.res # {}
  \/ (l.res = {} <=> k.res = {}) /\ l.ns = {} /\ k.ns # {}

PolicyDecided ==
  \A c \in DOMAIN cluster.configs :
    LET ps == cluster.policies
        o == cluster.configs[c]
        best == {p \in Scanning(ps, o) : ~\E q \in Scanning(ps, o) :
                   \E k \in ps[p].checkov, l \in ps[q].checkov : MoreSpecific(l, k)}
        found == FindMatchingPolicy(ps, o)
    IN  /\ best = {} <=> found = "none"
        /\ Cardinality(best) > 1 <=> found = "error"
        /\ Cardinality(best) = 1 => found \in best

(***************************************************************************)
(* A deletion that its provider and the policies do not refuse ends with   *)
(* the Configuration gone, whatever else has changed since it was admitted:*)
(* the version flag, the policies, the namespace, the contexts             *)
(* (ValidateDelete admits it, ValidateUpdate must let the finalizer go).   *)
(* A policy refuses it by its module constraints, or by defaults whose     *)
(* regex does not compile: the webhook of policies admits those and the    *)
(* mutating webhook then refuses every write of every Configuration.       *)
(***************************************************************************)
NowRefused(c) ==
  LET o == cluster.configs[c]
  IN  \/ ~ValidateProvider(o)
      \/ ~ValidateModuleConstraints(cluster.policies, o)
      \/ BadSelector(cluster.policies)

Deletable ==
  \A c \in Configs :
    (Stored(c) /\ cluster.configs[c].deleting)
      ~> (~Stored(c) \/ NowRefused(c) \/ ~cluster.configs[c].deleting)
=============================================================================
