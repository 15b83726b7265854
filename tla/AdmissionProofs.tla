--------------------------- MODULE AdmissionProofs ---------------------------
(***************************************************************************)
(* Theorems about the admission webhooks and the choice of the scan        *)
(* constraint, for any policies, providers, requests and lag of caches,    *)
(* and about what tnctl verify and tnctl convert tell, for any module,     *)
(* revision, cluster and sequence of commands.                             *)
(***************************************************************************)
EXTENDS Authoring, FiniteSetTheorems, NaturalsInduction, WellFoundedInduction, TLAPS

AdmissionSpec == AdmissionInit /\ [][AdmissionNext]_admission

-----------------------------------------------------------------------------
(* Maps. *)
LEMMA WithoutFacts ==
  ASSUME NEW f, NEW x
  PROVE  /\ DOMAIN Without(f, x) = DOMAIN f \ {x}
         /\ \A y \in DOMAIN f \ {x} : Without(f, x)[y] = f[y]
BY DEF Without, Restrict

(* A non-empty set of positions has a last one. *)
LEMMA LastPosition ==
  ASSUME NEW n \in Nat, NEW S \in SUBSET (1..n), S # {}
  PROVE  \E i \in S : \A j \in S : j <= i
<1> DEFINE T == {n - i : i \in S}
<1>1. T \in SUBSET Nat /\ T # {}
  <2>1. \A i \in S : i \in 1..n
    OBVIOUS
  <2>2. \A i \in S : n - i \in Nat
    BY <2>1
  <2>3. PICK i \in S : TRUE
    OBVIOUS
  <2>4. n - i \in T
    BY <2>3
  <2> QED BY <2>2, <2>4
<1>2. PICK t \in T : \A u \in Nat : <<u, t>> \in OpToRel(<, Nat) => u \notin T
  BY <1>1, NatLessThanWellFounded, WFMin, Zenon
<1>3. PICK i \in S : t = n - i
  BY <1>2
<1>4. ASSUME NEW j \in S PROVE j <= i
  <2>1. n - j \in T /\ n - j \in Nat
    OBVIOUS
  <2>2. ~(n - j < t)
    BY <1>1, <1>2, <2>1 DEF OpToRel
  <2> QED BY <1>3, <2>2
<1> QED BY <1>4

(* The merged maps have the keys of all of them, each with a value one of  *)
(* them gives it.                                                          *)
LEMMA LastWinsFacts ==
  ASSUME NEW maps, NEW n \in Nat, DOMAIN maps = 1..n
  PROVE  /\ \A i \in DOMAIN maps : DOMAIN maps[i] \subseteq DOMAIN LastWins(maps)
         /\ \A v \in DOMAIN LastWins(maps) : \E i \in DOMAIN maps :
              v \in DOMAIN maps[i] /\ LastWins(maps)[v] = maps[i][v]
<1>1. DOMAIN LastWins(maps) = UNION {DOMAIN maps[i] : i \in DOMAIN maps}
  BY DEF LastWins
<1>2. ASSUME NEW v \in DOMAIN LastWins(maps)
      PROVE  \E i \in DOMAIN maps : v \in DOMAIN maps[i] /\ LastWins(maps)[v] = maps[i][v]
  <2> DEFINE has == {i \in DOMAIN maps : v \in DOMAIN maps[i]}
             last == CHOOSE i \in has : \A j \in has : j <= i
  <2>1. has \in SUBSET (1..n) /\ has # {}
    BY <1>1
  <2>2. \E i \in has : \A j \in has : j <= i
    <3> HIDE DEF has
    <3> QED BY <2>1, LastPosition
  <2>3. last \in has
    BY <2>2
  <2>4. LastWins(maps)[v] = maps[last][v]
    BY <1>1 DEF LastWins
  <2> QED BY <2>3, <2>4
<1> QED BY <1>1, <1>2

-----------------------------------------------------------------------------
(* What the webhooks rely on: the policies are ones that were submitted.   *)
ConfigFields ==
  {"wellFormed", "ns", "provider", "module", "labels", "plan", "version", "context",
   "vars", "names", "deleting", "finalizer"}

Known(ps) ==
  /\ IsFiniteSet(DOMAIN ps)
  /\ \A p \in DOMAIN ps : \E s \in scene.policies : s.name = p /\ s.spec = ps[p]

(* One Configuration has what the policies ps inject. *)
Enforced(ps, o) ==
  /\ Injecting(ps, o) \subseteq o.names
  /\ Agree(ps, o) =>
       \A p \in DOMAIN ps : \A i \in DOMAIN ps[p].defaults :
         Selected(ps[p].defaults[i], o) =>
           \A v \in DOMAIN ps[p].defaults[i].vars :
             v \in DOMAIN o.vars /\ o.vars[v] = ps[p].defaults[i].vars[v]

LEMMA EnforcedEach ==
  DefaultsEnforced <=> \A c \in DOMAIN cluster.configs : Enforced(under[c], cluster.configs[c])
BY DEF DefaultsEnforced, Enforced

LEMMA SelectedSame ==
  ASSUME NEW o, NEW x, o.module = x.module, o.ns = x.ns, NEW d
  PROVE  Selected(d, o) <=> Selected(d, x)
BY DEF Selected

LEMMA EnforcedSame ==
  ASSUME NEW o, NEW x, NEW ps, Enforced(ps, o),
         o.module = x.module, o.ns = x.ns, o.vars = x.vars, o.names = x.names
  PROVE  Enforced(ps, x)
<1>1. \A d : Selected(d, o) <=> Selected(d, x)
  BY SelectedSame
<1>2. Injecting(ps, x) = Injecting(ps, o)
  BY <1>1 DEF Injecting
<1>3. Agree(ps, x) => Agree(ps, o)
  BY <1>1 DEF Agree
<1> QED BY <1>1, <1>2, <1>3 DEF Enforced

(* A variable that the selected entry of a policy sets is set by the       *)
(* merge, to a value that some selected entry has.                         *)
LEMMA PolicyVarsFacts ==
  ASSUME scene \in Scenes, NEW ps, Known(ps), NEW p \in DOMAIN ps, NEW o
  PROVE  /\ \A i \in DOMAIN ps[p].defaults :
              Selected(ps[p].defaults[i], o) =>
                DOMAIN ps[p].defaults[i].vars \subseteq DOMAIN PolicyVars(ps[p], o)
         /\ \A v \in DOMAIN PolicyVars(ps[p], o) : \E i \in DOMAIN ps[p].defaults :
              /\ Selected(ps[p].defaults[i], o) /\ v \in DOMAIN ps[p].defaults[i].vars
              /\ PolicyVars(ps[p], o)[v] = ps[p].defaults[i].vars[v]
<1> DEFINE es == ps[p].defaults
           maps == [i \in DOMAIN es |-> IF Selected(es[i], o) THEN es[i].vars ELSE Nothing]
<1>1. DOMAIN es = 1..Len(es) /\ Len(es) \in Nat
  BY PoliciesAssumption DEF Known
<1>2. PolicyVars(ps[p], o) = LastWins(maps)
  BY DEF PolicyVars
<1>3. DOMAIN maps = DOMAIN es
  OBVIOUS
<1>4. /\ \A i \in DOMAIN maps : DOMAIN maps[i] \subseteq DOMAIN LastWins(maps)
      /\ \A v \in DOMAIN LastWins(maps) : \E i \in DOMAIN maps :
           v \in DOMAIN maps[i] /\ LastWins(maps)[v] = maps[i][v]
  <2> HIDE DEF maps, es
  <2> QED BY <1>1, <1>3, LastWinsFacts
<1>5. DOMAIN Nothing = {}
  BY DEF Nothing
<1>6. \A i \in DOMAIN es :
        /\ Selected(es[i], o) => maps[i] = es[i].vars
        /\ ~Selected(es[i], o) => DOMAIN maps[i] = {}
  BY <1>5
<1> HIDE DEF maps, es
<1> QED BY <1>2, <1>3, <1>4, <1>6 DEF es

LEMMA DefaultVarsFacts ==
  ASSUME scene \in Scenes, NEW ps, Known(ps), NEW o, NEW order \in Orders(ps)
  PROVE  /\ \A p \in DOMAIN ps : \A i \in DOMAIN ps[p].defaults :
              Selected(ps[p].defaults[i], o) =>
                DOMAIN ps[p].defaults[i].vars \subseteq DOMAIN DefaultVars(ps, o, order)
         /\ \A v \in DOMAIN DefaultVars(ps, o, order) :
              \E p \in DOMAIN ps : \E i \in DOMAIN ps[p].defaults :
                /\ Selected(ps[p].defaults[i], o) /\ v \in DOMAIN ps[p].defaults[i].vars
                /\ DefaultVars(ps, o, order)[v] = ps[p].defaults[i].vars[v]
<1> DEFINE n == Cardinality(DOMAIN ps)
           maps == [k \in DOMAIN order |-> PolicyVars(ps[order[k]], o)]
<1>1. n \in Nat
  BY FS_CardinalityType DEF Known
<1>2. order \in [1..n -> DOMAIN ps] /\ \A p \in DOMAIN ps : \E k \in 1..n : order[k] = p
  BY DEF Orders, Range
<1>3. DefaultVars(ps, o, order) = LastWins(maps)
  BY DEF DefaultVars
<1>4. DOMAIN maps = 1..n /\ \A k \in 1..n : maps[k] = PolicyVars(ps[order[k]], o)
  BY <1>2
<1> HIDE DEF maps, n
<1>5. /\ \A k \in DOMAIN maps : DOMAIN maps[k] \subseteq DOMAIN LastWins(maps)
      /\ \A v \in DOMAIN LastWins(maps) : \E k \in DOMAIN maps :
           v \in DOMAIN maps[k] /\ LastWins(maps)[v] = maps[k][v]
  BY <1>1, <1>4, LastWinsFacts
<1>6. ASSUME NEW p \in DOMAIN ps, NEW i \in DOMAIN ps[p].defaults,
             Selected(ps[p].defaults[i], o)
      PROVE  DOMAIN ps[p].defaults[i].vars \subseteq DOMAIN DefaultVars(ps, o, order)
  <2>1. PICK k \in 1..n : order[k] = p
    BY <1>2
  <2>2. maps[k] = PolicyVars(ps[p], o)
    BY <1>4, <2>1
  <2>3. DOMAIN ps[p].defaults[i].vars \subseteq DOMAIN maps[k]
    BY <1>6, <2>2, PolicyVarsFacts
  <2> QED BY <1>3, <1>4, <1>5, <2>3
<1>7. ASSUME NEW v \in DOMAIN DefaultVars(ps, o, order)
      PROVE  \E p \in DOMAIN ps : \E i \in DOMAIN ps[p].defaults :
                /\ Selected(ps[p].defaults[i], o) /\ v \in DOMAIN ps[p].defaults[i].vars
                /\ DefaultVars(ps, o, order)[v] = ps[p].defaults[i].vars[v]
  <2>1. PICK k \in 1..n : v \in DOMAIN maps[k] /\ LastWins(maps)[v] = maps[k][v]
    BY <1>3, <1>4, <1>5
  <2>2. order[k] \in DOMAIN ps /\ maps[k] = PolicyVars(ps[order[k]], o)
    BY <1>2, <1>4
  <2>3. PICK i \in DOMAIN ps[order[k]].defaults :
             /\ Selected(ps[order[k]].defaults[i], o)
             /\ v \in DOMAIN ps[order[k]].defaults[i].vars
             /\ PolicyVars(ps[order[k]], o)[v] = ps[order[k]].defaults[i].vars[v]
    BY <2>1, <2>2, PolicyVarsFacts
  <2> QED BY <1>3, <2>1, <2>2, <2>3
<1> QED BY <1>6, <1>7

(* A Configuration that passes the mutating webhook. *)
LEMMA PolicyDefaultsFacts ==
  ASSUME scene \in Scenes, Known(cached.policies), NEW o, DOMAIN o = ConfigFields,
         NEW x \in MutateOnPolicyDefaults(o)
  PROVE  /\ DOMAIN x = ConfigFields
         /\ x.ns = o.ns /\ x.module = o.module /\ x.deleting = o.deleting
         /\ x.names = o.names \/ x.names = Injecting(cached.policies, x)
         /\ Enforced(Defaulting(cached.policies), x)
<1> DEFINE ps == cached.policies
           names == Injecting(ps, o)
           ds == Defaulting(ps)
<1>0. /\ DOMAIN ds = {p \in DOMAIN ps : ps[p].defaults # <<>>}
      /\ \A p \in DOMAIN ds : ds[p] = ps[p]
  BY DEF Defaulting, Restrict
<1>1. CASE DOMAIN ps = {}
  <2>1. x = o
    BY <1>1 DEF MutateOnPolicyDefaults
  <2>2. DOMAIN ds = {}
    BY <1>0, <1>1
  <2>3. Enforced(ds, x)
    <3> HIDE DEF ds
    <3> QED BY <2>2 DEF Enforced, Injecting
  <2> QED BY <2>1, <2>3
<1>2. CASE DOMAIN ps # {}
  <2>1. PICK order \in Orders(ps) :
             x = [o EXCEPT !.vars = MergeDefaults(@, DefaultVars(ps, o, order)),
                           !.names = IF names = {} THEN @ ELSE names]
    BY <1>2 DEF MutateOnPolicyDefaults
  <2> DEFINE vars == MergeDefaults(o.vars, DefaultVars(ps, o, order))
             ns == IF names = {} THEN o.names ELSE names
  <2>2. x = [o EXCEPT !.vars = vars, !.names = ns]
    BY <2>1
  <2> HIDE DEF vars, ns
  <2>3. /\ DOMAIN x = ConfigFields /\ x.vars = vars /\ x.names = ns
        /\ x.ns = o.ns /\ x.module = o.module /\ x.deleting = o.deleting
    BY <2>2 DEF ConfigFields
  <2>4. \A d : Selected(d, x) <=> Selected(d, o)
    BY <2>3, SelectedSame
  <2>5. names = Injecting(ps, x)
    BY <2>4 DEF Injecting
  <2>6. Injecting(ds, x) \subseteq names
    BY <1>0, <2>4 DEF Injecting
  <2>7. x.names = o.names \/ x.names = Injecting(ps, x)
    BY <2>3, <2>5 DEF ns
  <2>8. Injecting(ds, x) \subseteq x.names
    BY <2>3, <2>6 DEF ns
  <2>9. ASSUME Agree(ds, x), NEW p \in DOMAIN ds, NEW i \in DOMAIN ds[p].defaults,
               Selected(ds[p].defaults[i], x), NEW v \in DOMAIN ds[p].defaults[i].vars
        PROVE  v \in DOMAIN x.vars /\ x.vars[v] = ds[p].defaults[i].vars[v]
    <3> DEFINE set == DefaultVars(ps, o, order)
    <3>1. p \in DOMAIN ps /\ ds[p] = ps[p]
      BY <1>0
    <3>2. v \in DOMAIN set
      BY <2>4, <2>9, <3>1, DefaultVarsFacts
    <3>3. PICK q \in DOMAIN ps : \E j \in DOMAIN ps[q].defaults :
               /\ Selected(ps[q].defaults[j], o) /\ v \in DOMAIN ps[q].defaults[j].vars
               /\ set[v] = ps[q].defaults[j].vars[v]
      BY <3>2, DefaultVarsFacts
    <3>4. PICK j \in DOMAIN ps[q].defaults :
               /\ Selected(ps[q].defaults[j], o) /\ v \in DOMAIN ps[q].defaults[j].vars
               /\ set[v] = ps[q].defaults[j].vars[v]
      BY <3>3
    <3>5. q \in DOMAIN ds /\ ds[q] = ps[q]
      <4>1. ps[q].defaults # <<>>
        BY <3>4
      <4> QED BY <1>0, <4>1
    <3>6. set[v] = ds[p].defaults[i].vars[v]
      <4> HIDE DEF ds, ps, set
      <4> QED BY <2>4, <2>9, <3>4, <3>5 DEF Agree
    <3>7. v \in DOMAIN vars /\ vars[v] = set[v]
      <4> HIDE DEF set
      <4>1. vars = Overlay(set, o.vars)
        BY DEF vars, MergeDefaults, set
      <4> HIDE DEF vars
      <4> QED BY <3>2, <4>1 DEF Overlay
    <3> QED BY <2>3, <3>6, <3>7
  <2>10. Enforced(ds, x)
    <3> HIDE DEF ds
    <3> QED BY <2>8, <2>9 DEF Enforced
  <2> QED BY <2>3, <2>7, <2>10
<1> QED BY <1>1, <1>2

LEMMA DefaultFacts ==
  ASSUME scene \in Scenes, Known(cached.policies), NEW o, DOMAIN o = ConfigFields,
         NEW x \in Default(o)
  PROVE  /\ DOMAIN x = ConfigFields
         /\ x.ns = o.ns /\ x.module = o.module /\ x.deleting = o.deleting
         /\ x.names = o.names \/ x.names = Injecting(cached.policies, x)
         /\ Enforced(Defaulting(cached.policies), x)
<1>1. PICK y \in MutateOnProviderDefault(o) : x \in MutateOnPolicyDefaults(MutateOnPlan(y))
  BY DEF Default
<1>2. y = o \/ y = [o EXCEPT !.provider = DefaultProviders]
  BY <1>1 DEF MutateOnProviderDefault
<1>3. /\ DOMAIN y = ConfigFields /\ y.ns = o.ns /\ y.module = o.module
      /\ y.deleting = o.deleting /\ y.names = o.names
  BY <1>2 DEF ConfigFields
<1> DEFINE z == MutateOnPlan(y)
           labels == IF y.plan THEN y.labels \cup {"plan"} ELSE y.labels
<1>4. z = [y EXCEPT !.labels = labels]
  BY DEF MutateOnPlan
<1> HIDE DEF labels
<1>5. /\ DOMAIN z = ConfigFields /\ z.ns = o.ns /\ z.module = o.module
      /\ z.deleting = o.deleting /\ z.names = o.names
  BY <1>3, <1>4 DEF ConfigFields
<1> HIDE DEF z
<1>6. x \in MutateOnPolicyDefaults(z)
  BY <1>1 DEF z
<1> QED BY <1>5, <1>6, PolicyDefaultsFacts

-----------------------------------------------------------------------------
(***************************************************************************)
(* The invariant: the shape of the state, the policies are known, every    *)
(* Configuration has what it was last given, and with caches that do not   *)
(* lag the policies it names are there.                                    *)
(***************************************************************************)
Shape ==
  /\ scene \in Scenes
  /\ DOMAIN cluster = Kinds /\ DOMAIN cached = Kinds
  /\ DOMAIN under = Configs /\ DOMAIN cluster.configs \subseteq Configs
  /\ \A c \in DOMAIN cluster.configs : DOMAIN cluster.configs[c] = ConfigFields
  /\ Known(cluster.policies) /\ Known(cached.policies)

Fresh == scene.lag = {} => cached = cluster

AdmissionInv == Shape /\ Fresh /\ DefaultsEnforced /\ DefaultsHeld

(* A write of one kind. *)
LEMMA StoreFacts ==
  ASSUME Shape, Fresh, NEW kind \in Kinds, NEW objects, Store(kind, objects), scene' = scene
  PROVE  /\ DOMAIN cluster' = Kinds /\ DOMAIN cached' = Kinds
         /\ cluster'[kind] = objects /\ cached'[kind] \in {objects, cached[kind]}
         /\ \A k \in Kinds : k # kind => cluster'[k] = cluster[k] /\ cached'[k] = cached[k]
         /\ Fresh'
<1>1. /\ DOMAIN cluster' = Kinds /\ cluster'[kind] = objects
      /\ \A k \in Kinds : k # kind => cluster'[k] = cluster[k]
  BY DEF Store, Shape
<1>2. /\ DOMAIN cached' = Kinds /\ cached'[kind] \in {objects, cached[kind]}
      /\ \A k \in Kinds : k # kind => cached'[k] = cached[k]
  BY DEF Store, Shape
<1>3. Fresh'
  BY DEF Fresh, Store
<1> QED BY <1>1, <1>2, <1>3

(* The names a Configuration may carry. *)
Present(names) ==
  \A p \in names : \/ p \in DOMAIN cluster.policies
                   \/ \E s \in scene.policies : s.name = p /\ s.spec.skipCheck

LEMMA HeldEach ==
  DefaultsHeld <=> (scene.lag = {} => \A c \in DOMAIN cluster.configs :
                                        Present(cluster.configs[c].names))
BY DEF DefaultsHeld, Present

(* The policies, and the rest of the cluster besides the Configurations,   *)
(* stay as they are.                                                       *)
LEMMA ConfigsChange ==
  ASSUME AdmissionInv, scene' = scene, DOMAIN under' = Configs, NEW objects,
         Store("configs", objects), DOMAIN objects \subseteq Configs,
         \A c \in DOMAIN objects :
           /\ DOMAIN objects[c] = ConfigFields /\ Enforced(under'[c], objects[c])
           /\ scene.lag = {} => Present(objects[c].names)
  PROVE  AdmissionInv'
<1>1. "configs" \in Kinds /\ "policies" \in Kinds /\ "policies" # "configs"
  BY DEF Kinds
<1>2. /\ DOMAIN cluster' = Kinds /\ DOMAIN cached' = Kinds /\ cluster'.configs = objects
      /\ cluster'.policies = cluster.policies /\ cached'.policies = cached.policies /\ Fresh'
  BY <1>1, StoreFacts DEF AdmissionInv
<1>3. Known(cluster.policies)' /\ Known(cached.policies)'
  BY <1>2 DEF Known, AdmissionInv, Shape
<1>4. Shape'
  BY <1>2, <1>3 DEF Shape, AdmissionInv
<1>5. DefaultsEnforced'
  <2>1. \A c \in DOMAIN cluster'.configs : Enforced(under'[c], cluster'.configs[c])
    BY <1>2
  <2> QED BY <2>1 DEF DefaultsEnforced, Enforced
<1>6. DefaultsHeld'
  BY <1>2 DEF DefaultsHeld, Present
<1> QED BY <1>2, <1>4, <1>5, <1>6 DEF AdmissionInv

(* A write that the webhooks let through. *)
LEMMA WriteKeeps ==
  ASSUME AdmissionInv, NEW c \in Configs, NEW before, NEW o, DOMAIN o = ConfigFields,
         scene.lag = {} => Present(o.names),
         NEW x \in Admits(before, o), WriteConfig(c, x)
  PROVE  AdmissionInv'
<1>1. Shape /\ Fresh /\ DefaultsEnforced /\ DefaultsHeld
  BY DEF AdmissionInv
<1>2. x \in Default(o)
  BY DEF Admits
<1>3. /\ DOMAIN x = ConfigFields
      /\ x.names = o.names \/ x.names = Injecting(cached.policies, x)
      /\ Enforced(Defaulting(cached.policies), x)
  BY <1>1, <1>2, DefaultFacts DEF Shape
<1>4. scene.lag = {} => Present(x.names)
  <2> SUFFICES ASSUME scene.lag = {}, x.names = Injecting(cached.policies, x)
               PROVE  Present(x.names)
    BY <1>3
  <2>1. cached.policies = cluster.policies
    BY <1>1 DEF Fresh
  <2> QED BY <2>1 DEF Present, Injecting
<1> DEFINE objects == With(cluster.configs, c, x)
<1>5. /\ DOMAIN objects = DOMAIN cluster.configs \cup {c} /\ objects[c] = x
      /\ \A y \in DOMAIN cluster.configs \ {c} : objects[y] = cluster.configs[y]
  BY DEF With, Overlay
<1>6. Store("configs", objects) /\ scene' = scene
  BY DEF WriteConfig
<1>7. /\ DOMAIN under' = Configs /\ under'[c] = Defaulting(cached.policies)
      /\ \A y \in Configs \ {c} : under'[y] = under[y]
  BY <1>1 DEF WriteConfig, Shape
<1> HIDE DEF objects
<1>8. ASSUME NEW y \in DOMAIN objects
      PROVE  /\ DOMAIN objects[y] = ConfigFields /\ Enforced(under'[y], objects[y])
             /\ scene.lag = {} => Present(objects[y].names)
  <2>1. CASE y = c
    BY <1>3, <1>4, <1>5, <1>7, <2>1
  <2>2. CASE y # c
    <3>1. y \in DOMAIN cluster.configs /\ objects[y] = cluster.configs[y] /\ under'[y] = under[y]
      BY <1>1, <1>5, <1>7, <2>2 DEF Shape
    <3>2. Enforced(under[y], cluster.configs[y])
      BY <1>1, <3>1, EnforcedEach
    <3>3. scene.lag = {} => Present(cluster.configs[y].names)
      BY <1>1, <3>1, HeldEach
    <3> QED BY <1>1, <3>1, <3>2, <3>3 DEF Shape
  <2> QED BY <2>1, <2>2
<1>9. DOMAIN objects \subseteq Configs
  BY <1>1, <1>5 DEF Shape
<1> QED BY <1>6, <1>7, <1>8, <1>9, ConfigsChange

LEMMA RemoveKeeps ==
  ASSUME AdmissionInv, NEW c \in Configs, RemoveConfig(c)
  PROVE  AdmissionInv'
<1>1. Shape /\ DefaultsEnforced /\ DefaultsHeld
  BY DEF AdmissionInv
<1> DEFINE objects == Without(cluster.configs, c)
<1>2. /\ DOMAIN objects = DOMAIN cluster.configs \ {c}
      /\ \A y \in DOMAIN objects : objects[y] = cluster.configs[y]
  BY WithoutFacts
<1>3. Store("configs", objects) /\ scene' = scene
  BY DEF RemoveConfig
<1>4. DOMAIN under' = Configs /\ \A y \in Configs \ {c} : under'[y] = under[y]
  BY <1>1 DEF RemoveConfig, Shape
<1> HIDE DEF objects
<1>5. ASSUME NEW y \in DOMAIN objects
      PROVE  /\ DOMAIN objects[y] = ConfigFields /\ Enforced(under'[y], objects[y])
             /\ scene.lag = {} => Present(objects[y].names)
  <2>1. y \in DOMAIN cluster.configs /\ objects[y] = cluster.configs[y] /\ under'[y] = under[y]
    BY <1>1, <1>2, <1>4 DEF Shape
  <2>2. Enforced(under[y], cluster.configs[y])
    BY <1>1, <2>1, EnforcedEach
  <2>3. scene.lag = {} => Present(cluster.configs[y].names)
    BY <1>1, <2>1, HeldEach
  <2> QED BY <1>1, <2>1, <2>2, <2>3 DEF Shape
<1> QED BY <1>1, <1>2, <1>3, <1>4, <1>5, ConfigsChange DEF Shape

LEMMA MarkKeeps ==
  ASSUME AdmissionInv, NEW c \in DOMAIN cluster.configs, MarkConfig(c)
  PROVE  AdmissionInv'
<1>1. Shape /\ DefaultsEnforced /\ DefaultsHeld /\ c \in Configs
  BY DEF AdmissionInv, Shape
<1>2. CASE ~cluster.configs[c].finalizer
  BY <1>1, <1>2, RemoveKeeps DEF MarkConfig
<1>3. CASE cluster.configs[c].finalizer
  <2> DEFINE b == cluster.configs[c]
             o == [b EXCEPT !.deleting = TRUE]
             objects == [cluster.configs EXCEPT ![c] = o]
  <2>1. Store("configs", objects) /\ scene' = scene /\ under' = under
    BY <1>3 DEF MarkConfig
  <2>2. DOMAIN b = ConfigFields /\ Enforced(under[c], b) /\ (scene.lag = {} => Present(b.names))
    BY <1>1, EnforcedEach, HeldEach DEF Shape
  <2>3. /\ DOMAIN o = ConfigFields
        /\ o.module = b.module /\ o.ns = b.ns /\ o.vars = b.vars /\ o.names = b.names
    <3> HIDE DEF b
    <3> QED BY <2>2 DEF ConfigFields
  <2> HIDE DEF o
  <2>4. Enforced(under[c], o)
    <3> HIDE DEF b
    <3> QED BY <2>2, <2>3, EnforcedSame
  <2>5. /\ DOMAIN objects = DOMAIN cluster.configs /\ objects[c] = o
        /\ \A y \in DOMAIN cluster.configs : y # c => objects[y] = cluster.configs[y]
    OBVIOUS
  <2> HIDE DEF objects
  <2>6. ASSUME NEW y \in DOMAIN objects
        PROVE  /\ DOMAIN objects[y] = ConfigFields /\ Enforced(under'[y], objects[y])
               /\ scene.lag = {} => Present(objects[y].names)
    <3>1. CASE y = c
      BY <2>1, <2>2, <2>3, <2>4, <2>5, <3>1
    <3>2. CASE y # c
      <4>1. y \in DOMAIN cluster.configs /\ objects[y] = cluster.configs[y]
        BY <2>5, <3>2
      <4>2. Enforced(under[y], cluster.configs[y])
        BY <1>1, <4>1, EnforcedEach
      <4>3. scene.lag = {} => Present(cluster.configs[y].names)
        BY <1>1, <4>1, HeldEach
      <4> QED BY <1>1, <2>1, <4>1, <4>2, <4>3 DEF Shape
    <3> QED BY <3>1, <3>2
  <2> QED BY <1>1, <2>1, <2>5, <2>6, ConfigsChange DEF Shape
<1> QED BY <1>2, <1>3

(* The actions on Configurations. *)
LEMMA ConfigStep ==
  ASSUME AdmissionInv, NEW c \in Configs,
         \/ \E r \in scene.requests : CreateConfig(c, r) \/ EditConfig(c, r)
         \/ TouchConfig(c) \/ DeleteConfig(c) \/ ReleaseConfig(c)
  PROVE  AdmissionInv'
<1>1. Shape /\ DefaultsHeld
  BY DEF AdmissionInv
<1>2. CASE \E r \in scene.requests : CreateConfig(c, r)
  <2>1. PICK r \in scene.requests : CreateConfig(c, r)
    BY <1>2
  <2>2. PICK x \in Admits({}, Submitted(c, r)) : WriteConfig(c, x)
    BY <2>1 DEF CreateConfig
  <2>3. DOMAIN Submitted(c, r) = ConfigFields /\ Submitted(c, r).names = {}
    BY DEF Submitted, ConfigFields
  <2>4. Present(Submitted(c, r).names)
    BY <2>3 DEF Present
  <2> QED BY <2>2, <2>3, <2>4, WriteKeeps
<1>3. CASE \E r \in scene.requests : EditConfig(c, r)
  <2>1. PICK r \in scene.requests : EditConfig(c, r)
    BY <1>3
  <2> DEFINE b == cluster.configs[c]
             edited == [b EXCEPT !.wellFormed = r.wellFormed, !.module = r.module,
                             !.labels = @ \cup r.labels, !.plan = r.plan,
                             !.version = r.version, !.context = r.context,
                             !.provider = IF r.provider = {} THEN @ ELSE r.provider,
                             !.vars = Overlay(r.vars, @)]
  <2>2. PICK x \in Admits({b}, edited) : WriteConfig(c, x)
    BY <2>1 DEF EditConfig
  <2>3. DOMAIN b = ConfigFields /\ (scene.lag = {} => Present(b.names))
    BY <1>1, <2>1, HeldEach DEF EditConfig, Stored, Shape
  <2>4. DOMAIN edited = ConfigFields /\ edited.names = b.names
    <3> HIDE DEF b
    <3> QED BY <2>3 DEF ConfigFields
  <2> HIDE DEF edited, b
  <2> QED BY <2>2, <2>3, <2>4, WriteKeeps
<1>4. CASE TouchConfig(c)
  <2> DEFINE b == cluster.configs[c]
             touched == IF b.deleting THEN b ELSE [b EXCEPT !.finalizer = TRUE]
  <2>1. PICK x \in Admits({b}, touched) : WriteConfig(c, x)
    BY <1>4 DEF TouchConfig
  <2>2. DOMAIN b = ConfigFields /\ (scene.lag = {} => Present(b.names))
    BY <1>1, <1>4, HeldEach DEF TouchConfig, Stored, Shape
  <2>3. DOMAIN touched = ConfigFields /\ touched.names = b.names
    <3> HIDE DEF b
    <3> QED BY <2>2 DEF ConfigFields
  <2> HIDE DEF touched, b
  <2> QED BY <2>1, <2>2, <2>3, WriteKeeps
<1>5. CASE DeleteConfig(c)
  BY <1>5, MarkKeeps DEF DeleteConfig, Stored
<1>6. CASE ReleaseConfig(c)
  BY <1>6, RemoveKeeps DEF ReleaseConfig
<1> QED BY <1>2, <1>3, <1>4, <1>5, <1>6

(* The policies change, the Configurations do not. *)
(* What Configurations carry depends on them and on what they were written *)
(* under.                                                                  *)
LEMMA EnforcedStays ==
  ASSUME DefaultsEnforced, cluster'.configs = cluster.configs, under' = under
  PROVE  DefaultsEnforced'
BY DEF DefaultsEnforced

LEMMA PoliciesChange ==
  ASSUME AdmissionInv, scene' = scene, under' = under, NEW ps, Store("policies", ps),
         Known(ps),
         scene.lag = {} => \A c \in DOMAIN cluster.configs : \A p \in cluster.configs[c].names :
           \/ p \in DOMAIN ps
           \/ \E s \in scene.policies : s.name = p /\ s.spec.skipCheck
  PROVE  AdmissionInv'
<1>1. "configs" \in Kinds /\ "policies" \in Kinds /\ "policies" # "configs"
  BY DEF Kinds
<1>2. /\ DOMAIN cluster' = Kinds /\ DOMAIN cached' = Kinds /\ cluster'.policies = ps
      /\ cached'.policies \in {ps, cached.policies}
      /\ cluster'.configs = cluster.configs /\ Fresh'
  BY <1>1, StoreFacts DEF AdmissionInv
<1>3. Known(cluster.policies)' /\ Known(cached.policies)'
  BY <1>2 DEF Known, AdmissionInv, Shape
<1>4. Shape'
  BY <1>2, <1>3 DEF Shape, AdmissionInv
<1>5. DefaultsEnforced'
  BY <1>2, EnforcedStays DEF AdmissionInv
<1>6. DefaultsHeld'
  BY <1>2 DEF DefaultsHeld
<1> QED BY <1>2, <1>4, <1>5, <1>6 DEF AdmissionInv

LEMMA PolicyStep ==
  ASSUME AdmissionInv,
         \/ \E s \in scene.policies : SubmitPolicy(s)
         \/ \E p \in DOMAIN cluster.policies : DeletePolicy(p)
  PROVE  AdmissionInv'
<1>1. Shape /\ Fresh /\ DefaultsHeld /\ Known(cluster.policies)
  BY DEF AdmissionInv, Shape
<1>2. CASE \E s \in scene.policies : SubmitPolicy(s)
  <2>1. PICK s \in scene.policies : SubmitPolicy(s)
    BY <1>2
  <2> DEFINE ps == With(cluster.policies, s.name, s.spec)
  <2>2. Store("policies", ps) /\ scene' = scene /\ under' = under
    BY <2>1 DEF SubmitPolicy
  <2>3. /\ DOMAIN ps = DOMAIN cluster.policies \cup {s.name} /\ ps[s.name] = s.spec
        /\ \A p \in DOMAIN cluster.policies \ {s.name} : ps[p] = cluster.policies[p]
    BY DEF With, Overlay
  <2> HIDE DEF ps
  <2>4. IsFiniteSet(DOMAIN ps)
    BY <1>1, <2>3, FS_AddElement DEF Known
  <2>5. Known(ps)
    BY <1>1, <2>3, <2>4 DEF Known
  <2>6. scene.lag = {} => \A c \in DOMAIN cluster.configs : \A p \in cluster.configs[c].names :
           \/ p \in DOMAIN ps
           \/ \E x \in scene.policies : x.name = p /\ x.spec.skipCheck
    BY <1>1, <2>3 DEF DefaultsHeld
  <2> QED BY <2>2, <2>5, <2>6, PoliciesChange
<1>3. CASE \E p \in DOMAIN cluster.policies : DeletePolicy(p)
  <2>1. PICK q \in DOMAIN cluster.policies : DeletePolicy(q)
    BY <1>3
  <2> DEFINE ps == Without(cluster.policies, q)
  <2>2. Store("policies", ps) /\ scene' = scene /\ under' = under
    BY <2>1 DEF DeletePolicy
  <2>3. /\ DOMAIN ps = DOMAIN cluster.policies \ {q}
        /\ \A p \in DOMAIN ps : ps[p] = cluster.policies[p]
    BY DEF Without, Restrict
  <2> HIDE DEF ps
  <2>4. IsFiniteSet(DOMAIN ps)
    BY <1>1, <2>3, FS_RemoveElement DEF Known
  <2>5. Known(ps)
    BY <1>1, <2>3, <2>4 DEF Known
  <2>6. ASSUME scene.lag = {}, NEW c \in DOMAIN cluster.configs,
               NEW p \in cluster.configs[c].names
        PROVE  p \in DOMAIN ps \/ \E x \in scene.policies : x.name = p /\ x.spec.skipCheck
    <3>1. CASE p # q
      BY <1>1, <2>3, <2>6, <3>1 DEF DefaultsHeld
    <3>2. CASE p = q
      <4>1. cached = cluster
        BY <1>1, <2>6 DEF Fresh
      <4>2. cluster.policies[q].skipCheck
        BY <2>1, <3>2, <4>1 DEF DeletePolicy, PolicyUnused
      <4> QED BY <1>1, <3>2, <4>2 DEF Known
    <3> QED BY <3>1, <3>2
  <2> QED BY <2>2, <2>5, <2>6, PoliciesChange
<1> QED BY <1>2, <1>3

(* Neither the policies nor the Configurations change. *)
LEMMA RestChanges ==
  ASSUME AdmissionInv, scene' = scene, under' = under,
         DOMAIN cluster' = Kinds, DOMAIN cached' = Kinds, Fresh',
         cluster'.configs = cluster.configs, cluster'.policies = cluster.policies,
         cached'.policies \in {cached.policies, cluster.policies}
  PROVE  AdmissionInv'
<1>1. Known(cluster.policies)' /\ Known(cached.policies)'
  BY DEF Known, AdmissionInv, Shape
<1>2. Shape'
  BY <1>1 DEF Shape, AdmissionInv
<1>3. DefaultsEnforced'
  BY EnforcedStays DEF AdmissionInv
<1>4. DefaultsHeld'
  BY DEF DefaultsHeld, AdmissionInv
<1> QED BY <1>2, <1>3, <1>4 DEF AdmissionInv

LEMMA StoreRest ==
  ASSUME AdmissionInv, scene' = scene, under' = under,
         NEW kind \in {"providers", "contexts", "namespaces"}, NEW objects, Store(kind, objects)
  PROVE  AdmissionInv'
<1>1. /\ kind \in Kinds /\ "configs" \in Kinds /\ "policies" \in Kinds
      /\ kind # "configs" /\ kind # "policies"
  BY DEF Kinds
<1>2. /\ DOMAIN cluster' = Kinds /\ DOMAIN cached' = Kinds /\ Fresh'
      /\ \A k \in Kinds : k # kind => cluster'[k] = cluster[k] /\ cached'[k] = cached[k]
  BY <1>1, StoreFacts DEF AdmissionInv
<1> QED BY <1>1, <1>2, RestChanges

LEMMA OtherStep ==
  ASSUME AdmissionInv,
         \/ \E s \in scene.providers : SubmitProvider(s)
         \/ \E p \in DOMAIN cluster.providers : DeleteProvider(p)
         \/ \E x \in scene.contexts : SubmitContext(x) \/ DeleteContext(x)
         \/ \E n \in DOMAIN cluster.namespaces : DeleteNamespace(n) \/ EmptyNamespace(n)
         \/ DisableVersions
         \/ \E k \in Kinds : SyncKind(k)
         \/ UNCHANGED admission
  PROVE  AdmissionInv'
<1>1. CASE \/ \E s \in scene.providers : SubmitProvider(s)
           \/ \E p \in DOMAIN cluster.providers : DeleteProvider(p)
           \/ \E x \in scene.contexts : SubmitContext(x) \/ DeleteContext(x)
           \/ \E n \in DOMAIN cluster.namespaces : DeleteNamespace(n)
  <2>1. scene' = scene /\ under' = under
    BY <1>1 DEF SubmitProvider, DeleteProvider, SubmitContext, DeleteContext, DeleteNamespace
  <2>2. PICK kind \in {"providers", "contexts", "namespaces"} : \E objects : Store(kind, objects)
    BY <1>1 DEF SubmitProvider, DeleteProvider, SubmitContext, DeleteContext, DeleteNamespace
  <2>3. PICK objects : Store(kind, objects)
    BY <2>2
  <2> QED BY <2>1, <2>3, StoreRest
<1>2. CASE \E n \in DOMAIN cluster.namespaces : EmptyNamespace(n)
  <2>1. PICK n \in DOMAIN cluster.namespaces : EmptyNamespace(n)
    BY <1>2
  <2>2. CASE \E c \in DOMAIN cluster.configs : MarkConfig(c)
    BY <2>2, MarkKeeps
  <2>3. CASE /\ Store("namespaces", Without(cluster.namespaces, n))
             /\ UNCHANGED <<versions, under, scene>>
    BY <2>3, StoreRest
  <2> QED BY <2>1, <2>2, <2>3 DEF EmptyNamespace
<1>3. CASE DisableVersions \/ UNCHANGED admission
  <2>1. cluster' = cluster /\ cached' = cached /\ scene' = scene /\ under' = under
    BY <1>3 DEF DisableVersions, admission
  <2> QED BY <2>1, RestChanges DEF AdmissionInv, Shape, Fresh
<1>4. CASE \E k \in Kinds : SyncKind(k)
  <2>1. PICK k \in Kinds : SyncKind(k)
    BY <1>4
  <2>2. cluster' = cluster /\ scene' = scene /\ under' = under
        /\ cached' = [cached EXCEPT ![k] = cluster[k]]
    BY <2>1 DEF SyncKind
  <2>3. DOMAIN cached' = Kinds /\ cached'.policies \in {cached.policies, cluster.policies}
    BY <2>2 DEF AdmissionInv, Shape, Kinds
  <2>4. Fresh'
    <3>1. scene.lag # {}
      BY <2>1 DEF AdmissionInv, Fresh, SyncKind
    <3> QED BY <2>2, <3>1 DEF Fresh
  <2> QED BY <2>2, <2>3, <2>4, RestChanges DEF AdmissionInv, Shape
<1> QED BY <1>1, <1>2, <1>3, <1>4

LEMMA AdmissionInitially ==
  AdmissionInit => AdmissionInv
<1> SUFFICES ASSUME AdmissionInit PROVE AdmissionInv
  OBVIOUS
<1>1. DOMAIN Nothing = {}
  BY DEF Nothing
<1>2. /\ scene \in Scenes /\ cached = cluster /\ DOMAIN cluster = Kinds
      /\ cluster.configs = Nothing /\ cluster.policies = Nothing /\ DOMAIN under = Configs
  BY DEF AdmissionInit, Kinds
<1>3. Known(Nothing)
  BY <1>1, FS_EmptySet DEF Known
<1>4. Shape /\ Fresh
  BY <1>1, <1>2, <1>3 DEF Shape, Fresh
<1>5. DefaultsEnforced /\ DefaultsHeld
  BY <1>1, <1>2 DEF DefaultsEnforced, DefaultsHeld
<1> QED BY <1>4, <1>5 DEF AdmissionInv

(***************************************************************************)
(* The invariant holds of every behaviour: every write of a Configuration  *)
(* runs through the mutating webhook, and every deletion of a policy       *)
(* through its validating one.                                             *)
(***************************************************************************)
THEOREM AdmissionInductive ==
  AdmissionSpec => []AdmissionInv
<1>1. AdmissionInv /\ [AdmissionNext]_admission => AdmissionInv'
  BY ConfigStep, PolicyStep, OtherStep DEF AdmissionNext
<1> QED BY <1>1, AdmissionInitially, PTL DEF AdmissionSpec

(***************************************************************************)
(* Defaults are enforced: a Configuration carries the variables of every   *)
(* policy that applied to it when it was last written, and names them, for *)
(* any policies, selectors, requests and lag, whoever wrote it and in      *)
(* whatever order the policies were listed (mutateOnPolicyDefaults).       *)
(***************************************************************************)
THEOREM DefaultsSafe ==
  AdmissionSpec => []DefaultsEnforced
<1>1. AdmissionInv => DefaultsEnforced
  BY DEF AdmissionInv
<1> QED BY <1>1, AdmissionInductive, PTL

(***************************************************************************)
(* Defaults are held: with caches that do not lag, the policies that a     *)
(* Configuration names cannot be deleted before it, unless they are marked *)
(* to be deletable (the ValidateDelete of policies).                       *)
(***************************************************************************)
THEOREM PoliciesHeld ==
  AdmissionSpec => []DefaultsHeld
<1>1. AdmissionInv => DefaultsHeld
  BY DEF AdmissionInv
<1> QED BY <1>1, AdmissionInductive, PTL

-----------------------------------------------------------------------------
(* The weight of a constraint says which selectors it has. *)
LEMMA AtMostOneCardinality ==
  ASSUME NEW S, AtMostOne(S)
  PROVE  Cardinality(S) = IF S = {} THEN 0 ELSE 1
<1>1. CASE S = {}
  BY <1>1, FS_EmptySet
<1>2. CASE S # {}
  <2>1. PICK x \in S : TRUE
    BY <1>2
  <2>2. S = {x}
    BY <2>1 DEF AtMostOne
  <2> QED BY <1>2, <2>2, FS_Singleton
<1> QED BY <1>1, <1>2

LEMMA WeightFacts ==
  ASSUME NEW k, AtMostOne(k.ns), AtMostOne(k.res)
  PROVE  Weight(k) = (IF k.ns = {} THEN 0 ELSE 10) + (IF k.res = {} THEN 0 ELSE 20)
<1>1. Cardinality(k.ns) = IF k.ns = {} THEN 0 ELSE 1
  BY AtMostOneCardinality
<1>2. Cardinality(k.res) = IF k.res = {} THEN 0 ELSE 1
  BY AtMostOneCardinality
<1> QED BY <1>1, <1>2 DEF Weight

LEMMA SpecificWeighsMore ==
  ASSUME NEW k, AtMostOne(k.ns), AtMostOne(k.res), NEW l, AtMostOne(l.ns), AtMostOne(l.res)
  PROVE  MoreSpecific(k, l) <=> Weight(l) < Weight(k)
<1>1. Weight(k) = (IF k.ns = {} THEN 0 ELSE 10) + (IF k.res = {} THEN 0 ELSE 20)
  BY WeightFacts
<1>2. Weight(l) = (IF l.ns = {} THEN 0 ELSE 10) + (IF l.res = {} THEN 0 ELSE 20)
  BY WeightFacts
<1> QED BY <1>1, <1>2 DEF MoreSpecific

(* A policy that scans has one constraint. *)
LEMMA OneConstraint ==
  ASSUME scene \in Scenes, NEW ps, Known(ps), NEW o, NEW p \in Scanning(ps, o)
  PROVE  \E k : /\ ps[p].checkov = {k} /\ AtMostOne(k.ns) /\ AtMostOne(k.res)
                /\ WeightOf(ps, p) = Weight(k)
<1>1. p \in DOMAIN ps /\ ps[p].checkov # {}
  BY DEF Scanning
<1>2. /\ AtMostOne(ps[p].checkov)
      /\ \A k \in ps[p].checkov : AtMostOne(k.ns) /\ AtMostOne(k.res)
  BY <1>1, PoliciesAssumption DEF Known
<1>3. PICK k \in ps[p].checkov : TRUE
  BY <1>1
<1>4. ps[p].checkov = {k}
  BY <1>2, <1>3 DEF AtMostOne
<1>5. (CHOOSE l \in ps[p].checkov : TRUE) = k
  BY <1>4
<1> QED BY <1>2, <1>3, <1>4, <1>5 DEF WeightOf

(* The most specific constraints are the ones that weigh most. *)
Best(ps, o) ==
  {p \in Scanning(ps, o) : ~\E q \in Scanning(ps, o) :
     \E k \in ps[p].checkov, l \in ps[q].checkov : MoreSpecific(l, k)}

LEMMA BestIsHighest ==
  ASSUME scene \in Scenes, NEW ps, Known(ps), NEW o
  PROVE  /\ Best(ps, o) = Highest(ps, o)
         /\ Scanning(ps, o) # {} => Highest(ps, o) # {}
<1> DEFINE S == Scanning(ps, o)
           w(p) == WeightOf(ps, p)
<1>1. \A p \in S : w(p) \in {0, 10, 20, 30}
  <2> TAKE p \in S
  <2>1. PICK k : AtMostOne(k.ns) /\ AtMostOne(k.res) /\ w(p) = Weight(k)
    BY OneConstraint
  <2>2. Weight(k) = (IF k.ns = {} THEN 0 ELSE 10) + (IF k.res = {} THEN 0 ELSE 20)
    BY <2>1, WeightFacts
  <2> HIDE DEF w
  <2> QED BY <2>1, <2>2
<1>2. ASSUME NEW p \in S, NEW q \in S
      PROVE  (\E k \in ps[p].checkov, l \in ps[q].checkov : MoreSpecific(l, k))
               <=> w(p) < w(q)
  <2>1. PICK k : /\ ps[p].checkov = {k} /\ AtMostOne(k.ns) /\ AtMostOne(k.res)
                 /\ w(p) = Weight(k)
    BY OneConstraint
  <2>2. PICK l : /\ ps[q].checkov = {l} /\ AtMostOne(l.ns) /\ AtMostOne(l.res)
                 /\ w(q) = Weight(l)
    BY OneConstraint
  <2>3. MoreSpecific(l, k) <=> w(p) < w(q)
    BY <2>1, <2>2, SpecificWeighsMore
  <2> HIDE DEF w
  <2> QED BY <2>1, <2>2, <2>3
<1> HIDE DEF w
<1>3. Best(ps, o) = {p \in S : \A q \in S : w(q) <= w(p)}
  <2>1. \A p, q \in S : ~(w(p) < w(q)) <=> w(q) <= w(p)
    BY <1>1
  <2> HIDE DEF S
  <2>2. \A p \in S : (~\E q \in S : \E k \in ps[p].checkov, l \in ps[q].checkov :
                         MoreSpecific(l, k)) <=> \A q \in S : w(q) <= w(p)
    BY <1>2, <2>1
  <2> QED BY <2>2 DEF Best, S
<1>4. Highest(ps, o) = {p \in S : \A q \in S : w(q) <= w(p)}
  BY DEF Highest, w
<1>5. ASSUME S # {} PROVE \E p \in S : \A q \in S : w(q) <= w(p)
  <2> HIDE DEF S
  <2>1. CASE \E p \in S : w(p) = 30
    BY <1>1, <2>1
  <2>2. CASE (\E p \in S : w(p) = 20) /\ ~\E p \in S : w(p) = 30
    BY <1>1, <2>2
  <2>3. CASE (\E p \in S : w(p) = 10) /\ ~\E p \in S : w(p) \in {20, 30}
    BY <1>1, <2>3
  <2>4. CASE ~\E p \in S : w(p) \in {10, 20, 30}
    BY <1>1, <1>5, <2>4
  <2> QED BY <2>1, <2>2, <2>3, <2>4
<1> QED BY <1>3, <1>4, <1>5

(***************************************************************************)
(* The constraint a plan is scanned with is the most specific one that     *)
(* matches, for any policies that are in the cluster: the weights of       *)
(* FindMatchingPolicy order the constraints as MoreSpecific does, "none"   *)
(* is found only when none matches, and an error exactly when several are  *)
(* equally specific.                                                       *)
(***************************************************************************)
THEOREM PolicyChosen ==
  AdmissionSpec => []PolicyDecided
<1>1. AdmissionInv => PolicyDecided
  <2> SUFFICES ASSUME AdmissionInv, NEW c \in DOMAIN cluster.configs
               PROVE  LET ps == cluster.policies
                          o == cluster.configs[c]
                          found == FindMatchingPolicy(ps, o)
                      IN  /\ Best(ps, o) = {} <=> found = "none"
                          /\ Cardinality(Best(ps, o)) > 1 <=> found = "error"
                          /\ Cardinality(Best(ps, o)) = 1 => found \in Best(ps, o)
    BY DEF PolicyDecided, Best
  <2> DEFINE ps == cluster.policies
             o == cluster.configs[c]
             found == FindMatchingPolicy(ps, o)
             S == Scanning(ps, o)
             H == Highest(ps, o)
  <2>1. scene \in Scenes /\ Known(ps)
    BY DEF AdmissionInv, Shape
  <2>2. Best(ps, o) = H /\ (S # {} => H # {}) /\ H \subseteq S
    BY <2>1, BestIsHighest DEF Highest
  <2>3. \A p \in S : p \notin {"none", "error"}
    BY <2>1, PoliciesAssumption DEF Known, Scanning
  <2>4. Cardinality({}) = 0
    BY FS_EmptySet
  <2>5. CASE S = {}
    <3>1. H = {} /\ ~(Cardinality(H) > 1) /\ Cardinality(H) # 1
      BY <2>2, <2>4, <2>5
    <3>2. found = "none"
      BY <2>5, <3>1 DEF FindMatchingPolicy
    <3> QED BY <2>2, <3>1, <3>2
  <2>6. CASE S # {} /\ Cardinality(H) > 1
    <3>1. found = "error"
      BY <2>6 DEF FindMatchingPolicy
    <3>2. Cardinality(H) \in Nat
      BY <2>1, FS_Subset, FS_CardinalityType DEF Known, Highest, Scanning
    <3>3. Cardinality(H) # 1
      BY <2>6, <3>2
    <3> QED BY <2>2, <2>6, <3>1, <3>3
  <2>7. CASE S # {} /\ ~(Cardinality(H) > 1)
    <3>1. found = CHOOSE p \in H : TRUE
      BY <2>7 DEF FindMatchingPolicy
    <3>2. found \in H
      BY <2>2, <2>7, <3>1
    <3>3. found # "none" /\ found # "error"
      BY <2>2, <2>3, <3>2
    <3> QED BY <2>2, <2>7, <3>2, <3>3
  <2> QED BY <2>5, <2>6, <2>7
<1> QED BY <1>1, AdmissionInductive, PTL

-----------------------------------------------------------------------------
(***************************************************************************)
(* The commands of tnctl.                                                  *)
(***************************************************************************)
AuthoringSpec == AuthoringInit /\ [][AuthoringNext]_authoring

AuthoringInv ==
  /\ bench \in Benches
  /\ {"policies", "contexts", "applied"} \subseteq DOMAIN home
  /\ \A r \in draft : IsRevision(r)

LEMMA AuthoringInvKept ==
  ASSUME AuthoringInv, [AuthoringNext]_authoring
  PROVE  AuthoringInv'
<1>1. CASE UNCHANGED authoring
  BY <1>1 DEF authoring, AuthoringInv
<1>2. ASSUME NEW plan, NEW exposed, NEW useCluster, CreateRevision(plan, exposed, useCluster)
      PROVE  AuthoringInv'
  <2>1. bench' = bench /\ home' = home
    BY <1>2 DEF CreateRevision
  <2>3. PICK given, vars, from :
          /\ draft' = {[plan |-> plan, described |-> TRUE, module |-> bench.module,
                        version |-> IF useCluster THEN NextVersion(plan) ELSE 1,
                        provider |-> {"aws"},
                        inputs |-> [v \in given |-> WrittenInput(bench.variables[v])],
                        vars |-> vars, valueFrom |-> from]}
          /\ \A x \in from : x.kind = "context"
    <3> DEFINE hints(v) == SuggestContextualInput(bench.variables[v].about,
                                                  RetrieveConfiguration(useCluster))
               hinted == {v \in exposed : hints(v) # {}}
               given == exposed \ hinted
               vars == [v \in KeptDefaults(exposed) |-> <<"module">>]
               from(pick) == {[kind |-> "context", ref |-> pick[v].ref, key |-> pick[v].key,
                               name |-> v] : v \in hinted}
    <3>1. PICK pick :
            draft' = {[plan |-> plan, described |-> TRUE, module |-> bench.module,
                       version |-> IF useCluster THEN NextVersion(plan) ELSE 1,
                       provider |-> {"aws"},
                       inputs |-> [v \in given |-> WrittenInput(bench.variables[v])],
                       vars |-> vars, valueFrom |-> from(pick)]}
      BY <1>2 DEF CreateRevision
    <3>2. \A x \in from(pick) : x.kind = "context"
      OBVIOUS
    <3> HIDE DEF given, vars, from
    <3> QED BY <3>1, <3>2
  <2>4. ASSUME NEW r \in draft' PROVE IsRevision(r)
    <3>1. /\ {"inputs", "vars", "valueFrom"} \subseteq DOMAIN r
          /\ r.inputs = [v \in given |-> WrittenInput(bench.variables[v])]
          /\ r.valueFrom = from
      BY <2>3, <2>4
    <3>2. ASSUME NEW v \in given
          PROVE  /\ "default" \in DOMAIN WrittenInput(bench.variables[v])
                 /\ WrittenInput(bench.variables[v]).default \in {"none", "value"}
      BY DEF WrittenInput
    <3> QED BY <2>3, <3>1, <3>2 DEF IsRevision
  <2> QED BY <2>1, <2>4 DEF AuthoringInv
<1>3. CASE \E r \in bench.files : WriteRevision(r)
  BY <1>3, BenchesAssumption DEF WriteRevision, AuthoringInv, BenchesAssumption
<1>4. CASE UNCHANGED <<bench, home, draft>>
  BY <1>4 DEF AuthoringInv
<1>5. CASE ApplyRevision
  BY <1>5 DEF ApplyRevision, AuthoringInv
<1>6. CASE \E h \in bench.homes : ChangeHome(h)
  BY <1>6, BenchesAssumption DEF ChangeHome, AuthoringInv, BenchesAssumption
<1>7. ASSUME NEW contexts, NEW secrets, NEW checkov, Convert(contexts, secrets, checkov)
      PROVE  UNCHANGED <<bench, home, draft>>
  BY <1>7 DEF Convert
<1>8. ASSUME NEW useCluster, NEW useFiles, NEW plan, NEW contexts, NEW secrets,
             Verify(useCluster, useFiles, plan, contexts, secrets)
      PROVE  UNCHANGED <<bench, home, draft>>
  BY <1>8 DEF Verify
<1>9. CreateCloudResource => UNCHANGED <<bench, home, draft>>
  BY DEF CreateCloudResource
<1> QED BY <1>1, <1>2, <1>3, <1>4, <1>5, <1>6, <1>7, <1>8, <1>9 DEF AuthoringNext

-----------------------------------------------------------------------------
(* A count of zero is a pass of every check. *)
LEMMA NoneFailed ==
  ASSUME NEW h, NEW r, NEW plan, FailedCount(h, r, plan) = 0
  PROVE  ~FailsModulePolicy(h, r) /\ ~FailsReferences(h, r) /\ ~FailsSecurityPolicy(h)
<1> DEFINE failed == {check \in 1..6 :
      CASE check = 1 -> FailsSpec(r)
        [] check = 2 -> FailsInputs(r)
        [] check = 3 -> FailsModulePolicy(h, r)
        [] check = 4 -> FailsReferences(h, r)
        [] check = 5 -> FailsTerraformPlan(h, r, plan)
        [] check = 6 -> FailsSecurityPolicy(h)}
<1>1. Cardinality(failed) = 0
  BY DEF FailedCount
<1>2. IsFiniteSet(1..6)
  <2>1. 1 \in Int /\ 6 \in Int
    OBVIOUS
  <2> QED BY <2>1, FS_Interval, Zenon
<1>3. IsFiniteSet(failed)
  BY <1>2, FS_Subset
<1>4. failed = {}
  BY <1>1, <1>3, FS_EmptySet
<1>5. FailsModulePolicy(h, r) => 3 \in failed
  OBVIOUS
<1>6. FailsReferences(h, r) => 4 \in failed
  OBVIOUS
<1>7. FailsSecurityPolicy(h) => 6 \in failed
  OBVIOUS
<1> HIDE DEF failed
<1> QED BY <1>4, <1>5, <1>6, <1>7

(* What a verification that passed has looked at, and the cluster as it is. *)
LEMMA VerifiedHolds ==
  ASSUME NEW r, NEW h, h.policies = Overlay(Nothing, home.policies),
         h.contexts = Overlay(Nothing, ByName(home.contexts)),
         ~FailsModulePolicy(h, r), ~FailsReferences(h, r), ~FailsSecurityPolicy(h),
         Unselective(home.policies)
  PROVE  /\ ValidateModuleConstraints(home.policies, AsConfiguration(r))
         /\ \A p \in DOMAIN home.policies : bench.docker =>
              \A k \in home.policies[p].checkov : ~ScanFails(k)
         /\ \A x \in Of(r, "context") :
              /\ x.ref \in ContextNames(home.contexts)
              /\ x.key \in DOMAIN GetItem(home.contexts, x.ref).vars
<1>1. /\ DOMAIN h.policies = DOMAIN home.policies
      /\ \A p \in DOMAIN home.policies : h.policies[p] = home.policies[p]
  BY DEF Overlay, Nothing
<1>2. /\ DOMAIN h.contexts = ContextNames(home.contexts)
      /\ \A n \in ContextNames(home.contexts) : h.contexts[n] = GetItem(home.contexts, n).vars
  BY DEF Overlay, Nothing, ByName
<1>3. \A x \in Of(r, "context") :
        /\ x.ref \in ContextNames(home.contexts)
        /\ x.key \in DOMAIN GetItem(home.contexts, x.ref).vars
  BY <1>2 DEF FailsReferences
<1>4. \A p \in DOMAIN home.policies : bench.docker =>
        \A k \in home.policies[p].checkov : ~ScanFails(k)
  BY <1>1 DEF FailsSecurityPolicy
<1>5. UNION {h.policies[p].modules : p \in DOMAIN h.policies}
        = UNION {home.policies[p].modules : p \in DOMAIN home.policies}
  BY <1>1
<1>6. AsConfiguration(r).module = r.module
  BY DEF AsConfiguration
<1>7. ASSUME NEW m \in UNION {home.policies[p].modules : p \in DOMAIN home.policies}
      PROVE  m \in ModuleConstraints(home.policies, AsConfiguration(r))
  <2>1. m.ns = {} /\ m.res = {}
    BY <1>7 DEF Unselective
  <2> QED BY <2>1 DEF ModuleConstraints, IsSelectorMatch
<1>8. ModuleConstraints(home.policies, AsConfiguration(r))
        \subseteq UNION {home.policies[p].modules : p \in DOMAIN home.policies}
  BY DEF ModuleConstraints
<1>9. ValidateModuleConstraints(home.policies, AsConfiguration(r))
  BY <1>5, <1>6, <1>7, <1>8 DEF FailsModulePolicy, ValidateModuleConstraints
<1> QED BY <1>3, <1>4, <1>9

LEMMA VerdictGiven ==
  ASSUME NEW useCluster \in BOOLEAN, NEW useFiles \in BOOLEAN, NEW plan, NEW contexts, NEW secrets,
         Verify(useCluster, useFiles, plan, contexts, secrets)
  PROVE  VerdictHolds'
<1> DEFINE h == SourceFromCluster(SourceFiles(useFiles), useCluster)
<1>1. PICK r \in draft :
        /\ report'.of = "verify" /\ report'.revision = r
        /\ report'.cluster = useCluster /\ report'.files = useFiles
        /\ report'.passed => FailedCount(h, r, plan) = 0
        /\ bench' = bench /\ home' = home
  BY DEF Verify
<1> SUFFICES ASSUME report'.passed, useCluster, ~useFiles, Unselective(home.policies)
             PROVE  LET p == FindMatchingPolicy(home.policies, AsConfiguration(r))
                    IN  /\ ValidateModuleConstraints(home.policies, AsConfiguration(r))
                        /\ bench.docker /\ p \in DOMAIN home.policies =>
                             \A k \in home.policies[p].checkov : ~ScanFails(k)
                        /\ \A x \in Of(r, "context") :
                             /\ x.ref \in ContextNames(home.contexts)
                             /\ x.key \in DOMAIN GetItem(home.contexts, x.ref).vars
  BY <1>1 DEF VerdictHolds, ScanFails
<1>2. /\ h.policies = Overlay(Nothing, home.policies)
      /\ h.contexts = Overlay(Nothing, ByName(home.contexts))
  BY DEF SourceFromCluster, SourceFiles, Merged
<1> HIDE DEF h
<1>3. ~FailsModulePolicy(h, r) /\ ~FailsReferences(h, r) /\ ~FailsSecurityPolicy(h)
  BY <1>1, NoneFailed
<1> QED BY <1>2, <1>3, VerifiedHolds

(* A verdict is kept by what leaves policies and contexts as they are. *)
LEMMA VerdictKept ==
  ASSUME VerdictHolds, report' = report, bench' = bench,
         home'.policies = home.policies, home'.contexts = home.contexts
  PROVE  VerdictHolds'
BY DEF VerdictHolds, ScanFails

LEMMA OtherReport ==
  ASSUME report'.of # "verify"
  PROVE  VerdictHolds'
BY DEF VerdictHolds

LEMMA VerdictStep ==
  ASSUME AuthoringInv, VerdictHolds, [AuthoringNext]_authoring
  PROVE  VerdictHolds'
<1>1. CASE UNCHANGED authoring
  BY <1>1, VerdictKept DEF authoring
<1>2. ASSUME NEW plan, NEW exposed, NEW useCluster, CreateRevision(plan, exposed, useCluster)
      PROVE  VerdictHolds'
  BY <1>2, OtherReport DEF CreateRevision, NoReport
<1>3. CASE \E r \in bench.files : WriteRevision(r)
  BY <1>3, OtherReport DEF WriteRevision, NoReport
<1>4. ASSUME NEW contexts, NEW secrets, NEW checkov, Convert(contexts, secrets, checkov)
      PROVE  VerdictHolds'
  BY <1>4, OtherReport DEF Convert
<1>5. CASE \E useCluster, useFiles, plan, contexts, secrets \in BOOLEAN :
             Verify(useCluster, useFiles, plan, contexts, secrets)
  BY <1>5, VerdictGiven
<1>6. CASE ApplyRevision
  <2>1. home'.policies = home.policies /\ home'.contexts = home.contexts
    BY <1>6 DEF ApplyRevision, AuthoringInv
  <2> QED BY <1>6, <2>1, VerdictKept DEF ApplyRevision
<1>7. CASE CreateCloudResource
  BY <1>7, OtherReport DEF CreateCloudResource
<1>8. CASE \E h \in bench.homes : ChangeHome(h)
  BY <1>8, OtherReport DEF ChangeHome, NoReport
<1> QED BY <1>1, <1>2, <1>3, <1>4, <1>5, <1>6, <1>7, <1>8 DEF AuthoringNext

(***************************************************************************)
(* A verification against the cluster that passed is right until the       *)
(* cluster changes (verify/revision.go against the webhooks and            *)
(* ensureValueFromSecret), for any module, revision, policies, contexts    *)
(* and sequence of commands.                                               *)
(***************************************************************************)
THEOREM VerdictsHold == AuthoringSpec => []VerdictHolds
<1>1. AuthoringInit => AuthoringInv /\ VerdictHolds
  BY BenchesAssumption
  DEF AuthoringInit, AuthoringInv, VerdictHolds, NoReport, BenchesAssumption
<1>2. AuthoringInv /\ VerdictHolds /\ [AuthoringNext]_authoring => AuthoringInv' /\ VerdictHolds'
  BY AuthoringInvKept, VerdictStep
<1> QED BY <1>1, <1>2, PTL DEF AuthoringSpec

-----------------------------------------------------------------------------
LEMMA OverlayFacts ==
  ASSUME NEW f, NEW g
  PROVE  /\ DOMAIN Overlay(f, g) = DOMAIN f \cup DOMAIN g
         /\ \A k \in DOMAIN f : Overlay(f, g)[k] = f[k]
         /\ \A k \in DOMAIN g \ DOMAIN f : Overlay(f, g)[k] = g[k]
BY DEF Overlay

(* The variables of the code and of the job, one by one. *)
LEMMA CodeLikeJob ==
  ASSUME NEW r, NEW from, \A k \in DOMAIN from : from[k] # <<"CHANGE_ME">>,
         \A k \in Defaulted(r) : <<r.inputs[k].default>> # <<"CHANGE_ME">>
  PROVE  SameVariables(Overlay(from, Overlay(InputDefaults(r), r.vars)),
                       Overlay(from, Overlay(NewCloudResourceFromRevision(r),
                                             Overlay(InputDefaults(r), r.vars))),
                       r.vars)
<1> DEFINE own == Overlay(InputDefaults(r), r.vars)
           values == NewCloudResourceFromRevision(r)
           code == Overlay(from, own)
           job == Overlay(from, Overlay(values, own))
           given == {k \in DOMAIN job : job[k] # <<"CHANGE_ME">>}
           open == {k \in DOMAIN r.inputs : Placeholder(r.inputs[k])}
<1>1. /\ DOMAIN own = Defaulted(r) \cup DOMAIN r.vars
      /\ \A k \in Defaulted(r) : own[k] = <<r.inputs[k].default>>
      /\ \A k \in DOMAIN r.vars \ Defaulted(r) : own[k] = r.vars[k]
  <2>1. /\ DOMAIN InputDefaults(r) = Defaulted(r)
        /\ \A k \in Defaulted(r) : InputDefaults(r)[k] = <<r.inputs[k].default>>
    BY DEF InputDefaults
  <2>2. /\ DOMAIN own = DOMAIN InputDefaults(r) \cup DOMAIN r.vars
        /\ \A k \in DOMAIN InputDefaults(r) : own[k] = InputDefaults(r)[k]
        /\ \A k \in DOMAIN r.vars \ DOMAIN InputDefaults(r) : own[k] = r.vars[k]
    BY OverlayFacts
  <2> HIDE DEF own
  <2> QED BY <2>1, <2>2
<1>2. /\ DOMAIN values = Defaulted(r) \cup open
      /\ \A k \in Defaulted(r) : values[k] = <<r.inputs[k].default>>
      /\ \A k \in open \ Defaulted(r) : values[k] = <<"CHANGE_ME">>
  BY DEF NewCloudResourceFromRevision
<1> HIDE DEF own, values, open
<1>3. /\ DOMAIN code = DOMAIN from \cup DOMAIN own
      /\ \A k \in DOMAIN from : code[k] = from[k]
      /\ \A k \in DOMAIN own \ DOMAIN from : code[k] = own[k]
  BY OverlayFacts
<1>4. /\ DOMAIN job = DOMAIN from \cup DOMAIN values \cup DOMAIN own
      /\ \A k \in DOMAIN from : job[k] = from[k]
      /\ \A k \in DOMAIN values \ DOMAIN from : job[k] = values[k]
      /\ \A k \in DOMAIN own \ (DOMAIN from \cup DOMAIN values) : job[k] = own[k]
  <2>1. /\ DOMAIN Overlay(values, own) = DOMAIN values \cup DOMAIN own
        /\ \A k \in DOMAIN values : Overlay(values, own)[k] = values[k]
        /\ \A k \in DOMAIN own \ DOMAIN values : Overlay(values, own)[k] = own[k]
    BY OverlayFacts
  <2>2. /\ DOMAIN job = DOMAIN from \cup DOMAIN Overlay(values, own)
        /\ \A k \in DOMAIN from : job[k] = from[k]
        /\ \A k \in DOMAIN Overlay(values, own) \ DOMAIN from : job[k] = Overlay(values, own)[k]
    BY OverlayFacts
  <2> HIDE DEF job
  <2> QED BY <2>1, <2>2
<1> HIDE DEF code, job
<1>5. given \subseteq DOMAIN code /\ DOMAIN code \subseteq DOMAIN job
  BY <1>1, <1>2, <1>3, <1>4
<1>6. ASSUME NEW k \in DOMAIN code
      PROVE  code[k] = IF k \in given THEN job[k] ELSE r.vars[k]
  <2>1. CASE k \in DOMAIN from
    BY <1>3, <1>4, <2>1
  <2>2. CASE k \in Defaulted(r) \ DOMAIN from
    BY <1>1, <1>2, <1>3, <1>4, <2>2
  <2>3. CASE k \in DOMAIN r.vars \ (Defaulted(r) \cup DOMAIN from)
    <3>1. code[k] = r.vars[k]
      BY <1>1, <1>3, <2>3
    <3>2. CASE k \in open
      BY <1>2, <1>4, <2>3, <3>1, <3>2
    <3>3. CASE k \notin open
      BY <1>1, <1>2, <1>4, <2>3, <3>1, <3>3
    <3> QED BY <3>2, <3>3
  <2> QED BY <1>1, <1>3, <2>1, <2>2, <2>3
<1>7. SameVariables(code, job, r.vars)
  BY <1>5, <1>6 DEF SameVariables
<1> QED BY <1>7 DEF own, values, code, job

(* The answers leave the shape of a revision. *)
LEMMA AnsweredRevision ==
  ASSUME NEW file, IsRevision(file)
  PROVE  IsRevision(RetrieveInputs(file))
<1> DEFINE r == RetrieveInputs(file)
<1>1. /\ {"inputs", "vars", "valueFrom"} \subseteq DOMAIN r
      /\ r.inputs = [k \in DOMAIN file.inputs |-> Answered(file.inputs[k])]
      /\ r.valueFrom = file.valueFrom
  BY DEF RetrieveInputs, IsRevision
<1> HIDE DEF r
<1>2. ASSUME NEW k \in DOMAIN file.inputs
      PROVE  /\ "default" \in DOMAIN Answered(file.inputs[k])
             /\ Answered(file.inputs[k]).default \in {"none", "value", "answer", "broken"}
  <2>1. /\ "default" \in DOMAIN file.inputs[k]
        /\ file.inputs[k].default \in {"none", "value", "answer", "broken"}
    BY DEF IsRevision
  <2> QED BY <2>1 DEF Answered
<1>3. IsRevision(r)
  BY <1>1, <1>2 DEF IsRevision
<1> QED BY <1>3 DEF r

LEMMA CodeGiven ==
  ASSUME AuthoringInv, NEW contexts \in BOOLEAN, NEW secrets \in BOOLEAN, NEW checkov \in BOOLEAN,
         Convert(contexts, secrets, checkov)
  PROVE  CodeAgrees'
<1> DEFINE with == [home |-> [home EXCEPT !.contexts = ByName(@)], provider |-> TRUE,
                    checkov |-> checkov, contexts |-> contexts, secrets |-> secrets]
<1>1. PICK file \in draft :
        report' = [of |-> "convert", with |-> with, out |-> Converted(file, with)]
  BY DEF Convert
<1> HIDE DEF with
<1> DEFINE r == RetrieveInputs(file)
<1>2. report'.out = Converted(file, with) /\ report'.with = with
  BY <1>1
<1>3. Converted(file, with).result = "code"
        => Converted(file, with).revision = r /\ Converted(file, with).vars = CodeVariables(r, with)
  BY DEF Converted
<1>4. IsRevision(r)
  BY AnsweredRevision DEF AuthoringInv
<1> HIDE DEF r
<1>5. ASSUME Of(r, "secret") = {}, with.contexts
      PROVE  Resolved(r, with) = From(r.valueFrom)
  <2>1. {x \in Of(r, "context") : with.contexts} \cup {x \in Of(r, "secret") : ~with.secrets}
          = r.valueFrom
    BY <1>4, <1>5 DEF Of, IsRevision
  <2> QED BY <2>1 DEF Resolved
<1>6. \A k \in DOMAIN From(r.valueFrom) : From(r.valueFrom)[k] # <<"CHANGE_ME">>
  BY DEF From, Source
<1>7. \A k \in Defaulted(r) : <<r.inputs[k].default>> # <<"CHANGE_ME">>
  BY <1>4 DEF Defaulted, IsRevision
<1>8. CodeVariables(r, with) = Overlay(Resolved(r, with), Overlay(InputDefaults(r), r.vars))
  BY DEF CodeVariables
<1> SUFFICES ASSUME report'.out.result = "code", report'.with.contexts, Of(r, "secret") = {}
             PROVE  SameVariables(report'.out.vars,
                                  JobVariables(r, NewCloudResourceFromRevision(r)), r.vars)
  BY <1>2, <1>3 DEF CodeAgrees
<1>9. report'.out.vars = Overlay(From(r.valueFrom), Overlay(InputDefaults(r), r.vars))
  BY <1>2, <1>3, <1>5, <1>8
<1> QED BY <1>6, <1>7, <1>9, CodeLikeJob DEF JobVariables

LEMMA CodeStep ==
  ASSUME AuthoringInv, CodeAgrees, [AuthoringNext]_authoring
  PROVE  CodeAgrees'
<1>1. CASE report' = report
  BY <1>1 DEF CodeAgrees
<1>2. CASE report'.of # "convert"
  BY <1>2 DEF CodeAgrees
<1>3. CASE UNCHANGED authoring
  BY <1>1, <1>3 DEF authoring
<1>4. ASSUME NEW plan, NEW exposed, NEW useCluster, CreateRevision(plan, exposed, useCluster)
      PROVE  CodeAgrees'
  BY <1>2, <1>4 DEF CreateRevision, NoReport
<1>5. CASE \E r \in bench.files : WriteRevision(r)
  BY <1>2, <1>5 DEF WriteRevision, NoReport
<1>6. CASE \E contexts, secrets, checkov \in BOOLEAN : Convert(contexts, secrets, checkov)
  BY <1>6, CodeGiven
<1>7. ASSUME NEW useCluster, NEW useFiles, NEW plan, NEW contexts, NEW secrets,
             Verify(useCluster, useFiles, plan, contexts, secrets)
      PROVE  CodeAgrees'
  BY <1>2, <1>7 DEF Verify
<1>8. CASE ApplyRevision
  BY <1>1, <1>8 DEF ApplyRevision
<1>9. CASE CreateCloudResource
  BY <1>2, <1>9 DEF CreateCloudResource
<1>10. CASE \E h \in bench.homes : ChangeHome(h)
  BY <1>2, <1>10 DEF ChangeHome, NoReport
<1> QED BY <1>3, <1>4, <1>5, <1>6, <1>7, <1>8, <1>9, <1>10 DEF AuthoringNext

(***************************************************************************)
(* The code a revision is converted to has the variables the cluster would *)
(* run terraform with (tnctl convert against ensureConfiguration and       *)
(* ensureJobConfigurationSecret), for any revision, answers and cluster.   *)
(***************************************************************************)
THEOREM CodeIsWhatRuns == AuthoringSpec => []CodeAgrees
<1>1. AuthoringInit => AuthoringInv /\ CodeAgrees
  BY BenchesAssumption
  DEF AuthoringInit, AuthoringInv, CodeAgrees, NoReport, BenchesAssumption
<1>2. AuthoringInv /\ CodeAgrees /\ [AuthoringNext]_authoring => AuthoringInv' /\ CodeAgrees'
  BY AuthoringInvKept, CodeStep
<1> QED BY <1>1, <1>2, PTL DEF AuthoringSpec
=============================================================================
