--------------------------- MODULE ProviderPreload ---------------------------
(***************************************************************************)
(* One Provider and the two controllers that reconcile it: the provider    *)
(* controller decides whether it is ready (pkg/controller/provider), the   *)
(* preload controller runs jobs that read the cloud account into a Context *)
(* (pkg/controller/preload, pkg/cmd/preload, pkg/utils/preload/eks).       *)
(*                                                                         *)
(* Both write the conditions of the same object with a merge patch, and a  *)
(* merge patch replaces the whole list: a run that changes its own         *)
(* condition writes back the other controller's as it was when the run     *)
(* read the object.  A run is therefore two steps here, the read and the   *)
(* patch.                                                                  *)
(*                                                                         *)
(* Variables:                                                              *)
(*   prov, provSeen    the Provider as stored and as cached                *)
(*   checking, loading what the runs under way have read, <<>> if none     *)
(*   checkQueued, loadQueued  the queues of the two controllers            *)
(*   secrets    the state of every secret                                  *)
(*   jobs, jobsSeen    the preload jobs as stored and as cached            *)
(*   cloud      the account the jobs read; loaded what was read last       *)
(*   ctx        the Context, <<>> while there is none                      *)
(*   faulty     failed status patches so far                               *)
(*   setting    what may happen in this behaviour                          *)
(***************************************************************************)
EXTENDS Naturals, Sequences, FiniteSets, SequencesExt, Functions

CONSTANTS
  ProviderSpecs,   \* input: the specs the user submits, one after the other
  SecretStates,    \* input: the states the secrets start in
  Clouds,          \* input: the states of the account
  SanitizeName,    \* lower case and '-' to '_': the key of every name
  MaxJobs,         \* bound: preload jobs
  Settings         \* what happens together in one behaviour

ASSUME SettingsAssumption ==
  /\ MaxJobs \in Nat
  /\ \A s \in Settings : s.faults \in Nat /\ s.lag \subseteq {"jobs", "provider"}

ASSUME CloudsAssumption ==
  /\ Clouds # <<>> /\ Clouds \in Seq(Range(Clouds))
  /\ \A c \in Range(Clouds) :
       /\ IsFiniteSet(DOMAIN c.kind) /\ IsFiniteSet(DOMAIN c.tables)
       /\ IsFiniteSet(DOMAIN c.groups) /\ DOMAIN c.names = DOMAIN c.tables
       /\ IsFiniteSet(Range(c.network)) /\ IsFiniteSet(c.eks) /\ IsFiniteSet(c.tags)
       /\ IsFiniteSet(c.attached) /\ IsFiniteSet(c.cidrs)
       /\ Range(c.names) \cup Range(c.groups) \cup Range(c.network)
            \subseteq DOMAIN SanitizeName \cup {""}

VARIABLES prov, provSeen, checking, loading, checkQueued, loadQueued, secrets,
          jobs, jobsSeen, cloud, loaded, ctx, faulty, setting

objects == <<prov, provSeen>>
queues == <<checkQueued, loadQueued>>
jobState == <<jobs, jobsSeen>>
account == <<cloud, loaded, ctx>>

providers == <<objects, checking, loading, queues, secrets, jobState, account,
               faulty, setting>>

(***************************************************************************)
(* A spec is [type, ref, skip, preload]: the cloud, the secret (none if    *)
(* the credentials are injected), the annotation that skips the checks,    *)
(* and whether preloading is enabled.  The conditions are a list of two,   *)
(* empty until the provider controller has registered them; recent says    *)
(* that the last preload is not an interval ago.                           *)
(***************************************************************************)
Unregistered == <<>>

NotDetermined == [reason |-> "NotDetermined", gen |-> 0]

Registered(o) ==
  IF o.conds = Unregistered
  THEN [o EXCEPT !.conds = [ready |-> NotDetermined, preload |-> NotDetermined]]
  ELSE o

ProviderInit ==
  /\ setting \in Settings
  /\ prov = [gen |-> 1, conds |-> Unregistered, recent |-> FALSE] /\ provSeen = prov
  /\ checking = <<>> /\ loading = <<>> /\ checkQueued = TRUE /\ loadQueued = TRUE
  /\ secrets = SecretStates
  /\ jobs = <<>> /\ jobsSeen = <<>>
  /\ cloud = Clouds[1] /\ loaded = <<>> /\ ctx = <<>>
  /\ faulty = 0

SpecOf(o) == ProviderSpecs[o.gen]

StoreProvider(o) ==
  /\ prov' = o
  /\ provSeen' = IF "provider" \in setting.lag THEN provSeen ELSE o

StoreJobs(js) ==
  /\ jobs' = js
  /\ jobsSeen' = IF "jobs" \in setting.lag THEN jobsSeen ELSE js

(* The status patch: the list of conditions as a whole, if it differs.     *)
StatusOf(read, o) ==
  [prov EXCEPT !.conds = IF o.conds # read.conds THEN o.conds ELSE @,
               !.recent = @ \/ (o.recent /\ ~read.recent)]

Condition(o, type, reason) ==
  IF o.conds = Unregistered THEN o
  ELSE [o EXCEPT !.conds[type] = [reason |-> reason, gen |-> o.gen]]

-----------------------------------------------------------------------------
(***************************************************************************)
(* The provider controller: woken by a new generation only.                *)
(***************************************************************************)
ReadForCheck ==
  /\ checkQueued /\ checking = <<>>
  /\ setting.overlap \/ loading = <<>>
  /\ checking' = <<Registered(provSeen)>> /\ checkQueued' = FALSE
  /\ UNCHANGED <<objects, loading, loadQueued, secrets, jobState, account, faulty,
                 setting>>

Checked(type) == type \in {"aws", "google", "azurerm", "azurestack"}

(* ensureProviderSecret: a secret that must be there and have its keys. *)
SecretFits(spec) ==
  \/ spec.ref = ""
  \/ secrets[spec.ref] = "complete"
  \/ secrets[spec.ref] = "partial" /\ (spec.skip \/ ~Checked(spec.type))

(* Faulty: a secret that is missing is not looked for again. *)
CheckWithoutRequeue ==
  /\ checking # <<>>
  /\ LET read == Head(checking)
         fits == SecretFits(SpecOf(read))
     IN  StoreProvider(StatusOf(read,
           Condition(read, "ready", IF fits THEN "Ready" ELSE "ActionRequired")))
  /\ checking' = <<>>
  /\ UNCHANGED <<loading, queues, secrets, jobState, account, faulty, setting>>

(* EnsureRunner.Run.  A secret that does not fit is looked at again after  *)
(* five minutes; a status patch that fails repeats the run.                *)
CheckProvider ==
  /\ checking # <<>>
  /\ LET read == Head(checking)
         fits == SecretFits(SpecOf(read))
     IN  \/ /\ StoreProvider(StatusOf(read,
                 Condition(read, "ready", IF fits THEN "Ready" ELSE "ActionRequired")))
            /\ checkQueued' = (checkQueued \/ ~fits)
            /\ UNCHANGED faulty
         \/ /\ faulty < setting.faults /\ faulty' = faulty + 1
            /\ checkQueued' = TRUE
            /\ UNCHANGED objects
  /\ checking' = <<>>
  /\ UNCHANGED <<loading, loadQueued, secrets, jobState, account, setting>>

-----------------------------------------------------------------------------
(***************************************************************************)
(* The preload controller: woken by a new generation and a new or removed  *)
(* job; a job that ends does not wake it.                                  *)
(***************************************************************************)
ReadForPreload ==
  /\ loadQueued /\ loading = <<>>
  /\ setting.overlap \/ checking = <<>>
  /\ loading' = <<provSeen>> /\ loadQueued' = FALSE
  /\ UNCHANGED <<objects, checking, checkQueued, secrets, jobState, account, faulty,
                 setting>>

IsActive(j) == j = "active"

LatestJob(js) == IF js = <<>> THEN "none" ELSE Last(js)

(* The end of a run: the status patch, and whether it comes back. *)
EndPreload(o, requeue) ==
  /\ loading' = <<>>
  /\ \/ /\ StoreProvider(StatusOf(Head(loading), o)) /\ UNCHANGED faulty
        /\ loadQueued' = (loadQueued \/ requeue)
     \/ /\ faulty < setting.faults /\ faulty' = faulty + 1
        /\ loadQueued' = TRUE /\ UNCHANGED objects
  /\ UNCHANGED <<checking, checkQueued, secrets, account, setting>>

Enabled(o) == SpecOf(o).preload /\ SpecOf(o).type = "aws"

IsReady(o) == o.conds # Unregistered /\ o.conds.ready.reason = "Ready"

(* ensurePreloadEnabled; ErrIgnore ends the run for good. *)
PreloadDisabled ==
  /\ loading # <<>>
  /\ LET o == Head(loading)
     IN  /\ ~Enabled(o)
         /\ EndPreload(Condition(o, "preload",
              IF SpecOf(o).preload THEN "Warning" ELSE "Disabled"), FALSE)
  /\ UNCHANGED jobState

(* ensureReady: nothing is written before the conditions are registered. *)
AwaitReady ==
  /\ loading # <<>>
  /\ LET o == Head(loading)
     IN  Enabled(o) /\ ~IsReady(o) /\ EndPreload(Condition(o, "preload", "Waiting"), TRUE)
  /\ UNCHANGED jobState

(* ensurePreloadNotRunning *)
AwaitJob ==
  /\ loading # <<>>
  /\ LET o == Head(loading)
     IN  /\ Enabled(o) /\ IsReady(o) /\ IsActive(LatestJob(jobsSeen))
         /\ EndPreload(Condition(o, "preload", "Loading"), TRUE)
  /\ UNCHANGED jobState

(* ensurePreloadStatus: what the latest job came to. *)
PreloadStatus(o) ==
  CASE LatestJob(jobsSeen) = "failed"                  -> Condition(o, "preload", "Failed")
    [] LatestJob(jobsSeen) = "complete" /\ ctx = <<>>  -> Condition(o, "preload", "Failed")
    [] LatestJob(jobsSeen) = "complete" /\ ctx # <<>>  -> Condition(o, "preload", "Success")
    [] OTHER                                           -> o

(* ensurePreload, not an interval after the last one, or at the bound. *)
PreloadRecent ==
  /\ loading # <<>>
  /\ LET o == Head(loading)
     IN  /\ Enabled(o) /\ IsReady(o) /\ ~IsActive(LatestJob(jobsSeen))
         /\ o.recent \/ Len(jobs) = MaxJobs
         /\ EndPreload(PreloadStatus(o), TRUE)
  /\ UNCHANGED jobState

(* Faulty: the time of the preload is not recorded. *)
Untimed(o) == o

Timed(o) == [o EXCEPT !.recent = TRUE]

(* ensurePreload: the job is created before the status says so, and the    *)
(* run ends with the overall success of EnsureRunner.Run.                  *)
StartPreload ==
  /\ loading # <<>> /\ Len(jobs) < MaxJobs
  /\ LET o == Head(loading)
     IN  /\ Enabled(o) /\ IsReady(o) /\ ~IsActive(LatestJob(jobsSeen)) /\ ~o.recent
         /\ StoreJobs(Append(jobs, "active"))
         /\ EndPreload(Timed(Condition(Condition(o, "preload", "Loading"), "ready", "Ready")),
                       "jobs" \notin setting.lag)

(* A failed call of the API server ends the run. *)
PreloadFails ==
  /\ loading # <<>> /\ faulty < setting.faults
  /\ Enabled(Head(loading)) /\ IsReady(Head(loading))
  /\ faulty' = faulty + 1
  /\ StoreProvider(StatusOf(Head(loading), Condition(Head(loading), "preload", "Failed")))
  /\ loading' = <<>> /\ loadQueued' = TRUE
  /\ UNCHANGED <<checking, checkQueued, secrets, jobState, account, setting>>

PreloadRun ==
  \/ PreloadDisabled \/ AwaitReady \/ AwaitJob \/ PreloadRecent \/ StartPreload
  \/ PreloadFails

-----------------------------------------------------------------------------
(***************************************************************************)
(* The job: eksPreloader.Load and makeContext.  An account is [status,     *)
(* kind : subnet -> tags, network : subnet -> name, tables : table ->      *)
(* subnets, names : table -> name, groups : group -> name, eks : subnets,  *)
(* attached : groups, cidrs and tags of the cluster, has : what else there *)
(* is of it].  AWS lists what it has in any order; the networks and the    *)
(* tags are put in one by ranging over a map, a new one at every load.     *)
(***************************************************************************)
Listings(S) == {s \in [1..Cardinality(S) -> S] : IsInjective(s)}

Sorted(S) == SetToSortSeq(S, <)

(* Faulty: the lists are left in the order AWS returned them. *)
AsListed(ids, kept) == SelectSeq(ids, LAMBDA id : id \in kept)

(* Unique(Sorted(...)) of the ids listed that are kept. *)
SortedUnique(ids, kept) == Sorted(Range(ids) \cap kept)

Queryable(c) == c.status \in {"ACTIVE", "UPDATING"}

Subnets(c) == DOMAIN c.kind

(* The private tag is looked at first. *)
IsPrivate(c, s) == c.kind[s] \in {"private", "both"}

IsPublic(c, s) == c.kind[s] = "public"

(* The tables associated with one of the subnets. *)
TablesOf(c, subnets) == {t \in DOMAIN c.tables : c.tables[t] \cap subnets # {}}

Networks(c) == Range(c.network) \ {""}

SubnetsIn(c, n) == {s \in Subnets(c) : c.network[s] = n}

Fixed(c, subnets, tables) ==
  LET private == {s \in Subnets(c) : IsPrivate(c, s)}
      public == {s \in Subnets(c) : IsPublic(c, s)}
  IN  [private_subnet_ids       |-> SortedUnique(subnets, private),
       public_subnet_ids        |-> SortedUnique(subnets, public),
       subnet_ids               |-> SortedUnique(subnets, Subnets(c)),
       route_tables_ids         |-> SortedUnique(tables, DOMAIN c.tables),
       private_route_tables_ids |-> SortedUnique(tables, TablesOf(c, private)),
       public_route_tables_ids  |-> SortedUnique(tables, TablesOf(c, public)),
       eks_route_tables_ids     |-> SortedUnique(tables, TablesOf(c, c.eks))]

(* Of the things with a name, by the key of their name; of two with one    *)
(* key the last one listed.                                                *)
Keyed(names, k) == {x \in DOMAIN names : names[x] # "" /\ SanitizeName[names[x]] = k}

KeysOf(names) == {SanitizeName[n] : n \in Range(names) \ {""}}

LastOf(listed, S) ==
  listed[CHOOSE i \in DOMAIN listed :
           listed[i] \in S /\ \A j \in DOMAIN listed : listed[j] \in S => j <= i]

LastNamed(names, listed) == [k \in KeysOf(names) |-> LastOf(listed, Keyed(names, k))]

FindRouteTables(c, tables) == LastNamed(c.names, tables)

FindSecurityGroups(c, groups) == LastNamed(c.groups, groups)

(* findSubnets: a network is its own name, and one without a route table   *)
(* has no key for tables.                                                  *)
Itself(S) == [x \in S |-> x]

Routed(c) == {n \in Networks(c) : TablesOf(c, SubnetsIn(c, n)) # {}}

NetworkSubnets(c, subnets, networks) ==
  LET last == LastNamed(Itself(Networks(c)), networks)
  IN  [k \in DOMAIN last |-> SortedUnique(subnets, SubnetsIn(c, last[k]))]

NetworkTables(c, tables, routed) ==
  LET last == LastNamed(Itself(Routed(c)), routed)
  IN  [k \in DOMAIN last |-> SortedUnique(tables, TablesOf(c, SubnetsIn(c, last[k])))]

(* findAccount, findCluster: what the account and the cluster are known    *)
(* by; its certificate authority and its issuer may be missing.            *)
FindCluster(c) ==
  [k \in {"account_id", "region", "vpc_id", "eks"} \cup c.has |-> "set"]

(* findCluster, ToMapTags: four lists that are not sorted. *)
ClusterLists(c) ==
  [eks_subnet_ids          : Listings(c.eks),
   eks_security_group_ids  : Listings(c.attached),
   eks_public_access_cidrs : Listings(c.cidrs),
   eks_tags                : Listings(c.tags)]

(* The orders in which the parts of an account come. *)
Orderings(c) ==
  [subnets : Listings(Subnets(c)), tables : Listings(DOMAIN c.tables),
   groups : Listings(DOMAIN c.groups), networks : Listings(Networks(c)),
   routed : Listings(Routed(c)), lists : ClusterLists(c)]

Load(c, o) ==
  [cluster |-> FindCluster(c), lists |-> o.lists, fixed |-> Fixed(c, o.subnets, o.tables),
   subnets |-> NetworkSubnets(c, o.subnets, o.networks),
   tables |-> NetworkTables(c, o.tables, o.routed),
   named |-> FindRouteTables(c, o.tables), groups |-> FindSecurityGroups(c, o.groups)]

(* What a load may find in which account. *)
Loads ==
  UNION {{[of |-> c, found |-> Load(c, o)] : o \in Orderings(c)} : c \in Range(Clouds)}

(* The keys of one map set in another. *)
SetIn(old, new) ==
  [x \in DOMAIN new \cup DOMAIN old |-> IF x \in DOMAIN new THEN new[x] ELSE old[x]]

(* makeContext: what is found is set, and nothing is ever removed. *)
MakeContext(data) ==
  IF ctx = <<>> THEN data
  ELSE [k \in DOMAIN data |-> SetIn(ctx[k], data[k])]

JobLoads(i) ==
  /\ IsActive(jobs[i]) /\ Queryable(cloud)
  /\ StoreJobs([jobs EXCEPT ![i] = "complete"])
  /\ loaded' = cloud
  /\ UNCHANGED <<objects, checking, loading, queues, secrets, cloud, faulty, setting>>
  /\ \E load \in Loads : load.of = cloud /\ ctx' = MakeContext(load.found)

(* Credentials, the cluster or the API server are not there. *)
JobFails(i) ==
  /\ IsActive(jobs[i])
  /\ ~Queryable(cloud) \/ setting.faults > 0
  /\ StoreJobs([jobs EXCEPT ![i] = "failed"])
  /\ UNCHANGED <<objects, checking, loading, queues, secrets, account, faulty, setting>>

JobEnds(i) == JobLoads(i) \/ JobFails(i)

-----------------------------------------------------------------------------
(***************************************************************************)
(* The user, the account, time and the informers.                          *)
(***************************************************************************)
EditProvider ==
  /\ prov.gen < Len(ProviderSpecs) /\ prov.gen <= setting.edits
  /\ StoreProvider([prov EXCEPT !.gen = @ + 1])
  /\ checkQueued' = (checkQueued \/ "provider" \notin setting.lag)
  /\ loadQueued' = (loadQueued \/ "provider" \notin setting.lag)
  /\ UNCHANGED <<checking, loading, secrets, jobState, account, faulty, setting>>

(* Secrets are not watched. *)
FixSecret(s) ==
  /\ secrets[s] # "complete" /\ s \in setting.fixes
  /\ secrets' = [secrets EXCEPT ![s] = "complete"]
  /\ UNCHANGED <<objects, checking, loading, queues, jobState, account, faulty, setting>>

CloudChanges ==
  /\ setting.clouds
  /\ \E c \in Range(Clouds) \ {cloud} : cloud' = c
  /\ UNCHANGED <<objects, checking, loading, queues, secrets, jobState, loaded, ctx,
                 faulty, setting>>

(* An interval is minutes: the cache has the jobs by then. *)
IntervalPasses ==
  /\ prov.recent /\ Len(jobs) < MaxJobs /\ Len(jobsSeen) = Len(jobs)
  /\ prov' = [prov EXCEPT !.recent = FALSE]
  /\ provSeen' = [provSeen EXCEPT !.recent = FALSE]
  /\ UNCHANGED <<checking, loading, queues, secrets, jobState, account, faulty, setting>>

SyncProvider ==
  /\ provSeen # prov
  /\ provSeen' = prov
  /\ checkQueued' = (checkQueued \/ prov.gen # provSeen.gen)
  /\ loadQueued' = (loadQueued \/ prov.gen # provSeen.gen)
  /\ UNCHANGED <<prov, checking, loading, secrets, jobState, account, faulty, setting>>

SyncJobs ==
  /\ jobsSeen # jobs
  /\ jobsSeen' = jobs
  /\ loadQueued' = (loadQueued \/ Len(jobs) # Len(jobsSeen))
  /\ UNCHANGED <<objects, checking, loading, checkQueued, secrets, jobs, account,
                 faulty, setting>>

ProviderRun == ReadForCheck \/ CheckProvider

ProviderNext ==
  \/ ProviderRun \/ ReadForPreload \/ PreloadRun
  \/ \E i \in DOMAIN jobs : JobEnds(i)
  \/ EditProvider \/ (\E s \in DOMAIN secrets : FixSecret(s))
  \/ CloudChanges \/ IntervalPasses \/ SyncProvider \/ SyncJobs

-----------------------------------------------------------------------------
(***************************************************************************)
(* A Provider whose secret fits comes to be ready and stays so, when its   *)
(* secret is put right as well as when the spec that names it is           *)
(* (ensureProviderSecret).                                                 *)
(***************************************************************************)
ReadyRestored == <>[](SecretFits(SpecOf(prov)) => IsReady(prov))

(***************************************************************************)
(* ReadyRestored holds as long as no run of one controller reads the       *)
(* Provider before, and patches it after, a patch of the other one (the    *)
(* conditions both controllers write).                                     *)
(***************************************************************************)
ProviderSettles ==
  ~setting.overlap /\ "provider" \notin setting.lag => ReadyRestored

(***************************************************************************)
(* Two preload jobs never run at the same time: a run that does not see    *)
(* the job of the run before sees its time stamp, unless the status could  *)
(* not be written or both caches lag (ensurePreloadNotRunning,             *)
(* ensurePreload).                                                         *)
(***************************************************************************)
PreloadOnce ==
  ~("jobs" \in setting.lag /\ (faulty > 0 \/ "provider" \in setting.lag))
    => Cardinality({i \in DOMAIN jobs : IsActive(jobs[i])}) <= 1

(***************************************************************************)
(* A preload of an account that has not changed leaves the Context as it   *)
(* is, whatever order subnets, tables, groups and networks come in (Load:  *)
(* the lists are unique and sorted), so that nothing that uses the Context *)
(* changes.  Four lists of the cluster are not sorted (ClusterLists): they *)
(* keep what is in them, in another order.  Two route tables, security     *)
(* groups or networks whose names have one key are the exception: the last *)
(* one listed wins.                                                        *)
(***************************************************************************)
Distinct(names) == \A k \in KeysOf(names) : \A t, u \in Keyed(names, k) : t = u

NamesDistinct(c) ==
  Distinct(c.names) /\ Distinct(c.groups) /\ Distinct(Itself(Networks(c)))

SameContext(old, new) ==
  /\ DOMAIN new = DOMAIN old
  /\ \A k \in DOMAIN old \ {"lists"} : new[k] = old[k]
  /\ DOMAIN new["lists"] = DOMAIN old["lists"]
  /\ \A l \in DOMAIN old["lists"] : Range(new["lists"][l]) = Range(old["lists"][l])

ContextStable ==
  [][ctx # <<>> /\ loaded = cloud /\ loaded' = cloud /\ NamesDistinct(cloud)
       => SameContext(ctx, ctx')]_providers
=============================================================================
