------------------------------ MODULE MCPlatform ------------------------------
(***************************************************************************)
(* The components around the controllers of Configurations and             *)
(* CloudResources, for TLC: admission, the provider and its preload, the   *)
(* drift worker, the server's start, and tnctl.  They do not interact with *)
(* each other, so a behaviour is one of them at work and the others still, *)
(* in a state their own properties say nothing about.                      *)
(***************************************************************************)
EXTENDS Authoring, ProviderPreload, Drift, Server

VARIABLE part   \* the component at work

all == <<part, admission, authoring, providers, drift, server>>

-----------------------------------------------------------------------------
(* Admission. *)
MCNamespaceOf == "db" :> "apps"
MCNamespaceLabels == "apps" :> {"prod"}

Request == [wellFormed |-> TRUE, provider |-> {}, module |-> "rds", labels |-> {},
            plan |-> FALSE, version |-> "", context |-> {}, vars |-> "size" :> "small"]

Versioned == [Request EXCEPT !.version = "1.5", !.context = {"vpc"}]
Planned == [Request EXCEPT !.module = "s3", !.provider = {"aws"}, !.plan = TRUE,
                           !.vars = Nothing]
Malformed == [Request EXCEPT !.wellFormed = FALSE]

Entry == [ns |-> {}, modules |-> {}, bad |-> FALSE, secrets |-> FALSE, vars |-> Nothing]
Rule == [ns |-> {}, res |-> {}, allowed |-> {}, bad |-> FALSE]
Scan == [ns |-> {}, res |-> {}, checks |-> {}, skips |-> {}, source |-> {}, external |-> {}]
PolicyOf(name, ds, ms, ks) ==
  [name |-> name, spec |-> [defaults |-> ds, modules |-> ms, checkov |-> ks, skipCheck |-> FALSE]]
Skipped(p) == [p EXCEPT !.spec.skipCheck = TRUE]

Aws == [source |-> "secret", ref |-> "jobNamespace", account |-> FALSE,
        default |-> FALSE, select |-> {}, preload |-> {}]

Quiet == [requests |-> {Versioned, Planned}, policies |-> {},
          providers |-> {[name |-> "aws", spec |-> [Aws EXCEPT !.default = TRUE]]},
          contexts |-> {}, leaving |-> {}, lag |-> {}, protected |-> FALSE,
          restart |-> FALSE]

(* Defaults that overlap, that match by module, by namespace, by nothing. *)
Injectors ==
  {PolicyOf("large", <<[Entry EXCEPT !.modules = {{"rds"}}, !.vars = "size" :> "large"]>>, {}, {}),
   Skipped(PolicyOf("tags", <<[Entry EXCEPT !.vars = "tags" :> "team"],
                      [Entry EXCEPT !.ns = {{"prod"}}, !.modules = {{"s3"}}, !.vars = "size" :> "huge"],
                      [Entry EXCEPT !.secrets = TRUE]>>, {}, {})),
   PolicyOf("empty", <<Entry>>, {}, {})}

(* Defaults whose regex does not compile. *)
Broken == PolicyOf("broken", <<[Entry EXCEPT !.modules = {{}}, !.bad = TRUE, !.vars = "size" :> "large"]>>, {}, {})

Scanned ==
  {PolicyOf("all", <<>>, {}, {[Scan EXCEPT !.checks = {"enc"}]}),
   PolicyOf("prod", <<>>, {}, {[Scan EXCEPT !.ns = {{"prod"}}]}),
   PolicyOf("plans", <<>>, {}, {[Scan EXCEPT !.res = {{"plan"}}, !.external = {"complete"}]}),
   PolicyOf("both", <<>>, {}, {[Scan EXCEPT !.ns = {{}}, !.res = {{"plan"}}]}),
   PolicyOf("wrong", <<>>, {}, {[Scan EXCEPT !.checks = {"enc"}, !.skips = {"enc"}]}),
   PolicyOf("source", <<>>, {}, {[Scan EXCEPT !.source = {"partial"}]})}

Allowing ==
  {PolicyOf("rds", <<>>, {[Rule EXCEPT !.allowed = {"rds"}]}, {}),
   PolicyOf("s3", <<>>, {[Rule EXCEPT !.allowed = {"s3"}, !.res = {{"plan"}}]}, {}),
   PolicyOf("bad", <<>>, {[Rule EXCEPT !.bad = TRUE]}, {})}

Selective == [name |-> "aws", spec |-> [Aws EXCEPT !.select = {[ns |-> {{"prod"}}, res |-> {{"plan"}}]}]]
Others == {[name |-> "gcp", spec |-> [Aws EXCEPT !.source = "injected", !.account = TRUE, !.default = TRUE]],
           [name |-> "aws", spec |-> [Aws EXCEPT !.preload = {"partial"}]]}
Vpcs == {[name |-> "vpc", described |-> TRUE, orphan |-> FALSE]}

MCScenes ==
  {[Quiet EXCEPT !.policies = Injectors, !.restart = TRUE],
   [Quiet EXCEPT !.policies = Scanned, !.requests = {Planned}],
   [Quiet EXCEPT !.policies = {Broken}, !.requests = {Versioned}],
   [Quiet EXCEPT !.policies = Allowing, !.requests = @ \cup {Malformed}, !.providers = {Selective} \cup Others],
   [Quiet EXCEPT !.requests = {Versioned}, !.contexts = Vpcs, !.protected = TRUE, !.leaving = {"apps"}],
   [Quiet EXCEPT !.requests = {Versioned}, !.leaving = {"apps"}, !.lag = {"configs", "namespaces"}],
   [Quiet EXCEPT !.policies = Injectors, !.requests = {Versioned}, !.lag = {"policies"}]}

-----------------------------------------------------------------------------
(* tnctl. *)
PolicyWith(ms, ks) == [defaults |-> <<>>, modules |-> ms, checkov |-> ks, skipCheck |-> FALSE]

Free == [policies |-> Nothing, providers |-> {"aws"}, secrets |-> "keys" :> {"size"}, plans |-> "mysql" :> 3,
  applied |-> {}, contexts |-> <<[name |-> "net", vars |-> "vpc" :> {"network", "id"}],
                 [name |-> "tags", vars |-> "team" :> {"network", "of", "team"} @@ "none" :> {}]>>]
Guarded == [Free EXCEPT !.policies =
  "modules" :> PolicyWith({[Rule EXCEPT !.allowed = {"rds"}]}, {[Scan EXCEPT !.checks = {"enc"}]})
  @@ "more" :> PolicyWith({[Rule EXCEPT !.allowed = {"s3"}]}, {[Scan EXCEPT !.skips = {"log"}]}),
  !.contexts = <<[name |-> "net", vars |-> "subnet" :> {"subnet"}]>>]
Strict == [Guarded EXCEPT !.policies = Restrict(@, {"more"}), !.providers = {}]
Var(d, t, w) == [default |-> d, type |-> t, about |-> w]
Vars1 == "net" :> Var("none", "string", {"id", "of", "the", "network"})
   @@ "size" :> Var("value", "number", {"size"}) @@ "debug" :> Var("falsy", "bool", {"verbose"})
Vars2 == "name" :> Var("none", "string", {"name"}) @@ "on" :> Var("none", "bool", {"enabled"})
   @@ "rules" :> Var("empty", "complex", {"rules"})
Input == [required |-> "true", default |-> "value", type |-> "none", described |-> TRUE]
Ref == [kind |-> "context", ref |-> "net", key |-> "vpc", name |-> "vpc"]
Hand == [plan |-> "mysql", version |-> 1, described |-> TRUE, module |-> "rds", provider |-> {"aws"},
  inputs |-> "size" :> Input, vars |-> "size" :> <<"module">> @@ "vpc" :> <<"module">>, valueFrom |-> {Ref}]
Desk == [module |-> "rds", variables |-> Vars1, breaks |-> {}, homes |-> {Free, Guarded}, files |-> {},
  sources |-> [policies |-> Nothing, providers |-> {}, contexts |-> <<>>], docker |-> TRUE, credentials |-> FALSE]
MCBenches == {Desk,
  [Desk EXCEPT !.variables = Vars2, !.homes = {Guarded}, !.breaks = {"log"}, !.credentials = TRUE],
  [Desk EXCEPT !.variables = Nothing, !.breaks = {"enc"}, !.homes = {Free, Guarded, Strict}, !.docker = FALSE,
    !.sources = [Strict EXCEPT !.providers = {"aws"}],
    !.files = {Hand, [Hand EXCEPT !.plan = "", !.module = "s3", !.valueFrom = {[Ref EXCEPT !.name = ""]}],
      [Hand EXCEPT !.valueFrom = {[kind |-> "secret", ref |-> "keys", key |-> "k", name |-> "size"], [Ref EXCEPT !.name = "net"]}],
      [Hand EXCEPT !.module = "", !.inputs = Nothing, !.valueFrom = {[Ref EXCEPT !.key = "gone"]}]}]}

-----------------------------------------------------------------------------
(* The provider and its preload. *)
Account == [type |-> "aws", ref |-> "wrong", skip |-> FALSE, preload |-> TRUE]
MCProviderSpecs == <<Account, [Account EXCEPT !.ref = "right"], [Account EXCEPT !.ref = ""],
  [Account EXCEPT !.preload = FALSE, !.ref = ""],
  [Account EXCEPT !.type = "google", !.ref = "wrong", !.skip = TRUE]>>
MCSecretStates == "wrong" :> "partial" @@ "right" :> "complete"
Vpc == [status |-> "ACTIVE", kind |-> 1 :> "both" @@ 2 :> "public", network |-> 1 :> "a" @@ 2 :> "a",
        tables |-> 7 :> {1} @@ 8 :> {1, 2}, names |-> 7 :> "main" @@ 8 :> "", eks |-> {2},
        groups |-> 5 :> "web" @@ 6 :> "", attached |-> {5}, cidrs |-> {"all"},
        tags |-> {"team", "stage"}, has |-> {"oidc_issuer"}]
MCClouds == <<Vpc, [Vpc EXCEPT !.network = 1 :> "A" @@ 2 :> "a", !.kind[1] = "private", !.names[8] = "Main",
                               !.groups[6] = "web", !.tags = {}, !.has = {}], [Vpc EXCEPT !.status = "CREATING"]>>
MCSanitizeName == "a" :> "a" @@ "A" :> "a" @@ "main" :> "main" @@ "Main" :> "main" @@ "web" :> "web"
Plain == [overlap |-> FALSE, faults |-> 0, lag |-> {}, edits |-> 0, fixes |-> {}, clouds |-> FALSE]
MCSettings == {
  [Plain EXCEPT !.edits = 4, !.fixes = {"wrong"}],
  [Plain EXCEPT !.edits = 1, !.clouds = TRUE, !.faults = 1],
  [Plain EXCEPT !.edits = 2, !.lag = {"jobs"}, !.overlap = TRUE],
  [Plain EXCEPT !.edits = 2, !.lag = {"provider"}, !.overlap = TRUE]}
-----------------------------------------------------------------------------
(* The drift worker. *)
Calm == [fleet |-> {"a", "b"}, prompt |-> TRUE, lag |-> FALSE, faults |-> 0, events |-> {"done"}]
MCManners == {[Calm EXCEPT !.fleet = Fleet, !.events = {"done", "delete"}],
              [Calm EXCEPT !.events = {"done", "applying", "approval", "toggle"}],
              [Calm EXCEPT !.events = {"done", "failed", "edit"}, !.faults = 1],
              [Calm EXCEPT !.prompt = FALSE, !.lag = TRUE]}
-----------------------------------------------------------------------------
(* The start of the server. *)
Usual == [valid |-> TRUE, registerCRDs |-> TRUE, webhooks |-> TRUE, registration |-> TRUE,
          prefix |-> FALSE, protection |-> TRUE, ca |-> "first"]
Renewed == [Usual EXCEPT !.ca = "second"]
Unstartable == <<[Usual EXCEPT !.ca = ""], Usual>>
MCRollouts == {<<Usual, [Usual EXCEPT !.valid = FALSE], [Renewed EXCEPT !.protection = FALSE]>>,
  <<Usual, [Usual EXCEPT !.registration = FALSE], [Renewed EXCEPT !.registerCRDs = FALSE]>>,
  <<Usual, [Renewed EXCEPT !.prefix = TRUE], [Usual EXCEPT !.webhooks = FALSE]>>,
  Unstartable}

-----------------------------------------------------------------------------
Parts == {"admission", "authoring", "provider", "drift", "server"}

Still ==
  /\ part # "admission" => scene = CHOOSE s \in MCScenes : TRUE
  /\ part # "authoring" => bench = Desk /\ home = Free
  /\ part # "provider"  => setting = [Plain EXCEPT !.edits = 2, !.lag = {"jobs"}, !.overlap = TRUE]
  /\ part # "drift"     => /\ manner = CHOOSE m \in Manners : m.fleet # Fleet
                           /\ \A c \in DOMAIN fleet : fleet[c].stage = "new"
  /\ part # "server"    => rollout = Unstartable

PlatformInit ==
  /\ part \in Parts
  /\ AdmissionInit /\ AuthoringInit /\ ProviderInit /\ FleetInit /\ ServerInit
  /\ Still

AdmissionStep(A) == part = "admission" /\ A /\ UNCHANGED <<part, authoring, providers, drift, server>>
AuthoringStep(A) == part = "authoring" /\ A /\ UNCHANGED <<part, admission, providers, drift, server>>
ProviderStep(A) == part = "provider" /\ A /\ UNCHANGED <<part, admission, authoring, drift, server>>
DriftStep(A) == part = "drift" /\ A /\ UNCHANGED <<part, admission, authoring, providers, server>>
ServerStep(A) == part = "server" /\ A /\ UNCHANGED <<part, admission, authoring, providers, drift>>

PlatformNext ==
  \/ AdmissionStep(AdmissionNext)
  \/ AuthoringStep(AuthoringNext)
  \/ ProviderStep(ProviderNext)
  \/ DriftStep(FleetNext)
  \/ ServerStep(ServerNext)

(* What the controllers, their caches, the jobs and the kubelet keep doing. *)
PlatformFairness ==
  /\ \A c \in Configs : WF_all(AdmissionStep(ReleaseConfig(c)))
  /\ \A k \in Kinds : WF_all(AdmissionStep(SyncKind(k)))
  /\ SF_all(ProviderStep(ReadForCheck)) /\ WF_all(ProviderStep(CheckProvider))
  /\ WF_all(ProviderStep(ReadForPreload)) /\ WF_all(ProviderStep(PreloadRun))
  /\ WF_all(ProviderStep(SyncProvider)) /\ WF_all(ProviderStep(SyncJobs))
  /\ \A i \in 1..MaxJobs : WF_all(ProviderStep(i \in DOMAIN jobs /\ JobEnds(i)))
  /\ \A c \in Fleet :
       /\ WF_all(DriftStep(DriftRun(c))) /\ WF_all(DriftStep(CheckIntervalPasses(c)))
       /\ WF_all(DriftStep(Resync(c))) /\ WF_all(DriftStep(SyncFleet(c)))
       /\ WF_all(DriftStep(c \in DOMAIN fleet /\ Progresses(c)))
  /\ WF_all(ServerStep(Starts)) /\ \A n \in CrdNames : WF_all(ServerStep(Establish(n)))

PlatformSpec == PlatformInit /\ [][PlatformNext]_all /\ PlatformFairness
=============================================================================
