------------------------------ MODULE Authoring ------------------------------
(***************************************************************************)
(* How a Revision is written with tnctl: create it from a terraform module *)
(* (tnctl create revision), check it against a cluster (tnctl verify),     *)
(* turn it into terraform code (tnctl convert), apply it, and order it     *)
(* (tnctl create cloudresource).  Every command repeats decisions that a   *)
(* webhook or a controller takes later, in code of its own, and reads a    *)
(* cluster that others change between two commands.                        *)
(*                                                                         *)
(* Variables:                                                              *)
(*   bench     the module, the machine and what may be written by hand     *)
(*   home      the cluster: policies, providers, contexts, secrets, plans  *)
(*   draft     the Revision file: a set of at most one revision            *)
(*   report    the output of the last command, as long as what it was      *)
(*             about has not changed                                       *)
(***************************************************************************)
EXTENDS Admission

CONSTANT Benches   \* see Bench

VARIABLES bench, home, draft, report

authoring == <<bench, home, draft, report>>

(***************************************************************************)
(* Types.  A description is the set of its words.                          *)
(*                                                                         *)
(*   variable   [default : none | empty | falsy | value, type, about]      *)
(*   context    [name, vars : key -> words], in the order they are listed  *)
(*   input      [required : true | false | unset, default : none | value | *)
(*               answer | broken, type : none | string | number | bool |   *)
(*               complex, described]                                       *)
(*   valueFrom  [kind : secret | context, ref, key, name]                  *)
(*   revision   [plan, version, described, module, provider, inputs, vars, *)
(*               valueFrom]                                                *)
(* A bench is [module, variables, breaks, homes, files, sources, docker,   *)
(* credentials]: the checks the module breaks, the states the cluster may  *)
(* move to, the revisions the user may write, the directory of additional  *)
(* files, and whether docker and the cloud's credentials are at hand.      *)
(***************************************************************************)
IsRevision(r) ==
  /\ {"inputs", "vars", "valueFrom"} \subseteq DOMAIN r
  /\ \A k \in DOMAIN r.inputs :
       "default" \in DOMAIN r.inputs[k]
       /\ r.inputs[k].default \in {"none", "value", "answer", "broken"}
  /\ \A x \in r.valueFrom : x.kind \in {"secret", "context"}

ASSUME BenchesAssumption ==
  \A b \in Benches :
    /\ \A h \in b.homes : {"policies", "contexts", "applied"} \subseteq DOMAIN h
    /\ \A r \in b.files : IsRevision(r)

NoReport == [of |-> "nothing"]

AuthoringInit ==
  /\ bench \in Benches
  /\ home \in bench.homes
  /\ draft = {}
  /\ report = NoReport

ContextNames(cs) == {cs[i].name : i \in DOMAIN cs}

GetItem(cs, name) == cs[CHOOSE i \in DOMAIN cs : cs[i].name = name]

(* What HasItem and GetItem find of a list of contexts, by name. *)
ByName(cs) == [n \in ContextNames(cs) |-> GetItem(cs, n).vars]

-----------------------------------------------------------------------------
(***************************************************************************)
(* tnctl create revision.                                                  *)
(***************************************************************************)
Shared(words, others) == Cardinality(words \cap others)

(* Closeness with a minimum of 0.2: one word in five. *)
Close(words, others) ==
  Shared(words, others) > 0 /\ 5 * Shared(words, others) >= Cardinality(words)

(***************************************************************************)
(* SuggestContextualInput.  The contexts are searched one after the other, *)
(* each with the suggestions of the ones before it; the first that has a   *)
(* close one gives the suggestion.  The scores are sorted in ascending     *)
(* order before the first is taken: it is the least similar one.  The      *)
(* suggestions are kept by their description: of two variables with the    *)
(* same one, that of the context listed last is taken.                     *)
(***************************************************************************)
Options(cs, n) ==
  {o \in (1..n) \X UNION {DOMAIN cs[i].vars : i \in DOMAIN cs} :
     o[2] \in DOMAIN cs[o[1]].vars}

Described(cs, words) == {o \in Options(cs, Len(cs)) : cs[o[1]].vars[o[2]] = words}

SuggestContextualInput(words, cs) ==
  LET texts(n) == {t \in {cs[o[1]].vars[o[2]] : o \in Options(cs, n)} : Close(words, t)}
      Has == {n \in DOMAIN cs : texts(n) # {}}
      first == CHOOSE n \in Has : \A m \in Has : n <= m
      least == {t \in texts(first) : \A u \in texts(first) : Shared(words, t) <= Shared(words, u)}
  IN  IF Has = {} THEN {}
      ELSE {[kind |-> "context", ref |-> cs[o[1]].name, key |-> o[2]] :
              o \in UNION {{o \in Described(cs, t) : \A p \in Described(cs, t) : p[1] <= o[1]} :
                             t \in least}}

(***************************************************************************)
(* An exposed variable as the template writes it: "required" only when it  *)
(* is true, "default" only when its value is not empty, zero or false.     *)
(***************************************************************************)
WrittenInput(v) ==
  [required |-> IF v.default = "none" THEN "true" ELSE "unset",
   default |-> IF v.default = "value" THEN "value" ELSE "none",
   type |-> v.type, described |-> v.about # {}]

NextVersion(plan) ==
  IF plan \in DOMAIN home.plans THEN home.plans[plan] + 1 ELSE 1

(* The plan is one of the cluster, or one with a new name. *)
RetrievePlan == {"new"} \cup DOMAIN home.plans

(* The contexts, if the cluster may be asked. *)
RetrieveConfiguration(useCluster) == IF useCluster THEN home.contexts ELSE <<>>

(* Of the variables that are not exposed, the module's defaults are        *)
(* copied, empty maps left out.                                            *)
KeptDefaults(exposed) ==
  {v \in DOMAIN bench.variables \ exposed :
     bench.variables[v].default \in {"value", "falsy"}}

(* What the user exposes becomes an input, or the suggestion of a context. *)
CreateRevision(plan, exposed, useCluster) ==
  LET V == bench.variables
      hints(v) == SuggestContextualInput(V[v].about, RetrieveConfiguration(useCluster))
      hinted == {v \in exposed : hints(v) # {}}
      kept == KeptDefaults(exposed)
  IN  /\ draft = {}
      /\ \E pick \in [hinted -> UNION {hints(v) : v \in hinted}] :
           /\ \A v \in hinted : pick[v] \in hints(v)
           /\ draft' = {[plan |-> plan, described |-> TRUE, module |-> bench.module,
                         version |-> IF useCluster THEN NextVersion(plan) ELSE 1,
                         provider |-> {"aws"},
                         inputs |-> [v \in exposed \ hinted |-> WrittenInput(V[v])],
                         vars |-> [v \in kept |-> <<"module">>],
                         valueFrom |-> {[kind |-> "context", ref |-> pick[v].ref,
                                         key |-> pick[v].key, name |-> v] : v \in hinted}]}
      /\ report' = NoReport
      /\ UNCHANGED <<bench, home>>

(* The user edits the file, or writes one. *)
WriteRevision(r) ==
  /\ draft # {r}
  /\ draft' = {r}
  /\ report' = NoReport
  /\ UNCHANGED <<bench, home>>

-----------------------------------------------------------------------------
(***************************************************************************)
(* tnctl convert revision.  The outcome is an error, a panic, or the code. *)
(***************************************************************************)
(* The inputs the command asks for: not only the required ones. *)
Asked(i) == i.required # "unset" /\ i.default = "none" /\ i.type # "none"

(* The answer is stored as JSON, that of a boolean as a word. *)
Answered(i) ==
  IF Asked(i) THEN [i EXCEPT !.default = IF i.type = "bool" THEN "broken" ELSE "answer"] ELSE i

RetrieveInputs(r) == [r EXCEPT !.inputs = [k \in DOMAIN @ |-> Answered(@[k])]]

Defaulted(r) == {k \in DOMAIN r.inputs : r.inputs[k].default # "none"}

(* The defaults of the inputs, set over the variables of the revision. *)
InputDefaults(r) == [k \in Defaulted(r) |-> <<r.inputs[k].default>>]

Of(r, kind) == {x \in r.valueFrom : x.kind = kind}

Source(x) == <<x.kind, x.ref, x.key>>

(* GetName: the name of the variable, or the key. *)
GetName(x) == IF x.name = "" THEN x.key ELSE x.name

From(xs) == [n \in {GetName(x) : x \in xs} |-> Source(CHOOSE x \in xs : GetName(x) = n)]

(* A secret is read at the variable's name; declined means "resolve". *)
SecretFails(x) ==
  \/ x.ref \notin DOMAIN home.secrets
  \/ GetName(x) \notin home.secrets[x.ref]
  \/ x.name = ""

ContextFails(cs, x) ==
  \/ x.ref \notin DOMAIN cs
  \/ x.key \notin DOMAIN cs[x.ref]
  \/ x.name = ""

AsConfiguration(r) ==
  [ns |-> CHOOSE n \in Namespaces : TRUE, labels |-> {}, module |-> r.module]

RenderProviderFails(r, with) ==
  with.provider /\ ~(r.provider \subseteq with.home.providers)

RenderPolicyFails(r, with) ==
  with.checkov /\ FindMatchingPolicy(with.home.policies, AsConfiguration(r)) = "error"

(* With: the lists that are used, what is included and what is answered. *)
ConvertFails(r, with) ==
  \/ \E k \in DOMAIN r.inputs : r.inputs[k].default = "broken"
  \/ ~with.secrets /\ \E x \in Of(r, "secret") : SecretFails(x)
  \/ with.contexts /\ \E x \in Of(r, "context") : ContextFails(with.home.contexts, x)
  \/ r.module = ""
  \/ RenderProviderFails(r, with)
  \/ RenderPolicyFails(r, with)

Resolved(r, with) ==
  From({x \in Of(r, "context") : with.contexts} \cup {x \in Of(r, "secret") : ~with.secrets})

(* Faulty: a context does not win over the value the revision has. *)
CodeVariablesFirst(r, with) ==
  Overlay(Overlay(InputDefaults(r), r.vars), Resolved(r, with))

CodeVariables(r, with) ==
  Overlay(Resolved(r, with), Overlay(InputDefaults(r), r.vars))

(* The command asks before anything else, and writes through a nil pointer *)
(* when the revision has no variables.                                     *)
Converted(file, with) ==
  LET r == RetrieveInputs(file)
  IN  CASE \E k \in DOMAIN file.inputs :
             Asked(file.inputs[k]) /\ file.inputs[k].type = "complex" -> [result |-> "error"]
        [] r.vars = Nothing /\ Defaulted(r) # {}   -> [result |-> "panic"]
        [] ConvertFails(r, with)                   -> [result |-> "error"]
        [] OTHER -> [result |-> "code", revision |-> r, vars |-> CodeVariables(r, with)]

Convert(contexts, secrets, checkov) ==
  LET with == [home |-> [home EXCEPT !.contexts = ByName(@)], provider |-> TRUE, checkov |-> checkov,
               contexts |-> contexts, secrets |-> secrets]
  IN  \E r \in draft :
        /\ report' = [of |-> "convert", with |-> with, out |-> Converted(r, with)]
        /\ UNCHANGED <<bench, home, draft>>

-----------------------------------------------------------------------------
(***************************************************************************)
(* tnctl verify revision.                                                  *)
(***************************************************************************)
SourceFiles(useFiles) ==
  IF useFiles THEN [bench.sources EXCEPT !.contexts = ByName(@)]
  ELSE [policies |-> Nothing, providers |-> {}, contexts |-> Nothing]

(* Merge: what a file has wins over what the cluster has. *)
Merged(files, more) == Overlay(files, more)

SourceFromCluster(files, useCluster) ==
  IF useCluster
  THEN [policies |-> Merged(files.policies, home.policies),
        providers |-> files.providers \cup home.providers,
        contexts |-> Merged(files.contexts, ByName(home.contexts))]
  ELSE files

FailsSpec(r) == r.plan = "" \/ ~r.described

FailsInputs(r) == \E k \in DOMAIN r.inputs : ~r.inputs[k].described

(* Faulty: a key is not looked for in the context. *)
FailsReferencesByName(h, r) ==
  \/ Of(r, "secret") # {}
  \/ \E x \in Of(r, "context") : x.ref \notin DOMAIN h.contexts

(* The context of a reference to a secret is a nil pointer that is read. *)
FailsReferences(h, r) ==
  \/ Of(r, "secret") # {}
  \/ \E x \in Of(r, "context") :
       x.ref \notin DOMAIN h.contexts \/ x.key \notin DOMAIN h.contexts[x.ref]

(* Any constraint may allow the module: selectors are not looked at. *)
FailsModulePolicy(h, r) ==
  LET ms == UNION {h.policies[p].modules : p \in DOMAIN h.policies}
  IN  ms # {} /\ \A m \in ms : r.module \notin m.allowed

(* What checkov finds of the module under a constraint. *)
ScanFails(k) ==
  (IF k.checks = {} THEN bench.breaks ELSE bench.breaks \cap k.checks) \ k.skips # {}

(* Every constraint is scanned with, if docker is there. *)
FailsSecurityPolicy(h) ==
  /\ bench.docker
  /\ \E p \in DOMAIN h.policies : \E k \in h.policies[p].checkov : ScanFails(k)

(* A plan needs the credentials of the cloud in the environment. *)
FailsTerraformPlan(h, r, plan) ==
  plan /\ r.provider # {} /\ h.providers # {} /\ ~(bench.docker /\ bench.credentials)

ConvertRevision(h, r, contexts, secrets) ==
  Converted(r, [home |-> h, provider |-> h.providers # {}, checkov |-> FALSE,
                contexts |-> contexts, secrets |-> secrets])

(* A check that fails is counted, and the next one is run. *)
FailedCount(h, r, plan) ==
  Cardinality({check \in 1..6 :
    CASE check = 1 -> FailsSpec(r)
      [] check = 2 -> FailsInputs(r)
      [] check = 3 -> FailsModulePolicy(h, r)
      [] check = 4 -> FailsReferences(h, r)
      [] check = 5 -> FailsTerraformPlan(h, r, plan)
      [] check = 6 -> FailsSecurityPolicy(h)})

(* The revision is converted first: a conversion that fails ends it all. *)
Verify(useCluster, useFiles, plan, contexts, secrets) ==
  \E r \in draft :
    LET h == SourceFromCluster(SourceFiles(useFiles), useCluster)
        passed == /\ ConvertRevision(h, r, contexts, secrets).result = "code"
                  /\ FailedCount(h, r, plan) = 0
    IN  /\ report' = [of |-> "verify", passed |-> passed, revision |-> r,
                      cluster |-> useCluster, files |-> useFiles]
        /\ UNCHANGED <<bench, home, draft>>

-----------------------------------------------------------------------------
(***************************************************************************)
(* tnctl create cloudresource, of a Revision that has been applied.        *)
(***************************************************************************)
(* The Revision's webhook (its other checks are in Catalogue). *)
ApplyRevision ==
  /\ \E r \in draft : ~FailsSpec(r) /\ ~FailsInputs(r) /\ {r} # home.applied
  /\ home' = [home EXCEPT !.applied = draft]
  /\ UNCHANGED <<bench, draft, report>>

(* NewCloudResourceFromRevision: an input that does not say whether it is  *)
(* required is taken as required.                                          *)
Placeholder(i) == i.default = "none" /\ i.required # "false"

NewCloudResourceFromRevision(r) ==
  [k \in Defaulted(r) \cup {k \in DOMAIN r.inputs : Placeholder(r.inputs[k])} |->
     IF k \in Defaulted(r) THEN <<r.inputs[k].default>> ELSE <<"CHANGE_ME">>]

CreateCloudResource ==
  /\ \E r \in home.applied :
       report' = [of |-> "order", revision |-> r, values |-> NewCloudResourceFromRevision(r)]
  /\ UNCHANGED <<bench, home, draft>>

(* Others change the cluster: the last report is out of date. *)
ChangeHome(h) ==
  /\ [h EXCEPT !.applied = home.applied] # home
  /\ home' = [h EXCEPT !.applied = home.applied]
  /\ report' = NoReport
  /\ UNCHANGED <<bench, draft>>

AuthoringNext ==
  \/ \E plan \in RetrievePlan, useCluster \in BOOLEAN,
        exposed \in SUBSET DOMAIN bench.variables : CreateRevision(plan, exposed, useCluster)
  \/ \E r \in bench.files : WriteRevision(r)
  \/ \E contexts, secrets, checkov \in BOOLEAN : Convert(contexts, secrets, checkov)
  \/ \E useCluster, useFiles, plan, contexts, secrets \in BOOLEAN :
        Verify(useCluster, useFiles, plan, contexts, secrets)
  \/ ApplyRevision
  \/ CreateCloudResource
  \/ \E h \in bench.homes : ChangeHome(h)

-----------------------------------------------------------------------------
(***************************************************************************)
(* What the cluster does with the revision: the variables a CloudResource  *)
(* of it runs terraform with (ensureConfiguration of CloudResources and    *)
(* ensureJobConfigurationSecret of Configurations).                        *)
(***************************************************************************)
JobVariables(r, values) ==
  Overlay(From(r.valueFrom), Overlay(values, Overlay(InputDefaults(r), r.vars)))

(***************************************************************************)
(* A verification against the cluster that passed is right as long as the  *)
(* cluster has not changed: with constraints that have no selectors, the   *)
(* webhook of Configurations allows the module, the constraint the         *)
(* controller selects passes, and every context can be read.  The two      *)
(* sides are separate code (verify/revision.go on the one, the webhooks,   *)
(* FindMatchingPolicy and ensureValueFromSecret on the other).             *)
(***************************************************************************)
Unselective(ps) ==
  \A p \in DOMAIN ps : \A c \in ps[p].modules \cup ps[p].checkov : c.ns = {} /\ c.res = {}

VerdictHolds ==
  /\ report.of = "verify" /\ report.passed /\ report.cluster /\ ~report.files
  /\ Unselective(home.policies)
  => LET r == report.revision
         p == FindMatchingPolicy(home.policies, AsConfiguration(r))
     IN  /\ ValidateModuleConstraints(home.policies, AsConfiguration(r))
         /\ bench.docker /\ p \in DOMAIN home.policies =>
              \A k \in home.policies[p].checkov : ~ScanFails(k)
         /\ \A x \in Of(r, "context") :
              /\ x.ref \in ContextNames(home.contexts)
              /\ x.key \in DOMAIN GetItem(home.contexts, x.ref).vars

(* The same variables and values, but for the placeholders of the job. *)
SameVariables(code, job, own) ==
  LET given == {k \in DOMAIN job : job[k] # <<"CHANGE_ME">>}
  IN  /\ given \subseteq DOMAIN code /\ DOMAIN code \subseteq DOMAIN job
      /\ \A k \in DOMAIN code : code[k] = IF k \in given THEN job[k] ELSE own[k]

(***************************************************************************)
(* The code a revision is converted to is what the cluster would run: a    *)
(* CloudResource made from the revision gives terraform the same variables *)
(* with the same values; where it has a placeholder the code has, if       *)
(* anything, the revision's own value (renderConfiguration and             *)
(* resolveConfiguration of tnctl convert).                                 *)
(***************************************************************************)
CodeAgrees ==
  report.of = "convert" /\ report.out.result = "code" /\ report.with.contexts =>
    LET r == report.out.revision
    IN  Of(r, "secret") = {} =>
          SameVariables(report.out.vars, JobVariables(r, NewCloudResourceFromRevision(r)), r.vars)
=============================================================================
