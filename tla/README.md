# Terranetes controller: TLA+ specifications

Terranetes runs Terraform from Kubernetes. A user writes a `Configuration` (a
Terraform module, its variables and a provider), the controller plans it in a
job, has the plan scanned and approved, and applies it in another job. Platform
teams publish `Revision`s of a `Plan`, and developers order them as
`CloudResource`s, which the controller turns into Configurations.

This directory holds specifications of the controllers, of the jobs they run,
of the webhooks, the server and the command line around them, configurations
with which TLC checks them on small instances, and proofs checked by TLAPS.
`PROJECT.json` maps every definition to the lines it models and lists the
hazards the properties are about.

    tlc -config Configuration_approval.cfg MCConfiguration
    tlapm ConfigurationProofs.tla

## 1. Inventory

| Component | State | Operations | Interacts with | Module |
|---|---|---|---|---|
| Configuration controller (`pkg/controller/configuration`) | none of its own: reads cached objects and jobs, writes status conditions, annotations, jobs | one reconcile chain, one deletion chain | jobs, secrets, policies, provider, CloudResource annotation | `Configuration` |
| Ensure runner, conditions, finalizers (`pkg/controller/*.go`) | status of every object | run the chain until one function stops it, patch the status at the end | all controllers | `Configuration`, `CloudResource` |
| Terraform jobs (`pkg/utils/jobs`, `assets/job.yaml.tpl`) | a Job, its labels, its outcome | plan, apply, destroy | plan, report and state secrets, the cloud | `Configuration` from the outside, `JobPod` from the inside |
| Step (`cmd/step`), source downloader (`cmd/source`) | files shared by the containers of a pod | wait for a file, run a command, download, upload a secret | the job's outcome | `JobPod` |
| API server for build logs (`pkg/apiserver`) | none | find the pod of a job, stream its containers' logs | the pods of a job | `JobPod` |
| Drift controller (`pkg/controller/drift`) | an annotation with a time stamp, a queue | ask for a plan of an applied Configuration | all Configurations | `Drift`, `Configuration` |
| Plan, Revision and expire controllers | the plan's list of revisions, its latest one; the use count of a Revision | list, unlist, count, delete the unused | one Plan shared by the reconciles of all its Revisions | `Catalogue` |
| CloudResource controller | the Configuration it owns, a copy of its status | create, patch, delete the Configuration | Plan, Revision, Configuration | `CloudResource`, `Catalogue` |
| Provider and preload controllers, preload command | the conditions of a Provider, preload jobs, a Context | check a secret; run a job that reads an account | each other, through the Provider's conditions | `ProviderPreload` |
| Admission webhooks (`pkg/handlers`), policy selection (`pkg/utils/policies`) | none | default and validate; choose the constraint that matches best | read the manager's caches; see every update, the controllers' own too | `Admission`, `Catalogue` |
| Context, namespace, policy controllers | none | register webhooks | admission | `Admission` |
| Server and manager set-up (`pkg/server`, `pkg/register`) | custom resources, registered webhooks | start, over and over | what an earlier start left | `Server` |
| tnctl create, verify, convert | a Revision file | create, verify, convert, apply, order | decides again what webhooks and controllers decide | `Authoring` |
| tnctl approve, retry | annotations | set them | Configuration, CloudResource | `Configuration`, `CloudResource` |
| tnctl search, describe, logs, state, config | none that is shared | print | API objects, registries | not modelled |

What is hard in this code:

* **Everything is read from caches and written without a precondition.** Status
  and annotations are merge-patched (`client.MergeFrom`, no optimistic lock);
  only the finalizers are written with an update that can conflict. A run
  decides on an object, a job list and secrets of different ages: secrets have
  an informer too (`server.go:124-147`), and the plan, the report and the state
  are written by jobs, so that a run can find a job complete and read the plan
  from before it.
* **Little wakes the Configuration controller.** Its event filter passes new
  generations and changed annotations; status updates, resyncs and, because
  the watch maps a job to a key that does not exist, job events are dropped. A
  run that ends without a requeue is the last one until the user acts.
* **One plan secret, one report secret and one state secret per Configuration**,
  overwritten by every job and by every pod of a job. Which job has run is only
  known from labels of jobs that expire.
* **Approval is an annotation**, written by the user, by the Configuration
  controller and by the CloudResource controller, with a copy on two objects,
  and it must not outlive the generation it was given for.
* **Lists are written whole by many**: the revisions of a Plan by the reconcile
  of each Revision, the conditions of a Provider by two controllers.
* **Webhooks validate the controllers' own updates** against policies, plans and
  flags that have changed since the object was admitted.
* **The containers of a pod know of each other only by files**, and a pod that
  fails leaves what it has uploaded to the next one.
* Crashes and failed calls between two writes of one run or of one start;
  retries recognised by comparing time stamps.

What makes the parts correct:

* Configuration: terraform apply runs only for what was approved, scanned and
  planned; a plan is applied once; Ready means applied; the finalizer is not
  released while resources exist; the controller never stops without saying
  why; every generation is decided and every deletion ends; retries and drift
  checks are carried out.
* Jobs: a job ends whatever fails in it, its reports are about its plan, and
  nothing runs on a module that was downloaded in part.
* CloudResource: one Configuration each, which follows it and goes with it, and
  whose approval can be given, is carried out and is never made up.
* Catalogue: a plan comes to list its Revisions; deletions end; expiry spares
  the latest version.
* Admission: defaults are enforced and held, the most specific constraint is
  the one used, deletions are let through.
* Provider, drift, server: readiness follows the secret, what a preload writes
  depends on the account only, drift checks keep to their share and forget
  nobody, a server that serves is complete.
* tnctl: what it says about a Revision is what the cluster will do.

## 2. Plan

| Order | Module | Status |
|---|---|---|
| 1 | `Configuration`: the controller, its jobs, caches, user and cloud | written |
| 2 | `ApprovalWorkflow`: the abstract specification of approval; `Configuration` implements it | written |
| 3 | `ConfigurationProofs`: type correctness, approval, refinement | written |
| 4 | `Catalogue`, `CatalogueProofs`: plans, revisions, expiry, admission of CloudResources | written |
| 5 | `CloudResource`: the Configurations of a CloudResource and the approval that has two copies, composed with the Configuration controller's side of it; `CloudResourceProofs` | written |
| 6 | `TerraformJob`, `JobPod`: what the controller takes a job to be, and the pods, containers, files and logs that implement it; `JobPodProofs` | written |
| 7 | `Admission`: webhooks and policy selection | written |
| 8 | `ProviderPreload`, `Drift`, `Server`, `Authoring` and their composition `MCPlatform` | written |
| 9 | `PlansProofs`: jobs, plans, scans, the cloud and drift checks of a Configuration; `LifecycleProofs`: the controller never stops without saying why, and releases the finalizer when nothing is left | written |
| 10 | `AdmissionProofs`: defaults, the choice of a policy and what tnctl says; `PlatformProofs`: the start of the server, the preload of a provider, its Context and the share of drift checks | written |

Every safety property that a passing run checks is now stated by a theorem. What
the plan leaves is liveness, which the proof system does not handle.

## 3. Module `Configuration`

One Configuration object. `cfg` is what the API server stores, `cache` what the
informer shows, `queued` whether the workqueue holds the key (one key is
reconciled by one worker at a time, whatever `MaxConcurrentReconciles` is).
`jobs` are all Terraform jobs in their order of creation and `seen` what the
job informer shows of them; `planSecret`, `report`, `tfState` are the secrets
and `shown` what the informer of secrets shows of them, which is what every run
reads; `cloud` is what exists. `approved`, `planned`, `verdict`, `vouched` and the
fields `current` and `beside` of a job are history: `vouched` and `current` say that
a run was shown the secrets as they were stored, `beside` that a destroy was
created while an apply ran.

**Reconcile.** Every action of `Reconcile` is one whole run of the chain of
`reconcile.go` that ends at the function it is named after; its guard says that
all functions before it let the run pass, and `Finish` does what
`EnsureRunner.Run` does in its deferred function: patch the status fields that
changed with respect to the cached object, stamp `lastReconcile`, requeue or
not. `FinishFailed` is a run in which an API call failed; the last disjunct of
`Finish` is a status patch that fails or a crash before it.

| Code | Actions |
|---|---|
| `Reconcile`, `finalizer.EnsurePresent` | `ReconcileNotFound`, `EnsureFinalizerPresent` |
| the functions that check a prerequisite | `EnsurePrerequisites` over the sequences `BeforeActivity`, `AfterActivity` |
| `ensureNoActivity` | `EnsureNoActivity` |
| `ensureTerraformPlan` | `PlanInvalidRetry`, `PlanFailedBefore`, `RequireApproval`, `CreatePlan`, `PlanRunning`, `PlanFails` |
| `ensureTerraformPlanSecret` | `PlanSecretMissing` |
| `ensurePolicyStatus` | `PolicyReportMissing`, `PolicyReportMalformed`, `PolicyFailed` |
| `ensureTerraformApply` | `ApplySkipped`, `WaitForApproval`, `CreateApply`, `ApplyRunning`, `ApplyFails`, `ApplyDone` |
| `ensureConnectionSecret`, `ensureTerraformStatus` | the exits of `EndOfChain`: no state is shown, the outputs cannot be written, the run is complete |
| `delete.go` | `DeletionBlocked`, `CreateDestroy`, `DestroyRunning`, `DestroyFails`, `CleanUp` |
| informers, process | `SyncConfiguration`, `SyncJobs`, `SyncSecrets`, `Restart` |
| user, tnctl, drift controller | `Edit`, `Approve`, `Retry`, `Delete`, `AnnotateDrift` |
| platform | `LosePrerequisite`, `MeetPrerequisite`, `MatchPolicy`, `WithdrawPolicy`, `CloudDrifts` |
| jobs | `UploadPlan`, `UploadReport`, `CompletePlan`, `FailPlan`, `CompleteApply`, `FailApply`, `CompleteDestroy`, `FailDestroy`, `ExpireJob` |

Facts of the code the model keeps, because properties depend on them:
`ensureNoActivity` compares the generation of the Job object, which is always
1, with the Configuration's, so that it has no effect on the first generation;
a delete sets the deletion time stamp and with it a new generation; a label
whose wanted value is empty filters nothing; the deletion chain does not wait
for running jobs and deletes them without a propagation policy, so their pods
go on; terraform apply does not use the plan file; conditions are one list and
are replaced together; a plan job is labelled with the retry and the drift check
it answers, an apply job with the plan only; the plan an apply is labelled with,
the report that is judged and the state that is counted are those the informer
shows. A run reads its caches at one moment here.

What is abstracted: messages (of the reason Error only whether an API call
failed is kept); the cost report; the contents of templates, variables,
connection secrets; the template hash; the attempts of one job; the
configuration threshold, a prerequisite like the others; finalizers of others;
a retry in the very second of the last status update; a policy report without a
summary; a mapping of the connection secret that cannot be parsed, which the
webhook refuses. Every bound is a constant (`Max...`) and appears in a guard.

## 4. Module `Catalogue`

One Plan, its Revisions (a version is a number) and the CloudResources that use
them. `watch` is the sequence of versions of the Plan its informer has yet to
deliver; the other caches catch up in one step. `RevisionRun`, `PlanRun`,
`Expire` and `ResourceRun` are the reconciles of the four controllers; a run
whose write conflicts or fails changes nothing and is tried again, which is the
same as not having happened. The plan controller has a queue because nothing
but an event wakes it; Revisions are requeued every ten or sixty minutes, so
their runs are always possible. `Admitted` is the validating webhook, which is
asked about every update, and `CreateResource` the mutating one, which sets the
label before it chooses the revision. Not modelled: inputs and variables, edits
of a Revision's version (the old entry then stays in the plan), conditions. The
Configuration behind a CloudResource, which is taken to go here, is module
`CloudResource`.

## 5. Module `CloudResource`

One CloudResource, the Configurations created for it, and the two controllers
that write to both. `cr` and `cfgs` are stored, `crSeen` and `cfgsSeen` cached;
`plan` and `revs` say what is offered. The runs of the CloudResource controller
(`OrderRun`) are one action per exit, as in `Configuration`, the ones that write
nothing among them: `NotRendered` (an input's default that cannot be set ends the
run for good, variables that cannot be decoded or set fail it) and
`ConfigurationGone` (the Configuration that was listed is not there any more). A
run reads the CloudResource first (`reconcile.go:44`), the Configuration later
(`ensure.go:137`) and patches it last (`ensure.go:263`). What happens in between
cannot be told from copies that lag, so `crSeen` and `cfgsSeen` stand for the
reads of a run in the worlds with a lag. `Render` is what a
CloudResource and its Revision come to (the Revision's variables, then the
defaults of its inputs, then the CloudResource's own), `Patched` the merge patch
of what differs from the cached Configuration, annotations included. Of the
Configuration controller the module has what the approval and the end of a
Configuration depend on; everything else of it is module `Configuration`. The
withdrawal of an approval is two steps, `WithdrawApproval` on the Configuration
and `WithdrawFromOrder` on the CloudResource, because runs of the other
controller, and failures, come in between. A job is one step here. `Worlds`
separates what goes wrong, one thing in each behaviour: a retry with a manifest
that was submitted approved and a version that is withdrawn; a failed call; a
managed Configuration deleted by hand; a manifest without annotations and edits
to what cannot be rendered; a lagging cache of either kind.

## 6. Modules `TerraformJob` and `JobPod`

`TerraformJob` is what the Configuration controller relies on: a job is active
and then complete or failed, once; secrets appear while it is active; when it is
complete all the stage promises are there. `JobPod` is the inside: up to
`BackoffLimit` + 1 pods, the init containers of the template one after the
other, the others at the same time. Each container is a `step`: it waits for
`terraform.complete` or `terraform.failed` in the shared volume (`FindSignal`,
`WaitTimeout`), runs its commands with retries, uploads its secrets one by one,
and writes a signal file. `source` is a command of its own with a download that
may end, break or time out, and a copy. A pod fails, is evicted, is followed by
another one that finds the secrets of the first. `view` is one request for logs
to the API server, which finds the latest pod and follows its containers in
order.

## 7. Modules around the controllers

`Admission`: every write of a Configuration passes `Mutate` and `Validate`
against the cached policies, providers, contexts and namespaces; so do policies,
providers, contexts and namespaces themselves. The default variables of the
policies are merged one after the other in the code; `LastWins` says what comes
of it, the value of the last map that has the key. A value is opaque: the code
merges values that are maps recursively (`mutation.go:186`), so a key stands for
a path into the variables. A regex of a policy may fail to compile (`bad`), in
its module constraints and in its defaults. `FindMatchingPolicy` and its
weights are an algorithm, compared with `MoreSpecific`, a definition without
weights. The well-formedness of one object on its own is a flag.

`ProviderPreload`: a run of either controller is a read and a patch, since a
merge patch of the conditions writes back the other controller's condition as it
was read. The preload job reads an account that lists its parts in any order
(`\E` over `Orderings`) and writes a Context. Subnets and route tables are sorted.
Four lists of the cluster are not (`ClusterLists`): its subnets, security groups
and public access ranges stay in the order AWS gives, its tags in the random one
of a Go map (`helper.go:59`). What has a name is set under its sanitized name
(`SanitizeName`, `helper.go:32`: lower case, `-` to `_`); of route tables, groups or
networks with one key the last one listed wins.

`Drift`: one worker over a fleet. `Threshold` is the share in percent, rounded up
to a number of Configurations as the code does. The Configuration controller's
side is a stage for each Configuration.

`Server`: the launches of a rollout, one after the other, each with its own
flags, and what they leave in the cluster: custom resources and webhooks.

`Authoring` extends `Admission`, so that `tnctl verify` can be compared with the
webhooks' own operators on the same policies. Contexts are looked up by name, and
variables are merged as functions, one laid over the other (`Overlay`).

`MCPlatform` composes these five. They share no state and do not interact, so
`part` chooses the one that is at work in a behaviour; the others rest in an
initial state. Their instances are listed there.

## 8. Runs

| Run | Instance | Shows |
|---|---|---|
| `approval` | 2 generations, 3 jobs, both kinds of approval, caches of the object and the jobs that lag | `TypeOK`, `ApplyApproved`, `ImplementsWorkflow` |
| `plans` | 2 generations, 4 jobs, one drift check, one fault, all scan results, secrets that lag | `PolicyGate`, `ApplyMatchesPlan`, `NoOverlap`, `ReadyMeansApplied`, `DriftChecked` |
| `deletion` | one generation, 3 jobs, owned by a CloudResource, prerequisites and policies come and go, one fault, secrets that lag, with and without orphaning | `NeverSilent`, `ReleaseAccounted` |
| `progress` | 2 generations, 6 jobs, deletion, fair | `GenerationDecided`, `DeletionEnds` |
| `retry` | automatic approval, 5 jobs, one retry, deletion, expiring jobs, fair | `AppliedOnce`, `RetryRuns` |
| `revisions` | 2 versions, 1 CloudResource, Plan informer up to 2 versions behind, fair | `HighestKept`, `RevisionsListed`, `RevisionDeletionEnds` |
| `orders` | 3 versions, 4 specs, up to 2 Configurations, six worlds, fair | `OrderApproved`, `OrderFollowed`, `ApprovalAsked`, `ApprovalCarried`, `OrderRemoved` |
| `pod` | 2 pods, six jobs: plans with every kind of policy, applies, a destroy; step retries; a watcher; fair | `ReportsOfOnePlan`, `SourceWhole`, `JobEnds`, `LogsEnd`, `ImplementsJob` |
| `platform` | seven scenes of admission, three benches of tnctl, four settings of the preload with 5 specs and 2 jobs, four manners of a fleet of up to 3, four rollouts of up to 3 launches with 2 outages; fair | admission: `DefaultsEnforced`, `DefaultsHeld`, `PolicyDecided`, `Deletable`; tnctl: `VerdictHolds`, `CodeAgrees`; preload: `ProviderSettles`, `PreloadOnce`, `ContextStable`; drift: `ShareKept`, `DriftNotForgotten`; server: `ServingComplete`, `ServerSettles` |
| `zero_resources` | a generation without resources, then one with | `CleanRelease` fails |
| `reset_lost` | the second patch of a withdrawn approval may fail | `OrderApproved` fails |
| `resource_stuck` | expiry only, no lag | `ResourceDeletionEnds` fails |

The bounds are the smallest with which the cases happen: two generations for an
approval that outlives the first, and because `ensureNoActivity` starts to work
with the second; a plan and an apply for each; one retry and one drift check,
since only the last one is recorded; two versions, since expiry needs two and
two writers suffice to lose an update; two Configurations, since one more than
wanted is one too many; two pods, since a third finds what a second does; three
Configurations in the fleet, of which a share of 40 % is rounded up to two, and one of two.
Every invariant, action property and refinement of the passing runs is proved for
all bounds (section 10), some of them under hypotheses that are named there; the
liveness properties are only model-checked.

Some properties name the circumstances they need, and fail without them:

* `plans`, `deletion` and `retry` assume that the caches show the controller's own
  writes (`ReadYourWrites`): with a job cache that lags longer than the requeue of
  a few seconds, `NoOverlap` and `AppliedOnce` fail, because a run that does not
  see the job it created creates another. `NeverSilent` fails with a lagging cache
  and prerequisites that come and go, since the status patch is a difference from
  the cached object and leaves alone a condition that the cache shows as it is
  wanted. `approval` does not assume it.
* The secrets that jobs write lag in `plans` and `deletion` (`SecretsLag`). `approval`,
  `progress` and `retry` are long enough without; the theorems behind the
  properties of `approval` and behind `AppliedOnce` have the lag. What the controller does on a plan, a report or a state that is no
  longer the stored one is in the model, and three properties are about what it
  does otherwise: `ApplyMatchesPlan` and `PolicyGate` about applies whose run was
  shown the secrets as stored (`current`), `ReadyMeansApplied` about a condition
  set by such a run (`vouched`) when every apply was created by one. Without that
  TLC finds each of them violated; see "Met while modelling". The second and third
  are about generations from the second on, since in the first one
  `ensureNoActivity` is without effect and plans may overlap.
* `AppliedOnce` accepts a second apply of a plan when the job of the first one has
  expired, and `plans` has no expiring jobs, because `ReadyMeansApplied` fails with
  them. `PolicyGate` can fail once a status patch is lost (`plans` has one fault,
  the smallest such behaviour needs more jobs) or a constraint has been withdrawn
  and come back: the report in the secret is then taken for that of a plan it was
  not made for. The theorem says so as a hypothesis.
* `ReleaseAccounted` is what the wish of `CleanRelease` comes to in this code. A run
  that cleans up while resources exist and no job runs has been misled in one of
  three ways: no state was shown to it (`delete.go:69`), the resource count was an
  old zero (`CountMisleads`; possible only with a generation without resources or
  with secrets that lag), or a destroy was created beside a running apply
  (`beside`). Anything else that released resources would violate it; the third
  way needs a second generation and is not reached in `deletion`.
* `OrderApproved`, `OrderFollowed` and `ApprovalCarried` are about caches that do not
  lag: a lagging one, or the window between the reads of one run, lets the
  CloudResource controller create a second Configuration, which it reports and
  never repairs, and write back an approval that was withdrawn. `OrderRemoved` and
  `ApprovalAsked` hold with lagging caches too. `OrderFollowed` is about orders that
  can be rendered (`Followed`).
* `ApprovalAsked` excepts a CloudResource that was submitted without annotations: the
  code cannot write the reset (see below), and the user is never asked. The
  webhook adds no annotation to it (`mutation.go:44-66`). The world is in the run for
  the other properties.
* `ProviderSettles` is about runs of the two controllers that do not overlap. When
  they do, one writes the other's old condition back, and a Provider whose
  secret is right stays not ready until it is edited.
* `ContextStable` is about the content of the four lists that are not sorted, not
  their order, which does change from one load to the next, and about accounts in
  which no two tables, groups or networks come to one key (`NamesDistinct`). The
  instance has an account with two tags, for which the order changes, and one with
  names that come to one key.
* `Deletable` excepts a deletion that a provider selector or a policy has come to
  refuse (`NowRefused`), by its module constraints or by defaults with a regex that
  does not compile: it stays until the platform changes them.
* `ShareKept` is about checks that are taken up before the worker looks at the
  next Configuration; one it has asked for and that has not started is not
  counted by the code.
* `VerdictHolds` is about constraints without selectors, which `tnctl verify`
  ignores; `DefaultsEnforced` about policies that do not contradict each other.

Deadlock is not checked where the system may come to rest, as a Configuration
that is applied does.

### What the failing runs show

* `zero_resources`: `status.resources` is that of the last successful run; after
  a generation without resources and an apply that fails half way, deletion
  skips terraform destroy although resources exist.
* `reset_lost`: the approval is withdrawn on the Configuration first and on the
  CloudResource second. When the second patch fails, the next run finds the
  Configuration as it wants it and does not try again; the CloudResource
  controller copies the old approval down, and terraform apply runs for a
  generation nobody approved.
* `resource_stuck`: the update that removes a CloudResource's finalizer is
  validated like a creation and refused once the revision is gone.

### Met while modelling, without a run

No line of the repository promises otherwise, or the model leaves the case out;
a reader of the code should know them.

* The deletion chain does not wait for running jobs (`delete.go:120`), and apply
  runs with `-lock=false`. A Configuration that was applied is edited, and deleted
  while the apply of the edit runs; the destroy is started beside it and ends
  first, the apply creates its resources after it, and the next run finds a
  complete destroy and releases the finalizer. `ReleaseAccounted` names this as one
  of three ways to lose resources.
* The plan, the report and the state are read from an informer that follows the
  jobs' at its own pace (`ensure.go:1027`, `1157`, `1274`). A run that finds a plan job
  complete and is shown the plan before it, one without changes, skips the apply
  and sets the apply condition Ready for a generation that was never applied;
  nothing wakes the controller afterwards. In the same way an apply is labelled
  with an older plan, and a report of an older plan passes for this one's.
* When the plan secret of a first generation is not shown yet, the run ends with
  the ready condition in Error and without a requeue (`ensure.go:1033-1037`): the
  generation stays there until the user acts, although the plan is right. Likewise
  a state secret that is not shown at the end of the chain (`ensure.go:1423`).
* The reset of an approval writes into the CloudResource's annotations without
  asking whether there are any (`ensure.go:963`): for a CloudResource that was
  submitted without, it is a write to a nil map. The panic is recovered from, the
  next run finds the Configuration as it wants it, and the CloudResource never
  shows that it waits for approval.
* A policy with default variables for modules that match a regex which does not
  compile is admitted (`policies/validation.go:105-120`). From then on the mutating
  webhook refuses every write of every Configuration (`mutation.go:161-164`), the
  removal of a finalizer included, until the policy is gone.
* A preload of an unchanged account can change the Context: `eks_tags` comes in the
  random order of a Go map (`eks/helper.go:59-66`, `loader.go:302`), three lists of the
  cluster in the order of the API's answer (`loader.go:278`, `286`, `298`), and what
  shares a sanitized name in an order of its own (`helper.go:32`).
* With manual approval a retry is lost: the run that sees it first resets the
  apply annotation, the status update at its end makes the retry look used
  (`configuration_types.go:595`, `ensure.go:130`).
* That a plan was applied is known only from its job, which is removed after
  28800 s; a restart then applies the same plan again.
* A Revision whose deletion is reconciled while its Plan is not in the cache is
  released and stays in the plan's list (`revision/delete.go:46`).
* `status.latest` of a Plan can be left at an old value by a run on a stale Plan.
* `tnctl verify` reads a nil context when an input refers to a secret
  (`verify/revision.go:676`).
* `tnctl convert` writes through a nil pointer for a revision without variables
  whose inputs have defaults, and stores the answer to a boolean input as a word
  that is not JSON. `tnctl create revision` suggests the context whose description
  is least similar. `tnctl create cloudresource` takes an input that does not
  say whether it is required to be required.

## 9. Fairness

`Configuration`: weak fairness of `Reconcile` (a queued key is taken), of the
three informers (watches deliver), and of every job's steps (a job ends: it has a
back-off limit and its containers end, which `JobEnds` shows of `JobPod`). The
user, the platform, the drift controller, faults and the expiry of jobs are not
fair: nothing obliges them. Where an unfair user can keep the system busy for
ever (approving again and again before there is a plan) the property says so.

`Catalogue`: weak fairness of every controller's runs (ten minute requeue,
workqueue) and of the informers; expiry, users and time are not fair.

`CloudResource`: weak fairness of the runs of both controllers, of the informers
and of the garbage collector: a change of either object wakes its controller,
and the CloudResource controller watches its Configurations.

`JobPod`: weak fairness of each container (commands end, the wait has a time-out),
of the job controller's answer to a pod that has ended and of the log request,
which has a time-out; not of evictions.

`MCPlatform`: weak fairness of the controllers' runs, informers, preload jobs,
the drift worker's timers and resyncs, and of the restarts of the process
(the kubelet restarts it). The read of the provider controller is strongly fair:
it is not possible during a run of the preload controller in the settings where
runs do not overlap, and both controllers are woken by the same events, so that
weak fairness would let the one shut out the other, which two independent
workers do not do.

## 10. Proofs

`ConfigurationProofs` (for all values of the constants that satisfy
`BoundsAssumption` and `SettingsAssumption`: any number of generations, jobs,
retries and faults, and caches that lag arbitrarily):

* `TypeCorrect`: `Spec => []TypeOK`.
* `ApplySafe`: `Spec => []ApplyApproved`. `ApplyApproved` is about jobs, and a
  run decides on the cached object, so it is not inductive. `ApprovalInv` adds
  what connects them: a generation that has been planned carries apply=false,
  stored and cached, unless it was approved; a plan condition that is Ready
  names a generation that was planned; the cache is not ahead; and when the
  cache still waits for an approval that the stored object no longer waits
  for, it was given. The proof first shows of every action of `Reconcile` that
  it is one of three kinds of run (quiet, patching the approval, creating a
  job) and that each of them has the effect `RunEffect`, and then that
  `RunEffect` and the steps of the user, the informers, the platform and the
  jobs preserve the invariant `IInv`.
* `Refinement`: `Spec => ImplementsWorkflow`. Every step is a step of
  `ApprovalWorkflow` or leaves its state unchanged, from the same invariant.

`CatalogueProofs` (any versions, CloudResources and lag): `ExpirySafe`,
`Spec => []HighestKept`. The expire controller works on the cache; the
invariant adds that the cache shows only versions that were submitted and never
the deletion of one that is live. The highest version submitted is then the
highest one listed, whenever it is listed at all.

`JobPodProofs` (any jobs, step retries and back-off limit, from
`LimitAssumption` and `JobsAssumption`): `SourceSafe`, `Spec => []SourceWhole`;
`ReportsSafe`, `Spec => []ReportsOfOnePlan`; `JobRefinement`,
`Spec => ImplementsJob`. None of the three is inductive: whether a reporter may
upload depends on the file it has seen, the file on what terraform uploaded
before it, and that on the secrets a container has left to upload. `IInv` says
so (`Waited`, `Signalled`, `Uploading`), and of the downloads that a container
that fetches something reaches its uploads only with a whole copy (`Commanding`,
`Got`, `Copied`) and that terraform starts after all of them (`InitOrder`). The
proof shows that every step of a container has the effect `RunEffect` and that
`RunEffect`, a new pod and the end of the job preserve `IInv`.

`CloudResourceProofs` (any specs, versions, edits, retries, failed calls and
number of Configurations, from `MaxConfigsAssumption` and `InputsAssumption`):
`OrderSafe`, `Spec => [](~world.resetFails => OrderApproved)`. `OrderApproved`
itself excludes lagging caches; the run `reset_lost` shows why `resetFails` is
excluded too. The theorem has one more hypothesis, `EditsDiffer`: every edit
between generations that can be rendered changes what the CloudResource renders
to. Without it a user could edit A to B, approve B and edit back to A before the controller runs, and the approval would
be taken for A, whose Configuration never changed. What the runs applied is not
inductive, because an approval passes through two objects before a job sees it.
`IInv` says that there is one Configuration at most (`Single`), that it is the
rendering of one generation of the CloudResource (`Follows`), that an approval
on a planned Configuration, or one about to be copied onto it, was given for
that generation (`Earned`, `PushEarned`), and that once an approval has been
withdrawn on both objects one found on the CloudResource is a new one
(`Withdrawn`, `Resets`). Most steps leave all of this alone (`QuietStep`); the
creation, the patch, the two halves of the withdrawal, the plan, the apply, the
edit and the approvals are taken one by one. `IInv` was also checked with TLC on
the instance of `orders`.

`PlansProofs` (any number of generations, jobs, retries, drift checks and faults,
any lag of the secrets; it extends `ConfigurationProofs` and uses `IInv`). All but
the last theorem assume `ReadYourWrites`; each further hypothesis is one without
which TLC finds the property violated.

* `JobsNeverOverlap`: `Spec => []NoOverlap`, and `AppliesOwnPlan`:
  `Spec => []ApplyMatchesPlan`, both from `PlansInv` (`PlansInductive`). That two
  jobs do not run together depends on what the controller sees of them, and
  which plan an apply takes on which job uploaded last. `PlansInv` says that the
  cache shows every status the controller wrote and lags behind the user only
  (`CacheCurrent`); that the generations, retries and drift checks the jobs are
  labelled with never go back, nor beyond the cache (`JobsOrdered`); that every
  job that runs is seen as running (`JobsSeen`), so that from the second
  generation on one starts when the earlier ones have ended (`JobsApart`); and
  that the plan secret is that of the last plan job that uploaded, and a plan
  condition that is Ready is about one that completed (`PlansUploaded`,
  `PlanReady`). An apply whose run was shown the secret as stored (`current`) is
  then for a plan of its own generation; what a run that was not applies is out
  of the controller's hands, and no theorem is about it.
* `PlanAppliedOnce`: `Spec => []AppliedOnce`. Before it creates an apply the
  controller looks for the jobs that carry the plan it is shown, whichever that is,
  so the lag of the secrets does no harm; a job it does not find has expired.
* `ReadyIsApplied`: `Spec => []ReadyMeansApplied`, with `~Expiry`. `CloudInv`
  follows the cloud: without a state secret nothing has been applied
  (`StateRecorded`); a plan without changes found the cloud settled, and it stays
  so (`NoChanges`); an apply that runs is for the plan in the secret and one that
  completed leaves the cloud settled until the next plan (`ApplyEffect`); and an
  apply condition that is Ready, set by a run that was shown the secrets as stored
  (`vouched`), excludes an apply that could still unsettle it (`ReadySettled`). The
  last ones hold while every apply was created by such a run (`AppliesCurrent`).
* `ScannedBeforeApply`: `Spec => [](faults = 0 => PolicyGate)`, with `~Expiry` and
  no constraint withdrawn. `GateInv`: the report secret is that of the last plan
  job that was scanned (`Scanned`), once a job is scanned all later ones are
  (`ScansStay`), and a plan condition that is Ready is about the last plan of its
  generation (`LastPlanReady`), so that plan and report are of the same job, when
  both are shown as stored.
* `DriftChecksRun`: `Spec => []DriftChecked`, without a hypothesis. `DriftInv` adds
  the same of the cached object: the status of a run is computed from it.

The proof first sorts the steps into kinds, once (`StepKinds`: a run that ends, a
job that is created, a write of the user, a delivery, a step of a job ...), and
then takes every part of the invariants through the kinds.

`LifecycleProofs` (the same constants). `NeverFallsSilent`, with `ReadYourWrites`:
`Spec => []NeverSilent`. Not inductive: the key leaves the queue at the end of a
run on a cached object, and what the cache misses must wake the controller again.
`SilenceInv` adds that the cache shows the sync state as it is stored and no reset
of the approval is missing from it (`StatusShown`), and that when nothing is queued
the difference between cache and object passes the event filter or the status
explains the state (`Awake`). The proof goes through the exits of the chain,
`PlanSecretMissing` and `EndOfChain` among them, and shows of every one that does
not requeue that the condition it sets explains it.

`ReleasesAccounted`: `Spec => ReleaseAccounted`, without a hypothesis: caches that
lag, the secrets' too, failed calls, failed and expired jobs, generations without
resources are all allowed. The release is decided on a cached object, cached jobs
and a cached state, so `ReleaseInv` relates them to the cloud. A deletion that is
seen was asked for (`DeletionSeen`); a job seen to complete has completed
(`EndsSeen`); destroys exist only once the deletion is seen, when no apply is created any
more (`DestroysLate`), so that unless one was created beside an apply, none runs
beside one, and when it completes nothing is left (`DestroysAlone`). What remains
is a destroy that is skipped. The property names the state that is not shown; for the
resource count, when every generation has resources and the secrets do not
lag (`CountsTell`), a status that counted found something (`CountsSome`), because
until the deletion is seen an apply that completed or a plan without changes
means a state secret that says so (`CreatedShown`).

`AdmissionProofs` (any scenes that satisfy `ScenesAssumption` and
`PoliciesAssumption`; `AdmissionSpec` is the component without fairness):
`DefaultsSafe`, `AdmissionSpec => []DefaultsEnforced`; `PoliciesHeld`,
`AdmissionSpec => []DefaultsHeld`; `PolicyChosen`, `AdmissionSpec => []PolicyDecided`.
`AdmissionInv` adds that the policies in the cluster, in the caches and under
every Configuration are finitely many and among those submitted (`Shape`), and
that caches that do not lag are current (`Fresh`). The first theorem rests on
lemmas about `LastWins`: in whatever order the maps are merged, a key has the
value of one of the maps that have it, hence of all when they agree. The last
one compares the weights with `MoreSpecific`: a weight is 0, 10, 20 or 30, higher
exactly for the more specific constraint, so that the maximum picks the best.

Of the commands of tnctl (any benches that satisfy `BenchesAssumption`;
`AuthoringSpec` is the component without fairness): `VerdictsHold`,
`AuthoringSpec => []VerdictHolds`, and `CodeIsWhatRuns`, `AuthoringSpec => []CodeAgrees`.
Both compare what a command reported with what the webhooks and the job would do
now, so their steps are one per command. `AuthoringInv` only says that drafts and
clusters have the shape the operators expect; the work is in lemmas about the
operators: looking a context up by name in a list finds what the cluster has
under that name, and the variables of `tnctl convert` and those of the job, which
also go through the values of a CloudResource, have the same values one by one,
but for the inputs still to be filled in.

`PlatformProofs` (any flags, launches, outages and finite set of custom
resources, from `RolloutsAssumption`; any specs, jobs, edits, faults and accounts,
from the `SettingsAssumption` and `CloudsAssumption` of `ProviderPreload`; any finite
fleet and threshold, from the `FleetAssumption` and `ThresholdAssumption` of `Drift`):

* `ServerComplete`: `ServerSpec => []ServingComplete`. A start works through lists
  and can end anywhere, so `ServerInv` says what is done of a list: a custom
  resource that is not established is still in the list (`CrdsPending`), whatever
  the order it was listed in; a webhook whose document is no longer in the list
  is registered exactly if the flags ask for it, with the present CA, and the
  others, left by earlier processes, have the same paths (`HooksDone`).
* `PreloadsOneAtATime`: `PreloadSpec => []PreloadOnce`. `PreloadInv` says that the
  job cache is behind, but never shows a job that runs as ended (`JobsBehind`),
  that only the latest job can be running (`OnlyLatest`), and that while the cache
  misses a job the Provider, and the run that has read it, carry the time of the
  last preload (`Stamped`).
* `ContextIsStable`: `PreloadSpec => ContextStable`. Two preloads of the same account
  list it in different orders, so `ContextInv` says that whatever order the
  account it was loaded from is listed in, what that loads is in the
  Context, the four unsorted lists as sets (`Covers`). It rests on lemmas that
  sorting undoes the order of subnets and route tables, that with distinct keys the
  last one named is the only one, and that every listing has the same members.
* `DriftShareKept`: `DriftSpec => ShareKept`. `FleetInv` adds that a check that was
  taken up is a plan that runs (`ChecksPlan`), so that the worker counts it, and
  that the cache shows the fleet when it does not lag. The bound follows from the
  count the worker compares with the threshold before it asks for one more.

Only model-checked: the liveness properties, which need fairness and ENABLED and
so are beyond the proof system. These are `GenerationDecided`, `DeletionEnds`,
`RetryRuns`, `RevisionsListed`, `RevisionDeletionEnds`, `OrderFollowed`,
`ApprovalAsked`, `ApprovalCarried`, `OrderRemoved`, `JobEnds`, `LogsEnd`, `Deletable`,
`ProviderSettles`, `DriftNotForgotten` and `ServerSettles`.

## 11. Not modelled

* tnctl search, describe, logs, state, config and the kubectl plug-in: they
  print what registries or the cluster return. `tnctl state clean` deletes
  secrets of Configurations that are gone after asking the user, one list and
  one loop. tnctl create configuration and workflow, convert cloudresource, the
  outputs a new revision lists, prompts and layout.
* The watcher job, which only prints logs; the cost report; metrics; leader
  election, which the modules assume where they have one worker.
* Generated code: deep copies and embedded manifests.
* The inputs and variables the webhooks of CloudResources and Revisions check
  against each other, and the well-formedness of one object on its own, which is
  a flag: parsing and schema checks of single objects.
* The service account of a provider with injected identity, which is only
  looked for. Credentials and URLs of the source downloader, which are
  alternatives that succeed or fail.
* What Terraform, infracost and checkov compute: their runs succeed, fail or are
  cut off. terraform apply runs without the plan file that was approved
  (`job.yaml.tpl:231`), so `ApplyMatchesPlan` says which plan was looked at.
