------------------------------- MODULE JobPod --------------------------------
(***************************************************************************)
(* A terraform job from the inside: the pods it runs one after the other,  *)
(* the containers of a pod (pkg/assets/job.yaml.tpl), each of which runs   *)
(* the step program (cmd/step) and some the source downloader              *)
(* (cmd/source), and the API server that streams the logs of a pod to a    *)
(* watcher (pkg/apiserver).                                                *)
(*                                                                         *)
(* Init containers run one after the other, the others at the same time.   *)
(* Those wait for each other by files in a volume of the pod.  What leaves *)
(* the pod are secrets, which outlive it: a second pod finds the secrets   *)
(* of the first.                                                           *)
(*                                                                         *)
(* Variables:                                                              *)
(*   job      the stage and options the job was rendered with              *)
(*   status   of the job: "active", "complete" or "failed"                 *)
(*   attempt  the pod that runs, counted from 1                            *)
(*   ctr      where each container of that pod is                          *)
(*   files    the signal files in its volume                               *)
(*   temp     what is in the download directory of each container          *)
(*   data     what it copied to the destination                            *)
(*   secrets  the pod that uploaded each secret last, 0 if none            *)
(*   ended    the containers whose logs are there, by pod (history)        *)
(*   view     the request for the logs                                     *)
(***************************************************************************)
EXTENDS Naturals, Sequences, FiniteSets, SequencesExt

CONSTANTS
  Jobs,            \* input: the jobs, by stage and options
  BackoffLimit     \* of the job: pods that may fail before it has failed

ASSUME LimitAssumption == BackoffLimit \in Nat

VARIABLES job, status, attempt, ctr, files, temp, data, secrets, ended, view

pod == <<job, status, attempt>>
volume == <<files, temp, data>>
vars == <<pod, ctr, volume, secrets, ended, view>>

-----------------------------------------------------------------------------
(***************************************************************************)
(* The template: the containers of a job and the step each one runs.       *)
(***************************************************************************)
Secrets == {"planJSON", "planOut", "state", "costs", "policy"}

(* retries is the retry-attempts of its steps, 0 unless the template is    *)
(* replaced; watch says whether a watcher follows the job.                 *)
Job ==
  [stage : {"plan", "apply", "destroy"}, costs : BOOLEAN, save : BOOLEAN,
   policy : {"none", "source", "external", "inline"}, retries : Nat,
   watch : BOOLEAN]

ASSUME JobsAssumption == Jobs \subseteq Job

HasPolicy(j) == j.stage = "plan" /\ j.policy # "none"
HasCosts(j) == j.stage = "plan" /\ j.costs

InitContainers(j) ==
  CASE HasPolicy(j) /\ j.policy = "source" -> <<"setup", "init", "policy-source">>
    [] HasPolicy(j) /\ j.policy = "external" -> <<"setup", "init", "policy-external">>
    [] OTHER -> <<"setup", "init">>

MainContainers(j) ==
  CASE HasCosts(j) /\ HasPolicy(j) -> <<"terraform", "costs", "verify-policy">>
    [] HasCosts(j) /\ ~HasPolicy(j) -> <<"terraform", "costs">>
    [] ~HasCosts(j) /\ HasPolicy(j) -> <<"terraform", "verify-policy">>
    [] OTHER -> <<"terraform">>

Containers(j) == InitContainers(j) \o MainContainers(j)

(* A step that is on its own, and one that waits for terraform. *)
Alone(commands, uploads) ==
  [commands |-> commands, uploads |-> uploads, waits |-> FALSE,
   signals |-> FALSE, namespace |-> TRUE]

Waits(commands, uploads) == [Alone(commands, uploads) EXCEPT !.waits = TRUE]
Signals(commands, uploads) == [Alone(commands, uploads) EXCEPT !.signals = TRUE]

TerraformStep(j) ==
  CASE j.stage = "plan" ->
         Signals(<<"plan", "show">>, {"planJSON", "planOut"})
    [] j.stage = "apply" /\ j.save -> Signals(<<"apply", "state pull">>, {"state"})
    [] j.stage = "apply" /\ ~j.save -> Signals(<<"apply">>, {})
    [] j.stage = "destroy" -> Signals(<<"destroy">>, {})

(* Faulty: the costs are evaluated without waiting for the plan. *)
StepNoWait(j, c) ==
  CASE c \in {"setup", "policy-external"} -> Alone(<<"prepare", "source">>, {})
    [] c = "policy-source" -> Alone(<<"source">>, {})
    [] c = "init" -> Alone(<<"init">>, {})
    [] c = "terraform" -> TerraformStep(j)
    [] c = "costs" -> Alone(<<"breakdown">>, {"costs"})
    [] c = "verify-policy" -> Waits(<<"checkov">>, {"policy"})

Step(j, c) ==
  CASE c \in {"setup", "policy-external"} -> Alone(<<"prepare", "source">>, {})
    [] c = "policy-source" -> Alone(<<"source">>, {})
    [] c = "init" -> Alone(<<"init">>, {})
    [] c = "terraform" -> TerraformStep(j)
    [] c = "costs" -> Waits(<<"breakdown">>, {"costs"})
    [] c = "verify-policy" -> Waits(<<"checkov">>, {"policy"})

(* Step.IsValid *)
IsValid(s) == Len(s.commands) > 0 /\ (s.uploads # {} => s.namespace)

Promised(j) ==
  UNION {Step(j, c).uploads : c \in ToSet(MainContainers(j))}

-----------------------------------------------------------------------------
AllContainers ==
  {"setup", "init", "policy-source", "policy-external", "terraform", "costs",
   "verify-policy"}

Places == {"blocked", "waiting", "running", "getting", "got", "uploading", "ok",
           "failed"}

ContainerState ==
  [at : Places, command : Nat, tries : Nat, left : SUBSET Secrets]

NotStarted == [at |-> "blocked", command |-> 1, tries |-> 0, left |-> {}]
Fresh == [c \in AllContainers |-> NotStarted]
NoFiles == [c \in AllContainers |-> "none"]

Viewer ==
  [at : {"none", "finding", "streaming", "completed", "error", "bad request"},
   pod : Nat, next : Nat]

Init ==
  /\ job \in Jobs
  /\ status = "active" /\ attempt = 1
  /\ ctr = Fresh
  /\ files = {} /\ temp = NoFiles /\ data = NoFiles
  /\ secrets = [s \in Secrets |-> 0]
  /\ ended = {}
  /\ view = [at |-> "none", pod |-> 0, next |-> 1]

InitDone == \A c \in ToSet(InitContainers(job)) : ctr[c].at = "ok"
Started(c) == ctr[c].at # "blocked"
Ended(c) == ctr[c].at \in {"ok", "failed"}
AnyFailed == \E c \in AllContainers : ctr[c].at = "failed"

(* An init container waits for the ones before it, the others for all. *)
MayStart(c) ==
  \/ \E i \in 1..Len(InitContainers(job)) :
       /\ InitContainers(job)[i] = c
       /\ \A k \in 1..(i - 1) : ctr[InitContainers(job)[k]].at = "ok"
  \/ c \in ToSet(MainContainers(job)) /\ InitDone

Move(c, place) == ctr' = [ctr EXCEPT ![c].at = place]

End(c) == ended' = ended \cup {<<attempt, c>>}

-----------------------------------------------------------------------------
(***************************************************************************)
(* Run of cmd/step.                                                        *)
(***************************************************************************)
Begin(c) ==
  /\ status = "active" /\ ~Started(c) /\ MayStart(c)
  /\ IF ~IsValid(Step(job, c)) THEN Move(c, "failed") /\ End(c)
     ELSE /\ Move(c, IF Step(job, c).waits THEN "waiting" ELSE "running")
          /\ UNCHANGED ended
  /\ UNCHANGED <<pod, volume, secrets, view>>

(* The failure file is looked at before the file that is waited for. *)
FindSignal(c) ==
  /\ status = "active" /\ ctr[c].at = "waiting"
  /\ files \cap {"terraform.failed", "terraform.complete"} # {}
  /\ IF "terraform.failed" \in files THEN Move(c, "failed") /\ End(c)
     ELSE Move(c, "running") /\ UNCHANGED ended
  /\ UNCHANGED <<pod, volume, secrets, view>>

(* Faulty: the step waits without a timeout. *)
WaitsForever(c) == ctr[c].at = "waiting" /\ FALSE /\ UNCHANGED vars

WaitTimeout(c) ==
  /\ status = "active" /\ ctr[c].at = "waiting"
  /\ Move(c, "failed") /\ End(c)
  /\ UNCHANGED <<pod, volume, secrets, view>>

Command(c) == Step(job, c).commands[ctr[c].command]

(* After the last command come the uploads, all of them or none. *)
Succeeded(c) ==
  IF ctr[c].command < Len(Step(job, c).commands)
  THEN [at |-> "running", command |-> ctr[c].command + 1, tries |-> 0, left |-> {}]
  ELSE [ctr[c] EXCEPT !.at = "uploading", !.left = Step(job, c).uploads]

CommandSucceeds(c) ==
  /\ status = "active" /\ ctr[c].at = "running" /\ Command(c) # "source"
  /\ ctr' = [ctr EXCEPT ![c] = Succeeded(c)]
  /\ UNCHANGED <<pod, volume, secrets, ended, view>>

(* A command that fails is tried again, and then the failure is signalled; *)
(* terraform init is run by its container, without a step.                 *)
Fails(c) ==
  IF c # "init" /\ ctr[c].tries < job.retries
  THEN /\ ctr' = [ctr EXCEPT ![c].at = "running", ![c].tries = @ + 1]
       /\ UNCHANGED <<files, ended>>
  ELSE /\ Move(c, "failed") /\ End(c)
       /\ files' = IF Step(job, c).signals THEN files \cup {"terraform.failed"}
                   ELSE files

CommandFails(c) ==
  /\ status = "active" /\ ctr[c].at = "running" /\ Command(c) # "source"
  /\ Fails(c)
  /\ UNCHANGED <<pod, temp, data, secrets, view>>

(* uploadSecret, the pairs in any order. *)
Upload(c) ==
  /\ status = "active" /\ ctr[c].at = "uploading"
  /\ \E s \in ctr[c].left :
       /\ secrets' = [secrets EXCEPT ![s] = attempt]
       /\ ctr' = [ctr EXCEPT ![c].left = @ \ {s}]
  /\ UNCHANGED <<pod, volume, ended, view>>

(* Faulty: an upload that fails is skipped. *)
UploadSkipped(c) ==
  /\ status = "active" /\ ctr[c].at = "uploading"
  /\ \E s \in ctr[c].left : ctr' = [ctr EXCEPT ![c].left = @ \ {s}]
  /\ UNCHANGED <<pod, volume, secrets, ended, view>>

(* Both tries failed, though one may have reached the API server.  Neither *)
(* signal file is written.                                                 *)
UploadFails(c) ==
  /\ status = "active" /\ ctr[c].at = "uploading"
  /\ \E s \in ctr[c].left :
       secrets' \in {secrets, [secrets EXCEPT ![s] = attempt]}
  /\ Move(c, "failed") /\ End(c)
  /\ UNCHANGED <<pod, volume, view>>

StepEnds(c) ==
  /\ status = "active" /\ ctr[c].at = "uploading" /\ ctr[c].left = {}
  /\ Move(c, "ok") /\ End(c)
  /\ files' = IF Step(job, c).signals THEN files \cup {"terraform.complete"}
              ELSE files
  /\ UNCHANGED <<pod, temp, data, secrets, view>>

-----------------------------------------------------------------------------
(***************************************************************************)
(* Run of cmd/source: the download goes to a directory of its own, which   *)
(* is emptied first, in a goroutine; the loop returns at the first of      *)
(* done, error, signal and timeout; then the directory is copied over.     *)
(***************************************************************************)
(* The first credential of the environment that is set is used; its key    *)
(* file may be missing, its url may not parse.                             *)
SourceStarts(c) ==
  /\ status = "active" /\ ctr[c].at = "running" /\ Command(c) = "source"
  /\ Move(c, "getting")
  /\ temp' = [temp EXCEPT ![c] = "none"]
  /\ UNCHANGED <<pod, files, data, secrets, ended, view>>

SourceRefused(c) ==
  /\ status = "active" /\ ctr[c].at = "running" /\ Command(c) = "source"
  /\ Fails(c)
  /\ UNCHANGED <<pod, temp, data, secrets, view>>

SourceGets(c) ==
  /\ status = "active" /\ ctr[c].at = "getting"
  /\ Move(c, "got")
  /\ temp' = [temp EXCEPT ![c] = "whole"]
  /\ UNCHANGED <<pod, files, data, secrets, ended, view>>

(* Faulty: a download that has timed out is taken for one that is done. *)
SourceBreaksSilently(c) ==
  /\ status = "active" /\ ctr[c].at = "getting"
  /\ Move(c, "got")
  /\ temp' = [temp EXCEPT ![c] = "partial"]
  /\ UNCHANGED <<pod, files, data, secrets, ended, view>>

SourceBreaks(c) ==
  /\ status = "active" /\ ctr[c].at = "getting"
  /\ \E t \in {"partial", "whole"} : temp' = [temp EXCEPT ![c] = t]
  /\ Fails(c)
  /\ UNCHANGED <<pod, data, secrets, view>>

SourceCopies(c) ==
  /\ status = "active" /\ ctr[c].at = "got"
  /\ data' = [data EXCEPT ![c] = temp[c]]
  /\ ctr' = [ctr EXCEPT ![c] = Succeeded(c)]
  /\ UNCHANGED <<pod, files, temp, secrets, ended, view>>

SourceCopyFails(c) ==
  /\ status = "active" /\ ctr[c].at = "got"
  /\ data' = [data EXCEPT ![c] = "partial"]
  /\ Fails(c)
  /\ UNCHANGED <<pod, temp, secrets, view>>

Run(c) ==
  \/ Begin(c) \/ FindSignal(c) \/ WaitTimeout(c)
  \/ CommandSucceeds(c) \/ CommandFails(c)
  \/ SourceStarts(c) \/ SourceRefused(c) \/ SourceGets(c) \/ SourceBreaks(c)
  \/ SourceCopies(c) \/ SourceCopyFails(c)
  \/ Upload(c) \/ UploadFails(c) \/ StepEnds(c)

-----------------------------------------------------------------------------
(***************************************************************************)
(* Kubernetes (external): the end of a pod, and the job controller.        *)
(***************************************************************************)
PodFailed ==
  /\ AnyFailed
  /\ \/ ~InitDone
     \/ \A c \in ToSet(MainContainers(job)) : Ended(c)

PodSucceeded ==
  InitDone /\ \A c \in ToSet(MainContainers(job)) : ctr[c].at = "ok"

NextPod ==
  \/ /\ attempt <= BackoffLimit
     /\ attempt' = attempt + 1
     /\ ctr' = Fresh /\ files' = {} /\ temp' = NoFiles /\ data' = NoFiles
     /\ UNCHANGED status
  \/ /\ attempt > BackoffLimit
     /\ status' = "failed"
     /\ UNCHANGED <<attempt, ctr, volume>>

FailPod ==
  /\ status = "active" /\ PodFailed
  /\ NextPod
  /\ UNCHANGED <<job, secrets, ended, view>>

(* The node is lost or drained: the pod and its logs are gone. *)
EvictPod ==
  /\ status = "active" /\ ~PodSucceeded
  /\ NextPod
  /\ ended' = {e \in ended : e[1] # attempt}
  /\ UNCHANGED <<job, secrets, view>>

CompleteJob ==
  /\ status = "active" /\ PodSucceeded
  /\ status' = "complete"
  /\ UNCHANGED <<job, attempt, ctr, volume, secrets, ended, view>>

-----------------------------------------------------------------------------
(***************************************************************************)
(* handleBuilds of the API server.                                         *)
(***************************************************************************)
(* validateInput: five parameters, each of a bounded alphabet. *)
Request ==
  /\ view.at = "none" /\ job.watch
  /\ \E a \in {"finding", "bad request"} : view' = [view EXCEPT !.at = a]
  /\ UNCHANGED <<pod, ctr, volume, secrets, ended>>

(* FindLatestPod: the pods of a job are created one after the other. *)
LatestPod == attempt

(* The latest pod of the latest job, once it runs or has ended; a pod that *)
(* is in its init containers is pending.                                   *)
FindPod ==
  /\ view.at = "finding"
  /\ InitDone \/ PodFailed \/ status # "active"
  /\ view' = [view EXCEPT !.at = "streaming", !.pod = LatestPod]
  /\ UNCHANGED <<pod, ctr, volume, secrets, ended>>

FindTimeout ==
  /\ view.at = "finding"
  /\ view' = [view EXCEPT !.at = "error"]
  /\ UNCHANGED <<pod, ctr, volume, secrets, ended>>

(* Faulty: the stream waits for every container in turn. *)
StreamWaits ==
  /\ view.at = "streaming" /\ view.next <= Len(Containers(job))
  /\ <<view.pod, Containers(job)[view.next]>> \in ended
  /\ view' = [view EXCEPT !.next = @ + 1]
  /\ UNCHANGED <<pod, ctr, volume, secrets, ended>>

(* The containers in order, each followed to its end.  There is no log of  *)
(* one that never started, or of a pod that is gone.                       *)
StreamLogs ==
  /\ view.at = "streaming" /\ view.next <= Len(Containers(job))
  /\ LET c == Containers(job)[view.next] IN
       \/ /\ <<view.pod, c>> \in ended
          /\ view' = [view EXCEPT !.next = @ + 1]
       \/ /\ <<view.pod, c>> \notin ended
          /\ \/ view.pod # attempt \/ status # "active"
             \/ ~Started(c)
          /\ view' = [view EXCEPT !.at = "error"]
  /\ UNCHANGED <<pod, ctr, volume, secrets, ended>>

StreamEnds ==
  /\ view.at = "streaming" /\ view.next > Len(Containers(job))
  /\ view' = [view EXCEPT !.at = "completed"]
  /\ UNCHANGED <<pod, ctr, volume, secrets, ended>>

Serve == FindPod \/ FindTimeout \/ StreamLogs \/ StreamEnds

-----------------------------------------------------------------------------
Next ==
  \/ \E c \in AllContainers : Run(c)
  \/ FailPod \/ EvictPod \/ CompleteJob
  \/ Request \/ Serve

Spec == Init /\ [][Next]_vars

(***************************************************************************)
(* Containers are scheduled, their commands end (terraform is run without  *)
(* input and without locks), the wait and the request have timeouts, and   *)
(* the job controller acts on pods that have ended.                        *)
(***************************************************************************)
Fairness ==
  /\ \A c \in AllContainers : WF_vars(Run(c))
  /\ WF_vars(FailPod) /\ WF_vars(CompleteJob) /\ WF_vars(Serve)

FairSpec == Spec /\ Fairness

-----------------------------------------------------------------------------
(***************************************************************************)
(* The reports the controller reads are about the plan it applies: no      *)
(* report is from a later pod than the plan, and when the job is complete  *)
(* every secret of the stage comes from the pod that completed it, although*)
(* secrets of a pod that failed are still there (Run and uploadSecret of   *)
(* cmd/step, the wait-on arguments of the template).                       *)
(***************************************************************************)
ReportsOfOnePlan ==
  /\ \A r \in {"costs", "policy"} : \A p \in {"planJSON", "planOut"} :
       secrets[r] <= secrets[p]
  /\ status = "complete" => \A s \in Promised(job) : secrets[s] = attempt

(***************************************************************************)
(* Terraform never starts on a module, nor a scan on policies, that were   *)
(* downloaded or copied in part (Run of cmd/source, the order of the init  *)
(* containers).                                                            *)
(***************************************************************************)
SourceWhole ==
  /\ Started("init") => data["setup"] = "whole"
  /\ \A c \in {"policy-source", "policy-external"} :
       c \in ToSet(InitContainers(job)) /\ Started("terraform") => data[c] = "whole"

(***************************************************************************)
(* A job ends, whatever fails in it: a container that waits for a signal   *)
(* nobody writes any more gives up (RetryWithTimeout in Run of cmd/step).  *)
(***************************************************************************)
JobEnds == <>(status # "active")

(***************************************************************************)
(* A request for the logs is answered to the end, also when the pod it     *)
(* follows fails in an init container, is replaced or evicted              *)
(* (handleBuilds).                                                         *)
(***************************************************************************)
LogsEnd == (view.at = "finding") ~> (view.at \in {"completed", "error"})

(***************************************************************************)
(* For the controller the pods of a job are one job that ends once, with   *)
(* all its secrets when it ends well.                                      *)
(***************************************************************************)
Abstract ==
  INSTANCE TerraformJob WITH
    promised <- Promised(job),
    uploaded <- {s \in Secrets : secrets[s] # 0}

ImplementsJob == Abstract!Spec
=============================================================================
