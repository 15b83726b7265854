---------------------------- MODULE JobPodProofs -----------------------------
(***************************************************************************)
(* Proofs about module JobPod, for every set of jobs and every back-off    *)
(* limit: no container runs on a module that was fetched in part, the      *)
(* reports of a job are about its plan, and the pods of a job implement    *)
(* TerraformJob. A step of a container is first shown to have one of a few *)
(* effects (RunEffect); the inductive invariant IInv follows from the      *)
(* effect alone.                                                           *)
(***************************************************************************)
EXTENDS JobPod, TLAPS

(* The containers that wait for terraform, the ones that fetch something,  *)
(* the signal files and the states of a directory.                         *)
Reporters == {"costs", "verify-policy"}
Fetchers == {"setup", "policy-source", "policy-external"}
Files == {"terraform.failed", "terraform.complete"}
Fetched == {"none", "partial", "whole"}

(* What each step of the template uploads: the reporters one report each,  *)
(* terraform the plan in a job that plans, the others nothing.             *)
LEMMA StepUploads ==
  ASSUME NEW j \in Job, NEW c \in AllContainers
  PROVE  /\ Step(j, c).uploads \subseteq Secrets
         /\ c \notin Reporters \cup {"terraform"} => Step(j, c).uploads = {}
         /\ c = "costs" => Step(j, c).uploads = {"costs"}
         /\ c = "verify-policy" => Step(j, c).uploads = {"policy"}
         /\ c = "terraform" => Step(j, c).uploads \cap {"costs", "policy"} = {}
         /\ c = "terraform" /\ j.stage = "plan" =>
              Step(j, c).uploads = {"planJSON", "planOut"}
BY DEF Step, TerraformStep, Alone, Waits, Signals, Job, AllContainers, Secrets, Reporters

(* Only the reporters wait, and only terraform signals. *)
LEMMA StepSignals ==
  ASSUME NEW j \in Job, NEW c \in AllContainers
  PROVE  /\ Step(j, c).waits <=> c \in Reporters
         /\ Step(j, c).signals <=> c = "terraform"
BY DEF Step, TerraformStep, Alone, Waits, Signals, Job, AllContainers, Reporters

(* What fetches something does so with its last command. *)
LEMMA StepCommands ==
  ASSUME NEW j \in Job, NEW c \in Fetchers
  PROVE  /\ Len(Step(j, c).commands) \in Nat \ {0}
         /\ Step(j, c).commands[Len(Step(j, c).commands)] = "source"
BY DEF Step, Alone, Fetchers

(* The containers that run at the same time. *)
LEMMA MainSet ==
  ASSUME NEW j \in Job
  PROVE  ToSet(MainContainers(j)) =
           {"terraform"} \cup (IF HasCosts(j) THEN {"costs"} ELSE {})
                         \cup (IF HasPolicy(j) THEN {"verify-policy"} ELSE {})
<1>1. CASE HasCosts(j) /\ HasPolicy(j)
  <2>1. MainContainers(j) = <<"terraform", "costs", "verify-policy">>
    BY <1>1 DEF MainContainers
  <2> QED
    BY <1>1, <2>1 DEF ToSet
<1>2. CASE HasCosts(j) /\ ~HasPolicy(j)
  <2>1. MainContainers(j) = <<"terraform", "costs">>
    BY <1>2 DEF MainContainers
  <2> QED
    BY <1>2, <2>1 DEF ToSet
<1>3. CASE ~HasCosts(j) /\ HasPolicy(j)
  <2>1. MainContainers(j) = <<"terraform", "verify-policy">>
    BY <1>3 DEF MainContainers
  <2> QED
    BY <1>3, <2>1 DEF ToSet
<1>4. CASE ~HasCosts(j) /\ ~HasPolicy(j)
  <2>1. MainContainers(j) = <<"terraform">>
    BY <1>4 DEF MainContainers
  <2> QED
    BY <1>4, <2>1 DEF ToSet
<1> QED
  BY <1>1, <1>2, <1>3, <1>4

(* The init containers, in their order. *)
LEMMA InitSeq ==
  ASSUME NEW j \in Job
  PROVE  /\ Len(InitContainers(j)) \in {2, 3}
         /\ InitContainers(j)[1] = "setup" /\ InitContainers(j)[2] = "init"
         /\ Len(InitContainers(j)) = 3 =>
              InitContainers(j)[3] \in {"policy-source", "policy-external"}
         /\ DOMAIN InitContainers(j) = 1..Len(InitContainers(j))
<1>1. CASE HasPolicy(j) /\ j.policy = "source"
  <2>1. InitContainers(j) = <<"setup", "init", "policy-source">>
    BY <1>1 DEF InitContainers
  <2> QED
    BY <2>1
<1>2. CASE HasPolicy(j) /\ j.policy = "external"
  <2>1. InitContainers(j) = <<"setup", "init", "policy-external">>
    BY <1>2 DEF InitContainers
  <2> QED
    BY <2>1
<1>3. CASE ~(HasPolicy(j) /\ j.policy \in {"source", "external"})
  <2>1. InitContainers(j) = <<"setup", "init">>
    BY <1>3 DEF InitContainers
  <2> QED
    BY <2>1
<1> QED
  BY <1>1, <1>2, <1>3

(* All init containers but terraform init fetch something. *)
LEMMA InitSet ==
  ASSUME NEW j \in Job
  PROVE  /\ {"setup", "init"} \subseteq ToSet(InitContainers(j))
         /\ ToSet(InitContainers(j)) \subseteq Fetchers \cup {"init"}
BY InitSeq DEF ToSet, Fetchers

-----------------------------------------------------------------------------
(* The types. *)
Shape ==
  /\ job \in Job
  /\ status \in {"active", "complete", "failed"}
  /\ attempt \in Nat \ {0}
  /\ ctr \in [AllContainers -> ContainerState]
  /\ files \subseteq Files
  /\ temp \in [AllContainers -> Fetched]
  /\ data \in [AllContainers -> Fetched]
  /\ secrets \in [Secrets -> Nat]

(* No secret is from a pod to come. *)
SecretsPast == \A s \in Secrets : secrets[s] <= attempt

Uploads(c) == Step(job, c).uploads

(* Only containers of the job have started. *)
Placed ==
  \A c \in AllContainers :
    Started(c) => c \in ToSet(InitContainers(job)) \cup ToSet(MainContainers(job))

(* What fetches something is at one of its commands. *)
Commanding ==
  \A c \in Fetchers : ctr[c].command \in 1..Len(Step(job, c).commands)

(* What a container has not left to upload, it has uploaded. *)
Uploading ==
  \A c \in AllContainers : ctr[c].at = "uploading" =>
    /\ ctr[c].left \subseteq Uploads(c)
    /\ \A s \in Uploads(c) \ ctr[c].left : secrets[s] = attempt

(* A container that ended well has uploaded everything. *)
Uploaded ==
  \A c \in AllContainers : ctr[c].at = "ok" =>
    \A s \in Uploads(c) : secrets[s] = attempt

(* So has terraform when it has signalled. *)
Signalled ==
  "terraform.complete" \in files => \A s \in Uploads("terraform") : secrets[s] = attempt

(* A reporter past its wait has seen the signal. *)
Waited ==
  \A c \in Reporters :
    ctr[c].at \notin {"blocked", "waiting", "failed"} => "terraform.complete" \in files

(* What was got is whole, and so is the copy when its container goes on. *)
Got == \A c \in AllContainers : ctr[c].at = "got" => temp[c] = "whole"

Copied == \A c \in Fetchers : ctr[c].at \in {"uploading", "ok"} => data[c] = "whole"

(* terraform init starts after the download, terraform after all init      *)
(* containers.                                                             *)
InitOrder ==
  /\ Started("init") => ctr["setup"].at = "ok"
  /\ Started("terraform") => InitDone

(* No report is newer than the plan. *)
Reported ==
  \A r \in {"costs", "policy"} : \A p \in {"planJSON", "planOut"} : secrets[r] <= secrets[p]

(* A complete job has a pod that succeeded. *)
Completed == status = "complete" => PodSucceeded

(* The inductive invariant. *)
IInv ==
  /\ Shape /\ SecretsPast /\ Placed /\ Commanding /\ Uploading /\ Uploaded
  /\ Signalled /\ Waited /\ Got /\ Copied /\ InitOrder /\ Reported /\ Completed

-----------------------------------------------------------------------------
(* How a container moves. *)
MoveEffect(c) ==
  /\ status = "active" /\ UNCHANGED <<job, status, attempt>>
  /\ ctr' \in [AllContainers -> ContainerState]
  /\ \A d \in AllContainers \ {c} : ctr'[d] = ctr[d]
  /\ ctr[c].at \notin {"ok", "failed"} /\ ctr'[c].at # "blocked"
  /\ ctr[c].at = "blocked" => MayStart(c) /\ ctr'[c].at \in {"waiting", "running", "failed"}
  /\ c \in Reporters /\ ctr[c].at = "blocked" => ctr'[c].at # "running"
  /\ ctr[c].at = "waiting" /\ ctr'[c].at # "failed" => "terraform.complete" \in files
  /\ c \in Fetchers => ctr'[c].command \in 1..Len(Step(job, c).commands)

(* How it writes to what is shared. *)
WriteEffect(c) ==
  /\ files \subseteq files' /\ files' \subseteq Files
  /\ "terraform.complete" \in files' \ files =>
       c = "terraform" /\ ctr[c].at = "uploading" /\ ctr[c].left = {}
  /\ secrets' \in [Secrets -> Nat]
  /\ \A s \in Secrets :
       \/ secrets'[s] = secrets[s]
       \/ secrets'[s] = attempt /\ ctr[c].at = "uploading" /\ s \in ctr[c].left
  /\ ctr'[c].at = "uploading" =>
       \/ ctr[c].at = "uploading" /\ ctr'[c].left \subseteq ctr[c].left
          /\ \A s \in ctr[c].left \ ctr'[c].left : secrets'[s] = attempt
       \/ ctr'[c].left = Uploads(c)
  /\ ctr'[c].at = "ok" => ctr[c].at = "uploading" /\ ctr[c].left = {}

(* How it fetches. *)
FetchEffect(c) ==
  /\ temp' \in [AllContainers -> Fetched] /\ data' \in [AllContainers -> Fetched]
  /\ \A d \in AllContainers \ {c} : temp'[d] = temp[d] /\ data'[d] = data[d]
  /\ ctr'[c].at = "got" => temp'[c] = "whole"
  /\ c \in Fetchers /\ ctr'[c].at \in {"uploading", "ok"} => data'[c] = "whole"

RunEffect(c) == MoveEffect(c) /\ WriteEffect(c) /\ FetchEffect(c)

USE DEF Files, Fetched, Places

(* A command that fails leaves its container running or failed, and        *)
(* signals no success.                                                     *)
LEMMA FailsEffect ==
  ASSUME IInv, NEW c \in AllContainers, Fails(c)
  PROVE  /\ ctr' \in [AllContainers -> ContainerState]
         /\ \A d \in AllContainers \ {c} : ctr'[d] = ctr[d]
         /\ ctr'[c].at \in {"running", "failed"}
         /\ ctr'[c].command = ctr[c].command
         /\ files \subseteq files' /\ files' \subseteq Files
         /\ "terraform.complete" \notin files' \ files
BY DEF IInv, Shape, Fails, Move, End, ContainerState

(* A command that succeeds is followed by the next one or by the uploads;  *)
(* what fetches something gets to the uploads only by fetching.            *)
LEMMA SucceededEffect ==
  ASSUME IInv, NEW c \in AllContainers
  PROVE  /\ Succeeded(c) \in ContainerState
         /\ Succeeded(c).at \in {"running", "uploading"}
         /\ Succeeded(c).at = "uploading" => Succeeded(c).left = Uploads(c)
         /\ c \in Fetchers => Succeeded(c).command \in 1..Len(Step(job, c).commands)
         /\ c \in Fetchers /\ Succeeded(c).at = "uploading" => Command(c) = "source"
<1>1. ctr[c] \in ContainerState /\ job \in Job
  BY DEF IInv, Shape
<1>2. Step(job, c).uploads \subseteq Secrets
  BY <1>1, StepUploads
<1>3. Succeeded(c) \in ContainerState /\ Succeeded(c).at \in {"running", "uploading"}
  <2>1. CASE ctr[c].command < Len(Step(job, c).commands)
    BY <1>1, <2>1 DEF Succeeded, ContainerState
  <2>2. CASE ~(ctr[c].command < Len(Step(job, c).commands))
    <3>1. Succeeded(c) = [ctr[c] EXCEPT !.at = "uploading", !.left = Step(job, c).uploads]
      BY <2>2 DEF Succeeded
    <3> QED
      BY <1>1, <1>2, <3>1 DEF ContainerState
  <2> QED
    BY <2>1, <2>2
<1>4. Succeeded(c).at = "uploading" => Succeeded(c).left = Uploads(c)
  BY <1>1 DEF Succeeded, ContainerState, Uploads
<1>5. ASSUME c \in Fetchers
      PROVE  /\ Succeeded(c).command \in 1..Len(Step(job, c).commands)
             /\ Succeeded(c).at = "uploading" => Command(c) = "source"
  <2>1. ctr[c].command \in 1..Len(Step(job, c).commands)
    BY <1>5 DEF IInv, Commanding
  <2>2. Len(Step(job, c).commands) \in Nat
        /\ Step(job, c).commands[Len(Step(job, c).commands)] = "source"
    BY <1>1, <1>5, StepCommands
  <2> QED
    BY <1>1, <2>1, <2>2 DEF Succeeded, ContainerState, Command
<1> QED
  BY <1>3, <1>4, <1>5

(* Every step of a container has the effect RunEffect. *)
LEMMA ActionEffect ==
  ASSUME IInv, NEW c \in AllContainers, Run(c)
  PROVE  RunEffect(c)
<1> job \in Job /\ ctr[c] \in ContainerState
  BY DEF IInv, Shape
<1> USE DEF IInv, Shape
<1>1. CASE Begin(c)
  <2>1. MoveEffect(c)
    <3>1. PICK p \in {"waiting", "running", "failed"} :
             /\ ctr' = [ctr EXCEPT ![c].at = p]
             /\ c \in Reporters => p # "running"
      BY <1>1, StepSignals DEF Begin, Move
    <3> QED
      BY <1>1, <3>1 DEF Begin, MoveEffect, pod, Started, Commanding, ContainerState
  <2>2. WriteEffect(c) /\ FetchEffect(c)
    BY <1>1 DEF Begin, Move, WriteEffect, FetchEffect, pod, volume, ContainerState
  <2> QED
    BY <2>1, <2>2 DEF RunEffect
<1>2. CASE FindSignal(c)
  <2>1. MoveEffect(c)
    <3>1. PICK p \in {"running", "failed"} :
             /\ ctr' = [ctr EXCEPT ![c].at = p]
             /\ p # "failed" => "terraform.complete" \in files
      BY <1>2 DEF FindSignal, Move
    <3> QED
      BY <1>2, <3>1 DEF FindSignal, MoveEffect, pod, Commanding, ContainerState
  <2>2. WriteEffect(c) /\ FetchEffect(c)
    BY <1>2 DEF FindSignal, Move, WriteEffect, FetchEffect, pod, volume, ContainerState
  <2> QED
    BY <2>1, <2>2 DEF RunEffect
<1>3. CASE WaitTimeout(c)
  <2>1. MoveEffect(c)
    BY <1>3 DEF WaitTimeout, Move, End, MoveEffect, pod, volume, Commanding, ContainerState
  <2>2. WriteEffect(c) /\ FetchEffect(c)
    BY <1>3 DEF WaitTimeout, Move, WriteEffect, FetchEffect, pod, volume, ContainerState
  <2> QED
    BY <2>1, <2>2 DEF RunEffect
<1>4. CASE CommandSucceeds(c)
  <2>1. MoveEffect(c)
    BY <1>4, SucceededEffect DEF CommandSucceeds, MoveEffect, pod, volume
  <2>2. WriteEffect(c)
    BY <1>4, SucceededEffect DEF CommandSucceeds, WriteEffect, pod, volume
  <2>3. FetchEffect(c)
    BY <1>4, SucceededEffect DEF CommandSucceeds, FetchEffect, pod, volume
  <2> QED
    BY <2>1, <2>2, <2>3 DEF RunEffect
<1>5. CASE CommandFails(c) \/ SourceRefused(c)
  <2>1. MoveEffect(c)
    BY <1>5, FailsEffect DEF CommandFails, SourceRefused, MoveEffect, Commanding, pod
  <2>2. WriteEffect(c) /\ FetchEffect(c)
    BY <1>5, FailsEffect DEF CommandFails, SourceRefused, WriteEffect, FetchEffect, pod
  <2> QED
    BY <2>1, <2>2 DEF RunEffect
<1>6. CASE SourceStarts(c)
  <2>1. MoveEffect(c)
    BY <1>6 DEF SourceStarts, Move, MoveEffect, Commanding, pod, ContainerState
  <2>2. WriteEffect(c) /\ FetchEffect(c)
    BY <1>6 DEF SourceStarts, Move, WriteEffect, FetchEffect, pod, ContainerState
  <2> QED
    BY <2>1, <2>2 DEF RunEffect
<1>7. CASE SourceGets(c)
  <2>1. MoveEffect(c)
    BY <1>7 DEF SourceGets, Move, MoveEffect, Commanding, pod, ContainerState
  <2>2. WriteEffect(c) /\ FetchEffect(c)
    BY <1>7 DEF SourceGets, Move, WriteEffect, FetchEffect, pod, ContainerState
  <2> QED
    BY <2>1, <2>2 DEF RunEffect
<1>8. CASE SourceBreaks(c)
  <2>1. MoveEffect(c)
    BY <1>8, FailsEffect DEF SourceBreaks, MoveEffect, Commanding, pod
  <2>2. WriteEffect(c)
    BY <1>8, FailsEffect DEF SourceBreaks, WriteEffect, pod
  <2>3. FetchEffect(c)
    BY <1>8, FailsEffect DEF SourceBreaks, FetchEffect, pod
  <2> QED
    BY <2>1, <2>2, <2>3 DEF RunEffect
<1>9. CASE SourceCopies(c)
  <2>1. MoveEffect(c)
    BY <1>9, SucceededEffect DEF SourceCopies, MoveEffect, pod
  <2>2. WriteEffect(c)
    BY <1>9, SucceededEffect DEF SourceCopies, WriteEffect, pod
  <2>3. FetchEffect(c)
    BY <1>9, SucceededEffect DEF SourceCopies, FetchEffect, Got, pod
  <2> QED
    BY <2>1, <2>2, <2>3 DEF RunEffect
<1>10. CASE SourceCopyFails(c)
  <2>1. MoveEffect(c)
    BY <1>10, FailsEffect DEF SourceCopyFails, MoveEffect, Commanding, pod
  <2>2. WriteEffect(c) /\ FetchEffect(c)
    BY <1>10, FailsEffect DEF SourceCopyFails, WriteEffect, FetchEffect, pod
  <2> QED
    BY <2>1, <2>2 DEF RunEffect
<1>11. CASE Upload(c)
  <2>1. MoveEffect(c)
    <3>1. PICK s \in ctr[c].left : ctr' = [ctr EXCEPT ![c].left = @ \ {s}]
      BY <1>11 DEF Upload
    <3> QED
      BY <1>11, <3>1 DEF Upload, MoveEffect, Commanding, pod, ContainerState
  <2>2. WriteEffect(c)
    BY <1>11 DEF Upload, WriteEffect, pod, volume, ContainerState
  <2>3. FetchEffect(c)
    BY <1>11 DEF Upload, FetchEffect, Copied, pod, volume, ContainerState
  <2> QED
    BY <2>1, <2>2, <2>3 DEF RunEffect
<1>12. CASE UploadFails(c)
  <2>1. MoveEffect(c)
    BY <1>12 DEF UploadFails, Move, End, MoveEffect, Commanding, pod, ContainerState
  <2>2. WriteEffect(c)
    BY <1>12 DEF UploadFails, Move, WriteEffect, pod, volume, ContainerState
  <2>3. FetchEffect(c)
    BY <1>12 DEF UploadFails, Move, FetchEffect, pod, volume, ContainerState
  <2> QED
    BY <2>1, <2>2, <2>3 DEF RunEffect
<1>13. CASE StepEnds(c)
  <2>1. MoveEffect(c)
    BY <1>13 DEF StepEnds, Move, End, MoveEffect, Commanding, pod, ContainerState
  <2>2. WriteEffect(c)
    BY <1>13, StepSignals DEF StepEnds, Move, WriteEffect, pod, ContainerState
  <2>3. FetchEffect(c)
    BY <1>13 DEF StepEnds, Move, FetchEffect, Copied, pod, ContainerState
  <2> QED
    BY <2>1, <2>2, <2>3 DEF RunEffect
<1> QED
  BY <1>1, <1>2, <1>3, <1>4, <1>5, <1>6, <1>7, <1>8, <1>9, <1>10, <1>11, <1>12, <1>13 DEF Run

(* What may start is a container of the job; terraform init comes after    *)
(* the download of the module, terraform after all init containers.        *)
LEMMA MayStartPlaces ==
  ASSUME Shape, NEW c \in AllContainers, MayStart(c)
  PROVE  /\ c \in ToSet(InitContainers(job)) \cup ToSet(MainContainers(job))
         /\ c = "init" => ctr["setup"].at = "ok"
         /\ c = "terraform" => InitDone
<1>1. job \in Job
  BY DEF Shape
<1>2. CASE c \in ToSet(MainContainers(job)) /\ InitDone
  BY <1>1, <1>2, MainSet
<1>3. ASSUME NEW i \in 1..Len(InitContainers(job)), InitContainers(job)[i] = c,
             \A k \in 1..(i - 1) : ctr[InitContainers(job)[k]].at = "ok"
      PROVE  /\ c \in ToSet(InitContainers(job))
             /\ c = "init" => ctr["setup"].at = "ok"
             /\ c # "terraform"
  <2>1. c \in ToSet(InitContainers(job))
    BY <1>1, <1>3, InitSeq DEF ToSet
  <2>2. c # "terraform"
    BY <1>1, <2>1, InitSet DEF Fetchers
  <2>3. ASSUME c = "init" PROVE ctr["setup"].at = "ok"
    <3>1. i = 2
      BY <1>1, <1>3, <2>3, InitSeq
    <3> QED
      BY <1>1, <1>3, <3>1, InitSeq
  <2> QED
    BY <2>1, <2>2, <2>3
<1> QED
  BY <1>2, <1>3 DEF MayStart

(* A step with the effect RunEffect preserves the invariant. *)
LEMMA RunInv ==
  ASSUME IInv, NEW c \in AllContainers, RunEffect(c)
  PROVE  IInv'
<1> USE DEF RunEffect
<1>1. /\ Shape' /\ job \in Job /\ attempt \in Nat /\ status = "active"
      /\ job' = job /\ attempt' = attempt /\ status' = status
      /\ \A d \in AllContainers \ {c} : ctr'[d] = ctr[d]
      /\ files \subseteq files'
  BY DEF IInv, Shape, MoveEffect, WriteEffect, FetchEffect
<1>2. \A s \in Secrets : secrets[s] = attempt => secrets'[s] = attempt
  BY DEF WriteEffect
<1>3. \A d \in AllContainers : Uploads(d)' = Uploads(d) /\ Uploads(d) \subseteq Secrets
  BY <1>1, StepUploads DEF Uploads
<1>4. SecretsPast'
  BY <1>1 DEF IInv, Shape, SecretsPast, WriteEffect
<1>5. Placed'
  BY <1>1, MayStartPlaces DEF IInv, Placed, Started, MoveEffect
<1>6. Commanding'
  BY <1>1 DEF IInv, Commanding, MoveEffect, Fetchers, AllContainers
<1>7. Uploading'
  <2> SUFFICES ASSUME NEW d \in AllContainers, ctr'[d].at = "uploading"
               PROVE  /\ ctr'[d].left \subseteq Uploads(d)
                      /\ \A s \in Uploads(d) \ ctr'[d].left : secrets'[s] = attempt
    BY <1>1, <1>3 DEF Uploading
  <2>1. CASE d # c
    BY <1>1, <1>2, <1>3, <2>1 DEF IInv, Uploading
  <2>2. CASE d = c
    BY <1>2, <1>3, <2>2 DEF IInv, Uploading, WriteEffect
  <2> QED
    BY <2>1, <2>2
<1>8. Uploaded'
  <2> SUFFICES ASSUME NEW d \in AllContainers, ctr'[d].at = "ok", NEW s \in Uploads(d)
               PROVE  secrets'[s] = attempt
    BY <1>1, <1>3 DEF Uploaded
  <2>1. CASE d # c
    BY <1>1, <1>2, <1>3, <2>1 DEF IInv, Uploaded
  <2>2. CASE d = c
    BY <1>2, <1>3, <2>2 DEF IInv, Uploading, WriteEffect
  <2> QED
    BY <2>1, <2>2
<1>9. Signalled'
  <2> SUFFICES ASSUME "terraform.complete" \in files', NEW s \in Uploads("terraform")
               PROVE  secrets'[s] = attempt
    BY <1>1, <1>3 DEF Signalled, AllContainers
  <2>0. "terraform" \in AllContainers
    BY DEF AllContainers
  <2>1. CASE "terraform.complete" \in files
    BY <1>2, <1>3, <2>0, <2>1 DEF IInv, Signalled
  <2>2. CASE "terraform.complete" \notin files
    BY <1>2, <1>3, <2>0, <2>2 DEF IInv, Uploading, WriteEffect
  <2> QED
    BY <2>1, <2>2
<1>10. Waited'
  <2> SUFFICES ASSUME NEW d \in Reporters, ctr'[d].at \notin {"blocked", "waiting", "failed"}
               PROVE  "terraform.complete" \in files'
    BY DEF Waited
  <2>0. d \in AllContainers
    BY DEF Reporters, AllContainers
  <2>1. CASE d # c
    BY <1>1, <2>0, <2>1 DEF IInv, Waited
  <2>2. CASE d = c
    BY <1>1, <2>2 DEF IInv, Waited, MoveEffect
  <2> QED
    BY <2>1, <2>2
<1>11. Got'
  BY <1>1 DEF IInv, Got, FetchEffect
<1>12. Copied'
  BY <1>1 DEF IInv, Copied, FetchEffect, Fetchers, AllContainers
<1>13. InitOrder'
  <2>1. \A d \in AllContainers : ctr[d].at = "ok" => ctr'[d].at = "ok"
    BY <1>1 DEF MoveEffect
  <2>2. InitDone => InitDone'
    <3>1. ToSet(InitContainers(job)) \subseteq AllContainers
      BY <1>1, InitSet DEF Fetchers, AllContainers
    <3> QED
      BY <1>1, <2>1, <3>1 DEF InitDone
  <2>3. Started("init")' => ctr'["setup"].at = "ok"
    <3>1. CASE Started("init")
      BY <2>1, <3>1 DEF IInv, InitOrder, AllContainers
    <3>2. CASE ~Started("init") /\ Started("init")'
      <4>1. c = "init" /\ MayStart(c)
        BY <1>1, <3>2 DEF Started, MoveEffect, AllContainers
      <4> QED
        BY <2>1, <4>1, MayStartPlaces DEF IInv, AllContainers
    <3> QED
      BY <3>1, <3>2
  <2>4. Started("terraform")' => InitDone'
    <3>1. CASE Started("terraform")
      BY <2>2, <3>1 DEF IInv, InitOrder
    <3>2. CASE ~Started("terraform") /\ Started("terraform")'
      <4>1. c = "terraform" /\ MayStart(c)
        BY <1>1, <3>2 DEF Started, MoveEffect, AllContainers
      <4> QED
        BY <2>2, <4>1, MayStartPlaces DEF IInv
    <3> QED
      BY <3>1, <3>2
  <2> QED
    BY <2>3, <2>4 DEF InitOrder
<1>14. Reported'
  <2> SUFFICES ASSUME NEW r \in {"costs", "policy"}, NEW p \in {"planJSON", "planOut"}
               PROVE  secrets'[r] <= secrets'[p]
    BY DEF Reported
  <2>0. r \in Secrets /\ p \in Secrets /\ secrets[r] \in Nat /\ secrets[p] \in Nat
        /\ secrets[r] <= secrets[p] /\ secrets[r] <= attempt
    BY DEF IInv, Shape, Reported, SecretsPast, Secrets
  <2>1. CASE secrets'[r] = secrets[r]
    BY <1>1, <2>0, <2>1 DEF WriteEffect
  <2>2. CASE secrets'[r] # secrets[r]
    <3>1. ctr[c].at = "uploading" /\ r \in Uploads(c)
      BY <2>0, <2>2 DEF WriteEffect, IInv, Uploading
    <3>2. c \in Reporters
      BY <1>1, <3>1, StepUploads DEF Uploads, Reporters
    <3>3. c \in ToSet(MainContainers(job))
      BY <1>1, <3>1, <3>2, InitSet DEF IInv, Placed, Started, Reporters, Fetchers
    <3>4. job.stage = "plan"
      BY <1>1, <3>2, <3>3, MainSet DEF Reporters, HasCosts, HasPolicy
    <3>5. p \in Uploads("terraform")
      BY <1>1, <3>4, StepUploads DEF Uploads, AllContainers
    <3>6. secrets[p] = attempt
      BY <3>1, <3>2, <3>5 DEF IInv, Waited, Signalled
    <3> QED
      BY <1>1, <2>0, <3>6 DEF WriteEffect
  <2> QED
    BY <2>1, <2>2
<1>15. Completed'
  BY <1>1 DEF Completed
<1> QED
  BY <1>1, <1>4, <1>5, <1>6, <1>7, <1>8, <1>9, <1>10, <1>11, <1>12, <1>13, <1>14, <1>15 DEF IInv

(* A new pod satisfies the invariant, whatever secrets the one before      *)
(* left.                                                                   *)
LEMMA FreshInv ==
  ASSUME Shape, SecretsPast, Reported, job' = job, status' = status, status = "active",
         attempt' \in {attempt, attempt + 1}, secrets' = secrets,
         ctr' = Fresh, files' = {}, temp' = NoFiles, data' = NoFiles
  PROVE  IInv'
<1>1. \A c \in AllContainers : ctr'[c] = NotStarted /\ ctr'[c].at = "blocked" /\ ctr'[c].command = 1
  BY DEF Fresh, NotStarted
<1>2. Shape'
  <2>1. ctr' \in [AllContainers -> ContainerState]
    BY DEF Fresh, NotStarted, ContainerState
  <2>2. temp' \in [AllContainers -> Fetched] /\ data' \in [AllContainers -> Fetched]
    BY DEF NoFiles
  <2> QED
    BY <2>1, <2>2 DEF Shape
<1>3. SecretsPast' /\ Reported'
  BY DEF Shape, SecretsPast, Reported
<1>4. Placed'
  BY <1>1 DEF Placed, Started
<1>5. Commanding'
  BY <1>1, StepCommands DEF Shape, Commanding, Fetchers, AllContainers
<1>6. Uploading' /\ Uploaded' /\ Got'
  BY <1>1 DEF Uploading, Uploaded, Got
<1>7. Signalled' /\ Completed'
  BY DEF Signalled, Completed
<1>8. Waited' /\ Copied'
  BY <1>1 DEF Waited, Copied, Reporters, Fetchers, AllContainers
<1>9. InitOrder'
  BY <1>1 DEF InitOrder, Started, AllContainers
<1> QED
  BY <1>2, <1>3, <1>4, <1>5, <1>6, <1>7, <1>8, <1>9 DEF IInv

(* So does a pod that has not moved, if its job is complete only when all  *)
(* its containers are.                                                     *)
LEMMA SameInv ==
  ASSUME IInv, UNCHANGED <<job, attempt, ctr, files, temp, data, secrets>>,
         status' \in {"active", "complete", "failed"},
         status' = "complete" => PodSucceeded
  PROVE  IInv'
<1>1. Shape' /\ SecretsPast' /\ Reported'
  BY DEF IInv, Shape, SecretsPast, Reported
<1>2. Placed' /\ Commanding' /\ Got' /\ Copied'
  BY DEF IInv, Placed, Started, Commanding, Got, Copied
<1>3. Uploading' /\ Uploaded' /\ Signalled' /\ Waited'
  BY DEF IInv, Uploading, Uploaded, Signalled, Waited, Uploads
<1>4. InitOrder' /\ Completed'
  BY DEF IInv, InitOrder, Started, InitDone, Completed, PodSucceeded
<1> QED
  BY <1>1, <1>2, <1>3, <1>4 DEF IInv

(* The first pod satisfies the invariant. *)
LEMMA InitInv ==
  ASSUME Init
  PROVE  IInv
<1>1. job \in Job
  BY JobsAssumption DEF Init
<1>2. \A c \in AllContainers : ctr[c] = NotStarted /\ ctr[c].at = "blocked" /\ ctr[c].command = 1
  BY DEF Init, Fresh, NotStarted
<1>3. Shape
  <2>1. ctr \in [AllContainers -> ContainerState]
    BY DEF Init, Fresh, NotStarted, ContainerState
  <2>2. temp \in [AllContainers -> Fetched] /\ data \in [AllContainers -> Fetched]
    BY DEF Init, NoFiles
  <2> QED
    BY <1>1, <2>1, <2>2 DEF Init, Shape
<1>4. SecretsPast /\ Reported
  BY DEF Init, SecretsPast, Reported, Secrets
<1>5. Placed
  BY <1>2 DEF Placed, Started
<1>6. Commanding
  BY <1>1, <1>2, StepCommands DEF Commanding, Fetchers, AllContainers
<1>7. Uploading /\ Uploaded /\ Got
  BY <1>2 DEF Uploading, Uploaded, Got
<1>8. Signalled /\ Completed
  BY DEF Init, Signalled, Completed
<1>9. Waited /\ Copied
  BY <1>2 DEF Waited, Copied, Reporters, Fetchers, AllContainers
<1>10. InitOrder
  BY <1>2 DEF InitOrder, Started, AllContainers
<1> QED
  BY <1>3, <1>4, <1>5, <1>6, <1>7, <1>8, <1>9, <1>10 DEF IInv

(* Every step preserves the invariant. *)
LEMMA NextInv ==
  ASSUME IInv, [Next]_vars
  PROVE  IInv'
<1>1. CASE \E c \in AllContainers : Run(c)
  BY <1>1, ActionEffect, RunInv
<1>2. CASE FailPod \/ EvictPod
  <2>0. job' = job /\ secrets' = secrets /\ status = "active" /\ NextPod
    BY <1>2 DEF FailPod, EvictPod
  <2>1. CASE attempt' = attempt + 1 /\ ctr' = Fresh /\ files' = {} /\ temp' = NoFiles
             /\ data' = NoFiles /\ status' = status
    BY <2>0, <2>1, FreshInv DEF IInv
  <2>2. CASE status' = "failed" /\ UNCHANGED <<attempt, ctr, volume>>
    BY <2>0, <2>2, SameInv DEF volume
  <2> QED
    BY <2>0, <2>1, <2>2 DEF NextPod
<1>3. CASE CompleteJob
  BY <1>3, SameInv DEF CompleteJob, volume
<1>4. CASE Request \/ Serve \/ UNCHANGED vars
  <2>1. UNCHANGED <<job, status, attempt, ctr, files, temp, data, secrets>>
    BY <1>4 DEF Request, Serve, FindPod, FindTimeout, StreamLogs, StreamEnds, vars, pod, volume
  <2>2. status' \in {"active", "complete", "failed"} /\ (status' = "complete" => PodSucceeded)
    BY <2>1 DEF IInv, Shape, Completed
  <2> QED
    BY <2>1, <2>2, SameInv
<1> QED
  BY <1>1, <1>2, <1>3, <1>4 DEF Next

(***************************************************************************)
(* The invariant holds in every state.                                     *)
(***************************************************************************)
THEOREM Inductive == Spec => []IInv
<1>1. Init => IInv
  BY InitInv
<1>2. IInv /\ [Next]_vars => IInv'
  BY NextInv
<1> QED
  BY <1>1, <1>2, PTL DEF Spec

(***************************************************************************)
(* Terraform never starts on a module, nor a scan on policies, that were   *)
(* downloaded or copied in part, whatever download, copy or pod fails      *)
(* before (Run of cmd/source, the order of the init containers). A         *)
(* container that has fetched is past its last command, and terraform init *)
(* and terraform start after it.                                           *)
(***************************************************************************)
THEOREM SourceSafe == Spec => []SourceWhole
<1>1. IInv => SourceWhole
  <2> SUFFICES ASSUME IInv PROVE SourceWhole
    OBVIOUS
  <2>1. Started("init") => data["setup"] = "whole"
    BY DEF IInv, InitOrder, Copied, Fetchers
  <2>2. ASSUME NEW c \in {"policy-source", "policy-external"},
               c \in ToSet(InitContainers(job)), Started("terraform")
        PROVE  data[c] = "whole"
    BY <2>2 DEF IInv, InitOrder, InitDone, Copied, Fetchers
  <2> QED
    BY <2>1, <2>2 DEF SourceWhole
<1> QED
  BY <1>1, Inductive, PTL

(* When a pod has succeeded, every secret of the stage is its own. *)
LEMMA PromisedKept ==
  ASSUME IInv, PodSucceeded
  PROVE  /\ Promised(job) \subseteq Secrets
         /\ \A s \in Promised(job) : secrets[s] = attempt
<1>1. job \in Job
  BY DEF IInv, Shape
<1>2. ToSet(MainContainers(job)) \subseteq AllContainers
  BY <1>1, MainSet DEF AllContainers
<1>3. ASSUME NEW s \in Promised(job) PROVE s \in Secrets /\ secrets[s] = attempt
  <2>1. PICK c \in ToSet(MainContainers(job)) : s \in Step(job, c).uploads
    BY DEF Promised
  <2> QED
    BY <1>1, <1>2, <2>1, StepUploads DEF IInv, Uploaded, Uploads, PodSucceeded
<1> QED
  BY <1>3

(***************************************************************************)
(* No cost or policy report is from a later pod than the plan, and the     *)
(* secrets of a complete job are all from its last pod (Run and            *)
(* uploadSecret of cmd/step, the wait-on arguments of the template). A     *)
(* reporter past its wait has seen the file terraform writes after its     *)
(* uploads, and files do not outlive the pod.                              *)
(***************************************************************************)
THEOREM ReportsSafe == Spec => []ReportsOfOnePlan
<1>1. IInv => ReportsOfOnePlan
  BY PromisedKept DEF IInv, Completed, Reported, ReportsOfOnePlan
<1> QED
  BY <1>1, Inductive, PTL

(* A step of a container uploads one secret or none. *)
LEMMA OneUpload ==
  ASSUME NEW c \in AllContainers, Run(c)
  PROVE  /\ status = "active" /\ status' = status /\ job' = job
         /\ \/ secrets' = secrets
            \/ /\ ctr[c].at = "uploading"
               /\ \E s \in ctr[c].left : secrets' = [secrets EXCEPT ![s] = attempt]
<1>1. CASE Upload(c) \/ UploadFails(c)
  BY <1>1 DEF Upload, UploadFails, pod
<1>2. CASE ~(Upload(c) \/ UploadFails(c))
  BY <1>2 DEF Run, Begin, FindSignal, WaitTimeout, CommandSucceeds, CommandFails,
              SourceStarts, SourceRefused, SourceGets, SourceBreaks, SourceCopies,
              SourceCopyFails, StepEnds, pod
<1> QED
  BY <1>1, <1>2

(* A secret that is uploaded is one the stage promises. *)
LEMMA UploadPromised ==
  ASSUME IInv, NEW c \in AllContainers, ctr[c].at = "uploading", NEW s \in ctr[c].left
  PROVE  s \in Promised(job) /\ s \in Secrets
<1>1. job \in Job
  BY DEF IInv, Shape
<1>2. s \in Step(job, c).uploads /\ s \in Secrets
  BY <1>1, StepUploads DEF IInv, Uploading, Uploads
<1>3. c \in Reporters \cup {"terraform"}
  BY <1>1, <1>2, StepUploads
<1>4. c \in ToSet(MainContainers(job))
  BY <1>1, <1>3, InitSet DEF IInv, Placed, Started, Reporters, Fetchers
<1> QED
  BY <1>2, <1>4 DEF Promised

(* Every step is a step of TerraformJob or leaves its state unchanged. *)
LEMMA StepRefines ==
  ASSUME IInv, [Next]_vars
  PROVE  [Abstract!Next]_(Abstract!vars)
<1> DEFINE up == {s \in Secrets : secrets[s] # 0}
<1>1. CASE \E c \in AllContainers : Run(c)
  <2>1. PICK c \in AllContainers : Run(c)
    BY <1>1
  <2>2. CASE secrets' = secrets
    BY <2>1, <2>2, OneUpload DEF Abstract!vars
  <2>3. CASE secrets' # secrets
    <3>1. PICK s \in ctr[c].left : /\ ctr[c].at = "uploading"
                                   /\ secrets' = [secrets EXCEPT ![s] = attempt]
      BY <2>1, <2>3, OneUpload
    <3>2. s \in Promised(job) /\ s \in Secrets
      BY <3>1, UploadPromised
    <3>3. up' = up \cup {s}
      BY <3>1, <3>2 DEF IInv, Shape
    <3>4. Abstract!Upload
      BY <2>1, <3>2, <3>3, OneUpload DEF Abstract!Upload
    <3> QED
      BY <3>4 DEF Abstract!Next
  <2> QED
    BY <2>2, <2>3
<1>2. CASE FailPod \/ EvictPod
  <2>1. status = "active" /\ status' \in {status, "failed"} /\ job' = job /\ secrets' = secrets
    BY <1>2 DEF FailPod, EvictPod, NextPod
  <2> QED
    BY <2>1 DEF Abstract!Next, Abstract!Fail, Abstract!vars
<1>3. CASE CompleteJob
  <2>1. Promised(job) \subseteq up
    BY <1>3, PromisedKept DEF CompleteJob, IInv, Shape
  <2> QED
    BY <1>3, <2>1 DEF CompleteJob, Abstract!Next, Abstract!Complete
<1>4. CASE Request \/ Serve \/ UNCHANGED vars
  <2>1. UNCHANGED <<job, status, secrets>>
    BY <1>4 DEF Request, Serve, FindPod, FindTimeout, StreamLogs, StreamEnds, vars, pod
  <2> QED
    BY <2>1 DEF Abstract!vars
<1> QED
  BY <1>1, <1>2, <1>3, <1>4 DEF Next

(***************************************************************************)
(* The pods of a job, with their failures, evictions and repetitions, are  *)
(* the one job the Configuration controller takes them for: it ends once,  *)
(* and when it ends well all its secrets are there.                        *)
(***************************************************************************)
THEOREM JobRefinement == Spec => ImplementsJob
<1>1. Init => Abstract!Init
  <2> SUFFICES ASSUME Init PROVE Abstract!Init
    OBVIOUS
  <2>1. IInv /\ job \in Job
    BY InitInv DEF IInv, Shape
  <2>2. ToSet(MainContainers(job)) \subseteq AllContainers
    BY <2>1, MainSet DEF AllContainers
  <2>3. Promised(job) \subseteq Secrets
    BY <2>1, <2>2, StepUploads DEF Promised
  <2>4. {s \in Secrets : secrets[s] # 0} = {}
    BY DEF Init
  <2> QED
    BY <2>3, <2>4 DEF Init, Abstract!Init
<1>2. IInv /\ [Next]_vars => [Abstract!Next]_(Abstract!vars)
  BY StepRefines
<1> QED
  BY <1>1, <1>2, Inductive, PTL DEF Spec, ImplementsJob, Abstract!Spec
=============================================================================
