----------------------------- MODULE JobPipeline -----------------------------
(***************************************************************************)
(* Background jobs from the HTTP handler that submits them to the Proxmox   *)
(* tasks that do the work: the submit handlers (backend/handlers/jobs.go,   *)
(* backup.go), the three core-NATS subjects, the worker's callbacks         *)
(* (backend/jobs/worker.go) and the wait for a task (backend/proxmox/       *)
(* client.go: WaitForTask).  The NATS client runs one callback at a time    *)
(* for each subscription, so jobs of one subject run one after the other    *)
(* and jobs of different subjects side by side.                             *)
(*                                                                          *)
(* Proxmox is external: what it keeps is whether each VMID is taken and     *)
(* whether its guest runs, and the tasks it was asked for.  It runs one     *)
(* task at a time on a guest and refuses to create a guest that exists, to  *)
(* delete one that runs and to start one that is not there.  Requests time  *)
(* out after 30 seconds whether or not Proxmox acted on them, and a task    *)
(* goes on when the worker has stopped waiting for it.                      *)
(***************************************************************************)
EXTENDS JobTypes, FiniteSets

CONSTANTS
  Jobs,       \* the jobs that may be submitted
  Kind,       \* what each of them does: a field of ScriptOf
  Wanted,     \* the VMID in its request; AutoVmid to be given the next one
  FirstVmid,  \* where automatic VMIDs start (10000 in the code)
  LastVmid,   \* bound: the largest VMID the instance has room for
  Existing,   \* the guests that are there at the start
  Others      \* bound: the VMIDs under which a guest may be made without a job

AutoVmid == 0

VMIDs == FirstVmid .. LastVmid

ASSUME PipelineAssumption ==
  /\ Kind \in [Jobs -> DOMAIN ScriptOf]
  /\ FirstVmid \in Nat \ {0}
  /\ LastVmid \in Nat
  /\ Existing \subseteq VMIDs
  /\ Others \subseteq VMIDs
  /\ Wanted \in [Jobs -> VMIDs \cup {AutoVmid}]

\* What the worker asks Proxmox for, and the step during which it does.
Ops == {"clone", "resize", "start", "stop", "backup", "delete", "restore"}

OpOf == [cloning |-> "clone", resizing |-> "resize", starting |-> "start",
         stopping |-> "stop", backing_up |-> "backup", deleting |-> "delete",
         restoring |-> "restore"]

Subjects == {"provision", "backup", "restore"}

Subject(j) ==
  CASE Kind[j] \in {"vm", "vm_volumes", "container"} -> "provision"
    [] Kind[j] = "backup" -> "backup"
    [] Kind[j] \in {"restore", "restore_inplace"} -> "restore"

\* Jobs that make a guest, and the task that makes it.
MakesGuest(j) == Kind[j] # "backup"
Maker(j) == IF Kind[j] \in {"restore", "restore_inplace"} THEN "restore" ELSE "clone"

VARIABLES
  status,  \* Job.Status of each job
  step,    \* Job.Step
  vmid,    \* the VMID of the job's payload; AutoVmid until there is one
  pc,      \* where the job's handler or callback is
  at,      \* the index of its step in the script of its kind
  queue,   \* the messages of each subject, in the order of publication
  task,    \* the state of each task the job asked Proxmox for
  guest,   \* what Proxmox has under each VMID
  deleted  \* history: the jobs whose guest was deleted after they had made it

jobVars == <<status, step>>
vars == <<status, step, vmid, pc, at, queue, task, guest, deleted>>

ScriptStep(j) == ScriptOf[Kind[j]][at[j]]

\* The step is carried out by a task of Proxmox.  Resizing the disk of a VM is
\* one request, resizing a container's a task the worker waits for.
HasTask(j) ==
  /\ ScriptStep(j) \in DOMAIN OpOf
  /\ ScriptStep(j) = "resizing" => Kind[j] = "container"

-----------------------------------------------------------------------------
(* The submit handlers *)

Init ==
  /\ status = [j \in Jobs |-> "none"]
  /\ step = [j \in Jobs |-> StepNone]
  /\ vmid = Wanted
  /\ pc = [j \in Jobs |-> "request"]
  /\ at = [j \in Jobs |-> 1]
  /\ queue = [q \in Subjects |-> <<>>]
  /\ task = [j \in Jobs |-> [o \in Ops |-> "none"]]
  /\ guest \in [VMIDs -> {"absent", "stopped", "running"}]
  /\ \A v \in VMIDs : guest[v] = "absent" <=> v \notin Existing
  /\ deleted = {}

\* One past the largest VMID of the cluster's guests, from FirstVmid on.
NextVMIDOf(taken) ==
  CHOOSE v \in FirstVmid .. LastVmid + 1 :
    /\ v - 1 \in taken \cup {FirstVmid - 1}
    /\ \A t \in taken : t < v

NextVMID == NextVMIDOf({v \in VMIDs : guest[v] # "absent"})

\* nextAvailableVMID of a "restore as new" request, or the browser's GET of
\* /api/next-vmid before it posts a provision request.
Allocate(j) ==
  /\ pc[j] = "request"
  /\ vmid[j] = AutoVmid
  /\ NextVMID \in VMIDs
  /\ vmid' = [vmid EXCEPT ![j] = NextVMID]
  /\ UNCHANGED <<jobVars, pc, at, queue, task, guest, deleted>>

\* JobStore.Create in submitProvisionJob, submitBackupJob, submitRestoreJob.
Create(j) ==
  /\ pc[j] = "request"
  /\ vmid[j] # AutoVmid
  /\ status' = [status EXCEPT ![j] = "pending"]
  /\ pc' = [pc EXCEPT ![j] = "publish"]
  /\ UNCHANGED <<step, vmid, at, queue, task, guest, deleted>>

Publish(j) ==
  /\ pc[j] = "publish"
  /\ queue' = [queue EXCEPT ![Subject(j)] = Append(@, j)]
  /\ pc' = [pc EXCEPT ![j] = "queued"]
  /\ UNCHANGED <<jobVars, vmid, at, task, guest, deleted>>

\* Publish returned an error: the job fails before any step.
PublishFails(j) ==
  /\ pc[j] = "publish"
  /\ status' = [status EXCEPT ![j] = "failed"]
  /\ pc' = [pc EXCEPT ![j] = "over"]
  /\ UNCHANGED <<step, vmid, at, queue, task, guest, deleted>>

-----------------------------------------------------------------------------
(* Core NATS: at most once *)

\* A message no subscriber has taken is gone when the server restarts or the
\* connection drops; Publish had returned no error.
Lose(j) ==
  /\ pc[j] = "queued"
  /\ \E i \in DOMAIN queue[Subject(j)] :
       /\ queue[Subject(j)][i] = j
       /\ queue' = [queue EXCEPT ![Subject(j)] =
                      SubSeq(@, 1, i - 1) \o SubSeq(@, i + 1, Len(@))]
  /\ pc' = [pc EXCEPT ![j] = "lost"]
  /\ UNCHANGED <<jobVars, vmid, at, task, guest, deleted>>

\* The callback of the job's subscription is running.
InCallback(j) == pc[j] \in {"report", "call", "wait", "poll"}

Deliver(j) ==
  /\ queue[Subject(j)] # <<>>
  /\ Head(queue[Subject(j)]) = j
  /\ \A k \in Jobs : Subject(k) = Subject(j) => ~InCallback(k)
  /\ queue' = [queue EXCEPT ![Subject(j)] = Tail(@)]
  /\ pc' = [pc EXCEPT ![j] = "report"]
  /\ UNCHANGED <<jobVars, vmid, at, task, guest, deleted>>

-----------------------------------------------------------------------------
(* Faulty variants of definitions below: what a slip in the code would make *)
(* of them.  The specification does not use them.                           *)

\* A callback that does not return after its last step.
AfterForgetsEnd(j) == IF HasTask(j) THEN "call" ELSE "report"

\* A wait that takes a task it has given up for done.
SawOkOrGaveUp(j, s) == task[j][OpOf[s]] \in {"ok", "running"}

\* A wait without a time-out.
SawFailureOnly(j, s) == task[j][OpOf[s]] = "failed"

\* A worker that only logs the errors of clones, deletes and restores.
EndsJobSeldom(s) ==
  s \in FailingSteps \ {"cloning", "deleting", "restoring"}

\* A worker that reports a failure and does not return.
AbortAndGoOn(j) ==
  /\ status' = [status EXCEPT ![j] = "failed"]
  /\ at' = [at EXCEPT ![j] = @ + 1]
  /\ pc' = [pc EXCEPT ![j] = "report"]
  /\ UNCHANGED step

-----------------------------------------------------------------------------
(* The worker: provisionVM, provisionContainer, backupJob, restoreJob *)

\* The calls of a step are over: on to the next step.
Continue(j) ==
  /\ at' = [at EXCEPT ![j] = @ + 1]
  /\ pc' = [pc EXCEPT ![j] = "report"]
  /\ UNCHANGED jobVars

\* store.SetError and return.
Abort(j) ==
  /\ status' = [status EXCEPT ![j] = "failed"]
  /\ pc' = [pc EXCEPT ![j] = "over"]
  /\ UNCHANGED <<step, at>>

\* What goes wrong while stopping a guest for an in-place restore is ignored,
\* like the errors of the configuring, resizing and adding_disks steps: a resize
\* that takes too long is left running.
EndsJob(s) == s \in FailingSteps

\* A call or a task of the step failed.
StepFails(j) == IF EndsJob(ScriptStep(j)) THEN Abort(j) ELSE Continue(j)

StatusOf(s) == IF s = "ready" THEN "completed" ELSE "running"

\* What a callback does when it has reported a step: return, make a call that
\* starts a task, or wait for the guest to run.  The other steps make requests
\* that start no task and whose errors are only logged.
After(j) ==
  CASE ScriptStep(j) = "ready" -> "over"
    [] ScriptStep(j) = "waiting_for_running" -> "poll"
    [] HasTask(j) -> "call"
    [] OTHER -> "report"

\* store.UpdateStep, up to the step's first call.
Report(j) ==
  /\ pc[j] = "report"
  /\ step' = [step EXCEPT ![j] = ScriptStep(j)]
  /\ status' = [status EXCEPT ![j] = StatusOf(ScriptStep(j))]
  /\ pc' = [pc EXCEPT ![j] = After(j)]
  /\ at' = IF After(j) = "report" THEN [at EXCEPT ![j] = @ + 1] ELSE at
  /\ UNCHANGED <<vmid, queue, task, guest, deleted>>

\* No task of a job is working on the guest.
Idle(v) == \A k \in Jobs, p \in Ops : vmid[k] = v => task[k][p] # "running"

\* Proxmox would run the task: no other task holds the guest, and the guest is
\* in a state the operation applies to.
Accepts(o, v) ==
  /\ Idle(v)
  /\ CASE o \in {"clone", "restore"} -> guest[v] = "absent"
       [] o = "stop" -> guest[v] = "running"
       [] o \in {"start", "delete"} -> guest[v] = "stopped"
       [] o \in {"backup", "resize"} -> guest[v] \in {"stopped", "running"}

\* Proxmox takes the request on: a guest to be made occupies its VMID at once.
StartTask(j, o) ==
  /\ Accepts(o, vmid[j])
  /\ task' = [task EXCEPT ![j][o] = "running"]
  /\ guest' = IF o \in {"clone", "restore"}
                THEN [guest EXCEPT ![vmid[j]] = "creating"] ELSE guest

\* The request starts a task and its UPID comes back.
Call(j) ==
  /\ pc[j] = "call"
  /\ StartTask(j, OpOf[ScriptStep(j)])
  /\ pc' = [pc EXCEPT ![j] = "wait"]
  /\ UNCHANGED <<jobVars, vmid, at, queue, deleted>>

\* The request starts a task but the answer does not arrive in time.
CallUnanswered(j) ==
  /\ pc[j] = "call"
  /\ StartTask(j, OpOf[ScriptStep(j)])
  /\ StepFails(j)
  /\ UNCHANGED <<vmid, queue, deleted>>

\* The request does not arrive or is refused.  For a stop also: the guest's
\* status could not be read or is not "running", and no request is made; for
\* a resize: the job asks for none.
CallFails(j) ==
  /\ pc[j] = "call"
  /\ StepFails(j)
  /\ UNCHANGED <<vmid, queue, task, guest, deleted>>

\* WaitForTask saw the task stopped with OK or warnings ...
SawOk(j, s) == task[j][OpOf[s]] = "ok"

\* ... or saw it fail, or its time ran out: because the task is slow, or
\* because its status could not be read, whatever became of it.
SawFailure(j, s) == task[j][OpOf[s]] \in {"running", "ok", "failed"}

WaitOk(j) ==
  /\ pc[j] = "wait"
  /\ SawOk(j, ScriptStep(j))
  /\ Continue(j)
  /\ UNCHANGED <<vmid, queue, task, guest, deleted>>

WaitFails(j) ==
  /\ pc[j] = "wait"
  /\ SawFailure(j, ScriptStep(j))
  /\ StepFails(j)
  /\ UNCHANGED <<vmid, queue, task, guest, deleted>>

\* waitForRunningAndIP, waitForRunningContainer: the guest is seen running.
SeenRunning(j) ==
  /\ pc[j] = "poll"
  /\ guest[vmid[j]] = "running"
  /\ Continue(j)
  /\ UNCHANGED <<vmid, queue, task, guest, deleted>>

\* The time for it ran out: not running, or its status could not be read.
NotSeenRunning(j) ==
  /\ pc[j] = "poll"
  /\ StepFails(j)
  /\ UNCHANGED <<vmid, queue, task, guest, deleted>>

-----------------------------------------------------------------------------
(* Proxmox and its users *)

\* What a task that succeeds leaves of its guest.
Outcome(o, v) ==
  CASE o \in {"clone", "restore", "stop"} -> "stopped"
    [] o = "start" -> "running"
    [] o = "delete" -> "absent"
    [] o \in {"backup", "resize"} -> guest[v]

\* A job has made its guest.
HasMade(j) == MakesGuest(j) /\ task[j][Maker(j)] = "ok"

\* The guest that is under a VMID goes, whichever job made it.
Forget(v) == deleted' = deleted \cup {j \in Jobs : HasMade(j) /\ vmid[j] = v}

TaskSucceeds(j, o) ==
  /\ task[j][o] = "running"
  /\ task' = [task EXCEPT ![j][o] = "ok"]
  /\ guest' = [guest EXCEPT ![vmid[j]] = Outcome(o, vmid[j])]
  /\ IF o = "delete" THEN Forget(vmid[j]) ELSE UNCHANGED deleted
  /\ UNCHANGED <<jobVars, vmid, pc, at, queue>>

\* A clone or restore that fails removes what it had made.
TaskFails(j, o) ==
  /\ task[j][o] = "running"
  /\ task' = [task EXCEPT ![j][o] = "failed"]
  /\ guest' = IF o \in {"clone", "restore"}
                THEN [guest EXCEPT ![vmid[j]] = "absent"] ELSE guest
  /\ UNCHANGED <<jobVars, vmid, pc, at, queue, deleted>>

\* Somebody starts or stops a guest no task is working on.
Power(v) ==
  /\ Idle(v)
  /\ \/ guest[v] = "stopped" /\ guest' = [guest EXCEPT ![v] = "running"]
     \/ guest[v] = "running" /\ guest' = [guest EXCEPT ![v] = "stopped"]
  /\ UNCHANGED <<jobVars, vmid, pc, at, queue, task, deleted>>

\* DeleteVM and DeleteContainer: somebody deletes a guest that is stopped, a
\* reinstall among them, whose job asks for the same VMID again.
DeleteGuest(v) ==
  /\ Idle(v)
  /\ guest[v] = "stopped"
  /\ guest' = [guest EXCEPT ![v] = "absent"]
  /\ Forget(v)
  /\ UNCHANGED <<jobVars, vmid, pc, at, queue, task>>

\* CloneVM and CloneContainer: somebody makes a guest without a job.
CloneGuest(v) ==
  /\ v \in Others
  /\ Idle(v)
  /\ guest[v] = "absent"
  /\ guest' = [guest EXCEPT ![v] = "stopped"]
  /\ UNCHANGED <<jobVars, vmid, pc, at, queue, task, deleted>>

User(v) == Power(v) \/ DeleteGuest(v) \/ CloneGuest(v)

-----------------------------------------------------------------------------
(* The specification *)

Submitter(j) == Publish(j) \/ PublishFails(j)

Worker(j) ==
  \/ Report(j)
  \/ Call(j) \/ CallUnanswered(j) \/ CallFails(j)
  \/ WaitOk(j) \/ WaitFails(j)
  \/ SeenRunning(j) \/ NotSeenRunning(j)

Next ==
  \/ \E j \in Jobs :
       \/ Allocate(j) \/ Create(j) \/ Submitter(j)
       \/ Lose(j) \/ Deliver(j) \/ Worker(j)
       \/ \E o \in Ops : TaskSucceeds(j, o) \/ TaskFails(j, o)
  \/ \E v \in VMIDs : User(v)

Spec == Init /\ [][Next]_vars

(***************************************************************************)
(* Handlers and callbacks keep running, every call and every wait of the    *)
(* worker has a time-out, and the NATS client calls an idle subscription.   *)
(* Nothing is assumed of Proxmox: its tasks may never end.                  *)
(***************************************************************************)
FairSpec ==
  /\ Spec
  /\ \A j \in Jobs :
       WF_vars(Submitter(j)) /\ WF_vars(Deliver(j)) /\ WF_vars(Worker(j))

-----------------------------------------------------------------------------
(* Properties *)

\* The types of the variables.
TypeOK ==
  /\ status \in [Jobs -> JobStatuses]
  /\ step \in [Jobs -> StepNames \cup {StepNone}]
  /\ vmid \in [Jobs -> VMIDs \cup {AutoVmid}]
  /\ pc \in [Jobs -> {"request", "publish", "queued", "lost", "report",
                      "call", "wait", "poll", "over"}]
  /\ \A j \in Jobs : at[j] \in 1 .. Len(ScriptOf[Kind[j]])
  /\ queue \in [Subjects -> Seq(Jobs)]
  /\ task \in [Jobs -> [Ops -> {"none", "running", "ok", "failed"}]]
  /\ guest \in [VMIDs -> {"absent", "creating", "stopped", "running"}]
  /\ deleted \subseteq Jobs

\* The tasks of a job's script whose failure would have ended the job.
NeededOps(j) ==
  {OpOf[s] : s \in DOMAIN OpOf \cap FailingSteps
                     \cap {ScriptOf[Kind[j]][i] : i \in 1 .. Len(ScriptOf[Kind[j]])}}

\* A job that is reported completed has done its work: each task it needed
\* ended well on Proxmox, and none of its tasks is still running, whatever
\* answers were lost and waits timed out (worker.go: SetError and return after
\* each call and each WaitForTask).
CompletedMeansDone ==
  \A j \in Jobs :
    status[j] = "completed" =>
      /\ \A o \in NeededOps(j) : task[j][o] = "ok"
      /\ \A o \in Ops : task[j][o] # "running"

\* An in-place restore asks for the new guest only when Proxmox has deleted the
\* old one: a delete that was refused, failed or timed out ends the job
\* (worker.go: restoreJob).
RestoreNeedsDelete ==
  \A j \in Jobs :
    Kind[j] = "restore_inplace" /\ task[j]["restore"] # "none"
      => task[j]["delete"] = "ok"

\* Once a job has its outcome the worker is done with it: it reports nothing
\* else and asks Proxmox for nothing more on the job's behalf, while tasks it
\* has given up go on (worker.go: every SetError is followed by a return).
QuietAfterOutcome ==
  [][\A j \in Jobs : status[j] \in TerminalStatuses =>
       /\ status'[j] = status[j] /\ step'[j] = step[j]
       /\ \A o \in Ops : task[j][o] = "none" => task'[j][o] = "none"]_vars

\* Of the jobs that report success for a guest under one VMID, all but one have
\* seen theirs deleted since, by somebody or by a restore in place: a VMID that
\* is handed out twice, or taken again after a delete, costs a failed job, not a
\* guest believed to be two (worker.go: provisionVM, provisionContainer,
\* restoreJob).
OneGuestPerVmid ==
  \A j, k \in Jobs :
    /\ j # k
    /\ MakesGuest(j) /\ MakesGuest(k)
    /\ vmid[j] = vmid[k]
    /\ status[j] = "completed" /\ status[k] = "completed"
    => j \in deleted \/ k \in deleted

\* Every job that was stored gets an outcome, unless its message was lost:
\* jobs queued behind long ones are reached, and no call, task or guest that
\* never answers holds a job for ever (worker.go: Start; client.go:
\* WaitForTask).
JobsEnd ==
  \A j \in Jobs :
    status[j] # "none" ~> status[j] \in TerminalStatuses \/ pc[j] = "lost"

\* Each job's status and percentage follow the life cycle of JobLifecycle.
Lifecycle(j) ==
  INSTANCE JobLifecycle
    WITH status <- status[j], progress <- Progress(step[j])
ImplementsLifecycle ==
  /\ \A j \in Jobs : Lifecycle(j)!Init
  /\ [][\A j \in Jobs : Lifecycle(j)!Next \/ UNCHANGED Lifecycle(j)!vars]_vars
=============================================================================
