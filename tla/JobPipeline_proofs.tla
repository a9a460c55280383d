-------------------------- MODULE JobPipeline_proofs --------------------------
(***************************************************************************)
(* Theorems about JobPipeline for every set of jobs, whatever kinds they    *)
(* are of, every set of guests and every number of VMIDs.                   *)
(***************************************************************************)
EXTENDS JobPipeline, SequenceTheorems, TLAPS

-----------------------------------------------------------------------------
(* Facts about the scripts *)

Script(j) == ScriptOf[Kind[j]]

Kinds == {"vm", "vm_volumes", "container", "backup", "restore", "restore_inplace"}

\* A script reports ready last and no step twice.
LEMMA ScriptOrder ==
  ASSUME NEW k \in Kinds
  PROVE  /\ ScriptOf[k] \in Seq(StepNames)
         /\ Len(ScriptOf[k]) \in Nat
         /\ Len(ScriptOf[k]) > 1
         /\ \A i \in 1 .. Len(ScriptOf[k]) :
              /\ ScriptOf[k][i] \in StepNames
              /\ ScriptOf[k][i] = "ready" <=> i = Len(ScriptOf[k])
         /\ \A i, m \in 1 .. Len(ScriptOf[k]) :
              ScriptOf[k][i] = ScriptOf[k][m] => i = m
  <1>1. CASE k = "vm"
    BY <1>1 DEF ScriptOf, StepNames, StepProgress
  <1>2. CASE k = "vm_volumes"
    BY <1>2 DEF ScriptOf, StepNames, StepProgress
  <1>3. CASE k = "container"
    BY <1>3 DEF ScriptOf, StepNames, StepProgress
  <1>4. CASE k = "backup"
    BY <1>4 DEF ScriptOf, StepNames, StepProgress
  <1>5. CASE k = "restore"
    BY <1>5 DEF ScriptOf, StepNames, StepProgress
  <1>6. CASE k = "restore_inplace"
    BY <1>6 DEF ScriptOf, StepNames, StepProgress
  <1> QED
    BY <1>1, <1>2, <1>3, <1>4, <1>5, <1>6 DEF Kinds

\* A task whose failure is only logged comes before one that ends the job.
LEMMA LoggedBeforeFatal ==
  ASSUME NEW k \in Kinds, NEW i \in 1 .. Len(ScriptOf[k]),
         ScriptOf[k][i] \in DOMAIN OpOf, ScriptOf[k][i] \notin FailingSteps
  PROVE  \E m \in i + 1 .. Len(ScriptOf[k]) :
           ScriptOf[k][m] \in FailingSteps \cap DOMAIN OpOf
  <1>1. CASE k = "vm"
    <2>1. i = 3 /\ 4 \in i + 1 .. Len(ScriptOf[k]) /\ ScriptOf[k][4] = "starting"
      BY <1>1 DEF ScriptOf, OpOf, FailingSteps
    <2> QED
      BY <2>1 DEF OpOf, FailingSteps
  <1>2. CASE k = "vm_volumes"
    <2>1. i = 3 /\ 5 \in i + 1 .. Len(ScriptOf[k]) /\ ScriptOf[k][5] = "starting"
      BY <1>2 DEF ScriptOf, OpOf, FailingSteps
    <2> QED
      BY <2>1 DEF OpOf, FailingSteps
  <1>3. CASE k = "container"
    <2>1. i = 3 /\ 4 \in i + 1 .. Len(ScriptOf[k]) /\ ScriptOf[k][4] = "starting"
      BY <1>3 DEF ScriptOf, OpOf, FailingSteps
    <2> QED
      BY <2>1 DEF OpOf, FailingSteps
  <1>4. CASE k \in {"backup", "restore"}
    <2>1. ScriptOf[k] \in {<<"backing_up", "ready">>, <<"restoring", "ready">>}
      BY <1>4 DEF ScriptOf
    <2>2. ScriptOf[k][i] \in {"backing_up", "restoring", "ready"}
      BY <2>1
    <2> QED
      BY <2>2 DEF OpOf, FailingSteps
  <1>5. CASE k = "restore_inplace"
    <2>1. i = 1 /\ 2 \in i + 1 .. Len(ScriptOf[k]) /\ ScriptOf[k][2] = "deleting"
      BY <1>5 DEF ScriptOf, OpOf, FailingSteps
    <2> QED
      BY <2>1 DEF OpOf, FailingSteps
  <1> QED
    BY <1>1, <1>2, <1>3, <1>4, <1>5 DEF Kinds

\* A step makes at most one request that starts a task, no two steps make the
\* same, and ready and waiting_for_running make none.
LEMMA OpFacts ==
  /\ DOMAIN OpOf \subseteq StepNames
  /\ \A s \in DOMAIN OpOf : OpOf[s] \in Ops
  /\ \A s, t \in DOMAIN OpOf : OpOf[s] = OpOf[t] => s = t
  /\ "ready" \notin DOMAIN OpOf
  /\ "waiting_for_running" \notin DOMAIN OpOf
  BY DEF OpOf, Ops, StepNames, StepProgress

\* The same, of the script of a job.
LEMMA JobScript ==
  ASSUME NEW j \in Jobs
  PROVE  /\ Kind[j] \in Kinds
         /\ Script(j) \in Seq(StepNames)
         /\ Len(Script(j)) \in Nat
         /\ Len(Script(j)) > 1
         /\ \A i \in 1 .. Len(Script(j)) :
              /\ Script(j)[i] \in StepNames
              /\ Script(j)[i] = "ready" <=> i = Len(Script(j))
         /\ \A i, m \in 1 .. Len(Script(j)) : Script(j)[i] = Script(j)[m] => i = m
  <1>1. Kind[j] \in Kinds
    BY PipelineAssumption DEF ScriptOf, Kinds
  <1> QED
    BY <1>1, ScriptOrder DEF Script

\* A job that makes a guest has a step for it, which may end the job.
LEMMA MakerFacts ==
  ASSUME NEW j \in Jobs, MakesGuest(j)
  PROVE  \E i \in 1 .. Len(Script(j)) :
           /\ Script(j)[i] \in FailingSteps \cap DOMAIN OpOf
           /\ OpOf[Script(j)[i]] = Maker(j)
  <1> DEFINE G(i) == /\ Script(j)[i] \in FailingSteps \cap DOMAIN OpOf
                     /\ OpOf[Script(j)[i]] = Maker(j)
  <1>1. CASE Kind[j] \in {"vm", "vm_volumes", "container", "restore"}
    <2>1. G(1)
      <3>1. CASE Kind[j] = "vm"
        BY <3>1 DEF Script, ScriptOf, Maker, OpOf, FailingSteps
      <3>2. CASE Kind[j] = "vm_volumes"
        BY <3>2 DEF Script, ScriptOf, Maker, OpOf, FailingSteps
      <3>3. CASE Kind[j] = "container"
        BY <3>3 DEF Script, ScriptOf, Maker, OpOf, FailingSteps
      <3>4. CASE Kind[j] = "restore"
        BY <3>4 DEF Script, ScriptOf, Maker, OpOf, FailingSteps
      <3> QED
        BY <1>1, <3>1, <3>2, <3>3, <3>4
    <2>2. 1 \in 1 .. Len(Script(j))
      BY JobScript
    <2> QED
      BY <2>1, <2>2
  <1>2. CASE Kind[j] = "restore_inplace"
    <2>1. G(3) /\ 3 \in 1 .. Len(Script(j))
      BY <1>2 DEF Script, ScriptOf, Maker, OpOf, FailingSteps
    <2> QED
      BY <2>1
  <1> QED
    BY <1>1, <1>2, JobScript DEF MakesGuest, Kinds

\* An in-place restore deletes, then restores, and clones nothing.
LEMMA InPlaceFacts ==
  ASSUME NEW j \in Jobs, Kind[j] = "restore_inplace"
  PROVE  /\ Len(Script(j)) = 4
         /\ Script(j)[2] = "deleting"
         /\ \A i \in 1 .. Len(Script(j)) :
              Script(j)[i] \in DOMAIN OpOf
                => /\ OpOf[Script(j)[i]] # "clone"
                   /\ OpOf[Script(j)[i]] = "restore" => i = 3
  BY DEF Script, ScriptOf, OpOf

-----------------------------------------------------------------------------
(* The invariant *)

\* Where a job is: before its script, in it or behind it.
PlaceInv ==
  \A j \in Jobs :
    /\ pc[j] \in {"request", "publish", "queued", "lost"} => at[j] = 1
    /\ pc[j] \in {"call", "wait"} => HasTask(j)
    /\ pc[j] = "poll" => ScriptStep(j) = "waiting_for_running"
    /\ status[j] \in TerminalStatuses => pc[j] = "over"
    /\ status[j] = "completed" => at[j] = Len(Script(j))

\* A message is in the queue of its subject, once, while its job waits for it.
QueueInv ==
  \A q \in Subjects : \A i \in 1 .. Len(queue[q]) :
    /\ pc[queue[q][i]] = "queued"
    /\ Subject(queue[q][i]) = q
    /\ \A m \in 1 .. Len(queue[q]) : queue[q][i] = queue[q][m] => i = m

WorkInv == TypeOK /\ at \in [Jobs -> Nat] /\ PlaceInv
TypeInv == WorkInv /\ QueueInv

\* The step whose task it is has been reached, and its request has been made.
Asked(j, o) ==
  \E i \in 1 .. at[j] :
    /\ Script(j)[i] \in DOMAIN OpOf
    /\ OpOf[Script(j)[i]] = o
    /\ i = at[j] => pc[j] \in {"wait", "over"}

AskedInv ==
  \A j \in Jobs, o \in Ops : task[j][o] # "none" => Asked(j, o)

\* A step that may end the job is left behind only when its task is done.
DoneInv ==
  \A j \in Jobs : \A i \in 1 .. Len(Script(j)) :
    i < at[j] /\ Script(j)[i] \in FailingSteps \cap DOMAIN OpOf
      => task[j][OpOf[Script(j)[i]]] = "ok"

\* A task still running is the last the job has asked for.
LastInv ==
  \A j \in Jobs : \A i, m \in 1 .. Len(Script(j)) :
    /\ i < m
    /\ Script(j)[i] \in DOMAIN OpOf /\ Script(j)[m] \in DOMAIN OpOf
    /\ task[j][OpOf[Script(j)[i]]] = "running"
    => task[j][OpOf[Script(j)[m]]] = "none"

\* Proxmox runs one task at a time on a guest, and one being made is nothing else.
TasksInv ==
  /\ \A j, k \in Jobs, o, p \in Ops :
       /\ vmid[j] = vmid[k]
       /\ task[j][o] = "running" /\ task[k][p] = "running"
       => j = k /\ o = p
  /\ \A j \in Jobs, o \in {"clone", "restore"} :
       task[j][o] = "running" => guest[vmid[j]] = "creating"

\* A guest that was made and not deleted is there, and was made by one job.
Standing(j) == HasMade(j) /\ j \notin deleted

GuestInv ==
  \A j \in Jobs : Standing(j) =>
    /\ guest[vmid[j]] \in {"stopped", "running"}
    /\ \A k \in Jobs : Standing(k) /\ vmid[k] = vmid[j] => k = j

\* The job knows its VMID when it is stored.
VmidInv == \A j \in Jobs : pc[j] # "request" => vmid[j] # AutoVmid

Inv ==
  TypeInv /\ AskedInv /\ DoneInv /\ LastInv /\ VmidInv /\ TasksInv /\ GuestInv

-----------------------------------------------------------------------------
(* TypeInv *)

\* Steps at which a callback is still at work are not the last one.
LEMMA InScript ==
  ASSUME TypeInv, NEW j \in Jobs, pc[j] \in {"call", "wait", "poll"}
  PROVE  /\ ScriptStep(j) # "ready"
         /\ at[j] \in Nat /\ at[j] < Len(Script(j))
         /\ at[j] + 1 \in 1 .. Len(Script(j))
         /\ pc[j] \in {"call", "wait"}
              => ScriptStep(j) \in DOMAIN OpOf /\ OpOf[ScriptStep(j)] \in Ops
         /\ pc[j] = "poll" => ScriptStep(j) \notin DOMAIN OpOf
  <1>1. at[j] \in Nat /\ at[j] \in 1 .. Len(Script(j))
    BY DEF TypeInv, WorkInv, TypeOK, Script
  <1>2. pc[j] \in {"call", "wait"} => ScriptStep(j) \in DOMAIN OpOf
    BY DEF TypeInv, WorkInv, PlaceInv, HasTask
  <1>3. pc[j] = "poll" => ScriptStep(j) = "waiting_for_running"
    BY DEF TypeInv, WorkInv, PlaceInv
  <1>4. ScriptStep(j) # "ready"
    BY <1>2, <1>3, OpFacts
  <1>5. at[j] # Len(Script(j))
    BY <1>1, <1>4, JobScript DEF ScriptStep, Script
  <1> QED
    BY <1>1, <1>2, <1>3, <1>4, <1>5, OpFacts, JobScript

\* What a worker does after a call or a wait, in any case.
LEMMA StepEnds ==
  ASSUME NEW j \in Jobs, StepFails(j) \/ Continue(j)
  PROVE  \/ Continue(j)
         \/ Abort(j)
  BY DEF StepFails

\* Going on and failing keep the types and the places.
LEMMA ContinueType ==
  ASSUME TypeInv, NEW j \in Jobs, pc[j] \in {"call", "wait", "poll"},
         StepFails(j) \/ Continue(j),
         vmid' = vmid
  PROVE  /\ status' \in [Jobs -> JobStatuses]
         /\ step' \in [Jobs -> StepNames \cup {StepNone}]
         /\ pc' \in [Jobs -> {"request", "publish", "queued", "lost", "report",
                              "call", "wait", "poll", "over"}]
         /\ \A k \in Jobs : at'[k] \in 1 .. Len(ScriptOf[Kind[k]])
         /\ at' \in [Jobs -> Nat]
         /\ PlaceInv'
  <1> USE DEF TypeInv, WorkInv, TypeOK
  <1>1. at[j] + 1 \in 1 .. Len(Script(j)) /\ at[j] \in Nat
    BY InScript
  <1>2. CASE Continue(j)
    <2>1. /\ status' = status /\ step' = step
          /\ pc' = [pc EXCEPT ![j] = "report"]
          /\ at' = [at EXCEPT ![j] = at[j] + 1]
      BY <1>2 DEF Continue, jobVars
    <2>2. PlaceInv'
      <3> SUFFICES ASSUME NEW k \in Jobs
                   PROVE  /\ pc'[k] \in {"request", "publish", "queued", "lost"} => at'[k] = 1
                          /\ pc'[k] \in {"call", "wait"} => HasTask(k)'
                          /\ pc'[k] = "poll" => ScriptStep(k)' = "waiting_for_running"
                          /\ status'[k] \in TerminalStatuses => pc'[k] = "over"
                          /\ status'[k] = "completed" => at'[k] = Len(Script(k))
        BY DEF PlaceInv, Script
      <3>1. CASE k = j
        <4>1. status[j] \notin TerminalStatuses /\ status[j] # "completed"
          BY DEF PlaceInv, TerminalStatuses
        <4> QED
          BY <3>1, <2>1, <4>1
      <3>2. CASE k # j
        BY <3>2, <2>1 DEF PlaceInv, HasTask, ScriptStep, Script
      <3> QED
        BY <3>1, <3>2
    <2> QED
      BY <2>1, <2>2, <1>1 DEF Script
  <1>3. CASE Abort(j)
    <2>1. /\ status' = [status EXCEPT ![j] = "failed"] /\ step' = step
          /\ pc' = [pc EXCEPT ![j] = "over"] /\ at' = at
      BY <1>3 DEF Abort
    <2>2. PlaceInv'
      <3> SUFFICES ASSUME NEW k \in Jobs
                   PROVE  /\ pc'[k] \in {"request", "publish", "queued", "lost"} => at'[k] = 1
                          /\ pc'[k] \in {"call", "wait"} => HasTask(k)'
                          /\ pc'[k] = "poll" => ScriptStep(k)' = "waiting_for_running"
                          /\ status'[k] \in TerminalStatuses => pc'[k] = "over"
                          /\ status'[k] = "completed" => at'[k] = Len(Script(k))
        BY DEF PlaceInv, Script
      <3> QED
        BY <2>1 DEF PlaceInv, HasTask, ScriptStep, Script
    <2> QED
      BY <2>1, <2>2 DEF JobStatuses
  <1> QED
    BY <1>2, <1>3, StepEnds

\* Proxmox's side of a request that starts a task.
LEMMA StartTaskType ==
  ASSUME TypeInv, NEW j \in Jobs, NEW o \in Ops, StartTask(j, o)
  PROVE  /\ task' \in [Jobs -> [Ops -> {"none", "running", "ok", "failed"}]]
         /\ guest' \in [VMIDs -> {"absent", "creating", "stopped", "running"}]
  <1>1. task' = [task EXCEPT ![j][o] = "running"]
    BY DEF StartTask
  <1>2. task' \in [Jobs -> [Ops -> {"none", "running", "ok", "failed"}]]
    BY <1>1 DEF TypeInv, WorkInv, TypeOK
  <1>3. guest' = guest \/ guest' = [guest EXCEPT ![vmid[j]] = "creating"]
    BY DEF StartTask
  <1>4. guest' \in [VMIDs -> {"absent", "creating", "stopped", "running"}]
    BY <1>3 DEF TypeInv, WorkInv, TypeOK
  <1> QED
    BY <1>2, <1>4

\* A job that is not yet in its script, and one that is over, need little.
LEMMA PlaceStable ==
  ASSUME TypeInv, UNCHANGED <<status, step, vmid, pc, at>>
  PROVE  /\ status' \in [Jobs -> JobStatuses]
         /\ step' \in [Jobs -> StepNames \cup {StepNone}]
         /\ vmid' \in [Jobs -> VMIDs \cup {AutoVmid}]
         /\ pc' \in [Jobs -> {"request", "publish", "queued", "lost", "report",
                              "call", "wait", "poll", "over"}]
         /\ \A k \in Jobs : at'[k] \in 1 .. Len(ScriptOf[Kind[k]])
         /\ at' \in [Jobs -> Nat]
         /\ PlaceInv'
  <1>1. PlaceInv'
    BY DEF TypeInv, WorkInv, PlaceInv, HasTask, ScriptStep, Script
  <1>2. \A k \in Jobs : at'[k] \in 1 .. Len(ScriptOf[Kind[k]])
    BY DEF TypeInv, WorkInv, TypeOK
  <1>3. at' \in [Jobs -> Nat]
    BY DEF TypeInv, WorkInv
  <1>4. status' \in [Jobs -> JobStatuses] /\ step' \in [Jobs -> StepNames \cup {StepNone}]
    BY DEF TypeInv, WorkInv, TypeOK
  <1> QED
    BY <1>1, <1>2, <1>3, <1>4 DEF TypeInv, WorkInv, TypeOK

\* Every kind of job has a subject.
LEMMA SubjectType == ASSUME NEW j \in Jobs PROVE Subject(j) \in Subjects
  BY JobScript DEF Subject, Subjects, Kinds

\* The types hold at the start.
LEMMA InitType == Init => TypeInv
  <1> SUFFICES ASSUME Init PROVE TypeInv
    OBVIOUS
  <1>1. \A j \in Jobs : 1 \in 1 .. Len(ScriptOf[Kind[j]])
    BY JobScript DEF Script
  <1>2. TypeOK
    BY <1>1, PipelineAssumption DEF Init, TypeOK, JobStatuses
  <1>3. PlaceInv
    BY DEF Init, PlaceInv, TerminalStatuses
  <1>4. at \in [Jobs -> Nat]
    BY DEF Init
  <1>5. QueueInv
    BY DEF Init, QueueInv
  <1> QED
    BY <1>2, <1>3, <1>4, <1>5 DEF TypeInv, WorkInv

\* A message that is delivered is one of a job that waits for it.
LEMMA DeliverQueued ==
  ASSUME TypeInv, NEW j \in Jobs, Deliver(j)
  PROVE  pc[j] = "queued"
  <1>1. queue[Subject(j)] \in Seq(Jobs) /\ queue[Subject(j)] # <<>>
    BY SubjectType DEF Deliver, TypeInv, WorkInv, TypeOK
  <1>2. 1 \in 1 .. Len(queue[Subject(j)]) /\ queue[Subject(j)][1] = j
    BY <1>1 DEF Deliver
  <1> QED
    BY <1>2, SubjectType DEF TypeInv, QueueInv

\* The submit handlers and NATS.
LEMMA SubmitType ==
  ASSUME TypeInv, NEW j \in Jobs,
         Create(j) \/ Submitter(j) \/ Lose(j) \/ Deliver(j)
  PROVE  WorkInv'
  <1> USE DEF TypeInv, WorkInv, TypeOK
  <1>1. /\ UNCHANGED <<step, vmid, at, task, guest, deleted>>
        /\ pc[j] \in {"request", "publish", "queued"} \/ Deliver(j)
    BY DEF Create, Submitter, Publish, PublishFails, Lose, Deliver, jobVars
  <1>2. queue' \in [Subjects -> Seq(Jobs)]
    <2>1. CASE Create(j) \/ PublishFails(j)
      BY <2>1 DEF Create, PublishFails
    <2>2. CASE Publish(j)
      BY <2>2, SubjectType DEF Publish
    <2>3. CASE Lose(j)
      <3> DEFINE q == queue[Subject(j)]
      <3>1. PICK i \in DOMAIN q :
              queue' = [queue EXCEPT ![Subject(j)] =
                          SubSeq(q, 1, i - 1) \o SubSeq(q, i + 1, Len(q))]
        BY <2>3 DEF Lose
      <3>0. q \in Seq(Jobs)
        BY SubjectType
      <3> HIDE DEF q
      <3>2. i \in 1 .. Len(q) /\ Len(q) \in Nat
        BY <3>1, <3>0
      <3>3. \A m \in 1 .. Len(q) : q[m] \in Jobs
        BY <3>2, <3>0
      <3>4. SubSeq(q, 1, i - 1) \in Seq(Jobs)
        BY <3>2, <3>3, SubSeqProperties
      <3>5. SubSeq(q, i + 1, Len(q)) \in Seq(Jobs)
        BY <3>2, <3>3, SubSeqProperties
      <3>6. SubSeq(q, 1, i - 1) \o SubSeq(q, i + 1, Len(q)) \in Seq(Jobs)
        BY <3>4, <3>5, ConcatProperties
      <3> QED
        BY <3>1, <3>6, SubjectType
    <2>4. CASE Deliver(j)
      BY <2>4, SubjectType DEF Deliver
    <2> QED
      BY <2>1, <2>2, <2>3, <2>4 DEF Submitter
  <1>3. CASE Create(j)
    <2>1. /\ status' = [status EXCEPT ![j] = "pending"]
          /\ pc' = [pc EXCEPT ![j] = "publish"]
          /\ pc[j] = "request"
      BY <1>3 DEF Create
    <2>2. PlaceInv'
      BY <1>1, <2>1 DEF PlaceInv, HasTask, ScriptStep, Script, TerminalStatuses
    <2> QED
      BY <1>1, <1>2, <2>1, <2>2 DEF JobStatuses
  <1>4. CASE Publish(j)
    <2>1. status' = status /\ pc' = [pc EXCEPT ![j] = "queued"] /\ pc[j] = "publish"
      BY <1>4 DEF Publish, jobVars
    <2>2. PlaceInv'
      BY <1>1, <2>1 DEF PlaceInv, HasTask, ScriptStep, Script
    <2> QED
      BY <1>1, <1>2, <2>1, <2>2
  <1>5. CASE PublishFails(j)
    <2>1. /\ status' = [status EXCEPT ![j] = "failed"]
          /\ pc' = [pc EXCEPT ![j] = "over"]
      BY <1>5 DEF PublishFails
    <2>2. PlaceInv'
      BY <1>1, <2>1 DEF PlaceInv, HasTask, ScriptStep, Script
    <2> QED
      BY <1>1, <1>2, <2>1, <2>2 DEF JobStatuses
  <1>6. CASE Lose(j)
    <2>1. status' = status /\ pc' = [pc EXCEPT ![j] = "lost"] /\ pc[j] = "queued"
      BY <1>6 DEF Lose, jobVars
    <2>2. PlaceInv'
      BY <1>1, <2>1 DEF PlaceInv, HasTask, ScriptStep, Script
    <2> QED
      BY <1>1, <1>2, <2>1, <2>2
  <1>7. CASE Deliver(j)
    <2>1. status' = status /\ pc' = [pc EXCEPT ![j] = "report"]
      BY <1>7 DEF Deliver, jobVars
    <2>2. pc[j] = "queued"
      BY <1>7, DeliverQueued
    <2>3. status[j] \notin TerminalStatuses /\ status[j] # "completed"
      BY <2>2 DEF PlaceInv, TerminalStatuses
    <2>4. PlaceInv'
      BY <1>1, <2>1, <2>3 DEF PlaceInv, HasTask, ScriptStep, Script
    <2> QED
      BY <1>1, <1>2, <2>1, <2>4
  <1> QED
    BY <1>3, <1>4, <1>5, <1>6, <1>7 DEF Submitter

\* Steps that touch no queue and take no job out of one.
LEMMA QueueStable ==
  ASSUME TypeInv, queue' = queue,
         \A k \in Jobs : pc[k] = "queued" => pc'[k] = "queued"
  PROVE  QueueInv'
  <1>1. \A q \in Subjects : \A i \in 1 .. Len(queue[q]) : queue[q][i] \in Jobs
    BY DEF TypeInv, WorkInv, TypeOK
  <1> QED
    BY <1>1 DEF TypeInv, QueueInv

\* The callback of a job that runs changes nothing of another job.
LEMMA WorkerFrame ==
  ASSUME TypeInv, NEW j \in Jobs, Worker(j)
  PROVE  /\ pc[j] \in {"report", "call", "wait", "poll"}
         /\ queue' = queue /\ vmid' = vmid
         /\ \A k \in Jobs \ {j} :
              /\ pc'[k] = pc[k] /\ at'[k] = at[k]
              /\ status'[k] = status[k] /\ step'[k] = step[k]
              /\ task'[k] = task[k]
  <1>1. CASE Report(j)
    BY <1>1 DEF Report, TypeInv, WorkInv, TypeOK
  <1>2. CASE Call(j) \/ CallUnanswered(j) \/ CallFails(j) \/ WaitOk(j)
             \/ WaitFails(j) \/ SeenRunning(j) \/ NotSeenRunning(j)
    <2>1. /\ pc[j] \in {"call", "wait", "poll"}
          /\ queue' = queue /\ vmid' = vmid
      BY <1>2 DEF Call, CallUnanswered, CallFails, WaitOk, WaitFails, SeenRunning,
                  NotSeenRunning
    <2>2. \A k \in Jobs \ {j} : task'[k] = task[k]
      <3>1. task' = task \/ StartTask(j, OpOf[ScriptStep(j)])
        BY <1>2 DEF Call, CallUnanswered, CallFails, WaitOk, WaitFails, SeenRunning,
                    NotSeenRunning
      <3> QED
        BY <3>1 DEF StartTask, TypeInv, WorkInv, TypeOK
    <2>3. Call(j) \/ Continue(j) \/ Abort(j)
      BY <1>2, StepEnds DEF CallUnanswered, CallFails, WaitOk, WaitFails, SeenRunning,
                  NotSeenRunning
    <2>4. \A k \in Jobs \ {j} :
              /\ pc'[k] = pc[k] /\ at'[k] = at[k]
              /\ status'[k] = status[k] /\ step'[k] = step[k]
      BY <2>3 DEF Call, Continue, Abort, jobVars, TypeInv, WorkInv, TypeOK
    <2> QED
      BY <2>1, <2>2, <2>4
  <1> QED
    BY <1>1, <1>2 DEF Worker

\* Publishing, losing and delivering a message keep the queues' invariant.
LEMMA PublishQueue ==
  ASSUME TypeInv, NEW j \in Jobs, Publish(j)
  PROVE  QueueInv'
  <1> DEFINE s == Subject(j)
  <1>1. /\ queue' = [queue EXCEPT ![s] = Append(queue[s], j)]
        /\ pc' = [pc EXCEPT ![j] = "queued"] /\ pc[j] = "publish"
    BY DEF Publish
  <1>2. /\ queue \in [Subjects -> Seq(Jobs)] /\ s \in Subjects
        /\ pc'[j] = "queued" /\ \A k \in Jobs \ {j} : pc'[k] = pc[k]
    BY <1>1, SubjectType DEF TypeInv, WorkInv, TypeOK
  <1> SUFFICES ASSUME NEW q \in Subjects, NEW i \in 1 .. Len(queue'[q])
               PROVE  /\ pc'[queue'[q][i]] = "queued"
                      /\ Subject(queue'[q][i]) = q
                      /\ \A m \in 1 .. Len(queue'[q]) :
                           queue'[q][i] = queue'[q][m] => i = m
    BY DEF QueueInv, Subject
  <1>3. \A n \in 1 .. Len(queue[q]) :
          /\ queue[q][n] \in Jobs \ {j}
          /\ pc[queue[q][n]] = "queued"
          /\ Subject(queue[q][n]) = q
          /\ \A m \in 1 .. Len(queue[q]) : queue[q][n] = queue[q][m] => n = m
    BY <1>1, <1>2 DEF TypeInv, QueueInv
  <1>4. CASE q # s
    BY <1>1, <1>2, <1>3, <1>4
  <1>5. CASE q = s
    <2>1. /\ queue'[q] = Append(queue[q], j)
          /\ queue[q] \in Seq(Jobs)
      BY <1>1, <1>2, <1>5
    <2>2. /\ Len(queue'[q]) = Len(queue[q]) + 1 /\ Len(queue[q]) \in Nat
          /\ queue'[q][Len(queue[q]) + 1] = j
          /\ \A m \in 1 .. Len(queue[q]) : queue'[q][m] = queue[q][m]
      BY <2>1
    <2> HIDE DEF s
    <2>3. CASE i = Len(queue[q]) + 1
      BY <2>2, <2>3, <1>2, <1>3, <1>5 DEF s
    <2>4. CASE i \in 1 .. Len(queue[q])
      BY <2>2, <2>4, <1>2, <1>3
    <2> QED
      BY <2>2, <2>3, <2>4
  <1> QED
    BY <1>4, <1>5

\* A lost message is gone from its queue and the others stay in order.
LEMMA LoseQueue ==
  ASSUME TypeInv, NEW j \in Jobs, Lose(j)
  PROVE  QueueInv'
  <1> DEFINE s == Subject(j)
             old == queue[s]
  <1>1. PICK n \in DOMAIN old :
          /\ old[n] = j
          /\ queue' = [queue EXCEPT ![s] =
                         SubSeq(old, 1, n - 1) \o SubSeq(old, n + 1, Len(old))]
    BY DEF Lose
  <1>2. /\ queue \in [Subjects -> Seq(Jobs)] /\ s \in Subjects
        /\ old \in Seq(Jobs)
        /\ \A k \in Jobs \ {j} : pc'[k] = pc[k]
    BY SubjectType DEF Lose, TypeInv, WorkInv, TypeOK
  <1>3. \A q \in Subjects : \A i \in 1 .. Len(queue[q]) :
          /\ queue[q][i] \in Jobs
          /\ pc[queue[q][i]] = "queued"
          /\ Subject(queue[q][i]) = q
          /\ \A m \in 1 .. Len(queue[q]) : queue[q][i] = queue[q][m] => i = m
    BY <1>2 DEF TypeInv, QueueInv
  <1>4. \A i \in 1 .. Len(old) :
          /\ old[i] \in Jobs /\ pc[old[i]] = "queued" /\ Subject(old[i]) = s
          /\ \A m \in 1 .. Len(old) : old[i] = old[m] => i = m
    BY <1>2, <1>3
  <1> HIDE DEF old
  <1>5. n \in 1 .. Len(old) /\ Len(old) \in Nat
    BY <1>1, <1>2
  <1> DEFINE front == SubSeq(old, 1, n - 1)
             back == SubSeq(old, n + 1, Len(old))
             new == front \o back
  <1>6. /\ front \in Seq(Jobs) /\ Len(front) = n - 1
        /\ \A i \in 1 .. n - 1 : front[i] = old[i]
    BY <1>4, <1>5, SubSeqProperties
  <1>7. /\ back \in Seq(Jobs) /\ Len(back) = Len(old) - n
        /\ \A i \in 1 .. Len(old) - n : back[i] = old[n + i]
    BY <1>4, <1>5, SubSeqProperties
  <1> HIDE DEF front, back
  <1>8. /\ Len(new) = Len(old) - 1
        /\ \A i \in 1 .. Len(old) - 1 :
             new[i] = IF i <= n - 1 THEN old[i] ELSE old[i + 1]
    <2>1. /\ Len(new) = Len(front) + Len(back)
          /\ \A i \in 1 .. Len(front) + Len(back) :
               new[i] = IF i <= Len(front) THEN front[i] ELSE back[i - Len(front)]
      BY <1>6, <1>7, ConcatProperties
    <2> HIDE DEF new
    <2>2. Len(front) + Len(back) = Len(old) - 1
      BY <1>5, <1>6, <1>7
    <2>3. ASSUME NEW i \in 1 .. Len(old) - 1
          PROVE  new[i] = IF i <= n - 1 THEN old[i] ELSE old[i + 1]
      <3>1. CASE i <= n - 1
        BY <3>1, <2>1, <2>2, <1>5, <1>6
      <3>2. CASE ~ (i <= n - 1)
        <4>1. i - (n - 1) \in 1 .. Len(old) - n /\ n + (i - (n - 1)) = i + 1
          BY <3>2, <1>5
        <4>2. new[i] = back[i - (n - 1)]
          BY <3>2, <2>1, <2>2, <1>6
        <4> QED
          BY <3>2, <4>1, <4>2, <1>7
      <3> QED
        BY <3>1, <3>2
    <2> QED
      BY <2>1, <2>2, <2>3
  <1> SUFFICES ASSUME NEW q \in Subjects, NEW i \in 1 .. Len(queue'[q])
               PROVE  /\ pc'[queue'[q][i]] = "queued"
                      /\ Subject(queue'[q][i]) = q
                      /\ \A m \in 1 .. Len(queue'[q]) :
                           queue'[q][i] = queue'[q][m] => i = m
    BY DEF QueueInv, Subject
  <1>9. CASE q # s
    <2>1. queue'[q] = queue[q]
      BY <1>1, <1>2, <1>9
    <2>2. queue[q][i] # j
      BY <2>1, <1>3, <1>9
    <2> QED
      BY <2>1, <2>2, <1>2, <1>3
  <1>10. CASE q = s
    <2>1. queue'[q] = new
      BY <1>1, <1>2, <1>10 DEF front, back
    <2> HIDE DEF new
    <2>2. \A m \in 1 .. Len(old) - 1 :
            \E p \in 1 .. Len(old) :
              /\ new[m] = old[p] /\ p # n
              /\ p = IF m <= n - 1 THEN m ELSE m + 1
      BY <1>5, <1>8
    <2>3. \A m \in 1 .. Len(old) - 1 :
            /\ new[m] \in Jobs \ {j} /\ pc[new[m]] = "queued" /\ Subject(new[m]) = s
      BY <2>2, <1>1, <1>4, <1>5
    <2>4. ASSUME NEW m \in 1 .. Len(old) - 1, NEW p \in 1 .. Len(old) - 1,
                 new[m] = new[p]
          PROVE  m = p
      <3>1. PICK a \in 1 .. Len(old) :
              new[m] = old[a] /\ a = IF m <= n - 1 THEN m ELSE m + 1
        BY <2>2
      <3>2. PICK b \in 1 .. Len(old) :
              new[p] = old[b] /\ b = IF p <= n - 1 THEN p ELSE p + 1
        BY <2>2
      <3>3. a = b
        BY <3>1, <3>2, <2>4, <1>4
      <3> QED
        BY <3>1, <3>2, <3>3, <1>5
    <2> QED
      BY <2>1, <2>3, <2>4, <1>2, <1>8, <1>10
  <1> QED
    BY <1>9, <1>10

\* A delivered message is gone from its queue and the others move up.
LEMMA DeliverQueue ==
  ASSUME TypeInv, NEW j \in Jobs, Deliver(j)
  PROVE  QueueInv'
  <1> DEFINE s == Subject(j)
             old == queue[s]
  <1>1. /\ old # <<>> /\ Head(old) = j
        /\ queue' = [queue EXCEPT ![s] = Tail(old)]
    BY DEF Deliver
  <1>2. /\ queue \in [Subjects -> Seq(Jobs)] /\ s \in Subjects
        /\ old \in Seq(Jobs)
        /\ \A k \in Jobs \ {j} : pc'[k] = pc[k]
    BY SubjectType DEF Deliver, TypeInv, WorkInv, TypeOK
  <1>3. \A q \in Subjects : \A i \in 1 .. Len(queue[q]) :
          /\ queue[q][i] \in Jobs
          /\ pc[queue[q][i]] = "queued"
          /\ Subject(queue[q][i]) = q
          /\ \A m \in 1 .. Len(queue[q]) : queue[q][i] = queue[q][m] => i = m
    BY <1>2 DEF TypeInv, QueueInv
  <1>4. \A i \in 1 .. Len(old) :
          /\ old[i] \in Jobs /\ pc[old[i]] = "queued" /\ Subject(old[i]) = s
          /\ \A m \in 1 .. Len(old) : old[i] = old[m] => i = m
    BY <1>2, <1>3
  <1> HIDE DEF old
  <1>5. /\ Len(old) \in Nat /\ Len(old) > 0 /\ old[1] = j
        /\ Len(Tail(old)) = Len(old) - 1
        /\ \A i \in 1 .. Len(old) - 1 : Tail(old)[i] = old[i + 1]
    BY <1>1, <1>2
  <1> SUFFICES ASSUME NEW q \in Subjects, NEW i \in 1 .. Len(queue'[q])
               PROVE  /\ pc'[queue'[q][i]] = "queued"
                      /\ Subject(queue'[q][i]) = q
                      /\ \A m \in 1 .. Len(queue'[q]) :
                           queue'[q][i] = queue'[q][m] => i = m
    BY DEF QueueInv, Subject
  <1>6. CASE q # s
    <2>1. queue'[q] = queue[q]
      BY <1>1, <1>2, <1>6
    <2>2. queue[q][i] # j
      BY <2>1, <1>3, <1>6
    <2> QED
      BY <2>1, <2>2, <1>2, <1>3
  <1>7. CASE q = s
    <2>1. queue'[q] = Tail(old)
      BY <1>1, <1>2, <1>7
    <2>2. \A m \in 1 .. Len(old) - 1 : m + 1 \in 1 .. Len(old) /\ old[m + 1] # j
      BY <1>4, <1>5
    <2> QED
      BY <2>1, <2>2, <1>2, <1>4, <1>5, <1>7
  <1> QED
    BY <1>6, <1>7

\* Every step keeps the queues' invariant.
LEMMA QueueStep == TypeInv /\ [Next]_vars => QueueInv'
  <1> SUFFICES ASSUME TypeInv, [Next]_vars PROVE QueueInv'
    OBVIOUS
  <1>1. ASSUME NEW j \in Jobs, Allocate(j) \/ Create(j) \/ PublishFails(j)
        PROVE  QueueInv'
    <2>1. /\ queue' = queue /\ \A k \in Jobs : pc[k] = "queued" => pc'[k] = "queued"
      BY <1>1 DEF Allocate, Create, PublishFails, TypeInv, WorkInv, TypeOK
    <2> QED
      BY <2>1, QueueStable
  <1>2. ASSUME NEW j \in Jobs, Worker(j)
        PROVE  QueueInv'
    <2>1. /\ queue' = queue /\ \A k \in Jobs : pc[k] = "queued" => pc'[k] = "queued"
      BY <1>2, WorkerFrame
    <2> QED
      BY <2>1, QueueStable
  <1>3. ASSUME NEW j \in Jobs, NEW o \in Ops, TaskSucceeds(j, o) \/ TaskFails(j, o)
        PROVE  QueueInv'
    BY <1>3, QueueStable DEF TaskSucceeds, TaskFails
  <1>4. ASSUME NEW v \in VMIDs, User(v)
        PROVE  QueueInv'
    BY <1>4, QueueStable DEF User, Power, DeleteGuest, CloneGuest
  <1>5. CASE UNCHANGED vars
    BY <1>5, QueueStable DEF vars
  <1> QED
    BY <1>1, <1>2, <1>3, <1>4, <1>5, PublishQueue, LoseQueue, DeliverQueue
    DEF Next, Submitter

\* The worker.
LEMMA ReportType ==
  ASSUME TypeInv, NEW j \in Jobs, Report(j)
  PROVE  WorkInv'
  <1> USE DEF TypeInv, WorkInv, TypeOK
  <1>1. /\ pc[j] = "report"
        /\ step' = [step EXCEPT ![j] = ScriptStep(j)]
        /\ status' = [status EXCEPT ![j] = StatusOf(ScriptStep(j))]
        /\ pc' = [pc EXCEPT ![j] = After(j)]
        /\ at' = IF After(j) = "report" THEN [at EXCEPT ![j] = at[j] + 1] ELSE at
        /\ UNCHANGED <<vmid, queue, task, guest, deleted>>
    BY DEF Report
  <1>2. /\ at[j] \in Nat /\ at[j] \in 1 .. Len(Script(j))
        /\ ScriptStep(j) = Script(j)[at[j]]
        /\ ScriptStep(j) \in StepNames
        /\ ScriptStep(j) = "ready" <=> at[j] = Len(Script(j))
    BY JobScript DEF Script, ScriptStep
  <1>3. After(j) \in {"report", "call", "poll", "over"}
    BY DEF After
  <1>4. /\ After(j) = "over" <=> ScriptStep(j) = "ready"
        /\ After(j) = "poll" => ScriptStep(j) = "waiting_for_running"
        /\ After(j) = "call" => HasTask(j)
    BY OpFacts DEF After, HasTask
  <1>5. StatusOf(ScriptStep(j)) \in JobStatuses
    BY DEF StatusOf, JobStatuses
  <1>6. After(j) = "report" => at[j] + 1 \in 1 .. Len(Script(j))
    BY <1>2, <1>4, JobScript
  <1>7. \A k \in Jobs : at'[k] \in 1 .. Len(ScriptOf[Kind[k]])
    BY <1>1, <1>6 DEF Script
  <1>8. at' \in [Jobs -> Nat]
    BY <1>1, <1>2
  <1>9. PlaceInv'
    <2> SUFFICES ASSUME NEW k \in Jobs
                 PROVE  /\ pc'[k] \in {"request", "publish", "queued", "lost"} => at'[k] = 1
                        /\ pc'[k] \in {"call", "wait"} => HasTask(k)'
                        /\ pc'[k] = "poll" => ScriptStep(k)' = "waiting_for_running"
                        /\ status'[k] \in TerminalStatuses => pc'[k] = "over"
                        /\ status'[k] = "completed" => at'[k] = Len(Script(k))
      BY DEF PlaceInv, Script
    <2>1. CASE k # j
      <3>1. pc'[k] = pc[k] /\ at'[k] = at[k] /\ status'[k] = status[k]
        BY <1>1, <2>1
      <3> QED
        BY <3>1 DEF PlaceInv, HasTask, ScriptStep, Script
    <2>2. CASE k = j
      <3>1. pc'[j] = After(j) /\ status'[j] = StatusOf(ScriptStep(j))
        BY <1>1
      <3>2. After(j) # "report" => at'[j] = at[j]
        BY <1>1
      <3>3. status'[j] \in TerminalStatuses => ScriptStep(j) = "ready"
        BY <3>1 DEF StatusOf, TerminalStatuses
      <3>4. status'[j] = "completed" => ScriptStep(j) = "ready"
        BY <3>1 DEF StatusOf
      <3>5. pc'[j] \in {"call", "wait"} => HasTask(j)'
        BY <3>1, <3>2, <1>3, <1>4 DEF HasTask, ScriptStep
      <3>6. pc'[j] = "poll" => ScriptStep(j)' = "waiting_for_running"
        BY <3>1, <3>2, <1>4 DEF ScriptStep
      <3> QED
        BY <2>2, <3>1, <3>2, <3>3, <3>4, <3>5, <3>6, <1>2, <1>3, <1>4
    <2> QED
      BY <2>1, <2>2
  <1>10. status' \in [Jobs -> JobStatuses] /\ step' \in [Jobs -> StepNames \cup {StepNone}]
    BY <1>1, <1>2, <1>5
  <1>11. pc' \in [Jobs -> {"request", "publish", "queued", "lost", "report",
                          "call", "wait", "poll", "over"}]
    BY <1>1, <1>3
  <1> QED
    BY <1>1, <1>7, <1>8, <1>9, <1>10, <1>11

\* A call that is answered keeps the types and the places.
LEMMA CallType ==
  ASSUME TypeInv, NEW j \in Jobs, Call(j)
  PROVE  WorkInv'
  <1> USE DEF TypeInv, WorkInv, TypeOK
  <1>1. /\ pc[j] = "call" /\ pc' = [pc EXCEPT ![j] = "wait"]
        /\ UNCHANGED <<status, step, vmid, at, queue, deleted>>
        /\ StartTask(j, OpOf[ScriptStep(j)])
    BY DEF Call, jobVars
  <1>2. OpOf[ScriptStep(j)] \in Ops
    BY <1>1, InScript
  <1>3. /\ task' \in [Jobs -> [Ops -> {"none", "running", "ok", "failed"}]]
        /\ guest' \in [VMIDs -> {"absent", "creating", "stopped", "running"}]
    BY <1>1, <1>2, StartTaskType
  <1>4. PlaceInv'
    BY <1>1 DEF PlaceInv, HasTask, ScriptStep, Script
  <1> QED
    BY <1>1, <1>3, <1>4

\* So do the other ends of a call and those of a wait or a poll.
LEMMA EndOfStepType ==
  ASSUME TypeInv, NEW j \in Jobs,
         CallUnanswered(j) \/ CallFails(j) \/ WaitOk(j) \/ WaitFails(j)
           \/ SeenRunning(j) \/ NotSeenRunning(j)
  PROVE  WorkInv'
  <1>1. /\ pc[j] \in {"call", "wait", "poll"}
        /\ UNCHANGED <<vmid, queue, deleted>>
        /\ StepFails(j) \/ Continue(j)
        /\ \/ task' = task /\ guest' = guest
           \/ pc[j] = "call" /\ StartTask(j, OpOf[ScriptStep(j)])
    BY DEF CallUnanswered, CallFails, WaitOk, WaitFails, SeenRunning, NotSeenRunning
  <1>2. /\ task' \in [Jobs -> [Ops -> {"none", "running", "ok", "failed"}]]
        /\ guest' \in [VMIDs -> {"absent", "creating", "stopped", "running"}]
    <2>1. CASE task' = task /\ guest' = guest
      BY <2>1 DEF TypeInv, WorkInv, TypeOK
    <2>2. CASE pc[j] = "call" /\ StartTask(j, OpOf[ScriptStep(j)])
      <3>1. OpOf[ScriptStep(j)] \in Ops
        BY <2>2, InScript
      <3> QED
        BY <2>2, <3>1, StartTaskType
    <2> QED
      BY <1>1, <2>1, <2>2
  <1>3. /\ status' \in [Jobs -> JobStatuses]
        /\ step' \in [Jobs -> StepNames \cup {StepNone}]
        /\ pc' \in [Jobs -> {"request", "publish", "queued", "lost", "report",
                             "call", "wait", "poll", "over"}]
        /\ \A k \in Jobs : at'[k] \in 1 .. Len(ScriptOf[Kind[k]])
        /\ at' \in [Jobs -> Nat]
        /\ PlaceInv'
    BY <1>1, ContinueType
  <1>4. /\ vmid' \in [Jobs -> VMIDs \cup {AutoVmid}]
        /\ queue' \in [Subjects -> Seq(Jobs)] /\ deleted' \subseteq Jobs
    BY <1>1 DEF TypeInv, WorkInv, TypeOK
  <1> QED
    BY <1>2, <1>3, <1>4 DEF WorkInv, TypeOK

\* Every step keeps the types and the places.
LEMMA WorkStep == TypeInv /\ [Next]_vars => WorkInv'
  <1> SUFFICES ASSUME TypeInv, [Next]_vars PROVE WorkInv'
    OBVIOUS
  <1>1. ASSUME NEW j \in Jobs, Allocate(j)
        PROVE  WorkInv'
    <2>1. /\ vmid' = [vmid EXCEPT ![j] = NextVMID] /\ NextVMID \in VMIDs
          /\ UNCHANGED <<status, step, pc, at, queue, task, guest, deleted>>
      BY <1>1 DEF Allocate, jobVars
    <2>2. vmid' \in [Jobs -> VMIDs \cup {AutoVmid}]
      BY <2>1 DEF TypeInv, WorkInv, TypeOK
    <2>3. PlaceInv'
      BY <2>1 DEF TypeInv, WorkInv, PlaceInv, HasTask, ScriptStep, Script
    <2> QED
      BY <2>1, <2>2, <2>3 DEF TypeInv, WorkInv, TypeOK
  <1>2. ASSUME NEW j \in Jobs, Worker(j)
        PROVE  WorkInv'
    BY <1>2, ReportType, CallType, EndOfStepType DEF Worker
  <1>3. ASSUME NEW j \in Jobs, NEW o \in Ops, TaskSucceeds(j, o) \/ TaskFails(j, o)
        PROVE  WorkInv'
    <2>1. UNCHANGED <<status, step, vmid, pc, at>> /\ queue' = queue
      BY <1>3 DEF TaskSucceeds, TaskFails, jobVars
    <2>2. task' \in [Jobs -> [Ops -> {"none", "running", "ok", "failed"}]]
      <3>1. task' = [task EXCEPT ![j][o] = "ok"] \/ task' = [task EXCEPT ![j][o] = "failed"]
        BY <1>3 DEF TaskSucceeds, TaskFails
      <3>2. CASE task' = [task EXCEPT ![j][o] = "ok"]
        BY <3>2 DEF TypeInv, WorkInv, TypeOK
      <3>3. CASE task' = [task EXCEPT ![j][o] = "failed"]
        BY <3>3 DEF TypeInv, WorkInv, TypeOK
      <3> QED
        BY <3>1, <3>2, <3>3
    <2>3. guest' \in [VMIDs -> {"absent", "creating", "stopped", "running"}]
      <3>1. vmid[j] \in VMIDs
              => Outcome(o, vmid[j]) \in {"absent", "creating", "stopped", "running"}
        BY DEF Outcome, Ops, TypeInv, WorkInv, TypeOK
      <3>2. \/ guest' = [guest EXCEPT ![vmid[j]] = Outcome(o, vmid[j])]
            \/ guest' = [guest EXCEPT ![vmid[j]] = "absent"]
            \/ guest' = guest
        BY <1>3 DEF TaskSucceeds, TaskFails
      <3> QED
        BY <3>1, <3>2 DEF TypeInv, WorkInv, TypeOK
    <2>4. deleted' \subseteq Jobs
      BY <1>3 DEF TaskSucceeds, TaskFails, Forget, TypeInv, WorkInv, TypeOK
    <2> QED
      BY <2>1, <2>2, <2>3, <2>4, PlaceStable DEF TypeInv, WorkInv, TypeOK
  <1>4. ASSUME NEW v \in VMIDs, User(v)
        PROVE  WorkInv'
    <2>1. UNCHANGED <<status, step, vmid, pc, at, queue, task>>
      BY <1>4 DEF User, Power, DeleteGuest, CloneGuest, jobVars
    <2>2. guest' \in [VMIDs -> {"absent", "creating", "stopped", "running"}]
      BY <1>4 DEF User, Power, DeleteGuest, CloneGuest, TypeInv, WorkInv, TypeOK
    <2>3. deleted' \subseteq Jobs
      BY <1>4 DEF User, Power, DeleteGuest, CloneGuest, Forget, TypeInv, WorkInv, TypeOK
    <2> QED
      BY <2>1, <2>2, <2>3, PlaceStable DEF TypeInv, WorkInv, TypeOK
  <1>5. CASE UNCHANGED vars
    BY <1>5, PlaceStable DEF vars, jobVars, TypeInv, WorkInv, TypeOK
  <1> QED
    BY <1>1, <1>2, <1>3, <1>4, <1>5, SubmitType DEF Next

\* The types of the variables (TypeOK), for every set of jobs.
THEOREM TypeCorrect == Spec => []TypeOK
  <1>1. TypeInv /\ [Next]_vars => TypeInv'
    BY WorkStep, QueueStep DEF TypeInv
  <1>2. TypeInv => TypeOK
    BY DEF TypeInv, WorkInv
  <1> QED
    BY InitType, <1>1, <1>2, PTL DEF Spec

-----------------------------------------------------------------------------
(* What a step does to a task and to a job's place in its script *)

\* The job's callback asks Proxmox for its step's task.
Starts(k, o) ==
  /\ pc[k] = "call"
  /\ o = OpOf[ScriptStep(k)]
  /\ StartTask(k, o)
  /\ at'[k] > at[k] \/ pc'[k] \in {"wait", "over"}

\* A call that Proxmox acts on is all Starts says.
LEMMA StartStep ==
  ASSUME TypeInv, NEW j \in Jobs, Call(j) \/ CallUnanswered(j)
  PROVE  Starts(j, OpOf[ScriptStep(j)])
  <1>1. pc[j] = "call" /\ StartTask(j, OpOf[ScriptStep(j)])
    BY DEF Call, CallUnanswered
  <1>2. at[j] \in Nat /\ at \in [Jobs -> Nat] /\ j \in DOMAIN pc
    BY DEF TypeInv, WorkInv, TypeOK
  <1>3. pc' = [pc EXCEPT ![j] = "wait"] \/ Continue(j) \/ Abort(j)
    BY StepEnds DEF Call, CallUnanswered
  <1>4. at'[j] > at[j] \/ pc'[j] \in {"wait", "over"}
    BY <1>2, <1>3 DEF Continue, Abort
  <1> QED
    BY <1>1, <1>4 DEF Starts

\* A task changes only by being asked for once or by ending.
LEMMA TaskStep ==
  ASSUME TypeInv, [Next]_vars, NEW k \in Jobs, NEW o \in Ops
  PROVE  \/ task'[k][o] = task[k][o]
         \/ task[k][o] = "running" /\ task'[k][o] \in {"ok", "failed"}
         \/ Starts(k, o) /\ task'[k][o] = "running"
  <1>1. ASSUME NEW j \in Jobs, Worker(j)
        PROVE  \/ task'[k][o] = task[k][o]
               \/ Starts(k, o) /\ task'[k][o] = "running"
    <2>1. CASE j # k
      BY <2>1, <1>1, WorkerFrame
    <2>2. CASE j = k /\ (Call(k) \/ CallUnanswered(k))
      <3>1. Starts(k, OpOf[ScriptStep(k)])
        BY <2>2, StartStep
      <3>2. task' = [task EXCEPT ![k][OpOf[ScriptStep(k)]] = "running"]
        BY <3>1 DEF Starts, StartTask
      <3>3. CASE o = OpOf[ScriptStep(k)]
        BY <3>1, <3>2, <3>3 DEF TypeInv, WorkInv, TypeOK
      <3>4. CASE o # OpOf[ScriptStep(k)]
        BY <3>2, <3>4 DEF TypeInv, WorkInv, TypeOK
      <3> QED
        BY <3>3, <3>4
    <2>3. CASE j = k /\ ~ (Call(k) \/ CallUnanswered(k))
      BY <2>3, <1>1 DEF Worker, Report, CallFails, WaitOk, WaitFails, SeenRunning,
                        NotSeenRunning
    <2> QED
      BY <2>1, <2>2, <2>3
  <1>2. ASSUME NEW j \in Jobs, NEW p \in Ops, TaskSucceeds(j, p) \/ TaskFails(j, p)
        PROVE  \/ task'[k][o] = task[k][o]
               \/ task[k][o] = "running" /\ task'[k][o] \in {"ok", "failed"}
    <2>1. task[j][p] = "running"
      BY <1>2 DEF TaskSucceeds, TaskFails
    <2>2. CASE task' = [task EXCEPT ![j][p] = "ok"]
      BY <2>1, <2>2 DEF TypeInv, WorkInv, TypeOK
    <2>3. CASE task' = [task EXCEPT ![j][p] = "failed"]
      BY <2>1, <2>3 DEF TypeInv, WorkInv, TypeOK
    <2> QED
      BY <1>2, <2>2, <2>3 DEF TaskSucceeds, TaskFails
  <1>3. ASSUME NEW j \in Jobs,
               Allocate(j) \/ Create(j) \/ Submitter(j) \/ Lose(j) \/ Deliver(j)
        PROVE  task' = task
    BY <1>3 DEF Allocate, Create, Submitter, Publish, PublishFails, Lose, Deliver
  <1>4. ASSUME NEW v \in VMIDs, User(v)
        PROVE  task' = task
    BY <1>4 DEF User, Power, DeleteGuest, CloneGuest
  <1>5. CASE UNCHANGED vars
    BY <1>5 DEF vars
  <1> QED
    BY <1>1, <1>2, <1>3, <1>4, <1>5 DEF Next

\* A job stays at its step or leaves it, a step that may end it only when its
\* task is done.
Stays(k) ==
  at'[k] = at[k] /\ (pc[k] \in {"wait", "over"} => pc'[k] \in {"wait", "over"})
Leaves(k) ==
  /\ at'[k] = at[k] + 1
  /\ ScriptStep(k) \in FailingSteps \cap DOMAIN OpOf
       => task'[k][OpOf[ScriptStep(k)]] = "ok"

\* A step of the system moves a job by at most one step of its script.
LEMMA AtStep ==
  ASSUME TypeInv, [Next]_vars, NEW k \in Jobs
  PROVE  Stays(k) \/ Leaves(k)
  <1> USE DEF TypeInv, WorkInv, TypeOK
  <1>1. ASSUME NEW j \in Jobs \ {k}, Worker(j)
        PROVE  Stays(k)
    BY <1>1, WorkerFrame DEF Stays
  <1>2. CASE Report(k)
    <2>1. CASE After(k) # "report"
      BY <1>2, <2>1 DEF Report, Stays
    <2>2. CASE After(k) = "report"
      <3>1. at'[k] = at[k] + 1
        BY <1>2, <2>2 DEF Report
      <3>2. ScriptStep(k) \notin FailingSteps \cap DOMAIN OpOf
        <4>1. ~ HasTask(k)
          BY <2>2 DEF After
        <4> QED
          BY <4>1 DEF HasTask, FailingSteps, StepNone
      <3> QED
        BY <3>1, <3>2 DEF Leaves
    <2> QED
      BY <2>1, <2>2
  <1>3. CASE Call(k)
    BY <1>3 DEF Call, Stays
  <1>4. CASE CallUnanswered(k) \/ CallFails(k) \/ WaitFails(k) \/ NotSeenRunning(k)
    <2>1. StepFails(k)
      BY <1>4 DEF CallUnanswered, CallFails, WaitFails, NotSeenRunning
    <2>2. CASE Abort(k)
      BY <2>2 DEF Abort, Stays
    <2>3. CASE Continue(k) /\ ScriptStep(k) \notin FailingSteps
      BY <2>3 DEF Continue, Leaves
    <2> QED
      BY <2>1, <2>2, <2>3 DEF StepFails, EndsJob
  <1>5. CASE WaitOk(k)
    BY <1>5 DEF WaitOk, SawOk, Continue, Leaves
  <1>6. CASE SeenRunning(k)
    <2>1. ScriptStep(k) \notin DOMAIN OpOf
      BY <1>6, InScript DEF SeenRunning
    <2> QED
      BY <1>6, <2>1 DEF SeenRunning, Continue, Leaves
  <1>7. ASSUME NEW j \in Jobs, Allocate(j) \/ Create(j) \/ Submitter(j) \/ Lose(j)
        PROVE  Stays(k)
    BY <1>7 DEF Allocate, Create, Submitter, Publish, PublishFails, Lose, Stays
  <1>8. ASSUME NEW j \in Jobs, Deliver(j)
        PROVE  Stays(k)
    <2>1. pc' = [pc EXCEPT ![j] = "report"] /\ at' = at
      BY <1>8 DEF Deliver
    <2>2. pc[j] = "queued"
      BY <1>8, DeliverQueued
    <2> QED
      BY <2>1, <2>2 DEF Stays
  <1>9. ASSUME NEW j \in Jobs, NEW o \in Ops, TaskSucceeds(j, o) \/ TaskFails(j, o)
        PROVE  Stays(k)
    BY <1>9 DEF TaskSucceeds, TaskFails, Stays
  <1>10. ASSUME NEW v \in VMIDs, User(v)
         PROVE  Stays(k)
    BY <1>10 DEF User, Power, DeleteGuest, CloneGuest, Stays
  <1>11. CASE UNCHANGED vars
    BY <1>11 DEF vars, Stays
  <1> HIDE DEF TypeInv, WorkInv, TypeOK
  <1>12. ASSUME NEW j \in Jobs, Worker(j)
         PROVE  Stays(k) \/ Leaves(k)
    BY <1>1, <1>2, <1>3, <1>4, <1>5, <1>6, <1>12 DEF Worker
  <1> QED
    BY <1>7, <1>8, <1>9, <1>10, <1>11, <1>12 DEF Next

-----------------------------------------------------------------------------
(* The tasks of a job follow its script *)

\* A task that was asked for is behind the job and stays so.
LEMMA AskedStays ==
  ASSUME TypeInv, [Next]_vars, NEW k \in Jobs, NEW o, Asked(k, o)
  PROVE  Asked(k, o)'
  <1>1. PICK i \in 1 .. at[k] :
          /\ Script(k)[i] \in DOMAIN OpOf
          /\ OpOf[Script(k)[i]] = o
          /\ i = at[k] => pc[k] \in {"wait", "over"}
    BY DEF Asked
  <1>2. at[k] \in Nat
    BY DEF TypeInv, WorkInv
  <1>3. CASE Stays(k)
    <2>1. /\ i \in 1 .. at'[k]
          /\ i = at'[k] => pc'[k] \in {"wait", "over"}
      BY <1>1, <1>3 DEF Stays
    <2> QED
      BY <1>1, <2>1 DEF Asked, Script
  <1>4. CASE Leaves(k)
    <2>1. i \in 1 .. at'[k] /\ i # at'[k]
      BY <1>2, <1>4 DEF Leaves
    <2> QED
      BY <1>1, <2>1 DEF Asked, Script
  <1> QED
    BY <1>3, <1>4, AtStep

\* A task that is asked for now is the one of the job's step, and behind it next.
LEMMA StartIsAsked ==
  ASSUME TypeInv, [Next]_vars, NEW k \in Jobs, NEW o \in Ops, Starts(k, o)
  PROVE  /\ at[k] \in 1 .. Len(Script(k))
         /\ Script(k)[at[k]] \in DOMAIN OpOf
         /\ OpOf[Script(k)[at[k]]] = o
         /\ Asked(k, o)'
         /\ ~ Asked(k, o)
  <1>1. /\ at[k] \in Nat /\ at[k] \in 1 .. Len(Script(k))
        /\ Script(k)[at[k]] \in DOMAIN OpOf
        /\ OpOf[Script(k)[at[k]]] = o
    BY InScript DEF Starts, ScriptStep, Script, TypeInv, WorkInv, TypeOK
  <1>2. Asked(k, o)'
    <2>1. at[k] \in 1 .. at'[k] /\ (at[k] = at'[k] => pc'[k] \in {"wait", "over"})
      BY <1>1, AtStep DEF Starts, Stays, Leaves
    <2> QED
      BY <1>1, <2>1 DEF Asked, Script
  <1>3. ASSUME Asked(k, o)
        PROVE  FALSE
    <2>1. PICK i \in 1 .. at[k] :
            /\ Script(k)[i] \in DOMAIN OpOf
            /\ OpOf[Script(k)[i]] = o
            /\ i = at[k] => pc[k] \in {"wait", "over"}
      BY <1>3 DEF Asked
    <2>2. i # at[k] /\ i \in 1 .. Len(Script(k))
      BY <2>1, <1>1, JobScript DEF Starts
    <2>3. Script(k)[i] = Script(k)[at[k]]
      BY <2>1, <1>1, OpFacts
    <2> QED
      BY <2>2, <2>3, <1>1, JobScript
  <1> QED
    BY <1>1, <1>2, <1>3

\* Every step of the system keeps AskedInv.
LEMMA AskedStep == TypeInv /\ AskedInv /\ [Next]_vars => AskedInv'
  <1> SUFFICES ASSUME TypeInv, AskedInv, [Next]_vars,
                      NEW k \in Jobs, NEW o \in Ops, task'[k][o] # "none"
               PROVE  Asked(k, o)'
    BY DEF AskedInv
  <1>1. CASE task[k][o] # "none"
    BY <1>1, AskedStays DEF AskedInv
  <1>2. CASE task[k][o] = "none"
    BY <1>2, TaskStep, StartIsAsked
  <1> QED
    BY <1>1, <1>2

\* A task is asked for once, and what ended well stays so.
LEMMA StartIsNew ==
  ASSUME TypeInv, AskedInv, [Next]_vars, NEW k \in Jobs, NEW o \in Ops, Starts(k, o)
  PROVE  task[k][o] = "none"
  BY StartIsAsked DEF AskedInv

\* A task that is done stays done.
LEMMA OkStays ==
  ASSUME TypeInv, AskedInv, [Next]_vars, NEW k \in Jobs, NEW o \in Ops,
         task[k][o] = "ok"
  PROVE  task'[k][o] = "ok"
  BY TaskStep, StartIsNew

\* Every step of the system keeps DoneInv.
LEMMA DoneStep == TypeInv /\ AskedInv /\ DoneInv /\ [Next]_vars => DoneInv'
  <1> SUFFICES ASSUME TypeInv, AskedInv, DoneInv, [Next]_vars,
                      NEW k \in Jobs, NEW i \in 1 .. Len(Script(k)), i < at'[k],
                      Script(k)[i] \in FailingSteps \cap DOMAIN OpOf
               PROVE  task'[k][OpOf[Script(k)[i]]] = "ok"
    BY DEF DoneInv, Script
  <1>1. OpOf[Script(k)[i]] \in Ops
    BY OpFacts
  <1>2. at[k] \in Nat
    BY DEF TypeInv, WorkInv
  <1>3. CASE i < at[k]
    BY <1>1, <1>3, OkStays DEF DoneInv
  <1>4. CASE ~ (i < at[k])
    <2>1. Leaves(k) /\ i = at[k]
      BY <1>2, <1>4, AtStep DEF Stays, Leaves
    <2> QED
      BY <2>1 DEF Leaves, ScriptStep, Script
  <1> QED
    BY <1>3, <1>4

\* Every step of the system keeps LastInv.
LEMMA LastStep == TypeInv /\ AskedInv /\ LastInv /\ [Next]_vars => LastInv'
  <1> SUFFICES ASSUME TypeInv, AskedInv, LastInv, [Next]_vars,
                      NEW k \in Jobs, NEW i \in 1 .. Len(Script(k)),
                      NEW m \in 1 .. Len(Script(k)), i < m,
                      Script(k)[i] \in DOMAIN OpOf, Script(k)[m] \in DOMAIN OpOf,
                      task'[k][OpOf[Script(k)[i]]] = "running"
               PROVE  task'[k][OpOf[Script(k)[m]]] = "none"
    BY DEF LastInv, Script
  <1> DEFINE o == OpOf[Script(k)[i]]
             p == OpOf[Script(k)[m]]
  <1>1. o \in Ops /\ p \in Ops
    BY OpFacts
  <1>2. CASE Starts(k, o)
    <2>1. task[k][o] = "none"
      BY <1>1, <1>2, StartIsNew
    <2>2. i = at[k]
      BY <1>1, <1>2, StartIsAsked, OpFacts, JobScript
    <2>3. at[k] < m /\ at[k] \in Nat
      BY <2>2
    <2>4. ~ Asked(k, p)
      <3> SUFFICES ASSUME NEW n \in 1 .. at[k], Script(k)[n] \in DOMAIN OpOf,
                          OpOf[Script(k)[n]] = p
                   PROVE  FALSE
        BY DEF Asked
      <3>1. Script(k)[n] = Script(k)[m]
        BY OpFacts
      <3> QED
        BY <3>1, <2>2, <2>3, JobScript
    <2>5. task[k][p] = "none"
      BY <1>1, <2>4 DEF AskedInv
    <2>6. p # o
      BY OpFacts, JobScript
    <2>7. ~ Starts(k, p)
      BY <1>2, <2>6 DEF Starts
    <2> QED
      BY <1>1, <2>5, <2>7, TaskStep
  <1>3. CASE ~ Starts(k, o)
    <2>1. task[k][o] = "running"
      BY <1>1, <1>3, TaskStep
    <2>2. task[k][p] = "none"
      BY <2>1 DEF LastInv
    <2>3. ~ Starts(k, p)
      BY <2>1, <1>1 DEF Starts, StartTask, Accepts, Idle
    <2> QED
      BY <1>1, <2>2, <2>3, TaskStep
  <1> QED
    BY <1>2, <1>3

\* The invariants about tasks and guests hold at the start.
LEMMA InitTasks == Init => AskedInv /\ DoneInv /\ LastInv /\ TasksInv /\ GuestInv
  <1> SUFFICES ASSUME Init PROVE AskedInv /\ DoneInv /\ LastInv /\ TasksInv /\ GuestInv
    OBVIOUS
  <1>1. \A j \in Jobs : at[j] = 1 /\ \A o \in Ops : task[j][o] = "none"
    BY DEF Init
  <1>2. AskedInv
    BY <1>1 DEF AskedInv
  <1>3. DoneInv
    BY <1>1 DEF DoneInv
  <1>4. LastInv
    BY <1>1, OpFacts DEF LastInv
  <1>5. TasksInv
    BY <1>1 DEF TasksInv, Ops
  <1>6. GuestInv
    BY <1>1 DEF GuestInv, Standing, HasMade, Maker, Ops
  <1> QED
    BY <1>2, <1>3, <1>4, <1>5, <1>6

-----------------------------------------------------------------------------
(* Guests *)

\* A job keeps its VMID, except while its request is being made.
LEMMA VmidStep ==
  ASSUME TypeInv, [Next]_vars, NEW k \in Jobs
  PROVE  /\ pc[k] # "request" => vmid'[k] = vmid[k]
         /\ pc[k] = "request" /\ pc'[k] # "request" => vmid'[k] # AutoVmid
         /\ pc[k] # "request" => pc'[k] # "request"
  <1> USE DEF TypeInv, WorkInv, TypeOK
  <1>1. ASSUME NEW j \in Jobs, Allocate(j)
        PROVE  /\ j # k => vmid'[k] = vmid[k]
               /\ pc' = pc /\ pc[j] = "request"
    BY <1>1 DEF Allocate
  <1>2. ASSUME NEW j \in Jobs, Create(j)
        PROVE  /\ vmid' = vmid /\ vmid[j] # AutoVmid /\ pc[j] = "request"
               /\ pc' = [pc EXCEPT ![j] = "publish"]
    BY <1>2 DEF Create
  <1>3. ASSUME NEW j \in Jobs, Submitter(j) \/ Lose(j)
        PROVE  vmid' = vmid /\ (pc'[k] = pc[k] \/ (pc[k] # "request" /\ pc'[k] # "request"))
    BY <1>3 DEF Submitter, Publish, PublishFails, Lose
  <1>4. ASSUME NEW j \in Jobs, Worker(j)
        PROVE  /\ vmid' = vmid
               /\ pc'[k] = pc[k] \/ (pc[k] # "request" /\ pc'[k] # "request")
    <2>1. CASE j # k
      BY <1>4, <2>1, WorkerFrame
    <2>2. CASE j = k
      <3>1. pc[k] # "request" /\ vmid' = vmid
        BY <1>4, <2>2, WorkerFrame
      <3>2. Report(k) \/ Call(k) \/ Continue(k) \/ Abort(k)
        BY <1>4, <2>2, StepEnds DEF Worker, CallUnanswered, CallFails, WaitOk, WaitFails,
                                    SeenRunning, NotSeenRunning
      <3>3. pc'[k] # "request"
        BY <3>2 DEF Report, After, Call, Continue, Abort
      <3> QED
        BY <3>1, <3>3
    <2> QED
      BY <2>1, <2>2
  <1>5. ASSUME NEW j \in Jobs, NEW o \in Ops, TaskSucceeds(j, o) \/ TaskFails(j, o)
        PROVE  vmid' = vmid /\ pc' = pc
    BY <1>5 DEF TaskSucceeds, TaskFails
  <1>6. ASSUME NEW v \in VMIDs, User(v)
        PROVE  vmid' = vmid /\ pc' = pc
    BY <1>6 DEF User, Power, DeleteGuest, CloneGuest
  <1>7. CASE UNCHANGED vars
    BY <1>7 DEF vars
  <1>8. ASSUME NEW j \in Jobs, Deliver(j)
        PROVE  vmid' = vmid /\ (pc'[k] = pc[k] \/ (pc[k] # "request" /\ pc'[k] # "request"))
    <2>1. pc[j] = "queued"
      BY <1>8, DeliverQueued
    <2> QED
      BY <1>8, <2>1 DEF Deliver
  <1> QED
    BY <1>1, <1>2, <1>3, <1>4, <1>5, <1>6, <1>7, <1>8 DEF Next

\* Every step of the system keeps VmidInv.
LEMMA VmidKept == TypeInv /\ VmidInv /\ [Next]_vars => VmidInv'
  <1> SUFFICES ASSUME TypeInv, VmidInv, [Next]_vars, NEW k \in Jobs, pc'[k] # "request"
               PROVE  vmid'[k] # AutoVmid
    BY DEF VmidInv, AutoVmid
  <1> QED
    BY VmidStep DEF VmidInv

\* A job that has asked for a task has a VMID, and keeps it.
LEMMA TaskHasVmid ==
  ASSUME TypeInv, AskedInv, VmidInv, [Next]_vars, NEW k \in Jobs, NEW o \in Ops,
         task[k][o] # "none" \/ Starts(k, o)
  PROVE  vmid[k] \in VMIDs /\ vmid'[k] = vmid[k]
  <1>1. pc[k] # "request"
    <2>1. CASE task[k][o] # "none"
      <3>1. PICK i \in 1 .. at[k] : i = at[k] => pc[k] \in {"wait", "over"}
        BY <2>1 DEF AskedInv, Asked
      <3> QED
        BY <3>1 DEF TypeInv, WorkInv, PlaceInv
    <2>2. CASE Starts(k, o)
      BY <2>2 DEF Starts
    <2> QED
      BY <2>1, <2>2
  <1>2. vmid[k] \in VMIDs
    BY <1>1 DEF VmidInv, TypeInv, WorkInv, TypeOK
  <1> QED
    BY <1>1, <1>2, VmidStep

\* An in-place restore that has asked for the new guest has deleted the old one.
LEMMA RestoreImplied == TypeInv /\ AskedInv /\ DoneInv => RestoreNeedsDelete
  <1> SUFFICES ASSUME TypeInv, AskedInv, DoneInv, NEW j \in Jobs,
                      Kind[j] = "restore_inplace", task[j]["restore"] # "none"
               PROVE  task[j]["delete"] = "ok"
    BY DEF RestoreNeedsDelete
  <1>1. PICK i \in 1 .. at[j] :
          Script(j)[i] \in DOMAIN OpOf /\ OpOf[Script(j)[i]] = "restore"
    BY DEF AskedInv, Asked, Ops
  <1>2. /\ at[j] \in Nat /\ at[j] \in 1 .. Len(Script(j))
        /\ i \in 1 .. Len(Script(j))
    BY <1>1, JobScript DEF TypeInv, WorkInv, TypeOK, Script
  <1>3. i = 3 /\ Len(Script(j)) = 4 /\ Script(j)[2] = "deleting"
    BY <1>1, <1>2, InPlaceFacts
  <1>4. 2 \in 1 .. Len(Script(j)) /\ 2 < at[j]
    BY <1>2, <1>3
  <1>5. task[j][OpOf[Script(j)[2]]] = "ok"
    BY <1>3, <1>4 DEF DoneInv, FailingSteps, OpOf
  <1> QED
    BY <1>3, <1>5 DEF OpOf

\* A step starts a task, ends one, is a user's, or leaves tasks and guests alone.
Began(k, o) == Starts(k, o) /\ UNCHANGED <<vmid, deleted>>
Ended(k, o) == TaskSucceeds(k, o) \/ TaskFails(k, o)

LEMMA GuestChange ==
  ASSUME TypeInv, [Next]_vars
  PROVE  \/ \E k \in Jobs, o \in Ops : Began(k, o) \/ Ended(k, o)
         \/ \E v \in VMIDs : User(v)
         \/ UNCHANGED <<task, guest, deleted>>
  <1>1. ASSUME NEW j \in Jobs, Worker(j)
        PROVE  \/ \E o \in Ops : Began(j, o)
               \/ UNCHANGED <<task, guest, deleted>>
    <2>1. CASE Call(j) \/ CallUnanswered(j)
      <3>1. OpOf[ScriptStep(j)] \in Ops
        BY <2>1, InScript DEF Call, CallUnanswered
      <3>2. UNCHANGED <<vmid, deleted>>
        BY <2>1 DEF Call, CallUnanswered
      <3> QED
        BY <2>1, <3>1, <3>2, StartStep DEF Began
    <2>2. CASE ~ (Call(j) \/ CallUnanswered(j))
      BY <1>1, <2>2 DEF Worker, Report, CallFails, WaitOk, WaitFails, SeenRunning,
                        NotSeenRunning
    <2> QED
      BY <2>1, <2>2
  <1>2. ASSUME NEW j \in Jobs,
               Allocate(j) \/ Create(j) \/ Submitter(j) \/ Lose(j) \/ Deliver(j)
        PROVE  UNCHANGED <<task, guest, deleted>>
    BY <1>2 DEF Allocate, Create, Submitter, Publish, PublishFails, Lose, Deliver
  <1>3. CASE UNCHANGED vars
    BY <1>3 DEF vars
  <1> QED
    BY <1>1, <1>2, <1>3 DEF Next, Ended

\* A task that runs after a step ran before it, or was started by it while no
\* other ran on the guest.
LEMMA RunningStep ==
  ASSUME TypeInv, AskedInv, VmidInv, [Next]_vars, NEW k \in Jobs, NEW o \in Ops,
         task'[k][o] = "running"
  PROVE  /\ vmid'[k] = vmid[k] /\ vmid[k] \in VMIDs
         /\ task[k][o] = "running" \/ Starts(k, o)
  <1>1. task[k][o] = "running" \/ Starts(k, o)
    BY TaskStep
  <1> QED
    BY <1>1, TaskHasVmid

\* Every step of the system keeps TasksInv.
LEMMA TasksStep ==
  TypeInv /\ AskedInv /\ VmidInv /\ TasksInv /\ [Next]_vars => TasksInv'
  <1> SUFFICES ASSUME TypeInv, AskedInv, VmidInv, TasksInv, [Next]_vars
               PROVE  TasksInv'
    OBVIOUS
  <1> USE DEF TypeInv, WorkInv, TypeOK
  <1>1. ASSUME NEW j \in Jobs, NEW k \in Jobs, NEW o \in Ops, NEW p \in Ops,
               vmid'[j] = vmid'[k],
               task'[j][o] = "running", task'[k][p] = "running"
        PROVE  j = k /\ o = p
    <2>1. /\ vmid[j] = vmid[k]
          /\ task[j][o] = "running" \/ Starts(j, o)
          /\ task[k][p] = "running" \/ Starts(k, p)
      BY <1>1, RunningStep
    <2>2. CASE task[j][o] = "running" /\ task[k][p] = "running"
      BY <2>1, <2>2 DEF TasksInv
    <2>3. CASE Starts(j, o)
      <3>1. task' = [task EXCEPT ![j][o] = "running"] /\ Idle(vmid[j])
        BY <2>3 DEF Starts, StartTask, Accepts
      <3>2. task[k][p] # "running"
        BY <2>1, <3>1 DEF Idle
      <3> QED
        BY <1>1, <3>1, <3>2
    <2>4. CASE Starts(k, p)
      <3>1. task' = [task EXCEPT ![k][p] = "running"] /\ Idle(vmid[k])
        BY <2>4 DEF Starts, StartTask, Accepts
      <3>2. task[j][o] # "running"
        BY <2>1, <3>1 DEF Idle
      <3> QED
        BY <1>1, <3>1, <3>2
    <2> QED
      BY <2>1, <2>2, <2>3, <2>4
  <1>2. ASSUME NEW j \in Jobs, NEW o \in {"clone", "restore"},
               task'[j][o] = "running"
        PROVE  guest'[vmid'[j]] = "creating"
    <2>0. o \in Ops
      BY DEF Ops
    <2>1. /\ vmid'[j] = vmid[j] /\ vmid[j] \in VMIDs
          /\ task[j][o] = "running" \/ Starts(j, o)
      BY <1>2, <2>0, RunningStep
    <2>2. CASE Starts(j, o)
      BY <2>1, <2>2 DEF Starts, StartTask
    <2>3. CASE task[j][o] = "running"
      <3>1. guest[vmid[j]] = "creating"
        BY <2>3 DEF TasksInv
      <3>2. ASSUME NEW k \in Jobs, NEW p \in Ops, Began(k, p)
            PROVE  guest'[vmid[j]] = guest[vmid[j]]
        <4>1. vmid[k] # vmid[j]
          BY <2>0, <2>3, <3>2 DEF Began, Starts, StartTask, Accepts, Idle
        <4>2. guest' = guest \/ guest' = [guest EXCEPT ![vmid[k]] = "creating"]
          BY <3>2 DEF Began, Starts, StartTask
        <4> QED
          BY <2>1, <4>1, <4>2
      <3>3. ASSUME NEW k \in Jobs, NEW p \in Ops, Ended(k, p)
            PROVE  guest'[vmid[j]] = guest[vmid[j]]
        <4>1. vmid[k] # vmid[j]
          <5> SUFFICES ASSUME vmid[k] = vmid[j] PROVE FALSE
            OBVIOUS
          <5>1. task[k][p] = "running"
            BY <3>3 DEF Ended, TaskSucceeds, TaskFails
          <5>2. k = j /\ p = o
            BY <5>1, <2>0, <2>3 DEF TasksInv
          <5>3. task' = [task EXCEPT ![j][o] = "ok"] \/ task' = [task EXCEPT ![j][o] = "failed"]
            BY <3>3, <5>2 DEF Ended, TaskSucceeds, TaskFails
          <5> QED
            BY <1>2, <2>0, <5>3
        <4>2. \/ guest' = guest
              \/ guest' = [guest EXCEPT ![vmid[k]] = "absent"]
              \/ guest' = [guest EXCEPT ![vmid[k]] = Outcome(p, vmid[k])]
          BY <3>3 DEF Ended, TaskSucceeds, TaskFails
        <4> QED
          BY <2>1, <4>1, <4>2
      <3>4. ASSUME NEW v \in VMIDs, User(v)
            PROVE  guest'[vmid[j]] = guest[vmid[j]]
        <4>1. vmid[j] # v
          BY <2>0, <2>3, <3>4 DEF User, Power, DeleteGuest, CloneGuest, Idle
        <4> QED
          BY <2>1, <3>4, <4>1 DEF User, Power, DeleteGuest, CloneGuest
      <3>5. guest'[vmid[j]] = guest[vmid[j]]
        BY <3>2, <3>3, <3>4, GuestChange
      <3> QED
        BY <2>1, <3>1, <3>5
    <2> QED
      BY <2>1, <2>2, <2>3
  <1> QED
    BY <1>1, <1>2 DEF TasksInv

\* A job that has made its guest keeps its VMID and has no more to make.
LEMMA MadeStep ==
  ASSUME TypeInv, AskedInv, VmidInv, [Next]_vars, NEW j \in Jobs, Standing(j)'
  PROVE  /\ vmid'[j] = vmid[j] /\ vmid[j] \in VMIDs
         /\ \/ Standing(j)
            \/ task[j][Maker(j)] = "running" /\ task'[j][Maker(j)] = "ok"
  <1>1. Maker(j) \in Ops /\ task'[j][Maker(j)] = "ok" /\ MakesGuest(j) /\ j \notin deleted'
    BY DEF Maker, Ops, Standing, HasMade, MakesGuest
  <1>2. task[j][Maker(j)] = "ok" \/ task[j][Maker(j)] = "running"
    BY <1>1, TaskStep
  <1>3. vmid'[j] = vmid[j] /\ vmid[j] \in VMIDs
    BY <1>1, <1>2, TaskHasVmid
  <1>4. deleted \subseteq deleted'
    BY GuestChange DEF Began, Ended, TaskSucceeds, TaskFails, Forget, User, Power,
                       DeleteGuest, CloneGuest
  <1> QED
    BY <1>1, <1>2, <1>3, <1>4 DEF Standing, HasMade

\* A guest that stands keeps standing, or is deleted.
LEMMA StandingStep ==
  ASSUME TypeInv, TasksInv, GuestInv, [Next]_vars, NEW j \in Jobs, Standing(j),
         j \notin deleted', vmid[j] \in VMIDs
  PROVE  guest'[vmid[j]] \in {"stopped", "running"}
  <1> USE DEF TypeInv, WorkInv, TypeOK
  <1>1. guest[vmid[j]] \in {"stopped", "running"}
    BY DEF GuestInv
  <1>2. ASSUME NEW k \in Jobs, NEW p \in Ops, Began(k, p)
        PROVE  guest'[vmid[j]] = guest[vmid[j]]
    BY <1>1, <1>2 DEF Began, Starts, StartTask, Accepts
  <1>3. ASSUME NEW k \in Jobs, NEW p \in Ops, Ended(k, p)
        PROVE  guest'[vmid[j]] \in {"stopped", "running"}
    <2>1. CASE vmid[k] # vmid[j]
      <3>1. \/ guest' = guest
            \/ guest' = [guest EXCEPT ![vmid[k]] = "absent"]
            \/ guest' = [guest EXCEPT ![vmid[k]] = Outcome(p, vmid[k])]
        BY <1>3 DEF Ended, TaskSucceeds, TaskFails
      <3> QED
        BY <1>1, <2>1, <3>1
    <2>2. CASE vmid[k] = vmid[j]
      <3>1. p \notin {"clone", "restore"}
        BY <1>1, <1>3, <2>2 DEF TasksInv, Ended, TaskSucceeds, TaskFails
      <3>2. CASE TaskFails(k, p)
        BY <1>1, <3>1, <3>2 DEF TaskFails
      <3>3. CASE TaskSucceeds(k, p)
        <4>1. p # "delete"
          BY <2>2, <3>3 DEF TaskSucceeds, Forget, Standing
        <4>2. guest' = [guest EXCEPT ![vmid[j]] = Outcome(p, vmid[j])]
          BY <2>2, <3>3 DEF TaskSucceeds
        <4>3. Outcome(p, vmid[j]) \in {"stopped", "running"}
          BY <1>1, <3>1, <4>1 DEF Outcome, Ops
        <4> QED
          BY <4>2, <4>3
      <3> QED
        BY <1>3, <3>2, <3>3 DEF Ended
    <2> QED
      BY <2>1, <2>2
  <1>4. ASSUME NEW v \in VMIDs, User(v)
        PROVE  guest'[vmid[j]] \in {"stopped", "running"}
    BY <1>1, <1>4 DEF User, Power, DeleteGuest, CloneGuest, Forget, Standing
  <1> QED
    BY <1>1, <1>2, <1>3, <1>4, GuestChange

\* Every step of the system keeps GuestInv.
LEMMA GuestStep ==
  TypeInv /\ AskedInv /\ VmidInv /\ TasksInv /\ GuestInv /\ [Next]_vars => GuestInv'
  <1> SUFFICES ASSUME TypeInv, AskedInv, VmidInv, TasksInv, GuestInv, [Next]_vars,
                      NEW j \in Jobs, Standing(j)'
               PROVE  /\ guest'[vmid'[j]] \in {"stopped", "running"}
                      /\ \A k \in Jobs :
                           Standing(k)' /\ vmid'[k] = vmid'[j] => k = j
    BY DEF GuestInv
  <1> DEFINE Ends(k) == task[k][Maker(k)] = "running" /\ task'[k][Maker(k)] = "ok"
  <1>0. \A k \in Jobs : Maker(k) \in Ops /\ Maker(k) \in {"clone", "restore"}
    BY DEF Maker, Ops
  <1>1. \A k \in Jobs : Standing(k)' =>
          /\ vmid'[k] = vmid[k] /\ vmid[k] \in VMIDs
          /\ Standing(k) \/ Ends(k)
    BY MadeStep
  <1>2. guest'[vmid'[j]] \in {"stopped", "running"}
    <2>1. CASE Standing(j)
      <3>1. j \notin deleted'
        BY DEF Standing
      <3> QED
        BY <1>1, <2>1, <3>1, StandingStep
    <2>2. CASE Ends(j)
      <3>1. PICK k \in Jobs, o \in Ops : Began(k, o) \/ Ended(k, o)
        <4>1. task' # task
          BY <2>2
        <4> QED
          BY <4>1, GuestChange DEF User, Power, DeleteGuest, CloneGuest
      <3>2. ~ Began(k, o)
        <4> SUFFICES ASSUME task' = [task EXCEPT ![k][o] = "running"] PROVE FALSE
          BY DEF Began, Starts, StartTask
        <4> QED
          BY <1>0, <2>2 DEF TypeInv, WorkInv, TypeOK
      <3>3. k = j /\ o = Maker(j)
        <4>1. \/ task' = [task EXCEPT ![k][o] = "ok"]
              \/ task' = [task EXCEPT ![k][o] = "failed"]
          BY <3>1, <3>2 DEF Ended, TaskSucceeds, TaskFails
        <4> QED
          BY <1>0, <2>2, <4>1 DEF TypeInv, WorkInv, TypeOK
      <3>4. TaskSucceeds(j, Maker(j))
        BY <1>0, <2>2, <3>1, <3>2, <3>3 DEF Ended, TaskFails, TypeInv, WorkInv, TypeOK
      <3> QED
        BY <1>0, <1>1, <3>4 DEF TaskSucceeds, Outcome, TypeInv, WorkInv, TypeOK
    <2> QED
      BY <1>1, <2>1, <2>2
  <1>3. ASSUME NEW k \in Jobs, Standing(k)', vmid'[k] = vmid'[j]
        PROVE  k = j
    <2>1. vmid[k] = vmid[j]
      BY <1>1, <1>3
    <2>2. CASE Standing(j) /\ Standing(k)
      BY <2>1, <2>2 DEF GuestInv
    <2>3. CASE Ends(j) /\ Ends(k)
      BY <1>0, <2>1, <2>3 DEF TasksInv
    <2>4. ~ (Standing(j) /\ Ends(k)) /\ ~ (Standing(k) /\ Ends(j))
      BY <1>0, <2>1 DEF TasksInv, GuestInv
    <2> QED
      BY <1>1, <1>3, <2>2, <2>3, <2>4
  <1> QED
    BY <1>2, <1>3

-----------------------------------------------------------------------------
(* The theorems *)

\* The inductive invariant.
LEMMA InvHolds == Spec => []Inv
  <1>1. Init => Inv
    <2>1. Init => VmidInv
      BY DEF Init, VmidInv
    <2> QED
      BY <2>1, InitType, InitTasks DEF Inv
  <1>2. Inv /\ [Next]_vars => Inv'
    <2> SUFFICES ASSUME Inv, [Next]_vars PROVE Inv'
      OBVIOUS
    <2>1. TypeInv /\ AskedInv /\ DoneInv /\ LastInv /\ VmidInv /\ TasksInv /\ GuestInv
      BY DEF Inv
    <2>2. TypeInv'
      BY <2>1, WorkStep, QueueStep DEF TypeInv
    <2>3. AskedInv' /\ DoneInv' /\ LastInv'
      BY <2>1, AskedStep, DoneStep, LastStep
    <2>4. VmidInv' /\ TasksInv' /\ GuestInv'
      BY <2>1, VmidKept, TasksStep, GuestStep
    <2> QED
      BY <2>2, <2>3, <2>4 DEF Inv
  <1> QED
    BY <1>1, <1>2, PTL DEF Spec

\* An in-place restore asks for the new guest only when Proxmox has deleted the
\* old one (worker.go: restoreJob).
THEOREM DeleteBeforeRestore == Spec => []RestoreNeedsDelete
  <1>1. Inv => RestoreNeedsDelete
    BY RestoreImplied DEF Inv
  <1> QED
    BY InvHolds, <1>1, PTL

\* A job that is reported completed has done its work, and nothing of it is
\* still running (worker.go: every call and WaitForTask that may end a job).
THEOREM CompletionIsReal == Spec => []CompletedMeansDone
  <1>1. Inv => CompletedMeansDone
    <2> SUFFICES ASSUME TypeInv, AskedInv, DoneInv, LastInv, NEW j \in Jobs,
                        status[j] = "completed"
                 PROVE  /\ \A o \in NeededOps(j) : task[j][o] = "ok"
                        /\ \A o \in Ops : task[j][o] # "running"
      BY DEF Inv, CompletedMeansDone
    <2>1. at[j] = Len(Script(j)) /\ Len(Script(j)) \in Nat
      BY JobScript DEF TypeInv, WorkInv, PlaceInv
    <2>2. ASSUME NEW i \in 1 .. Len(Script(j)), Script(j)[i] \in DOMAIN OpOf
          PROVE  i < at[j]
      BY <2>1, <2>2, OpFacts, JobScript
    <2>3. ASSUME NEW i \in 1 .. Len(Script(j)),
                 Script(j)[i] \in FailingSteps \cap DOMAIN OpOf
          PROVE  task[j][OpOf[Script(j)[i]]] = "ok"
      BY <2>2, <2>3 DEF DoneInv
    <2>4. ASSUME NEW o \in NeededOps(j)
          PROVE  task[j][o] = "ok"
      BY <2>3 DEF NeededOps, Script
    <2>5. ASSUME NEW o \in Ops, task[j][o] = "running"
          PROVE  FALSE
      <3>1. PICK i \in 1 .. at[j] :
              Script(j)[i] \in DOMAIN OpOf /\ OpOf[Script(j)[i]] = o
        BY <2>5 DEF AskedInv, Asked
      <3>2. i \in 1 .. Len(Script(j))
        BY <2>1
      <3>3. Script(j)[i] \notin FailingSteps
        BY <2>3, <2>5, <3>1, <3>2
      <3>4. PICK m \in i + 1 .. Len(Script(j)) :
              Script(j)[m] \in FailingSteps \cap DOMAIN OpOf
        BY <3>1, <3>2, <3>3, JobScript, LoggedBeforeFatal DEF Script
      <3>5. m \in 1 .. Len(Script(j)) /\ i < m
        BY <3>2, <3>4, <2>1
      <3>6. task[j][OpOf[Script(j)[m]]] = "none"
        BY <2>5, <3>1, <3>2, <3>4, <3>5 DEF LastInv
      <3> QED
        BY <2>3, <3>4, <3>5, <3>6
    <2> QED
      BY <2>4, <2>5
  <1> QED
    BY InvHolds, <1>1, PTL

\* Of the jobs that report success for a guest under one VMID, all but one have
\* seen theirs deleted (worker.go: provisionVM, provisionContainer, restoreJob).
THEOREM GuestsAreUnique == Spec => []OneGuestPerVmid
  <1>1. Inv => OneGuestPerVmid
    <2> SUFFICES ASSUME TypeInv, DoneInv, GuestInv, NEW j \in Jobs, NEW k \in Jobs,
                        j # k, MakesGuest(j), MakesGuest(k), vmid[j] = vmid[k],
                        status[j] = "completed", status[k] = "completed"
                 PROVE  j \in deleted \/ k \in deleted
      BY DEF Inv, OneGuestPerVmid
    <2>1. ASSUME NEW i \in Jobs, MakesGuest(i), status[i] = "completed"
          PROVE  HasMade(i)
      <3>1. PICK n \in 1 .. Len(Script(i)) :
              /\ Script(i)[n] \in FailingSteps \cap DOMAIN OpOf
              /\ OpOf[Script(i)[n]] = Maker(i)
        BY <2>1, MakerFacts
      <3>2. at[i] = Len(Script(i)) /\ Len(Script(i)) \in Nat
        BY <2>1, JobScript DEF TypeInv, WorkInv, PlaceInv
      <3>3. n < at[i]
        BY <3>1, <3>2, OpFacts, JobScript
      <3> QED
        BY <2>1, <3>1, <3>3 DEF DoneInv, HasMade
    <2> QED
      BY <2>1 DEF GuestInv, Standing
  <1> QED
    BY InvHolds, <1>1, PTL

\* After its outcome a job reports nothing else and asks for nothing more
\* (worker.go: every SetError is followed by a return).
THEOREM QuietCorrect == Spec => QuietAfterOutcome
  <1> DEFINE Quiet == \A j \in Jobs : status[j] \in TerminalStatuses =>
                        /\ status'[j] = status[j] /\ step'[j] = step[j]
                        /\ \A o \in Ops : task[j][o] = "none" => task'[j][o] = "none"
  <1>1. Inv /\ [Next]_vars => [Quiet]_vars
    <2> SUFFICES ASSUME TypeInv, [Next]_vars, NEW j \in Jobs,
                        status[j] \in TerminalStatuses
                 PROVE  /\ status'[j] = status[j] /\ step'[j] = step[j]
                        /\ \A o \in Ops : task[j][o] = "none" => task'[j][o] = "none"
      BY DEF Inv
    <2>1. pc[j] = "over"
      BY DEF TypeInv, WorkInv, PlaceInv
    <2>2. ASSUME NEW o \in Ops, task[j][o] = "none"
          PROVE  task'[j][o] = "none"
      BY <2>1, <2>2, TaskStep DEF Starts
    <2>3. ASSUME NEW k \in Jobs, Worker(k)
          PROVE  status'[j] = status[j] /\ step'[j] = step[j]
      BY <2>1, <2>3, WorkerFrame
    <2>4. ASSUME NEW k \in Jobs,
                 Allocate(k) \/ Create(k) \/ Submitter(k) \/ Lose(k) \/ Deliver(k)
          PROVE  status'[j] = status[j] /\ step'[j] = step[j]
      BY <2>1, <2>4 DEF Allocate, Create, Submitter, Publish, PublishFails, Lose,
                        Deliver, jobVars, TypeInv, WorkInv, TypeOK
    <2>5. ASSUME NEW k \in Jobs, NEW o \in Ops, TaskSucceeds(k, o) \/ TaskFails(k, o)
          PROVE  status'[j] = status[j] /\ step'[j] = step[j]
      BY <2>5 DEF TaskSucceeds, TaskFails, jobVars
    <2>6. ASSUME NEW v \in VMIDs, User(v)
          PROVE  status'[j] = status[j] /\ step'[j] = step[j]
      BY <2>6 DEF User, Power, DeleteGuest, CloneGuest, jobVars
    <2>7. CASE UNCHANGED vars
      BY <2>7 DEF vars, jobVars
    <2> QED
      BY <2>2, <2>3, <2>4, <2>5, <2>6, <2>7 DEF Next
  <1> QED
    BY InvHolds, <1>1, PTL DEF Spec, QuietAfterOutcome
-----------------------------------------------------------------------------
(* The refinement *)

\* The table of percentages, entry by entry.
LEMMA Percentages ==
  /\ StepProgress["cloning"] = 10 /\ StepProgress["configuring"] = 30
  /\ StepProgress["resizing"] = 45 /\ StepProgress["adding_disks"] = 55
  /\ StepProgress["starting"] = 70 /\ StepProgress["waiting_for_running"] = 85
  /\ StepProgress["ready"] = 100 /\ StepProgress["backing_up"] = 50
  /\ StepProgress["stopping"] = 15 /\ StepProgress["deleting"] = 30
  /\ StepProgress["restoring"] = 60
  BY DEF StepProgress

\* Every step has a percentage, only ready has 100.
LEMMA PercentOf ==
  ASSUME NEW s \in StepNames
  PROVE  /\ s # StepNone
         /\ Progress(s) \in 1 .. 100
         /\ s = "ready" => Progress(s) = 100
         /\ s # "ready" => Progress(s) <= 99
  <1>1. s \in {"cloning", "configuring", "resizing", "adding_disks", "starting",
               "waiting_for_running", "ready", "backing_up", "stopping", "deleting",
               "restoring"}
    BY DEF StepNames, StepProgress
  <1>2. s # StepNone
    BY <1>1 DEF StepNone
  <1>3. Progress(s) = StepProgress[s]
    BY <1>2 DEF Progress
  <1> QED
    BY <1>1, <1>2, <1>3, Percentages

\* Each reported step has a larger percentage than the one before it.
LEMMA ScriptGrows ==
  ASSUME NEW k \in Kinds, NEW i \in 2 .. Len(ScriptOf[k])
  PROVE  StepProgress[ScriptOf[k][i - 1]] < StepProgress[ScriptOf[k][i]]
  <1>1. CASE k = "vm"
    <2>1. i \in {2, 3, 4, 5, 6}
      BY <1>1 DEF ScriptOf
    <2> QED
      BY <1>1, <2>1, Percentages DEF ScriptOf
  <1>2. CASE k = "vm_volumes"
    <2>1. i \in {2, 3, 4, 5, 6, 7}
      BY <1>2 DEF ScriptOf
    <2> QED
      BY <1>2, <2>1, Percentages DEF ScriptOf
  <1>3. CASE k = "container"
    <2>1. i \in {2, 3, 4, 5, 6}
      BY <1>3 DEF ScriptOf
    <2> QED
      BY <1>3, <2>1, Percentages DEF ScriptOf
  <1>4. CASE k = "backup"
    <2>1. i = 2
      BY <1>4 DEF ScriptOf
    <2> QED
      BY <1>4, <2>1, Percentages DEF ScriptOf
  <1>5. CASE k = "restore"
    <2>1. i = 2
      BY <1>5 DEF ScriptOf
    <2> QED
      BY <1>5, <2>1, Percentages DEF ScriptOf
  <1>6. CASE k = "restore_inplace"
    <2>1. i \in {2, 3, 4}
      BY <1>6 DEF ScriptOf
    <2> QED
      BY <1>6, <2>1, Percentages DEF ScriptOf
  <1> QED
    BY <1>1, <1>2, <1>3, <1>4, <1>5, <1>6 DEF Kinds

\* What the store shows of a job, by where its handler or callback is.
ShownInv ==
  \A j \in Jobs :
    /\ pc[j] = "request" => status[j] = "none" /\ step[j] = StepNone
    /\ pc[j] \in {"publish", "queued", "lost"}
         => status[j] = "pending" /\ step[j] = StepNone
    /\ pc[j] = "report" /\ at[j] = 1
         => status[j] = "pending" /\ step[j] = StepNone
    /\ pc[j] = "report" /\ at[j] # 1
         => status[j] = "running" /\ step[j] = Script(j)[at[j] - 1]
    /\ pc[j] \in {"call", "wait", "poll"}
         => status[j] = "running" /\ step[j] = ScriptStep(j)

\* A job that a step leaves alone keeps what ShownInv says of it.
ShownKept(j) ==
  /\ status'[j] = status[j] /\ step'[j] = step[j] /\ at'[j] = at[j]
  /\ \/ pc'[j] = pc[j]
     \/ pc[j] = "publish" /\ pc'[j] = "queued"
     \/ pc[j] = "queued" /\ pc'[j] = "lost"
     \/ pc[j] = "queued" /\ pc'[j] = "report" /\ at[j] = 1
     \/ pc[j] = "call" /\ pc'[j] = "wait"

\* A job is stored, reports its next step, or fails.
Stored(j) ==
  /\ status[j] = "none" /\ step[j] = StepNone
  /\ status'[j] = "pending" /\ step'[j] = StepNone
  /\ pc'[j] = "publish"

Reported(j) ==
  /\ pc[j] = "report"
  /\ step'[j] = ScriptStep(j)
  /\ status'[j] = StatusOf(ScriptStep(j))
  /\ \/ pc'[j] = "over" /\ at'[j] = at[j]
     \/ pc'[j] \in {"call", "poll"} /\ at'[j] = at[j] /\ ScriptStep(j) # "ready"
     \/ pc'[j] = "report" /\ at'[j] = at[j] + 1 /\ ScriptStep(j) # "ready"

Failed(j) ==
  /\ status[j] \in {"pending", "running"}
  /\ status'[j] = "failed" /\ step'[j] = step[j]
  /\ pc'[j] = "over"

\* The step's calls are over.
WentOn(j) ==
  /\ pc[j] \in {"call", "wait", "poll"}
  /\ status'[j] = status[j] /\ step'[j] = step[j]
  /\ at'[j] = at[j] + 1 /\ pc'[j] = "report"

\* These are all the ways a step changes what is shown of a job.
LEMMA ShownStep ==
  ASSUME TypeInv, ShownInv, [Next]_vars, NEW k \in Jobs
  PROVE  ShownKept(k) \/ Stored(k) \/ Reported(k) \/ Failed(k) \/ WentOn(k)
  <1> USE DEF TypeInv, WorkInv, TypeOK
  <1>1. ASSUME NEW j \in Jobs, Worker(j)
        PROVE  ShownKept(k) \/ Reported(k) \/ Failed(k) \/ WentOn(k)
    <2>1. CASE j # k
      BY <2>1, <1>1, WorkerFrame DEF ShownKept
    <2>2. CASE j = k /\ Report(k)
      <3>1. /\ After(k) \in {"over", "poll", "call", "report"}
            /\ ScriptStep(k) = "ready" => After(k) = "over"
        BY OpFacts DEF After, HasTask
      <3>3. /\ pc[k] = "report" /\ pc'[k] = After(k)
            /\ step'[k] = ScriptStep(k) /\ status'[k] = StatusOf(ScriptStep(k))
        BY <2>2 DEF Report
      <3>2. at'[k] = IF After(k) = "report" THEN at[k] + 1 ELSE at[k]
        BY <2>2 DEF Report
      <3> QED
        BY <3>1, <3>2, <3>3 DEF Reported
    <2>3. CASE j = k /\ Call(k)
      BY <2>3 DEF Call, ShownKept, jobVars
    <2>4. CASE j = k /\ pc[k] \in {"call", "wait", "poll"}
               /\ (Continue(k) \/ Abort(k))
      BY <2>4 DEF Continue, Abort, WentOn, Failed, ShownInv, jobVars
    <2>5. j = k => \/ Report(k)
                   \/ Call(k)
                   \/ /\ pc[k] \in {"call", "wait", "poll"}
                      /\ Continue(k) \/ Abort(k)
      BY <1>1, StepEnds DEF Worker, CallUnanswered, CallFails, WaitOk, WaitFails,
                            SeenRunning, NotSeenRunning
    <2> QED
      BY <2>1, <2>2, <2>3, <2>4, <2>5
  <1>2. ASSUME NEW j \in Jobs, Allocate(j) \/ Publish(j) \/ Lose(j) \/ Deliver(j)
        PROVE  ShownKept(k)
    <2>1. CASE Allocate(j)
      BY <2>1 DEF Allocate, ShownKept, jobVars
    <2>2. CASE Publish(j)
      BY <2>2 DEF Publish, ShownKept, jobVars
    <2>3. CASE Lose(j)
      BY <2>3 DEF Lose, ShownKept, jobVars
    <2>4. CASE Deliver(j)
      <3>1. pc[j] = "queued" /\ at[j] = 1
        BY <2>4, DeliverQueued DEF PlaceInv
      <3> QED
        BY <2>4, <3>1 DEF Deliver, ShownKept, jobVars
    <2> QED
      BY <1>2, <2>1, <2>2, <2>3, <2>4
  <1>3. ASSUME NEW j \in Jobs, Create(j)
        PROVE  ShownKept(k) \/ Stored(k)
    BY <1>3 DEF Create, ShownKept, Stored, ShownInv
  <1>4. ASSUME NEW j \in Jobs, PublishFails(j)
        PROVE  ShownKept(k) \/ Failed(k)
    BY <1>4 DEF PublishFails, ShownKept, Failed, ShownInv
  <1>5. ASSUME NEW j \in Jobs, NEW o \in Ops, TaskSucceeds(j, o) \/ TaskFails(j, o)
        PROVE  ShownKept(k)
    BY <1>5 DEF TaskSucceeds, TaskFails, ShownKept, jobVars
  <1>6. ASSUME NEW v \in VMIDs, User(v)
        PROVE  ShownKept(k)
    BY <1>6 DEF User, Power, DeleteGuest, CloneGuest, ShownKept, jobVars
  <1>7. CASE UNCHANGED vars
    BY <1>7 DEF vars, ShownKept, jobVars
  <1> QED
    BY <1>1, <1>2, <1>3, <1>4, <1>5, <1>6, <1>7 DEF Next, Submitter

\* The job's step is the one its callback has reported last.
LEMMA ShownPreserved == TypeInv /\ ShownInv /\ [Next]_vars => ShownInv'
  <1> SUFFICES ASSUME TypeInv, ShownInv, [Next]_vars, NEW j \in Jobs
               PROVE  /\ pc'[j] = "request" => status'[j] = "none" /\ step'[j] = StepNone
                      /\ pc'[j] \in {"publish", "queued", "lost"}
                           => status'[j] = "pending" /\ step'[j] = StepNone
                      /\ pc'[j] = "report" /\ at'[j] = 1
                           => status'[j] = "pending" /\ step'[j] = StepNone
                      /\ pc'[j] = "report" /\ at'[j] # 1
                           => /\ status'[j] = "running"
                              /\ step'[j] = Script(j)[at'[j] - 1]
                      /\ pc'[j] \in {"call", "wait", "poll"}
                           => status'[j] = "running" /\ step'[j] = Script(j)[at'[j]]
    BY DEF ShownInv, ScriptStep, Script
  <1>1. at[j] \in Nat /\ at[j] >= 1 /\ ScriptStep(j) = Script(j)[at[j]]
    BY DEF TypeInv, WorkInv, TypeOK, ScriptStep, Script
  <1>2. CASE ShownKept(j)
    BY <1>1, <1>2 DEF ShownKept, ShownInv
  <1>3. CASE Stored(j)
    BY <1>3 DEF Stored
  <1>4. CASE Reported(j)
    BY <1>1, <1>4 DEF Reported, StatusOf
  <1>5. CASE Failed(j)
    BY <1>5 DEF Failed
  <1>6. CASE WentOn(j)
    BY <1>1, <1>6 DEF WentOn, ShownInv
  <1> QED
    BY <1>2, <1>3, <1>4, <1>5, <1>6, ShownStep

\* What is shown of a job changes as the abstract life cycle says.
LEMMA LifecycleStep ==
  ASSUME TypeInv, ShownInv, [Next]_vars, NEW j \in Jobs
  PROVE  Lifecycle(j)!Next \/ UNCHANGED Lifecycle(j)!vars
  <1>1. CASE ShownKept(j) \/ WentOn(j)
    BY <1>1 DEF ShownKept, WentOn, Lifecycle!vars
  <1>2. CASE Stored(j)
    BY <1>2 DEF Stored, Progress, Lifecycle!Next, Lifecycle!Queue
  <1>3. CASE Failed(j)
    BY <1>3 DEF Failed, Lifecycle!Next, Lifecycle!Fail
  <1>4. CASE Reported(j)
    <2> DEFINE p == Progress(step[j])  q == Progress(step'[j])
    <2>0. Len(Script(j)) # 1
      BY JobScript
    <2>1. /\ at[j] \in 1 .. Len(Script(j)) /\ Len(Script(j)) \in Nat
          /\ ScriptStep(j) = Script(j)[at[j]] /\ ScriptStep(j) \in StepNames
          /\ ScriptStep(j) = "ready" <=> at[j] = Len(Script(j))
      BY JobScript DEF TypeInv, WorkInv, TypeOK, ScriptStep, Script
    <2>2. /\ step'[j] = ScriptStep(j) /\ step'[j] # StepNone
          /\ q \in 1 .. 100
          /\ ScriptStep(j) # "ready" => q <= 99
          /\ ScriptStep(j) = "ready" => q = 100
      BY <1>4, <2>1, PercentOf DEF Reported
    <2>3. CASE at[j] = 1
      <3>0. at[j] # Len(Script(j))
        BY <2>0, <2>3
      <3>1. status[j] = "pending" /\ step[j] = StepNone /\ ScriptStep(j) # "ready"
        BY <1>4, <2>1, <2>3, <3>0 DEF Reported, ShownInv
      <3>2. p = 0
        BY <3>1 DEF Progress
      <3>3. status'[j] = "running"
        BY <1>4, <3>1 DEF Reported, StatusOf
      <3> HIDE DEF p, q
      <3>4. q \in (p + 1) .. 99
        BY <2>2, <3>1, <3>2
      <3> QED
        BY <3>1, <3>3, <3>4 DEF Lifecycle!Next, Lifecycle!Advance, p, q
    <2>4. CASE at[j] # 1
      <3>1. status[j] = "running" /\ step[j] = Script(j)[at[j] - 1]
        BY <1>4, <2>4 DEF Reported, ShownInv
      <3>2. at[j] \in 2 .. Len(Script(j)) /\ at[j] - 1 \in 1 .. Len(Script(j))
        BY <2>1, <2>4
      <3>3. step[j] \in StepNames
        BY <3>1, <3>2, JobScript
      <3>4. step[j] # StepNone /\ p \in Nat
        BY <3>3, PercentOf
      <3>5. p = StepProgress[step[j]] /\ q = StepProgress[step'[j]]
        BY <2>2, <3>4 DEF Progress
      <3>6. StepProgress[step[j]] < StepProgress[step'[j]]
        <4>1. StepProgress[Script(j)[at[j] - 1]] < StepProgress[Script(j)[at[j]]]
          BY <3>2, JobScript, ScriptGrows DEF Script
        <4> QED
          BY <2>1, <2>2, <3>1, <4>1
      <3> HIDE DEF p, q
      <3>7. CASE ScriptStep(j) = "ready"
        <4>1. status'[j] = "completed" /\ q = 100
          BY <1>4, <2>2, <3>7 DEF Reported, StatusOf
        <4> QED
          BY <3>1, <4>1 DEF Lifecycle!Next, Lifecycle!Complete, q
      <3>8. CASE ScriptStep(j) # "ready"
        <4>1. status'[j] = "running" /\ q \in (p + 1) .. 99
          BY <1>4, <2>2, <3>4, <3>5, <3>6, <3>8 DEF Reported, StatusOf
        <4> QED
          BY <3>1, <4>1 DEF Lifecycle!Next, Lifecycle!Advance, p, q
      <3> QED
        BY <3>7, <3>8
    <2> QED
      BY <2>3, <2>4
  <1> QED
    BY <1>1, <1>2, <1>3, <1>4, ShownStep

\* Each job goes through the abstract life cycle of JobLifecycle (store.go:
\* Create, UpdateStep, SetError as the handlers and the worker call them).
THEOREM Refinement == Spec => ImplementsLifecycle
  <1>1. Init => ShownInv /\ \A j \in Jobs : Lifecycle(j)!Init
    BY DEF Init, ShownInv, Lifecycle!Init, Progress
  <1>2. TypeInv /\ ShownInv /\ [Next]_vars
          => \A j \in Jobs : Lifecycle(j)!Next \/ UNCHANGED Lifecycle(j)!vars
    BY LifecycleStep
  <1>3. TypeInv /\ ShownInv /\ [Next]_vars => TypeInv' /\ ShownInv'
    BY WorkStep, QueueStep, ShownPreserved DEF TypeInv
  <1> QED
    BY InitType, <1>1, <1>2, <1>3, PTL DEF Spec, ImplementsLifecycle
=============================================================================
