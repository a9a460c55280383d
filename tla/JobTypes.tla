------------------------------ MODULE JobTypes ------------------------------
(***************************************************************************)
(* The vocabulary of a background job: its statuses, the steps a worker     *)
(* reports and the percentage the store derives from each (backend/jobs/    *)
(* types.go), and the sequence of steps each kind of job goes through       *)
(* (backend/jobs/worker.go).                                                *)
(***************************************************************************)
EXTENDS Naturals, Sequences

\* "none" stands for a job id that is not (yet) in the store's map.
JobStatuses == {"none", "pending", "running", "completed", "failed"}

\* Faulty variant: a worker that goes on after it has reported an error.
LiveUntilCompleted == {"pending", "running", "failed"}

\* A job that will still change: the worker has not reported its outcome, after
\* which it returns.
LiveStatuses == {"pending", "running"}

\* The statuses after which the event stream of a job is closed.
TerminalStatuses == {"completed", "failed"}

\* The progress bar's percentage is a table look-up on the step.
StepProgress ==
  [cloning |-> 10, configuring |-> 30, resizing |-> 45, adding_disks |-> 55,
   starting |-> 70, waiting_for_running |-> 85, ready |-> 100,
   backing_up |-> 50,
   stopping |-> 15, deleting |-> 30, restoring |-> 60]

StepNames == DOMAIN StepProgress

\* The step of a job no worker has picked up (handlers/jobs.go: StepNone).
StepNone == ""

Progress(step) == IF step = StepNone THEN 0 ELSE StepProgress[step]

(***************************************************************************)
(* The steps each kind of job reports, in order, when nothing fails.  A VM  *)
(* reports adding_disks only when the request has extra volumes, a          *)
(* container never does; stopping and deleting belong to in-place restores. *)
(***************************************************************************)
ScriptOf ==
  [vm |-> <<"cloning", "configuring", "resizing", "starting",
            "waiting_for_running", "ready">>,
   vm_volumes |-> <<"cloning", "configuring", "resizing", "adding_disks",
                    "starting", "waiting_for_running", "ready">>,
   container |-> <<"cloning", "configuring", "resizing", "starting",
                   "waiting_for_running", "ready">>,
   backup |-> <<"backing_up", "ready">>,
   restore |-> <<"restoring", "ready">>,
   restore_inplace |-> <<"stopping", "deleting", "restoring", "ready">>]

\* The steps whose errors end the job; errors of the other steps are logged.
\* A job that could not be queued fails while it has no step.
FailingSteps == {StepNone, "cloning", "starting", "waiting_for_running",
                 "backing_up", "deleting", "restoring"}
=============================================================================
