---------------------------- MODULE JobLifecycle ----------------------------
(***************************************************************************)
(* What the job store promises to everyone who looks at one job, whatever   *)
(* the worker, the queue and the event streams do: a job is created         *)
(* pending, its percentage only grows while it runs, it reaches 100 only by *)
(* completing, and completed and failed are final.  JobEvents and           *)
(* JobPipeline implement this specification.                                *)
(***************************************************************************)
EXTENDS Naturals

VARIABLES status, progress

vars == <<status, progress>>

TypeOK ==
  /\ status \in {"none", "pending", "running", "completed", "failed"}
  /\ progress \in 0 .. 100

Init ==
  /\ status = "none"
  /\ progress = 0

\* A submit handler stores the job.
Queue ==
  /\ status = "none"
  /\ status' = "pending"
  /\ progress' = 0

\* The worker reports a step that is not the last.
Advance ==
  /\ status \in {"pending", "running"}
  /\ status' = "running"
  /\ progress' \in (progress + 1) .. 99

\* The worker reports the step "ready".
Complete ==
  /\ status = "running"
  /\ status' = "completed"
  /\ progress' = 100

\* A fatal error: the percentage stays where the job stopped.
Fail ==
  /\ status \in {"pending", "running"}
  /\ status' = "failed"
  /\ UNCHANGED progress

Next == Queue \/ Advance \/ Complete \/ Fail

Spec == Init /\ [][Next]_vars
=============================================================================
