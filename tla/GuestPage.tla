----------------------------- MODULE GuestPage -----------------------------
(***************************************************************************)
(* The page of one guest (app/vms/[node]/[vmid]/page.tsx and its twin for   *)
(* containers): the poll of its status, the power buttons with their        *)
(* confirmation, the Scale, Resize, Add and Reinstall dialogs, the backend  *)
(* handlers behind them and the guest in Proxmox, which other users also    *)
(* start and stop.                                                          *)
(*                                                                          *)
(* Resize Disk and Add Disk are one dialog here, "volume": what they send   *)
(* is in VolumeDialogs.  A request is carried out and answered in one step, *)
(* since its answer changes only the page.                                  *)
(***************************************************************************)
EXTENDS Naturals, FiniteSets

CONSTANTS
  Kinds,      \* the pages looked at: "vm", "container"
  MaxOps,     \* bound: operations this page starts
  MaxOthers,  \* bound: operations other users start
  MaxFaults,  \* bound: failed requests and failed tasks
  MaxPolls,   \* bound: status requests on their way
  MaxTries    \* the 30 tries of a wait in ReinstallModal

ASSUME PageAssumption ==
  /\ Kinds \subseteq {"vm", "container"} /\ Kinds # {}
  /\ MaxOps \in Nat /\ MaxOthers \in Nat /\ MaxFaults \in Nat
  /\ MaxPolls \in Nat \ {0} /\ MaxTries \in Nat \ {0}

VARIABLES
  kind,      \* which of the two pages it is
  guest,     \* the guest in Proxmox: running, stopped or none
  task,      \* the Proxmox task at work on it
  here,      \* the page is mounted
  shown,     \* status of the last poll that succeeded, "none" while loading
  polls,     \* answers of status requests on their way
  timer,     \* a setTimeout(refresh, 1500) is pending
  confirm,   \* confirmAction
  dialog,    \* the dialog that is open: showScale, showReinstall, ...
  phase,     \* phase of each dialog
  calls,     \* what each handler of the page awaits, "idle" for nothing
  tries,     \* i of the reinstall's wait
  job,       \* the provision job of the reinstall: none, queued or over
  wiped,     \* history: how far the reinstall got: no, accepted, deleted
  stranded,  \* history: stopped by the scaling at work and not running since
  budget     \* what the bounds leave of ops, others and faults

pageVars == <<shown, polls, timer, confirm, dialog>>
hist == <<wiped, stranded>>
vars == <<kind, guest, task, here, pageVars, phase, calls, tries, job, hist,
          budget>>

Dialogs == {"scale", "volume", "reinstall"}
Handlers == Dialogs \cup {"page"}
PowerOps == {"start", "stop", "reboot", "delete"}
NoTask == [op |-> "none", by |-> "none"]
Statuses == {"running", "stopped"}
Answers == Statuses \cup {"error"}

-----------------------------------------------------------------------------
(* Faulty variants of definitions below; the specification does not use     *)
(* them.                                                                    *)

ClosesAnyTime(d) == TRUE
RestartUnchecked(ok) == TRUE
AlwaysDone(ok) == "done"
GoneOnlyByError == guest = "none"
PollsOnce == here /\ shown = "none"
ErrorsShown(a) == a

-----------------------------------------------------------------------------
(* Proxmox, as the backend's handlers see it *)

\* The statuses an operation is accepted in, one task at a time.
From(op) ==
  CASE op \in {"start", "delete"} -> {"stopped"}
    [] op \in {"stop", "reboot"}  -> {"running"}

Accepts(op) == task = NoTask /\ guest \in From(op)

\* The guest after a task that succeeded.
After(op) ==
  CASE op \in {"start", "reboot"} -> "running"
    [] op = "stop" -> "stopped"
    [] op = "delete" -> "none"

\* StartVM, StopVM, RebootVM, DeleteVM: the answer is the task's UPID.
Launch(op, by) == task' = [op |-> op, by |-> by]

\* Something goes wrong.
Fault ==
  /\ budget.faults > 0
  /\ budget' = [budget EXCEPT !.faults = @ - 1]

-----------------------------------------------------------------------------
(* The page *)

\* What GET status answers now.
Status == IF guest = "none" THEN "error" ELSE guest

InFlight == polls["running"] + polls["stopped"] + polls["error"]

\* refresh of usePolling: one more request, also while others are on their way.
Ask(ans) == IF InFlight < MaxPolls THEN [polls EXCEPT ![ans] = @ + 1] ELSE polls

\* setData and setError: after an error the last data stays.
Applied(a) == IF a = "error" THEN shown ELSE a

\* actionLoading, set by handleAction and reset when its request is answered.
Loading == calls["page"] # "idle"

\* The overlay of a dialog covers the buttons; none works while loading.
ButtonsWork == here /\ shown # "none" /\ confirm = "none" /\ dialog = "none"
Enabled == ~ Loading

\* Power buttons by the status shown.
Offered(op) ==
  IF op \in {"start", "delete"} THEN shown # "running" ELSE shown = "running"

VMDialogs == Dialogs
ContainerDialogs == Dialogs \ {"reinstall"}
DialogsOffered == IF kind = "vm" THEN VMDialogs ELSE ContainerDialogs

\* handleClose of the dialogs does nothing while they work.
CanClose(d) == phase[d] # "working"

\* A dialog that is open shows its form, the spinner or the outcome, by phase.
Shows(d, p) == dialog = d /\ phase[d] = p

\* usePolling's interval runs as long as the page is mounted.
Polls == here

\* The phase after an answer: try to its end, or catch.
Outcome(ok) == IF ok THEN "done" ELSE "failed"

Use == budget.ops > 0 /\ budget' = [budget EXCEPT !.ops = @ - 1]

Init ==
  /\ kind \in Kinds
  /\ guest \in Statuses
  /\ task = NoTask
  /\ here = TRUE
  /\ shown = "none"
  /\ polls = [a \in Answers |-> 0]
  /\ timer = FALSE
  /\ confirm = "none"
  /\ dialog = "none"
  /\ phase = [d \in Dialogs |-> "confirm"]
  /\ calls = [h \in Handlers |-> "idle"]
  /\ tries = 0
  /\ job = "none"
  /\ wiped = "no" /\ stranded = FALSE
  /\ budget = [ops |-> MaxOps, others |-> MaxOthers, faults |-> MaxFaults]

\* A tick of the interval; the request may fail.
Poll ==
  /\ Polls
  /\ InFlight < MaxPolls
  /\ \/ polls' = Ask(Status) /\ UNCHANGED budget
     \/ Fault /\ Status # "error" /\ polls' = Ask("error")
  /\ UNCHANGED <<kind, guest, task, here, shown, timer, confirm, dialog, phase,
                 calls, tries, job, hist>>

\* An answer, in any order.
Answer(a) ==
  /\ polls[a] > 0
  /\ polls' = [polls EXCEPT ![a] = @ - 1]
  /\ shown' = Applied(a)
  /\ UNCHANGED <<kind, guest, task, here, timer, confirm, dialog, phase, calls,
                 tries, job, hist, budget>>

\* The refresh 1.5 s after an operation was accepted.
Refresh ==
  /\ timer
  /\ timer' = FALSE
  /\ polls' = Ask(Status)
  /\ UNCHANGED <<kind, guest, task, here, shown, confirm, dialog, phase, calls,
                 tries, job, hist, budget>>

\* A power button: start is sent at once, the others ask first.
Press(op) ==
  /\ ButtonsWork /\ Enabled
  /\ Offered(op)
  /\ IF op = "start"
       THEN Use /\ calls' = [calls EXCEPT !["page"] = op] /\ UNCHANGED confirm
       ELSE confirm' = op /\ UNCHANGED <<calls, budget>>
  /\ UNCHANGED <<kind, guest, task, here, shown, polls, timer, dialog, phase,
                 tries, job, hist>>

\* ConfirmDialog's Confirm: onConfirm starts handleAction, then onClose.
Confirmed ==
  /\ confirm # "none"
  /\ Use
  /\ calls' = [calls EXCEPT !["page"] = confirm]
  /\ confirm' = "none"
  /\ UNCHANGED <<kind, guest, task, here, shown, polls, timer, dialog, phase,
                 tries, job, hist>>

\* Cancel, Escape, the X or a click beside the dialog.
Cancelled ==
  /\ confirm # "none"
  /\ confirm' = "none"
  /\ UNCHANGED <<kind, guest, task, here, shown, polls, timer, dialog, phase,
                 calls, tries, job, hist, budget>>

\* handleAction after its request: accepted, refused, or accepted with the
\* answer lost.  After a delete the router leaves the page.
PageAnswered ==
  LET op == calls["page"] IN
    /\ op # "idle"
    /\ calls' = [calls EXCEPT !["page"] = "idle"]
    /\ \/ /\ Accepts(op)
          /\ Launch(op, "page")
          /\ here' = (here /\ op # "delete")
          /\ timer' = (here' /\ (timer \/ op # "delete"))
          /\ UNCHANGED budget
       \/ /\ ~ Accepts(op)
          /\ UNCHANGED <<task, here, timer, budget>>
       \/ /\ Accepts(op) /\ Fault
          /\ UNCHANGED <<here, timer>>
          /\ \/ Launch(op, "page")
             \/ UNCHANGED task
    /\ polls' = IF here' THEN polls ELSE [a \in Answers |-> 0]
    /\ dialog' = IF here' THEN dialog ELSE "none"
    /\ confirm' = IF here' THEN confirm ELSE "none"
    /\ UNCHANGED <<kind, guest, shown, phase, tries, job, hist>>

-----------------------------------------------------------------------------
(* The dialogs *)

Open(d) ==
  /\ ButtonsWork /\ Enabled
  /\ d \in DialogsOffered
  /\ dialog' = d
  /\ UNCHANGED <<kind, guest, task, here, shown, polls, timer, confirm, phase,
                 calls, tries, job, hist, budget>>

\* handleClose: back to the form; onSuccess, a refresh, if it was done.
Close(d) ==
  /\ dialog = d
  /\ CanClose(d)
  /\ dialog' = "none"
  /\ phase' = [phase EXCEPT ![d] = "confirm"]
  /\ polls' = IF phase[d] = "done" THEN Ask(Status) ELSE polls
  /\ UNCHANGED <<kind, guest, task, here, shown, timer, confirm, calls, tries,
                 job, hist, budget>>

\* The form's button.
Submit(d) ==
  /\ Shows(d, "confirm")
  /\ Use
  /\ phase' = [phase EXCEPT ![d] = "working"]
  /\ calls' = [calls EXCEPT ![d] = IF d = "reinstall" THEN "stop" ELSE "sent"]
  /\ tries' = 0
  /\ stranded' = (stranded /\ d # "scale")
  /\ UNCHANGED <<kind, guest, task, here, shown, polls, timer, confirm, dialog,
                 job, wiped>>

\* The handler's request is answered for good.
Ended(d, ok) ==
  /\ calls' = [calls EXCEPT ![d] = "idle"]
  /\ phase' = [phase EXCEPT ![d] = Outcome(ok)]

Goes(d, step) ==
  /\ calls' = [calls EXCEPT ![d] = step]
  /\ UNCHANGED phase

\* A change of the guest's disks.
VolumeAnswered ==
  /\ calls["volume"] = "sent"
  /\ \/ guest # "none" /\ task = NoTask /\ Ended("volume", TRUE)
        /\ UNCHANGED budget
     \/ (guest = "none" \/ task # NoTask) /\ Ended("volume", FALSE)
        /\ UNCHANGED budget
     \/ Fault /\ Ended("volume", FALSE)
  /\ UNCHANGED <<kind, guest, task, here, pageVars, tries, job, hist>>

-----------------------------------------------------------------------------
(* ScaleVM and ScaleContainer *)

scaleRest == <<kind, guest, here, pageVars, tries, job, hist>>

\* The start's error, or its task's, is the handler's.
RestartOk(ok) == ok

\* A container is changed at once, a running VM is stopped first.
ScaleBegins ==
  /\ calls["scale"] = "sent"
  /\ \/ /\ guest = "none" /\ Ended("scale", FALSE) /\ UNCHANGED <<task, budget>>
     \/ /\ kind = "container" /\ guest # "none"
        /\ Ended("scale", TRUE) /\ UNCHANGED <<task, budget>>
     \/ /\ kind = "vm" /\ guest = "stopped"
        /\ Goes("scale", "apply") /\ UNCHANGED <<task, budget>>
     \/ /\ kind = "vm" /\ guest = "running"
        /\ IF Accepts("stop")
             THEN Goes("scale", "stopping") /\ Launch("stop", "scale")
             ELSE Ended("scale", FALSE) /\ UNCHANGED task
        /\ UNCHANGED budget
     \/ /\ Fault /\ Ended("scale", FALSE)
        /\ \/ UNCHANGED task
           \/ kind = "vm" /\ Accepts("stop") /\ Launch("stop", "scale")
  /\ UNCHANGED scaleRest

\* SetVMResources, whatever the status is after the 15 polls.
ScaleApplies ==
  /\ calls["scale"] \in {"apply", "stopped"}
  /\ \/ /\ guest # "none"
        /\ IF calls["scale"] = "apply"
             THEN Ended("scale", TRUE) ELSE Goes("scale", "restart")
        /\ UNCHANGED budget
     \/ guest = "none" /\ Ended("scale", FALSE) /\ UNCHANGED budget
     \/ Fault /\ Ended("scale", FALSE)
  /\ UNCHANGED <<task, scaleRest>>

ScaleRestarts ==
  /\ calls["scale"] = "restart"
  /\ \/ /\ Accepts("start")
        /\ Goes("scale", "starting") /\ Launch("start", "scale")
        /\ UNCHANGED budget
     \/ /\ ~ Accepts("start")
        /\ Ended("scale", RestartOk(FALSE)) /\ UNCHANGED <<task, budget>>
     \/ /\ Fault
        /\ Ended("scale", RestartOk(FALSE))
        /\ (UNCHANGED task \/ (Accepts("start") /\ Launch("start", "scale")))
  /\ UNCHANGED scaleRest

\* WaitForTask gives up after 60 seconds; the task goes on.
ScaleTimesOut ==
  /\ calls["scale"] \in {"stopping", "starting"}
  /\ Ended("scale", FALSE)
  /\ UNCHANGED <<task, budget, scaleRest>>

-----------------------------------------------------------------------------
(* ReinstallModal's handleReinstall *)

reinstallRest == <<kind, guest, here, pageVars, stranded>>

\* The waits: for the status stopped, or an error; for an error alone.
StopSeen == Status \in {"stopped", "error"}
GoneSeen == Status = "error"
LastTry == tries + 1 = MaxTries

\* Whether a wait is over, by the answer or by the number of tries.
StopWaitOver == StopSeen \/ LastTry
GoneWaitOver == GoneSeen \/ LastTry

\* What follows the answer to the delete request.
AfterDelete(ok) == IF ok THEN "waitGone" ELSE "idle"

\* The stop request; its errors are ignored.
ReinstallStops ==
  /\ calls["reinstall"] = "stop"
  /\ \/ Accepts("stop") /\ Launch("stop", "reinstall")
        /\ Goes("reinstall", "waitStop") /\ UNCHANGED budget
     \/ ~ Accepts("stop") /\ Goes("reinstall", "delete")
        /\ UNCHANGED <<task, budget>>
     \/ Accepts("stop") /\ Fault /\ Goes("reinstall", "delete")
        /\ (Launch("stop", "reinstall") \/ UNCHANGED task)
  /\ UNCHANGED <<reinstallRest, tries, job, wiped>>

\* Two seconds later: the guest's status, an error ends the wait.
ReinstallWaits ==
  /\ calls["reinstall"] \in {"waitStop", "waitGone"}
  /\ LET stopping == calls["reinstall"] = "waitStop"
         next == IF stopping THEN "delete" ELSE "provision" IN
       \/ /\ IF stopping THEN StopWaitOver ELSE GoneWaitOver
          /\ Goes("reinstall", next)
          /\ tries' = 0 /\ UNCHANGED budget
       \/ /\ ~ (IF stopping THEN StopWaitOver ELSE GoneWaitOver)
          /\ tries' = IF tries < MaxTries THEN tries + 1 ELSE tries
          /\ UNCHANGED <<calls, phase, budget>>
       \/ /\ Fault
          /\ Goes("reinstall", next) /\ tries' = 0
  /\ UNCHANGED <<task, reinstallRest, job, wiped>>

\* The delete request; an error ends the sequence.
ReinstallDeletes ==
  /\ calls["reinstall"] = "delete"
  /\ LET answered(ok) ==
           /\ calls' = [calls EXCEPT !["reinstall"] = AfterDelete(ok)]
           /\ phase' = IF AfterDelete(ok) = "idle"
                         THEN [phase EXCEPT !["reinstall"] = Outcome(FALSE)]
                         ELSE phase
     IN \/ /\ Accepts("delete") /\ Launch("delete", "reinstall")
           /\ wiped' = "accepted"
           /\ \/ answered(TRUE) /\ UNCHANGED budget
              \/ answered(FALSE) /\ Fault
        \/ /\ ~ Accepts("delete") /\ answered(FALSE)
           /\ UNCHANGED <<task, wiped, budget>>
        \/ /\ Fault /\ answered(FALSE) /\ UNCHANGED <<task, wiped>>
  /\ UNCHANGED <<reinstallRest, tries, job>>

\* The provision request with the old VMID, and addJob.
ReinstallProvisions ==
  /\ calls["reinstall"] = "provision"
  /\ \/ job' = "queued" /\ Ended("reinstall", TRUE) /\ UNCHANGED budget
     \/ Fault /\ Ended("reinstall", FALSE) /\ UNCHANGED job
  /\ UNCHANGED <<task, reinstallRest, tries, wiped>>

-----------------------------------------------------------------------------
(* The rest of the world *)

\* The worker carries the job out: it creates the guest if its VMID is free.
JobRuns ==
  /\ job = "queued"
  /\ job' = "over"
  /\ guest' \in IF guest = "none" THEN {"running", "none"} ELSE {guest}
  /\ UNCHANGED <<kind, task, here, pageVars, phase, calls, tries, hist, budget>>

\* Another user starts or stops the guest.
OthersAct(op) ==
  /\ budget.others > 0
  /\ Accepts(op)
  /\ Launch(op, "others")
  /\ budget' = [budget EXCEPT !.others = @ - 1]
  /\ UNCHANGED <<kind, guest, here, pageVars, phase, calls, tries, job, hist>>

\* A task succeeds or fails; the scaling's WaitForTask hears of its own.
TaskEnds(ok) ==
  /\ task # NoTask
  /\ task' = NoTask
  /\ guest' = IF ok THEN After(task.op) ELSE guest
  /\ IF ok THEN UNCHANGED budget ELSE Fault
  /\ LET waits == /\ task.by = "scale"
                  /\ calls["scale"] = IF task.op = "stop" THEN "stopping"
                                                         ELSE "starting"
     IN IF ~ waits THEN UNCHANGED <<calls, phase>>
        ELSE IF task.op = "stop" /\ ok THEN Goes("scale", "stopped")
        ELSE IF task.op = "stop" THEN Ended("scale", FALSE)
        ELSE Ended("scale", RestartOk(ok))
  /\ stranded' = /\ guest' = "stopped"
                 /\ \/ stranded
                    \/ calls["scale"] = "stopping" /\ task.by = "scale" /\ ok
  /\ wiped' = IF ok /\ task = [op |-> "delete", by |-> "reinstall"]
                THEN "deleted" ELSE wiped
  /\ UNCHANGED <<kind, here, pageVars, tries, job>>

\* The user navigates to another page: handlers go on, states are lost.
Gone ==
  /\ here
  /\ here' = FALSE
  /\ polls' = [a \in Answers |-> 0]
  /\ timer' = FALSE
  /\ confirm' = "none"
  /\ dialog' = "none"
  /\ UNCHANGED <<kind, guest, task, shown, phase, tries, job, hist, budget>>

Leave == Gone /\ UNCHANGED calls

\* A refresh of the page ends the reinstall's sequence where it is.
Reload == Gone /\ calls' = [calls EXCEPT !["reinstall"] = "idle"]

Next ==
  \/ Poll \/ Refresh \/ Confirmed \/ Cancelled \/ PageAnswered
  \/ \E a \in Answers : Answer(a)
  \/ \E op \in PowerOps : Press(op)
  \/ \E d \in Dialogs : Open(d) \/ Close(d) \/ Submit(d)
  \/ VolumeAnswered
  \/ ScaleBegins \/ ScaleApplies \/ ScaleRestarts \/ ScaleTimesOut
  \/ ReinstallStops \/ ReinstallWaits \/ ReinstallDeletes
  \/ ReinstallProvisions
  \/ JobRuns \/ Leave \/ Reload
  \/ \E op \in {"start", "stop"} : OthersAct(op)
  \/ \E ok \in BOOLEAN : TaskEnds(ok)

Spec == Init /\ [][Next]_vars

(***************************************************************************)
(* The interval ticks, requests are answered and the handlers go on: every  *)
(* request of the backend's Proxmox client and every wait is bounded.  No   *)
(* fairness for the user, for other users, or for Proxmox's tasks.          *)
(***************************************************************************)
FairSpec ==
  /\ Spec
  /\ WF_vars(Poll) /\ \A a \in Answers : WF_vars(Answer(a))
  /\ WF_vars(PageAnswered) /\ WF_vars(VolumeAnswered)
  /\ WF_vars(ScaleBegins) /\ WF_vars(ScaleApplies) /\ WF_vars(ScaleRestarts)
  /\ WF_vars(ScaleTimesOut)
  /\ WF_vars(ReinstallStops) /\ WF_vars(ReinstallWaits)
  /\ WF_vars(ReinstallDeletes) /\ WF_vars(ReinstallProvisions)

-----------------------------------------------------------------------------
(* Properties *)

TypeOK ==
  /\ kind \in Kinds
  /\ guest \in Statuses \cup {"none"}
  /\ task \in [op : PowerOps, by : Handlers \cup {"others"}] \cup {NoTask}
  /\ here \in BOOLEAN
  /\ shown \in Statuses \cup {"none"}
  /\ polls \in [Answers -> 0 .. MaxPolls]
  /\ timer \in BOOLEAN
  /\ confirm \in {"none", "stop", "reboot", "delete"}
  /\ dialog \in Dialogs \cup {"none"}
  /\ phase \in [Dialogs -> {"confirm", "working", "done", "failed"}]
  /\ calls \in [Handlers -> PowerOps \cup
                  {"idle", "sent", "stopping", "apply", "stopped", "restart",
                   "starting", "waitStop", "waitGone", "provision"}]
  /\ tries \in 0 .. MaxTries
  /\ job \in {"none", "queued", "over"}
  /\ wiped \in {"no", "accepted", "deleted"}
  /\ stranded \in BOOLEAN
  /\ budget \in [ops : 0 .. MaxOps, others : 0 .. MaxOthers,
                 faults : 0 .. MaxFaults]

\* One visit of the page has at most one operation on the guest under way,
\* although every handler looks after its own only: the buttons' actionLoading,
\* the dialogs' refusal to close while they work and the overlay add up.
OneOperation == Cardinality({h \in Handlers : calls[h] # "idle"}) <= 1

\* A scaling that stopped the VM and did not get it running again is not
\* reported as done (ScaleVM, handleScale).
StoppedIsTold == Shows("scale", "done") => ~ stranded

\* Polls overlap and their answers come in any order, yet the page shows the
\* guest's status in the end if it stays the same (usePolling).
StatusConverges ==
  \A s \in Statuses : <>[](guest = s /\ here) => <>[](shown = s)

\* Every operation is over in the end, also if the Proxmox task it waits for
\* never ends.
OperationsEnd == \A h \in Handlers : calls[h] # "idle" ~> calls[h] = "idle"

\* Once the old guest's deletion is accepted, the reinstall goes on until a job
\* is there for the new one or the dialog says that it failed, as long as the
\* page stays open.
DeletedIsTold ==
  wiped # "no" /\ phase["reinstall"] = "working"
    ~> \/ job # "none"
       \/ Shows("reinstall", "failed")
       \/ ~ here
=============================================================================
