-------------------------- MODULE GuestPage_proofs --------------------------
(***************************************************************************)
(* Theorems about GuestPage for both pages and every number of operations,  *)
(* other users' operations, faults, polls and tries.                        *)
(***************************************************************************)
EXTENDS GuestPage, FiniteSetTheorems, TLAPS

-----------------------------------------------------------------------------
(* The invariant *)

Phases == {"confirm", "working", "done", "failed"}
CallStates ==
  PowerOps \cup {"idle", "sent", "stopping", "apply", "stopped", "restart",
                 "starting", "waitStop", "waitGone", "provision"}
Tasks == [op : PowerOps, by : Handlers \cup {"others"}] \cup {NoTask}
Budgets == [ops : 0 .. MaxOps, others : 0 .. MaxOthers, faults : 0 .. MaxFaults]

WorldInv ==
  /\ kind \in Kinds
  /\ guest \in Statuses \cup {"none"}
  /\ task \in Tasks
  /\ tries \in 0 .. MaxTries
  /\ job \in {"none", "queued", "over"}
  /\ wiped \in {"no", "accepted", "deleted"}
  /\ stranded \in BOOLEAN
  /\ budget \in Budgets

PageInv ==
  /\ here \in BOOLEAN /\ timer \in BOOLEAN
  /\ shown \in Statuses \cup {"none"}
  /\ polls \in [Answers -> 0 .. MaxPolls]
  /\ confirm \in {"none", "stop", "reboot", "delete"}
  /\ dialog \in Dialogs \cup {"none"}

CallsInv ==
  /\ phase \in [Dialogs -> Phases]
  /\ calls \in [Handlers -> CallStates]
  /\ calls["page"] \in PowerOps \cup {"idle"}

TypeInv == WorldInv /\ PageInv /\ CallsInv

Busy(h) == calls[h] # "idle"

\* One place of the page is in use at a time: the power buttons' request, the
\* confirmation or a dialog; what is at work is in that place or was left there.
OneInv ==
  /\ ~ here => confirm = "none" /\ dialog = "none"
  /\ here /\ Busy("page") => confirm = "none" /\ dialog = "none"
  /\ confirm # "none" => dialog = "none"
  /\ \A d \in Dialogs :
       Busy(d) => phase[d] = "working" /\ (here => dialog = d)
  /\ \A g, h \in Handlers : Busy(g) /\ Busy(h) => g = h

\* A VM that the scaling stopped and that does not run: the scaling is still at
\* it, past its first steps, or has not ended well.
StrandedInv ==
  stranded => \/ calls["scale"] \in {"stopping", "stopped", "restart", "starting"}
              \/ ~ Busy("scale") /\ phase["scale"] # "done"

Inv == TypeInv /\ OneInv /\ StrandedInv

-----------------------------------------------------------------------------
(* TypeInv *)

\* What the bounds leave after a fault, an operation, another user's operation.
LEMMA BudgetType ==
  ASSUME WorldInv
  PROVE  /\ Fault => budget' \in Budgets
         /\ Use => budget' \in Budgets
         /\ budget.others > 0 => [budget EXCEPT !.others = @ - 1] \in Budgets
  <1> DEFINE ops == budget.ops
             others == budget.others
             faults == budget.faults
  <1>1. ops \in 0 .. MaxOps /\ others \in 0 .. MaxOthers /\ faults \in 0 .. MaxFaults
    BY DEF WorldInv, Budgets
  <1>2. budget = [ops |-> ops, others |-> others, faults |-> faults]
    BY DEF WorldInv, Budgets
  <1>3. ASSUME NEW n \in Nat, NEW m \in 0 .. n, m > 0
        PROVE  m - 1 \in 0 .. n
    BY <1>3
  <1>4. MaxOps \in Nat /\ MaxOthers \in Nat /\ MaxFaults \in Nat
    BY PageAssumption
  <1>5. faults > 0 => [budget EXCEPT !.faults = @ - 1] \in Budgets
    BY <1>1, <1>2, <1>3, <1>4 DEF Budgets
  <1>6. ops > 0 => [budget EXCEPT !.ops = @ - 1] \in Budgets
    BY <1>1, <1>2, <1>3, <1>4 DEF Budgets
  <1>7. others > 0 => [budget EXCEPT !.others = @ - 1] \in Budgets
    BY <1>1, <1>2, <1>3, <1>4 DEF Budgets
  <1> QED
    BY <1>5, <1>6, <1>7 DEF Fault, Use

\* One more request for the status, within the bound.
LEMMA AskType ==
  ASSUME PageInv, NEW a \in Answers
  PROVE  Ask(a) \in [Answers -> 0 .. MaxPolls]
  <1>1. /\ polls["running"] \in 0 .. MaxPolls /\ polls["stopped"] \in 0 .. MaxPolls
        /\ polls["error"] \in 0 .. MaxPolls /\ MaxPolls \in Nat
    BY PageAssumption DEF PageInv, Answers, Statuses
  <1>2. CASE InFlight < MaxPolls
    <2>1. polls[a] + 1 \in 0 .. MaxPolls
      BY <1>1, <1>2 DEF InFlight, Answers, Statuses
    <2> QED
      BY <1>2, <2>1 DEF Ask, PageInv
  <1>3. CASE ~ (InFlight < MaxPolls)
    BY <1>3 DEF Ask, PageInv
  <1> QED
    BY <1>2, <1>3

\* What GET status answers.
LEMMA StatusType == WorldInv => Status \in Answers
  BY DEF WorldInv, Status, Answers, Statuses

\* A task that Proxmox starts.
LEMMA LaunchType ==
  ASSUME NEW op \in PowerOps, NEW by \in Handlers \cup {"others"}, Launch(op, by)
  PROVE  task' \in Tasks
  BY DEF Launch, Tasks

\* A handler that goes on or ends.
LEMMA CallType ==
  ASSUME CallsInv, NEW d \in Dialogs, NEW v \in CallStates
  PROVE  /\ Goes(d, v) => CallsInv'
         /\ Ended(d, TRUE) => CallsInv'
         /\ Ended(d, FALSE) => CallsInv'
         /\ UNCHANGED phase /\ calls' = [calls EXCEPT ![d] = v] => CallsInv'
  <1>1. d \in Handlers /\ d # "page" /\ "page" \in Handlers /\ "idle" \in CallStates
    BY DEF Handlers, Dialogs, CallStates
  <1>2. ASSUME NEW w \in CallStates, calls' = [calls EXCEPT ![d] = w],
               phase' \in [Dialogs -> Phases]
        PROVE  CallsInv'
    BY <1>1, <1>2 DEF CallsInv
  <1>3. ASSUME NEW q \in Phases, phase' = [phase EXCEPT ![d] = q]
        PROVE  phase' \in [Dialogs -> Phases]
    BY <1>3 DEF CallsInv
  <1>4. Outcome(TRUE) \in Phases /\ Outcome(FALSE) \in Phases
    BY DEF Outcome, Phases
  <1>5. UNCHANGED phase => phase' \in [Dialogs -> Phases]
    BY DEF CallsInv
  <1> QED
    BY <1>1, <1>2, <1>3, <1>4, <1>5 DEF Goes, Ended

\* What a step leaves alone keeps its type.
LEMMA WorldKept ==
  ASSUME WorldInv, UNCHANGED <<kind, guest, task, tries, job, hist>>, budget' \in Budgets
  PROVE  WorldInv'
  BY DEF WorldInv, hist

\* A step that leaves the page's state alone keeps what is known of it.
LEMMA PageKept ==
  ASSUME PageInv, UNCHANGED <<here, pageVars>>
  PROVE  PageInv'
  BY DEF PageInv, pageVars

\* A step that leaves the handlers and their calls alone keeps what is known of them.
LEMMA CallsKept ==
  ASSUME CallsInv, UNCHANGED <<phase, calls>>
  PROVE  CallsInv'
  BY DEF CallsInv

\* The types hold at the start.
LEMMA InitType == Init => TypeInv
  <1> SUFFICES ASSUME Init PROVE TypeInv
    OBVIOUS
  <1>1. WorldInv
    <2>1. budget \in Budgets /\ 0 \in 0 .. MaxTries
      BY PageAssumption DEF Init, Budgets
    <2> QED
      BY <2>1 DEF Init, WorldInv, Statuses, Tasks
  <1>2. PageInv
    <2>1. 0 \in 0 .. MaxPolls
      BY PageAssumption
    <2> QED
      BY <2>1 DEF Init, PageInv
  <1>3. CallsInv
    BY DEF Init, CallsInv, Phases, CallStates, Handlers
  <1> QED
    BY <1>1, <1>2, <1>3 DEF TypeInv

\* Proxmox, the histories and the bounds.
LEMMA WorldStep ==
  ASSUME TypeInv, [Next]_vars
  PROVE  WorldInv'
  <1>0. WorldInv /\ budget \in Budgets
    BY DEF TypeInv, WorldInv
  <1> USE <1>0, BudgetType
  <1>1. CASE Poll \/ Refresh \/ Confirmed \/ Cancelled
    BY <1>1, WorldKept DEF Poll, Refresh, Confirmed, Cancelled
  <1>2. ASSUME NEW a \in Answers, Answer(a)
        PROVE  WorldInv'
    BY <1>2, WorldKept DEF Answer
  <1>3. ASSUME NEW op \in PowerOps, Press(op)
        PROVE  WorldInv'
    BY <1>3, WorldKept DEF Press
  <1>4. CASE PageAnswered
    <2>1. budget' \in Budgets
      BY <1>4 DEF PageAnswered
    <2>2. task' \in Tasks
      <3>1. CASE UNCHANGED task
        BY <3>1 DEF WorldInv
      <3>2. CASE Accepts(calls["page"]) /\ Launch(calls["page"], "page")
        <4>1. calls["page"] \in PowerOps
          BY <1>4 DEF PageAnswered, TypeInv, CallsInv
        <4> QED
          BY <3>2, <4>1, LaunchType DEF Handlers
      <3> QED
        BY <1>4, <3>1, <3>2 DEF PageAnswered
    <2>3. UNCHANGED <<kind, guest, tries, job, hist>>
      BY <1>4 DEF PageAnswered
    <2> QED
      BY <2>1, <2>2, <2>3 DEF WorldInv, hist
  <1>5. ASSUME NEW d \in Dialogs, Open(d) \/ Close(d)
        PROVE  WorldInv'
    BY <1>5, WorldKept DEF Open, Close
  <1>6. ASSUME NEW d \in Dialogs, Submit(d)
        PROVE  WorldInv'
    <2>1. budget' \in Budgets /\ stranded' \in BOOLEAN /\ tries' \in 0 .. MaxTries
      BY <1>6, PageAssumption DEF Submit
    <2> QED
      BY <1>6, <2>1 DEF Submit, WorldInv
  <1>7. CASE VolumeAnswered \/ ScaleApplies \/ ScaleTimesOut
    BY <1>7, WorldKept DEF VolumeAnswered, ScaleApplies, ScaleTimesOut, scaleRest
  <1>8. CASE ScaleBegins \/ ScaleRestarts
    <2>1. budget' \in Budgets
      BY <1>8 DEF ScaleBegins, ScaleRestarts
    <2>2. task' \in Tasks
      <3>1. CASE UNCHANGED task
        BY <3>1 DEF WorldInv
      <3>2. CASE Launch("stop", "scale") \/ Launch("start", "scale")
        BY <3>2, LaunchType DEF PowerOps, Handlers, Dialogs
      <3> QED
        BY <1>8, <3>1, <3>2 DEF ScaleBegins, ScaleRestarts
    <2> QED
      BY <1>8, <2>1, <2>2 DEF ScaleBegins, ScaleRestarts, scaleRest, WorldInv, hist
  <1>9. CASE ReinstallStops
    <2>1. budget' \in Budgets
      BY <1>9 DEF ReinstallStops
    <2>2. task' \in Tasks
      <3>1. CASE UNCHANGED task
        BY <3>1 DEF WorldInv
      <3>2. CASE Launch("stop", "reinstall")
        BY <3>2, LaunchType DEF PowerOps, Handlers, Dialogs
      <3> QED
        BY <1>9, <3>1, <3>2 DEF ReinstallStops
    <2> QED
      BY <1>9, <2>1, <2>2 DEF ReinstallStops, reinstallRest, WorldInv
  <1>10. CASE ReinstallWaits
    <2>1. budget' \in Budgets
      BY <1>10 DEF ReinstallWaits
    <2>2. tries' \in 0 .. MaxTries
      BY <1>10, PageAssumption DEF ReinstallWaits, WorldInv
    <2> QED
      BY <1>10, <2>1, <2>2 DEF ReinstallWaits, reinstallRest, WorldInv
  <1>11. CASE ReinstallDeletes
    <2>1. budget' \in Budgets
      BY <1>11 DEF ReinstallDeletes
    <2>2. task' \in Tasks
      <3>1. CASE UNCHANGED task
        BY <3>1 DEF WorldInv
      <3>2. CASE Launch("delete", "reinstall")
        BY <3>2, LaunchType DEF PowerOps, Handlers, Dialogs
      <3> QED
        BY <1>11, <3>1, <3>2 DEF ReinstallDeletes
    <2>3. wiped' \in {"no", "accepted", "deleted"}
      BY <1>11 DEF ReinstallDeletes, WorldInv
    <2> QED
      BY <1>11, <2>1, <2>2, <2>3 DEF ReinstallDeletes, reinstallRest, WorldInv
  <1>12. CASE ReinstallProvisions
    <2>1. budget' \in Budgets
      BY <1>12 DEF ReinstallProvisions
    <2> QED
      BY <1>12, <2>1 DEF ReinstallProvisions, reinstallRest, WorldInv
  <1>13. CASE JobRuns
    BY <1>13 DEF JobRuns, WorldInv, hist, Statuses
  <1>14. CASE Leave \/ Reload \/ UNCHANGED vars
    BY <1>14, WorldKept DEF Leave, Reload, Gone, vars
  <1>15. ASSUME NEW op \in {"start", "stop"}, OthersAct(op)
         PROVE  WorldInv'
    <2>1. budget' \in Budgets
      BY <1>15 DEF OthersAct
    <2>2. task' \in Tasks
      BY <1>15, LaunchType DEF OthersAct, PowerOps
    <2> QED
      BY <1>15, <2>1, <2>2 DEF OthersAct, WorldInv, hist
  <1>16. ASSUME NEW ok \in BOOLEAN, TaskEnds(ok)
         PROVE  WorldInv'
    <2>1. budget' \in Budgets
      BY <1>16 DEF TaskEnds
    <2>2. task' = NoTask /\ guest' \in Statuses \cup {"none"}
      <3>1. task # NoTask => task.op \in PowerOps
        BY DEF WorldInv, Tasks
      <3> QED
        BY <1>16, <3>1 DEF TaskEnds, After, WorldInv, PowerOps, Statuses
    <2>3. stranded' \in BOOLEAN
      BY <1>16 DEF TaskEnds
    <2>4. wiped' \in {"no", "accepted", "deleted"}
      BY <1>16 DEF TaskEnds, WorldInv
    <2> QED
      BY <1>16, <2>1, <2>2, <2>3, <2>4 DEF TaskEnds, WorldInv, Tasks
  <1> QED
    BY <1>1, <1>2, <1>3, <1>4, <1>5, <1>6, <1>7, <1>8, <1>9, <1>10, <1>11, <1>12,
       <1>13, <1>14, <1>15, <1>16 DEF Next

\* The page.
LEMMA PageStep ==
  ASSUME TypeInv, [Next]_vars
  PROVE  PageInv'
  <1>0. PageInv /\ Status \in Answers
    BY StatusType DEF TypeInv
  <1> USE <1>0
  <1>1. ASSUME NEW a \in Answers, polls' = Ask(a)
        PROVE  polls' \in [Answers -> 0 .. MaxPolls]
    BY <1>1, AskType
  <1>2. CASE Poll
    <2>1. polls' \in [Answers -> 0 .. MaxPolls]
      BY <1>1, <1>2 DEF Poll, Answers
    <2> QED
      BY <1>2, <2>1 DEF Poll, PageInv
  <1>3. CASE Refresh
    <2>1. polls' \in [Answers -> 0 .. MaxPolls]
      BY <1>1, <1>3 DEF Refresh
    <2> QED
      BY <1>3, <2>1 DEF Refresh, PageInv
  <1>4. ASSUME NEW a \in Answers, Answer(a)
        PROVE  PageInv'
    <2>1. polls' \in [Answers -> 0 .. MaxPolls]
      <3>1. polls[a] \in 0 .. MaxPolls /\ polls[a] > 0 /\ MaxPolls \in Nat
        BY <1>4, PageAssumption DEF Answer, PageInv
      <3>2. polls[a] - 1 \in 0 .. MaxPolls
        BY <3>1
      <3> QED
        BY <1>4, <3>2 DEF Answer, PageInv
    <2>2. shown' \in Statuses \cup {"none"}
      BY <1>4 DEF Answer, Applied, PageInv, Answers
    <2> QED
      BY <1>4, <2>1, <2>2 DEF Answer, PageInv
  <1>5. CASE Confirmed \/ Cancelled
    BY <1>5 DEF Confirmed, Cancelled, PageInv
  <1>6. ASSUME NEW op \in PowerOps, Press(op)
        PROVE  PageInv'
    BY <1>6 DEF Press, PageInv, PowerOps
  <1>7. CASE PageAnswered
    <2>1. here' \in BOOLEAN /\ timer' \in BOOLEAN
      BY <1>7 DEF PageAnswered, PageInv
    <2>2. polls' \in [Answers -> 0 .. MaxPolls]
      <3>1. 0 \in 0 .. MaxPolls
        BY PageAssumption
      <3> QED
        BY <1>7, <3>1 DEF PageAnswered, PageInv
    <2> QED
      BY <1>7, <2>1, <2>2 DEF PageAnswered, PageInv
  <1>8. ASSUME NEW d \in Dialogs, Open(d) \/ Submit(d)
        PROVE  PageInv'
    BY <1>8 DEF Open, Submit, PageInv
  <1>9. ASSUME NEW d \in Dialogs, Close(d)
        PROVE  PageInv'
    <2>1. polls' \in [Answers -> 0 .. MaxPolls]
      BY <1>1, <1>9 DEF Close, PageInv
    <2> QED
      BY <1>9, <2>1 DEF Close, PageInv
  <1>10. CASE \/ VolumeAnswered \/ ScaleBegins \/ ScaleApplies \/ ScaleRestarts
              \/ ScaleTimesOut
    BY <1>10, PageKept DEF VolumeAnswered, ScaleBegins, ScaleApplies, ScaleRestarts,
                           ScaleTimesOut, scaleRest
  <1>11. CASE \/ ReinstallStops \/ ReinstallWaits \/ ReinstallDeletes
              \/ ReinstallProvisions
    BY <1>11, PageKept DEF ReinstallStops, ReinstallWaits, ReinstallDeletes,
                           ReinstallProvisions, reinstallRest
  <1>12. CASE \/ JobRuns \/ UNCHANGED vars
              \/ \E op \in {"start", "stop"} : OthersAct(op)
              \/ \E ok \in BOOLEAN : TaskEnds(ok)
    BY <1>12, PageKept DEF JobRuns, OthersAct, TaskEnds, vars
  <1>13. CASE Leave \/ Reload
    <2>1. 0 \in 0 .. MaxPolls
      BY PageAssumption
    <2> QED
      BY <1>13, <2>1 DEF Leave, Reload, Gone, PageInv
  <1> QED
    BY <1>2, <1>3, <1>4, <1>5, <1>6, <1>7, <1>8, <1>9, <1>10, <1>11, <1>12, <1>13
       DEF Next

\* The phases of the dialogs and what the handlers await.
LEMMA CallsStep ==
  ASSUME TypeInv, [Next]_vars
  PROVE  CallsInv'
  <1>0. CallsInv
    BY DEF TypeInv
  <1> USE <1>0
  <1>1. ASSUME NEW v \in PowerOps \cup {"idle"}, UNCHANGED phase,
               calls' = [calls EXCEPT !["page"] = v]
        PROVE  CallsInv'
    <2>1. v \in CallStates /\ "page" \in Handlers
      BY DEF CallStates, Handlers
    <2> QED
      BY <1>1, <2>1 DEF CallsInv
  <1>2. ASSUME NEW d \in Dialogs, Ended(d, TRUE) \/ Ended(d, FALSE)
        PROVE  CallsInv'
    BY <1>2, CallType DEF CallStates
  <1>3. ASSUME NEW d \in Dialogs, NEW v \in CallStates, Goes(d, v)
        PROVE  CallsInv'
    BY <1>3, CallType
  <1>4. CASE Poll \/ Refresh \/ Cancelled \/ JobRuns \/ Leave \/ UNCHANGED vars
    BY <1>4, CallsKept DEF Poll, Refresh, Cancelled, JobRuns, Leave, Gone, vars
  <1>5. CASE \/ \E a \in Answers : Answer(a)
             \/ \E op \in {"start", "stop"} : OthersAct(op)
             \/ \E d \in Dialogs : Open(d)
    BY <1>5, CallsKept DEF Answer, OthersAct, Open
  <1>6. ASSUME NEW op \in PowerOps, Press(op)
        PROVE  CallsInv'
    BY <1>1, <1>6, CallsKept DEF Press
  <1>7. CASE Confirmed
    <2>1. confirm \in PowerOps
      BY <1>7 DEF Confirmed, TypeInv, PageInv, PowerOps
    <2> QED
      BY <1>1, <1>7, <2>1 DEF Confirmed
  <1>8. CASE PageAnswered
    BY <1>1, <1>8 DEF PageAnswered
  <1>9. ASSUME NEW d \in Dialogs, Close(d)
        PROVE  CallsInv'
    BY <1>9 DEF Close, CallsInv, Phases
  <1>10. ASSUME NEW d \in Dialogs, Submit(d)
         PROVE  CallsInv'
    <2>1. d \in Handlers /\ d # "page" /\ "page" \in Handlers
      BY DEF Handlers, Dialogs
    <2> QED
      BY <1>10, <2>1 DEF Submit, CallsInv, Phases, CallStates, PowerOps
  <1>11. CASE VolumeAnswered
    BY <1>2, <1>11 DEF VolumeAnswered, Dialogs
  <1>12. CASE ScaleBegins \/ ScaleApplies \/ ScaleRestarts \/ ScaleTimesOut
    <2>1. \/ Ended("scale", TRUE) \/ Ended("scale", FALSE)
          \/ \E v \in CallStates : Goes("scale", v)
      BY <1>12 DEF ScaleBegins, ScaleApplies, ScaleRestarts, ScaleTimesOut, RestartOk,
                   CallStates
    <2> QED
      BY <1>2, <1>3, <2>1 DEF Dialogs
  <1>13. CASE ReinstallStops \/ ReinstallProvisions
    <2>1. \/ Ended("reinstall", TRUE) \/ Ended("reinstall", FALSE)
          \/ \E v \in CallStates : Goes("reinstall", v)
      BY <1>13 DEF ReinstallStops, ReinstallProvisions, CallStates, PowerOps
    <2> QED
      BY <1>2, <1>3, <2>1 DEF Dialogs
  <1>14. CASE ReinstallWaits
    <2>1. \/ UNCHANGED <<calls, phase>>
          \/ \E v \in CallStates : Goes("reinstall", v)
      BY <1>14 DEF ReinstallWaits, CallStates, PowerOps
    <2> QED
      BY <1>3, <2>1, CallsKept DEF Dialogs
  <1>15. CASE ReinstallDeletes
    <2>1. \/ Ended("reinstall", FALSE)
          \/ Goes("reinstall", "waitGone")
      BY <1>15 DEF ReinstallDeletes, AfterDelete, Ended, Goes
    <2> QED
      BY <1>2, <1>3, <2>1 DEF Dialogs, CallStates
  <1>16. ASSUME NEW ok \in BOOLEAN, TaskEnds(ok)
         PROVE  CallsInv'
    <2>1. \/ UNCHANGED <<calls, phase>>
          \/ Goes("scale", "stopped")
          \/ Ended("scale", TRUE) \/ Ended("scale", FALSE)
      BY <1>16 DEF TaskEnds, RestartOk
    <2> QED
      BY <1>2, <1>3, <2>1, CallsKept DEF Dialogs, CallStates
  <1>17. CASE Reload
    <2>1. /\ UNCHANGED phase
          /\ calls' = [calls EXCEPT !["reinstall"] = "idle"]
      BY <1>17 DEF Reload, Gone
    <2> QED
      BY <2>1, CallType DEF Dialogs, CallStates
  <1> QED
    BY <1>4, <1>5, <1>6, <1>7, <1>8, <1>9, <1>10, <1>11, <1>12, <1>13, <1>14, <1>15,
       <1>16, <1>17 DEF Next

\* Every step keeps the types.
LEMMA TypeStep == TypeInv /\ [Next]_vars => TypeInv'
  BY WorldStep, PageStep, CallsStep DEF TypeInv

\* The types of the variables (TypeOK).
THEOREM TypeCorrect == Spec => []TypeOK
  <1>1. TypeInv => TypeOK
    BY DEF TypeInv, WorldInv, PageInv, CallsInv, TypeOK, Phases, CallStates, Tasks,
           Budgets
  <1> QED
    BY InitType, TypeStep, <1>1, PTL DEF Spec

-----------------------------------------------------------------------------
(* One operation at a time *)

\* What a step leaves alone keeps OneInv.
LEMMA OneKept ==
  ASSUME OneInv, UNCHANGED <<here, confirm, dialog, phase, calls>>
  PROVE  OneInv'
  BY DEF OneInv, Busy

\* A handler at work that goes on or ends.
LEMMA OneWorks ==
  ASSUME CallsInv, OneInv, NEW d \in Dialogs, Busy(d),
         UNCHANGED <<here, confirm, dialog>>,
         \/ Ended(d, TRUE) \/ Ended(d, FALSE) \/ \E v \in CallStates : Goes(d, v)
  PROVE  OneInv'
  <1>1. d \in Handlers /\ d # "page" /\ Dialogs \subseteq Handlers
    BY DEF Handlers, Dialogs
  <1>2. \A h \in Handlers : h # d => calls'[h] = calls[h]
    BY <1>1 DEF CallsInv, Ended, Goes
  <1>3. \A e \in Dialogs : e # d => phase'[e] = phase[e]
    BY <1>1 DEF CallsInv, Ended, Goes
  <1>4. \A h \in Handlers : Busy(h)' => Busy(h)
    BY <1>2 DEF Busy
  <1>5. Busy(d)' => phase'[d] = phase[d]
    BY <1>1 DEF CallsInv, Ended, Goes, Busy
  <1>6. \A e \in Dialogs : Busy(e)' => phase'[e] = "working" /\ (here' => dialog' = e)
    BY <1>1, <1>3, <1>4, <1>5 DEF OneInv
  <1>7. here' /\ Busy("page")' => confirm' = "none" /\ dialog' = "none"
    BY <1>4 DEF OneInv, Handlers
  <1> QED
    BY <1>4, <1>6, <1>7 DEF OneInv

\* The scaling goes on or ends.
LEMMA ScaleWorks ==
  \/ ScaleBegins \/ ScaleApplies \/ ScaleRestarts \/ ScaleTimesOut
    => /\ Busy("scale") /\ UNCHANGED <<here, confirm, dialog>>
       /\ \/ Ended("scale", TRUE) \/ Ended("scale", FALSE)
          \/ \E v \in CallStates : Goes("scale", v)
  <1> SUFFICES ASSUME \/ ScaleBegins \/ ScaleApplies \/ ScaleRestarts
                      \/ ScaleTimesOut
               PROVE  /\ Busy("scale") /\ UNCHANGED <<here, confirm, dialog>>
                      /\ \/ Ended("scale", TRUE) \/ Ended("scale", FALSE)
                         \/ \E v \in CallStates : Goes("scale", v)
    OBVIOUS
  <1>1. Busy("scale") /\ UNCHANGED <<here, confirm, dialog>>
    BY DEF ScaleBegins, ScaleApplies, ScaleRestarts, ScaleTimesOut, Busy, scaleRest,
           pageVars
  <1>2. \/ Ended("scale", TRUE) \/ Ended("scale", FALSE)
        \/ \E v \in CallStates : Goes("scale", v)
    BY DEF ScaleBegins, ScaleApplies, ScaleRestarts, ScaleTimesOut, RestartOk, CallStates
  <1> QED
    BY <1>1, <1>2

\* The reinstall goes on or ends.
LEMMA ReinstallWorks ==
  \/ ReinstallStops \/ ReinstallWaits \/ ReinstallDeletes \/ ReinstallProvisions
    => /\ Busy("reinstall") /\ UNCHANGED <<here, confirm, dialog, stranded>>
       /\ \/ UNCHANGED <<calls, phase>>
          \/ Ended("reinstall", TRUE) \/ Ended("reinstall", FALSE)
          \/ \E v \in CallStates : Goes("reinstall", v)
  <1> SUFFICES ASSUME \/ ReinstallStops \/ ReinstallWaits \/ ReinstallDeletes
                      \/ ReinstallProvisions
               PROVE  /\ Busy("reinstall")
                      /\ UNCHANGED <<here, confirm, dialog, stranded>>
                      /\ \/ UNCHANGED <<calls, phase>>
                         \/ Ended("reinstall", TRUE) \/ Ended("reinstall", FALSE)
                         \/ \E v \in CallStates : Goes("reinstall", v)
    OBVIOUS
  <1>1. Busy("reinstall") /\ UNCHANGED <<here, confirm, dialog, stranded>>
    BY DEF ReinstallStops, ReinstallWaits, ReinstallDeletes, ReinstallProvisions, Busy,
           reinstallRest, pageVars
  <1>2. CASE ReinstallStops \/ ReinstallWaits \/ ReinstallProvisions
    BY <1>1, <1>2 DEF ReinstallStops, ReinstallWaits, ReinstallProvisions, CallStates,
                      PowerOps
  <1>3. CASE ReinstallDeletes
    <2>1. Ended("reinstall", FALSE) \/ Goes("reinstall", "waitGone")
      BY <1>3 DEF ReinstallDeletes, AfterDelete, Ended, Goes
    <2> QED
      BY <1>1, <2>1 DEF CallStates
  <1> QED
    BY <1>2, <1>3

\* The end of a task lets the scaling go on, or nothing.
LEMMA TaskWorks ==
  ASSUME NEW ok \in BOOLEAN, TaskEnds(ok)
  PROVE  /\ UNCHANGED <<here, confirm, dialog>>
         /\ \/ UNCHANGED <<calls, phase>>
            \/ Busy("scale") /\ ( \/ Ended("scale", TRUE) \/ Ended("scale", FALSE)
                                  \/ \E v \in CallStates : Goes("scale", v))
  <1>1. UNCHANGED <<here, confirm, dialog>>
    BY DEF TaskEnds, pageVars
  <1>2. \/ UNCHANGED <<calls, phase>>
        \/ /\ calls["scale"] \in {"stopping", "starting"}
           /\ \/ Goes("scale", "stopped")
              \/ Ended("scale", TRUE) \/ Ended("scale", FALSE)
    BY DEF TaskEnds, RestartOk
  <1> QED
    BY <1>1, <1>2 DEF Busy, CallStates

\* One operation, in the place of the page that is in use.
LEMMA OneStep ==
  ASSUME TypeInv, OneInv, [Next]_vars
  PROVE  OneInv'
  <1>0. CallsInv /\ Dialogs \subseteq Handlers /\ "page" \in Handlers \ Dialogs
        /\ Handlers = Dialogs \cup {"page"} /\ "none" \notin Dialogs
    BY DEF TypeInv, Handlers, Dialogs
  <1>1. here /\ dialog = "none" => \A d \in Dialogs : ~ Busy(d)
    BY <1>0 DEF OneInv
  <1>2. CASE \/ Poll \/ Refresh \/ JobRuns \/ UNCHANGED vars
             \/ \E a \in Answers : Answer(a)
             \/ \E op \in {"start", "stop"} : OthersAct(op)
    BY <1>2, OneKept DEF Poll, Refresh, JobRuns, Answer, OthersAct, vars, pageVars
  <1>3. ASSUME NEW op \in PowerOps, Press(op)
        PROVE  OneInv'
    <2>1. \A h \in Handlers : ~ Busy(h)
      BY <1>0, <1>1, <1>3 DEF Press, ButtonsWork, Enabled, Loading, Busy
    <2>2. UNCHANGED <<here, dialog, phase>> /\ here /\ dialog = "none"
      BY <1>3 DEF Press, ButtonsWork
    <2>3. CASE calls' = [calls EXCEPT !["page"] = op] /\ confirm' = "none"
      <3>1. \A h \in Handlers : Busy(h)' => h = "page"
        BY <1>0, <2>1, <2>3 DEF Busy, CallsInv
      <3> QED
        BY <1>0, <2>2, <2>3, <3>1 DEF OneInv
    <2>4. CASE UNCHANGED calls
      BY <1>0, <2>1, <2>2, <2>4 DEF OneInv, Busy
    <2> QED
      BY <1>3, <2>3, <2>4 DEF Press, ButtonsWork
  <1>4. CASE Confirmed
    <2>1. here /\ dialog = "none" /\ ~ Busy("page")
      BY <1>4 DEF Confirmed, OneInv
    <2>2. \A h \in Handlers : Busy(h)' => h = "page"
      BY <1>0, <1>1, <1>4, <2>1 DEF Confirmed, Busy, CallsInv
    <2> QED
      BY <1>0, <1>4, <2>1, <2>2 DEF Confirmed, OneInv
  <1>5. CASE Cancelled
    BY <1>5 DEF Cancelled, OneInv, Busy
  <1>6. CASE PageAnswered
    <2>1. ~ Busy("page")' /\ \A d \in Dialogs : calls'[d] = calls[d]
      BY <1>0, <1>6 DEF PageAnswered, Busy, CallsInv
    <2>2. \A h \in Handlers : Busy(h)' => Busy(h)
      BY <1>0, <2>1 DEF Busy
    <2>3. UNCHANGED phase /\ (here' => here)
          /\ (here' => UNCHANGED <<dialog, confirm>>)
          /\ (~ here' => dialog' = "none" /\ confirm' = "none")
      BY <1>6 DEF PageAnswered, TypeInv, PageInv
    <2> QED
      BY <1>0, <2>1, <2>2, <2>3 DEF OneInv
  <1>7. ASSUME NEW d \in Dialogs, Open(d)
        PROVE  OneInv'
    <2>1. here /\ ~ Busy("page") /\ dialog = "none" /\ confirm = "none"
      BY <1>7 DEF Open, ButtonsWork, Enabled, Loading, Busy
    <2>2. \A h \in Handlers : ~ Busy(h)'
      BY <1>0, <1>1, <1>7, <2>1 DEF Open, Busy
    <2> QED
      BY <1>0, <1>7, <2>1, <2>2 DEF Open, OneInv
  <1>8. ASSUME NEW d \in Dialogs, Close(d)
        PROVE  OneInv'
    <2>1. here /\ dialog = d /\ phase[d] # "working" /\ confirm = "none"
      BY <1>0, <1>8 DEF Close, CanClose, OneInv
    <2>2. \A h \in Handlers : ~ Busy(h)
      BY <1>0, <2>1 DEF OneInv
    <2> QED
      BY <1>0, <1>8, <2>1, <2>2 DEF Close, OneInv, Busy
  <1>9. ASSUME NEW d \in Dialogs, Submit(d)
        PROVE  OneInv'
    <2>1. here /\ dialog = d /\ phase[d] = "confirm" /\ confirm = "none"
      BY <1>0, <1>9 DEF Submit, Shows, OneInv
    <2>2. \A h \in Handlers : ~ Busy(h)
      BY <1>0, <2>1 DEF OneInv
    <2>3. \A h \in Handlers : Busy(h)' => h = d
      BY <1>0, <1>9, <2>2 DEF Submit, Busy, CallsInv
    <2>4. phase'[d] = "working"
      BY <1>0, <1>9 DEF Submit, CallsInv
    <2> QED
      BY <1>0, <1>9, <2>1, <2>3, <2>4 DEF Submit, OneInv
  <1>10. CASE VolumeAnswered
    <2>1. Busy("volume") /\ UNCHANGED <<here, confirm, dialog>>
          /\ (Ended("volume", TRUE) \/ Ended("volume", FALSE))
      BY <1>10 DEF VolumeAnswered, Busy, pageVars
    <2> QED
      BY <1>0, <2>1, OneWorks DEF Dialogs
  <1>11. CASE ScaleBegins \/ ScaleApplies \/ ScaleRestarts \/ ScaleTimesOut
    BY <1>0, <1>11, ScaleWorks, OneWorks DEF Dialogs
  <1>12. CASE \/ ReinstallStops \/ ReinstallWaits \/ ReinstallDeletes
              \/ ReinstallProvisions
    BY <1>0, <1>12, ReinstallWorks, OneWorks, OneKept DEF Dialogs
  <1>13. ASSUME NEW ok \in BOOLEAN, TaskEnds(ok)
         PROVE  OneInv'
    BY <1>0, <1>13, TaskWorks, OneWorks, OneKept DEF Dialogs
  <1>14. CASE Leave \/ Reload
    <2>1. \A h \in Handlers : Busy(h)' => Busy(h)
      BY <1>0, <1>14 DEF Leave, Reload, Busy, CallsInv, Dialogs
    <2>2. UNCHANGED phase /\ ~ here' /\ confirm' = "none" /\ dialog' = "none"
      BY <1>14 DEF Leave, Reload, Gone
    <2> QED
      BY <1>0, <2>1, <2>2 DEF OneInv
  <1> QED
    BY <1>2, <1>3, <1>4, <1>5, <1>6, <1>7, <1>8, <1>9, <1>10, <1>11, <1>12, <1>13,
       <1>14 DEF Next

-----------------------------------------------------------------------------
(* A scaling that stopped the VM *)

\* What a step leaves alone keeps StrandedInv.
LEMMA StrandedKept ==
  ASSUME StrandedInv, stranded' => stranded,
         calls'["scale"] = calls["scale"], phase'["scale"] = phase["scale"]
  PROVE  StrandedInv'
  BY DEF StrandedInv, Busy

\* Another handler's step.
LEMMA OtherWorks ==
  ASSUME CallsInv, NEW d \in Dialogs, d # "scale",
         \/ UNCHANGED <<calls, phase>>
         \/ Ended(d, TRUE) \/ Ended(d, FALSE) \/ \E v \in CallStates : Goes(d, v)
  PROVE  calls'["scale"] = calls["scale"] /\ phase'["scale"] = phase["scale"]
  BY DEF CallsInv, Ended, Goes, Handlers, Dialogs

\* A scaling that ends badly, or goes to one of its later steps.
LEMMA ScaleFails ==
  ASSUME CallsInv, Ended("scale", FALSE)
  PROVE  StrandedInv'
  BY DEF CallsInv, Ended, Outcome, StrandedInv, Busy, Handlers, Dialogs

\* While the scaling goes on, a VM it stopped is still accounted for.
LEMMA ScaleGoes ==
  ASSUME CallsInv, NEW v \in {"stopping", "stopped", "restart", "starting"},
         Goes("scale", v)
  PROVE  StrandedInv'
  BY DEF CallsInv, Goes, StrandedInv, Handlers, Dialogs

\* A VM that was stopped is running again before the scaling is done.
LEMMA StrandedStep ==
  ASSUME TypeInv, OneInv, StrandedInv, [Next]_vars
  PROVE  StrandedInv'
  <1>0. CallsInv
    BY DEF TypeInv
  <1>1. CASE \/ Poll \/ Refresh \/ Cancelled \/ JobRuns \/ Leave \/ UNCHANGED vars
             \/ \E a \in Answers : Answer(a)
             \/ \E op \in {"start", "stop"} : OthersAct(op)
             \/ \E d \in Dialogs : Open(d)
    BY <1>1, StrandedKept DEF Poll, Refresh, Cancelled, JobRuns, Answer, OthersAct, Open,
                              Leave, Gone, vars, hist
  <1>2. CASE Confirmed \/ PageAnswered \/ \E op \in PowerOps : Press(op)
    <2>1. UNCHANGED <<stranded, phase>>
      BY <1>2 DEF Confirmed, PageAnswered, Press, hist
    <2>2. calls'["scale"] = calls["scale"]
      BY <1>0, <1>2 DEF Confirmed, PageAnswered, Press, CallsInv, Handlers, Dialogs
    <2> QED
      BY <2>1, <2>2, StrandedKept
  <1>3. ASSUME NEW d \in Dialogs, Close(d)
        PROVE  StrandedInv'
    <2>1. UNCHANGED <<stranded, calls>>
      BY <1>3 DEF Close, hist
    <2>2. CASE d = "scale"
      <3>1. ~ Busy("scale") /\ phase'["scale"] = "confirm"
        BY <1>0, <1>3, <2>2 DEF Close, CanClose, OneInv, CallsInv
      <3> QED
        BY <2>1, <3>1 DEF StrandedInv, Busy
    <2>3. CASE d # "scale"
      BY <1>0, <1>3, <2>1, <2>3, StrandedKept DEF Close, CallsInv, Dialogs
    <2> QED
      BY <2>2, <2>3
  <1>4. ASSUME NEW d \in Dialogs, Submit(d)
        PROVE  StrandedInv'
    <2>1. CASE d = "scale"
      BY <1>4, <2>1 DEF Submit, StrandedInv
    <2>2. CASE d # "scale"
      <3>1. calls'["scale"] = calls["scale"] /\ phase'["scale"] = phase["scale"]
        BY <1>0, <1>4, <2>2 DEF Submit, CallsInv, Handlers, Dialogs
      <3>2. stranded' => stranded
        BY <1>4 DEF Submit
      <3> QED
        BY <3>1, <3>2, StrandedKept
    <2> QED
      BY <2>1, <2>2
  <1>5. CASE VolumeAnswered
    <2>1. UNCHANGED stranded /\ (Ended("volume", TRUE) \/ Ended("volume", FALSE))
      BY <1>5 DEF VolumeAnswered, hist
    <2> QED
      BY <1>0, <2>1, OtherWorks, StrandedKept DEF Dialogs
  <1>6. CASE \/ ReinstallStops \/ ReinstallWaits \/ ReinstallDeletes
             \/ ReinstallProvisions
    <2>1. UNCHANGED stranded
      BY <1>6, ReinstallWorks
    <2> QED
      BY <1>0, <1>6, <2>1, ReinstallWorks, OtherWorks, StrandedKept DEF Dialogs
  <1>7. CASE ScaleBegins
    <2>1. ~ stranded /\ UNCHANGED stranded
      <3>1. phase["scale"] = "working"
        BY <1>7 DEF ScaleBegins, OneInv, Busy, Dialogs
      <3> QED
        BY <1>7, <3>1 DEF ScaleBegins, StrandedInv, Busy, scaleRest, hist
    <2> QED
      BY <2>1 DEF StrandedInv
  <1>8. CASE ScaleApplies
    <2>1. CASE Ended("scale", FALSE)
      BY <1>0, <2>1, ScaleFails
    <2>2. CASE Goes("scale", "restart")
      BY <1>0, <2>2, ScaleGoes
    <2>3. CASE calls["scale"] = "apply"
      <3>1. ~ stranded /\ UNCHANGED stranded
        BY <1>8, <2>3 DEF ScaleApplies, StrandedInv, Busy, scaleRest, hist
      <3> QED
        BY <3>1 DEF StrandedInv
    <2> QED
      BY <1>8, <2>1, <2>2, <2>3 DEF ScaleApplies
  <1>9. CASE ScaleRestarts
    BY <1>0, <1>9, ScaleFails, ScaleGoes DEF ScaleRestarts, RestartOk
  <1>10. CASE ScaleTimesOut
    BY <1>0, <1>10, ScaleFails DEF ScaleTimesOut
  <1>11. ASSUME NEW ok \in BOOLEAN, TaskEnds(ok)
         PROVE  StrandedInv'
    <2>1. CASE UNCHANGED <<calls, phase>>
      BY <1>11, <2>1 DEF TaskEnds, StrandedInv, Busy
    <2>2. CASE Goes("scale", "stopped")
      BY <1>0, <2>2, ScaleGoes
    <2>3. CASE Ended("scale", FALSE)
      BY <1>0, <2>3, ScaleFails
    <2>4. CASE ok /\ task.op # "stop" /\ calls["scale"] = "starting"
      <3>1. task.op \in PowerOps
        BY <1>11 DEF TaskEnds, TypeInv, WorldInv, Tasks
      <3>2. guest' # "stopped"
        BY <1>11, <2>4, <3>1 DEF TaskEnds, After, PowerOps
      <3> QED
        BY <1>11, <3>2 DEF TaskEnds, StrandedInv
    <2> QED
      BY <1>11, <2>1, <2>2, <2>3, <2>4 DEF TaskEnds, RestartOk
  <1>12. CASE Reload
    <2>1. UNCHANGED <<stranded, phase>> /\ calls'["scale"] = calls["scale"]
      BY <1>0, <1>12 DEF Reload, Gone, hist, CallsInv, Handlers, Dialogs
    <2> QED
      BY <2>1, StrandedKept
  <1> QED
    BY <1>1, <1>2, <1>3, <1>4, <1>5, <1>6, <1>7, <1>8, <1>9, <1>10, <1>11, <1>12
       DEF Next

-----------------------------------------------------------------------------
(* The theorems *)

\* Nothing is at work at the start.
LEMMA InitInv == Init => Inv
  <1> SUFFICES ASSUME Init PROVE Inv
    OBVIOUS
  <1>1. \A h \in Handlers : ~ Busy(h)
    BY DEF Init, Busy
  <1>2. OneInv
    BY <1>1 DEF Init, OneInv, Handlers
  <1>3. StrandedInv
    BY DEF Init, StrandedInv
  <1> QED
    BY <1>2, <1>3, InitType DEF Inv

\* Inv is inductive.
LEMMA InvStep == Inv /\ [Next]_vars => Inv'
  BY TypeStep, OneStep, StrandedStep DEF Inv

\* Inv holds in every state.
THEOREM Invariant == Spec => []Inv
  BY InitInv, InvStep, PTL DEF Spec

\* One visit of the page has at most one operation on the guest under way
\* (OneOperation).
THEOREM OneAtATime == Spec => []OneOperation
  <1>1. Inv => OneOperation
    <2> SUFFICES ASSUME Inv PROVE OneOperation
      OBVIOUS
    <2> DEFINE S == {h \in Handlers : calls[h] # "idle"}
    <2>1. \A g, h \in S : g = h
      BY DEF Inv, OneInv, Busy
    <2>2. Cardinality(S) <= 1
      <3>1. CASE S = {}
        BY <3>1, FS_EmptySet
      <3>2. CASE S # {}
        <4>1. PICK h : h \in S
          BY <3>2
        <4>2. S = {h}
          BY <2>1, <4>1
        <4>3. Cardinality(S) = 1
          BY <4>2, FS_Singleton, Zenon
        <4> QED
          BY <4>3
      <3> QED
        BY <3>1, <3>2
    <2> QED
      BY <2>2 DEF OneOperation
  <1> QED
    BY Invariant, <1>1, PTL

\* A scaling that stopped the VM and did not get it running again is not
\* reported as done (StoppedIsTold).
THEOREM StoppedTold == Spec => []StoppedIsTold
  <1>1. Inv => StoppedIsTold
    BY DEF Inv, StrandedInv, OneInv, StoppedIsTold, Shows, Busy, Dialogs
  <1> QED
    BY Invariant, <1>1, PTL
=============================================================================
