----------------------------- MODULE CreateForm -----------------------------
(***************************************************************************)
(* The "Create from Template" dialog (components/templates/                 *)
(* CreateFromTemplateModal.tsx) on the page that lists the guests           *)
(* (app/vms/page.tsx, app/containers/page.tsx).                             *)
(*                                                                          *)
(* The dialog stays mounted while it is closed: its fields, its request and *)
(* its job go on.  Leaving the page unmounts it: what it asked for goes on, *)
(* and a dialog with an empty form is there when the user comes back.       *)
(* Requests are answered in any order, and the form can be edited while     *)
(* they are on their way.  Sizes are counted in units: the OS disk and      *)
(* every extra volume take one.                                             *)
(***************************************************************************)
EXTENDS Naturals, SequencesExt, FiniteSets, JobTypes

CONSTANTS
  Templates, NoTemplate,
  Nodes, NoNode,
  NodeOf,       \* the node of each template
  Storages, NoStorage,
  ListOf,       \* node -> the storages it offers for disks, in order
  Avail,        \* node -> storage -> units free
  Passwords, NoPassword,
  Script,       \* the steps of the jobs: ScriptOf.vm_volumes or another
  MaxVolumes,   \* bound: extra volumes
  MaxEdits,     \* bound: changes the user makes to the form, leaving it among them
  MaxAsks,      \* bound: requests for a VMID on their way
  MaxSubmits,   \* bound: provision requests
  MaxTimers     \* bound: refreshes scheduled at one time

ASSUME FormAssumption ==
  /\ NoTemplate \notin Templates /\ NoNode \notin Nodes
  /\ NoStorage \notin Storages /\ NoPassword \notin Passwords
  /\ NodeOf \in [Templates -> Nodes]
  /\ ListOf \in [Nodes -> Seq(Storages)]
  /\ Avail \in [Nodes -> [Storages -> Nat]]
  /\ Script \in Seq(StepNames) /\ Script # <<>>
  /\ MaxVolumes \in Nat /\ MaxEdits \in Nat /\ MaxAsks \in Nat
  /\ MaxSubmits \in Nat /\ MaxTimers \in Nat

JobIds == 1 .. MaxSubmits
NoJobId == 0

VARIABLES
  visit,      \* how often the page was left before the dialog now mounted
  open,       \* isOpen
  template,   \* selectedTemplateId
  storage, volumes, password,   \* fields of the form
  list,       \* storages: the node whose list is shown, NoNode for []
  known,      \* nextVmid is set
  asks,       \* requests for /next-vmid on their way
  fetching,   \* nodes whose storages have been asked for
  submitting, \* the flag of this name
  posts,      \* provision requests on their way, each with its visit
  sent,       \* how many there were
  activeJob,  \* activeJobId
  jobs,       \* the jobs as the jobs context has them
  listed,     \* those still in the list
  madeIn,     \* history: the visit in which each job was asked for
  actual,     \* history: the password each job's request carried
  retyped,    \* history: the jobs during whose request the password was changed
  error,      \* an error is shown
  edits,      \* changes the user has made so far
  timers,     \* setTimeout(refresh, 2000) calls not yet run
  refreshing  \* a refresh of the page's list is on its way

formVars == <<template, storage, volumes, password, list, known, error>>
jobVars == <<jobs, listed, madeIn, actual, retyped>>
vars == <<visit, open, formVars, edits, asks, fetching, submitting, posts, sent, activeJob,
          jobVars, timers, refreshing>>

NoJobYet == [status |-> "none", step |-> StepNone, password |-> NoPassword]

-----------------------------------------------------------------------------
(* Faulty variants of definitions below; not used by the specification.     *)

KeepsChoice(n) == storage
TakesWholeEntry(n) == <<ListOf[n][1], Avail[n]>>
RecordedFromForm(r) == password
ResetsOnAnyClose == TRUE
StepListSwapped == <<"cloning", "configuring", "adding_disks", "resizing",
                     "starting", "waiting_for_running", "ready">>
SchedulesOnEveryRender(j) == TRUE

-----------------------------------------------------------------------------
(* What the dialog shows *)

Live(j) == jobs[j].status \in LiveStatuses
Terminal(j) == jobs[j].status \in TerminalStatuses

\* activeJob = getJob(activeJobId): nothing once it was cleared from the list.
ShowsProgress == activeJob \in listed
IsTerminal == ShowsProgress /\ Terminal(activeJob)

\* The dialog's list of steps, in its order.
StepList == <<"cloning", "configuring", "resizing", "adding_disks",
              "starting", "waiting_for_running", "ready">>

\* isDone of the i-th item of the list.
ItemDone(step, i) ==
  \/ step = "ready"
  \/ step = "waiting_for_running" /\ StepList[i] # "ready"
  \/ \E k \in DOMAIN StepList : StepList[k] = step /\ i < k

DoneItems(step) == {i \in DOMAIN StepList : ItemDone(step, i)}

\* The panel with what is needed to log in.
CompletedPanel == ShowsProgress /\ jobs[activeJob].status = "completed"

\* effectivePassword in that panel.
ShownPassword(j) ==
  IF jobs[j].password # NoPassword THEN jobs[j].password ELSE password

\* The page renders with a new onSuccess, or the job's status changes: the
\* effect asks for a refresh of the page's list when the job is completed.
Schedules(j) == j \in listed' /\ jobs'[j].status = "completed"
Scheduled(n) ==
  IF Schedules(activeJob') /\ n < MaxTimers THEN n + 1 ELSE n

-----------------------------------------------------------------------------
(* Capacity *)

Offered(n) == IF n = NoNode THEN {} ELSE {ListOf[n][i] : i \in DOMAIN ListOf[n]}

\* Units asked of storage s by the OS disk and the extra volumes together.
Required(s, os, vols) ==
  (IF os = s THEN 1 ELSE 0) + Cardinality({i \in DOMAIN vols : vols[i] = s})

\* The check before a request: storages that are not in the list are skipped.
Fits(n, os, vols) ==
  \A s \in Offered(n) : Required(s, os, vols) <= Avail[n][s]

-----------------------------------------------------------------------------
Init ==
  /\ visit = 0 /\ open = FALSE
  /\ template = NoTemplate
  /\ storage = NoStorage /\ volumes = <<>> /\ password = NoPassword
  /\ list = NoNode
  /\ known = FALSE /\ asks = 0
  /\ fetching = {}
  /\ submitting = FALSE /\ posts = {} /\ sent = 0
  /\ activeJob = NoJobId
  /\ jobs = [j \in JobIds |-> NoJobYet]
  /\ listed = {}
  /\ madeIn = [j \in JobIds |-> 0]
  /\ actual = [j \in JobIds |-> NoPassword] /\ retyped = {}
  /\ error = FALSE
  /\ edits = 0
  /\ timers = 0 /\ refreshing = FALSE

(* Opening, closing *)

\* The effect on isOpen asks for the next VMID; a value from an earlier opening
\* stays until the answer.
Open ==
  /\ ~ open
  /\ asks < MaxAsks
  /\ open' = TRUE
  /\ asks' = asks + 1
  /\ UNCHANGED <<visit, formVars, edits, fetching, submitting, posts, sent, activeJob,
                 jobVars, refreshing>>
  /\ timers' = Scheduled(timers)

VmidAnswered ==
  /\ asks > 0
  /\ asks' = asks - 1
  /\ known' \in {TRUE, known}      \* an error is ignored
  /\ UNCHANGED <<visit, open, edits, template, storage, volumes, password, list, error,
                 fetching, submitting, posts, sent, activeJob, jobVars, timers, refreshing>>

\* handleClose resets the form only after the job's outcome.
ResetsOnClose == IsTerminal

\* resetForm
Reset ==
  /\ template' = NoTemplate
  /\ storage' = NoStorage /\ volumes' = <<>> /\ password' = NoPassword
  /\ list' = NoNode
  /\ known' = FALSE
  /\ error' = FALSE
  /\ activeJob' = NoJobId
  /\ submitting' = FALSE

\* handleClose (Cancel, Minimize, Escape, the backdrop) and handleDone.
Close ==
  /\ open
  /\ open' = FALSE
  /\ IF ResetsOnClose THEN Reset ELSE UNCHANGED <<formVars, activeJob, submitting>>
  /\ UNCHANGED <<visit, edits, asks, fetching, posts, sent, jobVars, refreshing>>
  /\ timers' = Scheduled(timers)

\* The user leaves the page and comes back: a new dialog, which gets none of
\* the answers to the old one's questions.
Leave ==
  /\ edits < MaxEdits
  /\ edits' = edits + 1
  /\ visit' = visit + 1
  /\ open' = FALSE
  /\ Reset
  /\ asks' = 0 /\ fetching' = {}
  /\ UNCHANGED <<posts, sent, jobVars, timers, refreshing>>

-----------------------------------------------------------------------------
(* The form *)

Editing == open /\ ~ ShowsProgress

\* The user changes something: all of the inputs of the form, those among them
\* whose values are left out too.
Edit ==
  /\ Editing
  /\ edits < MaxEdits
  /\ edits' = edits + 1

\* A template of another node makes the effect ask for that node's storages;
\* the effects also set the user, cores, memory and disk, which are left out.
SelectTemplate(t) ==
  /\ Edit
  /\ template # t
  /\ template' = t
  /\ fetching' =
       IF template = NoTemplate \/ NodeOf[template] # NodeOf[t]
         THEN fetching \cup {NodeOf[t]} ELSE fetching
  /\ UNCHANGED <<visit, open, storage, volumes, password, list, known, error, asks,
                 submitting, posts, sent, activeJob, jobVars, timers, refreshing>>

\* setStorage(valid[0]), unless the node offers none.
FirstOf(n) == IF ListOf[n] # <<>> THEN ListOf[n][1] ELSE storage

\* An answer is taken whatever has been selected since; an error empties the
\* list and keeps the choice.
StoragesAnswered(n) ==
  /\ n \in fetching
  /\ fetching' = fetching \ {n}
  /\ \/ list' = n /\ storage' = FirstOf(n)
     \/ list' = NoNode /\ UNCHANGED storage
  /\ UNCHANGED <<visit, open, edits, template, volumes, password, known, error, asks,
                 submitting, posts, sent, activeJob, jobVars, timers, refreshing>>

\* addExtraVolume, updateExtraVolume, removeExtraVolume: what they may leave.
ChangedVolumes ==
  {Append(volumes, ListOf[list][1])}
  \cup {[volumes EXCEPT ![i] = s] : i \in DOMAIN volumes, s \in Offered(list)}
  \cup {RemoveAt(volumes, i) : i \in DOMAIN volumes}

\* The selects and the buttons of the storage section, hidden for an empty list.
EditStorage ==
  /\ Edit
  /\ Offered(list) # {}
  /\ \/ storage' \in Offered(list) \ {storage} /\ UNCHANGED volumes
     \/ volumes' \in {v \in ChangedVolumes : Len(v) <= MaxVolumes}
        /\ UNCHANGED storage
  /\ UNCHANGED <<visit, open, template, password, list, known, error, asks, fetching,
                 submitting, posts, sent, activeJob, jobVars, timers, refreshing>>

\* The access fields, the password for all of them: typed or generated; the
\* inputs are not disabled during a request.
EditPassword ==
  /\ Edit
  /\ password' \in (Passwords \cup {NoPassword}) \ {password}
  /\ posts' = {[r EXCEPT !.retyped = @ \/ r.visit = visit] : r \in posts}
  /\ UNCHANGED <<visit, open, template, storage, volumes, list, known, error, asks,
                 fetching, submitting, sent, activeJob, jobVars, timers, refreshing>>

-----------------------------------------------------------------------------
(* Submitting *)

CanSubmit == Editing /\ template # NoTemplate /\ known /\ ~ submitting

\* handleSubmit when the capacity check fails.
SubmitRefused ==
  /\ CanSubmit
  /\ ~ Fits(list, storage, volumes)
  /\ error' = TRUE
  /\ UNCHANGED <<visit, open, edits, template, storage, volumes, password, list, known, asks,
                 fetching, submitting, posts, sent, activeJob, jobVars, timers, refreshing>>

\* handleSubmit up to the request; the request keeps what the form had, a target
\* node also, which only the request knows: neither the list nor the check is
\* about it.
Submit ==
  /\ CanSubmit
  /\ Fits(list, storage, volumes)
  /\ sent < MaxSubmits
  /\ sent' = sent + 1
  /\ posts' = posts \cup
       {[visit |-> visit, list |-> list, storage |-> storage, volumes |-> volumes,
         password |-> password, retyped |-> FALSE]}
  /\ submitting' = TRUE
  /\ error' = FALSE
  /\ UNCHANGED <<visit, open, edits, template, storage, volumes, password, list, known, asks,
                 fetching, activeJob, jobVars, timers, refreshing>>

\* The password addJob stores with the job.
Recorded(r) == r.password

\* The job was queued: addJob, and setActiveJobId of the dialog that asked.
Accepted(r) ==
  /\ r \in posts
  /\ posts' = posts \ {r}
  /\ \E j \in JobIds :
       /\ jobs[j] = NoJobYet
       /\ \A k \in JobIds : k < j => jobs[k] # NoJobYet
       /\ jobs' = [jobs EXCEPT ![j] = [status |-> "pending", step |-> StepNone,
                                       password |-> Recorded(r)]]
       /\ madeIn' = [madeIn EXCEPT ![j] = r.visit]
       /\ actual' = [actual EXCEPT ![j] = r.password]
       /\ retyped' = IF r.retyped THEN retyped \cup {j} ELSE retyped
       /\ listed' = listed \cup {j}
       /\ activeJob' = IF r.visit = visit THEN j ELSE activeJob
  /\ submitting' = (submitting /\ r.visit # visit)
  /\ UNCHANGED <<visit, open, edits, formVars, asks, fetching, sent, timers, refreshing>>

\* The request was refused, or its answer lost after it had made a job nobody
\* here knows of.
Rejected(r) ==
  /\ r \in posts
  /\ posts' = posts \ {r}
  /\ error' = (error \/ r.visit = visit)
  /\ submitting' = (submitting /\ r.visit # visit)
  /\ UNCHANGED <<visit, open, edits, template, storage, volumes, password, list, known, asks,
                 fetching, sent, activeJob, jobVars, timers, refreshing>>

-----------------------------------------------------------------------------
(* The jobs *)

\* Where in the script a job's step is, 0 before the first.
Position(step) ==
  IF step = StepNone THEN 0
  ELSE CHOOSE i \in DOMAIN Script : Script[i] = step

\* An event reaches the list.  Events may be missed, not reordered.
Progresses(j) ==
  /\ j \in listed /\ Live(j)
  /\ \/ \E i \in DOMAIN Script :
          /\ i > Position(jobs[j].step)
          /\ jobs' = [jobs EXCEPT ![j].step = Script[i],
                        ![j].status = IF i = Len(Script) THEN "completed"
                                      ELSE "running"]
     \/ jobs' = [jobs EXCEPT ![j].status = "failed"]
  /\ UNCHANGED <<visit, open, edits, formVars, asks, fetching, submitting, posts, sent,
                 activeJob, listed, madeIn, actual, retyped, refreshing>>
  /\ timers' = IF j = activeJob THEN Scheduled(timers) ELSE timers

\* "Clear finished" in the header, which an open dialog covers.
ClearCompleted ==
  /\ ~ open
  /\ \E j \in listed : Terminal(j)
  /\ listed' = {j \in listed : ~ Terminal(j)}
  /\ UNCHANGED <<visit, open, edits, formVars, asks, fetching, submitting, posts, sent,
                 activeJob, jobs, madeIn, actual, retyped, timers, refreshing>>

-----------------------------------------------------------------------------
(* The page *)

\* The page polls its list every five seconds and renders.
Poll ==
  /\ UNCHANGED <<visit, open, edits, formVars, asks, fetching, submitting, posts, sent,
                 activeJob, jobVars, refreshing>>
  /\ timers' = Scheduled(timers)

\* A scheduled refresh is asked for, at most one at a time in the model.
Refresh ==
  /\ timers > 0
  /\ ~ refreshing
  /\ timers' = timers - 1
  /\ refreshing' = TRUE
  /\ UNCHANGED <<visit, open, edits, formVars, asks, fetching, submitting, posts, sent,
                 activeJob, jobVars>>

\* Its answer renders the page too, unless it is an error.
Refreshed ==
  /\ refreshing
  /\ refreshing' = FALSE
  /\ UNCHANGED <<visit, open, edits, formVars, asks, fetching, submitting, posts, sent,
                 activeJob, jobVars>>
  /\ timers' \in {timers, Scheduled(timers)}

Next ==
  \/ Open \/ VmidAnswered \/ Close \/ Leave
  \/ \E t \in Templates : SelectTemplate(t)
  \/ \E n \in Nodes : StoragesAnswered(n)
  \/ EditStorage \/ EditPassword
  \/ SubmitRefused \/ Submit
  \/ \E r \in posts : Accepted(r) \/ Rejected(r)
  \/ \E j \in JobIds : Progresses(j)
  \/ ClearCompleted \/ Poll \/ Refresh \/ Refreshed

Spec == Init /\ [][Next]_vars

\* Timers run and a refresh is answered.  The user need not do anything, and
\* neither a request nor a job need end.
FairSpec ==
  /\ Spec
  /\ WF_vars(Refresh) /\ WF_vars(Refreshed)

-----------------------------------------------------------------------------
(* Properties *)

TypeOK ==
  /\ open \in BOOLEAN /\ submitting \in BOOLEAN /\ refreshing \in BOOLEAN
  /\ known \in BOOLEAN /\ error \in BOOLEAN
  /\ template \in Templates \cup {NoTemplate}
  /\ storage \in Storages \cup {NoStorage}
  /\ volumes \in Seq(Storages) /\ Len(volumes) <= MaxVolumes
  /\ password \in Passwords \cup {NoPassword}
  /\ list \in Nodes \cup {NoNode}
  /\ asks \in 0 .. MaxAsks /\ fetching \subseteq Nodes
  /\ edits \in 0 .. MaxEdits /\ visit \in 0 .. edits
  /\ sent \in 0 .. MaxSubmits /\ timers \in 0 .. MaxTimers
  /\ \A r \in posts : r.list \in Nodes \cup {NoNode} /\ r.retyped \in BOOLEAN
  /\ madeIn \in [JobIds -> Nat] /\ retyped \subseteq JobIds
  /\ activeJob \in JobIds \cup {NoJobId}
  /\ listed \subseteq {j \in JobIds : jobs[j] # NoJobYet}
  /\ activeJob # NoJobId => jobs[activeJob] # NoJobYet

\* As long as the user stays on the page, and however the dialog is closed,
\* reopened and edited, it asks for one guest at a time: no second request
\* before the first is answered, and none while a job asked for in this visit
\* runs (submitting, the progress view and the reset).  Who leaves the page and
\* comes back may ask again: each visit has its own.
OneGuestAtATime ==
  /\ \A r, q \in posts : r.visit = q.visit => r = q
  /\ \A r \in posts, j \in listed : madeIn[j] = r.visit => Terminal(j)
  /\ \A j, k \in listed : Live(j) /\ Live(k) /\ madeIn[j] = madeIn[k] => j = k

\* The password in the panel of a completed job is what its request carried,
\* none if it carried none, whatever was typed, cleared or left in between.
\* The panel of a job without one falls back on the form, and shows a password
\* that was never sent if it was typed while the request was on its way.
ShownPasswordWasSent ==
  CompletedPanel /\ (actual[activeJob] = NoPassword => activeJob \notin retyped)
    => ShownPassword(activeJob) = actual[activeJob]

\* Whichever answers came late, failed or were those of another node, a request
\* made while the form shows a list puts its OS disk on a storage of that list,
\* so that the check, which skips what is not listed, has counted the disk; a
\* request under an empty list is not checked at all.
DiskIsChecked ==
  \A r \in posts :
    Offered(r.list) # {}
      => /\ r.storage \in Offered(r.list)
         /\ Required(r.storage, r.storage, r.volumes) <= Avail[r.list][r.storage]

\* An item of the list of steps that is ticked stays ticked, whichever events
\* are missed and also when the job fails.
TicksStay ==
  [][ShowsProgress /\ activeJob' = activeJob
       => DoneItems(jobs[activeJob].step) \subseteq DoneItems(jobs'[activeJob].step)]_vars

\* The refreshes scheduled for a completed job, one more at every render, stop
\* once the dialog is done with it.
RefreshesStop ==
  activeJob = NoJobId
    ~> (timers = 0 /\ ~ refreshing) \/ activeJob # NoJobId
=============================================================================
