# pve-pilot in TLA+

pve-pilot is a web interface to Proxmox VE. A browser application (Next.js) talks
to a Go backend; the backend talks to the Proxmox API, and does what takes long
(making a guest from a template, backing one up, restoring one) in background jobs
that go through NATS and are shown to the browser as server-sent events.

This directory holds a formal model of the parts where the order of events
matters, the TLC configurations that check it, and proofs that TLAPS checks.
Paths below are relative to the repository's root.

    tlc -workers 2 -config JobEvents_vm.cfg MCJobEvents     # one run
    tlapm JobPipeline_proofs.tla                            # a module's proofs, a minute or so

## 1. The system

| component | state | operations | shares it with |
|---|---|---|---|
| **job store** `backend/jobs/store.go` | a map of jobs; for each job a slice of subscriber channels (buffer 16); one RW lock | `Create`, `Get`, `List`, `UpdateStep`, `SetError`, `SetIP`, `Subscribe`, `Unsubscribe` | submit handlers, worker, event streams |
| **event streams** `backend/handlers/jobs.go` | one goroutine and one channel per request | snapshot, subscribe, loop over events, unsubscribe | store, browser |
| **job submission** `handlers/jobs.go`, `backup.go`, `cluster.go` | none of its own | choose a VMID, `Create`, publish to NATS, `SetError` if that fails | store, NATS, Proxmox |
| **NATS** (external) | messages not yet taken, per subject | deliver at most once; one callback at a time per subscription | submission, worker |
| **worker** `backend/jobs/worker.go` | the local variables of one callback per subject | `provisionVM`, `provisionContainer`, `backupJob`, `restoreJob` | store, Proxmox |
| **Proxmox client** `backend/proxmox/client.go` and others | none | requests with a 30 s time-out, `WaitForTask`, UPID extraction, task-log summary | worker, handlers |
| **synchronous guest operations** `handlers/vms.go`, `containers.go` | none; read, then write the guest's configuration | power, delete, `ScaleVM`, `ResizeVMDisk`, `AddVMDisk`, `AddContainerVolume` | Proxmox, guest page |
| **schedules and archives** `handlers/backup.go` | none | list, create, delete | Proxmox, backup dialog |
| **guest agent, host SSH** `proxmox/storage.go`, `hostssh.go` | none | `GuestExecWithRetry`, `PctExec` | Proxmox |
| **jobs context** `frontend/src/contexts/JobsContext.tsx`, `lib/api.ts` | list of jobs, a clean-up per stream, build information in localStorage | `addJob`, `updateJob`, `clearCompleted`, `getJobByVmid`, `apiSSE` (reconnects after 2 s) | event streams, dialogs |
| **create dialog** `components/templates/CreateFromTemplateModal.tsx` | form, requests on their way, the job shown | fetch storages and VMID, submit, show progress, reset, refresh the page | jobs context, submission |
| **guest page** `app/vms/[node]/[vmid]/page.tsx` and the container's | polled status and configuration, the action being confirmed or sent, the open dialog | power buttons, delete, dialogs, polling | handlers, dialogs |
| **page dialogs** `components/vms`, `components/shared` | form and phase; kept while they are closed | scale, reinstall, resize disk, add disk, backups and schedules | handlers, jobs context |
| **Proxmox VE** (external) | guests, tasks, one lock per guest | runs one task at a time on a guest | everyone above |

Read-only handlers, wiring, configuration and rendering keep no state that can go
wrong over time; `PROJECT.json` lists them too, with what is left out of each part.

### What is hard, and what makes each part correct

* **Store and streams.** Everything is done under one lock except two things: the
  events are sent after unlocking, over a slice header copied under the lock, and
  `Unsubscribe` shifts that slice's backing array in place and closes a channel. A
  handler takes its snapshot and subscribes in two separate sections. Correct means:
  each client sees its job's steps in order and its real outcome, no subscriber is
  lost or duplicated, a completion carries the guest's address, and a stream ends
  when its job has ended.
* **Submission and queue.** A job is stored before it is published; the queue may
  lose it; jobs of a subject run one after the other. Correct means: every job gets
  an outcome, and a VMID handed out twice is never taken for two guests.
* **Worker and Proxmox.** Every call may be refused, or carried out without an
  answer; every wait may be given up while the task goes on; errors of some steps
  end the job and errors of others are logged. Correct means: a job that says
  completed has done its work, the guest is deleted before it is restored over, and
  a failed job asks for nothing more.
* **Jobs context.** Streams break and are reopened, the page is refreshed, the
  backend restarts and has forgotten the job; the clean-up of a stream, its retry
  timer and the list change at different moments. Correct means: one stream per
  unfinished job and none after its outcome; what is shown never goes back.
* **Dialogs.** They stay mounted while closed, so requests are answered into a form
  that has changed or is hidden; leaving the page unmounts them while what they asked
  for goes on. Correct means: one operation at a time; what is
  shown (a password, a size, a list of backups, "done") is what was done; what is
  stopped or deleted on the way is not passed over in silence.
* **Polling.** Requests overlap and are answered in any order.
* **Guest configuration.** Read, choose, write without a lock: two requests may
  choose the same slot, one of them perhaps given up by its dialog; the task that does
  the work is not waited for.

`PROJECT.json` lists the hazards one by one under `hazards`, each at its line, with
the properties that watch it.

## 2. The modules

| module | models |
|---|---|
| `JobTypes` | statuses, steps, the percentage of each step, the steps of each kind of job, the steps whose errors are fatal |
| `JobLifecycle` | **abstract**: what anyone looking at one job may rely on: created pending, percentage only grows, 100 only by completing, outcomes final |
| `JobEvents` | **one job** in the store, its publisher and its event streams, at the grain of critical sections, single sends and single stores to the shared array |
| `JobPipeline` | **several jobs**: submission, queue, worker, Proxmox tasks and guests |
| `JobsClient` | the browser's **list of jobs** over lost connections, refreshes and a restarted backend |
| `CreateForm` | the **create dialog** from the first field to the finished guest |
| `GuestPage` | a **guest's page**: polls, buttons, Scale and Reinstall, and the handlers behind them |
| `VolumeDialogs` | Resize Disk and Add Disk in several browsers, their handlers and the tasks nobody waits for |
| `BackupDialog` | the Backups dialog and the handlers for archives and schedules, while others change both |
| `GuestDialogs` | composes the two: a page opens one dialog at a time |
| `JobEvents_proofs`, `JobPipeline_proofs`, `JobsClient_proofs`, `CreateForm_proofs`, `GuestPage_proofs`, `VolumeDialogs_proofs`, `BackupDialog_proofs`, `GuestDialogs_proofs` | theorems |
| `MC...` | values of the constants for TLC |

How they fit together. `JobEvents` and `JobPipeline` both implement `JobLifecycle`
(`ImplementsLifecycle`). They look at the same jobs from two sides, and
`JobLifecycle` is what they agree on: `JobEvents` takes any worker that walks
through a script and may stop at a fatal step, `JobPipeline` shows where such a
worker's decisions come from and leaves the subscribers out. `JobsClient` takes of a
stream what `JobEvents` shows a client (a snapshot, possibly a gap, then every
report in order); `CreateForm` takes of the jobs context what `JobsClient` shows (a
job's steps only move forward and some are skipped). `GuestPage` has Resize and Add
as one dialog with a phase; `VolumeDialogs` says what they send.

### JobEvents and the code

| variable | code |
|---|---|
| `job` | the record in `Store.jobs`: status, step (the percentage is a function of it) and whether `IPAddress` is set |
| `next` | where the worker's function is (`provisionVM` ... `restoreJob`) |
| `slots`, `nsubs` | `Store.subscribers[id]`: backing array (its length is the capacity) and length |
| `send` | `event`, `subs` and the loop index of `UpdateStep` / `SetError` after the unlock; `shared` says whether `subs` still points to the store's array or to `arr`, the one that `append` has replaced |
| `mu`, `shift` | the stream in `Unsubscribe`'s critical section; the `memmove` of `append(subs[:i], subs[i+1:]...)`: what it copies and the stores it still has to do, in any order |
| `chan`, `closed` | each subscriber's channel |
| `pc`, `last` | each handler's position in `StreamJobEvents`; what it wrote last |
| `since`, `raced` | history, read by properties only |
| `crashed` | a send on a closed channel panics; nothing recovers it in a NATS callback, so the process is gone |

| action | code |
|---|---|
| `Create` | `Store.Create` |
| `UpdateStep`, `SetError`, `SetIP` | the same-named methods up to the unlock |
| `SendNext` | one iteration of the send loop, `default` branch included |
| `Request` | `StreamJobEvents` from `Get` to the first event, including the early return |
| `Subscribe` | `Store.Subscribe`; `Grown` is Go's growth of a small slice (1, 2, 4) |
| `Receive`, `ClientGone` | the branches of the handler's `select` |
| `Unsubscribe`, `MoveSlot`, `Close` | the deferred `Store.Unsubscribe` |

### JobPipeline and the code

| variable | code |
|---|---|
| `status`, `step` | the job's record in the store |
| `vmid` | the VMID in the payload; `AutoVmid` until one was chosen |
| `pc`, `at` | where the submit handler or the NATS callback is, and at which step |
| `queue` | messages of each subject not yet taken |
| `task` | what became of each Proxmox task the job started |
| `guest` | what exists under each VMID |
| `deleted` | history: jobs whose guest was deleted after they had made it |

`Allocate` is `nextAvailableVMID` and the `/api/next-vmid` handler; `Create`,
`Publish` and `PublishFails` are the three `submit...Job` functions. `Report` is
`UpdateStep` and the start of the step's calls. A call ends in one of three ways
(`Call`, `CallUnanswered`, `CallFails`), a wait in one of two (`WaitOk`,
`WaitFails`: failed, or time ran out, even if the task has succeeded since). Which
errors end a job is `FailingSteps`. A container's resize is a task of its own whose
failure is only logged, so a slow one is still at work when the job goes on. Other
steps whose errors are only logged have no effect in the model.

Proxmox is external. What the model assumes of it: it runs one task at a time on a
guest; it refuses to create a guest that exists, to delete one that runs and to start
one that is not there; a guest being made occupies its VMID; a clone or restore that
fails removes what it made. A backup may also find the guest stopped. `User` is
anybody at work beside the jobs while no task holds the guest: `Power` starts or stops
it, `DeleteGuest` deletes one that is stopped (`DeleteVM`, `DeleteContainer`; also the
first half of a reinstall, whose job then asks for the same VMID), `CloneGuest` makes
one without a job (`CloneVM`, `CloneContainer`).

### JobsClient and the code

| variable | code |
|---|---|
| `server`, `known` | the store's records; those of the process that runs now (`Restart` empties `known`) |
| `order`, `listed`, `shown` | the context's `jobs`: order of addition, which are left, what each shows |
| `sub` | `apiSSE`'s closure: its `closed` flag, set by the clean-up kept in `cleanupRefs` |
| `conn`, `wire`, `timer` | its `EventSource`, events on their way, the pending `setTimeout(connect, 2000)` |
| `info` | the build information in localStorage, per VMID |

`Create`, `Work`, `Accept`, `Subscribe` and `Restart` are the backend; `AddJob`,
`Deliver` (`onmessage` and `updateJob` with its clean-up), `StreamOver` and `Connect`
(`onerror`, the timer), `ClearCompleted` and `Reload` are the browser; `Drop` is the
network. An unknown job answers
404, which the browser cannot tell from a lost connection: it goes on reconnecting.

### CreateForm, GuestPage, VolumeDialogs, BackupDialog and the code

Their variables are the components' states under their own names (`submitting`,
`activeJob`, `confirm`, `phase`, `working` ...), the requests on their way as sets or
counters, and Proxmox's side as far as it answers. An action is one event handler,
one effect or the arrival of one answer; an effect that React runs because of a
change is part of the action that changes it. Fields are kept while a dialog is
closed, exactly where the code resets them and no earlier.

* `CreateForm`: `Accepted` and `Rejected` are the two ends of `handleSubmit`;
  `SelectTemplate` starts the fetch of storages whose answer (`StoragesAnswered`, or
  an error) may find another template selected; `Refresh` is one of the timers that
  every render of a completed job schedules. `Leave` is leaving the page and coming
  back: the new dialog (`visit`) starts empty and gets no answers to the old one's
  questions, while requests and jobs of earlier visits go on and enter the list.
* `GuestPage`: `calls` holds where each handler is: the page's buttons, `ScaleVM`
  (stop, apply, start) and the reinstall's sequence in the browser (stop, wait,
  delete, wait, provision). `Answer` is `usePolling`'s continuation. Other users and
  Proxmox's own tasks change the guest in between; a failing task, a refused
  request and an unreadable status are separate branches. The container page has
  no Reinstall, and its Scale needs no stop.
* `VolumeDialogs`: `request` is what a dialog waits for, `work` what each request
  makes the backend do, and neither needs the other. `AddVMDisk` picks a slot
  (`Picks`, `NoSlotFree`); Proxmox accepts the call or refuses it (`Accepted`,
  `Refused`), and the handler answers; the task, whose UPID is dropped, ends later, well
  or not (`TaskDone`, `TaskFails`), and nothing tells the dialog. `GivesUp` ends the
  dialog's wait (`proxmox/client.go:34`: 30 s) and leaves the work alone: what it asked
  for may still be carried out, after any number of other requests. `Leave` leaves the
  page in the middle of any of this.
* `BackupDialog`: a request is sent, carried out and answered in three steps; those
  that change something then ask for the list again. `Removed` and `Rescheduled` are
  other browsers and Proxmox's retention; `NotThere` is a request for what they have
  removed in the meantime.

### Faulty variants

Some definitions have a sibling that the specification does not use
(`EnqueueInFront`, `SawOkOrGaveUp`, `ClosesAnyTime`...). Each is the definition as a
plausible slip would leave it. Putting one in the place of its original makes TLC find
the property violated that `PROJECT.json` (`mutants`) names for it, which shows that
the property depends on that piece of code.

## 3. What is checked

### Runs that pass

| run | instance | shows |
|---|---|---|
| `JobEvents_vm` | VM script with extra volumes (7 steps), 2 streams, buffer of 2; 2.1 million states | types; `ClientNeverGoesBack`, `OutcomeIsFinal`, `ReadyCarriesAddress` although full buffers drop events and the list moves under the sender; `ImplementsLifecycle` |
| `JobEvents_list` | backup, 3 streams, buffer of 16, fair; 1.0 million states | `ListIsExact`: in-place removal and reuse of capacity lose and duplicate nobody; `Delivered`: each report reaches every stream unless a removal raced with the sends; `SubscribedStreamEnds`: a stream subscribed while the job runs ends |
| `JobPipeline_vmids` | container and restored copy (both with automatic VMIDs) beside an in-place restore; users start, stop and delete; 867 824 states | types; `OneGuestPerVmid`: of two successes under one VMID at least one has seen its guest deleted, so a VMID handed out twice costs a failed job; `CompletedMeansDone`; `ImplementsLifecycle` |
| `JobPipeline_inplace` | backup and two in-place restores of one guest, which users delete and make again, fair; 144 366 states | `RestoreNeedsDelete`, `QuietAfterOutcome` under lost answers, expired waits and users; `JobsEnd`: every job whose message is not lost gets an outcome, also behind others and with tasks that hang |
| `JobsClient_list` | two jobs of one guest; one lost connection, one refresh, one restart; fair; 164 750 states | types; `WatchedWhileActive`, `ShownOutcomeIsReal`, `ShownNeverGoesBack`; `RefreshChangesNothing`: the page finds the same job for a guest after a refresh, if its jobs did not overlap; `ListedJobEnds`: the outcome is shown unless the backend forgot the job or the stream fell into the gap of `JobEvents_gap` |
| `CreateForm_dialog` | 2 templates on 2 nodes, one extra volume, 3 edits, 2 requests; fair; 1.9 million states | types; `OneGuestAtATime` over closing, reopening and clearing, in each visit of the page; `ShownPasswordWasSent`, a job without a password included; `DiskIsChecked`: whatever list is shown, the check has counted the OS disk; `TicksStay`: the dialog's own order of steps agrees with the worker's; `RefreshesStop` |
| `GuestPage_vm` | both pages; 2 operations, 1 by others, 2 faults, 2 polls in flight, waits of 2 tries; fair; 150 063 states | types; `OneOperation`: several independent flags add up to one operation at a time; `StoppedIsTold`, `DeletedIsTold`; `StatusConverges`: overlapping polls come to show the truth; `OperationsEnd` although Proxmox's tasks may hang |
| `GuestDialogs_page` | 2 browsers with 2 slots and 2 sizes; one archive, one schedule and one change by others; 1.4 million states | types; `NoDiskReplaced`: the slot search is right, however late the disk is attached, unless two requests picked the same slot; `DoneIsTrue`: done is said of what Proxmox accepted, and the disk is there when the task has ended well; `FreshResizeSucceeds`: the dialog's check is not weaker than Proxmox's; `WorkingIsTrue`; `OfferedExists` and `SchedulesSettle`, with the exceptions they name |

Properties with an exception (`raced`, `unsettled`, `others`, `retyped`, `deleted`)
state how far the code goes: the exception is a window the code leaves open, recorded by
a history variable, and the property says that nothing goes wrong outside it. The
exceptions are:

* `raced`: two requests picked the same slot before the first was over, two browsers'
  or one's own, whose first try had timed out. The second disk then replaces the first.
* `unsettled`: a request of the backup dialog failed, or two of its lists crossed; an
  old list then stays shown.
* `others`, and archives `removed`: what others changed after the list was read. An
  archive that another browser or retention removed is offered until the next list.
* `retyped`: a job without a password, and one typed while its request was on its
  way. The panel then shows a password nobody sent (`CreateFromTemplateModal.tsx:282`).
* `deleted`: the list of jobs keeps a completed job when its guest is deleted.

### Runs that find a disagreement

Each states what a comment or a document of the repository says.

| run | said | what happens |
|---|---|---|
| `JobEvents_gap` | handlers/jobs.go:41, a stream lasts "until it completes or client disconnects" | a job that ends between the snapshot (:44) and `Subscribe` (:75) has published to nobody; the stream waits for ever |
| `JobEvents_panic` | store.go:125 "Call Unsubscribe when done." | closing a channel between the copy of the list and the send makes the publisher panic |
| `GuestDialogs_done` | CONTRIBUTING.md:91 "Async Proxmox operations return UPIDs — always use `WaitForTask()` to track completion" | `AddDisk` and `ResizeDisk` (proxmox/vms.go:99-134) drop the UPID: the dialog says done before the disk is there, and when its task fails |
| `JobsClient_credentials` | README.md:49 "Build credentials persisted in localStorage (survives page refresh)" | `addJob` (JobsContext.tsx:103) stores every job's build information under the guest; a backup's has no credentials and replaces those of the guest's creation |

Known limits that the models contain and no run is about: `SetIP` notifies nobody
(`ReadyCarriesAddress` shows that clients still get the address), core NATS loses
messages (`Lose`; the job stays pending), two requests may be given the same VMID
(`OneGuestPerVmid` shows what that costs), a subscriber can be skipped by an
event while another leaves (`raced` in `Delivered`), two requests may pick the same slot
(`raced` in `NoDiskReplaced`), and who leaves the page of the create dialog and comes
back may ask for a second guest while the first is made (`visit` in `OneGuestAtATime`).

### Bounds

* **Streams.** The list has a position before, at and after a removal and grows
  1, 2, 4: three streams reach a removal in front of the reader, reuse of freed
  capacity and a replaced array that is still being read. Two suffice where only
  one stream's view of the job matters.
* **Buffer.** 16 as in the code, where no kind of job makes enough reports to fill
  it; 2 in `JobEvents_vm`, so that the `default` branch is taken.
* **Jobs and VMIDs.** Two jobs on one subject and one on another give queueing and
  parallel work; the VMID after the one existing guest (`LastVmid = 2`) is the one that
  two automatic requests may both be given, or one after the other when the first guest
  was deleted. `Allocate` waits when there is no room: only the bound does this.
  `Others` says under which VMIDs users make guests without a job: the existing one in
  the in-place run, where a restore may find it taken again; none beside automatic
  VMIDs, where a third guest would only fail the jobs.
* **Browser's list.** Two jobs of one guest are the least that give
  `getJobByVmid` a choice; the second starts before or after the first has ended.
  One report before the outcome (`Steps = 1`) distinguishes pending, running and over;
  one loss, refresh and restart happen at any moment and in any order.
* **Create dialog.** Two templates on different nodes give late answers a wrong
  node; one of the two storages is shared and has room for different disks on the
  two nodes; three edits reach a changed password, template and volume in one form, or a
  visit that is left and begun again; a second request follows the first one's failure,
  its guest or the leaving of the page.
* **Guest page.** Two operations meet each other and one of somebody else; two polls
  are the least that can be answered in the other order; the 30 tries of a wait are 2,
  enough for one to fail and one to succeed; two faults allow an operation and its
  repair to fail both.
* **Dialogs.** One free slot is what two requests can both pick, of two browsers or
  of one that has given the first up; two sizes make a disk grow once. Two openings, two
  requests and one error let every pair of the backup dialog's lists cross; one archive
  and one schedule, with one change by others (`MaxOthers`), are what such a list is
  wrong about. Disks and backups share nothing but the page, so a behaviour uses one of
  the two.
* Of every module but `GuestDialogs`, which only puts two together, the proofs of
  section 4 remove these bounds for most safety properties.
* **Symmetry** of streams, browsers and archives is used in safety runs only. The
  jobs differ in kind, so they are not symmetric.
* Deadlock is not reported: when every job and stream is over, or every bound used
  up, the system stops.

### Fairness

* `JobEvents`: weak fairness of the publisher as a whole and of each handler. The
  worker's calls all end (30 s requests, bounded waits), critical sections are
  finite, a send never blocks (`default`), and a handler waits for nothing but its
  channel. Browsers need neither connect nor leave, so `ClientGone` does not help a
  stream to end. There is no fairness between reporting a step and failing: both are
  allowed, one must happen.
* `JobPipeline`: weak fairness of each submit handler, of delivery to an idle
  subscription and of each callback. Nothing is assumed of Proxmox: a task may run for
  ever and its guest may never start, which is why a wait needs its time-out
  (`SawFailureOnly`, a wait without one, breaks `JobsEnd`).
* `JobsClient`: the worker goes on, the backend accepts and subscribes, events
  arrive, an `EventSource` reports its end, the retry timer fires. Losses, refreshes,
  restarts and the user are free.
* `CreateForm`: only the timers and the answer to a refresh; no request or job
  has to end.
* `GuestPage`: the interval ticks, status requests are answered (each kind of
  answer, since requests in flight are counted by it), and the handlers go on because
  every request and every wait in them is bounded. None for the user, for other users
  or for Proxmox's tasks.
* `GuestDialogs` states safety only.

## 4. What is proved

### JobEvents_proofs

For every finite or infinite set of streams, every script that satisfies
`ScriptAssumption`, every buffer size:

| theorem | property |
|---|---|
| `TypeCorrect` | `TypeOK`; in particular the publisher's index stays within the array it reads, whichever array that is |
| `NeverBack` | `ClientNeverGoesBack` |
| `OutcomesAreFinal` | `OutcomeIsFinal` |
| `AddressIsShown` | `ReadyCarriesAddress` |
| `Refinement` | `ImplementsLifecycle`: every step is a step of `JobLifecycle` or leaves its variables alone |
| `ListCorrect` | `ListIsExact` |
| `ReportsReach` | `Delivered`, if a buffer holds as many events as the script has steps (`Len(Script) <= ChanCap`) |
| `OnlyGapHangs` | `HangsOnlyInGap`, under the same condition: of the streams of a job that is over, those in their loop with nothing left to read subscribed after the outcome |
| `OnlyRemovalsPanic` | `NoPanic`, of the behaviours in which no removal ends while a report is being sent |

Assumptions: `ScriptAssumption` (the worker reports steps with growing percentages, at
least one before `ready`, which is the last; TLC evaluates it for the scripts of
`JobTypes`) and `StreamAssumption` (`NoStream` is not a stream, the buffer is not
empty). For the first five results and `ListCorrect` the code's 16 could be any positive
number. `ReportsReach` needs it to be at least the number of steps; the longest script
of the code has seven.

The argument. `TypeOK` is not inductive: that a slot moved by `MoveSlot` comes from
inside the old array needs `LockInv`, which ties `shift` to `slots` while the lock is
held. `TypeInv` is both. `WorkerInv` ties `next` to the job's step, so that the next
report has a larger percentage. `EventInv` is the heart: every event in flight,
whether in a handler's `last`, in a buffer or in the publisher's hands, was true of
the job when it was made and is not contradicted since (`EventOK`); buffers are
sorted by rank behind `last`; the event being sent has the job's present rank, so it
goes to the end of every buffer; and a stream that has not subscribed is in no array
anyone reads, not the store's, not the replaced one and not the one being copied
(`OnlySubscribed`), so its snapshot cannot be overtaken by an older event. The last
part is needed because the publisher reads arrays without the lock: the proof does not
use which stream a racing read finds, only that it has subscribed. The invariant is
`Inv == TypeInv /\ WorkerInv /\ EventInv`; each conjunct has a lemma with one case per
action. `EventOKStable` carries events over a step of the job; `NextSendInv`,
`NextStreamInv` and `NextSlotInv` do the three parts of `EventInv`.

*The list.* While the lock is free the first `nsubs` slots are the members of the list,
each once (`Listed`). A removal destroys that store by store, so `ListInv` keeps it of
the copy the moves read from (`shift.from`), and `Moved(i)` says of the array itself
that a slot whose store is still to do has its old element and one whose store is done
has its successor's. When nothing is left to do, the array is the copy with its `i`-th
element taken out, which `ListedRemove` shows to be a list of the remaining members;
`ListedAppend` is its counterpart for `Subscribe`, with or without a new array.

*What a report reaches.* `ListInv` says that the copy taken by a report has every stream
that is in its loop. From then on each stream in its loop is up to date or due
(`DueInv`): it stands at a position the publisher has not come to yet. Four things could
break this, and each has its part of the invariant. A full buffer: a channel has at most as
many events as reports were made, and fewer at the positions ahead (`RoomInv`), which
needs those to be different streams (`AheadInv`). An append that reuses a slot the
publisher has still to read: positions where a stream is due lie within the list
(`Due`), and append writes behind it. An append that replaces the array: the
publisher keeps the old one, which has the same elements (`SubscribedAhead`). A removal:
`Delivered` excepts one whose stores a racing publisher could see, and a removal without
stores took the last element, so the list stays long enough for all the others
(`StillInv`, `CloseReaches`). The exception is the code's own: the run `events_panic`
shows what comes of sending without the lock.

*The two disagreements.* `OnlyGapHangs` and `OnlyRemovalsPanic` say that the runs
`events_gap` and `events_panic` have found the only cause of what they show. A stream
that is told no outcome subscribed after it, between the handler's snapshot and its
`Subscribe` (`ReportsReach`, and `LoopInv`: a handler leaves its loop once it has
written an outcome). A send on a closed channel needs a `Close` during the sends of a
report: without one, every position ahead holds a stream that is open (`OpenInv`).

### JobPipeline_proofs

For every set of jobs of any kinds, every choice of VMIDs and every set of guests,
from `PipelineAssumption` alone (constants have their types, VMIDs are positive):

| theorem | property |
|---|---|
| `TypeCorrect` | `TypeOK`; in particular no callback runs past the end of its script |
| `DeleteBeforeRestore` | `RestoreNeedsDelete` |
| `CompletionIsReal` | `CompletedMeansDone` |
| `GuestsAreUnique` | `OneGuestPerVmid` |
| `QuietCorrect` | `QuietAfterOutcome` |
| `Refinement` | `ImplementsLifecycle`, for each job |

The argument. `TypeInv` adds to `TypeOK` where a job can be (`PlaceInv`: only a step
with a task is called or waited for, a job with an outcome is over, a completed one at
its last step) and that a message is queued once, under its own subject, while its job
waits (`QueueInv`): without it a delivery could restart a job. On top of it:

* `AskedInv`: a task exists only if its step has been reached and its request made;
  as scripts repeat no step (`ScriptOrder`), each task is asked for once
  (`StartIsNew`), and one that is done stays done (`OkStays`).
* `DoneInv`: a step whose errors are fatal is left behind only with its task done.
  With `AskedInv` this is `RestoreNeedsDelete`, and for a completed job the first
  half of `CompletedMeansDone`.
* `LastInv`: a task that is still running is the last one asked for, because
  Proxmox runs one at a time on a guest. Every task whose errors are only logged comes
  before one whose errors are fatal (`LoggedBeforeFatal`), so it cannot still be running
  when that one is done: the second half.
* `VmidInv`, `TasksInv`, `GuestInv`: a stored job knows its VMID; a guest has one task
  running at a time, and while it is being made its VMID is occupied; a job that has
  made its guest finds it standing under its VMID, or is in `deleted`; and of the jobs
  whose guest stands under a VMID there is one. The steps that change a guest are put
  in lemmas of their own: `GuestChange` says what any step may do to one (a task
  starts or ends, or a user acts), `RunningStep` that a task which runs afterwards ran
  before or has just been accepted, `StandingStep` that a guest goes only with its jobs
  entering `deleted`. No assumption is made of users but that Proxmox's lock keeps them
  off a guest a task is working on.
* `ShownInv`, for the refinement: the store shows the step the callback reported
  last, so with `ScriptGrows` the next report has a larger percentage.

`TaskStep`, `AtStep`, `VmidStep` and `ShownStep` say once what any step of the system
may do to a task, a job's place, its VMID and what is shown of it; the invariants are
preserved by these and not by a case for each action every time.

### JobsClient_proofs

For every set of jobs and guests, any number of steps and any number of losses,
refreshes and restarts, from `JobsAssumption` alone:

| theorem | property |
|---|---|
| `TypeCorrect` | `TypeOK` |
| `WatchCorrect` | `WatchedWhileActive` |
| `OutcomeCorrect` | `ShownOutcomeIsReal` |
| `NeverGoesBack` | `ShownNeverGoesBack` |
| `RefreshCorrect` | `RefreshChangesNothing` |

The argument. `StreamInv` relates closure, connection, timer and wire: a connection
exists only for an open closure, and an open closure has a connection or a timer.
`ProgressInv` puts what is shown, what is on the wire and the store's record in order:
each event on its way is behind the record, not behind what is shown, and the wire is
sorted; a snapshot taken later is therefore never older than what is shown.
`InfoInv`: localStorage has a listed job of the guest with no other listed job in front
of it, unless the guest's jobs overlapped.

### CreateForm_proofs

For every set of templates, nodes, storages and passwords, every assignment of lists
and room to the nodes, every script and every number of edits, requests and refreshes,
from `FormAssumption` alone:

| theorem | property |
|---|---|
| `TypeCorrect` | `TypeOK` |
| `OneGuest` | `OneGuestAtATime` |
| `PasswordShown` | `ShownPasswordWasSent` |
| `DiskChecked` | `DiskIsChecked` |
| `TicksGrow` | `TicksStay`, if the script is one of the jobs the dialog makes: a VM with or without extra volumes, or a container |

The argument. No single flag of the code says that a guest is being made; `OneInv` says
how they add up for the dialog that is mounted: it has at most one request, while that
is on its way `submitting` is set and no job is shown, and a listed job of this visit
that has not ended is the one shown. The form needs both `~ submitting` and no job
shown, and a reset, the only way to forget the job shown, happens after its outcome or
when the page is left; requests and jobs of earlier visits (`madeIn`) are one each and
are not disturbed any more. `PasswordInv` relates what a job's record says to what its
request carried, and for a job shown that carried none says that the form has none
either, unless it was changed while the request was on its way (`retyped`): the
progress view hides the inputs from then on. `ChoiceInv` (the storage chosen is one of
the list shown, whenever that is not empty) is what the capacity check relies on without
testing it: `Fits` skips storages that are not in the list. `TicksGrow` cannot hold for
every script, since the dialog has a list of steps of its own; `ScriptsFollow` compares
the two for the three kinds of job, `StepInv` keeps the job shown at a step of its
script, and `LaterTicks` says that going on in such a script unticks nothing.

### GuestPage_proofs

For both pages and every number of operations, other users' operations, faults, polls
and tries, from `PageAssumption` alone:

| theorem | property |
|---|---|
| `TypeCorrect` | `TypeOK` |
| `OneAtATime` | `OneOperation` |
| `StoppedTold` | `StoppedIsTold` |

The argument. `OneInv`: the power buttons' request, the confirmation and the open dialog
exclude each other, a handler of a dialog that is at work has its dialog open and in
the phase `working` as long as the page is there, and after leaving nothing new can
begin. `StrandedInv`: as long as the VM the scaling stopped does not run, the scaling is
between its stop and the end of its start, or has ended, and not well. The start's task
is the only way to `done` from there, and its success means that the guest runs.
`OneWorks`, `ScaleWorks`, `ReinstallWorks` and `TaskWorks` say once what a handler's step
does to the page.

### VolumeDialogs_proofs

For every number of browsers, slots, sizes, requests and errors, from
`VolumeAssumption` alone:

| theorem | property |
|---|---|
| `TypeCorrect` | `TypeOK` |
| `SlotIsFree` | `NoDiskReplaced` |
| `DoneIsReal` | `DoneIsTrue` |
| `FreshIsAccepted` | `FreshResizeSucceeds` |

The argument. Every invariant is about `work`, what a request makes the backend do, and
not about the dialog that may have given it up or gone. `SlotInv`: as long as nobody
raced for a slot, one request aims at it and it is free. A disk can only grow in a slot
that has one, so a resize does not disturb it; picking it again is a race. `SizeInv`: a
task that ended well has left a disk of its size, and disks only grow, since a resize
whose task comes too late to grow the disk does nothing. `SaysInv` ties a dialog's done
to a request that was accepted; `FreshInv` keeps the size a resize went by the disk's
until another task changes that disk (`Stale`). `BackendStep` says once what the steps
of the backend leave alone of the pages, `PageStep` what those of the pages leave alone
of the backend. That the slot search finds a free slot (`PickedSlot`) needs that a
set of slots has a smallest one: `SmallestSlot` derives it from the library's theorem
that strict inclusion of finite sets is well-founded, applied to the intervals
`0 .. s`.

### BackupDialog_proofs

For every set of archives and schedules and every number of openings, requests and
errors, from `BackupAssumption` alone:

| theorem | property |
|---|---|
| `TypeCorrect` | `TypeOK` |
| `FlagIsTrue` | `WorkingIsTrue` |
| `OfferedIsThere` | `OfferedExists` |
| `SchedulesRight` | `SchedulesSettle` |

The argument. `BackupsInv`: unless a request failed or two answers crossed, the backups
shown are there or were removed by others, not by this dialog (`Kept`), or the list that
follows a deletion is still to come; and a list on its way back names only such backups
or is older than that one. An archive removed by others cannot be deleted by the dialog
afterwards (`NotThere`), so `Kept` is lost by a deletion of this dialog alone. Since the
flag stays set until the deletion's own list has arrived (`WorkInv`), nothing that the
dialog deleted is offered. `SchedulesInv` is the same for the schedules, where openings
fetch the list too, and up to those that others changed since (`others`).

### GuestDialogs_proofs

For the page that has both kinds of dialogs, from `DialogsAssumption` (the assumptions of
the two):

| theorem | property |
|---|---|
| `ImplementsEach` | every behaviour of `GuestDialogs` is one of `VolumeDialogs` and one of `BackupDialog` |
| `TypeCorrect` | `TypeOK` |
| `SlotIsFree`, `DoneIsReal`, `FreshIsAccepted` | `NoDiskReplaced`, `DoneIsTrue`, `FreshResizeSucceeds` |
| `FlagIsTrue`, `OfferedIsThere`, `SchedulesRight` | `WorkingIsTrue`, `OfferedExists`, `SchedulesSettle` |

The argument. A step of the page is a step of the dialogs in use and leaves the variables
of the others alone (`StepOfEach`), so each module's specification, which allows
stuttering, holds of the composition, and with it every theorem of the module. The proof
modules are instantiated beside the modules themselves; `SameDisks`, `SameBackups` and
the two lemmas after them say that both instances mean the same. Nothing about the
dialogs is proved again.

### Only model-checked

Every invariant and every action property of a passing run is also a theorem. What
remains with TLC is liveness (`SubscribedStreamEnds`, `JobsEnd`, `ListedJobEnds`,
`RefreshesStop`, `StatusConverges`, `OperationsEnd`, `DeletedIsTold`): it rests on
fairness, and so on `ENABLED`, which this prover does not do. Their safety half is
proved where it can be said without fairness: `OnlyGapHangs` for
`SubscribedStreamEnds`, `WatchCorrect` for `ListedJobEnds`.

## 5. What is left out

* Texts: error messages, names, notes, timestamps, logging, the format of an event.
  `JobID` is constant in `JobEvents`; the error text accompanies a failure.
* `GET /api/jobs` and `/api/jobs/:id` read a copy under the lock and change nothing.
* Request parsing and validation; the guest's name look-up before a backup.
* A message that cannot be decoded: the handlers marshal the same structure.
* In `JobEvents`, NATS: the worker is assumed to start; `JobPipeline` drops that.
* In `JobPipeline`: several nodes, storages and archives; the guest that is cloned,
  which is only read; a restart of the backend, which `JobsClient` has. Guests made
  without a job are bounded by `Others`.
* In `CreateForm`: name, target node, network, cores, memory and user-data, which only go
  into the request. The target node is worth a word: the dialog lists and checks the
  storages of the template's node, and the guest may be made on another
  (`CreateFromTemplateModal.tsx:82`, `:219`, `:319-327`), of which nothing is checked.
  `DiskIsChecked` is about the list that is shown and says nothing of that node; nor of
  a request made while the list is empty, whose room is not checked at all.
* In `GuestPage`: the sizes and the template chosen, and the displays of resources and
  addresses. A status request that fails for any reason looks to the reinstall like a
  guest that is gone, as in the code.
* In `VolumeDialogs`: a container's mount path. `AddContainerVolume` has the slot search
  of `AddVMDisk` over `mp0` to `mp255` and no model of its own.
* In `BackupDialog`: leaving the page. The dialog that is mounted on coming back starts
  as `Init` has it, and what the old one had asked for comes about as a change by others.
  What others do is bounded by `MaxOthers`. The confirmation of a restore that is open
  while its archive goes is listed as a hazard without a property.
* `CloneModal` (one request, whose answer closes the dialog of whichever template is
  open by then) is listed as a hazard without a property. `ConfigureContainerNetwork`
  reads, modifies and writes a line of the configuration of a container that only the
  worker knows yet.
* Guest agent and SSH execution: what a script that runs twice does is outside. Of the
  tasks whose UPID the code discards, those of the disk dialogs are modelled;
  `SetVMResources`, which `ScaleVM` calls, is taken to be done when it is answered.
* Read-only handlers, wiring, configuration, overview pages: nothing that changes.

## 6. What could follow

In this order: the safety halves of the remaining liveness properties
(`StatusConverges`: with no request in flight the status shown is the newest one
answered; `DeletedIsTold`: a reinstall that deleted the guest stands at a step that goes
on to a job or a failure); `ContainerVolumes` beside `VolumeDialogs`; `TaskWait`, `WaitForTask` with time and
unreadable status, shown to implement the two-outcome wait of `JobPipeline`;
`CloneModal` with the templates page.
