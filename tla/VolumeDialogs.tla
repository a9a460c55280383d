--------------------------- MODULE VolumeDialogs ---------------------------
(***************************************************************************)
(* The Resize Disk and Add Disk dialogs of a VM's page (components/shared/  *)
(* ResizeDiskModal.tsx, AddVolumeModal.tsx), in several browsers at once,   *)
(* and the backend's handlers behind them (ResizeVMDisk and AddVMDisk in    *)
(* backend/handlers/vms.go).  Containers have the same dialogs over their   *)
(* mount points.                                                            *)
(*                                                                          *)
(* The dialogs are mounted with the page and keep their fields while they   *)
(* are closed; the configuration and the storages they offer come from the  *)
(* page's polls, at any time after that or before.                          *)
(*                                                                          *)
(* What a request makes the backend and Proxmox do is kept apart from the   *)
(* dialog that waits for the answer: a call that got no answer may still be *)
(* carried out later, and an accepted one is a task that nobody waits for.  *)
(***************************************************************************)
EXTENDS Naturals, FiniteSets

CONSTANTS
  Browsers,   \* pages of this VM that are open
  LastSlot,   \* scsi0 has the OS disk, scsi1 .. scsi13 take more
  MaxSize,    \* bound: size of a disk
  MaxSubmits, \* bound: requests
  MaxErrors   \* bound: polls, waits and tasks that fail

\* What is assumed of the constants (GuestDialogs).
VolumeAssumption ==
  /\ LastSlot \in Nat \ {0} /\ MaxSize \in Nat \ {0}
  /\ MaxSubmits \in Nat /\ MaxErrors \in Nat

Slots == 0 .. LastSlot
Sizes == 1 .. MaxSize
Configs == [Slots -> 0 .. MaxSize]      \* 0 for a slot that is free
NoConfig == [s \in Slots |-> 0]         \* null: no disk to offer
NoSlot == LastSlot + 1
Ids == 1 .. MaxSubmits
NoId == 0

VARIABLES
  config,     \* the disks the VM has in Proxmox
  seen,       \* vmConfig of each page
  pools,      \* the page has storages to offer
  dialog,     \* the dialog that is open: none, resize or add
  phase,      \* its phase
  selected,   \* selectedDisk of the resize dialog
  size,       \* newSizeGB and sizeGB, 0 for ""
  storage,    \* the add dialog's storage is set
  request,    \* the request it waits for, or whose outcome it shows
  work,       \* what each request has the backend do, and how far that is
  sent,       \* requests so far
  fresh,      \* history: resizes whose page had the disk's size, as it still is
  refused,    \* history: resizes that Proxmox found too small
  raced,      \* history: slots picked while another request was about to use them
  replaced,   \* history: slots where a disk was attached over another
  errors      \* what the bound leaves

formVars == <<dialog, phase, selected, size, storage>>
history == <<fresh, refused, raced, replaced>>
vars == <<config, seen, pools, formVars, request, work, sent, history, errors>>

NoWork == [op |-> "none", slot |-> NoSlot, size |-> 0, at |-> "over"]

-----------------------------------------------------------------------------
(* Faulty variants of definitions below; the specification does not use     *)
(* them.                                                                    *)

SizeTyped(b) == size[b] # 0
NotSmaller(b) == size[b] >= seen[b][selected[b]]
DoneAnyhow(ok) == "done"
AllSlots(c) == Slots \ {0}

-----------------------------------------------------------------------------
(* The forms *)

\* parseDiskInfo: the disks with a size, in the order of the configuration.
Disks(c) == {s \in Slots : c[s] # 0}
First(c) == IF Disks(c) = {} THEN NoSlot
            ELSE CHOOSE s \in Disks(c) : \A t \in Disks(c) : s <= t

\* The option a <select> displays when its value is none of them.
Displayed(b) ==
  IF selected[b] \in Disks(seen[b]) THEN selected[b] ELSE First(seen[b])

\* defaultDisk, at the mount and at every close.
DefaultDisk(b) == First(seen[b])

\* sizeNum > minSize, where minSize is 1 for a disk that is not listed.
MinSize(b) ==
  IF selected[b] \in Disks(seen[b]) THEN seen[b][selected[b]] ELSE 1
Grows(b) == size[b] > MinSize(b)

\* The size the form goes by is the disk's.
UpToDate(b) ==
  selected[b] \in Disks(seen[b]) /\ seen[b][selected[b]] = config[selected[b]]

\* The outcome the dialog shows until it is closed.
SaysDone(b) == phase[b] = "done"

\* try to its end, or catch.
Outcome(ok) == IF ok THEN "done" ELSE "failed"

Fails == errors > 0 /\ errors' = errors - 1

Init ==
  /\ config = [s \in Slots |-> IF s = 0 THEN 1 ELSE 0]
  /\ seen \in [Browsers -> {NoConfig, config}]
  /\ pools \in [Browsers -> BOOLEAN]
  /\ dialog = [b \in Browsers |-> "none"]
  /\ phase = [b \in Browsers |-> "confirm"]
  /\ selected = [b \in Browsers |-> First(seen[b])]
  /\ size = [b \in Browsers |-> 0]
  /\ storage = pools
  /\ request = [b \in Browsers |-> NoId]
  /\ work = [i \in Ids |-> NoWork] /\ sent = 0
  /\ fresh = {} /\ refused = {} /\ raced = {} /\ replaced = {}
  /\ errors = MaxErrors

\* The page's poll of the configuration: null after an error.
ConfigPolled(b) ==
  /\ \/ seen' = [seen EXCEPT ![b] = config] /\ UNCHANGED errors
     \/ Fails /\ seen' = [seen EXCEPT ![b] = NoConfig]
  /\ UNCHANGED <<config, pools, formVars, request, work, sent, history>>

\* The page's poll of the storages: none after an error.
StoragesPolled(b) ==
  /\ \/ pools' = [pools EXCEPT ![b] = TRUE] /\ UNCHANGED errors
     \/ Fails /\ pools' = [pools EXCEPT ![b] = FALSE]
  /\ UNCHANGED <<config, seen, formVars, request, work, sent, history>>

\* Fields that are not in the other dialog's way: its size starts at "20".  The
\* bound on requests bounds the openings too.
Open(b, d) ==
  /\ dialog[b] = "none"
  /\ sent < MaxSubmits
  /\ dialog' = [dialog EXCEPT ![b] = d]
  /\ size' = [size EXCEPT ![b] = IF d = "add" THEN 1 ELSE 0]
  /\ UNCHANGED <<config, seen, pools, phase, selected, storage, request, work, sent,
                 history, errors>>

\* onChange of the disk's <select>: only another option than the displayed.
PickDisk(b, s) ==
  /\ dialog[b] = "resize" /\ phase[b] = "confirm"
  /\ s \in Disks(seen[b]) \ {Displayed(b)}
  /\ selected' = [selected EXCEPT ![b] = s]
  /\ size' = [size EXCEPT ![b] = 0]
  /\ UNCHANGED <<config, seen, pools, dialog, phase, storage, request, work, sent,
                 history, errors>>

TypeSize(b, n) ==
  /\ dialog[b] # "none" /\ phase[b] = "confirm"
  /\ size[b] # n
  /\ size' = [size EXCEPT ![b] = n]
  /\ UNCHANGED <<config, seen, pools, dialog, phase, selected, storage, request, work,
                 sent, history, errors>>

\* The button works: a disk and a size, or a storage and a size.
CanResize(b) ==
  Disks(seen[b]) # {} /\ selected[b] # NoSlot /\ size[b] # 0
CanAdd(b) == pools[b] /\ storage[b] /\ size[b] # 0

Sends(b, op, slot) ==
  /\ sent < MaxSubmits
  /\ sent' = sent + 1
  /\ request' = [request EXCEPT ![b] = sent']
  /\ work' = [work EXCEPT ![sent'] =
                 [op |-> op, slot |-> slot, size |-> size[b], at |-> "sent"]]
  /\ phase' = [phase EXCEPT ![b] = "working"]

\* handleResize: a size that does not grow the disk stays in the form.
Resize(b) ==
  /\ dialog[b] = "resize" /\ phase[b] = "confirm"
  /\ CanResize(b)
  /\ Grows(b)
  /\ Sends(b, "resize", selected[b])
  /\ fresh' = IF UpToDate(b) THEN fresh \cup {sent'} ELSE fresh
  /\ UNCHANGED <<config, seen, pools, dialog, selected, size, storage,
                 refused, raced, replaced, errors>>

\* handleAdd
Add(b) ==
  /\ dialog[b] = "add" /\ phase[b] = "confirm"
  /\ CanAdd(b)
  /\ Sends(b, "add", NoSlot)
  /\ UNCHANGED <<config, seen, pools, dialog, selected, size, storage, history, errors>>

\* What either dialog's handleClose makes of its form.
ResizeCleared(b) ==
  /\ selected' = [selected EXCEPT ![b] = DefaultDisk(b)]
  /\ UNCHANGED storage
AddCleared(b) ==
  /\ storage' = [storage EXCEPT ![b] = pools[b]]
  /\ UNCHANGED selected

\* The dialog as it is when it opens the next time.
Idle(b) ==
  /\ dialog' = [dialog EXCEPT ![b] = "none"]
  /\ phase' = [phase EXCEPT ![b] = "confirm"]
  /\ size' = [size EXCEPT ![b] = 0]
  /\ request' = [request EXCEPT ![b] = NoId]

\* handleClose of either dialog; the refresh that follows is of the status.
Close(b) ==
  /\ dialog[b] # "none"
  /\ phase[b] # "working"
  /\ Idle(b)
  /\ IF dialog[b] = "resize" THEN ResizeCleared(b) ELSE AddCleared(b)
  /\ UNCHANGED <<config, seen, pools, work, sent, history, errors>>

\* The page is left, during a request too, and opened again with nothing loaded.
Leave(b) ==
  /\ Idle(b)
  /\ seen' = [seen EXCEPT ![b] = NoConfig]
  /\ pools' = [pools EXCEPT ![b] = FALSE]
  /\ selected' = [selected EXCEPT ![b] = NoSlot]
  /\ storage' = [storage EXCEPT ![b] = FALSE]
  /\ UNCHANGED <<config, work, sent, history, errors>>

-----------------------------------------------------------------------------
(* The backend *)

\* The dialog that waits for request i gets its answer; there may be none left.
Answered(i, ok) ==
  phase' = [b \in Browsers |->
              IF request[b] = i /\ phase[b] = "working" THEN Outcome(ok) ELSE phase[b]]

Goes(i, at) == work' = [work EXCEPT ![i].at = at]

\* A disk of that slot changes: no page's size of it is fresh any more.
Stale(s) == {i \in fresh : work[i].slot = s}

pages == <<seen, pools, dialog, selected, size, storage, request, sent>>

\* The slots AddVMDisk tries, from scsi1 on.
Free(c) == {s \in Slots \ {0} : c[s] = 0}
FirstFree(c) == CHOOSE s \in Free(c) : \A t \in Free(c) : s <= t

\* Requests that have picked slot s and may yet attach a disk there.
Aims(i, s) ==
  work[i].op = "add" /\ work[i].slot = s /\ work[i].at \in {"picked", "task"}

\* AddVMDisk finds no free slot in the configuration it reads.
NoSlotFree(i) ==
  /\ work[i].op = "add" /\ work[i].at = "sent"
  /\ Free(config) = {}
  /\ Goes(i, "over")
  /\ Answered(i, FALSE)
  /\ UNCHANGED <<config, history, errors, pages>>

\* AddVMDisk reads the configuration and picks the first free slot.
Picks(i) ==
  /\ work[i].op = "add" /\ work[i].at = "sent"
  /\ Free(config) # {}
  /\ work' = [work EXCEPT ![i].at = "picked", ![i].slot = FirstFree(config)]
  /\ raced' = IF \E j \in Ids : Aims(j, FirstFree(config))
                THEN raced \cup {FirstFree(config)} ELSE raced
  /\ UNCHANGED <<config, phase, fresh, refused, replaced, errors, pages>>

\* ResizeDisk and AddDisk have something for Proxmox to accept.
Called(i) ==
  \/ work[i].op = "resize" /\ work[i].at = "sent"
  \/ work[i].op = "add" /\ work[i].at = "picked"

\* Proxmox accepts the call and starts a task; ResizeDisk and AddDisk drop its
\* UPID, and the handler answers that the disk was resized or attached.
Accepted(i) ==
  /\ Called(i)
  /\ Goes(i, "task")
  /\ Answered(i, TRUE)
  /\ UNCHANGED <<config, history, errors, pages>>

\* The disk is there and would grow.
Larger(i) ==
  config[work[i].slot] # 0 /\ work[i].size > config[work[i].slot]

\* Proxmox refuses to shrink a disk, or to resize one that is not there.
Refused(i) ==
  /\ work[i].op = "resize" /\ work[i].at = "sent"
  /\ ~ Larger(i)
  /\ Goes(i, "over")
  /\ refused' = refused \cup {i}
  /\ Answered(i, FALSE)
  /\ UNCHANGED <<config, fresh, raced, replaced, errors, pages>>

\* The dialog's wait ends without the answer: the client's 30 s are over, a
\* connection breaks, or an error.  Proxmox may still accept the call, or never.
GivesUp(i) ==
  /\ work[i].at \in {"sent", "picked"}
  /\ Fails
  /\ Answered(i, FALSE)
  /\ UNCHANGED <<config, work, history, pages>>

\* The task ends well: the disk has the size, or is in the slot, whatever was
\* there.  A resize that came too late to grow the disk does nothing.
TaskDone(i) ==
  LET s == work[i].slot IN
    /\ work[i].at = "task"
    /\ IF work[i].op = "add" \/ Larger(i)
         THEN /\ config' = [config EXCEPT ![s] = work[i].size]
              /\ fresh' = fresh \ Stale(s)
              /\ replaced' = IF work[i].op = "add" /\ config[s] # 0
                               THEN replaced \cup {s} ELSE replaced
              /\ Goes(i, "done")
              /\ UNCHANGED refused
         ELSE /\ refused' = refused \cup {i}
              /\ Goes(i, "over")
              /\ UNCHANGED <<config, fresh, replaced>>
    /\ UNCHANGED <<phase, raced, errors, pages>>

\* The task fails; nothing tells the dialog.
TaskFails(i) ==
  /\ work[i].at = "task"
  /\ Fails
  /\ Goes(i, "over")
  /\ UNCHANGED <<config, phase, history, pages>>

Next ==
  \/ \E b \in Browsers :
       \/ ConfigPolled(b) \/ StoragesPolled(b)
       \/ \E d \in {"resize", "add"} : Open(b, d)
       \/ \E s \in Slots : PickDisk(b, s)
       \/ \E n \in Sizes : TypeSize(b, n)
       \/ Resize(b) \/ Add(b) \/ Close(b) \/ Leave(b)
  \/ \E i \in Ids :
       \/ NoSlotFree(i) \/ Picks(i) \/ Accepted(i) \/ Refused(i) \/ GivesUp(i)
       \/ TaskDone(i) \/ TaskFails(i)

Spec == Init /\ [][Next]_vars

-----------------------------------------------------------------------------
(* Properties *)

TypeOK ==
  /\ config \in Configs
  /\ seen \in [Browsers -> Configs]
  /\ pools \in [Browsers -> BOOLEAN]
  /\ dialog \in [Browsers -> {"none", "resize", "add"}]
  /\ phase \in [Browsers -> {"confirm", "working", "done", "failed"}]
  /\ selected \in [Browsers -> Slots \cup {NoSlot}]
  /\ size \in [Browsers -> 0 .. MaxSize]
  /\ storage \in [Browsers -> BOOLEAN]
  /\ request \in [Browsers -> 0 .. sent]
  /\ work \in [Ids -> [op : {"none", "resize", "add"},
                        slot : Slots \cup {NoSlot}, size : 0 .. MaxSize,
                        at : {"sent", "picked", "task", "done", "over"}]]
  /\ \A i \in Ids : Called(i) \/ work[i].at \in {"task", "done"}
       => work[i].slot # NoSlot
  /\ sent \in 0 .. MaxSubmits /\ errors \in 0 .. MaxErrors
  /\ fresh \subseteq Ids /\ refused \subseteq Ids
  /\ raced \subseteq Slots /\ replaced \subseteq Slots

\* AddVMDisk's free slot is free when the disk is attached, however late that is,
\* unless another request picked the same slot and was not over yet: one in
\* another browser, or one whose dialog had given it up.
NoDiskReplaced == replaced \subseteq raced

\* A dialog says done of a request that Proxmox accepted, no more: nobody waits
\* for the task.  Once that has ended well, the disk has at least the size the
\* dialog tells, unless two requests picked its slot.
DoneIsTrue ==
  \A b \in Browsers : SaysDone(b) =>
    LET w == work[request[b]] IN
      /\ request[b] # NoId
      /\ w.slot # NoSlot
      /\ w.at \notin {"sent", "picked"}
      /\ w.at = "done" /\ w.slot \notin raced => config[w.slot] >= w.size

\* CONTRIBUTING.md: "Async Proxmox operations return UPIDs - always use
\* WaitForTask() to track completion".  A dialog that says done would then show
\* a request whose task has ended well.  ResizeDisk and AddDisk drop the UPID.
DoneIsTracked ==
  \A b \in Browsers : SaysDone(b) => work[request[b]].at = "done"

\* The resize dialog's own check is as strict as Proxmox's: what it lets through
\* is too small, at the call or later in the task, only for a disk that another
\* request has changed since, or that the page had an old size of.
FreshResizeSucceeds == fresh \cap refused = {}
=============================================================================
