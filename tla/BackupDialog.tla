---------------------------- MODULE BackupDialog ----------------------------
(***************************************************************************)
(* The Backups dialog of a guest's page (components/shared/BackupModal.tsx) *)
(* and what it asks the backend for (backend/handlers/backup.go): the list  *)
(* of backups, the deletion of one, a backup now, a restore in place or as  *)
(* a new guest, and the schedules.                                          *)
(*                                                                          *)
(* The dialog stays mounted while it is closed and can be closed at any     *)
(* time: answers to its requests arrive later, in any order, and change     *)
(* what the next opening shows.  Other browsers, the schedules and Proxmox's *)
(* retention make and remove backups and schedules meanwhile.  Leaving the  *)
(* page is not a step: a dialog that is new starts as Init has it, and what *)
(* the old one had asked for comes about as if another browser had asked.   *)
(* Messages are left out, and where a restore goes: in place or to a new    *)
(* guest.                                                                   *)
(***************************************************************************)
EXTENDS Naturals, FiniteSets

CONSTANTS
  Archives,     \* backups of the guest, once they are made
  NoArchive,    \* no restoreTarget
  Presets,      \* SCHEDULE_PRESETS
  MaxOpenings,  \* bound: openings of the dialog
  MaxRequests,  \* bound: operations started
  MaxErrors,    \* bound: requests that fail
  MaxOthers     \* bound: what others remove or reschedule

\* What is assumed of the constants (GuestDialogs).
BackupAssumption ==
  /\ NoArchive \notin Archives
  /\ Archives \cap Presets = {}
  /\ MaxOpenings \in Nat /\ MaxRequests \in Nat
  /\ MaxErrors \in Nat /\ MaxOthers \in Nat

VARIABLES
  isOpen,     \* the prop of this name
  archived,   \* each archive: to come, there, deleted by this dialog or removed
  cluster,    \* the guest's schedules in Proxmox
  backups,    \* the list of backups shown
  schedules,  \* the list of schedules shown
  working,    \* the flag of this name
  target,     \* restoreTarget
  calls,      \* requests on their way
  others,     \* history: schedules others changed since the list was last read
  unsettled,  \* history: a request failed, or two answers crossed
  left        \* what the bounds leave

proxmox == <<archived, cluster>>
shown == <<backups, schedules>>
vars == <<isOpen, proxmox, shown, working, target, calls, others, unsettled, left>>

There == {a \in Archives : archived[a] = "there"}

\* Operations that set and reset `working`.
WorkingOps == {"delete", "schedule", "unschedule"}

-----------------------------------------------------------------------------
(* Faulty variants of definitions below; the specification does not use     *)
(* them.                                                                    *)

ResetWhenClosed == FALSE
RelistsBackups(op) == op = "delete"
RelistsSchedules(op) == op # "delete"

-----------------------------------------------------------------------------
(* Requests *)

\* Operations that fetch a list again when they are done.
Relists(op) == op \in WorkingOps

\* The list a request ends with.
ListOf(op) == IF op \in {"delete", "backups"} THEN "backups" ELSE "schedules"

\* What the backend answers for it: filtered by the guest's VMID.
Answered(op) == IF ListOf(op) = "backups" THEN There ELSE cluster

Call(op, item) ==
  [id |-> left.requests, op |-> op, item |-> item, at |-> "sent", got |-> {}]
ListCall(op) ==
  [id |-> left.openings, op |-> op, item |-> NoArchive, at |-> "list",
   got |-> {}]

Start(c) ==
  /\ left.requests > 0
  /\ left' = [left EXCEPT !.requests = @ - 1]
  /\ calls' = calls \cup {c}

Goes(c, d) == calls' = (calls \ {c}) \cup {d}
Over(c) == calls' = calls \ {c}

Fails == left.errors > 0 /\ left' = [left EXCEPT !.errors = @ - 1]

\* setWorking(false), in every handler's finally.
Released(c) == working /\ c.op \notin WorkingOps

Init ==
  /\ isOpen = FALSE
  /\ archived \in [Archives -> {"future", "there"}]
  /\ cluster \in SUBSET Presets
  /\ backups = {} /\ schedules = {}
  /\ working = FALSE
  /\ target = NoArchive
  /\ calls = {}
  /\ others = {} /\ unsettled = FALSE
  /\ left = [openings |-> MaxOpenings, requests |-> MaxRequests,
             errors |-> MaxErrors, others |-> MaxOthers]

-----------------------------------------------------------------------------
(* The user *)

\* The effect of isOpen asks for both lists; the old ones stay meanwhile.
Open ==
  /\ ~ isOpen
  /\ left.openings > 0
  /\ isOpen' = TRUE
  /\ left' = [left EXCEPT !.openings = @ - 1]
  /\ calls' = calls \cup {ListCall("backups"), ListCall("schedules")}
  /\ UNCHANGED <<proxmox, shown, working, target, others, unsettled>>

\* What handleClose leaves of the flag: requests go on.
WorkingWhenClosed == working

\* handleClose, at any time.
Close ==
  /\ isOpen
  /\ isOpen' = FALSE
  /\ target' = NoArchive
  /\ working' = WorkingWhenClosed
  /\ UNCHANGED <<proxmox, shown, calls, others, unsettled, left>>

\* The restore button of a backup in the list.
ChooseRestore(a) ==
  /\ isOpen /\ ~ working
  /\ a \in backups
  /\ target' = a
  /\ UNCHANGED <<isOpen, proxmox, shown, working, calls, others,
                 unsettled, left>>

CancelRestore ==
  /\ isOpen /\ target # NoArchive
  /\ target' = NoArchive
  /\ UNCHANGED <<isOpen, proxmox, shown, working, calls, others,
                 unsettled, left>>

\* handleRestore: nothing keeps it from being sent twice.
Restore ==
  /\ isOpen /\ target # NoArchive /\ ~ working
  /\ Start(Call("restore", target))
  /\ UNCHANGED <<isOpen, proxmox, shown, working, target, others,
                 unsettled>>

\* handleBackupNow
BackupNow ==
  /\ isOpen /\ target = NoArchive /\ ~ working
  /\ Start(Call("backup", NoArchive))
  /\ UNCHANGED <<isOpen, proxmox, shown, working, target, others,
                 unsettled>>

\* handleDeleteBackup, also of the backup chosen to be restored.
Delete(a) ==
  /\ isOpen /\ ~ working
  /\ a \in backups
  /\ Start(Call("delete", a))
  /\ working' = TRUE
  /\ UNCHANGED <<isOpen, proxmox, shown, target, others, unsettled>>

\* handleCreateSchedule
Schedule(p) ==
  /\ isOpen /\ ~ working
  /\ Start(Call("schedule", p))
  /\ working' = TRUE
  /\ UNCHANGED <<isOpen, proxmox, shown, target, others, unsettled>>

\* handleDeleteSchedule
Unschedule(p) ==
  /\ isOpen /\ ~ working
  /\ p \in schedules
  /\ Start(Call("unschedule", p))
  /\ working' = TRUE
  /\ UNCHANGED <<isOpen, proxmox, shown, target, others, unsettled>>

-----------------------------------------------------------------------------
(* Answers *)

\* A restore is accepted: its job is listed and the confirmation goes away,
\* whichever backup it is about by now.
RestoreAnswered(c) ==
  /\ c.op = "restore" /\ c.at = "sent"
  /\ Over(c)
  /\ target' = NoArchive
  /\ UNCHANGED <<isOpen, proxmox, shown, working, others, unsettled, left>>

\* A backup is accepted; its archive appears when the job is done.
BackupAnswered(c) ==
  /\ c.op = "backup" /\ c.at = "sent"
  /\ Over(c)
  /\ UNCHANGED <<isOpen, proxmox, shown, working, target, others, unsettled, left>>

\* What Proxmox has done of a request.
Done(c) ==
  CASE c.op = "delete" ->
         archived' = [archived EXCEPT ![c.item] = "deleted"] /\ UNCHANGED cluster
    [] c.op = "schedule" ->
         cluster' = cluster \cup {c.item} /\ UNCHANGED archived
    [] c.op = "unschedule" ->
         cluster' = cluster \ {c.item} /\ UNCHANGED archived

\* The backup or the schedule to be removed is not there any more.
Gone(c) ==
  \/ c.op = "delete" /\ archived[c.item] # "there"
  \/ c.op = "unschedule" /\ c.item \notin cluster

\* A deletion or a change of the schedules is answered: the list is asked for.
Changed(c) ==
  /\ c.op \in WorkingOps /\ c.at = "sent"
  /\ ~ Gone(c)
  /\ Done(c)
  /\ IF Relists(c.op)
       THEN Goes(c, [c EXCEPT !.at = "list"]) /\ UNCHANGED working
       ELSE Over(c) /\ working' = Released(c)
  /\ UNCHANGED <<isOpen, shown, target, others, unsettled, left>>

\* A request fails, whether or not Proxmox acted on it.
Failed(c) ==
  /\ c.at = "sent"
  /\ Fails
  /\ \/ c.op \in WorkingOps /\ ~ Gone(c) /\ Done(c)
     \/ UNCHANGED proxmox
  /\ Over(c)
  /\ working' = Released(c)
  /\ unsettled' = TRUE
  /\ UNCHANGED <<isOpen, shown, target, others>>

\* What is gone cannot be removed: an error, and the list is not asked for.
NotThere(c) ==
  /\ c.at = "sent"
  /\ Gone(c)
  /\ Over(c)
  /\ working' = Released(c)
  /\ UNCHANGED <<isOpen, proxmox, shown, target, others, unsettled, left>>

\* The backend reads a list.
ListRead(c) ==
  /\ c.at = "list"
  /\ Goes(c, [c EXCEPT !.at = "listed", !.got = Answered(c.op)])
  /\ others' = IF ListOf(c.op) = "schedules" THEN {} ELSE others
  /\ unsettled' = (unsettled \/ \E d \in calls :
                     d.at = "listed" /\ ListOf(d.op) = ListOf(c.op))
  /\ UNCHANGED <<isOpen, proxmox, shown, working, target, left>>

Shows(c, got) ==
  /\ backups' = IF ListOf(c.op) = "backups" THEN got ELSE backups
  /\ schedules' = IF ListOf(c.op) = "schedules" THEN got ELSE schedules

\* fetchBackups and fetchSchedules: the list, or none after an error.
ListAnswered(c) ==
  /\ c.at = "listed"
  /\ \/ Shows(c, c.got) /\ UNCHANGED <<left, unsettled>>
     \/ Fails /\ Shows(c, {}) /\ unsettled' = TRUE
  /\ Over(c)
  /\ working' = Released(c)
  /\ UNCHANGED <<isOpen, proxmox, target, others>>

(* Others *)

\* A job or a schedule makes a backup.
Made(a) ==
  /\ archived[a] = "future"
  /\ archived' = [archived EXCEPT ![a] = "there"]
  /\ UNCHANGED <<isOpen, cluster, shown, working, target, calls, others,
                 unsettled, left>>

Interferes == left.others > 0 /\ left' = [left EXCEPT !.others = @ - 1]

\* Another browser deletes a backup, or Proxmox's retention prunes it.
Removed(a) ==
  /\ archived[a] = "there"
  /\ Interferes
  /\ archived' = [archived EXCEPT ![a] = "removed"]
  /\ UNCHANGED <<isOpen, cluster, shown, working, target, calls, others, unsettled>>

\* Another browser creates or removes a schedule.
Rescheduled(p) ==
  /\ Interferes
  /\ cluster' \in {cluster \cup {p}, cluster \ {p}} \ {cluster}
  /\ others' = others \cup {p}
  /\ UNCHANGED <<isOpen, archived, shown, working, target, calls, unsettled>>

-----------------------------------------------------------------------------
Next ==
  \/ Open \/ Close \/ CancelRestore \/ Restore \/ BackupNow
  \/ \E a \in Archives : ChooseRestore(a) \/ Delete(a) \/ Made(a) \/ Removed(a)
  \/ \E p \in Presets : Schedule(p) \/ Unschedule(p) \/ Rescheduled(p)
  \/ \E c \in calls :
       \/ RestoreAnswered(c) \/ BackupAnswered(c) \/ Changed(c) \/ Failed(c)
       \/ NotThere(c) \/ ListRead(c) \/ ListAnswered(c)

Spec == Init /\ [][Next]_vars

-----------------------------------------------------------------------------
(* Properties *)

TypeOK ==
  /\ isOpen \in BOOLEAN
  /\ archived \in [Archives -> {"future", "there", "deleted", "removed"}]
  /\ cluster \subseteq Presets
  /\ backups \subseteq Archives
  /\ schedules \subseteq Presets
  /\ working \in BOOLEAN
  /\ target \in Archives \cup {NoArchive}
  /\ \A c \in calls :
       /\ c.op \in WorkingOps \cup {"restore", "backup", "backups", "schedules"}
       /\ c.at \in {"sent", "list", "listed"}
       /\ c.item \in Archives \cup Presets \cup {NoArchive}
       /\ c.got \subseteq IF ListOf(c.op) = "backups" THEN Archives ELSE Presets
  /\ others \subseteq Presets /\ unsettled \in BOOLEAN

AtWork == {c \in calls : c.op \in WorkingOps}

\* The dialog works on one deletion or change of schedules at a time, and says
\* so exactly as long as it does, across closings and reopenings.
WorkingIsTrue ==
  /\ Cardinality(AtWork) <= 1
  /\ working <=> AtWork # {}

\* No backup that this dialog deleted is offered, to be restored or deleted
\* again, however openings, deletions and lists overlap, unless a request failed
\* or two answers crossed; what is offered and gone was removed by others after
\* the list was read.  Restoring a backup in place deletes the guest first.
OfferedExists ==
  isOpen /\ ~ working /\ ~ unsettled
    => \A a \in backups : archived[a] \in {"there", "removed"}

\* When nothing is on its way, and neither did a request fail nor did two
\* answers cross, the schedules shown are the guest's, but for those that others
\* changed after the list was last read.
SchedulesSettle ==
  calls = {} /\ ~ unsettled /\ left.openings < MaxOpenings
    => schedules \ others = cluster \ others
=============================================================================
