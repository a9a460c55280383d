---------------------------- MODULE GuestDialogs ----------------------------
(***************************************************************************)
(* The dialogs of a guest's page about its disks (VolumeDialogs) and its    *)
(* backups (BackupDialog).  The page opens one at a time and they share no  *)
(* state: a behaviour uses one of the two, which is a bound.                *)
(***************************************************************************)
EXTENDS Naturals, FiniteSets

CONSTANTS
  Browsers, LastSlot, MaxSize, MaxSubmits, MaxDialogErrors,
  Archives, NoArchive, Presets, MaxOpenings, MaxRequests, MaxErrors,
  MaxOthers

VARIABLES
  use,   \* the dialogs this behaviour uses: disks or backups
  config, seen, pools, dialog, phase, selected, size, storage, request, work,
  sent, fresh, refused, raced, replaced, errors,
  isOpen, archived, cluster, backups, schedules, working, target, calls,
  others, unsettled, left

V == INSTANCE VolumeDialogs WITH MaxErrors <- MaxDialogErrors
B == INSTANCE BackupDialog

ASSUME DialogsAssumption == V!VolumeAssumption /\ B!BackupAssumption

diskVars == <<config, seen, pools, dialog, phase, selected, size, storage,
              request, work, sent, fresh, refused, raced, replaced, errors>>
backupVars == <<isOpen, archived, cluster, backups, schedules, working, target,
                calls, others, unsettled, left>>
vars == <<use, diskVars, backupVars>>

\* The dialogs that are not used are as a page with nothing loaded has them.
Init ==
  /\ use \in {"disks", "backups"}
  /\ V!Init /\ B!Init
  /\ use = "backups" => \A b \in Browsers : seen[b] = V!NoConfig /\ ~ pools[b]
  /\ use = "disks" => B!There = {} /\ cluster = {}

Next ==
  \/ use = "disks" /\ V!Next /\ UNCHANGED <<use, backupVars>>
  \/ use = "backups" /\ B!Next /\ UNCHANGED <<use, diskVars>>

Spec == Init /\ [][Next]_vars

-----------------------------------------------------------------------------
(* The properties of the two modules *)

\* Every variable has its type, and no call to resize or to attach is about no
\* disk.
TypeOK == V!TypeOK /\ B!TypeOK

\* AddVMDisk: a disk is attached where none was, however late, unless two
\* requests picked the same slot.
NoDiskReplaced == V!NoDiskReplaced

\* The disk dialogs say done of what Proxmox accepted, and the disk is as large
\* once the task has ended well.
DoneIsTrue == V!DoneIsTrue

\* What CONTRIBUTING.md asks of done, which the handlers do not wait for.
DoneIsTracked == V!DoneIsTracked

\* The resize dialog lets nothing through that Proxmox refuses, by fresh sizes.
FreshResizeSucceeds == V!FreshResizeSucceeds

\* `working` is set exactly as long as the backup dialog works, on one thing.
WorkingIsTrue == B!WorkingIsTrue

\* No backup that the dialog deleted can be chosen to be restored.
OfferedExists == B!OfferedExists

\* The schedules shown come to be right, but for what others change.
SchedulesSettle == B!SchedulesSettle
=============================================================================
