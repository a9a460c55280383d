------------------------ MODULE GuestDialogs_proofs ------------------------
(***************************************************************************)
(* The theorems about the disk dialogs and the backup dialog, carried over  *)
(* to the page that has both: every behaviour of GuestDialogs is one of     *)
(* each, and each one's theorems hold of it.                                *)
(***************************************************************************)
EXTENDS GuestDialogs, TLAPS

\* The two modules with their theorems, under the substitutions of V and B.
VP == INSTANCE VolumeDialogs_proofs WITH MaxErrors <- MaxDialogErrors
BP == INSTANCE BackupDialog_proofs

-----------------------------------------------------------------------------
(* V and VP have the same definitions, and so have B and BP                 *)

\* The specification of the disk dialogs.
LEMMA SameDisks ==
  V!Init = VP!Init /\ V!Next = VP!Next /\ V!vars = VP!vars /\ V!vars' = VP!vars'
  BY DEF V!Slots, V!Sizes, V!NoConfig, V!NoSlot, V!Ids, V!NoId, V!formVars,
         V!history, V!vars, V!NoWork, V!Disks, V!First, V!Displayed,
         V!DefaultDisk, V!MinSize, V!Grows, V!UpToDate, V!Outcome, V!Fails,
         V!Init, V!ConfigPolled, V!StoragesPolled, V!Open, V!PickDisk,
         V!TypeSize, V!CanResize, V!CanAdd, V!Sends, V!Resize, V!Add,
         V!ResizeCleared, V!AddCleared, V!Idle, V!Close, V!Leave, V!Answered,
         V!Goes, V!Stale, V!pages, V!Free, V!FirstFree, V!Aims, V!NoSlotFree,
         V!Picks, V!Called, V!Accepted, V!Larger, V!Refused, V!GivesUp,
         V!TaskDone, V!TaskFails, V!Next, VP!Slots, VP!Sizes, VP!NoConfig,
         VP!NoSlot, VP!Ids, VP!NoId, VP!formVars, VP!history, VP!vars, VP!NoWork,
         VP!Disks, VP!First, VP!Displayed, VP!DefaultDisk, VP!MinSize, VP!Grows,
         VP!UpToDate, VP!Outcome, VP!Fails, VP!Init, VP!ConfigPolled,
         VP!StoragesPolled, VP!Open, VP!PickDisk, VP!TypeSize, VP!CanResize,
         VP!CanAdd, VP!Sends, VP!Resize, VP!Add, VP!ResizeCleared, VP!AddCleared,
         VP!Idle, VP!Close, VP!Leave, VP!Answered, VP!Goes, VP!Stale, VP!pages,
         VP!Free, VP!FirstFree, VP!Aims, VP!NoSlotFree, VP!Picks, VP!Called,
         VP!Accepted, VP!Larger, VP!Refused, VP!GivesUp, VP!TaskDone,
         VP!TaskFails, VP!Next

\* The specification of the backup dialog.
LEMMA SameBackups ==
  B!Init = BP!Init /\ B!Next = BP!Next /\ B!vars = BP!vars /\ B!vars' = BP!vars'
  BY DEF B!proxmox, B!shown, B!vars, B!There, B!WorkingOps, B!Relists, B!ListOf,
         B!Answered, B!Call, B!ListCall, B!Start, B!Goes, B!Over, B!Fails,
         B!Released, B!Init, B!Open, B!WorkingWhenClosed, B!Close,
         B!ChooseRestore, B!CancelRestore, B!Restore, B!BackupNow, B!Delete,
         B!Schedule, B!Unschedule, B!RestoreAnswered, B!BackupAnswered, B!Done,
         B!Gone, B!Changed, B!Failed, B!NotThere, B!ListRead, B!Shows,
         B!ListAnswered, B!Made, B!Interferes, B!Removed, B!Rescheduled, B!Next,
         BP!proxmox, BP!shown, BP!vars, BP!There, BP!WorkingOps, BP!Relists,
         BP!ListOf, BP!Answered, BP!Call, BP!ListCall, BP!Start, BP!Goes,
         BP!Over, BP!Fails, BP!Released, BP!Init, BP!Open, BP!WorkingWhenClosed,
         BP!Close, BP!ChooseRestore, BP!CancelRestore, BP!Restore, BP!BackupNow,
         BP!Delete, BP!Schedule, BP!Unschedule, BP!RestoreAnswered,
         BP!BackupAnswered, BP!Done, BP!Gone, BP!Changed, BP!Failed, BP!NotThere,
         BP!ListRead, BP!Shows, BP!ListAnswered, BP!Made, BP!Interferes,
         BP!Removed, BP!Rescheduled, BP!Next

\* The properties of the disk dialogs.
LEMMA SameDiskProperties ==
  /\ V!TypeOK = VP!TypeOK
  /\ V!NoDiskReplaced = VP!NoDiskReplaced
  /\ V!DoneIsTrue = VP!DoneIsTrue
  /\ V!FreshResizeSucceeds = VP!FreshResizeSucceeds
  BY DEF V!Slots, V!Configs, V!NoSlot, V!Ids, V!NoId, V!SaysDone, V!Called,
         V!TypeOK, V!NoDiskReplaced, V!DoneIsTrue, V!FreshResizeSucceeds,
         VP!Slots, VP!Configs, VP!NoSlot, VP!Ids, VP!NoId, VP!SaysDone,
         VP!Called, VP!TypeOK, VP!NoDiskReplaced, VP!DoneIsTrue,
         VP!FreshResizeSucceeds

\* The properties of the backup dialog.
LEMMA SameBackupProperties ==
  /\ B!TypeOK = BP!TypeOK
  /\ B!WorkingIsTrue = BP!WorkingIsTrue
  /\ B!OfferedExists = BP!OfferedExists
  /\ B!SchedulesSettle = BP!SchedulesSettle
  BY DEF B!WorkingOps, B!ListOf, B!TypeOK, B!AtWork, B!WorkingIsTrue,
         B!OfferedExists, B!SchedulesSettle, B!Cardinality, B!IsFiniteSet,
         BP!WorkingOps, BP!ListOf, BP!TypeOK, BP!AtWork, BP!WorkingIsTrue,
         BP!OfferedExists, BP!SchedulesSettle, BP!Cardinality, BP!IsFiniteSet

\* What is assumed of the constants.
LEMMA Assumptions == VP!VolumeAssumption /\ BP!BackupAssumption
  BY DialogsAssumption DEF V!VolumeAssumption, VP!VolumeAssumption,
                           B!BackupAssumption, BP!BackupAssumption

-----------------------------------------------------------------------------
(* The composition *)

\* While the page uses one of the two, the other stutters.
LEMMA StepOfEach ==
  ASSUME [Next]_vars
  PROVE  [V!Next]_V!vars /\ [B!Next]_B!vars
  <1>1. CASE use = "disks" /\ V!Next /\ UNCHANGED <<use, backupVars>>
    BY <1>1 DEF backupVars, B!vars, B!proxmox, B!shown
  <1>2. CASE use = "backups" /\ B!Next /\ UNCHANGED <<use, diskVars>>
    BY <1>2 DEF diskVars, V!vars, V!formVars, V!history
  <1>3. CASE UNCHANGED vars
    BY <1>3 DEF vars, diskVars, backupVars, V!vars, V!formVars, V!history,
                B!vars, B!proxmox, B!shown
  <1> QED
    BY <1>1, <1>2, <1>3 DEF Next

\* Every behaviour of the page's dialogs is one of the disk dialogs and one of
\* the backup dialog: what each module says of its dialogs holds on the page.
THEOREM ImplementsEach == Spec => V!Spec /\ B!Spec
  <1>1. Init => V!Init /\ B!Init
    BY DEF Init
  <1>2. [Next]_vars => [V!Next]_V!vars /\ [B!Next]_B!vars
    BY StepOfEach
  <1> QED
    BY <1>1, <1>2, PTL DEF Spec, V!Spec, B!Spec

\* The same of the modules with the theorems.
LEMMA ImplementsProved == Spec => VP!Spec /\ BP!Spec
  <1>1. Init => VP!Init /\ BP!Init
    BY SameDisks, SameBackups DEF Init
  <1>2. [Next]_vars => [VP!Next]_VP!vars /\ [BP!Next]_BP!vars
    BY StepOfEach, SameDisks, SameBackups
  <1> QED
    BY <1>1, <1>2, PTL DEF Spec, VP!Spec, BP!Spec

-----------------------------------------------------------------------------
(* The theorems *)

\* The types of both (TypeOK).
THEOREM TypeCorrect == Spec => []TypeOK
  <1>1. VP!Spec => []VP!TypeOK
    BY VP!TypeCorrect, Assumptions
  <1>2. BP!Spec => []BP!TypeOK
    BY BP!TypeCorrect, Assumptions
  <1>3. VP!TypeOK /\ BP!TypeOK => TypeOK
    BY SameDiskProperties, SameBackupProperties DEF TypeOK
  <1> QED
    BY ImplementsProved, <1>1, <1>2, <1>3, PTL

\* On a page with both kinds of dialogs AddVMDisk attaches a disk where none
\* was, however late, unless two requests picked the slot (NoDiskReplaced).
THEOREM SlotIsFree == Spec => []NoDiskReplaced
  <1>1. VP!Spec => []VP!NoDiskReplaced
    BY VP!SlotIsFree, Assumptions
  <1>2. VP!NoDiskReplaced => NoDiskReplaced
    BY SameDiskProperties DEF NoDiskReplaced
  <1> QED
    BY ImplementsProved, <1>1, <1>2, PTL

\* The disk dialogs say done of what Proxmox accepted, and the disk is as large
\* once the task has ended well (DoneIsTrue).
THEOREM DoneIsReal == Spec => []DoneIsTrue
  <1>1. VP!Spec => []VP!DoneIsTrue
    BY VP!DoneIsReal, Assumptions
  <1>2. VP!DoneIsTrue => DoneIsTrue
    BY SameDiskProperties DEF DoneIsTrue
  <1> QED
    BY ImplementsProved, <1>1, <1>2, PTL

\* A resize that went by the disk's size is not refused (FreshResizeSucceeds).
THEOREM FreshIsAccepted == Spec => []FreshResizeSucceeds
  <1>1. VP!Spec => []VP!FreshResizeSucceeds
    BY VP!FreshIsAccepted, Assumptions
  <1>2. VP!FreshResizeSucceeds => FreshResizeSucceeds
    BY SameDiskProperties DEF FreshResizeSucceeds
  <1> QED
    BY ImplementsProved, <1>1, <1>2, PTL

\* `working` is set exactly as long as the backup dialog works, on one thing
\* (WorkingIsTrue).
THEOREM FlagIsTrue == Spec => []WorkingIsTrue
  <1>1. BP!Spec => []BP!WorkingIsTrue
    BY BP!FlagIsTrue, Assumptions
  <1>2. BP!WorkingIsTrue => WorkingIsTrue
    BY SameBackupProperties DEF WorkingIsTrue
  <1> QED
    BY ImplementsProved, <1>1, <1>2, PTL

\* A backup that the dialog deleted cannot be chosen, unless a request failed or
\* two answers crossed, whatever others remove (OfferedExists).
THEOREM OfferedIsThere == Spec => []OfferedExists
  <1>1. BP!Spec => []BP!OfferedExists
    BY BP!OfferedIsThere, Assumptions
  <1>2. BP!OfferedExists => OfferedExists
    BY SameBackupProperties DEF OfferedExists
  <1> QED
    BY ImplementsProved, <1>1, <1>2, PTL

\* The schedules shown come to be the guest's, but for those that others changed
\* since (SchedulesSettle).
THEOREM SchedulesRight == Spec => []SchedulesSettle
  <1>1. BP!Spec => []BP!SchedulesSettle
    BY BP!SchedulesRight, Assumptions
  <1>2. BP!SchedulesSettle => SchedulesSettle
    BY SameBackupProperties DEF SchedulesSettle
  <1> QED
    BY ImplementsProved, <1>1, <1>2, PTL
=============================================================================
