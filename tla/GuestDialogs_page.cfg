\* Two browsers change a VM's disks; one deletes, makes and restores backups.
SPECIFICATION Spec
CONSTANTS
  b1 = b1
  b2 = b2
  a1 = a1
  p1 = p1
  Browsers = {b1, b2}
  LastSlot = 1
  MaxSize = 2
  MaxSubmits = 2
  MaxDialogErrors = 1
  Archives = {a1}
  NoArchive = NoArchive
  Presets = {p1}
  MaxOpenings = 2
  MaxRequests = 2
  MaxErrors = 1
  MaxOthers = 1
SYMMETRY Symmetric
INVARIANTS
  TypeOK
  NoDiskReplaced
  DoneIsTrue
  FreshResizeSucceeds
  WorkingIsTrue
  OfferedExists
  SchedulesSettle
CHECK_DEADLOCK FALSE
