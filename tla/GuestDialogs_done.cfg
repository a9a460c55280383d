\* One browser adds a disk or resizes one: what its dialog says when the answer
\* is there and the task is not over.
SPECIFICATION Spec
CONSTANTS
  b1 = b1
  b2 = b2
  a1 = a1
  p1 = p1
  Browsers = {b1}
  LastSlot = 1
  MaxSize = 2
  MaxSubmits = 1
  MaxDialogErrors = 1
  Archives = {a1}
  NoArchive = NoArchive
  Presets = {p1}
  MaxOpenings = 1
  MaxRequests = 1
  MaxErrors = 0
  MaxOthers = 0
INVARIANTS
  DoneIsTracked
CHECK_DEADLOCK FALSE
