\* A backup and two in-place restores of the same guest, of which the second
\* waits for the first: what each may do, and that no answer, task or guest
\* that never comes holds a job for ever.
SPECIFICATION FairSpec
CONSTANTS
  j1 = j1
  j2 = j2
  j3 = j3
  Jobs = {j1, j2, j3}
  Kind <- BackupAndInPlace
  Wanted <- BackupAndInPlaceWanted
  FirstVmid = 1
  LastVmid = 1
  Existing = {1}
  Others = {1}
INVARIANTS
  RestoreNeedsDelete
PROPERTIES
  QuietAfterOutcome
  JobsEnd
CHECK_DEADLOCK FALSE
