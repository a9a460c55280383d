\* A new container and a restored copy with automatic VMIDs beside an in-place restore.
SPECIFICATION Spec
CONSTANTS
  j1 = j1
  j2 = j2
  j3 = j3
  Jobs = {j1, j2, j3}
  Kind <- NewAndInPlace
  Wanted <- NewAndInPlaceWanted
  FirstVmid = 1
  LastVmid = 2
  Existing = {1}
  Others = {}
INVARIANTS
  TypeOK
  OneGuestPerVmid
  CompletedMeansDone
PROPERTIES
  ImplementsLifecycle
CHECK_DEADLOCK FALSE
