\* A provision and a backup of one guest, with one lost connection, one page
\* refresh and one restart of the backend at any moment.
SPECIFICATION FairSpec
CONSTANTS
  j1 = j1
  j2 = j2
  g1 = g1
  Jobs = {j1, j2}
  NoJob = NoJob
  Guests = {g1}
  GuestOf <- SameGuest
  WithCredentials = {j1}
  Steps = 1
  MaxDrops = 1
  MaxReloads = 1
  MaxRestarts = 1
INVARIANTS
  TypeOK
  WatchedWhileActive
  ShownOutcomeIsReal
  RefreshChangesNothing
PROPERTIES
  ShownNeverGoesBack
  ListedJobEnds
CHECK_DEADLOCK FALSE
