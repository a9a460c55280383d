\* A guest is provisioned and then backed up; nothing is lost or restarted.
SPECIFICATION Spec
CONSTANTS
  j1 = j1
  j2 = j2
  g1 = g1
  Jobs = {j1, j2}
  NoJob = NoJob
  Guests = {g1}
  GuestOf <- SameGuest
  WithCredentials = {j1}
  Steps = 1
  MaxDrops = 0
  MaxReloads = 0
  MaxRestarts = 0
INVARIANT
  CredentialsPersist
CHECK_DEADLOCK FALSE
