\* Two requests from one dialog, answers in any order, lost or refused.
SPECIFICATION FairSpec
CONSTANTS
  t1 = t1
  t2 = t2
  n1 = n1
  n2 = n2
  s1 = s1
  s2 = s2
  p1 = p1
  Templates = {t1, t2}
  NoTemplate = NoTemplate
  Nodes = {n1, n2}
  NoNode = NoNode
  NodeOf <- NodeOfTemplate
  Storages = {s1, s2}
  NoStorage = NoStorage
  ListOf <- Lists
  Avail <- Room
  Passwords = {p1}
  NoPassword = NoPassword
  Script <- ScriptWithVolumes
  MaxVolumes = 1
  MaxEdits = 3
  MaxAsks = 1
  MaxSubmits = 2
  MaxTimers = 1
INVARIANTS
  TypeOK
  OneGuestAtATime
  ShownPasswordWasSent
  DiskIsChecked
PROPERTIES
  TicksStay
  RefreshesStop
CHECK_DEADLOCK FALSE
