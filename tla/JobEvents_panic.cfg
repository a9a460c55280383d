\* One stream leaves while an event is sent to it.
SPECIFICATION Spec
CONSTANTS
  Streams = {s1}
  NoStream = NoStream
  Script <- BackupScript
  ReportsIP = FALSE
  ChanCap = 16
INVARIANTS
  NoPanic
CHECK_DEADLOCK FALSE
