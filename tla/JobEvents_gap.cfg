\* One stream: the job ends between StreamJobEvents' Get and its Subscribe.
SPECIFICATION FairSpec
CONSTANTS
  Streams = {s1}
  NoStream = NoStream
  Script <- BackupScript
  ReportsIP = FALSE
  ChanCap = 16
PROPERTIES
  EveryStreamEnds
CHECK_DEADLOCK FALSE
