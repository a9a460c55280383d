\* A backup job watched by three streams: the subscriber list grows, shrinks
\* and is reused while events are sent, and every subscribed stream ends.  No
\* symmetry, because the last property is about liveness.
SPECIFICATION FairSpec
CONSTANTS
  Streams = {s1, s2, s3}
  NoStream = NoStream
  Script <- BackupScript
  ReportsIP = FALSE
  ChanCap = 16
INVARIANTS
  ListIsExact
  Delivered
PROPERTIES
  SubscribedStreamEnds
CHECK_DEADLOCK FALSE
