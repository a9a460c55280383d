\* A VM job with extra volumes watched by two streams.  Seven reports do not
\* fill a buffer of 16: the buffer has room for two, so that the publisher's
\* default branch drops events.
SPECIFICATION Spec
CONSTANTS
  Streams = {s1, s2}
  NoStream = NoStream
  Script <- VMScript
  ReportsIP = TRUE
  ChanCap = 2
SYMMETRY StreamSymmetry
INVARIANTS
  TypeOK
  ReadyCarriesAddress
  OutcomeIsFinal
PROPERTIES
  ClientNeverGoesBack
  ImplementsLifecycle
CHECK_DEADLOCK FALSE
