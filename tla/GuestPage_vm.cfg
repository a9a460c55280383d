\* A VM's page and a container's, with another user and failing requests.
SPECIFICATION FairSpec
CONSTANTS
  Kinds = {"vm", "container"}
  MaxOps = 2
  MaxOthers = 1
  MaxFaults = 2
  MaxPolls = 2
  MaxTries = 2
INVARIANTS
  TypeOK
  OneOperation
  StoppedIsTold
PROPERTIES
  StatusConverges
  OperationsEnd
  DeletedIsTold
CHECK_DEADLOCK FALSE
