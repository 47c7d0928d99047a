\* Four replicas, one of them faulty; one write.
CONSTANTS
  Replica = {1, 2, 3, 4}
  Faulty = {4}
  Asked <- OneWriteOfFirst
  Executor = {}
  FaultySends <- ReadyOfLast
  Uuid = {"u1"}
  Client = {"cli0"}
  Command = {"add"}
  Valid = {"add"}
  ReadOnly = {}
  Op <- OneWrite
  None = None
SPECIFICATION FairSpec
INVARIANTS
  TypeOK
  ReadyIsBacked
  AcceptIsSpread
  SettledIsAccepted
PROPERTIES
  ImplementsBroadcast
  EventualDelivery
CHECK_DEADLOCK FALSE
