\* Four servers, one of them faulty; a write and a read.
CONSTANTS
  N = 4
  Faulty = {4}
  MaxCommands = 2
  Reads = {2}
  Result = {1, 2}
  Answers <- Differing
  Alias = {}
  AliasOf <- NoAliases
  HostCatches = TRUE
  MaxRequests = 2
  None = None
SPECIFICATION Spec
INVARIANTS
  TypeOK
  AcceptedIsBacked
  AcceptedInOrder
  RepliesAreCurrent
  WaitingIsTimed
CHECK_DEADLOCK FALSE
