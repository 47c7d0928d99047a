\* Four replicas, one of them faulty; two operations on one key.
CONSTANTS
  Key = {"A"}
  Uuid = {"u1", "u2"}
  Command <- BothCommands
  Replica = {1, 2, 3, 4}
  Faulty = {4}
  Failing = {3}
  FaultyResult = {1}
  Client = {10}
  Request <- AddAndAssign
  None = None
SPECIFICATION Spec
INVARIANTS
  TypeOK
  CollectiveIsExecuted
  OneCollective
  StoreIsLastResult
CHECK_DEADLOCK FALSE
