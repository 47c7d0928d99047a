\* Two correct replicas of three; two operations on one key.
CONSTANTS
  Key = {"A"}
  Uuid = {"u1", "u2"}
  Command <- BothCommands
  Replica = {1, 2, 3}
  Faulty = {3}
  Failing = {}
  FaultyResult = {}
  Client = {10}
  Request <- AddAndAssign
  None = None
SPECIFICATION Spec
INVARIANTS
  Consistency
CHECK_DEADLOCK FALSE
