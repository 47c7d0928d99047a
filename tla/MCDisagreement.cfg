\* Four replicas; the faulty one spreads two contents under one uuid.
CONSTANTS
  Replica = {1, 2, 3, 4}
  Faulty = {4}
  Executor = {}
  Uuid = {"u1"}
  Client = {"cli0"}
  Command = {"add", "assign"}
  Valid = {"add", "assign"}
  ReadOnly = {}
  Op <- TwoContents
  Asked <- TwoContentsOfFirst
  FaultySends <- InitsOfLast
  None = None
SPECIFICATION Spec
INVARIANTS
  Agreement
CHECK_DEADLOCK FALSE
