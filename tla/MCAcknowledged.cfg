\* Four servers; the faulty one has two other ways to write its id.
CONSTANTS
  N = 4
  Faulty = {4}
  MaxCommands = 1
  Reads = {}
  Result = {1, 2}
  Answers <- Unanimous
  Alias = {k1, k2}
  AliasOf <- AliasesOfLast
  HostCatches = TRUE
  MaxRequests = 1
  None = None
SPECIFICATION Spec
INVARIANTS
  CollectiveIsBacked
CHECK_DEADLOCK FALSE
