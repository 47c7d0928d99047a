\* Four servers; one client writes and reads a key that another writes, too.
CONSTANTS
  N = 4
  Client = {"a", "b"}
  Key = {"A"}
  Command <- AllCommands
  Valid <- ValidCommands
  Commands <- AddAndRead
  Contact <- DifferentContacts
  Reached <- OneServerOfBoth
  MaxRetries <- FirstRetries
  MaxRequests = 4
  None = None
SPECIFICATION Spec
INVARIANTS
  TypeOK
  AcceptedIsExecuted
  ReadsFollowWrites
PROPERTIES
  ClientsAreClients
CHECK_DEADLOCK FALSE
