\* Four servers; two clients write to one key, both through the leader.
CONSTANTS
  N = 4
  Client = {"a", "b"}
  Key = {"A"}
  Command <- AllCommands
  Valid <- ValidCommands
  Commands <- WriteAndRead
  Contact <- LeaderContacts
  Reached <- AllServers
  MaxRetries <- NoRetries
  MaxRequests = 4
  None = None
SPECIFICATION FairSpec
PROPERTIES
  WritesAreAnswered
  
CHECK_DEADLOCK FALSE
