\* Three peers, one of them faulty; two requests.
CONSTANTS
  Peer = {2, 3, 4}
  Faulty = {4}
  MaxRequests = 2
  None = None
  Uuid <- Uuids
SPECIFICATION FairSpec
INVARIANTS
  TypeOK
  RedirectedIsLate
  AccusedIsFaulty
PROPERTIES
  ImplementsRequests
  TimedRequestsEnd
CHECK_DEADLOCK FALSE
