\* Three replicas; the faulty one, of the lowest id, spreads another content.
CONSTANTS
  Replica = {1, 2, 3}
  Faulty = {1}
  Executor = {2}
  Uuid = {"u1", "u2"}
  Client = {"cli0"}
  Command = {"add", "assign", "check"}
  Valid = {"add", "assign", "check"}
  ReadOnly = {"check"}
  Op <- Contents
  Asked <- WriteAndReadOfSecond
  FaultySends <- OtherOfFirst
  None = None
SPECIFICATION Spec
INVARIANTS
  NoEquivocation
  AtMostOnce
  AcceptedWasSubmitted
  AnsweredWasLogged
CHECK_DEADLOCK FALSE
