\* Four correct replicas; two stages.
CONSTANTS
  Replica = {1, 2, 3, 4}
  Faulty = {}
  MaxStage = 2
SPECIFICATION Spec
PROPERTIES
  ConfirmationIsAdopted
CHECK_DEADLOCK FALSE
