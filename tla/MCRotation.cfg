\* Four replicas, one of them faulty; two stages.
CONSTANTS
  Replica = {1, 2, 3, 4}
  Faulty = {4}
  MaxStage = 2
SPECIFICATION Spec
INVARIANTS
  TypeOK
  OneClaimPerStage
  ClaimIsTimely
  ClaimCarriesVotes
CHECK_DEADLOCK FALSE
