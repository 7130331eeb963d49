SPECIFICATION FairSpec
CONSTANTS
  m1 = m1
  m2 = m2
  m3 = m3
  Messages <- MCMessages
  Batches <- MCBatches
  Subscribers = {s1, s2}
  Entities <- MCEntities
  EntityOf <- MCEntityOf
  Queries <- MCQueries
  Reasons = {"COMPLETED", "ERROR"}
  PageSize = 1
INVARIANTS
  TypeOK
  NothingTwice
  NothingVanishes
  AckedWasSent
  AnswersArePromised
  WalkIsSound
PROPERTIES
  ImplementsDelivery
  BatchesAreClosed
  ImplementsContracts
  EveryMessageSettles
