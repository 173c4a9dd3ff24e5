SPECIFICATION FairSpec
CONSTANTS
  Messages = {1, 2, 3}
  QueueSeq <- ThreeQueues
  Dlq = "dlq.errors"
  QueueOf <- TwoQueues
  Declared <- DeclaredByOthers
  Poison = {1, 3}
  QueueType <- OneQuorum
  Prefetch = 2
  MaxFaults = 2
INVARIANTS
  SettledWasLogged
  DuplicateNeedsFault
  RetriesBounded
  NoLossAfterBinding
PROPERTIES
  Settles
CHECK_DEADLOCK FALSE
