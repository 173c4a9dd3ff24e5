SPECIFICATION FairSpec
CONSTANTS
  Messages = {1, 2}
  QueueSeq <- ThreeQueues
  Dlq = "dlq.errors"
  QueueOf <- OneQueue
  Declared <- DeclaredByOthers
  Poison = {1}
  QueueType <- AllClassic
  Prefetch = 2
  MaxFaults = 0
PROPERTIES
  PoisonDeadLettered
CHECK_DEADLOCK FALSE
