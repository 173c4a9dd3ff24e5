SPECIFICATION FairSpec
CHECK_DEADLOCK FALSE
CONSTANTS
  r1 = r1  r2 = r2  r3 = r3  d1 = d1  d2 = d2
  None = None
  Requests = {r1, r2, r3}
  Drones = {d1, d2}
  PayloadOf <- TwoOfOneDrone
  ConnectAttempts = 2
  MaxFaults = 1
INVARIANTS
  TypeOK
  AnswersTruthful
  NoStateFromThePast
PROPERTIES
  ServesAgain
  EveryRequestEnds
