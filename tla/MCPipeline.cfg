SPECIFICATION FairSpec
CHECK_DEADLOCK FALSE
CONSTANTS
  r1 = r1  d1 = d1  b1 = b1  t1 = t1  t2 = t2  t3 = t3
  None = None
  Requests = {r1}
  PayloadOf <- OneAlarm
  Drones = {d1}
  ConnectAttempts = 1
  Vessels = {}
  Berths = {b1}
  TaskIds = {t1, t2, t3}
  Analysts = {1}
  Assigners = {1, 2}
  MaxFaults = 1
INVARIANTS
  AcceptedIsAccounted
  DuplicateNeedsFault
PROPERTIES
  AcceptedSettles
  AcceptedGetsTask
