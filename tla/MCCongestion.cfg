SPECIFICATION FairSpec
CHECK_DEADLOCK FALSE
CONSTANTS
  e1 = e1  e2 = e2  e3 = e3  e4 = e4  e5 = e5
  None = None
  Events = {e1, e2, e3, e4, e5}
  EventOf <- Edges
  Consumers = {1, 2}
  MaxFaults = 1
INVARIANTS
  AlarmNotSwallowed
  OneAlertPerDelivery
  WorseNotMilder
PROPERTY
  EventsSettle
