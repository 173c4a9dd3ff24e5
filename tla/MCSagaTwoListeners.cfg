SPECIFICATION FairSpec
CONSTANTS
  None = None
  a1 = a1  a2 = a2  a3 = a3  b1 = b1  b2 = b2  v1 = v1  v2 = v2
  c1 = c1  c2 = c2  t1 = t1  t2 = t2  t3 = t3  t4 = t4
  Alerts = {a1, a2, a3}
  AlertOf <- GoodLongBlank
  Vessels = {}
  Berths = {b1}
  TaskIds = {t1, t2, t3, t4}
  Consumers = {1, 2}
  MaxFaults = 1
  MaxOps = 0
INVARIANTS
  AlertNotLost
  OneTaskPerDelivery
PROPERTIES
  AlertsSettle
CHECK_DEADLOCK FALSE
