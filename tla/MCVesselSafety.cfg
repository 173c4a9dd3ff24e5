SPECIFICATION Spec
CONSTANTS
  None = None
  i1 = i1
  i2 = i2
  b1 = b1
  m1 = m1
  Ids = {i1, i2}
  Imos = {m1}
  Berths = {b1}
  Threads = {1, 2}
  MaxRequests = 4
  MaxFaults = 1
SYMMETRY IdSymmetry
INVARIANTS
  UniqueImo
  AnnouncedState
  AnnouncedOrRefused
PROPERTIES
  ImplementsRegistry
CHECK_DEADLOCK FALSE
