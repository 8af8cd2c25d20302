SPECIFICATION MCSpec
CONSTANTS
  Client = {c1, c2}
  Delegate = {d1, d2}
  Delay = {1, 2}
  MaxTime = 3
  None = None
  Item = {i1, i2, i3, i4, i5}
  Framework = {1, 2}
  MaxBacklog = 3
CHECK_DEADLOCK FALSE
INVARIANTS NoLostWakeup DelegatesLive StoppedNeverFires
PROPERTIES TimersExpire HeapServes OdcpiServed
