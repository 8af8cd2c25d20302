SPECIFICATION MCSpec
CONSTANTS
  Sender = {s1, s2}
  Self = self
  MaxSend = 2
  None = None
  Lengths = {2, 3}
  mMaxTxSize = 2
  Capacity = 2
  MaxMessages = 2
CHECK_DEADLOCK FALSE
INVARIANTS FreedOnce Shutdown NoLostWakeup
PROPERTIES ImplementsFifo StopReleases IpcServes
