SPECIFICATION Spec
CONSTANTS
  Handle = {h1}
  Features = {"wds"}
  MaxInFlight = 3
CHECK_DEADLOCK FALSE
INVARIANTS AcquiredIsConnected
