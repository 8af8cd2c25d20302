SPECIFICATION PromptSpec
CONSTANTS
  Handle = {h1, h2, h3}
  Features = {}
  MaxInFlight = 3
INVARIANTS Settled AcquiredIsConnected
PROPERTIES ImplementsSessions AtlsComplete
