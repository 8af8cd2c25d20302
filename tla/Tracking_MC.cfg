SPECIFICATION MCSpec
CONSTANTS
  Session = {1, 2}
  Options <- FastSlowDistance
  MaxInFlight = 2
  MaxFailures = 1
  None = None
  Part = {"sessions", "hal", "raw"}
  MaxRegistrations = 3
  Masks <- Capabilities
  MaxReports = 2
  Notification <- Measured
  MaxMeasured = 2
  MaxCalls = 2
  SVS_COUNT = 2
CHECK_DEADLOCK FALSE
INVARIANTS EngineServes CommandsAnswered ClientsFollowed
