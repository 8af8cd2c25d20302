SPECIFICATION MCSpec
CONSTANTS
  Session = {1, 2}
  Options <- FastSlowDistance
  MaxInFlight = 2
  MaxFailures = 0
  None = None
  Part = {"sessions"}
  MaxRegistrations = 1
  Masks <- Capabilities
  MaxReports = 1
  Notification <- Measured
  MaxMeasured = 1
  MaxCalls = 1
  SVS_COUNT = 2
INVARIANT StoppedStaysStopped
