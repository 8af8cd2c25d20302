SPECIFICATION Spec
CONSTANTS
  Session = {1, 2}
  Asks <- RoutineAndTrips
  None = None
  Modulus = 16
  MaxInFlight = 2
  MaxEvents = 1
INVARIANTS BatchesReach TripsKept AnsweredOnce
CHECK_DEADLOCK FALSE
