SPECIFICATION Spec
CONSTANTS
  Client = {c1, c2}
  Fence <- TwoAndOne
  c1 = c1
  c2 = c2
  f1 = f1
  f2 = f2
  Mask = {enter, exit}
  None = None
  Careful = {c1}
  MaxSession = 2
  MaxCalls = 3
  MaxInFlight = 2
  MaxRestarts = 1
  MaxCrossed = 0
INVARIANTS EngineFollows BreachIsOwn
PROPERTIES AnswersReach
CHECK_DEADLOCK FALSE
