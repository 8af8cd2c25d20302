SPECIFICATION Spec
CONSTANTS
  Svs = {"g1", "e1"}
  MaxCommands = 3
  MaxRestarts = 2
  MaxBacklog = 2
  Unset = Unset
  Nothing = Nothing
  Place = {0, 1}
  MaxItem = 2
  MaxReports = 3
  InView = 2
  InUse = 2
  MaxCode = 3
  LsChange = 1
  Handle = {h1, h2, h3}
  Apn = {a1, a2}
  MAX_NETWORK_HANDLES = 2
  MaxEvents = 4
  Atl = {t1, t2}
  MaxInFlight = 2
SYMMETRY Symmetric
INVARIANTS ModemFollows CommandsAnswered StatusFollows SentencesTell ListFitsState
CHECK_DEADLOCK FALSE
