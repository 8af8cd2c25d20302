SPECIFICATION Spec
CONSTANTS
  None = None
  Request = {r1, r2}
  Framework = {1, 2}
  Observer = {c1, c2}
  DataItem = {d1, d2}
  MaxBacklog = 3
  MaxJobs = 2
  StatusItem = {gpslock}
  MaxPosted = 1
  Option = {o1, o2}
  MaxSessions = 2
  MaxCalls = 3
  MaxFrameworks = 2
  MaxEpochs = 2
  MaxOthers = 3
CHECK_DEADLOCK FALSE
INVARIANTS RequestsEnd SubscriptionsHold LightFollowed DaemonFollows TrackingFollows BatchingFollows ReportsFollow
