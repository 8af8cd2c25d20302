SPECIFICATION MCSpec
CONSTANTS
  c1 = c1
  c2 = c2
  gnss = gnss
  batching = batching
  geofence = geofence
  Client = {c1, c2}
  Interface = {gnss, batching, geofence}
  Library = {gnss, batching}
  Callbacks <- OneOrTwo
  Kinds <- AsTheyAre
  Conf <- Confs
  Wish <- OneOrOther
  FeatureMaps <- TwoMaps
  None = None
  MaxCalls = 1
  MaxBacklog = 1
  MaxWaiting = 2
  MaxRestarts = 1
INVARIANTS ClientsEnd MasksFollow
PROPERTIES ClientsServed
CHECK_DEADLOCK FALSE
