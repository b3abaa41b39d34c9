SPECIFICATION FairSpec
CONSTANTS
  c1 = c1
  c2 = c2
  t1 = t1
  Clients = {c1, c2}
  Types = {t1}
  TypesOf <- MCTypesOf
  Kinds <- MCKindsLive
  MaxSize = 4
  MaxQueue = 1
  CounterSize = 3
  ClientQueue = 1
  MaxSends = 1
  MaxSessions = 2
  MaxMaps = 1
  QueueBound = 1
  Leaving = {}
  May = {}
PROPERTIES EventuallyAsked EventuallyTransmitted
