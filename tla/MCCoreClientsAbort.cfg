SPECIFICATION Spec
CONSTANTS
  c1 = c1
  c2 = c2
  t1 = t1
  Clients = {c1}
  Types = {t1}
  TypesOf <- MCTypesOne
  Kinds <- MCKindsOne
  MaxSize = 4
  MaxQueue = 1
  CounterSize = 3
  ClientQueue = 1
  MaxSends = 2
  MaxSessions = 1
  MaxMaps = 4
  QueueBound = 1
  Leaving = {}
  May = {}
INVARIANT NeverAborts
