SPECIFICATION Spec
CONSTANTS
  c1 = c1
  c2 = c2
  t1 = t1
  Clients = {c1, c2}
  Types = {t1}
  TypesOf <- MCTypesOf
  Kinds <- MCKinds
  MaxSize = 4
  MaxQueue = 1
  CounterSize = 3
  ClientQueue = 1
  MaxSends = 1
  MaxSessions = 2
  MaxMaps = 2
  QueueBound = 1
  Leaving = {c1}
  May = {"cancel","timeout","payload","reinit"}
INVARIANTS TypeOK ConnectmapFollows RequestsLinked LibraryNeverBreaks MyMapIsUnion TypemapRepeated
