SPECIFICATION FairSpec
CHECK_DEADLOCK FALSE
CONSTANTS
  N = 2
  Width = 3
  MaxMsgs = 2
  NumMsgs = 1
  NetCap = 2
  May = {"cut", "rounds"}
INVARIANTS
  TypeOK
  OkMeansDelivered
  TaskOrBusy
  HandedOnOnce
PROPERTIES
  EventuallyFinished
