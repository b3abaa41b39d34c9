CONSTANTS
  Reliable = TRUE
  OutOfOrder = FALSE
  MaxPending = 2
  Width = 3
  MaxMsgs = 4
  NetCap = 2
  MayCalm = TRUE
SPECIFICATION FairSpec
INVARIANTS TypeOK AckTellsTheTruth CreditsConserved RetransmissionAlive
PROPERTIES IsReliableFifo EventuallyGiven
CHECK_DEADLOCK FALSE
