CONSTANTS
  HistoryCap = 1
  May = {"port", "close", "payload", "calm"}
SPECIFICATION FairSpec
INVARIANT PayloadOnlyToBound
PROPERTY OrphanLearns
CHECK_DEADLOCK FALSE
