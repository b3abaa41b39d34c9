CONSTANTS
  HistoryCap = 2
  May = {"port", "timeout", "calm"}
SPECIFICATION FairSpec
INVARIANTS BoundOnce OpenIsRepeated
PROPERTY OpenCompletes
CHECK_DEADLOCK FALSE
