SPECIFICATION FairSpec
CONSTANTS
  Assets = {1}
  Orphans = {}
  MaxPeriod = 1
  MaxChunk = 1
  MaxTx = 2
  MaxViews = 1
  MaxMirror = 4
  TickSlots = {s1}
  RecSlots = {r1}
  Env = {"sendRejected"}
PROPERTIES
  FailedChunkIsRetried
CHECK_DEADLOCK FALSE
