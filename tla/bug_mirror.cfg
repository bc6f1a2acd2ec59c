SPECIFICATION Spec
CONSTANTS
  Assets = {1}
  Orphans = {}
  MaxPeriod = 1
  MaxChunk = 1
  MaxTx = 1
  MaxViews = 1
  MaxMirror = 2
  TickSlots = {s1}
  RecSlots = {r1, r2}
  Env = {"crash"}
INVARIANTS
  MirrorNeverAheadOfChain
CHECK_DEADLOCK FALSE
