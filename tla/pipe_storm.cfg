SPECIFICATION Spec
CONSTANTS
  Assets = {1, 2}
  Orphans = {}
  MaxPeriod = 1
  MaxChunk = 1
  MaxTx = 2
  MaxViews = 1
  MaxMirror = 3
  TickSlots = {s1}
  RecSlots = {r1, r2}
  Env = {"crash", "dbError", "sendRejected", "sendLost", "txReverted", "txDropped", "reorg", "lateView", "missedTick"}
SYMMETRY SlotSymmetry
INVARIANTS
  TypeOK
  NoDoublePublication
  CounterNeverInflated
  ConfirmedPeriodIsSettled
  MirrorCoversApplied
PROPERTIES
  SubmittedChunkIsFrozen
CHECK_DEADLOCK FALSE
