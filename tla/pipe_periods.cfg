SPECIFICATION Spec
CONSTANTS
  Assets = {1}
  Orphans = {}
  MaxPeriod = 2
  MaxChunk = 1
  MaxTx = 2
  MaxViews = 1
  MaxMirror = 2
  TickSlots = {s1, s2}
  RecSlots = {r1, r2}
  Env = {"crash", "reorg", "sendRejected", "sendLost", "lateView", "missedTick", "txDropped"}
SYMMETRY SlotSymmetry
INVARIANTS
  ConfirmedPeriodIsComplete
  AppliedPeriodIsPublished
PROPERTIES
  ConfirmationIsFinal
CHECK_DEADLOCK FALSE
