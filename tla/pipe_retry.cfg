SPECIFICATION Spec
CONSTANTS
  Assets = {1, 2}
  Orphans = {}
  MaxPeriod = 2
  MaxChunk = 1
  MaxTx = 4
  MaxViews = 1
  MaxMirror = 2
  TickSlots = {s1}
  RecSlots = {r1}
  Env = {"fineCron", "sendRejected", "txDropped"}
INVARIANTS
  NoDoublePublication
  ConfirmedPeriodIsPublished
  AnchoredViewsArePublished
CHECK_DEADLOCK FALSE
