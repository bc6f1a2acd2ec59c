SPECIFICATION AuditFairSpec
CONSTANTS
  Assets = {1, 2}
  Orphans = {1}
  MaxPeriod = 2
  MaxChunk = 1
  MaxTx = 2
  MaxViews = 1
  MaxMirror = 2
  TickSlots = {s1}
  RecSlots = {r1}
  Env = {}
  Contracts = {3}
  Missing = {}
  Altered = {3}
  Audits <- MCAudits
INVARIANTS
  CleanIsGenuine
PROPERTIES
  EveryViewIsAnchored
  HealthyChunksProceed
  WarnIsTransient
CHECK_DEADLOCK FALSE
