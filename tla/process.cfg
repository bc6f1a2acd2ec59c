\* The whole process: boot, one client connection, two cron jobs, and any two
\* signals or uncaught errors, under every configuration.
SPECIFICATION
  FairSpec
CONSTANTS
  Conns = {c1}
  Drains = {d1, d2}
  Jobs = {batch, reconcile}
  Configs <- MCConfigs
  Requests <- MCRequests
CHECK_DEADLOCK
  FALSE
INVARIANTS
  TypeOK
  PoolOutlivesRequests
  SignalsReportTheDrain
  FatalNeverExitsZero
  SecurityAsDocumented
PROPERTIES
  TicksStopFirst
  SignalEndsProcess
