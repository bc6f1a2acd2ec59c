SPECIFICATION Spec
CONSTANTS
  Contracts = {k1}
  Assets = {a1, a2}
  MaxTx = 3
  Requests = {q1, q2}
  Passes = {r1, r2}
  Env = {"crash", "dbError", "sendRefused", "sendLost", "txReverted", "txDropped", "reorg"}
SYMMETRY SlotSymmetry
INVARIANTS
  TypeOK
  NotarizedOnce
  AcceptedIsTracked
  ConfirmedIsDeep
PROPERTIES
  RefinesRecord
CHECK_DEADLOCK FALSE
