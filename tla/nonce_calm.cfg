SPECIFICATION Spec
CONSTANTS
  Senders = {c1, c2}
  MaxReads = 4
  MaxNonce = 6
  Env = {"refused", "lost", "rpcDown", "restart"}
SYMMETRY SenderSymmetry
INVARIANTS
  TypeOK
  AlignedWhenQuiet
  NoGapWhenQuiet
CHECK_DEADLOCK FALSE
