SPECIFICATION Spec
CONSTANTS
  Senders = {c1, c2}
  MaxReads = 2
  MaxNonce = 3
  Env = {"refused", "rpcDown"}
INVARIANTS
  NextNonceIsExpected
CHECK_DEADLOCK FALSE
