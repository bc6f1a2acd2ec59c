\* A run of the script by one of three accounts, raced by the transactions that
\* the accounts send directly.
SPECIFICATION
  Spec
CONSTANTS
  Accounts = {alice, bob, carol}
  Zero = zero
  Deployer = alice
  Ids = {i1}
  Hashes = {h1, h2}
  NoHash = noHash
  MaxUint = 2
  MaxUpdates = 2
  Runs = {r1}
  Direct = TRUE
SYMMETRY
  Symmetry
CHECK_DEADLOCK
  FALSE
INVARIANTS
  TypeOK
  PendingIsOwnersProposal
  StandingChangeWasReported
PROPERTIES
  RecordsOnlyGrow
