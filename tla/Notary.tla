------------------------------- MODULE Notary -------------------------------
(***************************************************************************)
(* The Notary contract: the write-once records of contracts and assets,    *)
(* the additive counters, the attester that alone may write them, and the  *)
(* owner that alone may rotate the attester.  Ownership is handed over in  *)
(* two steps (Ownable2Step of OpenZeppelin).                               *)
(*                                                                         *)
(* An action is a call that succeeds; a call whose conditions do not hold  *)
(* reverts and changes nothing.  Calls are executed one after another, so  *)
(* each is one step.  A counter is a uint256: MaxUint stands for its       *)
(* largest value, and the addition of Solidity 0.8 reverts beyond it.      *)
(***************************************************************************)
EXTENDS Integers, Sequences, Functions

CONSTANTS
  Accounts,   \* the addresses that can sign
  Zero,       \* address(0)
  Deployer,   \* account 0 of the Ignition deployment
  Ids,        \* contract and asset ids
  Hashes,     \* content hashes other than bytes32(0)
  NoHash,     \* bytes32(0)
  MaxUint,    \* the largest uint256
  MaxUpdates  \* the longest batch (a bound)

ASSUME NotaryAssumption ==
  /\ Zero \notin Accounts
  /\ Deployer \in Accounts
  /\ NoHash \notin Hashes
  /\ MaxUint \in Nat /\ MaxUpdates \in Nat

VARIABLES
  attester, owner, pendingOwner,
  contracts,  \* contractId => contentHash
  assets      \* assetId => [hash, totalViews]; without a hash, notarizedAt is 0

governance == <<attester, owner, pendingOwner>>
records == <<contracts, assets>>

Addresses == Accounts \cup {Zero}

Unknown == [hash |-> NoHash, totalViews |-> 0]

GovernanceTypeOK ==
  /\ attester \in Accounts
  /\ owner \in Addresses
  /\ pendingOwner \in Addresses

RecordsTypeOK ==
  /\ contracts \in [Ids -> Hashes \cup {NoHash}]
  /\ assets \in [Ids -> [hash : Hashes \cup {NoHash}, totalViews : 0..MaxUint]]

\* constructor(account 0, account 0).
NotaryInit ==
  /\ attester = Deployer
  /\ owner = Deployer
  /\ pendingOwner = Zero
  /\ contracts = [i \in Ids |-> NoHash]
  /\ assets = [i \in Ids |-> Unknown]

onlyAttester(sender) == sender = attester

onlyOwner(sender) == sender = owner

NotarizeContract(sender, id, hash) ==
  /\ onlyAttester(sender)
  /\ hash # NoHash
  /\ contracts[id] = NoHash
  /\ contracts' = [contracts EXCEPT ![id] = hash]
  /\ UNCHANGED <<attester, owner, pendingOwner, assets>>

Notarized(id) == assets[id].hash # NoHash

NotarizeAsset(sender, id, hash) ==
  /\ onlyAttester(sender)
  /\ hash # NoHash
  /\ ~Notarized(id)
  /\ assets' = [assets EXCEPT ![id] = [hash |-> hash, totalViews |-> 0]]
  /\ UNCHANGED <<attester, owner, pendingOwner, contracts>>

Updates == UNION {[1..n -> [assetId : Ids, viewsInPeriod : 0..MaxUint]] : n \in 0..MaxUpdates}

\* What a batch adds to an asset: an asset may be in it more than once.
Added(updates, id) ==
  SumFunction([i \in DOMAIN updates |->
                 IF updates[i].assetId = id THEN updates[i].viewsInPeriod ELSE 0])

(* Mutant: the addition is unchecked, as inside an unchecked block. *)
PublishBatchUnchecked(sender, updates) ==
  /\ onlyAttester(sender)
  /\ updates # << >>
  /\ \A i \in DOMAIN updates : Notarized(updates[i].assetId)
  /\ assets' = [id \in Ids |->
       [assets[id] EXCEPT !.totalViews = (@ + Added(updates, id)) % (MaxUint + 1)]]
  /\ UNCHANGED <<attester, owner, pendingOwner, contracts>>

\* Every entry is applied or none is.
PublishBatch(sender, updates) ==
  /\ onlyAttester(sender)
  /\ updates # << >>
  /\ \A i \in DOMAIN updates : Notarized(updates[i].assetId)
  /\ \A id \in Ids : assets[id].totalViews + Added(updates, id) <= MaxUint
  /\ assets' = [id \in Ids |-> [assets[id] EXCEPT !.totalViews = @ + Added(updates, id)]]
  /\ UNCHANGED <<attester, owner, pendingOwner, contracts>>

(* Mutant: the zero address is not refused. *)
RotateAttesterToZero(sender, newAttester) ==
  /\ onlyOwner(sender)
  /\ attester' = newAttester
  /\ UNCHANGED <<owner, pendingOwner, contracts, assets>>

RotateAttester(sender, newAttester) ==
  /\ onlyOwner(sender)
  /\ newAttester # Zero
  /\ attester' = newAttester
  /\ UNCHANGED <<owner, pendingOwner, contracts, assets>>

\* Ownable2Step: a proposal replaces the one before it, and Zero withdraws it.
TransferOwnership(sender, newOwner) ==
  /\ onlyOwner(sender)
  /\ pendingOwner' = newOwner
  /\ UNCHANGED <<attester, owner, contracts, assets>>

(* Mutant: the proposal outlives its acceptance. *)
AcceptOwnershipKeep(sender) ==
  /\ sender = pendingOwner
  /\ owner' = sender
  /\ UNCHANGED <<attester, pendingOwner, contracts, assets>>

AcceptOwnership(sender) ==
  /\ sender = pendingOwner
  /\ owner' = sender
  /\ pendingOwner' = Zero
  /\ UNCHANGED <<attester, contracts, assets>>

RenounceOwnership(sender) ==
  /\ onlyOwner(sender)
  /\ owner' = Zero
  /\ pendingOwner' = Zero
  /\ UNCHANGED <<attester, contracts, assets>>
=============================================================================
