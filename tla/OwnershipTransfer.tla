-------------------------- MODULE OwnershipTransfer --------------------------
(***************************************************************************)
(* The operators' scripts over the Notary contract: runs of                *)
(* transfer-ownership.ts (propose, accept), each a sequence of awaited     *)
(* calls, beside transactions that the same accounts send by other means.  *)
(*                                                                         *)
(* A run reads, asks for a confirmation, sends a transaction, waits for    *)
(* its receipt and reads again: the contract may change at each await, and *)
(* the RPC may fail at each.                                               *)
(***************************************************************************)
EXTENDS Notary

CONSTANTS
  Runs,       \* runs of the script
  Direct      \* whether accounts also send transactions directly

VARIABLES
  runs,       \* the runs of the script
  proposer,   \* history: the owner that made the proposal that stands
  proposedBy, \* history: the run whose transaction made it, if one did
  installedBy \* history: the run whose transaction made the owner, if one did

vars == <<attester, owner, pendingOwner, contracts, assets,
          runs, proposer, proposedBy, installedBy>>

None == "none"

ASSUME RunsAssumption == None \notin Runs /\ Direct \in BOOLEAN

\* `seen' is the owner that was read first; `tx' what became of the run's
\* transaction; `fault' whether the RPC failed after it was broadcast.
NoRun == [pc |-> "idle", command |-> None, signer |-> Zero, target |-> Zero, seen |-> Zero,
          tx |-> None, exit |-> None, fault |-> FALSE]

\* The exit codes are 0 for "ok", "nothing" and "cancelled", 1 for the others.
Exits == {None, "ok", "nothing", "cancelled", "refused", "failed", "mismatch"}

RunType ==
  [pc : {"idle", "owner", "pending", "confirm", "send", "wait", "checkOwner", "checkPending", "ended"},
   command : {None, "propose", "accept"}, signer : Addresses, target : Addresses,
   seen : Addresses, tx : {None, "sent", "mined", "reverted"}, exit : Exits, fault : BOOLEAN]

HandoverTypeOK ==
  /\ GovernanceTypeOK
  /\ runs \in [Runs -> RunType]
  /\ proposer \in Addresses
  /\ proposedBy \in Runs \cup {None}
  /\ installedBy \in Runs \cup {None}

TypeOK == HandoverTypeOK /\ RecordsTypeOK

Init ==
  /\ NotaryInit
  /\ runs = [r \in Runs |-> NoRun]
  /\ proposer = Zero
  /\ proposedBy = None
  /\ installedBy = None

history == <<proposer, proposedBy, installedBy>>

Go(r, pc) == runs' = [runs EXCEPT ![r].pc = pc]

End(r, exit) == runs' = [runs EXCEPT ![r].pc = "ended", ![r].exit = exit]

\* The RPC fails: the catch of main.
Fails(r) ==
  runs' = [runs EXCEPT ![r].pc = "ended", ![r].exit = "failed", ![r].fault = runs[r].tx # None]

OnChainUnchanged == UNCHANGED <<attester, owner, pendingOwner, contracts, assets, history>>

(***************************************************************************)
(* The script                                                              *)
(***************************************************************************)
\* parseArgs and main: --new-owner takes any address, the zero one included.
Start(r, command, signer, target) ==
  /\ runs[r].pc = "idle"
  /\ command = "accept" => target = Zero
  /\ runs' = [runs EXCEPT ![r] = [NoRun EXCEPT !.pc = "owner", !.command = command,
                                               !.signer = signer, !.target = target]]
  /\ OnChainUnchanged

ReadOwner(r) ==
  /\ runs[r].pc = "owner"
  /\ runs' = [runs EXCEPT ![r].pc = "pending", ![r].seen = owner]
  /\ OnChainUnchanged

\* The checks of propose, in their order, on the owner read before and the
\* proposal read now.
ReadForPropose(r) ==
  /\ runs[r].pc = "pending" /\ runs[r].command = "propose"
  /\ LET run == runs[r] IN
     \/ run.seen # run.signer /\ End(r, "refused")
     \/ run.seen = run.signer /\ run.target \in {run.seen, pendingOwner} /\ End(r, "nothing")
     \/ run.seen = run.signer /\ run.target \notin {run.seen, pendingOwner} /\ Go(r, "confirm")
  /\ OnChainUnchanged

ReadForAccept(r) ==
  /\ runs[r].pc = "pending" /\ runs[r].command = "accept"
  /\ IF pendingOwner = runs[r].signer THEN Go(r, "confirm") ELSE End(r, "refused")
  /\ OnChainUnchanged

\* promptConfirm, skipped by --yes.
Confirm(r) ==
  /\ runs[r].pc = "confirm"
  /\ Go(r, "send") \/ End(r, "cancelled")
  /\ OnChainUnchanged

\* What the run's transaction needs to succeed, now.
Allowed(r) ==
  IF runs[r].command = "propose" THEN onlyOwner(runs[r].signer)
                                 ELSE pendingOwner = runs[r].signer

\* ethers estimates the gas before it broadcasts: a call that would revert is
\* not sent.  The answer of a broadcast may be lost.
Send(r) ==
  /\ runs[r].pc = "send"
  /\ \/ ~Allowed(r) /\ Fails(r)
     \/ Allowed(r) /\ runs' = [runs EXCEPT ![r].pc = "wait", ![r].tx = "sent"]
     \/ Allowed(r) /\ runs' = [runs EXCEPT ![r].pc = "ended", ![r].exit = "failed",
                                           ![r].tx = "sent", ![r].fault = TRUE]
  /\ OnChainUnchanged

AfterReceipt(command) == IF command = "propose" THEN "checkPending" ELSE "checkOwner"

Wait(r) ==
  /\ runs[r].pc = "wait"
  /\ \/ runs[r].tx = "mined" /\ Go(r, AfterReceipt(runs[r].command))
     \/ runs[r].tx = "reverted" /\ End(r, "failed")
  /\ OnChainUnchanged

CheckOwner(r) ==
  /\ runs[r].pc = "checkOwner"
  /\ IF owner = runs[r].signer THEN Go(r, "checkPending") ELSE End(r, "mismatch")
  /\ OnChainUnchanged

(* Mutant: a proposal is looked for where the signer is. *)
ExpectedSigner(r) == IF runs[r].command = "propose" THEN runs[r].signer ELSE Zero

\* What pendingOwner must be in the end.
Expected(r) == IF runs[r].command = "propose" THEN runs[r].target ELSE Zero

CheckPending(r) ==
  /\ runs[r].pc = "checkPending"
  /\ End(r, IF pendingOwner = Expected(r) THEN "ok" ELSE "mismatch")
  /\ OnChainUnchanged

\* Any awaited call but the question may throw.
RpcFails(r) ==
  /\ runs[r].pc \in {"owner", "pending", "send", "wait", "checkOwner", "checkPending"}
  /\ Fails(r)
  /\ OnChainUnchanged

(***************************************************************************)
(* The chain                                                               *)
(***************************************************************************)
\* The histories after a proposal, an acceptance or a renunciation.
Proposed(by, run) == proposer' = by /\ proposedBy' = run /\ UNCHANGED installedBy

Installed(run) == proposer' = Zero /\ proposedBy' = None /\ installedBy' = run

\* The transaction of a run is executed.
Mine(r) ==
  /\ runs[r].tx = "sent"
  /\ LET run == runs[r] IN
     \/ /\ Allowed(r) /\ run.command = "propose"
        /\ TransferOwnership(run.signer, run.target)
        /\ Proposed(run.signer, r)
        /\ runs' = [runs EXCEPT ![r].tx = "mined"]
     \/ /\ Allowed(r) /\ run.command = "accept"
        /\ AcceptOwnership(run.signer)
        /\ Installed(r)
        /\ runs' = [runs EXCEPT ![r].tx = "mined"]
     \/ /\ ~Allowed(r)
        /\ runs' = [runs EXCEPT ![r].tx = "reverted"]
        /\ OnChainUnchanged

\* Governance calls sent without the script: a Safe, a console.
Govern(sender) ==
  /\ Direct
  /\ \/ \E a \in Addresses : RotateAttester(sender, a) /\ UNCHANGED history
     \/ \E a \in Addresses : TransferOwnership(sender, a) /\ Proposed(sender, None)
     \/ AcceptOwnership(sender) /\ Installed(None)
     \/ RenounceOwnership(sender) /\ Installed(None)
  /\ UNCHANGED runs

\* The transactions of whoever holds the attester's key.
Attest(sender) ==
  /\ \/ \E i \in Ids, h \in Hashes \cup {NoHash} :
          NotarizeContract(sender, i, h) \/ NotarizeAsset(sender, i, h)
     \/ \E u \in Updates : PublishBatch(sender, u)
  /\ UNCHANGED <<runs, history>>

Step(r) ==
  \/ \E s \in Accounts, t \in Addresses, c \in {"propose", "accept"} : Start(r, c, s, t)
  \/ ReadOwner(r) \/ ReadForPropose(r) \/ ReadForAccept(r) \/ Confirm(r) \/ Send(r)
  \/ Wait(r) \/ CheckOwner(r) \/ CheckPending(r) \/ RpcFails(r) \/ Mine(r)

Next ==
  \/ \E r \in Runs : Step(r)
  \/ \E a \in Accounts : Govern(a) \/ Attest(a)

Spec == Init /\ [][Next]_vars

(***************************************************************************)
(* Properties                                                              *)
(***************************************************************************)
\* Whoever may accept was proposed by the account that owns the contract now:
\* no proposal of an earlier owner survives a hand-over or a renunciation
\* (Notary.sol:16-24, transfer-ownership.ts:236).
PendingIsOwnersProposal == pendingOwner # Zero => proposer = owner /\ owner # Zero

\* The proposal that stands, or the owner in place, was not reported as a
\* failure by the run that made it, unless the RPC failed the run after its
\* transaction was broadcast, or the new owner had already proposed anew when
\* an accept looked (transfer-ownership.ts:176-181, 230-240).
StandingChangeWasReported ==
  \A r \in Runs :
    runs[r].pc = "ended" /\ ~runs[r].fault =>
      /\ proposedBy = r => runs[r].exit = "ok"
      /\ installedBy = r => runs[r].exit \in {"ok", "mismatch"}

\* Records are written once and counters only grow, whoever is attester or
\* owner, at the end of the range of a counter too (Notary.sol:83-119).
RecordsOnlyGrow ==
  [][\A i \in Ids :
       /\ contracts[i] # NoHash => contracts'[i] = contracts[i]
       /\ assets[i].hash # NoHash => /\ assets'[i].hash = assets[i].hash
                                     /\ assets'[i].totalViews >= assets[i].totalViews]_vars
=============================================================================
