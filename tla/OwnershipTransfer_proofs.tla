---------------------- MODULE OwnershipTransfer_proofs ----------------------
(***************************************************************************)
(* The hand-over properties of OwnershipTransfer, for any accounts, ids    *)
(* and number of script runs.                                              *)
(***************************************************************************)
EXTENDS OwnershipTransfer, SumTheorems

(***************************************************************************)
(* The inductive invariant.                                                *)
(***************************************************************************)
\* How far a run is decides what became of its transaction: nothing before it
\* is sent, and a verdict only after it was executed.
Shape(run) ==
  /\ run.pc # "idle" => run.signer \in Accounts
  /\ run.pc \in {"idle", "owner", "pending", "confirm", "send"} =>
       run.tx = None /\ run.exit = None /\ ~run.fault
  /\ run.pc = "wait" => run.tx # None /\ run.exit = None /\ ~run.fault
  /\ run.pc \in {"checkOwner", "checkPending"} =>
       run.tx = "mined" /\ run.exit = None /\ ~run.fault
  /\ run.pc = "ended" =>
       \/ run.exit \in {"ok", "mismatch"} /\ run.tx = "mined"
       \/ run.exit \notin {"ok", "mismatch"} /\ (run.fault \/ run.tx \in {None, "reverted"})

RunShape == \A r \in Runs : Shape(runs[r])

\* What stands was made by the transaction the histories name.
MadeProposal(run) ==
  /\ run.command = "propose" /\ run.tx = "mined" /\ pendingOwner = run.target
  /\ run.pc # "checkOwner" /\ run.exit # "mismatch"

MadeOwner(run) == run.command = "accept" /\ run.tx = "mined"

Authorship ==
  /\ \A r \in Runs : proposedBy = r => MadeProposal(runs[r])
  /\ \A r \in Runs : installedBy = r => MadeOwner(runs[r])

HandoverInv == HandoverTypeOK /\ PendingIsOwnersProposal /\ RunShape /\ Authorship

\* Nothing was proposed at first.
LEMMA HandoverInit == Init => HandoverInv
<1> SUFFICES ASSUME Init PROVE HandoverInv
  OBVIOUS
<1>1. HandoverTypeOK
  BY NotaryAssumption
  DEF Init, NotaryInit, HandoverTypeOK, GovernanceTypeOK, Addresses, Unknown, NoRun, RunType, Exits, None
<1>2. RunShape
  BY DEF Init, RunShape, Shape, NoRun, None
<1> QED
  BY <1>1, <1>2, RunsAssumption
  DEF Init, NotaryInit, HandoverInv, PendingIsOwnersProposal, Authorship, None

(***************************************************************************)
(* The steps of the script leave the chain alone.                          *)
(***************************************************************************)
LEMMA ScriptMove ==
  ASSUME HandoverInv, NEW r \in Runs, OnChainUnchanged,
         NEW run \in RunType, runs' = [runs EXCEPT ![r] = run],
         Shape(run),
         proposedBy = r => MadeProposal(run),
         installedBy = r => MadeOwner(run)
  PROVE  HandoverInv'
<1>1. HandoverTypeOK'
  BY DEF HandoverInv, HandoverTypeOK, GovernanceTypeOK, OnChainUnchanged, history
<1>2. \A q \in Runs : runs'[q] = IF q = r THEN run ELSE runs[q]
  BY DEF HandoverInv, HandoverTypeOK
<1>3. UNCHANGED <<owner, pendingOwner, proposer, proposedBy, installedBy>>
  BY DEF OnChainUnchanged, history
<1>4. PendingIsOwnersProposal'
  BY <1>3 DEF HandoverInv, PendingIsOwnersProposal
<1>5. RunShape'
  BY <1>2 DEF HandoverInv, RunShape, Shape
<1>6. Authorship'
  BY <1>2, <1>3 DEF HandoverInv, Authorship, MadeProposal, MadeOwner
<1> QED
  BY <1>1, <1>4, <1>5, <1>6 DEF HandoverInv

\* A run whose transaction was not sent made nothing that stands.
LEMMA Unsent ==
  ASSUME HandoverInv, NEW r \in Runs, runs[r].tx = None
  PROVE  proposedBy # r /\ installedBy # r
  BY DEF HandoverInv, Authorship, MadeProposal, MadeOwner, None

\* A run reads and asks.
LEMMA ReadStep ==
  ASSUME HandoverInv, NEW r \in Runs,
         \/ \E s \in Accounts, t \in Addresses, c \in {"propose", "accept"} : Start(r, c, s, t)
         \/ ReadOwner(r) \/ ReadForPropose(r) \/ ReadForAccept(r) \/ Confirm(r)
  PROVE  HandoverInv'
<1>1. /\ runs \in [Runs -> RunType] /\ owner \in Addresses /\ Shape(runs[r])
      /\ runs[r] \in RunType
  BY DEF HandoverInv, HandoverTypeOK, GovernanceTypeOK, RunShape
<1>2. CASE ReadOwner(r)
  <2> DEFINE run == [runs[r] EXCEPT !.pc = "pending", !.seen = owner]
  <2>1. runs' = [runs EXCEPT ![r] = run] /\ OnChainUnchanged
    BY <1>1, <1>2 DEF ReadOwner
  <2>2. run \in RunType /\ Shape(run) /\ runs[r].tx = None
    BY <1>1, <1>2 DEF ReadOwner, RunType, Shape
  <2> HIDE DEF run
  <2> QED
    BY <2>1, <2>2, Unsent, ScriptMove
<1>3. CASE ReadForPropose(r) \/ ReadForAccept(r) \/ Confirm(r)
  <2>1. PICK pc \in {"confirm", "send", "ended"}, exit \in {None, "refused", "nothing", "cancelled"} :
          /\ runs' = [runs EXCEPT ![r] = [runs[r] EXCEPT !.pc = pc, !.exit = exit]]
          /\ pc # "ended" => exit = None
    <3>1. runs[r].exit = None
      BY <1>1, <1>3 DEF ReadForPropose, ReadForAccept, Confirm, Shape, RunType
    <3>2. \/ Go(r, "confirm") \/ Go(r, "send")
          \/ End(r, "refused") \/ End(r, "nothing") \/ End(r, "cancelled")
      BY <1>3 DEF ReadForPropose, ReadForAccept, Confirm
    <3>3. ASSUME NEW pc \in {"confirm", "send"}, Go(r, pc)
          PROVE  runs' = [runs EXCEPT ![r] = [runs[r] EXCEPT !.pc = pc, !.exit = None]]
      <4>1. runs' = [runs EXCEPT ![r] = [runs[r] EXCEPT !.pc = pc]]
        BY <1>1, <3>3 DEF Go
      <4>2. [runs[r] EXCEPT !.pc = pc] = [runs[r] EXCEPT !.pc = pc, !.exit = None]
        BY <1>1, <3>1 DEF RunType
      <4> QED
        BY <4>1, <4>2
    <3>4. ASSUME NEW exit \in {"refused", "nothing", "cancelled"}, End(r, exit)
          PROVE  runs' = [runs EXCEPT ![r] = [runs[r] EXCEPT !.pc = "ended", !.exit = exit]]
      BY <1>1, <3>4 DEF End
    <3> QED
      BY <3>2, <3>3, <3>4
  <2> DEFINE run == [runs[r] EXCEPT !.pc = pc, !.exit = exit]
  <2>2. OnChainUnchanged
    BY <1>3 DEF ReadForPropose, ReadForAccept, Confirm
  <2>3. run \in RunType /\ Shape(run) /\ runs[r].tx = None
    BY <1>1, <1>3, <2>1 DEF ReadForPropose, ReadForAccept, Confirm, RunType, Exits, Shape, None
  <2> HIDE DEF run
  <2> QED
    BY <2>1, <2>2, <2>3, Unsent, ScriptMove DEF run
<1>4. ASSUME NEW s \in Accounts, NEW t \in Addresses, NEW c \in {"propose", "accept"},
             Start(r, c, s, t)
      PROVE  HandoverInv'
  <2> DEFINE run == [NoRun EXCEPT !.pc = "owner", !.command = c, !.signer = s, !.target = t]
  <2>1. runs' = [runs EXCEPT ![r] = run] /\ OnChainUnchanged
    BY <1>4 DEF Start
  <2>2. run \in RunType /\ Shape(run) /\ runs[r].tx = None
    BY <1>1, <1>4 DEF Start, NoRun, RunType, Exits, Shape, Addresses, None
  <2> HIDE DEF run
  <2> QED
    BY <2>1, <2>2, Unsent, ScriptMove
<1> QED
  BY <1>2, <1>3, <1>4

\* A run broadcasts.
LEMMA SendStep ==
  ASSUME HandoverInv, NEW r \in Runs, Send(r)
  PROVE  HandoverInv'
<1>1. /\ runs \in [Runs -> RunType] /\ runs[r] \in RunType /\ Shape(runs[r])
      /\ runs[r].pc = "send" /\ runs[r].tx = None /\ runs[r].exit = None /\ ~runs[r].fault
      /\ OnChainUnchanged
  BY DEF HandoverInv, HandoverTypeOK, RunShape, Shape, Send
<1>2. PICK pc \in {"wait", "ended"}, exit \in {None, "failed"}, tx \in {None, "sent"},
           fault \in BOOLEAN :
        /\ runs' = [runs EXCEPT ![r] = [runs[r] EXCEPT !.pc = pc, !.exit = exit, !.tx = tx,
                                                       !.fault = fault]]
        /\ pc = "wait" => tx = "sent" /\ exit = None /\ ~fault
        /\ pc = "ended" => exit = "failed" /\ (fault \/ tx = None)
  <2>1. CASE Fails(r)
    <3>1. runs' = [runs EXCEPT ![r] = [runs[r] EXCEPT !.pc = "ended", !.exit = "failed",
                                                      !.fault = FALSE]]
      BY <1>1, <2>1 DEF Fails
    <3>2. [runs[r] EXCEPT !.pc = "ended", !.exit = "failed", !.fault = FALSE]
            = [runs[r] EXCEPT !.pc = "ended", !.exit = "failed", !.tx = None, !.fault = FALSE]
      BY <1>1 DEF RunType
    <3> QED
      BY <3>1, <3>2
  <2>2. CASE runs' = [runs EXCEPT ![r].pc = "wait", ![r].tx = "sent"]
    <3>1. runs' = [runs EXCEPT ![r] = [runs[r] EXCEPT !.pc = "wait", !.tx = "sent"]]
      BY <1>1, <2>2
    <3>2. [runs[r] EXCEPT !.pc = "wait", !.tx = "sent"]
            = [runs[r] EXCEPT !.pc = "wait", !.exit = None, !.tx = "sent", !.fault = FALSE]
      BY <1>1 DEF RunType
    <3> QED
      BY <3>1, <3>2 DEF None
  <2>3. CASE runs' = [runs EXCEPT ![r].pc = "ended", ![r].exit = "failed",
                                  ![r].tx = "sent", ![r].fault = TRUE]
    <3>1. runs' = [runs EXCEPT ![r] = [runs[r] EXCEPT !.pc = "ended", !.exit = "failed",
                                                      !.tx = "sent", !.fault = TRUE]]
      BY <1>1, <2>3
    <3> QED
      BY <3>1
  <2> QED
    BY <2>1, <2>2, <2>3 DEF Send
<1> DEFINE run == [runs[r] EXCEPT !.pc = pc, !.exit = exit, !.tx = tx, !.fault = fault]
<1>3. run \in RunType
  BY <1>1, <1>2 DEF RunType, Exits, None
<1>4. Shape(run)
  BY <1>1, <1>2 DEF RunType, Shape, None
<1> HIDE DEF run
<1> QED
  BY <1>1, <1>2, <1>3, <1>4, Unsent, ScriptMove DEF run

\* A run that waits or checks ends, or goes on to its next check.
LEMMA CheckStep ==
  ASSUME HandoverInv, NEW r \in Runs, Wait(r) \/ CheckOwner(r) \/ CheckPending(r)
  PROVE  HandoverInv'
<1>1. /\ runs \in [Runs -> RunType] /\ runs[r] \in RunType /\ Shape(runs[r])
      /\ proposedBy = r => MadeProposal(runs[r])
      /\ installedBy = r => MadeOwner(runs[r])
      /\ OnChainUnchanged /\ runs[r].exit = None /\ ~runs[r].fault
  BY DEF HandoverInv, HandoverTypeOK, RunShape, Authorship, Shape, Wait, CheckOwner, CheckPending
<1>2. CASE Wait(r)
  <2>1. CASE runs[r].tx = "mined"
    <3> DEFINE run == [runs[r] EXCEPT !.pc = AfterReceipt(runs[r].command)]
    <3>1. runs' = [runs EXCEPT ![r] = run]
      BY <1>1, <1>2, <2>1 DEF Wait, Go
    <3>2. run \in RunType /\ Shape(run)
      BY <1>1, <1>2, <2>1 DEF Wait, RunType, Shape, AfterReceipt
    <3>3. /\ proposedBy = r => MadeProposal(run)
          /\ installedBy = r => MadeOwner(run)
      BY <1>1 DEF RunType, MadeProposal, MadeOwner, AfterReceipt, None
    <3> HIDE DEF run
    <3> QED
      BY <1>1, <3>1, <3>2, <3>3, ScriptMove
  <2>2. CASE runs[r].tx = "reverted"
    <3> DEFINE run == [runs[r] EXCEPT !.pc = "ended", !.exit = "failed"]
    <3>1. runs' = [runs EXCEPT ![r] = run]
      BY <1>1, <1>2, <2>2 DEF Wait, End
    <3>2. run \in RunType /\ Shape(run)
      BY <1>1, <1>2, <2>2 DEF Wait, RunType, Shape, Exits, None
    <3>3. proposedBy # r /\ installedBy # r
      BY <1>1, <2>2 DEF MadeProposal, MadeOwner
    <3> HIDE DEF run
    <3> QED
      BY <1>1, <3>1, <3>2, <3>3, ScriptMove
  <2> QED
    BY <1>2, <2>1, <2>2 DEF Wait
<1>3. CASE CheckOwner(r)
  <2>0. proposedBy # r
    BY <1>1, <1>3 DEF CheckOwner, MadeProposal
  <2>1. PICK pc \in {"checkPending", "ended"}, exit \in {None, "mismatch"} :
          /\ runs' = [runs EXCEPT ![r] = [runs[r] EXCEPT !.pc = pc, !.exit = exit]]
          /\ pc = "ended" <=> exit = "mismatch"
    <3>1. CASE Go(r, "checkPending")
      <4>1. runs' = [runs EXCEPT ![r] = [runs[r] EXCEPT !.pc = "checkPending"]]
        BY <1>1, <3>1 DEF Go
      <4>2. [runs[r] EXCEPT !.pc = "checkPending"]
              = [runs[r] EXCEPT !.pc = "checkPending", !.exit = None]
        BY <1>1 DEF RunType
      <4> QED
        BY <4>1, <4>2 DEF None
    <3>2. CASE End(r, "mismatch")
      BY <1>1, <3>2 DEF End
    <3> QED
      BY <1>3, <3>1, <3>2 DEF CheckOwner
  <2> DEFINE run == [runs[r] EXCEPT !.pc = pc, !.exit = exit]
  <2>2. run \in RunType /\ Shape(run)
    BY <1>1, <1>3, <2>1 DEF CheckOwner, RunType, Shape, Exits, None
  <2>3. installedBy = r => MadeOwner(run)
    BY <1>1 DEF RunType, MadeOwner
  <2> HIDE DEF run
  <2> QED
    BY <1>1, <2>0, <2>1, <2>2, <2>3, ScriptMove DEF run
<1>4. CASE CheckPending(r)
  <2>1. PICK exit \in {"ok", "mismatch"} :
          /\ runs' = [runs EXCEPT ![r] = [runs[r] EXCEPT !.pc = "ended", !.exit = exit]]
          /\ exit = "mismatch" => pendingOwner # Expected(r)
    BY <1>1, <1>4 DEF CheckPending, End
  <2> DEFINE run == [runs[r] EXCEPT !.pc = "ended", !.exit = exit]
  <2>2. run \in RunType /\ Shape(run)
    BY <1>1, <1>4 DEF CheckPending, RunType, Shape, Exits
  <2>3. /\ proposedBy = r => MadeProposal(run)
        /\ installedBy = r => MadeOwner(run)
    BY <1>1, <2>1 DEF RunType, MadeProposal, MadeOwner, Expected
  <2> HIDE DEF run
  <2> QED
    BY <1>1, <2>1, <2>2, <2>3, ScriptMove DEF run
<1> QED
  BY <1>2, <1>3, <1>4

\* A run gives up.
LEMMA RpcFailsStep ==
  ASSUME HandoverInv, NEW r \in Runs, RpcFails(r)
  PROVE  HandoverInv'
<1>1. /\ runs \in [Runs -> RunType] /\ runs[r] \in RunType /\ Shape(runs[r])
      /\ proposedBy = r => MadeProposal(runs[r])
      /\ installedBy = r => MadeOwner(runs[r])
      /\ OnChainUnchanged /\ runs[r].pc \notin {"idle", "ended"}
  BY DEF HandoverInv, HandoverTypeOK, RunShape, Authorship, RpcFails
<1> DEFINE run == [runs[r] EXCEPT !.pc = "ended", !.exit = "failed", !.fault = runs[r].tx # None]
<1>2. runs' = [runs EXCEPT ![r] = run]
  BY <1>1 DEF RpcFails, Fails
<1>3. run \in RunType
  BY <1>1 DEF RunType, Exits
<1>4. Shape(run)
  BY <1>1 DEF RunType, Shape, None
<1>5. /\ proposedBy = r => MadeProposal(run)
      /\ installedBy = r => MadeOwner(run)
  BY <1>1 DEF RunType, MadeProposal, MadeOwner
<1> HIDE DEF run
<1> QED
  BY <1>1, <1>2, <1>3, <1>4, <1>5, ScriptMove

(***************************************************************************)
(* The steps of the chain.                                                 *)
(***************************************************************************)
\* A new proposal by the owner.
LEMMA ProposeStep ==
  ASSUME HandoverInv, NEW s \in Accounts, NEW a \in Addresses, NEW by \in Runs \cup {None},
         TransferOwnership(s, a), Proposed(s, by),
         runs' \in [Runs -> RunType], RunShape',
         \A r \in Runs : MadeOwner(runs[r]) => MadeOwner(runs'[r]),
         \A r \in Runs : by = r => MadeProposal(runs[r])'
  PROVE  HandoverInv'
<1>1. HandoverTypeOK'
  BY DEF HandoverInv, HandoverTypeOK, GovernanceTypeOK, TransferOwnership, Proposed, Addresses
<1>2. PendingIsOwnersProposal'
  BY NotaryAssumption
  DEF PendingIsOwnersProposal, TransferOwnership, Proposed, onlyOwner
<1>3. Authorship'
  BY DEF HandoverInv, Authorship, Proposed, MadeOwner
<1> QED
  BY <1>1, <1>2, <1>3 DEF HandoverInv

\* A new owner, or none.
LEMMA InstallStep ==
  ASSUME HandoverInv, NEW by \in Runs \cup {None}, Installed(by),
         owner' \in Addresses, pendingOwner' = Zero, UNCHANGED attester,
         runs' \in [Runs -> RunType], RunShape',
         \A r \in Runs : by = r => MadeOwner(runs[r])'
  PROVE  HandoverInv'
<1>1. HandoverTypeOK'
  BY DEF HandoverInv, HandoverTypeOK, GovernanceTypeOK, Installed, Addresses
<1>2. PendingIsOwnersProposal' /\ Authorship'
  BY RunsAssumption DEF PendingIsOwnersProposal, Authorship, Installed
<1> QED
  BY <1>1, <1>2 DEF HandoverInv

\* The transaction of a run is executed.
LEMMA MineStep ==
  ASSUME HandoverInv, NEW r \in Runs, Mine(r)
  PROVE  HandoverInv'
<1>1. /\ runs \in [Runs -> RunType] /\ runs[r] \in RunType /\ Shape(runs[r])
      /\ runs[r].tx = "sent" /\ runs[r].pc \in {"wait", "ended"} /\ runs[r].signer \in Accounts
      /\ proposedBy # r /\ installedBy # r
  BY DEF HandoverInv, HandoverTypeOK, RunShape, Shape, Mine, None, RunType, Authorship,
         MadeProposal, MadeOwner
<1>2. ASSUME NEW tx \in {"mined", "reverted"}, runs' = [runs EXCEPT ![r].tx = tx]
      PROVE  /\ runs' \in [Runs -> RunType] /\ RunShape'
             /\ \A q \in Runs \ {r} : runs'[q] = runs[q]
             /\ \A q \in Runs : MadeOwner(runs[q]) => MadeOwner(runs'[q])
             /\ runs'[r] = [runs[r] EXCEPT !.tx = tx]
  <2>1. runs' = [runs EXCEPT ![r] = [runs[r] EXCEPT !.tx = tx]]
    BY <1>1, <1>2
  <2>2. [runs[r] EXCEPT !.tx = tx] \in RunType /\ Shape([runs[r] EXCEPT !.tx = tx])
    BY <1>1 DEF RunType, Shape, None
  <2>3. RunShape'
    BY <1>1, <2>1, <2>2 DEF HandoverInv, RunShape, Shape
  <2>4. ~MadeOwner(runs[r])
    BY <1>1 DEF MadeOwner
  <2> QED
    BY <1>1, <2>1, <2>2, <2>3, <2>4
<1>3. CASE /\ Allowed(r) /\ runs[r].command = "propose"
           /\ TransferOwnership(runs[r].signer, runs[r].target)
           /\ Proposed(runs[r].signer, r)
           /\ runs' = [runs EXCEPT ![r].tx = "mined"]
  <2>1. MadeProposal(runs[r])'
    BY <1>1, <1>2, <1>3 DEF RunType, Shape, MadeProposal, TransferOwnership, None
  <2> QED
    BY <1>1, <1>2, <1>3, <2>1, ProposeStep DEF RunType
<1>4. CASE /\ Allowed(r) /\ runs[r].command = "accept"
           /\ AcceptOwnership(runs[r].signer)
           /\ Installed(r)
           /\ runs' = [runs EXCEPT ![r].tx = "mined"]
  <2>1. MadeOwner(runs[r])'
    BY <1>1, <1>2, <1>4 DEF RunType, MadeOwner
  <2>2. owner' \in Addresses /\ pendingOwner' = Zero /\ UNCHANGED attester
    BY <1>1, <1>4 DEF AcceptOwnership, Addresses
  <2> QED
    BY <1>1, <1>2, <1>4, <2>1, <2>2, InstallStep
<1>5. CASE /\ ~Allowed(r)
           /\ runs' = [runs EXCEPT ![r].tx = "reverted"]
           /\ OnChainUnchanged
  <2> DEFINE run == [runs[r] EXCEPT !.tx = "reverted"]
  <2>1. runs' = [runs EXCEPT ![r] = run]
    BY <1>1, <1>5
  <2>2. run \in RunType /\ Shape(run)
    BY <1>1 DEF RunType, Shape, None
  <2> HIDE DEF run
  <2> QED
    BY <1>1, <1>5, <2>1, <2>2, ScriptMove
<1> QED
  BY <1>3, <1>4, <1>5 DEF Mine

\* Transactions sent without the script.
LEMMA GovernStep ==
  ASSUME HandoverInv, NEW s \in Accounts, Govern(s)
  PROVE  HandoverInv'
<1>1. /\ runs' = runs /\ runs' \in [Runs -> RunType] /\ RunShape'
      /\ \A r \in Runs : None # r
  BY RunsAssumption DEF Govern, HandoverInv, HandoverTypeOK, RunShape, Shape
<1>2. ASSUME NEW a \in Addresses, RotateAttester(s, a), UNCHANGED history
      PROVE  HandoverInv'
  BY <1>1, <1>2
  DEF RotateAttester, history, Addresses, HandoverInv, HandoverTypeOK, GovernanceTypeOK,
      PendingIsOwnersProposal, Authorship, MadeProposal, MadeOwner
<1>3. ASSUME NEW a \in Addresses, TransferOwnership(s, a), Proposed(s, None)
      PROVE  HandoverInv'
  BY <1>1, <1>3, ProposeStep
<1>4. CASE AcceptOwnership(s) /\ Installed(None)
  <2>1. owner' \in Addresses /\ pendingOwner' = Zero /\ UNCHANGED attester
    BY <1>4 DEF AcceptOwnership, Addresses
  <2> QED
    BY <1>1, <1>4, <2>1, InstallStep
<1>5. CASE RenounceOwnership(s) /\ Installed(None)
  <2>1. owner' \in Addresses /\ pendingOwner' = Zero /\ UNCHANGED attester
    BY <1>5 DEF RenounceOwnership, Addresses
  <2> QED
    BY <1>1, <1>5, <2>1, InstallStep
<1> QED
  BY <1>2, <1>3, <1>4, <1>5 DEF Govern

\* Nothing of the hand-over moves when a record is written.
LEMMA AttestStep ==
  ASSUME HandoverInv, NEW s \in Accounts, Attest(s)
  PROVE  HandoverInv'
<1>1. UNCHANGED <<attester, owner, pendingOwner, runs, history>>
  BY DEF Attest, NotarizeContract, NotarizeAsset, PublishBatch
<1> QED
  BY <1>1
  DEF history, HandoverInv, HandoverTypeOK, GovernanceTypeOK, PendingIsOwnersProposal,
      RunShape, Shape, Authorship, MadeProposal, MadeOwner

\* The invariant is inductive.
LEMMA HandoverStep == HandoverInv /\ [Next]_vars => HandoverInv'
<1> SUFFICES ASSUME HandoverInv, [Next]_vars PROVE HandoverInv'
  OBVIOUS
<1>1. ASSUME NEW r \in Runs, Step(r) PROVE HandoverInv'
  BY <1>1, ReadStep, SendStep, CheckStep, RpcFailsStep, MineStep DEF Step
<1>2. ASSUME NEW a \in Accounts, Govern(a) \/ Attest(a) PROVE HandoverInv'
  BY <1>2, GovernStep, AttestStep
<1>3. CASE UNCHANGED vars
  BY <1>3
  DEF vars, HandoverInv, HandoverTypeOK, GovernanceTypeOK, PendingIsOwnersProposal,
      RunShape, Shape, Authorship, MadeProposal, MadeOwner
<1> QED
  BY <1>1, <1>2, <1>3 DEF Next

(***************************************************************************)
(* The theorems.                                                           *)
(***************************************************************************)
\* The inductive invariant holds in every reachable state.
THEOREM HandoverSafe == Spec => []HandoverInv
  BY HandoverInit, HandoverStep, PTL DEF Spec

\* Only a proposal of the present owner can be accepted.
THEOREM ProposalTheorem == Spec => []PendingIsOwnersProposal
<1>1. HandoverInv => PendingIsOwnersProposal
  BY DEF HandoverInv
<1> QED
  BY <1>1, HandoverSafe, PTL

\* What stands was not reported as a failure by the run that made it.
THEOREM ReportTheorem == Spec => []StandingChangeWasReported
<1>1. HandoverInv => StandingChangeWasReported
  BY DEF HandoverInv, HandoverTypeOK, RunType, RunShape, Shape, Authorship, MadeProposal,
         MadeOwner, StandingChangeWasReported, None
<1> QED
  BY <1>1, HandoverSafe, PTL

(***************************************************************************)
(* The records.  The counters stay in the range of a uint256 because the   *)
(* addition that would leave it reverts, and what a batch adds is a sum of *)
(* naturals, however often it names an asset.                              *)
(***************************************************************************)
LEMMA AddedType ==
  ASSUME NEW u \in Updates, NEW id \in Ids
  PROVE  Added(u, id) \in Nat
<1>1. PICK n \in 0..MaxUpdates : u \in [1..n -> [assetId : Ids, viewsInPeriod : 0..MaxUint]]
  BY DEF Updates
<1>. DEFINE f == [i \in DOMAIN u |-> IF u[i].assetId = id THEN u[i].viewsInPeriod ELSE 0]
<1>2. IsFiniteSet(DOMAIN u)
  BY <1>1, NotaryAssumption, FS_Interval DEF NotaryAssumption
<1>3. \A i \in DOMAIN u : u[i].viewsInPeriod \in Nat
  BY <1>1, NotaryAssumption DEF NotaryAssumption
<1>4. f \in [DOMAIN u -> Nat]
  BY <1>3
<1>. HIDE DEF f
<1>5. SumFunction(f) \in Nat
  BY <1>2, <1>4, SumNatural
<1>. QED
  BY <1>5 DEF Added, f

\* One entry of each of the two calls that write records, and the batch.
LEMMA RecordsStep ==
  ASSUME RecordsTypeOK, [Next]_vars
  PROVE  /\ RecordsTypeOK'
         /\ \A i \in Ids :
              /\ contracts[i] # NoHash => contracts'[i] = contracts[i]
              /\ assets[i].hash # NoHash => /\ assets'[i].hash = assets[i].hash
                                            /\ assets'[i].totalViews >= assets[i].totalViews
<1>. DEFINE Asset == [hash : Hashes \cup {NoHash}, totalViews : 0..MaxUint]
            Grow == \A i \in Ids :
                      /\ contracts[i] # NoHash => contracts'[i] = contracts[i]
                      /\ assets[i].hash # NoHash =>
                           /\ assets'[i].hash = assets[i].hash
                           /\ assets'[i].totalViews >= assets[i].totalViews
<1>0. /\ contracts \in [Ids -> Hashes \cup {NoHash}] /\ assets \in [Ids -> Asset]
      /\ MaxUint \in Nat /\ NoHash \notin Hashes
      /\ \A i \in Ids : assets[i] \in Asset /\ assets[i].totalViews \in Nat
  BY NotaryAssumption DEF RecordsTypeOK, NotaryAssumption
<1>1. CASE UNCHANGED records
  BY <1>0, <1>1 DEF records, RecordsTypeOK
<1>2. ASSUME NEW s \in Accounts, NEW i \in Ids, NEW h \in Hashes \cup {NoHash},
             NotarizeContract(s, i, h)
      PROVE  RecordsTypeOK' /\ Grow
  <2>1. UNCHANGED assets
    BY <1>2 DEF NotarizeContract
  <2>2. /\ contracts' \in [Ids -> Hashes \cup {NoHash}]
        /\ \A j \in Ids : contracts[j] # NoHash => contracts'[j] = contracts[j]
    BY <1>0, <1>2 DEF NotarizeContract
  <2>. QED
    BY <1>0, <2>1, <2>2 DEF RecordsTypeOK
<1>3. ASSUME NEW s \in Accounts, NEW i \in Ids, NEW h \in Hashes \cup {NoHash},
             NotarizeAsset(s, i, h)
      PROVE  RecordsTypeOK' /\ Grow
  <2>. DEFINE new == [hash |-> h, totalViews |-> 0]
  <2>1. /\ UNCHANGED contracts /\ assets[i].hash = NoHash
        /\ assets' = [assets EXCEPT ![i] = new]
    BY <1>3 DEF NotarizeAsset, Notarized
  <2>2. new \in Asset
    BY <1>0
  <2>. HIDE DEF new
  <2>3. assets' \in [Ids -> Asset]
    BY <1>0, <2>1, <2>2
  <2>4. \A j \in Ids : assets[j].hash # NoHash => assets'[j] = assets[j]
    BY <1>0, <2>1
  <2>. QED
    BY <1>0, <2>1, <2>3, <2>4 DEF RecordsTypeOK
<1>4. ASSUME NEW s \in Accounts, NEW u \in Updates, PublishBatch(s, u)
      PROVE  RecordsTypeOK' /\ Grow
  <2>1. /\ UNCHANGED contracts
        /\ \A j \in Ids : assets[j].totalViews + Added(u, j) <= MaxUint
        /\ assets' = [j \in Ids |->
             [assets[j] EXCEPT !.totalViews = assets[j].totalViews + Added(u, j)]]
    BY <1>4 DEF PublishBatch
  <2>2. ASSUME NEW j \in Ids
        PROVE  /\ assets'[j] \in Asset
               /\ assets'[j].hash = assets[j].hash
               /\ assets'[j].totalViews >= assets[j].totalViews
    <3>1. PICK n \in Nat : n = assets[j].totalViews + Added(u, j)
      BY <1>0, AddedType
    <3>2. n \in 0..MaxUint /\ n >= assets[j].totalViews
      BY <1>0, <2>1, <3>1, AddedType
    <3>3. assets'[j] = [assets[j] EXCEPT !.totalViews = n]
      BY <2>1, <3>1
    <3>. QED
      BY <1>0, <3>2, <3>3
  <2>3. assets' \in [Ids -> Asset]
    BY <2>1, <2>2
  <2>. QED
    BY <1>0, <2>1, <2>2, <2>3 DEF RecordsTypeOK
<1>5. \/ UNCHANGED records
      \/ \E s \in Accounts : Attest(s)
  BY DEF Next, Step, Start, ReadOwner, ReadForPropose, ReadForAccept, Confirm, Send, Wait,
     CheckOwner, CheckPending, RpcFails, Mine, Govern, OnChainUnchanged, TransferOwnership,
     AcceptOwnership, RotateAttester, RenounceOwnership, vars, records
<1>. QED
  BY <1>1, <1>2, <1>3, <1>4, <1>5 DEF Attest

\* Nothing is recorded at first.
LEMMA RecordsInit == Init => RecordsTypeOK
  BY NotaryAssumption DEF Init, NotaryInit, RecordsTypeOK, Unknown, NotaryAssumption

\* Every value is of its type; a counter is a uint256 in every reachable state.
THEOREM TypeCorrect == Spec => []TypeOK
<1>1. RecordsTypeOK /\ [Next]_vars => RecordsTypeOK'
  BY RecordsStep
<1>2. HandoverInv /\ RecordsTypeOK => TypeOK
  BY DEF HandoverInv, TypeOK
<1> QED
  BY <1>1, <1>2, RecordsInit, HandoverSafe, PTL DEF Spec

\* No call overwrites a record or lowers a counter, whoever sends it.
THEOREM RecordsTheorem == Spec => RecordsOnlyGrow
<1>1. TypeOK /\ [Next]_vars =>
        [\A i \in Ids :
           /\ contracts[i] # NoHash => contracts'[i] = contracts[i]
           /\ assets[i].hash # NoHash => /\ assets'[i].hash = assets[i].hash
                                         /\ assets'[i].totalViews >= assets[i].totalViews]_vars
  BY RecordsStep DEF TypeOK
<1> QED
  BY <1>1, TypeCorrect, PTL DEF Spec, RecordsOnlyGrow
=============================================================================
