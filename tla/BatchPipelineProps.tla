-------------------------- MODULE BatchPipelineProps --------------------------
(***************************************************************************)
(* What BatchPipeline is meant to guarantee.                               *)
(***************************************************************************)
EXTENDS BatchPipeline

(* What the locals of a publishBatchFor call hold when it is at its pc.    *)
TickShape(k) ==
  IF k.pc = "idle" THEN k = IdleTick
  ELSE /\ k.period \in Period
       /\ k.pc \in {"mark", "markPeriod", "fail"} => k.current \in ChunkIdx
       /\ k.pc \in {"mark", "markPeriod"} => k.hash \in Tx

(* Every variable has its type; the locals of idle calls are reset.        *)
TypeOK ==
  /\ clock \in 1..(MaxPeriod + 1)
  /\ fired \in [Period -> BOOLEAN]
  /\ views \in [Period -> Payload]
  /\ anchored \in [Period -> Payload]
  /\ batches \in [Period -> Batch]
  /\ chunks \in [Period -> [ChunkIdx -> Chunk]]
  /\ mirror \in Payload
  /\ txs \in [Tx -> Transaction]
  /\ totalViews \in [Assets -> Int]
  /\ tick \in [TickSlots -> TickLocals]
  /\ rec \in [RecSlots -> RecLocals]
  /\ \A s \in TickSlots : TickShape(tick[s])
  /\ \A r \in RecSlots : rec[r].pc = "idle" => rec[r] = IdleRec

Disjoint(f, g) == Support(f) \cap Support(g) = {}
Published(t) == txs[t].state \in {"mined", "deep"}

(* What the chain has counted for asset a in period p.                     *)
PublishedIn(p, a) ==
  Sum([t \in Tx |-> IF Published(t) /\ txs[t].period = p THEN txs[t].payload[a] ELSE 0])

(***************************************************************************)
(* Two publishBatch transactions of one period never carry the same asset: *)
(* no view is sent to the additive counter twice, whatever crashes, lost   *)
(* answers or overlapping ticks happen (batch.service.ts loop, "un chunk   *)
(* gia' inviato non viene mai re-inviato").                                *)
(***************************************************************************)
NoDoublePublication ==
  \A t, u \in Tx :
    /\ t # u
    /\ txs[t].state # "unsent" /\ txs[u].state # "unsent"
    /\ txs[t].period = txs[u].period
    => Disjoint(txs[t].payload, txs[u].payload)

(***************************************************************************)
(* The on-chain counter of an asset never exceeds the views received for   *)
(* it: publication may be late or incomplete, never inflated.              *)
(***************************************************************************)
CounterNeverInflated ==
  \A a \in Assets : totalViews[a] <= Sum([p \in Period |-> views[p][a]])

(***************************************************************************)
(* A CONFIRMED period has chunks, and each of them carries the hash of a   *)
(* transaction with exactly its payload that is NOTARY_CONFIRMATIONS deep: *)
(* reconcileBatches never confirms over a missing, foreign or shallow tx.  *)
(***************************************************************************)
ConfirmedPeriodIsSettled ==
  \A p \in Period : batches[p].status = "CONFIRMED" =>
    /\ \E i \in ChunkIdx : chunks[p][i].status # "absent"
    /\ \A i \in ChunkIdx : chunks[p][i].status # "absent" =>
         /\ chunks[p][i].tx \in Tx
         /\ IsConfirmed(chunks[p][i].tx)
         /\ txs[chunks[p][i].tx].payload = chunks[p][i].payload

(***************************************************************************)
(* A CONFIRMED period has all its chunks CONFIRMED: nobody takes a chunk   *)
(* back after the finalisation that relied on it.                          *)
(***************************************************************************)
ConfirmedPeriodIsComplete ==
  \A p \in Period : batches[p].status = "CONFIRMED" => AllConfirmed(p)

(***************************************************************************)
(* The views of the snapshot of a CONFIRMED period are on chain, each      *)
(* exactly once.                                                           *)
(***************************************************************************)
ConfirmedPeriodIsPublished ==
  \A p \in Period : batches[p].status = "CONFIRMED" =>
    \A a \in Assets : PublishedIn(p, a) = batches[p].payload[a]

(***************************************************************************)
(* A view marked anchored is counted on chain (schema.ts: "anchored: false *)
(* finche' il batch del periodo non e' on-chain").                         *)
(***************************************************************************)
AnchoredViewsArePublished ==
  \A p \in Period, a \in Assets : anchored[p][a] <= PublishedIn(p, a)

(* Finaliser r has added asset a of period p to the mirror, and its period *)
(* is not flagged yet.                                                     *)
Touched(r, p, a) ==
  InPhase(r, p, "flag") \/ (InPhase(r, p, "mirror") /\ a \notin rec[r].fin[p].todo)

InMirror(p, a) == batches[p].mirrorApplied \/ \E r \in RecSlots : Touched(r, p, a)

(***************************************************************************)
(* Whatever ticks overlap and whatever crashes or fails, the mirror holds  *)
(* at least what the flags and the finalisers in flight say it holds: a    *)
(* period flagged mirrorApplied, which nobody will add again, was added in *)
(* full (reconciliation.service.ts:114-117, the increments come before the *)
(* flag).                                                                  *)
(***************************************************************************)
MirrorCoversApplied ==
  \A a \in Assets :
    Sum([p \in Period |-> IF InMirror(p, a) THEN batches[p].payload[a] ELSE 0]) <= mirror[a]

(***************************************************************************)
(* What is added to the mirror is on chain: a period that a finaliser, any *)
(* of them, adds or has flagged is counted there, each of its views once.  *)
(* So a wrong mirror only ever repeats views that the chain has.           *)
(***************************************************************************)
AppliedPeriodIsPublished ==
  \A p \in Period :
    batches[p].mirrorApplied \/ (\E r \in RecSlots : InPhase(r, p, "mirror") \/ InPhase(r, p, "flag"))
      => \A a \in Assets : PublishedIn(p, a) = batches[p].payload[a]

(***************************************************************************)
(* The mirror never runs ahead of the chain: neither overlap nor crash     *)
(* adds a period twice ("applicato esattamente una volta per periodo",     *)
(* reconciliation.service.ts:112; "senza perdere dati ne' duplicare        *)
(* conteggi", blockchain specification).                                   *)
(***************************************************************************)
MirrorNeverAheadOfChain == \A a \in Assets : mirror[a] <= totalViews[a]

(***************************************************************************)
(* A chunk that was CONFIRMED, or a period, never goes back, although no   *)
(* UPDATE of batch.repository.ts checks the status it overwrites.          *)
(***************************************************************************)
ConfirmationIsFinal ==
  [][\A p \in Period :
       /\ batches[p].status = "CONFIRMED" => batches'[p].status = "CONFIRMED"
       /\ \A i \in ChunkIdx :
            chunks[p][i].status = "CONFIRMED" => chunks'[p][i].status = "CONFIRMED"]_vars

(***************************************************************************)
(* The hash of a submitted chunk and its payload are never overwritten, so *)
(* its transaction can always be found again.                              *)
(***************************************************************************)
SubmittedChunkIsFrozen ==
  [][\A p \in Period, i \in ChunkIdx : chunks[p][i].tx # NoTx =>
       /\ chunks'[p][i].tx = chunks[p][i].tx
       /\ chunks'[p][i].payload = chunks[p][i].payload]_vars

(***************************************************************************)
(* Every view of a period ends up anchored, as long as no period holds an  *)
(* asset the contract does not know.  One such period is enough to stop    *)
(* the others: it stays PENDING with its healthy chunks on chain and not   *)
(* in the mirror, and detectAssetCounterMismatch then holds back every     *)
(* period that shares an asset with it.                                    *)
(***************************************************************************)
OrphanViewed == \E q \in Period : Support(views[q]) \cap Orphans # {}
EveryViewIsAnchored ==
  \A p \in Period : (views[p] # Empty) ~> (anchored[p] = views[p] \/ OrphanViewed)

(***************************************************************************)
(* One chunk that the contract refuses does not hold back the others       *)
(* ("gli altri chunk proseguono").                                         *)
(***************************************************************************)
IsPoisoned(c) == Support(c.payload) \cap Orphans # {}
HealthyChunksProceed ==
  \A p \in Period, i \in ChunkIdx :
    (chunks[p][i].status = "PENDING" /\ ~IsPoisoned(chunks[p][i]))
      ~> (chunks[p][i].status = "CONFIRMED")

(***************************************************************************)
(* A chunk whose sending failed is tried again ("il periodo resta PENDING  *)
(* e verra' ritentato").                                                   *)
(***************************************************************************)
FailedChunkIsRetried ==
  \A p \in Period, i \in ChunkIdx :
    (chunks[p][i].status = "FAILED" /\ chunks[p][i].tx = NoTx /\ ~IsPoisoned(chunks[p][i]))
      ~> (chunks[p][i].tx # NoTx)
=============================================================================
