---------------------------- MODULE BatchPipeline ----------------------------
(***************************************************************************)
(* The view-counting pipeline of the backend: the BatchJob tick that       *)
(* publishes a closed period in chunks (BatchService.publishBatchFor), the *)
(* ReconcileJob tick that confirms chunks and finalises periods            *)
(* (ReconciliationService.reconcileBatches), the PostgreSQL tables they    *)
(* share, and the chain as the backend sees it through the gateway.        *)
(*                                                                         *)
(* Both ticks are async functions of one Node process: every await is a    *)
(* point where another tick may run, so every awaited call that touches    *)
(* shared state is an action of its own.  Local variables live in          *)
(* tick[s] and rec[r] and are lost by a crash; tables and chain survive.   *)
(*                                                                         *)
(* Periods are numbered 1..MaxPeriod (period k stands for the id           *)
(* k * BATCH_PERIOD_SECONDS) and assets are natural numbers whose order is *)
(* that of localeCompare on asset ids.  A payload is a function from       *)
(* assets to counts, 0 for an asset that is not in it.                     *)
(***************************************************************************)
EXTENDS Integers, FiniteSets, Functions

CONSTANTS
  Assets,     \* assets with a row in the assets table
  Orphans,    \* those of them that never got notarized on chain
  MaxPeriod,  \* bound: number of periods
  MaxChunk,   \* BATCH_MAX_CHUNK, assets per chunk
  MaxTx,      \* bound: publishBatch transactions ever broadcast
  MaxViews,   \* bound: views of one asset in one period
  MaxMirror,  \* bound: a mirror counter (repeated increments never end)
  TickSlots,  \* BatchJob ticks that may be in flight together
  RecSlots,   \* ReconcileJob ticks that may be in flight together
  Env         \* what the environment may do, a subset of Hardships

(***************************************************************************)
(* crash: the process dies and restarts; dbError: a query fails;           *)
(* sendRejected: the node refuses a transaction; sendLost: it accepts one  *)
(* and the answer is lost; txReverted: a mined transaction reverts;        *)
(* txDropped: the mempool forgets one; reorg: a shallow block is undone;   *)
(* lateView: a view is reported after its period closed; missedTick: the   *)
(* process is down when the cron should fire; fineCron: BATCH_CRON fires   *)
(* more than once per period.                                              *)
(***************************************************************************)
Hardships == {"crash", "dbError", "sendRejected", "sendLost", "txReverted",
              "txDropped", "reorg", "lateView", "missedTick", "fineCron"}

ASSUME ConstantsAssumption ==
  /\ Assets \subseteq Nat /\ IsFiniteSet(Assets) /\ Orphans \subseteq Assets
  /\ MaxPeriod \in Nat /\ MaxChunk \in Nat \ {0}
  /\ MaxTx \in Nat /\ MaxViews \in Nat /\ MaxMirror \in Nat
  /\ Env \subseteq Hardships

VARIABLES
  clock,      \* the current period, from the wall clock
  fired,      \* fired[p]: the cron tick that publishes p has run
  views,      \* views[p][a]: rows of the views table
  anchored,   \* anchored[p][a]: those with anchored = 1
  batches,    \* the batches table, by period
  chunks,     \* the batch_chunks table, by period and chunk index
  mirror,     \* assets.total_views_mirror
  txs,        \* publishBatch transactions handed to the network
  totalViews, \* Notary.assets[a].totalViews at the latest block
  tick,       \* locals of the publishBatchFor calls in flight
  rec         \* locals of the reconcileBatches calls in flight

tables == <<views, anchored, batches, chunks, mirror>>
chain  == <<txs, totalViews>>
vars   == <<clock, fired, tables, chain, tick, rec>>

Period   == 1..MaxPeriod
ChunkIdx == 0..(Cardinality(Assets) - 1)
Tx       == 1..MaxTx
NoTx     == 0
Payload  == [Assets -> Nat]
Empty    == [a \in Assets |-> 0]
Support(payload) == {a \in Assets : payload[a] > 0}
Sum(f)   == SumFunction(f)

Batch == [status : {"absent", "PENDING", "CONFIRMED"}, tx : Tx \cup {NoTx},
          payload : Payload, mirrorApplied : BOOLEAN]
NoBatch == [status |-> "absent", tx |-> NoTx, payload |-> Empty, mirrorApplied |-> FALSE]

Chunk == [status : {"absent", "PENDING", "FAILED", "CONFIRMED"},
          tx : Tx \cup {NoTx}, payload : Payload]
NoChunk == [status |-> "absent", tx |-> NoTx, payload |-> Empty]

(* period and chunk of a transaction are history: no action reads chunk.   *)
Transaction == [state : {"unsent", "pool", "mined", "deep", "reverted", "dropped"},
                period : Period \cup {0}, chunk : ChunkIdx \cup {-1}, payload : Payload]
Unsent == [state |-> "unsent", period |-> 0, chunk |-> -1, payload |-> Empty]

TickLocals == [pc : {"idle", "aggregate", "create", "ensure", "find", "send",
                     "mark", "markPeriod", "fail"},
               period : Period \cup {0}, exists : BOOLEAN, txSet : BOOLEAN,
               aggregates : Payload, todo : SUBSET ChunkIdx,
               current : ChunkIdx \cup {-1}, hash : Tx \cup {NoTx}]
IdleTick == [pc |-> "idle", period |-> 0, exists |-> FALSE, txSet |-> FALSE,
             aggregates |-> Empty, todo |-> {}, current |-> -1, hash |-> NoTx]

Finalizer == [pc : {"done", "chunks", "mirror", "flag", "check", "compare",
                    "confirm", "anchor"},
              applied : BOOLEAN, todo : SUBSET Assets, onchain : Int]
DoneFinalizer == [pc |-> "done", applied |-> FALSE, todo |-> {}, onchain |-> 0]
RecLocals == [pc : {"idle", "confirm", "finalize"},
              snapshot : SUBSET (Period \X ChunkIdx \X Tx),
              fin : [Period -> Finalizer]]
IdleRec == [pc |-> "idle", snapshot |-> {}, fin |-> [p \in Period |-> DoneFinalizer]]

Init ==
  /\ clock = 1
  /\ fired = [p \in Period |-> FALSE]
  /\ views = [p \in Period |-> Empty]
  /\ anchored = [p \in Period |-> Empty]
  /\ batches = [p \in Period |-> NoBatch]
  /\ chunks = [p \in Period |-> [i \in ChunkIdx |-> NoChunk]]
  /\ mirror = Empty
  /\ txs = [t \in Tx |-> Unsent]
  /\ totalViews = Empty
  /\ tick = [s \in TickSlots |-> IdleTick]
  /\ rec = [r \in RecSlots |-> IdleRec]

-----------------------------------------------------------------------------
(* Views and time.                                                         *)

(* ViewRepository.create for an accepted view of asset a; its period comes *)
(* from the occurredAt the caller sends, so it may already be closed.      *)
RecordView(a, p) ==
  /\ views[p][a] < MaxViews
  /\ p = clock \/ (p < clock /\ "lateView" \in Env)
  /\ views' = [views EXCEPT ![p][a] = @ + 1]
  /\ UNCHANGED <<clock, fired, anchored, batches, chunks, mirror, chain, tick, rec>>

(* The wall clock enters the next period.  An aligned cron fires once in   *)
(* each period, for the one before, unless the process is down.            *)
AdvanceClock ==
  /\ clock <= MaxPeriod
  /\ clock - 1 \in Period => fired[clock - 1] \/ "missedTick" \in Env
  /\ clock' = clock + 1
  /\ UNCHANGED <<fired, tables, chain, tick, rec>>

-----------------------------------------------------------------------------
(* One UPDATE of a row, and one step of a call in flight.                  *)
SetBatch(p, b)    == batches' = [batches EXCEPT ![p] = b]
SetChunk(p, i, c) == chunks' = [chunks EXCEPT ![p][i] = c]
SetTick(s, k)     == tick' = [tick EXCEPT ![s] = k]
SetRec(r, k)      == rec' = [rec EXCEPT ![r] = k]

(* BatchJob.runOnce and BatchService.publishBatchFor.                      *)

(* Mutant: the tick publishes the period that is still open.               *)
PreviousPeriod_Open == clock

(* The period that just closed.                                            *)
PreviousPeriod == clock - 1

(* The cron fires: previousPeriodId, then findByPeriodId and its early     *)
(* return on a CONFIRMED batch.                                            *)
TickStart(s) ==
  LET p == PreviousPeriod IN
  /\ tick[s].pc = "idle"
  /\ p \in Period
  /\ fired[p] => "fineCron" \in Env
  /\ fired' = [fired EXCEPT ![p] = TRUE]
  /\ SetTick(s, IF batches[p].status = "CONFIRMED" THEN IdleTick
                ELSE [IdleTick EXCEPT !.pc = "aggregate", !.period = p,
                                      !.exists = (batches[p].status # "absent"),
                                      !.txSet = (batches[p].tx # NoTx)])
  /\ UNCHANGED <<clock, tables, chain, rec>>

(* aggregatesForPeriod; nothing to publish ends the tick.                  *)
TickAggregate(s) ==
  LET k == tick[s] IN
  /\ k.pc = "aggregate"
  /\ SetTick(s, IF views[k.period] = Empty THEN IdleTick
                ELSE [k EXCEPT !.pc = IF k.exists THEN "ensure" ELSE "create",
                               !.aggregates = views[k.period]])
  /\ UNCHANGED <<clock, fired, tables, chain, rec>>

(* createPending; a row inserted meanwhile makes the insert fail.          *)
TickCreate(s) ==
  LET k == tick[s] IN
  /\ k.pc = "create"
  /\ IF batches[k.period].status = "absent"
     THEN /\ SetBatch(k.period, [NoBatch EXCEPT !.status = "PENDING", !.payload = k.aggregates])
          /\ SetTick(s, [k EXCEPT !.pc = "ensure"])
     ELSE /\ SetTick(s, IdleTick)
          /\ UNCHANGED batches
  /\ UNCHANGED <<clock, fired, views, anchored, chunks, mirror, chain, rec>>

(* chunkBy over the aggregates sorted by asset id: the asset's position    *)
(* divided by BATCH_MAX_CHUNK is the index of its slice.                   *)
Position(a, payload) == Cardinality({b \in Support(payload) : b < a})

(* Mutant: the end of a slice is taken as inclusive.                       *)
Slice_Overlap(payload, i) ==
  [a \in Assets |-> IF Position(a, payload) \in (i * MaxChunk)..((i + 1) * MaxChunk)
                    THEN payload[a] ELSE 0]

Slice(payload, i) ==
  [a \in Assets |-> IF Position(a, payload) \div MaxChunk = i THEN payload[a] ELSE 0]

(* ensureChunks: insert the missing rows, leave the existing ones alone.   *)
TickEnsure(s) ==
  LET k == tick[s] IN
  /\ k.pc = "ensure"
  /\ chunks' = [chunks EXCEPT ![k.period] = [i \in ChunkIdx |->
       IF chunks[k.period][i].status = "absent" /\ Slice(k.aggregates, i) # Empty
       THEN [NoChunk EXCEPT !.status = "PENDING", !.payload = Slice(k.aggregates, i)]
       ELSE chunks[k.period][i]]]
  /\ SetTick(s, [k EXCEPT !.pc = "find"])
  /\ UNCHANGED <<clock, fired, views, anchored, batches, mirror, chain, rec>>

(* Mutant: chunks that already have a hash are sent again.                 *)
NeverSubmitted_All(p) == {i \in ChunkIdx : chunks[p][i].status # "absent"}

NeverSubmitted(p) ==
  {i \in ChunkIdx : chunks[p][i].status # "absent" /\ chunks[p][i].tx = NoTx}

(* findChunks; the loop will skip every chunk that had a txHash here.      *)
TickFind(s) ==
  LET k == tick[s]
      unsent == NeverSubmitted(k.period) IN
  /\ k.pc = "find"
  /\ SetTick(s, IF unsent = {} THEN IdleTick ELSE [k EXCEPT !.pc = "send", !.todo = unsent])
  /\ UNCHANGED <<clock, fired, tables, chain, rec>>

(* Mutant: the locals survive the end of the call.                         *)
ContinueLoop_NoReset(k) == [k EXCEPT !.pc = IF k.todo = {} THEN "idle" ELSE "send"]

(* Mutant: one chunk ends the loop.                                        *)
ContinueLoop_Break(k) == IdleTick

(* On to the next chunk of the loop, or out of the function.               *)
ContinueLoop(k) ==
  IF k.todo = {} THEN IdleTick
  ELSE [k EXCEPT !.pc = "send", !.current = -1, !.hash = NoTx]

(* The next chunk of the loop, in chunkIndex order.                        *)
IsNextChunk(s, i) ==
  /\ tick[s].pc = "send"
  /\ i \in tick[s].todo
  /\ \A j \in tick[s].todo : i <= j

IsFresh(t) == txs[t].state = "unsent" /\ \A u \in Tx : u < t => txs[u].state # "unsent"

Broadcast(p, i, t) ==
  /\ IsFresh(t)
  /\ Support(chunks[p][i].payload) \cap Orphans = {}
  /\ txs' = [txs EXCEPT ![t] = [state |-> "pool", period |-> p, chunk |-> i,
                                payload |-> chunks[p][i].payload]]

(* Mutant: the loop does not move past the chunk it sent.                  *)
AfterSend_Stay(k, i, pc, t) == [k EXCEPT !.pc = pc, !.current = i, !.hash = t]

AfterSend(k, i, pc, t) ==
  [k EXCEPT !.pc = pc, !.current = i, !.hash = t, !.todo = @ \ {i}]

(* gateway.publishBatch resolves with the transaction hash.                *)
TickSend(s, i, t) ==
  /\ IsNextChunk(s, i)
  /\ Broadcast(tick[s].period, i, t)
  /\ SetTick(s, AfterSend(tick[s], i, "mark", t))
  /\ UNCHANGED <<clock, fired, tables, totalViews, rec>>

(* gateway.publishBatch rejects although the transaction went out.         *)
TickSendLost(s, i, t) ==
  /\ "sendLost" \in Env
  /\ IsNextChunk(s, i)
  /\ Broadcast(tick[s].period, i, t)
  /\ SetTick(s, AfterSend(tick[s], i, "fail", NoTx))
  /\ UNCHANGED <<clock, fired, tables, totalViews, rec>>

(* gateway.publishBatch rejects and nothing went out: the node refused, or *)
(* the gas estimation reverted with UnknownAsset.                          *)
TickSendRejected(s, i) ==
  /\ IsNextChunk(s, i)
  /\ \/ "sendRejected" \in Env
     \/ Support(chunks[tick[s].period][i].payload) \cap Orphans # {}
  /\ SetTick(s, AfterSend(tick[s], i, "fail", NoTx))
  /\ UNCHANGED <<clock, fired, tables, chain, rec>>

(* markChunkSubmitted: unguarded, it overwrites hash and status.           *)
TickMark(s) ==
  LET k == tick[s] IN
  /\ k.pc = "mark"
  /\ SetChunk(k.period, k.current,
              [chunks[k.period][k.current] EXCEPT !.tx = k.hash, !.status = "PENDING"])
  /\ SetTick(s, IF k.txSet THEN ContinueLoop(k) ELSE [k EXCEPT !.pc = "markPeriod"])
  /\ UNCHANGED <<clock, fired, views, anchored, batches, mirror, chain, rec>>

(* Mutant: the chunk is marked submitted again with the period.            *)
TickMarkPeriod_Again(s) ==
  LET k == tick[s] IN
  /\ k.pc = "markPeriod"
  /\ SetBatch(k.period, [batches[k.period] EXCEPT !.tx = k.hash])
  /\ SetChunk(k.period, k.current, [chunks[k.period][k.current] EXCEPT !.status = "PENDING"])
  /\ SetTick(s, ContinueLoop([k EXCEPT !.txSet = TRUE]))
  /\ UNCHANGED <<clock, fired, views, anchored, mirror, chain, rec>>

(* markSubmitted: the period takes the hash of its first chunk sent.       *)
TickMarkPeriod(s) ==
  LET k == tick[s] IN
  /\ k.pc = "markPeriod"
  /\ SetBatch(k.period, [batches[k.period] EXCEPT !.tx = k.hash])
  /\ SetTick(s, ContinueLoop([k EXCEPT !.txSet = TRUE]))
  /\ UNCHANGED <<clock, fired, views, anchored, chunks, mirror, chain, rec>>

(* Either of the two updates throws inside the try of the loop.            *)
TickMarkError(s) ==
  /\ "dbError" \in Env
  /\ tick[s].pc \in {"mark", "markPeriod"}
  /\ SetTick(s, [tick[s] EXCEPT !.pc = "fail"])
  /\ UNCHANGED <<clock, fired, tables, chain, rec>>

(* Mutant: the hash is cleared with the status.                            *)
Failed_ClearHash(c) == [c EXCEPT !.status = "FAILED", !.tx = NoTx]

Failed(c) == [c EXCEPT !.status = "FAILED"]

(* The catch of the loop: markChunkFailed, unguarded too.                  *)
TickFail(s) ==
  LET k == tick[s] IN
  /\ k.pc = "fail"
  /\ SetChunk(k.period, k.current, Failed(chunks[k.period][k.current]))
  /\ SetTick(s, ContinueLoop(k))
  /\ UNCHANGED <<clock, fired, views, anchored, batches, mirror, chain, rec>>

(* A query throws outside that try: publishBatchFor rejects, runOnce logs. *)
TickAbort(s) ==
  /\ "dbError" \in Env
  /\ tick[s].pc \in {"aggregate", "create", "ensure", "find", "fail"}
  /\ SetTick(s, IdleTick)
  /\ UNCHANGED <<clock, fired, tables, chain, rec>>

TickStep(s) ==
  \/ TickAggregate(s) \/ TickCreate(s) \/ TickEnsure(s) \/ TickFind(s)
  \/ TickMark(s) \/ TickMarkPeriod(s) \/ TickMarkError(s) \/ TickFail(s) \/ TickAbort(s)
  \/ \E i \in ChunkIdx : \/ TickSendRejected(s, i)
                         \/ \E t \in Tx : TickSend(s, i, t) \/ TickSendLost(s, i, t)

-----------------------------------------------------------------------------
(* ReconcileJob.runOnce and ReconciliationService.reconcileBatches.        *)

Snapshot == {w \in Period \X ChunkIdx \X Tx :
               /\ chunks[w[1]][w[2]].status = "PENDING"
               /\ chunks[w[1]][w[2]].tx = w[3]}

(* The cron fires: findPendingChunksWithTx.                                *)
RecStart(r) ==
  /\ rec[r].pc = "idle"
  /\ SetRec(r, [IdleRec EXCEPT !.pc = "confirm", !.snapshot = Snapshot])
  /\ UNCHANGED <<clock, fired, tables, chain, tick>>

(* gateway.confirmations sees a receipt NOTARY_CONFIRMATIONS deep; it does *)
(* not look whether the transaction succeeded.                             *)
IsConfirmed(t) == txs[t].state \in {"deep", "reverted"}

(* One element of confirmPendingChunks, in any order: confirmations, then  *)
(* markChunkConfirmed.  A receipt that is deep stays deep, so the two      *)
(* awaits are one step.                                                    *)
RecConfirmChunk(r, w) ==
  /\ rec[r].pc = "confirm"
  /\ w \in rec[r].snapshot
  /\ IsConfirmed(w[3])
  /\ SetChunk(w[1], w[2], [chunks[w[1]][w[2]] EXCEPT !.status = "CONFIRMED"])
  /\ SetRec(r, [rec[r] EXCEPT !.snapshot = @ \ {w}])
  /\ UNCHANGED <<clock, fired, views, anchored, batches, mirror, chain, tick>>

(* Too shallow or unknown, or a query failed: left for the next tick.      *)
RecSkipChunk(r, w) ==
  /\ rec[r].pc = "confirm"
  /\ w \in rec[r].snapshot
  /\ IsConfirmed(w[3]) => "dbError" \in Env
  /\ SetRec(r, [rec[r] EXCEPT !.snapshot = @ \ {w}])
  /\ UNCHANGED <<clock, fired, tables, chain, tick>>

StartFinalizer(p) == [DoneFinalizer EXCEPT !.pc = "chunks", !.applied = batches[p].mirrorApplied]

(* findPendingBatches: the periods to finalise, with mirrorApplied as it   *)
(* is now.                                                                 *)
RecPeriods(r) ==
  /\ rec[r].pc = "confirm" /\ rec[r].snapshot = {}
  /\ SetRec(r, [rec[r] EXCEPT !.pc = "finalize",
       !.fin = [p \in Period |-> IF batches[p].status = "PENDING"
                                 THEN StartFinalizer(p) ELSE DoneFinalizer]])
  /\ UNCHANGED <<clock, fired, tables, chain, tick>>

(* findPendingBatches throws and the whole tick rejects.                   *)
RecAbort(r) ==
  /\ "dbError" \in Env
  /\ rec[r].pc = "confirm" /\ rec[r].snapshot = {}
  /\ SetRec(r, IdleRec)
  /\ UNCHANGED <<clock, fired, tables, chain, tick>>

(* Promise.allSettled: the tick ends when every period has settled.        *)
RecEnd(r) ==
  /\ rec[r].pc = "finalize"
  /\ \A p \in Period : rec[r].fin[p].pc = "done"
  /\ SetRec(r, IdleRec)
  /\ UNCHANGED <<clock, fired, tables, chain, tick>>

InPhase(r, p, pc) == rec[r].pc = "finalize" /\ rec[r].fin[p].pc = pc
GoTo(r, p, f) == SetRec(r, [rec[r] EXCEPT !.fin = [rec[r].fin EXCEPT ![p] = f]])

(* Mutant: a chunk that is only submitted counts as confirmed.             *)
AllConfirmed_Submitted(p) ==
  /\ \E i \in ChunkIdx : chunks[p][i].status # "absent"
  /\ \A i \in ChunkIdx : chunks[p][i].status # "FAILED"

AllConfirmed(p) ==
  /\ \E i \in ChunkIdx : chunks[p][i].status # "absent"
  /\ \A i \in ChunkIdx : chunks[p][i].status \in {"absent", "CONFIRMED"}

(* The work that is left with the assets of a payload, one at a time.      *)
PhaseOver(f, pc, payload) == [f EXCEPT !.pc = pc, !.todo = Support(payload), !.onchain = 0]
IsNextAsset(f, a) == a \in f.todo /\ \A b \in f.todo : a <= b

(* Mutant: a period whose mirror is applied is not looked at again.        *)
FirstPhase_Skip(f) == IF f.applied THEN "done" ELSE "mirror"

(* Mutant: the flag is set without anything being added first.             *)
FirstPhase_FlagFirst(f) == IF f.applied THEN "check" ELSE "flag"

FirstPhase(f) == IF f.applied THEN "check" ELSE "mirror"

(* Mutant: the period does not wait for its chunks.                        *)
FinChunks_NoWait(r, p) ==
  LET f == rec[r].fin[p] IN
  /\ InPhase(r, p, "chunks")
  /\ GoTo(r, p, PhaseOver(f, FirstPhase(f), batches[p].payload))
  /\ UNCHANGED <<clock, fired, tables, chain, tick>>

(* findChunks: the period waits unless all its chunks are CONFIRMED.       *)
FinChunks(r, p) ==
  LET f == rec[r].fin[p] IN
  /\ InPhase(r, p, "chunks")
  /\ GoTo(r, p, IF AllConfirmed(p) THEN PhaseOver(f, FirstPhase(f), batches[p].payload)
                ELSE DoneFinalizer)
  /\ UNCHANGED <<clock, fired, tables, chain, tick>>

(* incrementMirrorViews of the next asset of the payload.                  *)
FinMirror(r, p, a) ==
  LET f == rec[r].fin[p] IN
  /\ InPhase(r, p, "mirror")
  /\ IsNextAsset(f, a)
  /\ mirror[a] + batches[p].payload[a] <= MaxMirror
  /\ mirror' = [mirror EXCEPT ![a] = @ + batches[p].payload[a]]
  /\ GoTo(r, p, [f EXCEPT !.todo = @ \ {a}, !.pc = IF f.todo = {a} THEN "flag" ELSE @])
  /\ UNCHANGED <<clock, fired, views, anchored, batches, chunks, chain, tick>>

(* markMirrorApplied.                                                      *)
FinFlag(r, p) ==
  /\ InPhase(r, p, "flag")
  /\ SetBatch(p, [batches[p] EXCEPT !.mirrorApplied = TRUE])
  /\ GoTo(r, p, PhaseOver(rec[r].fin[p], "check", batches[p].payload))
  /\ UNCHANGED <<clock, fired, views, anchored, chunks, mirror, chain, tick>>

(* detectAssetCounterMismatch, first await: the counter at the latest      *)
(* block.                                                                  *)
FinReadChain(r, p, a) ==
  LET f == rec[r].fin[p] IN
  /\ InPhase(r, p, "check")
  /\ IsNextAsset(f, a)
  /\ GoTo(r, p, [f EXCEPT !.pc = "compare", !.onchain = totalViews[a]])
  /\ UNCHANGED <<clock, fired, tables, chain, tick>>

(* detectAssetCounterMismatch, second await: the mirror.  An asset unknown *)
(* on chain is skipped; a mismatch leaves the period PENDING.              *)
FinCompare(r, p, a) ==
  LET f == rec[r].fin[p] IN
  /\ InPhase(r, p, "compare")
  /\ IsNextAsset(f, a)
  /\ GoTo(r, p, IF a \notin Orphans /\ f.onchain # mirror[a] THEN DoneFinalizer
                ELSE [f EXCEPT !.todo = @ \ {a}, !.onchain = 0,
                               !.pc = IF f.todo = {a} THEN "confirm" ELSE "check"])
  /\ UNCHANGED <<clock, fired, tables, chain, tick>>

(* markConfirmed.                                                          *)
FinConfirm(r, p) ==
  /\ InPhase(r, p, "confirm")
  /\ SetBatch(p, [batches[p] EXCEPT !.status = "CONFIRMED"])
  /\ GoTo(r, p, [rec[r].fin[p] EXCEPT !.pc = "anchor"])
  /\ UNCHANGED <<clock, fired, views, anchored, chunks, mirror, chain, tick>>

(* markPeriodAnchored: every row of the period, whenever it was inserted.  *)
FinAnchor(r, p) ==
  /\ InPhase(r, p, "anchor")
  /\ anchored' = [anchored EXCEPT ![p] = views[p]]
  /\ GoTo(r, p, DoneFinalizer)
  /\ UNCHANGED <<clock, fired, views, batches, chunks, mirror, chain, tick>>

(* A query throws and the period waits for the next tick.                  *)
FinAbort(r, p) ==
  /\ "dbError" \in Env
  /\ rec[r].pc = "finalize" /\ rec[r].fin[p].pc # "done"
  /\ GoTo(r, p, DoneFinalizer)
  /\ UNCHANGED <<clock, fired, tables, chain, tick>>

RecStep(r) ==
  \/ RecStart(r) \/ RecPeriods(r) \/ RecAbort(r) \/ RecEnd(r)
  \/ \E w \in rec[r].snapshot : RecConfirmChunk(r, w) \/ RecSkipChunk(r, w)
  \/ \E p \in Period :
       \/ FinChunks(r, p) \/ FinFlag(r, p) \/ FinConfirm(r, p)
       \/ FinAnchor(r, p) \/ FinAbort(r, p)
       \/ \E a \in Assets : FinMirror(r, p, a) \/ FinReadChain(r, p, a) \/ FinCompare(r, p, a)

-----------------------------------------------------------------------------
(* The chain.                                                              *)

Plus(f, g)  == [a \in Assets |-> f[a] + g[a]]
Minus(f, g) == [a \in Assets |-> f[a] - g[a]]

(* Notary.publishBatch runs in a block: additive on the asset counters.    *)
Mine(t) ==
  /\ txs[t].state = "pool"
  /\ txs' = [txs EXCEPT ![t].state = "mined"]
  /\ totalViews' = Plus(totalViews, txs[t].payload)
  /\ UNCHANGED <<clock, fired, tables, tick, rec>>

(* The block of t reaches NOTARY_CONFIRMATIONS, beyond any reorganisation. *)
Deepen(t) ==
  /\ txs[t].state = "mined"
  /\ txs' = [txs EXCEPT ![t].state = "deep"]
  /\ UNCHANGED <<clock, fired, tables, totalViews, tick, rec>>

(* publishBatch reverts in its block (attester rotated, out of gas...) and *)
(* the receipt gets as deep as any other.                                  *)
Revert(t) ==
  /\ "txReverted" \in Env
  /\ txs[t].state = "pool"
  /\ txs' = [txs EXCEPT ![t].state = "reverted"]
  /\ UNCHANGED <<clock, fired, tables, totalViews, tick, rec>>

(* The mempool forgets t.                                                  *)
Drop(t) ==
  /\ "txDropped" \in Env
  /\ txs[t].state = "pool"
  /\ txs' = [txs EXCEPT ![t].state = "dropped"]
  /\ UNCHANGED <<clock, fired, tables, totalViews, tick, rec>>

(* A shallow block is undone and t returns to the mempool.                 *)
Reorg(t) ==
  /\ "reorg" \in Env
  /\ txs[t].state = "mined"
  /\ txs' = [txs EXCEPT ![t].state = "pool"]
  /\ totalViews' = Minus(totalViews, txs[t].payload)
  /\ UNCHANGED <<clock, fired, tables, tick, rec>>

-----------------------------------------------------------------------------
(* The process dies and restarts: only the in-memory locals are lost.      *)
Crash ==
  /\ "crash" \in Env
  /\ tick' = [s \in TickSlots |-> IdleTick]
  /\ rec' = [r \in RecSlots |-> IdleRec]
  /\ UNCHANGED <<clock, fired, tables, chain>>

Next ==
  \/ AdvanceClock \/ Crash
  \/ \E a \in Assets, p \in Period : RecordView(a, p)
  \/ \E s \in TickSlots : TickStart(s) \/ TickStep(s)
  \/ \E r \in RecSlots : RecStep(r)
  \/ \E t \in Tx : Mine(t) \/ Deepen(t) \/ Revert(t) \/ Drop(t) \/ Reorg(t)

Spec == Init /\ [][Next]_vars

(* Timers fire, promises settle, blocks are produced and time passes.      *)
Fairness ==
  /\ WF_vars(AdvanceClock)
  /\ \A s \in TickSlots : WF_vars(TickStart(s)) /\ WF_vars(TickStep(s))
  /\ \A r \in RecSlots : WF_vars(RecStep(r))
  /\ \A t \in Tx : WF_vars(Mine(t)) /\ WF_vars(Deepen(t))

FairSpec == Spec /\ Fairness
=============================================================================
