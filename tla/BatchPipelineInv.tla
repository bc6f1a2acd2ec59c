--------------------------- MODULE BatchPipelineInv ---------------------------
(***************************************************************************)
(* The inductive invariants behind the properties of BatchPipelineProps.   *)
(*                                                                         *)
(* Publication is safe in two regimes.  Aligned: the cron fires once in a  *)
(* period, so that a period gets one tick at most.  OneAtATime: the cron   *)
(* fires as often as it likes, but a tick ends before the next one starts, *)
(* a hash that went out is never lost, and no view comes late.             *)
(***************************************************************************)
EXTENDS BatchPipelineProps

Aligned    == "fineCron" \notin Env
OneAtATime ==
  /\ \A s, z \in TickSlots : s = z
  /\ {"crash", "dbError", "sendLost", "lateView"} \cap Env = {}
Paced      == Aligned \/ OneAtATime

Sent(t)          == txs[t].state # "unsent"
NoChunks(p)      == \A i \in ChunkIdx : chunks[p][i] = NoChunk
NothingSent(p)   == \A t \in Tx : Sent(t) => txs[t].period # p
NotSent(p, i)    == \A t \in Tx : Sent(t) => ~(txs[t].period = p /\ txs[t].chunk = i)
SentFrom(t, p, i) == Sent(t) /\ txs[t].period = p /\ txs[t].chunk = i

BeforeChunks == {"aggregate", "create", "ensure"}
AfterSending == {"mark", "markPeriod", "fail"}
InLoop       == {"send"} \cup AfterSending

(* A tick has its period to itself.                                        *)
TicksApart ==
  \A s \in TickSlots : tick[s].pc # "idle" =>
    /\ fired[tick[s].period]
    /\ \A z \in TickSlots : tick[z].pc # "idle" /\ tick[z].period = tick[s].period => z = s

(* A period whose tick has not fired is untouched, and one whose tick has  *)
(* not come that far has no chunks, or nothing on its way to the chain.    *)
UntouchedPeriods == \A p \in Period : ~fired[p] => NoChunks(p) /\ NothingSent(p)
UntouchedByTick ==
  Aligned => \A s \in TickSlots :
    /\ tick[s].pc \in BeforeChunks => NoChunks(tick[s].period)
    /\ tick[s].pc \in BeforeChunks \cup {"find"} => NothingSent(tick[s].period)

(* What the next tick of a period finds when the cron fires again: every   *)
(* hash is in its chunk, or about to be written there, and the chunks are  *)
(* still the cut of the views, which is what ensureChunks would insert.    *)
HashRecorded(t) ==
  \/ chunks[txs[t].period][txs[t].chunk].tx # NoTx
  \/ \E s \in TickSlots : /\ tick[s].pc = "mark" /\ tick[s].period = txs[t].period
                           /\ tick[s].current = txs[t].chunk
IsCut(p, payload) ==
  \A i \in ChunkIdx : IF Slice(payload, i) = Empty THEN chunks[p][i] = NoChunk
                      ELSE /\ chunks[p][i].status # "absent"
                           /\ chunks[p][i].payload = Slice(payload, i)
ReadyToRetry ==
  OneAtATime =>
    /\ \A t \in Tx : Sent(t) => HashRecorded(t)
    /\ \A p \in Period : NoChunks(p) \/ (p < clock /\ IsCut(p, views[p]))
    /\ \A s \in TickSlots :
         /\ tick[s].pc # "idle" => tick[s].period < clock
         /\ tick[s].pc \in {"create", "ensure"} => tick[s].aggregates = views[tick[s].period]

(* What the loop has yet to send was never sent.                           *)
TodoIsUnsent ==
  \A s \in TickSlots : tick[s].pc \in InLoop =>
    \A i \in tick[s].todo : NotSent(tick[s].period, i)

(* A transaction carries the payload of its chunk, which has no other one. *)
SentPayload ==
  \A t \in Tx : Sent(t) =>
    /\ txs[t].period \in Period /\ txs[t].chunk \in ChunkIdx
    /\ txs[t].payload = chunks[txs[t].period][txs[t].chunk].payload
SentOnce ==
  \A t, u \in Tx : Sent(t) /\ Sent(u) /\ txs[t].period = txs[u].period
                     /\ txs[t].chunk = txs[u].chunk => t = u

(* The chunks of a period are slices of one list of aggregates.            *)
SlicesApart ==
  \A p \in Period : \A i, j \in ChunkIdx :
    i # j => Disjoint(chunks[p][i].payload, chunks[p][j].payload)

(* The loop and the reconciliation work on chunks that exist.              *)
ChunksInUse ==
  /\ \A s \in TickSlots :
       /\ tick[s].pc \in InLoop =>
            \A i \in tick[s].todo : chunks[tick[s].period][i].status # "absent"
       /\ tick[s].pc \in AfterSending =>
            chunks[tick[s].period][tick[s].current].status # "absent"
  /\ \A r \in RecSlots : \A w \in rec[r].snapshot : chunks[w[1]][w[2]].status # "absent"

PublicationInv ==
  /\ TypeOK
  /\ TicksApart
  /\ UntouchedPeriods
  /\ UntouchedByTick
  /\ TodoIsUnsent
  /\ ChunksInUse
  /\ SentPayload
  /\ SentOnce
  /\ SlicesApart
  /\ ReadyToRetry

(* The hash a tick is about to write, and a hash in a chunk, are those of  *)
(* the transaction sent for that chunk.                                    *)
HashInHand ==
  \A s \in TickSlots : tick[s].pc \in {"mark", "markPeriod"} =>
    SentFrom(tick[s].hash, tick[s].period, tick[s].current)
ChunkHash ==
  \A p \in Period, i \in ChunkIdx :
    chunks[p][i].tx # NoTx => SentFrom(chunks[p][i].tx, p, i)

(* What reconcileBatches read in findPendingChunksWithTx still holds.      *)
SnapshotHolds ==
  \A r \in RecSlots : \A w \in rec[r].snapshot : chunks[w[1]][w[2]].tx = w[3]

ConfirmedChunkIsDeep ==
  \A p \in Period, i \in ChunkIdx :
    chunks[p][i].status = "CONFIRMED" => chunks[p][i].tx \in Tx /\ IsConfirmed(chunks[p][i].tx)

Settled(p) ==
  /\ \E i \in ChunkIdx : chunks[p][i].status # "absent"
  /\ \A i \in ChunkIdx : chunks[p][i].status # "absent" =>
       /\ chunks[p][i].tx \in Tx
       /\ IsConfirmed(chunks[p][i].tx)

(* A period that is finalised, or about to be, is settled.                 *)
FinalizedIsSettled ==
  \A p \in Period :
    /\ batches[p].status = "CONFIRMED" => Settled(p)
    /\ \A r \in RecSlots :
         rec[r].fin[p].pc \in {"mirror", "flag", "check", "compare", "confirm"} => Settled(p)

SettlementInv ==
  /\ PublicationInv
  /\ HashInHand
  /\ ChunkHash
  /\ SnapshotHolds
  /\ ConfirmedChunkIsDeep
  /\ FinalizedIsSettled

-----------------------------------------------------------------------------
(***************************************************************************)
(* What finality needs on top: a call that will overwrite a status has no  *)
(* hash in its row yet.  An update that throws after markChunkSubmitted    *)
(* took effect breaks it, so this one is for "dbError" \notin Env.         *)
(***************************************************************************)
OverwritesUnsubmitted ==
  \A s \in TickSlots : tick[s].pc \in {"mark", "fail"} =>
    chunks[tick[s].period][tick[s].current].tx = NoTx

FinalizedIsComplete ==
  \A p \in Period :
    /\ batches[p].status = "CONFIRMED" => AllConfirmed(p)
    /\ \A r \in RecSlots :
         rec[r].fin[p].pc \in {"mirror", "flag", "check", "compare", "confirm"} => AllConfirmed(p)

FinalityInv ==
  /\ SettlementInv
  /\ OverwritesUnsubmitted
  /\ FinalizedIsComplete

-----------------------------------------------------------------------------
(***************************************************************************)
(* Counting.  The counters of the contract are what the published          *)
(* transactions carry, and payloads are cut from views that were received. *)
(***************************************************************************)
CountedIsPublished ==
  \A a \in Assets : totalViews[a] = Sum([p \in Period |-> PublishedIn(p, a)])
ViewsCoverPayloads ==
  /\ \A s \in TickSlots, a \in Assets : tick[s].pc \in {"create", "ensure"} =>
       tick[s].aggregates[a] <= views[tick[s].period][a]
  /\ \A p \in Period, i \in ChunkIdx, a \in Assets : chunks[p][i].payload[a] <= views[p][a]

CountingInv ==
  /\ PublicationInv
  /\ CountedIsPublished
  /\ ViewsCoverPayloads

(***************************************************************************)
(* The row of a period.  Its chunks are the cut of its payload, since the  *)
(* aggregates that ensureChunks cuts are those createPending stored: an    *)
(* aligned tick finds no row and inserts its own, and ticks that come one  *)
(* at a time, with no late views, all read the same aggregates.            *)
(***************************************************************************)
CutFromBatch ==
  \A p \in Period : NoChunks(p) \/ (batches[p].status # "absent" /\ IsCut(p, batches[p].payload))
AggregatesInRow ==
  \A s \in TickSlots : tick[s].pc = "ensure" =>
    /\ batches[tick[s].period].status # "absent"
    /\ batches[tick[s].period].payload = tick[s].aggregates
RowByOneTick ==
  Aligned =>
    /\ \A p \in Period : ~fired[p] => batches[p].status = "absent"
    /\ \A s \in TickSlots : tick[s].pc \in {"aggregate", "create"} =>
         batches[tick[s].period].status = "absent" /\ ~tick[s].exists
RowReadBack ==
  OneAtATime =>
    \A s \in TickSlots :
      /\ tick[s].pc = "aggregate" => tick[s].exists = (batches[tick[s].period].status # "absent")
      /\ tick[s].pc = "create" => batches[tick[s].period].status = "absent"

(* Without late views the payload of a row is all the views of its period. *)
RowIsViews ==
  "lateView" \notin Env =>
    /\ \A p \in Period : batches[p].status # "absent" => p < clock /\ batches[p].payload = views[p]
    /\ \A s \in TickSlots :
         /\ tick[s].pc # "idle" => tick[s].period < clock
         /\ tick[s].pc \in {"create", "ensure"} => tick[s].aggregates = views[tick[s].period]

NeverReverted == "txReverted" \notin Env => \A t \in Tx : txs[t].state # "reverted"

(* Views are marked anchored by the finaliser that confirmed their period. *)
AnchoredIsConfirmed ==
  /\ \A r \in RecSlots, p \in Period :
       rec[r].fin[p].pc = "anchor" => batches[p].status = "CONFIRMED"
  /\ "lateView" \notin Env => \A p \in Period :
       anchored[p] = Empty \/ (batches[p].status = "CONFIRMED" /\ anchored[p] = views[p])

(* The mirror of a settled period only.                                    *)
AppliedIsSettled == \A p \in Period : batches[p].mirrorApplied => Settled(p)

SnapshotInv ==
  /\ SettlementInv
  /\ CutFromBatch
  /\ AggregatesInRow
  /\ RowByOneTick
  /\ RowReadBack
  /\ RowIsViews
  /\ NeverReverted
  /\ AnchoredIsConfirmed
  /\ AppliedIsSettled

(***************************************************************************)
(* The mirror, with any number of reconciliations in any stage, crashes    *)
(* and failing queries.  A period that is not in the table is not applied  *)
(* and has no finaliser.                                                   *)
(***************************************************************************)
OnlyRowsAreFinalized ==
  \A p \in Period : batches[p].status = "absent" =>
    /\ ~batches[p].mirrorApplied
    /\ \A r \in RecSlots : rec[r].fin[p].pc = "done"

MirrorInv ==
  /\ TypeOK
  /\ OnlyRowsAreFinalized
  /\ MirrorCoversApplied
=============================================================================
