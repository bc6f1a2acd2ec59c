------------------------- MODULE BatchPipeline_proofs -------------------------
(***************************************************************************)
(* Machine-checked proofs about BatchPipeline for every value of its       *)
(* constants.                                                              *)
(***************************************************************************)
EXTENDS BatchPipelineInv, FiniteSetTheorems, TLAPS

(* The idle records belong to their types.                                 *)
LEMMA IdleTypes ==
  /\ Empty \in Payload
  /\ IdleTick \in TickLocals
  /\ DoneFinalizer \in Finalizer
  /\ IdleRec \in RecLocals
  /\ NoBatch \in Batch /\ NoChunk \in Chunk /\ Unsent \in Transaction
<1>1. Empty \in Payload
  BY DEF Empty, Payload
<1>2. IdleTick \in TickLocals
  BY <1>1 DEF IdleTick, TickLocals, NoTx
<1>3. DoneFinalizer \in Finalizer
  BY DEF DoneFinalizer, Finalizer
<1>4. IdleRec \in RecLocals
  BY <1>3 DEF IdleRec, RecLocals
<1>5. NoBatch \in Batch /\ NoChunk \in Chunk /\ Unsent \in Transaction
  BY <1>1 DEF NoBatch, Batch, NoChunk, Chunk, Unsent, Transaction, NoTx
<1>. QED
  BY <1>1, <1>2, <1>3, <1>4, <1>5

(* Chunk indices and slices stay within their types.                       *)
LEMMA ConstantTypes ==
  /\ Cardinality(Assets) \in Nat
  /\ ChunkIdx \subseteq Nat /\ Tx \subseteq Nat /\ Period \subseteq Nat
  /\ -1 \notin ChunkIdx /\ 0 \notin Tx /\ 0 \notin Period
BY ConstantsAssumption, FS_CardinalityType DEF ConstantsAssumption, ChunkIdx, Tx, Period

\* A slice of a payload is a payload.
LEMMA SliceType ==
  ASSUME NEW payload \in Payload, NEW i
  PROVE  Slice(payload, i) \in Payload
BY DEF Slice, Payload

\* The initial rows, chunks and locals belong to their types.
LEMMA InitTypeOK == Init => TypeOK
<1>. SUFFICES ASSUME Init PROVE TypeOK
  OBVIOUS
<1>. USE IdleTypes DEF Init
<1>0. TickShape(IdleTick)
  BY DEF TickShape, IdleTick
<1>1. clock \in 1..(MaxPeriod + 1)
  BY ConstantsAssumption DEF ConstantsAssumption
<1>2. totalViews \in [Assets -> Int] /\ mirror \in Payload
  BY DEF Empty, Payload
<1>. QED
  BY <1>0, <1>1, <1>2 DEF TypeOK

(***************************************************************************)
(* TypeOK is inductive.  Updates of tables, of tick and of rec are typed   *)
(* once here and cited per action.                                         *)
(***************************************************************************)
LEMMA TickUpdate ==
  ASSUME TypeOK, NEW s \in TickSlots, NEW k \in TickLocals, TickShape(k), SetTick(s, k)
  PROVE  /\ tick' \in [TickSlots -> TickLocals]
         /\ \A z \in TickSlots : TickShape(tick'[z])
BY DEF TypeOK, SetTick

\* A reconciliation moves on within its type.
LEMMA RecUpdate ==
  ASSUME TypeOK, NEW r \in RecSlots, NEW k \in RecLocals,
         k.pc = "idle" => k = IdleRec, SetRec(r, k)
  PROVE  /\ rec' \in [RecSlots -> RecLocals]
         /\ \A z \in RecSlots : rec'[z].pc = "idle" => rec'[z] = IdleRec
BY DEF TypeOK, SetRec

\* An UPDATE of a row keeps the rows in their type.
LEMMA BatchUpdate ==
  ASSUME TypeOK, NEW p \in Period, NEW b \in Batch, SetBatch(p, b)
  PROVE  batches' \in [Period -> Batch]
BY DEF TypeOK, SetBatch

\* An UPDATE of a chunk keeps the chunks in their type.
LEMMA ChunkUpdate ==
  ASSUME TypeOK, NEW p \in Period, NEW i \in ChunkIdx, NEW c \in Chunk, SetChunk(p, i, c)
  PROVE  chunks' \in [Period -> [ChunkIdx -> Chunk]]
<1>1. [chunks[p] EXCEPT ![i] = c] \in [ChunkIdx -> Chunk]
  BY DEF TypeOK
<1>2. chunks' = [chunks EXCEPT ![p] = [chunks[p] EXCEPT ![i] = c]]
  BY DEF SetChunk
<1>. QED
  BY <1>1, <1>2 DEF TypeOK

\* An idle tick needs no period.
LEMMA IdleTickShape == TickShape(IdleTick)
BY DEF TickShape, IdleTick

\* The next round of the loop over chunks, or the end of the tick.
LEMMA ContinueLoopType ==
  ASSUME NEW k \in TickLocals, k.period \in Period
  PROVE  ContinueLoop(k) \in TickLocals /\ TickShape(ContinueLoop(k))
<1>. DEFINE n == [k EXCEPT !.pc = "send", !.current = -1, !.hash = NoTx]
<1>1. n \in TickLocals /\ n.pc = "send" /\ n.period = k.period
  BY DEF TickLocals, NoTx
<1>2. TickShape(n)
  BY <1>1 DEF TickShape
<1>. QED
  BY <1>1, <1>2, IdleTypes, IdleTickShape DEF ContinueLoop

\* A tick with the outcome of a broadcast in hand.
LEMMA AfterSendType ==
  ASSUME NEW k \in TickLocals, k.period \in Period, NEW i \in ChunkIdx,
         NEW t \in Tx \cup {NoTx}, NEW pc \in {"mark", "fail"}, pc = "mark" => t \in Tx
  PROVE  AfterSend(k, i, pc, t) \in TickLocals /\ TickShape(AfterSend(k, i, pc, t))
<1>. DEFINE n == AfterSend(k, i, pc, t)
<1>1. n \in TickLocals /\ n.pc = pc /\ n.period = k.period /\ n.current = i /\ n.hash = t
  BY DEF AfterSend, TickLocals
<1>. QED
  BY <1>1 DEF TickShape

\* Every step of a tick stays within the types.
LEMMA TickStepType ==
  ASSUME TypeOK, NEW s \in TickSlots, TickStep(s)
  PROVE  TypeOK'
<1>. DEFINE k == tick[s]
<1>. DEFINE Typed(n) == n \in TickLocals /\ TickShape(n)
<1>. USE DEF tables, chain
<1>0. k \in TickLocals /\ views \in [Period -> Payload] /\ chunks \in [Period -> [ChunkIdx -> Chunk]]
      /\ batches \in [Period -> Batch] /\ txs \in [Tx -> Transaction] /\ TickShape(k)
  BY DEF TypeOK
<1>a. k.pc # "idle" => k.period \in Period
  BY <1>0 DEF TickShape
<1>b. Typed(IdleTick)
  BY IdleTypes, IdleTickShape
<1>1. CASE TickAggregate(s)
  <2>. DEFINE n == [k EXCEPT !.pc = IF k.exists THEN "ensure" ELSE "create",
                             !.aggregates = views[k.period]]
  <2>1. k.period \in Period
    BY <1>1, <1>a DEF TickAggregate
  <2>2. n \in TickLocals /\ n.pc \in {"ensure", "create"} /\ n.period = k.period
    BY <1>0, <2>1 DEF TickLocals
  <2>3. Typed(n)
    BY <2>1, <2>2 DEF TickShape
  <2>4. \E m \in TickLocals : TickShape(m) /\ SetTick(s, m)
    BY <1>1, <2>3, <1>b DEF TickAggregate
  <2>. QED
    BY <1>1, <2>4, TickUpdate DEF TickAggregate, TypeOK
<1>2. CASE TickCreate(s)
  <2>0. k.period \in Period
    BY <1>2, <1>a DEF TickCreate
  <2>1. [k EXCEPT !.pc = "ensure"] \in TickLocals
    BY <1>0 DEF TickLocals
  <2>2. TickShape([k EXCEPT !.pc = "ensure"])
    BY <1>0, <2>0 DEF TickShape, TickLocals
  <2>3. [NoBatch EXCEPT !.status = "PENDING", !.payload = k.aggregates] \in Batch
    BY <1>0, IdleTypes DEF TickLocals, Batch, NoBatch
  <2>4. batches' \in [Period -> Batch]
    BY <1>0, <1>2, <2>0, <2>3, BatchUpdate DEF TickCreate
  <2>5. \E m \in TickLocals : TickShape(m) /\ SetTick(s, m)
    BY <1>2, <2>1, <2>2, <1>b DEF TickCreate
  <2>. QED
    BY <1>2, <2>4, <2>5, TickUpdate DEF TickCreate, TypeOK
<1>3. CASE TickEnsure(s)
  <2>0. k.period \in Period
    BY <1>3, <1>a DEF TickEnsure
  <2>1. [k EXCEPT !.pc = "find"] \in TickLocals /\ TickShape([k EXCEPT !.pc = "find"])
    BY <1>0, <2>0 DEF TickLocals, TickShape
  <2>2. \A i : [NoChunk EXCEPT !.status = "PENDING", !.payload = Slice(k.aggregates, i)] \in Chunk
    BY <1>0, SliceType, IdleTypes DEF TickLocals, Chunk, NoChunk
  <2>3. chunks' \in [Period -> [ChunkIdx -> Chunk]]
    BY <1>0, <1>3, <2>2 DEF TickEnsure
  <2>4. SetTick(s, [k EXCEPT !.pc = "find"])
    BY <1>3 DEF TickEnsure
  <2>. QED
    BY <1>3, <2>1, <2>3, <2>4, TickUpdate DEF TickEnsure, TypeOK
<1>4. CASE TickFind(s)
  <2>. DEFINE n == [k EXCEPT !.pc = "send", !.todo = NeverSubmitted(k.period)]
  <2>0. k.period \in Period
    BY <1>4, <1>a DEF TickFind
  <2>1. NeverSubmitted(k.period) \subseteq ChunkIdx
    BY DEF NeverSubmitted
  <2>2. n \in TickLocals /\ n.pc = "send" /\ n.period = k.period
    BY <1>0, <2>1 DEF TickLocals
  <2>3. Typed(n)
    BY <2>0, <2>2 DEF TickShape
  <2>4. \E m \in TickLocals : TickShape(m) /\ SetTick(s, m)
    BY <1>4, <2>3, <1>b DEF TickFind
  <2>. QED
    BY <1>4, <2>4, TickUpdate DEF TickFind, TypeOK
<1>5. CASE TickMark(s)
  <2>0. k.period \in Period /\ k.current \in ChunkIdx /\ k.hash \in Tx
    BY <1>0, <1>5 DEF TickMark, TickShape
  <2>1. [k EXCEPT !.pc = "markPeriod"] \in TickLocals /\ TickShape([k EXCEPT !.pc = "markPeriod"])
    BY <1>0, <2>0 DEF TickLocals, TickShape
  <2>2. chunks[k.period][k.current] \in Chunk
    BY <1>0, <2>0
  <2>3. [chunks[k.period][k.current] EXCEPT !.tx = k.hash, !.status = "PENDING"] \in Chunk
    BY <2>0, <2>2 DEF Chunk
  <2>4. chunks' \in [Period -> [ChunkIdx -> Chunk]]
    BY <1>5, <2>0, <2>3, ChunkUpdate DEF TickMark
  <2>5. \E m \in TickLocals : TickShape(m) /\ SetTick(s, m)
    BY <1>0, <1>5, <2>0, <2>1, ContinueLoopType DEF TickMark
  <2>. QED
    BY <1>5, <2>4, <2>5, TickUpdate DEF TickMark, TypeOK
<1>6. CASE TickMarkPeriod(s)
  <2>0. k.period \in Period /\ k.hash \in Tx
    BY <1>0, <1>6 DEF TickMarkPeriod, TickShape
  <2>1. [k EXCEPT !.txSet = TRUE] \in TickLocals /\ [k EXCEPT !.txSet = TRUE].period = k.period
    BY <1>0 DEF TickLocals
  <2>2. [batches[k.period] EXCEPT !.tx = k.hash] \in Batch
    BY <1>0, <2>0 DEF Batch
  <2>3. batches' \in [Period -> Batch]
    BY <1>6, <2>0, <2>2, BatchUpdate DEF TickMarkPeriod
  <2>4. \E m \in TickLocals : TickShape(m) /\ SetTick(s, m)
    BY <1>6, <2>0, <2>1, ContinueLoopType DEF TickMarkPeriod
  <2>. QED
    BY <1>6, <2>3, <2>4, TickUpdate DEF TickMarkPeriod, TypeOK
<1>7. CASE TickMarkError(s)
  <2>1. k.period \in Period /\ k.current \in ChunkIdx
    BY <1>0, <1>7 DEF TickMarkError, TickShape
  <2>2. [k EXCEPT !.pc = "fail"] \in TickLocals /\ TickShape([k EXCEPT !.pc = "fail"])
    BY <1>0, <2>1 DEF TickLocals, TickShape
  <2>. QED
    BY <1>7, <2>2, TickUpdate DEF TickMarkError, TypeOK
<1>8. CASE TickFail(s)
  <2>0. k.period \in Period /\ k.current \in ChunkIdx
    BY <1>0, <1>8 DEF TickFail, TickShape
  <2>1. chunks[k.period][k.current] \in Chunk
    BY <1>0, <2>0
  <2>2. Failed(chunks[k.period][k.current]) \in Chunk
    BY <2>1 DEF Failed, Chunk
  <2>3. chunks' \in [Period -> [ChunkIdx -> Chunk]]
    BY <1>8, <2>0, <2>2, ChunkUpdate DEF TickFail
  <2>4. \E m \in TickLocals : TickShape(m) /\ SetTick(s, m)
    BY <1>0, <1>8, <2>0, ContinueLoopType DEF TickFail
  <2>. QED
    BY <1>8, <2>3, <2>4, TickUpdate DEF TickFail, TypeOK
<1>9. CASE TickAbort(s)
  BY <1>9, <1>b, TickUpdate DEF TickAbort, TypeOK
<1>10. ASSUME NEW i \in ChunkIdx, TickSendRejected(s, i)
       PROVE  TypeOK'
  <2>1. k.period \in Period
    BY <1>10, <1>a DEF TickSendRejected, IsNextChunk
  <2>2. \E m \in TickLocals : TickShape(m) /\ SetTick(s, m)
    BY <1>0, <1>10, <2>1, AfterSendType DEF TickSendRejected
  <2>. QED
    BY <1>10, <2>2, TickUpdate DEF TickSendRejected, TypeOK
<1>11. ASSUME NEW i \in ChunkIdx, NEW t \in Tx, TickSend(s, i, t) \/ TickSendLost(s, i, t)
       PROVE  TypeOK'
  <2>1. k.period \in Period
    BY <1>11, <1>a DEF TickSend, TickSendLost, IsNextChunk
  <2>2. \E m \in TickLocals : TickShape(m) /\ SetTick(s, m)
    BY <1>0, <1>11, <2>1, AfterSendType DEF TickSend, TickSendLost
  <2>3. txs' \in [Tx -> Transaction]
    <3>1. chunks[k.period][i].payload \in Payload
      BY <1>0, <2>1 DEF Chunk
    <3>2. [state |-> "pool", period |-> k.period, chunk |-> i,
           payload |-> chunks[k.period][i].payload] \in Transaction
      BY <2>1, <3>1 DEF Transaction
    <3>. QED
      BY <1>0, <1>11, <3>2 DEF TickSend, TickSendLost, Broadcast
  <2>. QED
    BY <1>11, <2>2, <2>3, TickUpdate DEF TickSend, TickSendLost, TypeOK
<1>. QED
  BY <1>1, <1>2, <1>3, <1>4, <1>5, <1>6, <1>7, <1>8, <1>9, <1>10, <1>11 DEF TickStep

\* The finaliser of one period moves on within its type.
LEMMA FinUpdate ==
  ASSUME TypeOK, NEW r \in RecSlots, NEW p \in Period, NEW f \in Finalizer,
         rec[r].pc = "finalize", GoTo(r, p, f)
  PROVE  /\ rec' \in [RecSlots -> RecLocals]
         /\ \A z \in RecSlots : rec'[z].pc = "idle" => rec'[z] = IdleRec
<1>. DEFINE n == [rec[r] EXCEPT !.fin = [rec[r].fin EXCEPT ![p] = f]]
<1>1. rec[r] \in RecLocals
  BY DEF TypeOK
<1>2. [rec[r].fin EXCEPT ![p] = f] \in [Period -> Finalizer]
  BY <1>1 DEF RecLocals
<1>3. n \in RecLocals /\ n.pc = "finalize"
  BY <1>1, <1>2 DEF RecLocals
<1>. QED
  BY <1>3, RecUpdate DEF GoTo

\* The next loop over the assets of the payload.
LEMMA PhaseOverType ==
  ASSUME NEW f \in Finalizer, NEW pc \in {"mirror", "check"}, NEW payload \in Payload
  PROVE  PhaseOver(f, pc, payload) \in Finalizer
<1>1. Support(payload) \in SUBSET Assets /\ 0 \in Int
  BY DEF Support
<1>. QED
  BY <1>1 DEF PhaseOver, Finalizer

\* Every step of a reconciliation stays within the types.
LEMMA RecStepType ==
  ASSUME TypeOK, NEW r \in RecSlots, RecStep(r)
  PROVE  TypeOK'
<1>. DEFINE k == rec[r]
<1>. USE DEF tables, chain
<1>0. k \in RecLocals /\ views \in [Period -> Payload] /\ chunks \in [Period -> [ChunkIdx -> Chunk]]
      /\ batches \in [Period -> Batch] /\ mirror \in Payload /\ totalViews \in [Assets -> Int]
  BY DEF TypeOK
<1>1. CASE RecStart(r)
  <2>1. [IdleRec EXCEPT !.pc = "confirm", !.snapshot = Snapshot] \in RecLocals
    BY IdleTypes DEF RecLocals, Snapshot, IdleRec
  <2>2. [IdleRec EXCEPT !.pc = "confirm", !.snapshot = Snapshot].pc = "confirm"
    BY DEF IdleRec
  <2>. QED
    BY <1>1, <2>1, <2>2, RecUpdate DEF RecStart, TypeOK
<1>2. CASE RecPeriods(r)
  <2>. DEFINE fin == [p \in Period |-> IF batches[p].status = "PENDING"
                                       THEN StartFinalizer(p) ELSE DoneFinalizer]
  <2>1. ASSUME NEW p \in Period PROVE StartFinalizer(p) \in Finalizer
    BY <1>0, IdleTypes DEF StartFinalizer, Finalizer, Batch
  <2>2. fin \in [Period -> Finalizer]
    BY <2>1, IdleTypes
  <2>3. [k EXCEPT !.pc = "finalize", !.fin = fin] \in RecLocals
        /\ [k EXCEPT !.pc = "finalize", !.fin = fin].pc = "finalize"
    BY <1>0, <2>2 DEF RecLocals
  <2>. QED
    BY <1>2, <2>3, RecUpdate DEF RecPeriods, TypeOK
<1>3. CASE RecAbort(r) \/ RecEnd(r)
  BY <1>3, IdleTypes, RecUpdate DEF RecAbort, RecEnd, TypeOK
<1>4. ASSUME NEW w \in k.snapshot, RecConfirmChunk(r, w) \/ RecSkipChunk(r, w)
      PROVE  TypeOK'
  <2>1. w[1] \in Period /\ w[2] \in ChunkIdx
    BY <1>0 DEF RecLocals
  <2>2. [k EXCEPT !.snapshot = @ \ {w}] \in RecLocals
        /\ [k EXCEPT !.snapshot = @ \ {w}].pc = k.pc
    BY <1>0 DEF RecLocals
  <2>3. /\ rec' \in [RecSlots -> RecLocals]
        /\ \A z \in RecSlots : rec'[z].pc = "idle" => rec'[z] = IdleRec
    BY <1>4, <2>2, RecUpdate DEF RecConfirmChunk, RecSkipChunk
  <2>4. chunks[w[1]][w[2]] \in Chunk
    BY <1>0, <2>1
  <2>5. [chunks[w[1]][w[2]] EXCEPT !.status = "CONFIRMED"] \in Chunk
    BY <2>4 DEF Chunk
  <2>6. chunks' \in [Period -> [ChunkIdx -> Chunk]]
    BY <1>0, <1>4, <2>1, <2>5, ChunkUpdate DEF RecConfirmChunk, RecSkipChunk
  <2>. QED
    BY <1>4, <2>3, <2>6 DEF RecConfirmChunk, RecSkipChunk, TypeOK
<1>5. ASSUME NEW p \in Period,
             \/ FinChunks(r, p) \/ FinFlag(r, p) \/ FinConfirm(r, p)
             \/ FinAnchor(r, p) \/ FinAbort(r, p)
      PROVE  TypeOK'
  <2>. DEFINE f == k.fin[p]
  <2>1. f \in Finalizer /\ batches[p] \in Batch /\ batches[p].payload \in Payload
    BY <1>0 DEF RecLocals, Batch
  <2>2. CASE FinChunks(r, p)
    <3>1. \E g \in Finalizer : GoTo(r, p, g)
      BY <2>1, <2>2, PhaseOverType, IdleTypes DEF FinChunks, FirstPhase
    <3>. QED
      BY <2>2, <3>1, FinUpdate DEF FinChunks, InPhase, TypeOK
  <2>3. CASE FinFlag(r, p)
    <3>1. PhaseOver(f, "check", batches[p].payload) \in Finalizer
      BY <2>1, PhaseOverType
    <3>2. [batches[p] EXCEPT !.mirrorApplied = TRUE] \in Batch
      BY <2>1 DEF Batch
    <3>. QED
      BY <2>3, <3>1, <3>2, FinUpdate, BatchUpdate DEF FinFlag, InPhase, TypeOK
  <2>4. CASE FinConfirm(r, p)
    <3>1. [f EXCEPT !.pc = "anchor"] \in Finalizer
      BY <2>1 DEF Finalizer
    <3>2. [batches[p] EXCEPT !.status = "CONFIRMED"] \in Batch
      BY <2>1 DEF Batch
    <3>. QED
      BY <2>4, <3>1, <3>2, FinUpdate, BatchUpdate DEF FinConfirm, InPhase, TypeOK
  <2>5. CASE FinAnchor(r, p)
    BY <2>5, IdleTypes, FinUpdate DEF FinAnchor, InPhase, TypeOK
  <2>6. CASE FinAbort(r, p)
    BY <2>6, IdleTypes, FinUpdate DEF FinAbort, TypeOK
  <2>. QED
    BY <1>5, <2>2, <2>3, <2>4, <2>5, <2>6
<1>6. ASSUME NEW p \in Period, NEW a \in Assets,
             FinMirror(r, p, a) \/ FinReadChain(r, p, a) \/ FinCompare(r, p, a)
      PROVE  TypeOK'
  <2>. DEFINE f == k.fin[p]
  <2>1. f \in Finalizer /\ batches[p].payload \in Payload
    BY <1>0 DEF RecLocals, Batch
  <2>2. CASE FinMirror(r, p, a)
    <3>1. [f EXCEPT !.todo = @ \ {a}, !.pc = IF f.todo = {a} THEN "flag" ELSE @] \in Finalizer
      BY <2>1 DEF Finalizer
    <3>2. mirror' \in Payload
      BY <1>0, <2>1, <2>2 DEF FinMirror, Payload
    <3>. QED
      BY <2>2, <3>1, <3>2, FinUpdate DEF FinMirror, InPhase, TypeOK
  <2>3. CASE FinReadChain(r, p, a)
    <3>1. [f EXCEPT !.pc = "compare", !.onchain = totalViews[a]] \in Finalizer
      BY <1>0, <2>1 DEF Finalizer
    <3>. QED
      BY <2>3, <3>1, FinUpdate DEF FinReadChain, InPhase, TypeOK
  <2>4. CASE FinCompare(r, p, a)
    <3>1. [f EXCEPT !.todo = @ \ {a}, !.onchain = 0,
                    !.pc = IF f.todo = {a} THEN "confirm" ELSE "check"] \in Finalizer
      <4>1. f.todo \ {a} \in SUBSET Assets /\ 0 \in Int
        BY <2>1 DEF Finalizer
      <4>. QED
        BY <2>1, <4>1 DEF Finalizer
    <3>2. \E g \in Finalizer : GoTo(r, p, g)
      BY <2>4, <3>1, IdleTypes DEF FinCompare
    <3>. QED
      BY <2>4, <3>2, FinUpdate DEF FinCompare, InPhase, TypeOK
  <2>. QED
    BY <1>6, <2>2, <2>3, <2>4
<1>. QED
  BY <1>1, <1>2, <1>3, <1>4, <1>5, <1>6 DEF RecStep

\* Blocks change the chain within its types.
LEMMA ChainStepType ==
  ASSUME TypeOK, NEW t \in Tx, Mine(t) \/ Deepen(t) \/ Revert(t) \/ Drop(t) \/ Reorg(t)
  PROVE  TypeOK'
<1>. USE DEF tables, chain
<1>1. txs \in [Tx -> Transaction] /\ txs[t] \in Transaction /\ totalViews \in [Assets -> Int]
  BY DEF TypeOK
<1>2. txs[t].payload \in [Assets -> Nat]
  BY <1>1 DEF Transaction, Payload
<1>3. \A state \in {"pool", "mined", "deep", "reverted", "dropped"} :
        [txs[t] EXCEPT !.state = state] \in Transaction
  BY <1>1 DEF Transaction
<1>4. \E state \in {"pool", "mined", "deep", "reverted", "dropped"} :
        txs' = [txs EXCEPT ![t] = [txs[t] EXCEPT !.state = state]]
  BY DEF Mine, Deepen, Revert, Drop, Reorg
<1>5. txs' \in [Tx -> Transaction]
  BY <1>1, <1>3, <1>4
<1>6. totalViews' \in [Assets -> Int]
  BY <1>1, <1>2 DEF Mine, Deepen, Revert, Drop, Reorg, Plus, Minus
<1>. QED
  BY <1>5, <1>6 DEF Mine, Deepen, Revert, Drop, Reorg, TypeOK

\* TypeOK is inductive.
LEMMA NextType == TypeOK /\ [Next]_vars => TypeOK'
<1>. SUFFICES ASSUME TypeOK, [Next]_vars PROVE TypeOK'
  OBVIOUS
<1>. USE DEF tables, chain
<1>1. CASE AdvanceClock
  BY <1>1, ConstantsAssumption DEF AdvanceClock, TypeOK, ConstantsAssumption
<1>2. CASE Crash
  BY <1>2, IdleTypes, IdleTickShape DEF Crash, TypeOK
<1>3. ASSUME NEW a \in Assets, NEW p \in Period, RecordView(a, p)
      PROVE  TypeOK'
  <2>1. views \in [Period -> [Assets -> Nat]]
    BY DEF TypeOK, Payload
  <2>2. [views[p] EXCEPT ![a] = @ + 1] \in [Assets -> Nat]
    BY <2>1
  <2>3. views' = [views EXCEPT ![p] = [views[p] EXCEPT ![a] = @ + 1]]
    BY <1>3 DEF RecordView
  <2>4. views' \in [Period -> Payload]
    BY <2>1, <2>2, <2>3 DEF Payload
  <2>. QED
    BY <1>3, <2>4 DEF RecordView, TypeOK
<1>4. ASSUME NEW s \in TickSlots, TickStart(s)
      PROVE  TypeOK'
  <2>. DEFINE p == PreviousPeriod
  <2>. DEFINE n == [IdleTick EXCEPT !.pc = "aggregate", !.period = p,
                                    !.exists = (batches[p].status # "absent"),
                                    !.txSet = (batches[p].tx # NoTx)]
  <2>1. p \in Period /\ fired' \in [Period -> BOOLEAN]
    BY <1>4 DEF TickStart, TypeOK
  <2>2. n \in TickLocals /\ n.pc = "aggregate" /\ n.period = p
    BY <2>1, IdleTypes DEF TickLocals, IdleTick
  <2>3. TickShape(n)
    BY <2>1, <2>2 DEF TickShape
  <2>4. \E m \in TickLocals : TickShape(m) /\ SetTick(s, m)
    BY <1>4, <2>2, <2>3, IdleTypes, IdleTickShape DEF TickStart
  <2>. QED
    BY <1>4, <2>1, <2>4, TickUpdate DEF TickStart, TypeOK
<1>5. CASE UNCHANGED vars
  BY <1>5 DEF vars, TypeOK
<1>. QED
  BY <1>1, <1>2, <1>3, <1>4, <1>5, TickStepType, RecStepType, ChainStepType DEF Next

(***************************************************************************)
(* Every reachable state is well typed and the locals of idle calls are    *)
(* reset, whatever the environment does.                                   *)
(***************************************************************************)
THEOREM TypeCorrect == Spec => []TypeOK
BY InitTypeOK, NextType, PTL DEF Spec

-----------------------------------------------------------------------------
(***************************************************************************)
(* What one step does to a transaction, a chunk, the locals of a tick and  *)
(* the views of a closed period; and from there what a retry finds: in the *)
(* regime OneAtATime ReadyToRetry holds again after every step.            *)
(***************************************************************************)

(* ensureChunks either cuts a period nothing of which was ever inserted or *)
(* sent, or finds all the rows it would insert.                            *)
LEMMA EnsureSteps ==
  ASSUME Paced, PublicationInv, NEW s \in TickSlots, TickEnsure(s)
  PROVE  /\ tick[s].period \in Period
         /\ \/ NoChunks(tick[s].period) /\ NothingSent(tick[s].period)
            \/ ~Aligned /\ chunks' = chunks
<1>. DEFINE p == tick[s].period
            agg == tick[s].aggregates
<1>0. /\ TypeOK /\ tick[s].pc = "ensure" /\ p \in Period
      /\ chunks \in [Period -> [ChunkIdx -> Chunk]]
  BY DEF PublicationInv, TypeOK, TickShape, TickEnsure
<1>1. CASE Aligned
  BY <1>0, <1>1 DEF PublicationInv, UntouchedByTick, BeforeChunks
<1>2. CASE ~Aligned
  <2>1. /\ \A t \in Tx : Sent(t) => HashRecorded(t)
        /\ NoChunks(p) \/ IsCut(p, views[p])
        /\ agg = views[p]
        /\ \A z \in TickSlots : z = s
    BY <1>0, <1>2 DEF PublicationInv, ReadyToRetry, Paced, OneAtATime
  <2>2. CASE NoChunks(p)
    <3>1. \A t \in Tx : Sent(t) /\ txs[t].period = p => chunks[p][txs[t].chunk].tx # NoTx
      BY <1>0, <2>1 DEF HashRecorded
    <3>2. \A t \in Tx : Sent(t) => txs[t].chunk \in ChunkIdx
      BY DEF PublicationInv, SentPayload
    <3>. QED
      BY <1>0, <2>2, <3>1, <3>2 DEF NothingSent, NoChunks, NoChunk
  <2>3. CASE IsCut(p, views[p])
    <3>1. \A i \in ChunkIdx : ~(chunks[p][i].status = "absent" /\ Slice(agg, i) # Empty)
      BY <2>1, <2>3 DEF IsCut
    <3>2. chunks' = [chunks EXCEPT ![p] = [i \in ChunkIdx |-> chunks[p][i]]]
      BY <3>1 DEF TickEnsure
    <3>3. chunks' = chunks
      BY <1>0, <3>2
    <3>. QED
      BY <1>0, <1>2, <3>3
  <2>. QED
    BY <2>1, <2>2, <2>3
<1>. QED
  BY <1>1, <1>2

\* What a tick does to the transactions is to broadcast one.
LEMMA TickBroadcasts ==
  ASSUME TypeOK, NEW s \in TickSlots, TickStart(s) \/ TickStep(s)
  PROVE  \/ UNCHANGED txs
         \/ \E p \in Period, i \in ChunkIdx, u \in Tx : Broadcast(p, i, u)
<1>1. CASE \E i \in ChunkIdx, u \in Tx : TickSend(s, i, u) \/ TickSendLost(s, i, u)
  <2>1. tick[s].pc = "send"
    BY <1>1 DEF TickSend, TickSendLost, IsNextChunk
  <2>2. tick[s].period \in Period
    BY <2>1 DEF TypeOK, TickShape, IdleTick
  <2>. QED
    BY <1>1, <2>2 DEF TickSend, TickSendLost
<1>. QED
  BY <1>1 DEF TickStep, TickStart, TickAggregate, TickCreate, TickEnsure, TickFind, TickMark,
       TickMarkPeriod, TickMarkError, TickFail, TickAbort, TickSendRejected, chain

\* What a transaction carries never changes once it is sent.
LEMMA SentStaysSent ==
  ASSUME TypeOK, [Next]_vars, NEW t \in Tx, Sent(t)
  PROVE  /\ Sent(t)'
         /\ txs'[t].period = txs[t].period
         /\ txs'[t].chunk = txs[t].chunk
         /\ txs'[t].payload = txs[t].payload
<1>t. txs \in [Tx -> Transaction]
  BY DEF TypeOK
<1>1. CASE UNCHANGED txs
  BY <1>1 DEF Sent
<1>2. CASE \E p \in Period, i \in ChunkIdx, u \in Tx : Broadcast(p, i, u)
  <2>1. PICK p \in Period, i \in ChunkIdx, u \in Tx : Broadcast(p, i, u)
    BY <1>2
  <2>2. u # t
    BY <2>1 DEF Broadcast, IsFresh, Sent
  <2>. QED
    BY <1>t, <2>1, <2>2 DEF Broadcast, Sent
<1>3. ASSUME NEW u \in Tx, Mine(u) \/ Deepen(u) \/ Revert(u) \/ Drop(u) \/ Reorg(u)
      PROVE  /\ Sent(t)'
             /\ txs'[t].period = txs[t].period
             /\ txs'[t].chunk = txs[t].chunk
             /\ txs'[t].payload = txs[t].payload
  <2>1. \E state \in {"pool", "mined", "deep", "reverted", "dropped"} :
          txs' = [txs EXCEPT ![u] = [txs[u] EXCEPT !.state = state]]
    BY <1>3 DEF Mine, Deepen, Revert, Drop, Reorg
  <2>. QED
    BY <1>t, <2>1 DEF Sent, Transaction
<1>4. ASSUME NEW r \in RecSlots, RecStep(r)
      PROVE  UNCHANGED txs
  BY <1>4 DEF RecStep, RecStart, RecConfirmChunk, RecSkipChunk, RecPeriods, RecAbort, RecEnd,
       FinChunks, FinMirror, FinFlag, FinReadChain, FinCompare, FinConfirm, FinAnchor,
       FinAbort, chain
<1>. QED
  BY <1>1, <1>2, <1>3, <1>4, TickBroadcasts
  DEF Next, AdvanceClock, RecordView, Crash, chain, vars

(* One step of a tick or a reconciliation, seen from one chunk.            *)
ChunkKept(p, i) == chunks'[p][i] = chunks[p][i]
ChunkFilled(p, i) ==
  /\ \E s \in TickSlots : TickEnsure(s) /\ tick[s].period = p
  /\ NoChunks(p)
  /\ chunks'[p][i].tx = NoTx
ChunkMarked(p, i) ==
  \E s \in TickSlots :
    /\ tick[s].pc = "mark" /\ tick[s].period = p /\ tick[s].current = i /\ tick[s].hash \in Tx
    /\ tick'[s].pc \notin {"mark", "fail"}
    /\ chunks'[p][i] = [chunks[p][i] EXCEPT !.tx = tick[s].hash, !.status = "PENDING"]
ChunkFailed(p, i) ==
  \E s \in TickSlots :
    /\ tick[s].pc = "fail" /\ tick[s].period = p /\ tick[s].current = i
    /\ chunks'[p][i] = [chunks[p][i] EXCEPT !.status = "FAILED"]
ChunkConfirmed(p, i) ==
  /\ \E r \in RecSlots : \E w \in rec[r].snapshot : w[1] = p /\ w[2] = i
  /\ chunks'[p][i] = [chunks[p][i] EXCEPT !.status = "CONFIRMED"]

\* Every step is one of these to a chunk.
LEMMA ChunkSteps ==
  ASSUME Paced, PublicationInv, [Next]_vars, NEW p \in Period, NEW i \in ChunkIdx
  PROVE  \/ ChunkKept(p, i) \/ ChunkFilled(p, i) \/ ChunkMarked(p, i)
         \/ ChunkFailed(p, i) \/ ChunkConfirmed(p, i)
<1>t. /\ chunks \in [Period -> [ChunkIdx -> Chunk]]
      /\ \A s \in TickSlots : TickShape(tick[s])
      /\ \A r \in RecSlots : rec[r].snapshot \subseteq Period \X ChunkIdx \X Tx
  BY DEF PublicationInv, TypeOK, RecLocals
<1>1. ASSUME NEW s \in TickSlots, TickEnsure(s)
      PROVE  ChunkKept(p, i) \/ ChunkFilled(p, i)
  <2>1. tick[s].period \in Period
    BY <1>t, <1>1 DEF TickEnsure, TickShape, IdleTick
  <2>2. CASE tick[s].period # p
    BY <1>t, <1>1, <2>2 DEF TickEnsure, ChunkKept
  <2>3. CASE tick[s].period = p
    <3>1. NoChunks(p) \/ chunks' = chunks
      BY <1>1, <2>3, EnsureSteps
    <3>2. NoChunks(p) => chunks'[p][i].tx = NoTx
      <4>. SUFFICES ASSUME NoChunks(p) PROVE chunks'[p][i].tx = NoTx
        OBVIOUS
      <4>1. \A c : [NoChunk EXCEPT !.status = "PENDING", !.payload = c].tx = NoTx
        BY DEF NoChunk
      <4>2. chunks[p][i].tx = NoTx
        BY DEF NoChunks, NoChunk
      <4>3. \/ chunks'[p][i] = chunks[p][i]
            \/ chunks'[p][i] = [NoChunk EXCEPT !.status = "PENDING",
                                              !.payload = Slice(tick[s].aggregates, i)]
        BY <1>t, <1>1, <2>3 DEF TickEnsure
      <4>. QED
        BY <4>1, <4>2, <4>3
    <3>. QED
      BY <1>1, <2>3, <3>1, <3>2 DEF ChunkFilled, ChunkKept
  <2>. QED
    BY <2>2, <2>3
<1>2. ASSUME NEW s \in TickSlots, TickMark(s)
      PROVE  ChunkKept(p, i) \/ ChunkMarked(p, i)
  <2>1. tick[s].period \in Period /\ tick[s].current \in ChunkIdx /\ tick[s].hash \in Tx
    BY <1>t, <1>2 DEF TickMark, TickShape, IdleTick
  <2>2. CASE tick[s].period = p /\ tick[s].current = i
    <3>1. tick'[s].pc \notin {"mark", "fail"}
      BY <1>2, ConstantTypes DEF TickMark, SetTick, ContinueLoop, IdleTick, PublicationInv, TypeOK,
                                 TickLocals
    <3>. QED
      BY <1>t, <1>2, <2>1, <2>2, <3>1 DEF TickMark, SetChunk, ChunkMarked
  <2>3. CASE ~(tick[s].period = p /\ tick[s].current = i)
    BY <1>t, <1>2, <2>1, <2>3 DEF TickMark, SetChunk, ChunkKept
  <2>. QED
    BY <2>2, <2>3
<1>3. ASSUME NEW s \in TickSlots, TickFail(s)
      PROVE  ChunkKept(p, i) \/ ChunkFailed(p, i)
  <2>1. tick[s].period \in Period /\ tick[s].current \in ChunkIdx
    BY <1>t, <1>3 DEF TickFail, TickShape, IdleTick
  <2>2. CASE tick[s].period = p /\ tick[s].current = i
    BY <1>t, <1>3, <2>1, <2>2 DEF TickFail, SetChunk, ChunkFailed, Failed
  <2>3. CASE ~(tick[s].period = p /\ tick[s].current = i)
    BY <1>t, <1>3, <2>1, <2>3 DEF TickFail, SetChunk, ChunkKept
  <2>. QED
    BY <2>2, <2>3
<1>4. ASSUME NEW r \in RecSlots, NEW w \in rec[r].snapshot, RecConfirmChunk(r, w)
      PROVE  ChunkKept(p, i) \/ ChunkConfirmed(p, i)
  <2>1. w[1] \in Period /\ w[2] \in ChunkIdx
    BY <1>t
  <2>2. CASE w[1] = p /\ w[2] = i
    BY <1>t, <1>4, <2>1, <2>2 DEF RecConfirmChunk, SetChunk, ChunkConfirmed
  <2>3. CASE ~(w[1] = p /\ w[2] = i)
    BY <1>t, <1>4, <2>1, <2>3 DEF RecConfirmChunk, SetChunk, ChunkKept
  <2>. QED
    BY <2>2, <2>3
<1>5. ASSUME NEW s \in TickSlots, TickStart(s) \/ TickStep(s)
      PROVE  UNCHANGED chunks \/ TickEnsure(s) \/ TickMark(s) \/ TickFail(s)
  BY <1>5 DEF TickStep, TickStart, TickAggregate, TickCreate, TickFind, TickMarkPeriod,
       TickMarkError, TickAbort, TickSendRejected, TickSend, TickSendLost, tables
<1>6. ASSUME NEW r \in RecSlots, RecStep(r)
      PROVE  UNCHANGED chunks \/ \E w \in rec[r].snapshot : RecConfirmChunk(r, w)
  BY <1>6 DEF RecStep, RecStart, RecSkipChunk, RecPeriods, RecAbort, RecEnd, FinChunks,
       FinMirror, FinFlag, FinReadChain, FinCompare, FinConfirm, FinAnchor, FinAbort, tables
<1>7. CASE UNCHANGED chunks
  BY <1>7 DEF ChunkKept
<1>. QED
  BY <1>1, <1>2, <1>3, <1>4, <1>5, <1>6, <1>7
  DEF Next, AdvanceClock, RecordView, Mine, Deepen, Revert, Drop, Reorg, Crash, tables, vars

(* No step clears the hash of a chunk.                                     *)
LEMMA HashStays ==
  ASSUME Paced, PublicationInv, [Next]_vars, NEW p \in Period, NEW i \in ChunkIdx,
         chunks[p][i].tx # NoTx
  PROVE  chunks'[p][i].tx # NoTx
<1>1. chunks[p][i] \in Chunk
  BY DEF PublicationInv, TypeOK
<1>2. CASE ChunkKept(p, i)
  BY <1>2 DEF ChunkKept
<1>3. CASE ChunkFilled(p, i)
  BY <1>3 DEF ChunkFilled, NoChunks, NoChunk
<1>4. CASE ChunkMarked(p, i)
  BY <1>1, <1>4, ConstantTypes DEF ChunkMarked, Chunk, NoTx
<1>5. CASE ChunkFailed(p, i)
  BY <1>1, <1>5 DEF ChunkFailed, Chunk
<1>6. CASE ChunkConfirmed(p, i)
  BY <1>1, <1>6 DEF ChunkConfirmed, Chunk
<1>. QED
  BY <1>1, <1>2, <1>3, <1>4, <1>5, <1>6, ChunkSteps

\* A tick moves by its own steps, or is lost in a crash.
LEMMA TickMoves ==
  ASSUME [Next]_vars, TypeOK, NEW s \in TickSlots
  PROVE  tick'[s] = tick[s] \/ TickStart(s) \/ TickStep(s) \/ Crash
<1>1. ASSUME NEW z \in TickSlots, z # s, TickStart(z) \/ TickStep(z)
      PROVE  tick'[s] = tick[s]
  <2>1. \E k : SetTick(z, k)
    BY <1>1 DEF TickStart, TickStep, TickAggregate, TickCreate, TickEnsure, TickFind, TickMark,
       TickMarkPeriod, TickMarkError, TickFail, TickAbort, TickSendRejected, TickSend, TickSendLost
  <2>. QED
    BY <1>1, <2>1 DEF SetTick, TypeOK
<1>2. ASSUME NEW r \in RecSlots, RecStep(r)
      PROVE  UNCHANGED tick
  BY <1>2 DEF RecStep, RecStart, RecConfirmChunk, RecSkipChunk, RecPeriods, RecAbort, RecEnd,
       FinChunks, FinMirror, FinFlag, FinReadChain, FinCompare, FinConfirm, FinAnchor, FinAbort
<1>. QED
  BY <1>1, <1>2 DEF Next, AdvanceClock, RecordView, Mine, Deepen, Revert, Drop, Reorg, vars

(* Along a tick the period stays, and the aggregates are those it read.    *)
LEMMA TickLocalsStep ==
  ASSUME TypeOK, NEW s \in TickSlots, TickStep(s)
  PROVE  \/ tick'[s].pc = "idle"
         \/ /\ tick[s].pc # "idle" /\ tick'[s].period = tick[s].period
            /\ tick'[s].pc \in {"create", "ensure"} =>
                 \/ tick'[s].aggregates = views[tick[s].period] /\ tick[s].pc = "aggregate"
                 \/ tick[s].pc = "create" /\ tick'[s].aggregates = tick[s].aggregates
<1>. DEFINE k == tick[s]
<1>0. k \in TickLocals /\ tick \in [TickSlots -> TickLocals]
  BY DEF TypeOK
<1>a. \A n : SetTick(s, n) => tick'[s] = n
  BY <1>0 DEF SetTick
<1>b. IdleTick.pc = "idle"
  BY DEF IdleTick
<1>c. \A n \in TickLocals : \/ ContinueLoop(n).pc = "idle"
                            \/ ContinueLoop(n).pc = "send" /\ ContinueLoop(n).period = n.period
  BY <1>b DEF ContinueLoop, TickLocals
<1>1. CASE TickAggregate(s)
  BY <1>0, <1>1, <1>a, <1>b DEF TickAggregate, TickLocals
<1>2. CASE TickCreate(s)
  BY <1>0, <1>2, <1>a, <1>b DEF TickCreate, TickLocals
<1>3. CASE TickEnsure(s) \/ TickFind(s) \/ TickMarkError(s) \/ TickAbort(s)
  BY <1>0, <1>3, <1>a, <1>b DEF TickEnsure, TickFind, TickMarkError, TickAbort, TickLocals
<1>4. CASE TickMark(s)
  BY <1>0, <1>4, <1>a, <1>c DEF TickMark, TickLocals
<1>5. CASE TickMarkPeriod(s)
  <2>. DEFINE n == [k EXCEPT !.txSet = TRUE]
  <2>1. n \in TickLocals /\ n.period = k.period
    BY <1>0 DEF TickLocals
  <2>2. k.pc = "markPeriod" /\ SetTick(s, ContinueLoop(n))
    BY <1>5 DEF TickMarkPeriod
  <2>. HIDE DEF n
  <2>. QED
    BY <1>a, <1>c, <2>1, <2>2
<1>6. CASE TickFail(s)
  BY <1>0, <1>6, <1>a, <1>c DEF TickFail
<1>7. ASSUME NEW i, NEW t, TickSend(s, i, t) \/ TickSendLost(s, i, t) \/ TickSendRejected(s, i)
      PROVE  /\ tick'[s].pc \in {"mark", "fail"} /\ k.pc = "send"
             /\ tick'[s].period = k.period
  <2>1. \A pc, h : AfterSend(k, i, pc, h).pc = pc /\ AfterSend(k, i, pc, h).period = k.period
    BY <1>0 DEF AfterSend, TickLocals
  <2>. QED
    BY <1>7, <1>a, <2>1 DEF TickSend, TickSendLost, TickSendRejected, IsNextChunk
<1>. QED
  BY <1>1, <1>2, <1>3, <1>4, <1>5, <1>6, <1>7 DEF TickStep

(* Without late views the views of a closed period no longer change.       *)
LEMMA ClosedPeriods ==
  ASSUME TypeOK, [Next]_vars
  PROVE  /\ clock' \in {clock, clock + 1}
         /\ "lateView" \notin Env => \A p \in Period : p < clock => views'[p] = views[p]
<1>t. clock \in Nat /\ views \in [Period -> Payload] /\ Period \subseteq Nat
  BY ConstantsAssumption DEF TypeOK, ConstantsAssumption, Period
<1>1. ASSUME NEW a \in Assets, NEW p \in Period, RecordView(a, p)
      PROVE  /\ clock' = clock
             /\ "lateView" \notin Env => \A q \in Period : q < clock => views'[q] = views[q]
  <2>1. clock' = clock /\ \A q \in Period : q # p => views'[q] = views[q]
    BY <1>t, <1>1 DEF RecordView
  <2>2. "lateView" \notin Env => p = clock
    BY <1>1 DEF RecordView
  <2>. QED
    BY <1>t, <2>1, <2>2
<1>2. ASSUME NEW s \in TickSlots, TickStart(s) \/ TickStep(s)
      PROVE  UNCHANGED <<clock, views>>
  BY <1>2 DEF TickStart, TickStep, TickAggregate, TickCreate, TickEnsure, TickFind, TickMark,
     TickMarkPeriod, TickMarkError, TickFail, TickAbort, TickSendRejected, TickSend, TickSendLost,
     tables
<1>3. ASSUME NEW r \in RecSlots, RecStep(r)
      PROVE  UNCHANGED <<clock, views>>
  BY <1>3 DEF RecStep, RecStart, RecConfirmChunk, RecSkipChunk, RecPeriods, RecAbort, RecEnd,
       FinChunks, FinMirror, FinFlag, FinReadChain, FinCompare, FinConfirm, FinAnchor, FinAbort,
       tables
<1>. QED
  BY <1>1, <1>2, <1>3 DEF Next, AdvanceClock, Mine, Deepen, Revert, Drop, Reorg, Crash, vars, tables

(* Without late views a tick works on a closed period and its views.       *)
LEMMA RetryTicks ==
  ASSUME "lateView" \notin Env, TypeOK, TypeOK', [Next]_vars, NEW s \in TickSlots,
         tick[s].pc # "idle" => tick[s].period < clock,
         tick[s].pc \in {"create", "ensure"} => tick[s].aggregates = views[tick[s].period]
  PROVE  /\ tick'[s].pc # "idle" => tick'[s].period < clock'
         /\ tick'[s].pc \in {"create", "ensure"} => tick'[s].aggregates = views'[tick'[s].period]
<1>0. /\ TypeOK /\ clock \in Nat /\ Period \subseteq Nat /\ clock' \in Nat
      /\ tick \in [TickSlots -> TickLocals]
      /\ tick[s].pc # "idle" => tick[s].period \in Period
  BY ConstantsAssumption DEF TypeOK, TickShape, ConstantsAssumption, Period
<1>1. /\ tick[s].pc # "idle" => tick[s].period < clock
      /\ tick[s].pc \in {"create", "ensure"} => tick[s].aggregates = views[tick[s].period]
  OBVIOUS
<1>2. /\ clock' \in {clock, clock + 1}
      /\ \A p \in Period : p < clock => views'[p] = views[p]
  BY <1>0, ClosedPeriods
<1>c. \A n \in Nat : n < clock => n < clock'
  BY <1>0, <1>2
<1>3. CASE tick'[s] = tick[s]
  <2>1. CASE tick[s].pc = "idle"
    BY <1>3, <2>1
  <2>2. CASE tick[s].pc # "idle"
    <3>1. tick[s].period \in Period /\ tick[s].period \in Nat /\ tick[s].period < clock
      BY <1>0, <1>1, <2>2
    <3>2. views'[tick[s].period] = views[tick[s].period]
      BY <1>2, <3>1
    <3>. QED
      BY <1>1, <1>3, <1>c, <3>1, <3>2
  <2>. QED
    BY <2>1, <2>2
<1>4. CASE TickStart(s)
  <2>1. tick'[s].pc = "idle" \/ (tick'[s].pc = "aggregate" /\ tick'[s].period = clock - 1)
    <3>. DEFINE p == PreviousPeriod
                n == [IdleTick EXCEPT !.pc = "aggregate", !.period = p,
                                      !.exists = (batches[p].status # "absent"),
                                      !.txSet = (batches[p].tx # NoTx)]
    <3>1. n.pc = "aggregate" /\ n.period = p /\ IdleTick.pc = "idle"
      BY DEF IdleTick
    <3>2. SetTick(s, IF batches[p].status = "CONFIRMED" THEN IdleTick ELSE n)
      BY <1>4 DEF TickStart
    <3>. HIDE DEF n
    <3>3. tick'[s] = IdleTick \/ tick'[s] = n
      BY <1>0, <3>2 DEF SetTick
    <3>4. p = clock - 1
      BY DEF PreviousPeriod
    <3>. HIDE DEF p
    <3>. QED
      BY <3>1, <3>3, <3>4
  <2>2. clock - 1 < clock'
    BY <1>0, <1>2
  <2>. QED
    BY <2>1, <2>2
<1>5. CASE TickStep(s)
  <2>1. CASE tick'[s].pc = "idle"
    BY <2>1
  <2>2. CASE tick'[s].pc # "idle"
    <3>1. /\ tick[s].pc # "idle" /\ tick'[s].period = tick[s].period
          /\ tick'[s].pc \in {"create", "ensure"} =>
                 \/ tick'[s].aggregates = views[tick[s].period]
                 \/ tick[s].pc = "create" /\ tick'[s].aggregates = tick[s].aggregates
      BY <1>0, <1>5, <2>2, TickLocalsStep
    <3>2. tick[s].period \in Period /\ tick[s].period \in Nat /\ tick[s].period < clock
      BY <1>0, <1>1, <3>1
    <3>3. views'[tick[s].period] = views[tick[s].period]
      BY <1>2, <3>2
    <3>. QED
      BY <1>1, <1>c, <3>1, <3>2, <3>3
  <2>. QED
    BY <2>1, <2>2
<1>6. CASE Crash
  BY <1>6 DEF Crash, IdleTick
<1>. QED
  BY <1>0, <1>3, <1>4, <1>5, <1>6, TickMoves

(* The hash of a transaction is written before the next tick starts.       *)
LEMMA RetryHashes ==
  ASSUME Paced, OneAtATime, PublicationInv, [Next]_vars, TypeOK', NEW t \in Tx, Sent(t)'
  PROVE  HashRecorded(t)'
<1>0. /\ TypeOK /\ chunks \in [Period -> [ChunkIdx -> Chunk]] /\ txs \in [Tx -> Transaction]
      /\ tick \in [TickSlots -> TickLocals]
      /\ \A s \in TickSlots : TickShape(tick[s])
      /\ \A s, z \in TickSlots : s = z
  BY DEF PublicationInv, TypeOK, OneAtATime
<1>1. CASE Sent(t)
  <2>1. /\ txs'[t].period = txs[t].period /\ txs'[t].chunk = txs[t].chunk
        /\ txs[t].period \in Period /\ txs[t].chunk \in ChunkIdx
    BY <1>0, <1>1, SentStaysSent DEF PublicationInv, SentPayload
  <2>2. HashRecorded(t)
    BY <1>1 DEF PublicationInv, ReadyToRetry
  <2>3. CASE chunks[txs[t].period][txs[t].chunk].tx # NoTx
    BY <2>1, <2>3, HashStays DEF HashRecorded
  <2>4. ASSUME NEW s \in TickSlots, tick[s].pc = "mark", tick[s].period = txs[t].period,
               tick[s].current = txs[t].chunk
        PROVE  HashRecorded(t)'
    <3>1. CASE TickMark(s)
      <4>1. tick[s].hash \in Tx
        BY <1>0, <2>4 DEF TickShape
      <4>. DEFINE c == [chunks[tick[s].period][tick[s].current] EXCEPT !.tx = tick[s].hash,
                                                                       !.status = "PENDING"]
      <4>2. c.tx = tick[s].hash
        BY <1>0, <2>1, <2>4 DEF Chunk
      <4>3. chunks'[txs[t].period][txs[t].chunk] = c
        BY <1>0, <2>1, <2>4, <3>1 DEF TickMark, SetChunk
      <4>. HIDE DEF c
      <4>. QED
        BY <2>1, <4>1, <4>2, <4>3, ConstantTypes DEF HashRecorded, NoTx
    <3>2. CASE tick'[s] = tick[s]
      BY <2>1, <2>4, <3>2 DEF HashRecorded
    <3>3. ~TickStart(s)
      BY <2>4 DEF TickStart
    <3>4. TickStep(s) => TickMark(s)
      BY <2>4 DEF TickStep, TickAggregate, TickCreate, TickEnsure, TickFind, TickMarkPeriod,
         TickMarkError, TickFail, TickAbort, TickSendRejected, TickSend, TickSendLost, IsNextChunk,
         OneAtATime
    <3>. QED
      BY <1>0, <3>1, <3>2, <3>3, <3>4, TickMoves DEF OneAtATime, Crash
  <2>. QED
    BY <2>2, <2>3, <2>4 DEF HashRecorded
<1>2. CASE ~Sent(t)
  <2>1. PICK s \in TickSlots, i \in ChunkIdx, u \in Tx : TickSend(s, i, u)
    <3>1. ASSUME NEW s \in TickSlots, TickStart(s) \/ TickStep(s), UNCHANGED txs
          PROVE  FALSE
      BY <1>2, <3>1 DEF Sent
    <3>2. ASSUME NEW u \in Tx, Mine(u) \/ Deepen(u) \/ Revert(u) \/ Drop(u) \/ Reorg(u)
          PROVE  FALSE
      <4>1. \E state \in {"pool", "mined", "deep", "reverted", "dropped"} :
              txs' = [txs EXCEPT ![u] = [txs[u] EXCEPT !.state = state]]
        BY <3>2 DEF Mine, Deepen, Revert, Drop, Reorg
      <4>2. u # t
        BY <1>2, <3>2 DEF Mine, Deepen, Revert, Drop, Reorg, Sent
      <4>. QED
        BY <1>0, <1>2, <4>1, <4>2 DEF Sent
    <3>3. ASSUME NEW s \in TickSlots, TickStart(s) \/ TickStep(s)
          PROVE  UNCHANGED txs \/ \E i \in ChunkIdx, u \in Tx : TickSend(s, i, u)
      BY <3>3 DEF TickStart, TickStep, TickAggregate, TickCreate, TickEnsure, TickFind, TickMark,
         TickMarkPeriod, TickMarkError, TickFail, TickAbort, TickSendRejected, TickSendLost,
         OneAtATime, chain
    <3>4. ASSUME NEW r \in RecSlots, RecStep(r)
          PROVE  UNCHANGED txs
      BY <3>4 DEF RecStep, RecStart, RecConfirmChunk, RecSkipChunk, RecPeriods, RecAbort, RecEnd,
         FinChunks, FinMirror, FinFlag, FinReadChain, FinCompare, FinConfirm, FinAnchor, FinAbort,
         chain
    <3>5. ~UNCHANGED txs
      BY <1>2 DEF Sent
    <3>. QED
      BY <3>2, <3>3, <3>4, <3>5 DEF Next, AdvanceClock, RecordView, Crash, vars, chain
  <2>2. tick[s].pc = "send" /\ tick[s].period \in Period
    BY <1>0, <2>1 DEF TickSend, IsNextChunk, TickShape, IdleTick
  <2>3. u = t /\ txs'[t].period = tick[s].period /\ txs'[t].chunk = i
    BY <1>0, <1>2, <2>1 DEF TickSend, Broadcast, Sent
  <2>4. tick'[s].pc = "mark" /\ tick'[s].period = tick[s].period /\ tick'[s].current = i
    <3>. DEFINE n == AfterSend(tick[s], i, "mark", u)
    <3>1. n.pc = "mark" /\ n.period = tick[s].period /\ n.current = i
      BY <1>0 DEF AfterSend, TickLocals
    <3>2. tick'[s] = n
      BY <1>0, <2>1 DEF TickSend, SetTick
    <3>. QED
      BY <3>1, <3>2
  <2>. QED
    BY <2>3, <2>4 DEF HashRecorded
<1>. QED
  BY <1>1, <1>2

(* ensureChunks leaves the cut of the aggregates where nothing was.        *)
LEMMA EnsureMakesCut ==
  ASSUME TypeOK, NEW s \in TickSlots, TickEnsure(s), NEW p \in Period, tick[s].period = p,
         NoChunks(p), NEW payload, payload = tick[s].aggregates
  PROVE  IsCut(p, payload)'
<1>0. chunks \in [Period -> [ChunkIdx -> Chunk]]
  BY DEF TypeOK
<1>. SUFFICES ASSUME NEW i \in ChunkIdx
              PROVE  IF Slice(payload, i) = Empty THEN chunks'[p][i] = NoChunk
                     ELSE /\ chunks'[p][i].status # "absent"
                          /\ chunks'[p][i].payload = Slice(payload, i)
  BY DEF IsCut
<1>. DEFINE cut == [NoChunk EXCEPT !.status = "PENDING", !.payload = Slice(payload, i)]
<1>1. cut.status = "PENDING" /\ cut.payload = Slice(payload, i)
  BY DEF NoChunk
<1>2. chunks[p][i] = NoChunk /\ NoChunk.status = "absent"
  BY DEF NoChunks, NoChunk
<1>3. chunks'[p][i] = IF Slice(payload, i) # Empty THEN cut ELSE NoChunk
  BY <1>0, <1>2 DEF TickEnsure
<1>. HIDE DEF cut
<1>. QED
  BY <1>1, <1>2, <1>3

(* No other step adds a chunk, takes one away or changes its payload.      *)
CutMade(p) == \E s \in TickSlots : TickEnsure(s) /\ tick[s].period = p /\ NoChunks(p)

\* Unless the tick cuts it now, a period keeps its chunks and their payloads.
LEMMA ChunksStay ==
  ASSUME Paced, PublicationInv, [Next]_vars, NEW p \in Period, ~CutMade(p), NEW i \in ChunkIdx
  PROVE  /\ chunks[p][i] = NoChunk => chunks'[p][i] = NoChunk
         /\ chunks[p][i].status # "absent" =>
              /\ chunks'[p][i].status # "absent"
              /\ chunks'[p][i].payload = chunks[p][i].payload
<1>0. NoChunk.status = "absent" /\ chunks[p][i] \in Chunk
  BY DEF NoChunk, PublicationInv, TypeOK
<1>1. CASE ChunkKept(p, i)
  BY <1>1 DEF ChunkKept
<1>2. ~ChunkFilled(p, i)
  BY DEF ChunkFilled, CutMade
<1>3. CASE ChunkMarked(p, i)
  <2>1. chunks[p][i].status # "absent"
    BY <1>3 DEF ChunkMarked, PublicationInv, ChunksInUse, AfterSending
  <2>. QED
    BY <1>0, <1>3, <2>1 DEF ChunkMarked, Chunk
<1>4. CASE ChunkFailed(p, i)
  <2>1. chunks[p][i].status # "absent"
    BY <1>4 DEF ChunkFailed, PublicationInv, ChunksInUse, AfterSending
  <2>. QED
    BY <1>0, <1>4, <2>1 DEF ChunkFailed, Chunk
<1>5. CASE ChunkConfirmed(p, i)
  <2>1. chunks[p][i].status # "absent"
    BY <1>5 DEF ChunkConfirmed, PublicationInv, ChunksInUse
  <2>. QED
    BY <1>0, <1>5, <2>1 DEF ChunkConfirmed, Chunk
<1>. QED
  BY <1>1, <1>2, <1>3, <1>4, <1>5, ChunkSteps

(* Chunks that are the cut of a payload stay its cut.                      *)
LEMMA CutStays ==
  ASSUME Paced, PublicationInv, [Next]_vars, NEW p \in Period, ~CutMade(p)
  PROVE  /\ NoChunks(p) => NoChunks(p)'
         /\ \A payload : IsCut(p, payload) => IsCut(p, payload)'
  BY ChunksStay DEF NoChunks, IsCut

(* Chunks stay the cut of the views.                                       *)
LEMMA RetryChunks ==
  ASSUME Paced, OneAtATime, PublicationInv, [Next]_vars, TypeOK', NEW p \in Period
  PROVE  (NoChunks(p) \/ (p < clock /\ IsCut(p, views[p])))'
<1>0. TypeOK /\ clock \in Nat /\ Period \subseteq Nat /\ clock' \in Nat
  BY ConstantsAssumption DEF PublicationInv, TypeOK, ConstantsAssumption, Period
<1>1. /\ p < clock => views'[p] = views[p]
      /\ p < clock => p < clock'
  BY <1>0, ClosedPeriods DEF OneAtATime
<1>2. NoChunks(p) \/ (p < clock /\ IsCut(p, views[p]))
  BY DEF PublicationInv, ReadyToRetry
<1>3. PICK payload : payload = views[p]
  OBVIOUS
<1>4. CASE CutMade(p)
  <2>1. PICK s \in TickSlots : TickEnsure(s) /\ tick[s].period = p /\ NoChunks(p)
    BY <1>4 DEF CutMade
  <2>2. tick[s].aggregates = payload /\ p < clock
    BY <1>3, <2>1 DEF TickEnsure, PublicationInv, ReadyToRetry
  <2>3. IsCut(p, payload)'
    BY <1>0, <2>1, <2>2, EnsureMakesCut
  <2>. QED
    BY <1>1, <1>3, <2>2, <2>3 DEF IsCut
<1>5. CASE ~CutMade(p)
  <2>1. CASE NoChunks(p)
    BY <1>5, <2>1, CutStays
  <2>2. CASE p < clock /\ IsCut(p, views[p])
    <3>1. IsCut(p, payload)'
      BY <1>3, <1>5, <2>2, CutStays
    <3>. QED
      BY <1>1, <1>3, <2>2, <3>1 DEF IsCut
  <2>. QED
    BY <1>2, <2>1, <2>2
<1>. QED
  BY <1>4, <1>5

\* One tick at a time, what the next tick of the period finds stays true.
LEMMA RetryStep ==
  ASSUME Paced, PublicationInv, [Next]_vars, TypeOK'
  PROVE  ReadyToRetry'
<1>1. ASSUME OneAtATime, NEW s \in TickSlots
      PROVE  /\ tick'[s].pc # "idle" => tick'[s].period < clock'
             /\ tick'[s].pc \in {"create", "ensure"} => tick'[s].aggregates = views'[tick'[s].period]
  BY <1>1, RetryTicks DEF OneAtATime, PublicationInv, ReadyToRetry
<1>. QED
  BY <1>1, RetryHashes, RetryChunks DEF ReadyToRetry

-----------------------------------------------------------------------------
(***************************************************************************)
(* PublicationInv is inductive in both regimes.  Most steps only           *)
(* advance a tick, change the status of a chunk or of a transaction: those *)
(* are quiet, and one lemma covers them all.                               *)
(***************************************************************************)
QuietChunks ==
  \A p \in Period, i \in ChunkIdx :
    /\ chunks'[p][i].payload = chunks[p][i].payload
    /\ \/ chunks'[p][i] = chunks[p][i]
       \/ chunks[p][i].status # "absent" /\ chunks'[p][i].status # "absent"
QuietTxs ==
  \A t \in Tx :
    /\ Sent(t)' = Sent(t)
    /\ txs'[t].period = txs[t].period
    /\ txs'[t].chunk = txs[t].chunk
    /\ txs'[t].payload = txs[t].payload
QuietTick(s) ==
  \/ tick'[s].pc = "idle"
  \/ /\ tick[s].pc # "idle"
     /\ tick'[s].period = tick[s].period
     /\ tick'[s].todo \subseteq tick[s].todo
     /\ tick'[s].pc \in BeforeChunks => tick[s].pc \in BeforeChunks
     /\ Aligned /\ tick'[s].pc = "find" => tick[s].pc = "find"
     /\ tick'[s].pc \in InLoop => tick[s].pc \in InLoop
     /\ tick'[s].pc \in AfterSending =>
          \/ tick[s].pc \in AfterSending /\ tick'[s].current = tick[s].current
          \/ tick[s].pc = "send" /\ tick'[s].current \in tick[s].todo
QuietRec(r) ==
  \A w \in rec'[r].snapshot : w \in rec[r].snapshot \/ chunks[w[1]][w[2]].status # "absent"

\* A step that sends nothing and cuts no chunks preserves the invariant.
LEMMA Quiet ==
  ASSUME PublicationInv, TypeOK', ReadyToRetry', fired' = fired, QuietChunks, QuietTxs,
         \A s \in TickSlots : QuietTick(s), \A r \in RecSlots : QuietRec(r)
  PROVE  PublicationInv'
<1>. USE DEF PublicationInv
<1>0. /\ \A s \in TickSlots : /\ tick'[s].pc # "idle" => tick'[s].period \in Period
                              /\ tick'[s].pc \in AfterSending => tick'[s].current \in ChunkIdx
                              /\ tick'[s].todo \subseteq ChunkIdx
      /\ \A r \in RecSlots : rec'[r].snapshot \subseteq Period \X ChunkIdx \X Tx
  BY DEF TypeOK, TickShape, TickLocals, RecLocals, AfterSending, IdleTick
<1>1. TicksApart'
  BY DEF TicksApart, QuietTick
<1>2. \A p \in Period : NoChunks(p) => NoChunks(p)'
  BY DEF NoChunks, QuietChunks, NoChunk
<1>3. \A p \in Period : NothingSent(p) => NothingSent(p)'
  BY DEF NothingSent, QuietTxs
<1>4. UntouchedPeriods'
  BY <1>2, <1>3 DEF UntouchedPeriods
<1>5. UntouchedByTick'
  <2>. SUFFICES ASSUME Aligned, NEW s \in TickSlots, tick'[s].pc \in BeforeChunks \cup {"find"}
                PROVE  /\ tick'[s].pc \in BeforeChunks => NoChunks(tick[s].period)'
                       /\ NothingSent(tick[s].period)'
    BY DEF UntouchedByTick, QuietTick, BeforeChunks
  <2>1. QuietTick(s) /\ tick'[s].pc # "idle"
    BY DEF BeforeChunks
  <2>2. tick[s].pc \in BeforeChunks \cup {"find"} /\ tick'[s].period = tick[s].period
    BY <2>1 DEF QuietTick
  <2>. QED
    BY <1>0, <1>2, <1>3, <2>1, <2>2 DEF UntouchedByTick, QuietTick
<1>6. TodoIsUnsent'
  BY DEF TodoIsUnsent, QuietTick, QuietTxs, NotSent, InLoop, AfterSending
<1>7. \A p \in Period, i \in ChunkIdx :
        chunks[p][i].status # "absent" => chunks'[p][i].status # "absent"
  BY DEF QuietChunks
<1>8. ChunksInUse'
  <2>1. ASSUME NEW s \in TickSlots, tick'[s].pc \in InLoop, NEW i \in tick'[s].todo
        PROVE  chunks'[tick'[s].period][i].status # "absent"
    BY <1>0, <1>7, <2>1 DEF ChunksInUse, QuietTick, InLoop, AfterSending
  <2>2. ASSUME NEW s \in TickSlots, tick'[s].pc \in AfterSending
        PROVE  chunks'[tick'[s].period][tick'[s].current].status # "absent"
    BY <1>0, <1>7, <2>2 DEF ChunksInUse, QuietTick, InLoop, AfterSending
  <2>3. ASSUME NEW r \in RecSlots, NEW w \in rec'[r].snapshot
        PROVE  chunks'[w[1]][w[2]].status # "absent"
    BY <1>0, <1>7, <2>3 DEF ChunksInUse, QuietRec
  <2>. QED
    BY <2>1, <2>2, <2>3 DEF ChunksInUse
<1>9. SentPayload'
  BY DEF SentPayload, QuietTxs, QuietChunks
<1>10. SentOnce'
  BY DEF SentOnce, QuietTxs
<1>11. SlicesApart'
  BY DEF SlicesApart, QuietChunks, Disjoint, Support
<1>. QED
  BY <1>1, <1>4, <1>5, <1>6, <1>8, <1>9, <1>10, <1>11

(* Nothing but the named variables matters to a quiet step.                *)
LEMMA QuietIfUnchanged ==
  /\ chunks' = chunks => QuietChunks
  /\ txs' = txs => QuietTxs
  /\ tick' = tick => \A s \in TickSlots : QuietTick(s)
  /\ rec' = rec => \A r \in RecSlots : QuietRec(r)
<1>1. chunks' = chunks => QuietChunks
  BY DEF QuietChunks
<1>2. txs' = txs => QuietTxs
  BY DEF QuietTxs, Sent
<1>3. tick' = tick => \A s \in TickSlots : QuietTick(s)
  BY DEF QuietTick
<1>4. rec' = rec => \A r \in RecSlots : QuietRec(r)
  BY DEF QuietRec
<1>. QED
  BY <1>1, <1>2, <1>3, <1>4

(* A tick that moves quietly leaves the other ticks alone.                 *)
LEMMA QuietOneTick ==
  ASSUME TypeOK, NEW s \in TickSlots, QuietTick(s), NEW k, SetTick(s, k)
  PROVE  \A z \in TickSlots : QuietTick(z)
<1>1. \A z \in TickSlots : z # s => tick'[z] = tick[z]
  BY DEF TypeOK, SetTick
<1>. QED
  BY <1>1 DEF QuietTick

\* An UPDATE of a chunk that keeps its payload is quiet.
LEMMA QuietOneChunk ==
  ASSUME TypeOK, NEW p \in Period, NEW i \in ChunkIdx, NEW c, SetChunk(p, i, c),
         c.payload = chunks[p][i].payload,
         chunks[p][i].status # "absent", c.status # "absent"
  PROVE  QuietChunks
<1>1. chunks'[p][i] = c
  BY DEF TypeOK, SetChunk
<1>2. \A q \in Period, j \in ChunkIdx : q # p \/ j # i => chunks'[q][j] = chunks[q][j]
  BY DEF TypeOK, SetChunk
<1>. QED
  BY <1>1, <1>2 DEF QuietChunks

(* The steps of a tick that keep to the chunks and transactions there are. *)
LEMMA QuietTickSteps ==
  ASSUME PublicationInv, TypeOK', ReadyToRetry', NEW s \in TickSlots,
         \/ TickAggregate(s) \/ TickCreate(s) \/ TickMark(s) \/ TickMarkPeriod(s)
         \/ TickMarkError(s) \/ TickFail(s) \/ TickAbort(s)
         \/ \E i \in ChunkIdx : TickSendRejected(s, i)
  PROVE  PublicationInv'
<1>. DEFINE k == tick[s]
<1>. USE DEF tables, chain
<1>0. TypeOK /\ k \in TickLocals /\ tick \in [TickSlots -> TickLocals] /\ TickShape(k)
  BY DEF PublicationInv, TypeOK
<1>a. \A n : SetTick(s, n) => tick'[s] = n
  BY <1>0 DEF SetTick
<1>b. IdleTick.pc = "idle"
  BY DEF IdleTick
<1>c. \A n \in TickLocals : ContinueLoop(n).pc = "idle" \/
        /\ ContinueLoop(n).pc = "send" /\ ContinueLoop(n).period = n.period
        /\ ContinueLoop(n).todo = n.todo
  BY <1>b DEF ContinueLoop, TickLocals
<1>. USE DEF InLoop, AfterSending, BeforeChunks
<1>1. CASE TickAggregate(s)
  <2>1. QuietTick(s)
    BY <1>0, <1>1, <1>a, <1>b DEF TickAggregate, QuietTick, TickLocals
  <2>. QED
    BY <1>0, <1>1, <2>1, Quiet, QuietIfUnchanged, QuietOneTick DEF TickAggregate
<1>2. CASE TickCreate(s)
  <2>1. QuietTick(s) /\ \E n : SetTick(s, n)
    BY <1>0, <1>2, <1>a, <1>b DEF TickCreate, QuietTick, TickLocals
  <2>. QED
    BY <1>0, <1>2, <2>1, Quiet, QuietIfUnchanged, QuietOneTick DEF TickCreate
<1>3. CASE TickMark(s)
  <2>1. QuietTick(s) /\ \E n : SetTick(s, n)
    BY <1>0, <1>3, <1>a, <1>c DEF TickMark, QuietTick, TickLocals
  <2>2. k.period \in Period /\ k.current \in ChunkIdx
    BY <1>0, <1>3 DEF TickMark, TickShape
  <2>3. chunks[k.period][k.current] \in Chunk /\ chunks[k.period][k.current].status # "absent"
    BY <1>0, <1>3, <2>2 DEF TickMark, PublicationInv, ChunksInUse, TypeOK
  <2>. DEFINE c == [chunks[k.period][k.current] EXCEPT !.tx = k.hash, !.status = "PENDING"]
  <2>4. c.payload = chunks[k.period][k.current].payload /\ c.status # "absent"
    BY <2>3 DEF Chunk
  <2>5. QuietChunks
    BY <1>0, <1>3, <2>2, <2>3, <2>4, QuietOneChunk DEF TickMark
  <2>. QED
    BY <1>0, <1>3, <2>1, <2>5, Quiet, QuietIfUnchanged, QuietOneTick DEF TickMark
<1>4. CASE TickMarkPeriod(s)
  <2>. DEFINE n == [k EXCEPT !.txSet = TRUE]
  <2>1. n \in TickLocals /\ n.period = k.period /\ n.todo = k.todo
    BY <1>0 DEF TickLocals
  <2>2. k.pc = "markPeriod" /\ SetTick(s, ContinueLoop(n))
    BY <1>4 DEF TickMarkPeriod
  <2>. HIDE DEF n
  <2>3. tick'[s] = ContinueLoop(n)
    BY <2>2, <1>a
  <2>4. QuietTick(s)
    BY <2>1, <2>2, <2>3, <1>c DEF QuietTick
  <2>. QED
    BY <1>0, <1>4, <2>2, <2>4, Quiet, QuietIfUnchanged, QuietOneTick DEF TickMarkPeriod
<1>5. CASE TickMarkError(s)
  <2>1. QuietTick(s)
    BY <1>0, <1>5, <1>a DEF TickMarkError, QuietTick, TickLocals
  <2>. QED
    BY <1>0, <1>5, <2>1, Quiet, QuietIfUnchanged, QuietOneTick DEF TickMarkError
<1>6. CASE TickFail(s)
  <2>1. QuietTick(s)
    BY <1>0, <1>6, <1>a, <1>c DEF TickFail, QuietTick, TickLocals
  <2>2. k.period \in Period /\ k.current \in ChunkIdx
    BY <1>0, <1>6 DEF TickFail, TickShape
  <2>3. chunks[k.period][k.current] \in Chunk /\ chunks[k.period][k.current].status # "absent"
    BY <1>0, <1>6, <2>2 DEF TickFail, PublicationInv, ChunksInUse, TypeOK
  <2>. DEFINE c == Failed(chunks[k.period][k.current])
  <2>4. c.payload = chunks[k.period][k.current].payload /\ c.status # "absent"
    BY <2>3 DEF Chunk, Failed
  <2>5. QuietChunks
    BY <1>0, <1>6, <2>2, <2>3, <2>4, QuietOneChunk DEF TickFail
  <2>. QED
    BY <1>0, <1>6, <2>1, <2>5, Quiet, QuietIfUnchanged, QuietOneTick DEF TickFail
<1>7. CASE TickAbort(s)
  <2>1. QuietTick(s)
    BY <1>7, <1>a, <1>b DEF TickAbort, QuietTick
  <2>. QED
    BY <1>0, <1>7, <2>1, Quiet, QuietIfUnchanged, QuietOneTick DEF TickAbort
<1>8. ASSUME NEW i \in ChunkIdx, TickSendRejected(s, i)
      PROVE  PublicationInv'
  <2>. DEFINE n == AfterSend(k, i, "fail", NoTx)
  <2>1. /\ n.pc = "fail" /\ n.period = k.period /\ n.current = i
        /\ n.todo \subseteq k.todo
    BY <1>0 DEF AfterSend, TickLocals
  <2>2. QuietTick(s)
    BY <1>8, <2>1, <1>a DEF TickSendRejected, IsNextChunk, QuietTick
  <2>. QED
    BY <1>0, <1>8, <2>2, Quiet, QuietIfUnchanged, QuietOneTick DEF TickSendRejected
<1>. QED
  BY <1>1, <1>2, <1>3, <1>4, <1>5, <1>6, <1>7, <1>8

\* Reconciliations send nothing.
LEMMA QuietRecStep ==
  ASSUME PublicationInv, TypeOK', ReadyToRetry', NEW r \in RecSlots, RecStep(r)
  PROVE  PublicationInv'
<1>. USE DEF tables, chain
<1>0. /\ TypeOK /\ rec \in [RecSlots -> RecLocals] /\ rec[r] \in RecLocals
      /\ chunks \in [Period -> [ChunkIdx -> Chunk]]
  BY DEF PublicationInv, TypeOK
<1>a. ASSUME NEW n, SetRec(r, n),
             \A w \in n.snapshot : w \in rec[r].snapshot \/ chunks[w[1]][w[2]].status # "absent"
      PROVE  \A z \in RecSlots : QuietRec(z)
  BY <1>0, <1>a DEF SetRec, QuietRec
<1>b. ASSUME NEW p \in Period, NEW f, GoTo(r, p, f)
      PROVE  \A z \in RecSlots : QuietRec(z)
  <2>. DEFINE n == [rec[r] EXCEPT !.fin = [rec[r].fin EXCEPT ![p] = f]]
  <2>1. n.snapshot = rec[r].snapshot
    BY <1>0 DEF RecLocals
  <2>. QED
    BY <1>a, <1>b, <2>1 DEF GoTo
<1>1. CASE RecStart(r)
  <2>. DEFINE n == [IdleRec EXCEPT !.pc = "confirm", !.snapshot = Snapshot]
  <2>1. \A w \in n.snapshot : chunks[w[1]][w[2]].status # "absent"
    BY DEF IdleRec, Snapshot
  <2>. QED
    BY <1>1, <1>a, <2>1, Quiet, QuietIfUnchanged DEF RecStart
<1>2. CASE RecPeriods(r)
  <2>. DEFINE fin == [p \in Period |-> IF batches[p].status = "PENDING"
                                       THEN StartFinalizer(p) ELSE DoneFinalizer]
  <2>1. [rec[r] EXCEPT !.pc = "finalize", !.fin = fin].snapshot = rec[r].snapshot
    BY <1>0 DEF RecLocals
  <2>. QED
    BY <1>2, <1>a, <2>1, Quiet, QuietIfUnchanged DEF RecPeriods
<1>3. CASE RecAbort(r) \/ RecEnd(r)
  <2>1. IdleRec.snapshot = {}
    BY DEF IdleRec
  <2>. QED
    BY <1>3, <1>a, <2>1, Quiet, QuietIfUnchanged DEF RecAbort, RecEnd
<1>4. ASSUME NEW w \in rec[r].snapshot, RecConfirmChunk(r, w) \/ RecSkipChunk(r, w)
      PROVE  PublicationInv'
  <2>1. \A z \in RecSlots : QuietRec(z)
    <3>1. [rec[r] EXCEPT !.snapshot = @ \ {w}].snapshot \subseteq rec[r].snapshot
      BY <1>0 DEF RecLocals
    <3>. QED
      BY <1>4, <1>a, <3>1 DEF RecConfirmChunk, RecSkipChunk
  <2>2. CASE RecConfirmChunk(r, w)
    <3>1. w[1] \in Period /\ w[2] \in ChunkIdx
      BY <1>0 DEF RecLocals
    <3>2. chunks[w[1]][w[2]] \in Chunk /\ chunks[w[1]][w[2]].status # "absent"
      BY <1>0, <3>1 DEF PublicationInv, ChunksInUse
    <3>. DEFINE c == [chunks[w[1]][w[2]] EXCEPT !.status = "CONFIRMED"]
    <3>3. c.payload = chunks[w[1]][w[2]].payload /\ c.status # "absent"
      BY <3>2 DEF Chunk
    <3>4. QuietChunks
      BY <1>0, <2>2, <3>1, <3>2, <3>3, QuietOneChunk DEF RecConfirmChunk
    <3>. QED
      BY <2>1, <2>2, <3>4, Quiet, QuietIfUnchanged DEF RecConfirmChunk
  <2>3. CASE RecSkipChunk(r, w)
    BY <2>1, <2>3, Quiet, QuietIfUnchanged DEF RecSkipChunk
  <2>. QED
    BY <1>4, <2>2, <2>3
<1>5. ASSUME NEW p \in Period,
             \/ FinChunks(r, p) \/ FinFlag(r, p) \/ FinConfirm(r, p)
             \/ FinAnchor(r, p) \/ FinAbort(r, p)
             \/ \E a \in Assets : FinMirror(r, p, a) \/ FinReadChain(r, p, a) \/ FinCompare(r, p, a)
      PROVE  PublicationInv'
  <2>1. /\ \E f : GoTo(r, p, f)
        /\ UNCHANGED <<fired, chunks, txs, tick>>
    BY <1>5 DEF FinChunks, FinFlag, FinConfirm, FinAnchor, FinAbort, FinMirror, FinReadChain,
                FinCompare
  <2>. QED
    BY <1>b, <2>1, Quiet, QuietIfUnchanged
<1>. QED
  BY <1>1, <1>2, <1>3, <1>4, <1>5 DEF RecStep

(* The cron takes a period no tick has taken before.                       *)
LEMMA StartPublication ==
  ASSUME Paced, PublicationInv, TypeOK', ReadyToRetry', NEW s \in TickSlots, TickStart(s)
  PROVE  PublicationInv'
<1>. DEFINE p == PreviousPeriod
<1>. USE DEF tables, chain
<1>0. TypeOK /\ tick \in [TickSlots -> TickLocals] /\ fired \in [Period -> BOOLEAN]
  BY DEF PublicationInv, TypeOK
<1>1. /\ p \in Period /\ (Aligned => ~fired[p]) /\ tick[s].pc = "idle"
      /\ fired' = [fired EXCEPT ![p] = TRUE]
      /\ UNCHANGED <<chunks, txs, rec>>
  BY DEF TickStart, Aligned
<1>2. Aligned => NoChunks(p) /\ NothingSent(p)
  BY <1>1 DEF PublicationInv, UntouchedPeriods
<1>3. /\ \A z \in TickSlots : z # s => tick'[z] = tick[z]
      /\ tick'[s].pc = "idle" \/ (tick'[s].pc = "aggregate" /\ tick'[s].period = p)
  BY <1>0 DEF TickStart, SetTick, IdleTick
<1>4. \A z \in TickSlots : tick[z].pc # "idle" => tick[z].period # p /\ tick[z].period \in Period
  BY <1>0, <1>1 DEF PublicationInv, TicksApart, TypeOK, TickShape, Paced, OneAtATime
<1>5. /\ \A q \in Period : NoChunks(q)' = NoChunks(q) /\ NothingSent(q)' = NothingSent(q)
      /\ \A t \in Tx : Sent(t)' = Sent(t)
  BY <1>1 DEF NoChunks, NothingSent, Sent
<1>. USE DEF PublicationInv
<1>6. TicksApart'
  BY <1>0, <1>1, <1>3, <1>4 DEF TicksApart
<1>7. UntouchedPeriods'
  BY <1>0, <1>1, <1>5 DEF UntouchedPeriods
<1>8. UntouchedByTick'
  BY <1>1, <1>2, <1>3, <1>4, <1>5 DEF UntouchedByTick, BeforeChunks, NoChunks, NothingSent
<1>9. TodoIsUnsent'
  BY <1>1, <1>3, <1>5 DEF TodoIsUnsent, InLoop, AfterSending, NotSent
<1>10. ChunksInUse'
  BY <1>1, <1>3 DEF ChunksInUse, InLoop, AfterSending
<1>11. SentPayload' /\ SentOnce'
  BY <1>1, <1>5 DEF SentPayload, SentOnce
<1>12. SlicesApart'
  BY <1>1 DEF SlicesApart, Disjoint, Support
<1>. QED
  BY <1>6, <1>7, <1>8, <1>9, <1>10, <1>11, <1>12

(* Slices of one list of aggregates share no asset.                        *)
LEMMA SlicesDisjoint ==
  ASSUME NEW payload \in Payload, NEW i \in ChunkIdx, NEW j \in ChunkIdx, i # j
  PROVE  Disjoint(Slice(payload, i), Slice(payload, j))
<1>1. \A x \in Assets : ~(Slice(payload, i)[x] > 0 /\ Slice(payload, j)[x] > 0)
  <2>. SUFFICES ASSUME NEW x \in Assets
                PROVE  Slice(payload, i)[x] = 0 \/ Slice(payload, j)[x] = 0
    OBVIOUS
  <2>. DEFINE pos == Position(x, payload) \div MaxChunk
  <2>1. Slice(payload, i)[x] = IF pos = i THEN payload[x] ELSE 0
    BY DEF Slice
  <2>2. Slice(payload, j)[x] = IF pos = j THEN payload[x] ELSE 0
    BY DEF Slice
  <2>. HIDE DEF pos
  <2>. QED
    BY <2>1, <2>2
<1>. QED
  BY <1>1 DEF Disjoint, Support

(* ensureChunks finds no chunk of the period and cuts them all.            *)
LEMMA EnsureCuts ==
  ASSUME PublicationInv, TypeOK', ReadyToRetry', NEW s \in TickSlots, TickEnsure(s),
         NoChunks(tick[s].period), NothingSent(tick[s].period)
  PROVE  PublicationInv'
<1>. DEFINE k == tick[s]
            p == tick[s].period
<1>. USE DEF tables, chain
<1>0. /\ TypeOK /\ tick \in [TickSlots -> TickLocals] /\ k \in TickLocals
      /\ k.pc = "ensure" /\ p \in Period /\ k.aggregates \in Payload
      /\ chunks \in [Period -> [ChunkIdx -> Chunk]]
  BY DEF PublicationInv, TypeOK, TickShape, TickEnsure, TickLocals
<1>1. NoChunks(p) /\ NothingSent(p) /\ fired[p]
  BY <1>0 DEF PublicationInv, TicksApart
<1>2. /\ UNCHANGED <<fired, txs, rec>>
      /\ \A q \in Period : q # p => chunks'[q] = chunks[q]
      /\ \A t \in Tx : Sent(t)' = Sent(t)
      /\ \A q \in Period : NothingSent(q)' = NothingSent(q)
  BY <1>0 DEF TickEnsure, Sent, NothingSent
<1>3. \A i \in ChunkIdx :
        \/ chunks'[p][i].payload = Slice(k.aggregates, i)
        \/ chunks'[p][i].payload = Empty
  <2>. DEFINE cut(i) == [NoChunk EXCEPT !.status = "PENDING", !.payload = Slice(k.aggregates, i)]
  <2>1. \A i \in ChunkIdx : chunks'[p][i] = cut(i) \/ chunks'[p][i] = NoChunk
    BY <1>0, <1>1 DEF TickEnsure, NoChunks
  <2>2. \A i \in ChunkIdx : cut(i).payload = Slice(k.aggregates, i)
    BY DEF NoChunk
  <2>3. NoChunk.payload = Empty
    BY DEF NoChunk
  <2>. HIDE DEF cut
  <2>. QED
    BY <2>1, <2>2, <2>3
<1>4. /\ \A z \in TickSlots : z # s => tick'[z] = tick[z]
      /\ tick'[s].pc = "find" /\ tick'[s].period = p
  BY <1>0 DEF TickEnsure, SetTick, TickLocals
<1>5. \A z \in TickSlots : z # s /\ tick[z].pc # "idle" => tick[z].period # p /\ tick[z].period \in Period
  BY <1>0 DEF PublicationInv, TicksApart, TypeOK, TickShape
<1>6. \A q \in Period : q # p => NoChunks(q)' = NoChunks(q)
  BY <1>2 DEF NoChunks
<1>. USE DEF PublicationInv
<1>7. TicksApart'
  BY <1>0, <1>2, <1>4 DEF TicksApart
<1>8. UntouchedPeriods'
  BY <1>1, <1>2, <1>6 DEF UntouchedPeriods
<1>9. UntouchedByTick'
  BY <1>0, <1>1, <1>2, <1>4, <1>5, <1>6 DEF UntouchedByTick, BeforeChunks
<1>10. TodoIsUnsent'
  BY <1>2, <1>4 DEF TodoIsUnsent, InLoop, AfterSending, NotSent
<1>11. ChunksInUse'
  <2>1. ASSUME NEW z \in TickSlots, tick'[z].pc \in InLoop
        PROVE  chunks'[tick'[z].period] = chunks[tick[z].period] /\ tick'[z] = tick[z]
    BY <1>2, <1>4, <1>5, <2>1 DEF InLoop, AfterSending
  <2>2. ASSUME NEW r \in RecSlots, NEW w \in rec'[r].snapshot
        PROVE  chunks'[w[1]][w[2]].status # "absent"
    <3>1. w[1] \in Period /\ w[2] \in ChunkIdx /\ chunks[w[1]][w[2]].status # "absent"
      BY <1>0, <1>2 DEF ChunksInUse, TypeOK, RecLocals
    <3>2. w[1] # p
      BY <1>1, <3>1 DEF NoChunks, NoChunk
    <3>. QED
      BY <1>2, <3>1, <3>2
  <2>. QED
    BY <2>1, <2>2 DEF ChunksInUse, InLoop
<1>12. SentPayload' /\ SentOnce'
  BY <1>1, <1>2 DEF SentPayload, SentOnce, NothingSent
<1>13. SlicesApart'
  <2>. SUFFICES ASSUME NEW q \in Period, NEW i \in ChunkIdx, NEW j \in ChunkIdx, i # j
                PROVE  Disjoint(chunks'[q][i].payload, chunks'[q][j].payload)
    BY DEF SlicesApart, Disjoint, Support
  <2>1. CASE q # p
    BY <1>2, <2>1 DEF SlicesApart
  <2>2. CASE q = p
    <3>1. \A f : Disjoint(Empty, f) /\ Disjoint(f, Empty)
      BY DEF Disjoint, Support, Empty
    <3>. QED
      BY <1>0, <1>3, <2>2, <3>1, SlicesDisjoint
  <2>. QED
    BY <2>1, <2>2
<1>. QED
  BY <1>7, <1>8, <1>9, <1>10, <1>11, <1>12, <1>13

\* ensureChunks cuts the chunks of a period once, or finds them.
LEMMA EnsurePublication ==
  ASSUME Paced, PublicationInv, TypeOK', ReadyToRetry', NEW s \in TickSlots, TickEnsure(s)
  PROVE  PublicationInv'
<1>1. CASE NoChunks(tick[s].period) /\ NothingSent(tick[s].period)
  BY <1>1, EnsureCuts
<1>2. CASE ~Aligned /\ chunks' = chunks
  <2>1. TypeOK /\ tick[s] \in TickLocals
    BY DEF PublicationInv, TypeOK
  <2>2. SetTick(s, [tick[s] EXCEPT !.pc = "find"]) /\ tick[s].pc = "ensure"
    BY DEF TickEnsure
  <2>3. tick'[s] = [tick[s] EXCEPT !.pc = "find"]
    BY <2>1, <2>2 DEF TypeOK, SetTick
  <2>4. QuietTick(s)
    BY <1>2, <2>1, <2>2, <2>3 DEF QuietTick, TickLocals, BeforeChunks, InLoop, AfterSending
  <2>. QED
    BY <1>2, <2>1, <2>2, <2>4, Quiet, QuietIfUnchanged, QuietOneTick DEF TickEnsure, chain
<1>. QED
  BY <1>1, <1>2, EnsureSteps

(* findChunks: a hash that went out is in its chunk, so what it returns    *)
(* without hash was never sent.                                            *)
LEMMA FindPublication ==
  ASSUME Paced, PublicationInv, TypeOK', ReadyToRetry', NEW s \in TickSlots, TickFind(s)
  PROVE  PublicationInv'
<1>. DEFINE k == tick[s]
            p == tick[s].period
<1>. USE DEF tables, chain
<1>0. /\ TypeOK /\ tick \in [TickSlots -> TickLocals] /\ k \in TickLocals
      /\ k.pc = "find" /\ p \in Period
  BY DEF PublicationInv, TypeOK, TickShape, TickFind
<1>1. \A i \in NeverSubmitted(p) : NotSent(p, i)
  <2>1. CASE Aligned
    BY <1>0, <2>1 DEF PublicationInv, UntouchedByTick, NothingSent, NotSent
  <2>2. CASE OneAtATime
    <3>1. \A z \in TickSlots : tick[z].pc # "mark"
      BY <1>0, <2>2 DEF OneAtATime
    <3>2. \A t \in Tx : Sent(t) => chunks[txs[t].period][txs[t].chunk].tx # NoTx
      BY <2>2, <3>1 DEF PublicationInv, ReadyToRetry, HashRecorded
    <3>. QED
      BY <3>2 DEF NeverSubmitted, NotSent
  <2>. QED
    BY <2>1, <2>2 DEF Paced
<1>2. /\ UNCHANGED <<fired, chunks, txs, rec>>
      /\ \A t \in Tx : Sent(t)' = Sent(t)
      /\ \A q \in Period : NothingSent(q)' = NothingSent(q) /\ NoChunks(q)' = NoChunks(q)
  BY DEF TickFind, Sent, NothingSent, NoChunks
<1>3. /\ \A z \in TickSlots : z # s => tick'[z] = tick[z]
      /\ \/ tick'[s].pc = "idle"
         \/ /\ tick'[s].pc = "send" /\ tick'[s].period = p
            /\ tick'[s].todo = NeverSubmitted(p)
  BY <1>0 DEF TickFind, SetTick, TickLocals, IdleTick
<1>. USE DEF PublicationInv
<1>4. TicksApart'
  BY <1>0, <1>2, <1>3 DEF TicksApart
<1>5. UntouchedPeriods' /\ SentPayload' /\ SentOnce'
  BY <1>2 DEF UntouchedPeriods, SentPayload, SentOnce
<1>6. \A z \in TickSlots : tick[z].pc # "idle" => tick[z].period \in Period
  BY <1>0 DEF TypeOK, TickShape
<1>7. UntouchedByTick'
  BY <1>2, <1>3, <1>6 DEF UntouchedByTick, BeforeChunks
<1>8. TodoIsUnsent'
  BY <1>1, <1>2, <1>3 DEF TodoIsUnsent, NotSent, InLoop, AfterSending
<1>9. ChunksInUse'
  BY <1>2, <1>3 DEF ChunksInUse, InLoop, AfterSending, NeverSubmitted
<1>10. SlicesApart'
  BY <1>2 DEF SlicesApart, Disjoint, Support
<1>. QED
  BY <1>4, <1>5, <1>7, <1>8, <1>9, <1>10

(* publishBatch: the transaction is the first one of its chunk.            *)
LEMMA SendPublication ==
  ASSUME PublicationInv, TypeOK', ReadyToRetry', NEW s \in TickSlots, NEW i \in ChunkIdx, NEW t \in Tx,
         TickSend(s, i, t) \/ TickSendLost(s, i, t)
  PROVE  PublicationInv'
<1>. DEFINE k == tick[s]
            p == tick[s].period
<1>. USE DEF tables, chain
<1>0. /\ TypeOK /\ tick \in [TickSlots -> TickLocals] /\ k \in TickLocals
      /\ txs \in [Tx -> Transaction]
      /\ k.pc = "send" /\ i \in k.todo /\ p \in Period /\ ~Sent(t)
  BY DEF PublicationInv, TypeOK, TickShape, TickSend, TickSendLost, IsNextChunk, Broadcast,
         IsFresh, Sent
<1>1. /\ UNCHANGED <<fired, chunks, rec>>
      /\ \A u \in Tx : u # t => txs'[u] = txs[u] /\ Sent(u)' = Sent(u)
      /\ txs'[t].period = p /\ txs'[t].chunk = i /\ txs'[t].payload = chunks[p][i].payload
      /\ Sent(t)'
  BY <1>0 DEF TickSend, TickSendLost, Broadcast, Sent
<1>2. /\ \A z \in TickSlots : z # s => tick'[z] = tick[z]
      /\ tick'[s].pc \in {"mark", "fail"} /\ tick'[s].period = p
      /\ tick'[s].current = i /\ tick'[s].todo = k.todo \ {i}
  <2>1. \A pc, h : /\ AfterSend(k, i, pc, h).pc = pc /\ AfterSend(k, i, pc, h).period = p
                   /\ AfterSend(k, i, pc, h).current = i
                   /\ AfterSend(k, i, pc, h).todo = k.todo \ {i}
    BY <1>0 DEF AfterSend, TickLocals
  <2>. QED
    BY <1>0, <2>1 DEF TickSend, TickSendLost, SetTick
<1>3. \A z \in TickSlots : z # s /\ tick[z].pc # "idle" => tick[z].period # p /\ tick[z].period \in Period
  BY <1>0 DEF PublicationInv, TicksApart, TypeOK, TickShape
<1>4. \A q \in Period : NoChunks(q)' = NoChunks(q) /\ (q # p => NothingSent(q)' = NothingSent(q))
  BY <1>0, <1>1 DEF NoChunks, NothingSent
<1>5. fired[p] /\ NotSent(p, i)
  BY <1>0 DEF PublicationInv, TicksApart, TodoIsUnsent, InLoop
<1>. USE DEF PublicationInv
<1>6. TicksApart'
  BY <1>0, <1>1, <1>2 DEF TicksApart
<1>7. UntouchedPeriods'
  BY <1>1, <1>4, <1>5 DEF UntouchedPeriods
<1>8. UntouchedByTick'
  BY <1>2, <1>3, <1>4 DEF UntouchedByTick, BeforeChunks
<1>9. TodoIsUnsent'
  <2>. SUFFICES ASSUME NEW z \in TickSlots, tick'[z].pc \in InLoop, NEW j \in tick'[z].todo
                PROVE  NotSent(tick[z].period, j)'
    BY <1>2 DEF TodoIsUnsent, NotSent
  <2>1. tick[z].pc \in InLoop /\ j \in tick[z].todo /\ NotSent(tick[z].period, j)
    BY <1>0, <1>2 DEF TodoIsUnsent, InLoop
  <2>2. tick'[z].period # p \/ j # i
    BY <1>2, <1>3, <2>1 DEF InLoop, AfterSending
  <2>. QED
    BY <1>1, <1>2, <2>1, <2>2 DEF NotSent
<1>10. ChunksInUse'
  BY <1>0, <1>1, <1>2 DEF ChunksInUse, InLoop, AfterSending
<1>11. SentPayload'
  BY <1>0, <1>1 DEF SentPayload
<1>12. SentOnce'
  BY <1>1, <1>5 DEF SentOnce, NotSent
<1>13. SlicesApart'
  BY <1>1 DEF SlicesApart, Disjoint, Support
<1>. QED
  BY <1>6, <1>7, <1>8, <1>9, <1>10, <1>11, <1>12, <1>13

\* Nothing was sent at first.
LEMMA InitPublication == Init => PublicationInv
<1>. SUFFICES ASSUME Init PROVE PublicationInv
  OBVIOUS
<1>1. TypeOK
  BY InitTypeOK
<1>2. /\ \A s \in TickSlots : tick[s] = IdleTick
      /\ \A r \in RecSlots : rec[r] = IdleRec
      /\ \A p \in Period, i \in ChunkIdx : chunks[p][i] = NoChunk
      /\ \A t \in Tx : ~Sent(t)
  BY DEF Init, Sent, Unsent
<1>3. IdleTick.pc = "idle" /\ IdleRec.snapshot = {} /\ NoChunk.payload = Empty
  BY DEF IdleTick, IdleRec, NoChunk
<1>4. TicksApart /\ UntouchedByTick /\ TodoIsUnsent
  BY <1>2, <1>3 DEF TicksApart, UntouchedByTick, TodoIsUnsent, BeforeChunks, InLoop, AfterSending
<1>5. UntouchedPeriods /\ SentPayload /\ SentOnce
  BY <1>2 DEF UntouchedPeriods, NoChunks, NothingSent, SentPayload, SentOnce
<1>6. ChunksInUse
  BY <1>2, <1>3 DEF ChunksInUse, InLoop, AfterSending
<1>7. SlicesApart
  BY <1>2, <1>3 DEF SlicesApart, Disjoint, Support, Empty
<1>8. ReadyToRetry
  BY <1>2, <1>3 DEF ReadyToRetry, NoChunks
<1>. QED
  BY <1>1, <1>4, <1>5, <1>6, <1>7, <1>8 DEF PublicationInv

\* PublicationInv is inductive.
LEMMA NextPublication ==
  ASSUME Paced, PublicationInv, [Next]_vars
  PROVE  PublicationInv'
<1>. USE DEF tables, chain
<1>0. TypeOK /\ TypeOK' /\ ReadyToRetry'
  BY NextType, RetryStep DEF PublicationInv
<1>1. CASE AdvanceClock
  BY <1>0, <1>1, Quiet, QuietIfUnchanged DEF AdvanceClock
<1>2. CASE Crash
  <2>1. \A s \in TickSlots : QuietTick(s)
    BY <1>2 DEF Crash, QuietTick, IdleTick
  <2>2. \A r \in RecSlots : QuietRec(r)
    BY <1>2 DEF Crash, QuietRec, IdleRec
  <2>. QED
    BY <1>0, <1>2, <2>1, <2>2, Quiet, QuietIfUnchanged DEF Crash
<1>3. ASSUME NEW a \in Assets, NEW p \in Period, RecordView(a, p)
      PROVE  PublicationInv'
  BY <1>0, <1>3, Quiet, QuietIfUnchanged DEF RecordView
<1>4. ASSUME NEW s \in TickSlots, TickStep(s)
      PROVE  PublicationInv'
  BY <1>0, <1>4, QuietTickSteps, EnsurePublication, FindPublication, SendPublication
     DEF TickStep
<1>5. ASSUME NEW t \in Tx, Mine(t) \/ Deepen(t) \/ Revert(t) \/ Drop(t) \/ Reorg(t)
      PROVE  PublicationInv'
  <2>1. UNCHANGED <<fired, chunks, tick, rec>>
    BY <1>5 DEF Mine, Deepen, Revert, Drop, Reorg
  <2>2. QuietTxs
    <3>1. txs \in [Tx -> Transaction] /\ txs[t].state # "unsent"
      BY <1>0, <1>5 DEF TypeOK, Mine, Deepen, Revert, Drop, Reorg
    <3>2. \E state \in {"pool", "mined", "deep", "reverted", "dropped"} :
            txs' = [txs EXCEPT ![t] = [txs[t] EXCEPT !.state = state]]
      BY <1>5 DEF Mine, Deepen, Revert, Drop, Reorg
    <3>. QED
      BY <3>1, <3>2 DEF QuietTxs, Sent, Transaction
  <2>. QED
    BY <1>0, <2>1, <2>2, Quiet, QuietIfUnchanged
<1>6. CASE UNCHANGED vars
  BY <1>0, <1>6, Quiet, QuietIfUnchanged DEF vars
<1>. QED
  BY <1>0, <1>1, <1>2, <1>3, <1>4, <1>5, <1>6, StartPublication, QuietRecStep DEF Next

\* Transactions of different chunks carry disjoint payloads.
LEMMA PublicationIsApart == PublicationInv => NoDoublePublication
<1>. SUFFICES ASSUME PublicationInv, NEW t \in Tx, NEW u \in Tx,
                     t # u, Sent(t), Sent(u), txs[t].period = txs[u].period
              PROVE  Disjoint(txs[t].payload, txs[u].payload)
  BY DEF NoDoublePublication, Sent
<1>1. txs[t].chunk # txs[u].chunk
  BY DEF PublicationInv, SentOnce
<1>. QED
  BY <1>1 DEF PublicationInv, SentPayload, SlicesApart

(***************************************************************************)
(* In either regime no view is sent to the additive counter twice: with an *)
(* aligned cron whatever crashes, lost answers and database errors happen, *)
(* with ticks one at a time however often the cron fires in a period.      *)
(***************************************************************************)
THEOREM PublishedAtMostOnce ==
  ASSUME Paced
  PROVE  Spec => []NoDoublePublication
<1>1. PublicationInv /\ [Next]_vars => PublicationInv'
  BY NextPublication
<1>. QED
  BY <1>1, InitPublication, PublicationIsApart, PTL DEF Spec

-----------------------------------------------------------------------------
(***************************************************************************)
(* SettlementInv is inductive on top of PublicationInv.  A step keeps what *)
(* is settled if it forgets no transaction, replaces no hash, confirms     *)
(* only chunks whose transaction is deep and moves a period past its       *)
(* chunks only when it is settled.                                         *)
(***************************************************************************)
PastChunks == {"mirror", "flag", "check", "compare", "confirm"}

KeepsTxs ==
  \A t \in Tx :
    /\ IsConfirmed(t) => txs'[t].state \in {"deep", "reverted"}
    /\ Sent(t) => /\ txs'[t].state # "unsent"
                  /\ txs'[t].period = txs[t].period
                  /\ txs'[t].chunk = txs[t].chunk
KeepsChunk(p, i) ==
  /\ chunks[p][i].tx # NoTx => chunks'[p][i].tx = chunks[p][i].tx
  /\ chunks'[p][i].tx # chunks[p][i].tx => SentFrom(chunks'[p][i].tx, p, i)
  /\ chunks'[p][i].status = "CONFIRMED" =>
       \/ chunks[p][i].status = "CONFIRMED"
       \/ chunks[p][i].tx \in Tx /\ IsConfirmed(chunks[p][i].tx)
  /\ Settled(p) => (chunks'[p][i].status = "absent" <=> chunks[p][i].status = "absent")
KeepsChunks == \A p \in Period, i \in ChunkIdx : KeepsChunk(p, i)
KeepsHash(s) ==
  tick'[s].pc \in {"mark", "markPeriod"} =>
    \/ SentFrom(tick[s].hash, tick[s].period, tick[s].current)'
    \/ /\ tick[s].pc \in {"mark", "markPeriod"}
       /\ tick'[s].hash = tick[s].hash
       /\ tick'[s].period = tick[s].period
       /\ tick'[s].current = tick[s].current
KeepsRec(r) ==
  /\ \A w \in rec'[r].snapshot :
       w \in rec[r].snapshot \/ chunks[w[1]][w[2]].tx = w[3]
  /\ \A p \in Period :
       rec'[r].fin[p].pc \in PastChunks => rec[r].fin[p].pc \in PastChunks \/ Settled(p)
KeepsBatches ==
  \A p \in Period :
    batches'[p].status = "CONFIRMED" => batches[p].status = "CONFIRMED" \/ Settled(p)

\* A step that keeps what was read of chunks, rows and transactions true.
LEMMA Keeps ==
  ASSUME SettlementInv, PublicationInv', KeepsTxs, KeepsChunks, KeepsBatches,
         \A s \in TickSlots : KeepsHash(s), \A r \in RecSlots : KeepsRec(r)
  PROVE  SettlementInv'
<1>0. /\ TypeOK /\ TypeOK'
      /\ \A p \in Period, i \in ChunkIdx : chunks[p][i].tx \in Tx \cup {NoTx}
                                           /\ chunks'[p][i].tx \in Tx \cup {NoTx}
      /\ \A r \in RecSlots : rec'[r].snapshot \subseteq Period \X ChunkIdx \X Tx
      /\ \A s \in TickSlots : tick[s].pc \in {"mark", "markPeriod"} => tick[s].hash \in Tx
  BY DEF SettlementInv, PublicationInv, TypeOK, Chunk, RecLocals, TickShape, IdleTick
<1>1. \A p \in Period : Settled(p) => Settled(p)'
  <2>. SUFFICES ASSUME NEW p \in Period, Settled(p) PROVE Settled(p)'
    OBVIOUS
  <2>1. \E i \in ChunkIdx : chunks'[p][i].status # "absent"
    BY DEF Settled, KeepsChunks, KeepsChunk
  <2>2. ASSUME NEW i \in ChunkIdx, chunks'[p][i].status # "absent"
        PROVE  /\ chunks'[p][i].tx = chunks[p][i].tx /\ chunks[p][i].tx \in Tx
               /\ IsConfirmed(chunks[p][i].tx)
    BY <2>2, ConstantTypes DEF Settled, KeepsChunks, KeepsChunk, NoTx
  <2>3. ASSUME NEW i \in ChunkIdx, chunks'[p][i].status # "absent"
        PROVE  (chunks[p][i].tx \in Tx /\ IsConfirmed(chunks[p][i].tx))'
    BY <2>2, <2>3 DEF KeepsTxs, IsConfirmed
  <2>. QED
    BY <2>1, <2>3 DEF Settled
<1>2. HashInHand'
  <2>. SUFFICES ASSUME NEW s \in TickSlots, tick'[s].pc \in {"mark", "markPeriod"}
                PROVE  SentFrom(tick[s].hash, tick[s].period, tick[s].current)'
    BY DEF HashInHand
  <2>1. KeepsHash(s)
    OBVIOUS
  <2>2. CASE SentFrom(tick[s].hash, tick[s].period, tick[s].current)'
    BY <2>2
  <2>3. CASE /\ tick[s].pc \in {"mark", "markPeriod"}
             /\ tick'[s].hash = tick[s].hash
             /\ tick'[s].period = tick[s].period
             /\ tick'[s].current = tick[s].current
    <3>1. SentFrom(tick[s].hash, tick[s].period, tick[s].current) /\ tick[s].hash \in Tx
      BY <1>0, <2>3 DEF SettlementInv, HashInHand
    <3>. QED
      BY <2>3, <3>1 DEF KeepsTxs, SentFrom, Sent
  <2>. QED
    BY <2>1, <2>2, <2>3 DEF KeepsHash
<1>3. ChunkHash'
  <2>. SUFFICES ASSUME NEW p \in Period, NEW i \in ChunkIdx, chunks'[p][i].tx # NoTx
                PROVE  SentFrom(chunks[p][i].tx, p, i)'
    BY DEF ChunkHash
  <2>1. SentFrom(chunks'[p][i].tx, p, i)
    BY DEF KeepsChunks, KeepsChunk, SettlementInv, ChunkHash
  <2>2. chunks'[p][i].tx \in Tx
    BY <1>0
  <2>. QED
    BY <2>1, <2>2 DEF KeepsTxs, SentFrom, Sent
<1>4. SnapshotHolds'
  <2>. SUFFICES ASSUME NEW r \in RecSlots, NEW w \in rec'[r].snapshot
                PROVE  chunks'[w[1]][w[2]].tx = w[3]
    BY DEF SnapshotHolds
  <2>1. w[1] \in Period /\ w[2] \in ChunkIdx /\ w[3] \in Tx
    BY <1>0
  <2>2. chunks[w[1]][w[2]].tx = w[3]
    BY DEF KeepsRec, SettlementInv, SnapshotHolds
  <2>. QED
    BY <2>1, <2>2, ConstantTypes DEF KeepsChunks, KeepsChunk, NoTx
<1>5. ConfirmedChunkIsDeep'
  <2>. SUFFICES ASSUME NEW p \in Period, NEW i \in ChunkIdx, chunks'[p][i].status = "CONFIRMED"
                PROVE  (chunks[p][i].tx \in Tx /\ IsConfirmed(chunks[p][i].tx))'
    BY DEF ConfirmedChunkIsDeep, IsConfirmed
  <2>1. chunks[p][i].tx \in Tx /\ IsConfirmed(chunks[p][i].tx)
    BY DEF KeepsChunks, KeepsChunk, SettlementInv, ConfirmedChunkIsDeep
  <2>2. chunks'[p][i].tx = chunks[p][i].tx
    BY <2>1, ConstantTypes DEF KeepsChunks, KeepsChunk, NoTx
  <2>. QED
    BY <2>1, <2>2 DEF KeepsTxs, IsConfirmed
<1>6. FinalizedIsSettled'
  <2>1. ASSUME NEW p \in Period, batches'[p].status = "CONFIRMED"
        PROVE  Settled(p)'
    BY <1>1, <2>1 DEF KeepsBatches, SettlementInv, FinalizedIsSettled
  <2>2. ASSUME NEW p \in Period, NEW r \in RecSlots, rec'[r].fin[p].pc \in PastChunks
        PROVE  Settled(p)'
    BY <1>1, <2>2 DEF KeepsRec, SettlementInv, FinalizedIsSettled, PastChunks
  <2>. QED
    BY <2>1, <2>2 DEF FinalizedIsSettled, PastChunks
<1>. QED
  BY <1>2, <1>3, <1>4, <1>5, <1>6 DEF SettlementInv

\* What is unchanged is kept.
LEMMA KeepsIfUnchanged ==
  /\ txs' = txs => KeepsTxs
  /\ chunks' = chunks => KeepsChunks
  /\ batches' = batches => KeepsBatches
  /\ tick' = tick => \A s \in TickSlots : KeepsHash(s)
  /\ rec' = rec => \A r \in RecSlots : KeepsRec(r)
<1>1. txs' = txs => KeepsTxs
  BY DEF KeepsTxs, IsConfirmed, Sent
<1>2. chunks' = chunks => KeepsChunks
  BY DEF KeepsChunks, KeepsChunk
<1>3. batches' = batches => KeepsBatches
  BY DEF KeepsBatches
<1>4. tick' = tick => \A s \in TickSlots : KeepsHash(s)
  BY DEF KeepsHash
<1>5. rec' = rec => \A r \in RecSlots : KeepsRec(r)
  BY DEF KeepsRec
<1>. QED
  BY <1>1, <1>2, <1>3, <1>4, <1>5

\* Only the tick that moves has a new hash in hand.
LEMMA KeepsOneTick ==
  ASSUME TypeOK, NEW s \in TickSlots, KeepsHash(s), NEW k, SetTick(s, k)
  PROVE  \A z \in TickSlots : KeepsHash(z)
<1>1. \A z \in TickSlots : z # s => tick'[z] = tick[z]
  BY DEF TypeOK, SetTick
<1>. QED
  BY <1>1 DEF KeepsHash

\* Only the chunk that is written may differ.
LEMMA KeepsOneChunk ==
  ASSUME TypeOK, NEW p \in Period, NEW i \in ChunkIdx, NEW c, SetChunk(p, i, c), KeepsChunk(p, i)
  PROVE  KeepsChunks
<1>1. \A q \in Period, j \in ChunkIdx : q # p \/ j # i => chunks'[q][j] = chunks[q][j]
  BY DEF TypeOK, SetChunk
<1>. QED
  BY <1>1 DEF KeepsChunks, KeepsChunk

(* The steps of a tick.                                                    *)
LEMMA KeepsTickStep ==
  ASSUME Paced, SettlementInv, PublicationInv', NEW s \in TickSlots, TickStart(s) \/ TickStep(s)
  PROVE  SettlementInv'
<1>. DEFINE k == tick[s]
            p == tick[s].period
<1>. USE DEF tables, chain
<1>0. /\ TypeOK /\ k \in TickLocals /\ tick \in [TickSlots -> TickLocals] /\ TickShape(k)
      /\ chunks \in [Period -> [ChunkIdx -> Chunk]] /\ PublicationInv
  BY DEF SettlementInv, PublicationInv, TypeOK
<1>a. \A n : SetTick(s, n) => tick'[s] = n
  BY <1>0 DEF SetTick
<1>b. IdleTick.pc = "idle"
  BY DEF IdleTick
<1>c. \A n \in TickLocals : ContinueLoop(n).pc \in {"idle", "send"}
  BY <1>b DEF ContinueLoop, TickLocals
<1>1. ASSUME TickStart(s) \/ TickAggregate(s) \/ TickCreate(s) \/ TickFind(s) \/ TickAbort(s)
      PROVE  SettlementInv'
  <2>1. UNCHANGED <<chunks, txs, rec>> /\ \E n : SetTick(s, n)
    BY <1>1 DEF TickStart, TickAggregate, TickCreate, TickFind, TickAbort
  <2>2. tick'[s].pc \in {"idle", "aggregate", "create", "ensure", "send"}
    BY <1>0, <1>1, <1>a, <1>b DEF TickStart, TickAggregate, TickCreate, TickFind, TickAbort,
                                  TickLocals, IdleTick
  <2>3. KeepsHash(s)
    BY <2>2 DEF KeepsHash
  <2>4. KeepsBatches
    <3>1. CASE TickCreate(s)
      <4>1. p \in Period
        BY <1>0, <3>1 DEF TickCreate, TickShape
      <4>2. \A q \in Period : batches'[q].status = "PENDING" \/ batches'[q] = batches[q]
        BY <1>0, <3>1, <4>1 DEF TickCreate, SetBatch, TypeOK, NoBatch
      <4>. QED
        BY <4>2 DEF KeepsBatches
    <3>2. CASE batches' = batches
      BY <3>2, KeepsIfUnchanged
    <3>. QED
      BY <1>1, <3>1, <3>2 DEF TickStart, TickAggregate, TickFind, TickAbort
  <2>. QED
    BY <1>0, <2>1, <2>3, <2>4, Keeps, KeepsIfUnchanged, KeepsOneTick
<1>2. CASE TickEnsure(s)
  <2>1. p \in Period /\ (NoChunks(p) \/ chunks' = chunks)
    BY <1>0, <1>2, EnsureSteps
  <2>2. \A q \in Period : q # p => chunks'[q] = chunks[q]
    BY <1>0, <1>2 DEF TickEnsure
  <2>3. NoChunks(p) => ~Settled(p)
    BY <2>1 DEF Settled, NoChunks, NoChunk
  <2>4. ASSUME NoChunks(p), NEW i \in ChunkIdx
        PROVE  /\ chunks[p][i].tx = NoTx /\ chunks'[p][i].tx = NoTx
         /\ chunks'[p][i].status # "CONFIRMED"
    <3>. DEFINE cut == [NoChunk EXCEPT !.status = "PENDING", !.payload = Slice(k.aggregates, i)]
    <3>1. chunks'[p][i] = cut \/ chunks'[p][i] = NoChunk
      BY <1>0, <1>2, <2>1, <2>4 DEF TickEnsure, NoChunks
    <3>2. cut.tx = NoTx /\ cut.status = "PENDING"
      BY DEF NoChunk
    <3>3. NoChunk.tx = NoTx /\ NoChunk.status = "absent"
      BY DEF NoChunk
    <3>. HIDE DEF cut
    <3>. QED
      BY <2>4, <3>1, <3>2, <3>3 DEF NoChunks
  <2>5. KeepsChunks
    <3>1. CASE NoChunks(p)
      BY <2>2, <2>3, <2>4, <3>1 DEF KeepsChunks, KeepsChunk
    <3>2. CASE chunks' = chunks
      BY <3>2, KeepsIfUnchanged
    <3>. QED
      BY <2>1, <3>1, <3>2
  <2>6. KeepsHash(s) /\ \E n : SetTick(s, n)
    BY <1>0, <1>2, <1>a DEF TickEnsure, KeepsHash, TickLocals
  <2>. QED
    BY <1>0, <1>2, <2>5, <2>6, Keeps, KeepsIfUnchanged, KeepsOneTick DEF TickEnsure
<1>3. CASE TickMark(s)
  <2>1. /\ p \in Period /\ k.current \in ChunkIdx /\ k.hash \in Tx
        /\ SentFrom(k.hash, p, k.current)
    BY <1>0, <1>3 DEF TickMark, TickShape, SettlementInv, HashInHand
  <2>2. chunks[p][k.current] \in Chunk /\ chunks[p][k.current].status # "absent"
    BY <1>0, <1>3, <2>1 DEF TickMark, PublicationInv, ChunksInUse, AfterSending
  <2>3. chunks[p][k.current].tx # NoTx => chunks[p][k.current].tx = k.hash
    <3>1. chunks[p][k.current].tx # NoTx =>
            chunks[p][k.current].tx \in Tx /\ SentFrom(chunks[p][k.current].tx, p, k.current)
      BY <2>1, <2>2 DEF SettlementInv, ChunkHash, Chunk
    <3>. QED
      BY <1>0, <2>1, <3>1 DEF PublicationInv, SentOnce, SentFrom
  <2>. DEFINE c == [chunks[p][k.current] EXCEPT !.tx = k.hash, !.status = "PENDING"]
  <2>4. c.tx = k.hash /\ c.status = "PENDING"
    BY <2>2 DEF Chunk
  <2>5. chunks'[p][k.current] = c /\ SetChunk(p, k.current, c)
    BY <1>0, <1>3, <2>1 DEF TickMark, SetChunk
  <2>. HIDE DEF c
  <2>6. KeepsChunk(p, k.current)
    BY <2>1, <2>2, <2>3, <2>4, <2>5 DEF KeepsChunk
  <2>7. KeepsChunks
    BY <1>0, <2>1, <2>5, <2>6, KeepsOneChunk
  <2>8. KeepsHash(s) /\ \E n : SetTick(s, n)
    BY <1>0, <1>3, <1>a, <1>c DEF TickMark, KeepsHash, TickLocals
  <2>. QED
    BY <1>0, <1>3, <2>7, <2>8, Keeps, KeepsIfUnchanged, KeepsOneTick DEF TickMark
<1>4. CASE TickMarkPeriod(s)
  <2>1. p \in Period /\ [k EXCEPT !.txSet = TRUE] \in TickLocals
    BY <1>0, <1>4 DEF TickMarkPeriod, TickShape, TickLocals
  <2>2. SetTick(s, ContinueLoop([k EXCEPT !.txSet = TRUE]))
    BY <1>4 DEF TickMarkPeriod
  <2>3. tick'[s].pc \in {"idle", "send"}
    BY <2>1, <2>2, <1>a, <1>c
  <2>4. [batches[p] EXCEPT !.tx = k.hash].status = batches[p].status
    BY <1>0, <2>1 DEF TypeOK, Batch
  <2>5. \A q \in Period : batches'[q].status = batches[q].status
    BY <1>0, <1>4, <2>1, <2>4 DEF TickMarkPeriod, SetBatch, TypeOK
  <2>6. KeepsBatches
    BY <2>5 DEF KeepsBatches
  <2>7. KeepsHash(s)
    BY <2>3 DEF KeepsHash
  <2>. QED
    BY <1>0, <1>4, <2>2, <2>6, <2>7, Keeps, KeepsIfUnchanged, KeepsOneTick DEF TickMarkPeriod
<1>5. CASE TickMarkError(s)
  <2>1. KeepsHash(s) /\ \E n : SetTick(s, n)
    BY <1>0, <1>5, <1>a DEF TickMarkError, KeepsHash, TickLocals
  <2>. QED
    BY <1>0, <1>5, <2>1, Keeps, KeepsIfUnchanged, KeepsOneTick DEF TickMarkError
<1>6. CASE TickFail(s)
  <2>1. p \in Period /\ k.current \in ChunkIdx
    BY <1>0, <1>6 DEF TickFail, TickShape
  <2>2. chunks[p][k.current] \in Chunk /\ chunks[p][k.current].status # "absent"
    BY <1>0, <1>6, <2>1 DEF TickFail, PublicationInv, ChunksInUse, AfterSending
  <2>. DEFINE c == Failed(chunks[p][k.current])
  <2>3. c.tx = chunks[p][k.current].tx /\ c.status = "FAILED"
    BY <2>2 DEF Chunk, Failed
  <2>4. chunks'[p][k.current] = c /\ SetChunk(p, k.current, c)
    BY <1>0, <1>6, <2>1 DEF TickFail, SetChunk
  <2>. HIDE DEF c
  <2>5. KeepsChunk(p, k.current)
    BY <2>2, <2>3, <2>4 DEF KeepsChunk
  <2>6. KeepsChunks
    BY <1>0, <2>1, <2>4, <2>5, KeepsOneChunk
  <2>7. KeepsHash(s) /\ \E n : SetTick(s, n)
    BY <1>0, <1>6, <1>a, <1>c DEF TickFail, KeepsHash
  <2>. QED
    BY <1>0, <1>6, <2>6, <2>7, Keeps, KeepsIfUnchanged, KeepsOneTick DEF TickFail
<1>7. ASSUME NEW i \in ChunkIdx, TickSendRejected(s, i)
      PROVE  SettlementInv'
  <2>1. AfterSend(k, i, "fail", NoTx).pc = "fail"
    BY <1>0 DEF AfterSend, TickLocals
  <2>2. KeepsHash(s) /\ \E n : SetTick(s, n)
    BY <1>7, <1>a, <2>1 DEF TickSendRejected, KeepsHash
  <2>. QED
    BY <1>0, <1>7, <2>2, Keeps, KeepsIfUnchanged, KeepsOneTick DEF TickSendRejected
<1>8. ASSUME NEW i \in ChunkIdx, NEW t \in Tx, TickSend(s, i, t) \/ TickSendLost(s, i, t)
      PROVE  SettlementInv'
  <2>1. /\ ~Sent(t) /\ ~IsConfirmed(t) /\ \A u \in Tx : u # t => txs'[u] = txs[u]
        /\ txs'[t].state = "pool" /\ txs'[t].period = p /\ txs'[t].chunk = i
    BY <1>0, <1>8 DEF TickSend, TickSendLost, Broadcast, IsFresh, Sent, IsConfirmed, TypeOK
  <2>2. KeepsTxs
    BY <2>1 DEF KeepsTxs, Sent, IsConfirmed
  <2>3. \A pc, h : /\ AfterSend(k, i, pc, h).pc = pc /\ AfterSend(k, i, pc, h).period = p
                   /\ AfterSend(k, i, pc, h).current = i /\ AfterSend(k, i, pc, h).hash = h
    BY <1>0 DEF AfterSend, TickLocals
  <2>4. \/ tick'[s].pc = "fail"
        \/ tick'[s].hash = t /\ tick'[s].period = p /\ tick'[s].current = i
    BY <1>8, <1>a, <2>3 DEF TickSend, TickSendLost
  <2>5. KeepsHash(s) /\ \E n : SetTick(s, n)
    BY <1>8, <2>1, <2>4 DEF TickSend, TickSendLost, KeepsHash, SentFrom, Sent
  <2>6. UNCHANGED <<chunks, batches, rec>>
    BY <1>8 DEF TickSend, TickSendLost
  <2>. QED
    BY <1>0, <2>2, <2>5, <2>6, Keeps, KeepsIfUnchanged, KeepsOneTick
<1>. QED
  BY <1>1, <1>2, <1>3, <1>4, <1>5, <1>6, <1>7, <1>8 DEF TickStep

(* The steps of a reconciliation.                                          *)
LEMMA KeepsRecStep ==
  ASSUME SettlementInv, PublicationInv', NEW r \in RecSlots, RecStep(r)
  PROVE  SettlementInv'
<1>. USE DEF tables, chain
<1>0. /\ TypeOK /\ rec \in [RecSlots -> RecLocals] /\ rec[r] \in RecLocals
      /\ chunks \in [Period -> [ChunkIdx -> Chunk]] /\ batches \in [Period -> Batch]
      /\ rec[r].fin \in [Period -> Finalizer]
  BY DEF SettlementInv, PublicationInv, TypeOK, RecLocals
<1>a. ASSUME NEW n, SetRec(r, n),
             \A w \in n.snapshot : w \in rec[r].snapshot \/ chunks[w[1]][w[2]].tx = w[3],
             \A p \in Period :
               n.fin[p].pc \in PastChunks => rec[r].fin[p].pc \in PastChunks \/ Settled(p)
      PROVE  \A z \in RecSlots : KeepsRec(z)
  BY <1>0, <1>a DEF SetRec, KeepsRec
<1>b. ASSUME NEW p \in Period, NEW f, GoTo(r, p, f),
             f.pc \in PastChunks => rec[r].fin[p].pc \in PastChunks \/ Settled(p)
      PROVE  \A z \in RecSlots : KeepsRec(z)
  <2>. DEFINE n == [rec[r] EXCEPT !.fin = [rec[r].fin EXCEPT ![p] = f]]
  <2>1. n.snapshot = rec[r].snapshot /\ n.fin = [rec[r].fin EXCEPT ![p] = f]
    BY <1>0 DEF RecLocals
  <2>2. n.fin[p] = f /\ \A q \in Period : q # p => n.fin[q] = rec[r].fin[q]
    BY <1>0, <2>1
  <2>3. SetRec(r, n)
    BY <1>b DEF GoTo
  <2>. HIDE DEF n
  <2>4. \A q \in Period :
          n.fin[q].pc \in PastChunks => rec[r].fin[q].pc \in PastChunks \/ Settled(q)
    BY <1>b, <2>2
  <2>. QED
    BY <1>a, <2>1, <2>3, <2>4
<1>c. DoneFinalizer.pc \notin PastChunks
  BY DEF DoneFinalizer, PastChunks
<1>d. \A p \in Period : IdleRec.fin[p] = DoneFinalizer
  BY DEF IdleRec
<1>1. CASE RecStart(r)
  <2>. DEFINE n == [IdleRec EXCEPT !.pc = "confirm", !.snapshot = Snapshot]
  <2>1. n.snapshot = Snapshot /\ n.fin = IdleRec.fin
    BY DEF IdleRec
  <2>2. \A w \in Snapshot : chunks[w[1]][w[2]].tx = w[3]
    BY DEF Snapshot
  <2>3. SetRec(r, n)
    BY <1>1 DEF RecStart
  <2>. HIDE DEF n
  <2>4. \A z \in RecSlots : KeepsRec(z)
    BY <1>a, <1>c, <1>d, <2>1, <2>2, <2>3
  <2>. QED
    BY <1>1, <2>4, Keeps, KeepsIfUnchanged DEF RecStart
<1>2. CASE RecPeriods(r)
  <2>. DEFINE fin == [p \in Period |-> IF batches[p].status = "PENDING"
                                       THEN StartFinalizer(p) ELSE DoneFinalizer]
              n == [rec[r] EXCEPT !.pc = "finalize", !.fin = fin]
  <2>1. n.snapshot = rec[r].snapshot /\ n.fin = fin
    BY <1>0 DEF RecLocals
  <2>2. \A p \in Period : StartFinalizer(p).pc = "chunks"
    BY DEF StartFinalizer, DoneFinalizer
  <2>3. \A p \in Period : fin[p].pc \notin PastChunks
    BY <1>c, <2>2 DEF PastChunks
  <2>4. SetRec(r, n)
    BY <1>2 DEF RecPeriods
  <2>. HIDE DEF n, fin
  <2>5. \A z \in RecSlots : KeepsRec(z)
    BY <1>a, <2>1, <2>3, <2>4
  <2>. QED
    BY <1>2, <2>5, Keeps, KeepsIfUnchanged DEF RecPeriods
<1>3. CASE RecAbort(r) \/ RecEnd(r)
  <2>1. IdleRec.snapshot = {}
    BY DEF IdleRec
  <2>. QED
    BY <1>3, <1>a, <1>c, <1>d, <2>1, Keeps, KeepsIfUnchanged DEF RecAbort, RecEnd
<1>4. ASSUME NEW w \in rec[r].snapshot, RecConfirmChunk(r, w) \/ RecSkipChunk(r, w)
      PROVE  SettlementInv'
  <2>1. \A z \in RecSlots : KeepsRec(z)
    <3>. DEFINE n == [rec[r] EXCEPT !.snapshot = @ \ {w}]
    <3>1. n.snapshot \subseteq rec[r].snapshot /\ n.fin = rec[r].fin
      BY <1>0 DEF RecLocals
    <3>2. SetRec(r, n)
      BY <1>4 DEF RecConfirmChunk, RecSkipChunk
    <3>. HIDE DEF n
    <3>. QED
      BY <1>a, <3>1, <3>2
  <2>2. CASE RecConfirmChunk(r, w)
    <3>1. w[1] \in Period /\ w[2] \in ChunkIdx /\ w[3] \in Tx
      BY <1>0 DEF RecLocals
    <3>2. /\ chunks[w[1]][w[2]] \in Chunk /\ chunks[w[1]][w[2]].status # "absent"
          /\ chunks[w[1]][w[2]].tx = w[3] /\ IsConfirmed(w[3])
      BY <1>0, <2>2, <3>1 DEF SettlementInv, PublicationInv, ChunksInUse, SnapshotHolds,
                             RecConfirmChunk
    <3>. DEFINE c == [chunks[w[1]][w[2]] EXCEPT !.status = "CONFIRMED"]
    <3>3. c.tx = chunks[w[1]][w[2]].tx /\ c.status = "CONFIRMED"
      BY <3>2 DEF Chunk
    <3>4. chunks'[w[1]][w[2]] = c /\ SetChunk(w[1], w[2], c)
      BY <1>0, <2>2, <3>1 DEF RecConfirmChunk, SetChunk
    <3>. HIDE DEF c
    <3>5. KeepsChunk(w[1], w[2])
      BY <3>1, <3>2, <3>3, <3>4 DEF KeepsChunk
    <3>6. KeepsChunks
      BY <1>0, <3>1, <3>4, <3>5, KeepsOneChunk
    <3>. QED
      BY <2>1, <2>2, <3>6, Keeps, KeepsIfUnchanged DEF RecConfirmChunk
  <2>3. CASE RecSkipChunk(r, w)
    BY <2>1, <2>3, Keeps, KeepsIfUnchanged DEF RecSkipChunk
  <2>. QED
    BY <1>4, <2>2, <2>3
<1>5. ASSUME NEW p \in Period, FinChunks(r, p)
      PROVE  SettlementInv'
  <2>1. AllConfirmed(p) => Settled(p)
    BY <1>5 DEF AllConfirmed, Settled, SettlementInv, ConfirmedChunkIsDeep
  <2>2. \A z \in RecSlots : KeepsRec(z)
    BY <1>5, <1>b, <1>c, <2>1 DEF FinChunks
  <2>. QED
    BY <1>5, <2>2, Keeps, KeepsIfUnchanged DEF FinChunks
<1>6. ASSUME NEW p \in Period, FinFlag(r, p) \/ FinConfirm(r, p)
      PROVE  SettlementInv'
  <2>1. Settled(p)
    BY <1>6 DEF FinFlag, FinConfirm, InPhase, SettlementInv, FinalizedIsSettled
  <2>2. \E f : GoTo(r, p, f)
    BY <1>6 DEF FinFlag, FinConfirm
  <2>3. \A z \in RecSlots : KeepsRec(z)
    BY <1>b, <2>1, <2>2
  <2>4. \A q \in Period : q # p => batches'[q] = batches[q]
    BY <1>0, <1>6 DEF FinFlag, FinConfirm, SetBatch
  <2>5. KeepsBatches
    BY <2>1, <2>4 DEF KeepsBatches
  <2>6. UNCHANGED <<chunks, txs, tick>>
    BY <1>6 DEF FinFlag, FinConfirm
  <2>. QED
    BY <2>3, <2>5, <2>6, Keeps, KeepsIfUnchanged
<1>7. ASSUME NEW p \in Period, FinAnchor(r, p) \/ FinAbort(r, p)
      PROVE  SettlementInv'
  <2>1. \A z \in RecSlots : KeepsRec(z)
    BY <1>7, <1>b, <1>c DEF FinAnchor, FinAbort
  <2>2. UNCHANGED <<chunks, txs, tick, batches>>
    BY <1>7 DEF FinAnchor, FinAbort
  <2>. QED
    BY <2>1, <2>2, Keeps, KeepsIfUnchanged
<1>8. ASSUME NEW p \in Period, NEW a \in Assets,
             FinMirror(r, p, a) \/ FinReadChain(r, p, a) \/ FinCompare(r, p, a)
      PROVE  SettlementInv'
  <2>1. rec[r].fin[p].pc \in PastChunks
    BY <1>8 DEF FinMirror, FinReadChain, FinCompare, InPhase, PastChunks
  <2>2. \E f : GoTo(r, p, f)
    BY <1>8 DEF FinMirror, FinReadChain, FinCompare
  <2>3. \A z \in RecSlots : KeepsRec(z)
    BY <1>b, <2>1, <2>2
  <2>4. UNCHANGED <<chunks, txs, tick, batches>>
    BY <1>8 DEF FinMirror, FinReadChain, FinCompare
  <2>. QED
    BY <2>3, <2>4, Keeps, KeepsIfUnchanged
<1>. QED
  BY <1>1, <1>2, <1>3, <1>4, <1>5, <1>6, <1>7, <1>8 DEF RecStep

\* No hash is in hand at first.
LEMMA InitSettlement == Init => SettlementInv
<1>. SUFFICES ASSUME Init PROVE SettlementInv
  OBVIOUS
<1>1. /\ \A s \in TickSlots : tick[s].pc = "idle"
      /\ \A r \in RecSlots : /\ rec[r].snapshot = {}
                             /\ \A p \in Period : rec[r].fin[p].pc = "done"
      /\ \A p \in Period, i \in ChunkIdx :
           chunks[p][i].tx = NoTx /\ chunks[p][i].status = "absent"
      /\ \A p \in Period : batches[p].status = "absent"
  BY DEF Init, IdleTick, IdleRec, DoneFinalizer, NoChunk, NoBatch
<1>. QED
  BY <1>1, InitPublication DEF SettlementInv, HashInHand, ChunkHash, SnapshotHolds,
                              ConfirmedChunkIsDeep, FinalizedIsSettled

\* SettlementInv is inductive.
LEMMA NextSettlement ==
  ASSUME Paced, SettlementInv, [Next]_vars
  PROVE  SettlementInv'
<1>. USE DEF tables, chain
<1>0. PublicationInv' /\ TypeOK
  BY NextPublication DEF SettlementInv, PublicationInv
<1>1. CASE AdvanceClock
  BY <1>0, <1>1, Keeps, KeepsIfUnchanged DEF AdvanceClock
<1>2. CASE Crash
  <2>1. \A s \in TickSlots : KeepsHash(s)
    BY <1>2 DEF Crash, KeepsHash, IdleTick
  <2>2. \A r \in RecSlots : KeepsRec(r)
    BY <1>2 DEF Crash, KeepsRec, IdleRec, DoneFinalizer, PastChunks
  <2>. QED
    BY <1>0, <1>2, <2>1, <2>2, Keeps, KeepsIfUnchanged DEF Crash
<1>3. ASSUME NEW a \in Assets, NEW p \in Period, RecordView(a, p)
      PROVE  SettlementInv'
  BY <1>0, <1>3, Keeps, KeepsIfUnchanged DEF RecordView
<1>4. ASSUME NEW t \in Tx, Mine(t) \/ Deepen(t) \/ Revert(t) \/ Drop(t) \/ Reorg(t)
      PROVE  SettlementInv'
  <2>1. UNCHANGED <<batches, chunks, tick, rec>>
    BY <1>4 DEF Mine, Deepen, Revert, Drop, Reorg
  <2>2. KeepsTxs
    <3>1. txs \in [Tx -> Transaction] /\ txs[t].state \in {"pool", "mined"}
      BY <1>0, <1>4 DEF TypeOK, Mine, Deepen, Revert, Drop, Reorg
    <3>2. \E state \in {"pool", "mined", "deep", "reverted", "dropped"} :
            txs' = [txs EXCEPT ![t] = [txs[t] EXCEPT !.state = state]]
      BY <1>4 DEF Mine, Deepen, Revert, Drop, Reorg
    <3>. QED
      BY <3>1, <3>2 DEF KeepsTxs, IsConfirmed, Sent, Transaction
  <2>. QED
    BY <1>0, <2>1, <2>2, Keeps, KeepsIfUnchanged
<1>5. CASE UNCHANGED vars
  BY <1>0, <1>5, Keeps, KeepsIfUnchanged DEF vars
<1>. QED
  BY <1>0, <1>1, <1>2, <1>3, <1>4, <1>5, KeepsTickStep, KeepsRecStep DEF Next

\* A CONFIRMED period was settled by its finaliser.
LEMMA SettlementIsSettled == SettlementInv => ConfirmedPeriodIsSettled
<1>. SUFFICES ASSUME SettlementInv, NEW p \in Period, batches[p].status = "CONFIRMED"
              PROVE  /\ \E i \in ChunkIdx : chunks[p][i].status # "absent"
                     /\ \A i \in ChunkIdx : chunks[p][i].status # "absent" =>
                          /\ chunks[p][i].tx \in Tx
                          /\ IsConfirmed(chunks[p][i].tx)
                          /\ txs[chunks[p][i].tx].payload = chunks[p][i].payload
  BY DEF ConfirmedPeriodIsSettled
<1>1. Settled(p)
  BY DEF SettlementInv, FinalizedIsSettled
<1>2. ASSUME NEW i \in ChunkIdx, chunks[p][i].tx \in Tx
      PROVE  txs[chunks[p][i].tx].payload = chunks[p][i].payload
  <2>1. SentFrom(chunks[p][i].tx, p, i)
    BY <1>2, ConstantTypes DEF SettlementInv, ChunkHash, NoTx
  <2>. QED
    BY <1>2, <2>1 DEF SettlementInv, PublicationInv, SentPayload, SentFrom
<1>. QED
  BY <1>1, <1>2 DEF Settled

(***************************************************************************)
(* In either regime, what ticks and reconciliations hold in hand stays     *)
(* true of rows and transactions: hashes, the list of pending chunks, and  *)
(* what a finaliser relies on.                                             *)
(***************************************************************************)
THEOREM SettlementInvariant ==
  ASSUME Paced
  PROVE  Spec => []SettlementInv
<1>1. SettlementInv /\ [Next]_vars => SettlementInv'
  BY NextSettlement
<1>. QED
  BY <1>1, InitSettlement, PTL DEF Spec

(***************************************************************************)
(* In either regime a CONFIRMED period has all its chunks on a deep        *)
(* transaction of their own, whatever reconciliations overlap.             *)
(***************************************************************************)
THEOREM ConfirmedOnlyWhenSettled ==
  ASSUME Paced
  PROVE  Spec => []ConfirmedPeriodIsSettled
  BY SettlementInvariant, SettlementIsSettled, PTL

-----------------------------------------------------------------------------
(* What never goes back: the hash of a chunk, and the status CONFIRMED of  *)
(* chunks and periods.                                                     *)

(***************************************************************************)
(* The hash of a chunk belongs to the one transaction of that chunk, and   *)
(* what a transaction carries never changes: so if no step clears a hash   *)
(* or forgets a transaction, none replaces a hash or a payload.            *)
(***************************************************************************)
LEMMA SubmittedChunkStep ==
  ASSUME Paced, SettlementInv, SettlementInv', [Next]_vars, NEW p \in Period, NEW i \in ChunkIdx,
         chunks[p][i].tx # NoTx
  PROVE  chunks'[p][i].tx = chunks[p][i].tx /\ chunks'[p][i].payload = chunks[p][i].payload
<1>0. PublicationInv /\ TypeOK /\ SentOnce' /\ SentPayload /\ SentPayload'
  BY DEF SettlementInv, PublicationInv
<1>1. PICK t \in Tx, u \in Tx : t = chunks[p][i].tx /\ u = chunks'[p][i].tx
  <2>1. chunks[p][i].tx \in Tx \cup {NoTx} /\ chunks'[p][i].tx \in Tx \cup {NoTx}
    BY DEF SettlementInv, PublicationInv, TypeOK, Chunk
  <2>. QED
    BY <1>0, <2>1, HashStays
<1>2. SentFrom(t, p, i)
  BY <1>1 DEF SettlementInv, ChunkHash
<1>3. SentFrom(u, p, i)'
  BY <1>0, <1>1, HashStays DEF SettlementInv, ChunkHash
<1>4. SentFrom(t, p, i)' /\ txs'[t].payload = txs[t].payload
  BY <1>0, <1>2, SentStaysSent DEF SentFrom
<1>5. t = u
  BY <1>0, <1>3, <1>4 DEF SentOnce, SentFrom
<1>6. txs[t].payload = chunks[p][i].payload
  BY <1>0, <1>2 DEF SentPayload, SentFrom
<1>7. txs'[t].payload = chunks'[p][i].payload
  BY <1>0, <1>4 DEF SentPayload, SentFrom
<1>. QED
  BY <1>1, <1>4, <1>5, <1>6, <1>7

(***************************************************************************)
(* In either regime the unconditional updates of batch.repository.ts       *)
(* never replace the hash of a submitted chunk, nor its payload: its       *)
(* transaction can always be found again.                                  *)
(***************************************************************************)
THEOREM SubmittedChunksAreFrozen ==
  ASSUME Paced
  PROVE  Spec => SubmittedChunkIsFrozen
<1>1. SettlementInv /\ SettlementInv' /\ [Next]_vars =>
        [\A p \in Period, i \in ChunkIdx : chunks[p][i].tx # NoTx =>
           /\ chunks'[p][i].tx = chunks[p][i].tx
           /\ chunks'[p][i].payload = chunks[p][i].payload]_vars
  BY SubmittedChunkStep
<1>. QED
  BY <1>1, SettlementInvariant, PTL DEF Spec, SubmittedChunkIsFrozen

-----------------------------------------------------------------------------
(* A step leaves alone what is CONFIRMED.                                  *)
LEMMA ConfirmedChunkStep ==
  ASSUME Paced, SettlementInv, OverwritesUnsubmitted, [Next]_vars,
         NEW p \in Period, NEW i \in ChunkIdx, chunks[p][i].status = "CONFIRMED"
  PROVE  chunks'[p][i].status = "CONFIRMED"
<1>1. /\ PublicationInv /\ chunks[p][i] \in Chunk
      /\ chunks[p][i].tx # NoTx
  BY ConstantTypes DEF SettlementInv, PublicationInv, TypeOK, ConfirmedChunkIsDeep, NoTx
<1>2. CASE ChunkKept(p, i)
  BY <1>2 DEF ChunkKept
<1>3. CASE ChunkFilled(p, i)
  BY <1>3 DEF ChunkFilled, NoChunks, NoChunk
<1>4. CASE ChunkMarked(p, i) \/ ChunkFailed(p, i)
  BY <1>1, <1>4 DEF ChunkMarked, ChunkFailed, OverwritesUnsubmitted
<1>5. CASE ChunkConfirmed(p, i)
  BY <1>1, <1>5 DEF ChunkConfirmed, Chunk
<1>. QED
  BY <1>1, <1>2, <1>3, <1>4, <1>5, ChunkSteps

\* Who writes the row of a period.
LEMMA BatchWriters ==
  ASSUME [Next]_vars
  PROVE  \/ UNCHANGED batches
         \/ \E s \in TickSlots : TickCreate(s) \/ TickMarkPeriod(s)
         \/ \E r \in RecSlots, q \in Period : FinFlag(r, q) \/ FinConfirm(r, q)
<1>1. ASSUME NEW s \in TickSlots, TickStart(s) \/ TickStep(s)
      PROVE  UNCHANGED batches \/ TickCreate(s) \/ TickMarkPeriod(s)
  BY <1>1 DEF TickStep, TickStart, TickAggregate, TickEnsure, TickFind, TickMark, TickMarkError,
       TickFail, TickAbort, TickSendRejected, TickSend, TickSendLost, tables
<1>2. ASSUME NEW r \in RecSlots, RecStep(r)
      PROVE  UNCHANGED batches \/ \E q \in Period : FinFlag(r, q) \/ FinConfirm(r, q)
  BY <1>2 DEF RecStep, RecStart, RecConfirmChunk, RecSkipChunk, RecPeriods, RecAbort, RecEnd,
       FinChunks, FinMirror, FinReadChain, FinCompare, FinAnchor, FinAbort, tables
<1>. QED
  BY <1>1, <1>2
  DEF Next, AdvanceClock, RecordView, Mine, Deepen, Revert, Drop, Reorg, Crash, tables, vars

\* No UPDATE of a row takes the status CONFIRMED away.
LEMMA ConfirmedBatchStep ==
  ASSUME TypeOK, [Next]_vars, NEW p \in Period, batches[p].status = "CONFIRMED"
  PROVE  batches'[p].status = "CONFIRMED"
<1>t. /\ batches \in [Period -> Batch]
      /\ \A s \in TickSlots : TickShape(tick[s])
  BY DEF TypeOK
<1>1. ASSUME NEW s \in TickSlots, TickCreate(s) \/ TickMarkPeriod(s)
      PROVE  batches'[p].status = "CONFIRMED"
  <2>1. tick[s].period \in Period
    BY <1>t, <1>1 DEF TickCreate, TickMarkPeriod, TickShape, IdleTick
  <2>2. CASE TickCreate(s)
    BY <1>t, <2>1, <2>2 DEF TickCreate, SetBatch
  <2>3. CASE TickMarkPeriod(s)
    BY <1>t, <2>1, <2>3 DEF TickMarkPeriod, SetBatch, Batch
  <2>. QED
    BY <1>1, <2>2, <2>3
<1>2. ASSUME NEW r \in RecSlots, NEW q \in Period, FinFlag(r, q) \/ FinConfirm(r, q)
      PROVE  batches'[p].status = "CONFIRMED"
  BY <1>t, <1>2 DEF FinFlag, FinConfirm, SetBatch, Batch
<1>. QED
  BY <1>1, <1>2, BatchWriters

(* Who comes to overwrite a chunk has just taken it off its list.          *)
LEMMA ComesToOverwrite ==
  ASSUME TypeOK, "dbError" \notin Env, [Next]_vars,
         NEW s \in TickSlots, tick'[s].pc \in {"mark", "fail"}
  PROVE  \/ tick'[s] = tick[s]
         \/ /\ UNCHANGED chunks
            /\ tick[s].pc = "send" /\ tick'[s].period = tick[s].period
            /\ tick'[s].current \in tick[s].todo
<1>t. tick \in [TickSlots -> TickLocals]
  BY DEF TypeOK
<1>1. ASSUME NEW i \in ChunkIdx, NEW t,
             TickSend(s, i, t) \/ TickSendLost(s, i, t) \/ TickSendRejected(s, i)
      PROVE  /\ UNCHANGED chunks
             /\ tick[s].pc = "send" /\ tick'[s].period = tick[s].period
             /\ tick'[s].current \in tick[s].todo
  <2>1. UNCHANGED chunks /\ tick[s].pc = "send" /\ i \in tick[s].todo
    BY <1>1 DEF TickSend, TickSendLost, TickSendRejected, IsNextChunk, tables
  <2>2. \E pc \in {"mark", "fail"} : \E u :
          SetTick(s, AfterSend(tick[s], i, pc, u))
    BY <1>1 DEF TickSend, TickSendLost, TickSendRejected
  <2>3. tick'[s].period = tick[s].period /\ tick'[s].current = i
    BY <1>t, <2>2 DEF SetTick, AfterSend, TickLocals
  <2>. QED
    BY <2>1, <2>3
<1>2. ASSUME NEW z \in TickSlots, TickStart(z) \/ TickStep(z), z # s
      PROVE  tick'[s] = tick[s]
  <2>1. \E k : SetTick(z, k)
    BY <1>2 DEF TickStep, TickStart, TickAggregate, TickCreate, TickEnsure, TickFind, TickMark,
         TickMarkPeriod, TickMarkError, TickFail, TickAbort, TickSendRejected, TickSend, TickSendLost
  <2>. QED
    BY <1>2, <2>1 DEF SetTick
<1>3. ASSUME TickStart(s)
      PROVE  FALSE
  BY <1>t, <1>3 DEF TickStart, SetTick, IdleTick
<1>4. ASSUME TickStep(s)
      PROVE  \E i \in ChunkIdx : \/ TickSendRejected(s, i)
                                 \/ \E t \in Tx : TickSend(s, i, t) \/ TickSendLost(s, i, t)
  <2>1. \A k : ContinueLoop(k).pc \notin {"mark", "fail"} \/ k \notin TickLocals
    BY DEF ContinueLoop, IdleTick, TickLocals
  <2>2. tick[s] \in TickLocals
    BY <1>t
  <2>3. [tick[s] EXCEPT !.txSet = TRUE] \in TickLocals
    BY <2>2 DEF TickLocals
  <2>4. ~(TickAggregate(s) \/ TickCreate(s) \/ TickEnsure(s) \/ TickFind(s) \/ TickAbort(s))
    <3>1. \A pc, v : /\ [tick[s] EXCEPT !.pc = pc].pc = pc
                     /\ [tick[s] EXCEPT !.pc = pc, !.aggregates = v].pc = pc
                     /\ [tick[s] EXCEPT !.pc = pc, !.todo = v].pc = pc
      BY <2>2 DEF TickLocals
    <3>2. \A k : SetTick(s, k) => k.pc \in {"mark", "fail"}
      BY <1>t DEF SetTick
    <3>. DEFINE e == [tick[s] EXCEPT !.pc = IF tick[s].exists THEN "ensure" ELSE "create",
                                     !.aggregates = views[tick[s].period]]
                c == [tick[s] EXCEPT !.pc = "ensure"]
                f == [tick[s] EXCEPT !.pc = "find"]
                n == [tick[s] EXCEPT !.pc = "send", !.todo = NeverSubmitted(tick[s].period)]
    <3>3. /\ e.pc \in {"ensure", "create"} /\ c.pc = "ensure" /\ f.pc = "find" /\ n.pc = "send"
          /\ IdleTick.pc = "idle"
      BY <3>1 DEF IdleTick
    <3>4. /\ TickAggregate(s) => SetTick(s, IdleTick) \/ SetTick(s, e)
          /\ TickCreate(s) => SetTick(s, c) \/ SetTick(s, IdleTick)
          /\ TickEnsure(s) => SetTick(s, f)
          /\ TickFind(s) => SetTick(s, IdleTick) \/ SetTick(s, n)
      BY DEF TickAggregate, TickCreate, TickEnsure, TickFind
    <3>. HIDE DEF e, c, f, n
    <3>5. ~(TickAggregate(s) \/ TickCreate(s) \/ TickEnsure(s) \/ TickFind(s))
      BY <3>2, <3>3, <3>4
    <3>6. ~TickAbort(s)
      BY DEF TickAbort
    <3>. QED
      BY <3>5, <3>6
  <2>5. ~(TickMark(s) \/ TickFail(s))
    BY <1>t, <2>1, <2>2 DEF TickMark, TickFail, SetTick, TickLocals
  <2>6. ~TickMarkPeriod(s)
    BY <1>t, <2>1, <2>3 DEF TickMarkPeriod, SetTick
  <2>7. ~TickMarkError(s)
    BY DEF TickMarkError
  <2>. QED
    BY <1>4, <2>4, <2>5, <2>6, <2>7 DEF TickStep
<1>5. CASE UNCHANGED tick
  BY <1>5
<1>6. CASE Crash
  BY <1>6 DEF Crash, IdleTick
<1>7. ASSUME NEW r \in RecSlots, RecStep(r)
      PROVE  UNCHANGED tick
  BY <1>7 DEF RecStep, RecStart, RecConfirmChunk, RecSkipChunk, RecPeriods, RecAbort, RecEnd,
       FinChunks, FinMirror, FinFlag, FinReadChain, FinCompare, FinConfirm, FinAnchor, FinAbort
<1>. QED
  BY <1>1, <1>2, <1>3, <1>4, <1>5, <1>6, <1>7
  DEF Next, AdvanceClock, RecordView, Mine, Deepen, Revert, Drop, Reorg, vars

\* What markChunkSubmitted and markChunkFailed are about to overwrite has no hash.
LEMMA OverwritesStep ==
  ASSUME Paced, FinalityInv, SettlementInv', "dbError" \notin Env, [Next]_vars
  PROVE  OverwritesUnsubmitted'
<1>. SUFFICES ASSUME NEW s \in TickSlots, tick'[s].pc \in {"mark", "fail"}
              PROVE  chunks'[tick'[s].period][tick'[s].current].tx = NoTx
  BY DEF OverwritesUnsubmitted
<1>0. SettlementInv /\ PublicationInv /\ TypeOK
  BY DEF FinalityInv, SettlementInv, PublicationInv
<1>1. CASE tick'[s] = tick[s]
  <2>0. TickShape(tick[s]) /\ tick[s].pc \in {"mark", "fail"}
    BY <1>0, <1>1 DEF TypeOK
  <2>1. PICK p \in Period, i \in ChunkIdx : tick[s].period = p /\ tick[s].current = i
    BY <2>0 DEF TickShape, IdleTick
  <2>2. chunks[p][i].tx = NoTx /\ chunks[p][i] \in Chunk
    BY <1>0, <2>0, <2>1 DEF FinalityInv, OverwritesUnsubmitted, TypeOK
  <2>3. ~ChunkMarked(p, i)
    BY <1>0, <1>1, <2>0, <2>1 DEF ChunkMarked, PublicationInv, TicksApart
  <2>4. chunks'[p][i].tx = NoTx
    <3>1. CASE ChunkKept(p, i) \/ ChunkFilled(p, i)
      BY <2>2, <3>1 DEF ChunkKept, ChunkFilled
    <3>2. CASE ChunkFailed(p, i)
      BY <2>2, <3>2 DEF ChunkFailed, Chunk
    <3>3. CASE ChunkConfirmed(p, i)
      BY <2>2, <3>3 DEF ChunkConfirmed, Chunk
    <3>. QED
      BY <1>0, <2>3, <3>1, <3>2, <3>3, ChunkSteps
  <2>. QED
    BY <1>1, <2>1, <2>4
<1>2. CASE /\ UNCHANGED chunks
           /\ tick[s].pc = "send" /\ tick'[s].period = tick[s].period
           /\ tick'[s].current \in tick[s].todo
  <2>1. PICK p \in Period, i \in ChunkIdx : tick[s].period = p /\ tick'[s].current = i /\ i \in tick[s].todo
    BY <1>0, <1>2 DEF TypeOK, TickShape, IdleTick, TickLocals
  <2>2. NotSent(p, i)
    BY <1>0, <1>2, <2>1 DEF PublicationInv, TodoIsUnsent, InLoop
  <2>3. chunks[p][i].tx \in Tx \cup {NoTx}
    BY <1>0 DEF TypeOK, Chunk
  <2>4. chunks[p][i].tx = NoTx
    BY <1>0, <2>2, <2>3 DEF SettlementInv, ChunkHash, SentFrom, NotSent
  <2>. QED
    BY <1>2, <2>1, <2>4
<1>. QED
  BY <1>0, <1>1, <1>2, ComesToOverwrite

(* A complete period stays complete.                                       *)
LEMMA CompleteStep ==
  ASSUME Paced, FinalityInv, [Next]_vars, NEW p \in Period, AllConfirmed(p)
  PROVE  AllConfirmed(p)'
<1>0. SettlementInv /\ PublicationInv /\ TypeOK /\ OverwritesUnsubmitted
  BY DEF FinalityInv, SettlementInv, PublicationInv
<1>1. PICK j \in ChunkIdx : chunks[p][j].status = "CONFIRMED"
  BY DEF AllConfirmed
<1>2. chunks'[p][j].status = "CONFIRMED"
  BY <1>0, <1>1, ConfirmedChunkStep
<1>3. ASSUME NEW i \in ChunkIdx
      PROVE  chunks'[p][i].status \in {"absent", "CONFIRMED"}
  <2>1. CASE chunks[p][i].status = "CONFIRMED"
    BY <1>0, <2>1, ConfirmedChunkStep
  <2>2. CASE chunks[p][i].status = "absent"
    <3>1. ~ChunkFilled(p, i)
      BY <1>1 DEF ChunkFilled, NoChunks, NoChunk
    <3>2. ~ChunkMarked(p, i) /\ ~ChunkFailed(p, i)
      BY <1>0, <2>2 DEF ChunkMarked, ChunkFailed, PublicationInv, ChunksInUse, AfterSending
    <3>3. CASE ChunkKept(p, i)
      BY <2>2, <3>3 DEF ChunkKept
    <3>4. CASE ChunkConfirmed(p, i)
      BY <1>0, <3>4 DEF ChunkConfirmed, TypeOK, Chunk
    <3>. QED
      BY <1>0, <3>1, <3>2, <3>3, <3>4, ChunkSteps
  <2>. QED
    BY <2>1, <2>2 DEF AllConfirmed
<1>. QED
  BY <1>2, <1>3 DEF AllConfirmed

\* A finaliser passes the check of the chunks when all are CONFIRMED.
LEMMA FinalizerMoves ==
  ASSUME TypeOK, NEW r \in RecSlots, RecStep(r), NEW z \in RecSlots, NEW p \in Period,
         rec'[z].fin[p].pc \in PastChunks
  PROVE  rec[z].fin[p].pc \in PastChunks \/ AllConfirmed(p)
<1>0. rec \in [RecSlots -> RecLocals] /\ rec[r].fin \in [Period -> Finalizer]
  BY DEF TypeOK, RecLocals
<1>1. CASE z # r
  <2>1. \E n : SetRec(r, n)
    BY DEF RecStep, RecStart, RecConfirmChunk, RecSkipChunk, RecPeriods, RecAbort, RecEnd,
           FinChunks, FinMirror, FinFlag, FinReadChain, FinCompare, FinConfirm, FinAnchor,
           FinAbort, GoTo
  <2>. QED
    BY <1>1, <2>1 DEF SetRec
<1>a. DoneFinalizer.pc \notin PastChunks
  BY DEF DoneFinalizer, PastChunks
<1>2. CASE z = r /\ (RecStart(r) \/ RecAbort(r) \/ RecEnd(r))
  <2>1. rec'[r].fin = IdleRec.fin
    BY <1>0, <1>2 DEF RecStart, RecAbort, RecEnd, SetRec, IdleRec
  <2>. QED
    BY <1>2, <1>a, <2>1 DEF IdleRec
<1>3. CASE z = r /\ RecPeriods(r)
  <2>1. rec'[r].fin = [q \in Period |-> IF batches[q].status = "PENDING"
                                        THEN StartFinalizer(q) ELSE DoneFinalizer]
    BY <1>0, <1>3 DEF RecPeriods, SetRec, RecLocals
  <2>2. StartFinalizer(p).pc = "chunks"
    BY DEF StartFinalizer, DoneFinalizer
  <2>. QED
    BY <1>3, <1>a, <2>1, <2>2 DEF PastChunks
<1>4. CASE z = r /\ \E w \in rec[r].snapshot : RecConfirmChunk(r, w) \/ RecSkipChunk(r, w)
  BY <1>0, <1>4 DEF RecConfirmChunk, RecSkipChunk, SetRec, RecLocals
<1>5. ASSUME NEW q \in Period, NEW f, GoTo(r, q, f), z = r,
             f.pc \in PastChunks => rec[r].fin[q].pc \in PastChunks \/ AllConfirmed(q)
      PROVE  rec[z].fin[p].pc \in PastChunks \/ AllConfirmed(p)
  <2>1. rec'[r].fin = [rec[r].fin EXCEPT ![q] = f]
    BY <1>0, <1>5 DEF GoTo, SetRec, RecLocals
  <2>. QED
    BY <1>0, <1>5, <2>1
<1>6. ASSUME NEW q \in Period, z = r, FinChunks(r, q)
      PROVE  rec[z].fin[p].pc \in PastChunks \/ AllConfirmed(p)
  BY <1>5, <1>6, <1>a DEF FinChunks
<1>7. ASSUME NEW q \in Period, z = r, FinAnchor(r, q) \/ FinAbort(r, q)
      PROVE  rec[z].fin[p].pc \in PastChunks \/ AllConfirmed(p)
  BY <1>5, <1>7, <1>a DEF FinAnchor, FinAbort
<1>8. ASSUME NEW q \in Period, NEW a \in Assets, z = r,
             \/ FinFlag(r, q) \/ FinConfirm(r, q)
             \/ FinMirror(r, q, a) \/ FinReadChain(r, q, a) \/ FinCompare(r, q, a)
      PROVE  rec[z].fin[p].pc \in PastChunks \/ AllConfirmed(p)
  <2>1. rec[r].fin[q].pc \in PastChunks
    BY <1>8 DEF FinFlag, FinConfirm, FinMirror, FinReadChain, FinCompare, InPhase, PastChunks
  <2>2. \E f : GoTo(r, q, f)
    BY <1>8 DEF FinFlag, FinConfirm, FinMirror, FinReadChain, FinCompare
  <2>. QED
    BY <1>5, <1>8, <2>1, <2>2
<1>9. ASSUME NEW q \in Period, z = r, FinFlag(r, q) \/ FinConfirm(r, q)
      PROVE  rec[z].fin[p].pc \in PastChunks \/ AllConfirmed(p)
  <2>1. rec[r].fin[q].pc \in PastChunks
    BY <1>9 DEF FinFlag, FinConfirm, InPhase, PastChunks
  <2>2. \E f : GoTo(r, q, f)
    BY <1>9 DEF FinFlag, FinConfirm
  <2>. QED
    BY <1>5, <1>9, <2>1, <2>2
<1>. QED
  BY <1>1, <1>2, <1>3, <1>4, <1>6, <1>7, <1>8, <1>9 DEF RecStep

\* Only a finaliser confirms a period.
LEMMA ConfirmsBatch ==
  ASSUME TypeOK, [Next]_vars, NEW p \in Period,
         batches'[p].status = "CONFIRMED", batches[p].status # "CONFIRMED"
  PROVE  \E r \in RecSlots : rec[r].fin[p].pc = "confirm"
<1>t. /\ batches \in [Period -> Batch]
      /\ \A s \in TickSlots : TickShape(tick[s])
  BY DEF TypeOK
<1>1. ASSUME NEW s \in TickSlots, TickCreate(s) \/ TickMarkPeriod(s)
      PROVE  FALSE
  <2>1. tick[s].period \in Period
    BY <1>t, <1>1 DEF TickCreate, TickMarkPeriod, TickShape, IdleTick
  <2>2. CASE TickCreate(s)
    <3>1. [NoBatch EXCEPT !.status = "PENDING", !.payload = tick[s].aggregates].status = "PENDING"
      BY DEF NoBatch
    <3>. QED
      BY <1>t, <2>1, <2>2, <3>1 DEF TickCreate, SetBatch
  <2>3. CASE TickMarkPeriod(s)
    BY <1>t, <2>1, <2>3 DEF TickMarkPeriod, SetBatch, Batch
  <2>. QED
    BY <1>1, <2>2, <2>3
<1>2. ASSUME NEW r \in RecSlots, NEW q \in Period, FinFlag(r, q)
      PROVE  FALSE
  BY <1>t, <1>2 DEF FinFlag, SetBatch, Batch
<1>3. ASSUME NEW r \in RecSlots, NEW q \in Period, FinConfirm(r, q)
      PROVE  rec[r].fin[p].pc = "confirm"
  BY <1>t, <1>3 DEF FinConfirm, SetBatch, Batch, InPhase
<1>. QED
  BY <1>1, <1>2, <1>3, BatchWriters

\* The chunks of a period that passed the check stay CONFIRMED.
LEMMA CompletenessStep ==
  ASSUME Paced, FinalityInv, [Next]_vars
  PROVE  FinalizedIsComplete'
<1>0. SettlementInv /\ PublicationInv /\ TypeOK
  BY DEF FinalityInv, SettlementInv, PublicationInv
<1>1. ASSUME NEW p \in Period, batches'[p].status = "CONFIRMED"
      PROVE  AllConfirmed(p)'
  BY <1>0, <1>1, ConfirmsBatch, CompleteStep DEF FinalityInv, FinalizedIsComplete
<1>2. ASSUME NEW p \in Period, NEW z \in RecSlots, rec'[z].fin[p].pc \in PastChunks
      PROVE  AllConfirmed(p)'
  <2>1. CASE \E r \in RecSlots : RecStep(r)
    BY <1>0, <1>2, <2>1, FinalizerMoves, CompleteStep
    DEF FinalityInv, FinalizedIsComplete, PastChunks
  <2>2. CASE Crash
    BY <1>2, <2>2 DEF Crash, IdleRec, DoneFinalizer, PastChunks
  <2>3. CASE UNCHANGED rec
    BY <1>2, <2>3, CompleteStep DEF FinalityInv, FinalizedIsComplete, PastChunks
  <2>4. ASSUME NEW s \in TickSlots, TickStart(s) \/ TickStep(s)
        PROVE  UNCHANGED rec
    BY <2>4 DEF TickStep, TickStart, TickAggregate, TickCreate, TickEnsure, TickFind, TickMark,
         TickMarkPeriod, TickMarkError, TickFail, TickAbort, TickSendRejected, TickSend, TickSendLost
  <2>. QED
    BY <2>1, <2>2, <2>3, <2>4
    DEF Next, AdvanceClock, RecordView, Mine, Deepen, Revert, Drop, Reorg, vars
<1>. QED
  BY <1>1, <1>2 DEF FinalizedIsComplete, PastChunks

\* Nothing is CONFIRMED at first.
LEMMA InitFinality == Init => FinalityInv
<1>. SUFFICES ASSUME Init PROVE FinalityInv
  OBVIOUS
<1>1. OverwritesUnsubmitted
  BY DEF Init, OverwritesUnsubmitted, IdleTick
<1>2. FinalizedIsComplete
  BY DEF Init, FinalizedIsComplete, NoBatch, IdleRec, DoneFinalizer
<1>. QED
  BY <1>1, <1>2, InitSettlement DEF FinalityInv

(***************************************************************************)
(* FinalityInv holds in either regime when no update throws after it was   *)
(* decided.                                                                *)
(***************************************************************************)
THEOREM FinalityInvariant ==
  ASSUME Paced, "dbError" \notin Env
  PROVE  Spec => []FinalityInv
<1>1. FinalityInv /\ [Next]_vars => FinalityInv'
  <2>. SUFFICES ASSUME FinalityInv, [Next]_vars PROVE FinalityInv'
    OBVIOUS
  <2>1. SettlementInv'
    BY NextSettlement DEF FinalityInv
  <2>. QED
    BY <2>1, OverwritesStep, CompletenessStep DEF FinalityInv
<1>. QED
  BY <1>1, InitFinality, PTL DEF Spec

(***************************************************************************)
(* In either regime, with no failing update, a CONFIRMED chunk or period   *)
(* never goes back, although no UPDATE checks the status it overwrites.    *)
(***************************************************************************)
THEOREM ConfirmationsAreFinal ==
  ASSUME Paced, "dbError" \notin Env
  PROVE  Spec => ConfirmationIsFinal
<1>1. FinalityInv /\ [Next]_vars =>
        [\A p \in Period :
           /\ batches[p].status = "CONFIRMED" => batches'[p].status = "CONFIRMED"
           /\ \A i \in ChunkIdx :
                chunks[p][i].status = "CONFIRMED" => chunks'[p][i].status = "CONFIRMED"]_vars
  BY ConfirmedChunkStep, ConfirmedBatchStep DEF FinalityInv, SettlementInv, PublicationInv
<1>. QED
  BY <1>1, FinalityInvariant, PTL DEF Spec, ConfirmationIsFinal

(***************************************************************************)
(* Under the same assumptions a CONFIRMED period has all its chunks        *)
(* CONFIRMED, at every moment after its finalisation too.                  *)
(***************************************************************************)
THEOREM ConfirmedPeriodsAreComplete ==
  ASSUME Paced, "dbError" \notin Env
  PROVE  Spec => []ConfirmedPeriodIsComplete
<1>1. FinalityInv => ConfirmedPeriodIsComplete
  BY DEF FinalityInv, FinalizedIsComplete, ConfirmedPeriodIsComplete
<1>. QED
  BY <1>1, FinalityInvariant, PTL
=============================================================================
