---------------------- MODULE BatchPipelineCounting_proofs ----------------------
(***************************************************************************)
(* What the batch pipeline adds up to, proved for every value of the       *)
(* constants: the counters of the contract are what the published          *)
(* transactions carry and are never inflated, a confirmed period is        *)
(* published in full, the mirror holds at least what is flagged and only   *)
(* what is published is added to it, and a clean verdict of an audit hides *)
(* no counted view.                                                        *)
(*                                                                         *)
(* The invariants are those of BatchPipelineInv; what is used of sums is   *)
(* in SumTheorems.  The counters come first, then the row of a period, the *)
(* mirror and the audits.                                                  *)
(***************************************************************************)
EXTENDS Audit, BatchPipeline_proofs, SumTheorems


-----------------------------------------------------------------------------
(* The indices of sums are finite.                                         *)
LEMMA FiniteIndices == IsFiniteSet(Period) /\ IsFiniteSet(Tx)
BY ConstantsAssumption, FS_Interval DEF ConstantsAssumption, Period, Tx

(* The terms of PublishedIn(p, a).                                         *)
PublishedBy(p, a) ==
  [t \in Tx |-> IF Published(t) /\ txs[t].period = p THEN txs[t].payload[a] ELSE 0]
PublishedByPeriod(a) == [p \in Period |-> PublishedIn(p, a)]

PublishedTyped ==
  \A a \in Assets, p \in Period :
    /\ PublishedBy(p, a) \in [Tx -> Int]
    /\ PublishedIn(p, a) = SumFunction(PublishedBy(p, a))
    /\ PublishedIn(p, a) \in Int
    /\ 0 <= PublishedIn(p, a)

\* The counts the sums are taken of are integers.
LEMMA PublishedTypes == TypeOK => PublishedTyped
<1>. SUFFICES ASSUME TypeOK, NEW a \in Assets, NEW p \in Period
              PROVE  /\ PublishedBy(p, a) \in [Tx -> Int]
                     /\ PublishedIn(p, a) = SumFunction(PublishedBy(p, a))
                     /\ PublishedIn(p, a) \in Int
                     /\ 0 <= PublishedIn(p, a)
  BY DEF PublishedTyped
<1>1. \A t \in Tx : txs[t].payload[a] \in Nat
  BY DEF TypeOK, Transaction, Payload
<1>2. PublishedBy(p, a) \in [Tx -> Int] /\ \A t \in Tx : 0 <= PublishedBy(p, a)[t]
  BY <1>1 DEF PublishedBy
<1>3. PublishedIn(p, a) = SumFunction(PublishedBy(p, a))
  BY DEF PublishedIn, PublishedBy, Sum
<1>. DEFINE zero == [t \in Tx |-> 0]
<1>4. zero \in [Tx -> Int] /\ \A t \in Tx : zero[t] = 0
  OBVIOUS
<1>. HIDE DEF zero
<1>5. SumFunction(zero) = 0
  BY <1>4, FiniteIndices, SumZero
<1>6. SumFunction(PublishedBy(p, a)) \in Int
  BY <1>2, FiniteIndices, SumType
<1>7. SumFunction(zero) <= SumFunction(PublishedBy(p, a))
  BY <1>2, <1>4, FiniteIndices, SumMonotone
<1>. QED
  BY <1>2, <1>3, <1>5, <1>6, <1>7

(* What transaction t adds to the counter of a.                            *)
Counted(t, a) == IF Published(t) THEN txs[t].payload[a] ELSE 0

(* When one transaction of period q changes, the total changes by what it  *)
(* adds.                                                                   *)
LEMMA OneTransaction ==
  ASSUME TypeOK, TypeOK', NEW t \in Tx, NEW a \in Assets, NEW q \in Period,
         txs[t].period = q \/ ~Published(t),
         txs'[t].period = q,
         \A u \in Tx \ {t} : txs'[u] = txs[u]
  PROVE  SumFunction(PublishedByPeriod(a)') =
           SumFunction(PublishedByPeriod(a)) + Counted(t, a)' - Counted(t, a)
<1>1. \A p \in Period : \A u \in Tx \ {t} : PublishedBy(p, a)[u] = PublishedBy(p, a)'[u]
  BY DEF PublishedBy, Published
<1>2. \A p \in Period : /\ PublishedBy(p, a)[t] = IF p = q THEN Counted(t, a) ELSE 0
                        /\ PublishedBy(p, a)'[t] = IF p = q THEN Counted(t, a)' ELSE 0
  BY DEF PublishedBy, Counted, Published
<1>3. \A p \in Period :
        /\ PublishedBy(p, a) \in [Tx -> Int] /\ PublishedBy(p, a)' \in [Tx -> Int]
        /\ PublishedIn(p, a) = SumFunction(PublishedBy(p, a))
        /\ PublishedIn(p, a)' = SumFunction(PublishedBy(p, a)')
        /\ PublishedIn(p, a) \in Int /\ PublishedIn(p, a)' \in Int
  <2>1. PublishedTyped
    BY PublishedTypes
  <2>2. (TypeOK => PublishedTyped)'
    BY PublishedTypes, PTL
  <2>. QED
    BY <2>1, <2>2 DEF PublishedTyped
<1>4. Counted(t, a) \in Int /\ Counted(t, a)' \in Int
  BY DEF Counted, TypeOK, Transaction, Payload
<1>5. \A p \in Period : PublishedIn(p, a)' =
        PublishedIn(p, a) + PublishedBy(p, a)'[t] - PublishedBy(p, a)[t]
  BY <1>1, <1>3, FiniteIndices, SumDifference
<1>6. /\ \A p \in Period \ {q} : PublishedByPeriod(a)[p] = PublishedByPeriod(a)'[p]
      /\ PublishedByPeriod(a)'[q] = PublishedByPeriod(a)[q] + Counted(t, a)' - Counted(t, a)
  BY <1>2, <1>3, <1>4, <1>5 DEF PublishedByPeriod
<1>7. /\ PublishedByPeriod(a) \in [Period -> Int] /\ PublishedByPeriod(a)' \in [Period -> Int]
  BY <1>3 DEF PublishedByPeriod
<1>8. SumFunction(PublishedByPeriod(a)') = SumFunction(PublishedByPeriod(a))
                                     + PublishedByPeriod(a)'[q] - PublishedByPeriod(a)[q]
  BY <1>6, <1>7, FiniteIndices, SumDifference
<1>9. SumFunction(PublishedByPeriod(a)) \in Int /\ PublishedByPeriod(a)[q] \in Int
  BY <1>7, FiniteIndices, SumType
<1>. QED
  BY <1>4, <1>6, <1>8, <1>9

(* Only what is mined or undone by a reorganisation changes a counter.     *)
LEMMA ChainMoves ==
  ASSUME TypeOK, [Next]_vars
  PROVE  \/ UNCHANGED chain
         \/ \E s \in TickSlots, i \in ChunkIdx, t \in Tx :
              /\ tick[s].period \in Period /\ Broadcast(tick[s].period, i, t)
              /\ UNCHANGED totalViews
         \/ \E t \in Tx : Mine(t) \/ Deepen(t) \/ Revert(t) \/ Drop(t) \/ Reorg(t)
<1>1. ASSUME NEW s \in TickSlots, NEW i \in ChunkIdx, NEW t \in Tx,
             TickSend(s, i, t) \/ TickSendLost(s, i, t)
      PROVE  /\ tick[s].period \in Period /\ Broadcast(tick[s].period, i, t)
             /\ UNCHANGED totalViews
  BY <1>1 DEF TypeOK, TickShape, IdleTick, TickSend, TickSendLost, IsNextChunk
<1>2. ASSUME NEW s \in TickSlots, TickStart(s) \/ TickStep(s)
      PROVE  UNCHANGED chain \/ \E i \in ChunkIdx, t \in Tx : TickSend(s, i, t) \/ TickSendLost(s, i, t)
  BY <1>2 DEF TickStart, TickStep, TickAggregate, TickCreate, TickEnsure, TickFind, TickMark,
     TickMarkPeriod, TickMarkError, TickFail, TickAbort, TickSendRejected
<1>3. ASSUME NEW r \in RecSlots, RecStep(r)
      PROVE  UNCHANGED chain
  BY <1>3 DEF RecStep, RecStart, RecConfirmChunk, RecSkipChunk, RecPeriods, RecAbort, RecEnd,
       FinChunks, FinMirror, FinFlag, FinReadChain, FinCompare, FinConfirm, FinAnchor, FinAbort
<1>. QED
  BY <1>1, <1>2, <1>3 DEF Next, AdvanceClock, RecordView, Crash, vars, chain

\* A block that includes or orphans a transaction moves the counters of its assets by
\* what it carries, which is also what the sum of the published payloads moves by.
LEMMA CountedStep ==
  ASSUME PublicationInv, TypeOK', CountedIsPublished, [Next]_vars
  PROVE  CountedIsPublished'
<1>. SUFFICES ASSUME NEW a \in Assets
              PROVE  totalViews'[a] = SumFunction(PublishedByPeriod(a)')
  BY DEF CountedIsPublished, PublishedByPeriod, Sum
<1>0. /\ TypeOK /\ txs \in [Tx -> Transaction] /\ totalViews \in [Assets -> Int]
      /\ \A t \in Tx : txs[t].payload[a] \in Nat
      /\ totalViews[a] = SumFunction(PublishedByPeriod(a))
      /\ SumFunction(PublishedByPeriod(a)) \in Int
  <2>1. PublishedByPeriod(a) \in [Period -> Int]
    BY PublishedTypes DEF PublicationInv, PublishedByPeriod, PublishedTyped
  <2>. QED
    BY <2>1, FiniteIndices, SumType
    DEF PublicationInv, TypeOK, Transaction, Payload, CountedIsPublished, PublishedByPeriod, Sum
<1>1. CASE UNCHANGED chain
  <2>1. PublishedByPeriod(a)' = PublishedByPeriod(a)
    BY <1>1 DEF chain, PublishedByPeriod, PublishedIn, Published
  <2>. QED
    BY <1>0, <1>1, <2>1 DEF chain
<1>2. ASSUME NEW p \in Period, NEW i \in ChunkIdx, NEW t \in Tx, Broadcast(p, i, t),
             UNCHANGED totalViews
      PROVE  totalViews'[a] = SumFunction(PublishedByPeriod(a)')
  <2>1. /\ txs[t].state = "unsent" /\ txs'[t].state = "pool" /\ txs'[t].period = p
        /\ \A u \in Tx \ {t} : txs'[u] = txs[u]
    BY <1>0, <1>2 DEF Broadcast, IsFresh
  <2>2. ~Published(t) /\ Counted(t, a) = 0 /\ Counted(t, a)' = 0
    BY <2>1 DEF Counted, Published
  <2>. QED
    BY <1>0, <1>2, <2>1, <2>2, OneTransaction
<1>3. ASSUME NEW t \in Tx, Mine(t) \/ Deepen(t) \/ Revert(t) \/ Drop(t) \/ Reorg(t)
      PROVE  totalViews'[a] = SumFunction(PublishedByPeriod(a)')
  <2>0. txs[t].period \in Period
    BY <1>3 DEF PublicationInv, SentPayload, Sent, Mine, Deepen, Revert, Drop, Reorg
  <2>1. PICK state \in {"pool", "mined", "deep", "reverted", "dropped"} :
          txs' = [txs EXCEPT ![t] = [txs[t] EXCEPT !.state = state]]
    BY <1>3 DEF Mine, Deepen, Revert, Drop, Reorg
  <2>2. /\ txs'[t].period = txs[t].period /\ txs'[t].payload = txs[t].payload
        /\ txs'[t].state = state
        /\ \A u \in Tx \ {t} : txs'[u] = txs[u]
    BY <1>0, <2>1 DEF Transaction
  <2>3. SumFunction(PublishedByPeriod(a)') = totalViews[a] + Counted(t, a)' - Counted(t, a)
    BY <1>0, <2>0, <2>2, OneTransaction
  <2>4. CASE Mine(t)
    <3>1. txs[t].state = "pool" /\ txs'[t].state = "mined"
      BY <1>0, <2>4 DEF Mine, Transaction
    <3>2. Counted(t, a) = 0 /\ Counted(t, a)' = txs[t].payload[a]
      BY <2>2, <3>1 DEF Counted, Published
    <3>3. totalViews'[a] = totalViews[a] + txs[t].payload[a]
      BY <2>4 DEF Mine, Plus
    <3>. QED
      BY <1>0, <2>3, <3>2, <3>3
  <2>5. CASE Reorg(t)
    <3>1. txs[t].state = "mined" /\ txs'[t].state = "pool"
      BY <1>0, <2>5 DEF Reorg, Transaction
    <3>2. Counted(t, a) = txs[t].payload[a] /\ Counted(t, a)' = 0
      BY <2>2, <3>1 DEF Counted, Published
    <3>3. totalViews'[a] = totalViews[a] - txs[t].payload[a]
      BY <2>5 DEF Reorg, Minus
    <3>. QED
      BY <1>0, <2>3, <3>2, <3>3
  <2>6. CASE Deepen(t) \/ Revert(t) \/ Drop(t)
    <3>1. \/ txs[t].state = "mined" /\ txs'[t].state = "deep"
          \/ txs[t].state = "pool" /\ txs'[t].state \in {"reverted", "dropped"}
      BY <1>0, <2>6 DEF Deepen, Revert, Drop, Transaction
    <3>2. Counted(t, a)' = Counted(t, a) /\ Counted(t, a) \in Int
      BY <1>0, <2>2, <3>1 DEF Counted, Published
    <3>3. totalViews' = totalViews
      BY <2>6 DEF Deepen, Revert, Drop
    <3>. QED
      BY <1>0, <2>3, <3>2, <3>3
  <2>. QED
    BY <1>3, <2>4, <2>5, <2>6
<1>. QED
  BY <1>0, <1>1, <1>2, <1>3, ChainMoves

(* The views of a period only grow.                                        *)
LEMMA ViewsGrow ==
  ASSUME TypeOK, TypeOK', [Next]_vars, NEW p \in Period, NEW a \in Assets
  PROVE  views[p][a] <= views'[p][a] /\ views[p][a] \in Nat /\ views'[p][a] \in Nat
<1>t. /\ views \in [Period -> Payload] /\ views' \in [Period -> Payload]
      /\ views[p][a] \in Nat /\ views'[p][a] \in Nat
  BY DEF TypeOK, Payload
<1>1. ASSUME NEW b \in Assets, NEW q \in Period, RecordView(b, q)
      PROVE  views[p][a] <= views'[p][a]
  <2>1. views' = [views EXCEPT ![q][b] = views[q][b] + 1]
    BY <1>1 DEF RecordView
  <2>2. CASE q = p /\ b = a
    BY <1>t, <2>1, <2>2 DEF Payload
  <2>3. CASE ~(q = p /\ b = a)
    BY <1>t, <2>1, <2>3 DEF Payload
  <2>. QED
    BY <2>2, <2>3
<1>2. ASSUME NEW s \in TickSlots, TickStart(s) \/ TickStep(s)
      PROVE  UNCHANGED views
  BY <1>2 DEF TickStart, TickStep, TickAggregate, TickCreate, TickEnsure, TickFind, TickMark,
     TickMarkPeriod, TickMarkError, TickFail, TickAbort, TickSendRejected, TickSend, TickSendLost,
     tables
<1>3. ASSUME NEW r \in RecSlots, RecStep(r)
      PROVE  UNCHANGED views
  BY <1>3 DEF RecStep, RecStart, RecConfirmChunk, RecSkipChunk, RecPeriods, RecAbort, RecEnd,
       FinChunks, FinMirror, FinFlag, FinReadChain, FinCompare, FinConfirm, FinAnchor, FinAbort,
       tables
<1>4. UNCHANGED views => views[p][a] <= views'[p][a]
  BY <1>t
<1>. QED
  BY <1>t, <1>1, <1>2, <1>3, <1>4
  DEF Next, AdvanceClock, Mine, Deepen, Revert, Drop, Reorg, Crash, vars, tables

(* The payload of a chunk stays or is cut from the aggregates of a tick.   *)
LEMMA PayloadSteps ==
  ASSUME Paced, PublicationInv, [Next]_vars, NEW p \in Period, NEW i \in ChunkIdx
  PROVE  \/ chunks'[p][i].payload = chunks[p][i].payload
         \/ \E s \in TickSlots : /\ tick[s].pc = "ensure" /\ tick[s].period = p
                                 /\ chunks'[p][i].payload = Slice(tick[s].aggregates, i)
<1>0. chunks[p][i] \in Chunk /\ chunks \in [Period -> [ChunkIdx -> Chunk]]
  BY DEF PublicationInv, TypeOK
<1>1. CASE ChunkKept(p, i)
  BY <1>1 DEF ChunkKept
<1>2. CASE ChunkFilled(p, i)
  <2>1. PICK s \in TickSlots : TickEnsure(s) /\ tick[s].period = p
    BY <1>2 DEF ChunkFilled
  <2>. DEFINE c == [NoChunk EXCEPT !.status = "PENDING", !.payload = Slice(tick[s].aggregates, i)]
  <2>2. c.payload = Slice(tick[s].aggregates, i)
    BY DEF NoChunk
  <2>3. chunks'[p][i] = chunks[p][i] \/ chunks'[p][i] = c
    BY <1>0, <2>1 DEF TickEnsure
  <2>. HIDE DEF c
  <2>4. tick[s].pc = "ensure"
    BY <2>1 DEF TickEnsure
  <2>. QED
    BY <2>1, <2>2, <2>3, <2>4
<1>3. CASE ChunkMarked(p, i) \/ ChunkFailed(p, i) \/ ChunkConfirmed(p, i)
  BY <1>0, <1>3 DEF ChunkMarked, ChunkFailed, ChunkConfirmed, Chunk
<1>. QED
  BY <1>1, <1>2, <1>3, ChunkSteps

\* Aggregates are views read back, and views only grow.
LEMMA CoverStep ==
  ASSUME Paced, PublicationInv, PublicationInv', ViewsCoverPayloads, [Next]_vars
  PROVE  ViewsCoverPayloads'
<1>0. /\ TypeOK /\ TypeOK' /\ Period \subseteq Nat
      /\ \A p \in Period, a \in Assets :
           views[p][a] <= views'[p][a] /\ views[p][a] \in Nat /\ views'[p][a] \in Nat
  BY ViewsGrow, ConstantTypes DEF PublicationInv
<1>1. ASSUME NEW s \in TickSlots, NEW a \in Assets, tick'[s].pc \in {"create", "ensure"}
      PROVE  tick'[s].aggregates[a] <= views'[tick'[s].period][a]
  <2>0. /\ tick[s].pc # "idle" => tick[s].period \in Period
        /\ tick'[s].period \in Period
        /\ tick'[s].aggregates[a] \in Nat
    BY <1>0, <1>1 DEF TypeOK, TickShape, IdleTick, TickLocals, Payload
  <2>a. \A p \in Period :
          tick'[s].aggregates[a] <= views[p][a] => tick'[s].aggregates[a] <= views'[p][a]
    <3>1. \A x, y, z \in Nat : x <= y /\ y <= z => x <= z
      OBVIOUS
    <3>. QED
      BY <1>0, <2>0, <3>1
  <2>1. CASE tick'[s] = tick[s]
    <3>1. tick[s].aggregates[a] <= views[tick[s].period][a]
      BY <1>1, <2>1 DEF ViewsCoverPayloads
    <3>. QED
      BY <2>0, <2>1, <2>a, <3>1
  <2>2. CASE TickStep(s)
    <3>1. /\ tick[s].pc # "idle" /\ tick'[s].period = tick[s].period
          /\ \/ tick'[s].aggregates = views[tick[s].period]
             \/ tick[s].pc = "create" /\ tick'[s].aggregates = tick[s].aggregates
      BY <1>0, <1>1, <2>2, TickLocalsStep
    <3>2. tick'[s].aggregates[a] <= views[tick[s].period][a]
      <4>1. CASE tick'[s].aggregates = views[tick[s].period]
        BY <1>0, <2>0, <3>1, <4>1
      <4>2. CASE tick[s].pc = "create" /\ tick'[s].aggregates = tick[s].aggregates
        BY <4>2 DEF ViewsCoverPayloads
      <4>. QED
        BY <3>1, <4>1, <4>2
    <3>. QED
      BY <2>0, <2>a, <3>1, <3>2
  <2>3. ~TickStart(s)
    <3>1. TickStart(s) => tick'[s].pc \in {"idle", "aggregate"}
      BY <1>0 DEF TickStart, SetTick, IdleTick, TypeOK
    <3>. QED
      BY <1>1, <3>1
  <2>4. ~Crash
    BY <1>1 DEF Crash, IdleTick
  <2>. QED
    BY <1>0, <2>1, <2>2, <2>3, <2>4, TickMoves
<1>2. ASSUME NEW p \in Period, NEW i \in ChunkIdx, NEW a \in Assets
      PROVE  chunks'[p][i].payload[a] <= views'[p][a]
  <2>0. chunks'[p][i].payload[a] \in Nat
    BY <1>0 DEF TypeOK, Chunk, Payload
  <2>1. CASE chunks'[p][i].payload = chunks[p][i].payload
    <3>1. chunks[p][i].payload[a] <= views[p][a]
      BY DEF ViewsCoverPayloads
    <3>. QED
      BY <1>0, <2>0, <2>1, <3>1
  <2>2. ASSUME NEW s \in TickSlots, tick[s].pc = "ensure", tick[s].period = p,
               chunks'[p][i].payload = Slice(tick[s].aggregates, i)
        PROVE  chunks'[p][i].payload[a] <= views'[p][a]
    <3>1. tick[s].aggregates[a] <= views[p][a] /\ tick[s].aggregates[a] \in Nat
      BY <1>0, <2>2 DEF ViewsCoverPayloads, TypeOK, TickLocals, Payload
    <3>2. chunks'[p][i].payload[a] \in {0, tick[s].aggregates[a]}
      BY <2>2 DEF Slice
    <3>. QED
      BY <1>0, <2>0, <3>1, <3>2
  <2>. QED
    BY <2>1, <2>2, PayloadSteps
<1>. QED
  BY <1>1, <1>2 DEF ViewsCoverPayloads

\* Nothing is counted at first.
LEMMA InitCounting == Init => CountingInv
<1>. SUFFICES ASSUME Init PROVE CountingInv
  OBVIOUS
<1>0. PublicationInv /\ TypeOK
  BY InitPublication, InitTypeOK
<1>1. ViewsCoverPayloads
  <2>1. \A a \in Assets : Empty[a] = 0
    BY DEF Empty
  <2>2. \A s \in TickSlots : tick[s].pc = "idle"
    BY DEF Init, IdleTick
  <2>3. \A p \in Period, i \in ChunkIdx : chunks[p][i].payload = Empty /\ views[p] = Empty
    BY DEF Init, NoChunk
  <2>. QED
    BY <2>1, <2>2, <2>3 DEF ViewsCoverPayloads
<1>2. ASSUME NEW a \in Assets
      PROVE  totalViews[a] = SumFunction(PublishedByPeriod(a))
  <2>1. \A t \in Tx : ~Published(t)
    BY DEF Init, Unsent, Published
  <2>2. \A p \in Period : \A t \in Tx : PublishedBy(p, a)[t] = 0
    BY <2>1 DEF PublishedBy
  <2>3. \A p \in Period : PublishedIn(p, a) = 0
    BY <1>0, <2>2, PublishedTypes, FiniteIndices, SumZero DEF PublishedTyped
  <2>4. PublishedByPeriod(a) \in [Period -> Int] /\ \A p \in Period : PublishedByPeriod(a)[p] = 0
    BY <2>3 DEF PublishedByPeriod
  <2>5. SumFunction(PublishedByPeriod(a)) = 0
    BY <2>4, FiniteIndices, SumZero
  <2>. QED
    BY <2>5 DEF Init, Empty
<1>. QED
  BY <1>0, <1>1, <1>2 DEF CountingInv, CountedIsPublished, PublishedByPeriod, Sum

\* The parts together are inductive.
LEMMA NextCounting ==
  ASSUME Paced, CountingInv, [Next]_vars
  PROVE  CountingInv'
<1>1. PublicationInv'
  BY NextPublication DEF CountingInv
<1>2. CountedIsPublished'
  BY <1>1, CountedStep DEF CountingInv, PublicationInv
<1>3. ViewsCoverPayloads'
  BY <1>1, CoverStep DEF CountingInv
<1>. QED
  BY <1>1, <1>2, <1>3 DEF CountingInv

(***************************************************************************)
(* In either regime the counters of the contract are what the published    *)
(* transactions carry, and no payload exceeds the views received.          *)
(***************************************************************************)
THEOREM CountingInvariant ==
  ASSUME Paced
  PROVE  Spec => []CountingInv
<1>1. CountingInv /\ [Next]_vars => CountingInv'
  BY NextCounting
<1>. QED
  BY <1>1, InitCounting, PTL DEF Spec

(* An asset and a period have at most one transaction that counts.         *)
LEMMA OneCounts ==
  ASSUME PublicationInv, NEW p \in Period, NEW a \in Assets, NEW t \in Tx,
         Published(t), txs[t].period = p, txs[t].payload[a] > 0
  PROVE  PublishedIn(p, a) = txs[t].payload[a]
<1>0. /\ TypeOK /\ PublishedTyped /\ NoDoublePublication
      /\ \A u \in Tx : txs[u].payload[a] \in Nat
  BY PublishedTypes, PublicationIsApart DEF PublicationInv, TypeOK, Transaction, Payload
<1>1. ASSUME NEW u \in Tx \ {t}
      PROVE  PublishedBy(p, a)[u] = 0
  <2>1. CASE Published(u) /\ txs[u].period = p
    <3>1. Disjoint(txs[t].payload, txs[u].payload)
      BY <1>0, <2>1 DEF NoDoublePublication, Published
    <3>2. ~(txs[u].payload[a] > 0)
      BY <3>1 DEF Disjoint, Support
    <3>. QED
      BY <1>0, <3>2 DEF PublishedBy
  <2>2. CASE ~(Published(u) /\ txs[u].period = p)
    BY <2>2 DEF PublishedBy
  <2>. QED
    BY <2>1, <2>2
<1>2. PublishedBy(p, a)[t] = txs[t].payload[a]
  BY DEF PublishedBy
<1>3. PublishedIn(p, a) = PublishedBy(p, a)[t]
  BY <1>0, <1>1, FiniteIndices, SumOfOne DEF PublishedTyped
<1>. QED
  BY <1>2, <1>3

\* With no such transaction nothing is published of the asset.
LEMMA NoneCounts ==
  ASSUME TypeOK, NEW p \in Period, NEW a \in Assets,
         \A t \in Tx : Published(t) /\ txs[t].period = p => ~(txs[t].payload[a] > 0)
  PROVE  PublishedIn(p, a) = 0
<1>0. PublishedTyped /\ \A u \in Tx : txs[u].payload[a] \in Nat
  BY PublishedTypes DEF TypeOK, Transaction, Payload
<1>1. \A u \in Tx : PublishedBy(p, a)[u] = 0
  BY <1>0 DEF PublishedBy
<1>. QED
  BY <1>0, <1>1, FiniteIndices, SumZero DEF PublishedTyped

\* What is published of a period is at most the payload of one chunk.
LEMMA PublishedAtMostViews ==
  ASSUME CountingInv, NEW p \in Period, NEW a \in Assets
  PROVE  PublishedIn(p, a) <= views[p][a]
<1>0. PublicationInv /\ TypeOK /\ views[p][a] \in Nat
  BY DEF CountingInv, PublicationInv, TypeOK, Payload
<1>1. CASE \E t \in Tx : Published(t) /\ txs[t].period = p /\ txs[t].payload[a] > 0
  <2>1. PICK t \in Tx : Published(t) /\ txs[t].period = p /\ txs[t].payload[a] > 0
    BY <1>1
  <2>2. PublishedIn(p, a) = txs[t].payload[a]
    BY <1>0, <2>1, OneCounts
  <2>3. txs[t].chunk \in ChunkIdx /\ txs[t].payload = chunks[p][txs[t].chunk].payload
    BY <2>1 DEF CountingInv, PublicationInv, SentPayload, Sent, Published
  <2>. QED
    BY <2>2, <2>3 DEF CountingInv, ViewsCoverPayloads
<1>2. CASE ~\E t \in Tx : Published(t) /\ txs[t].period = p /\ txs[t].payload[a] > 0
  BY <1>0, <1>2, NoneCounts
<1>. QED
  BY <1>1, <1>2

(***************************************************************************)
(* In either regime the counter of an asset never exceeds the views that   *)
(* were received for it, whatever transactions are dropped, reverted,      *)
(* reorganised or sent without an answer.                                  *)
(***************************************************************************)
THEOREM CountersAreNeverInflated ==
  ASSUME Paced
  PROVE  Spec => []CounterNeverInflated
<1>1. CountingInv => CounterNeverInflated
  <2>. SUFFICES ASSUME CountingInv, NEW a \in Assets
                PROVE  totalViews[a] <= SumFunction([p \in Period |-> views[p][a]])
    BY DEF CounterNeverInflated, Sum
  <2>0. TypeOK /\ PublishedTyped
    BY PublishedTypes DEF CountingInv, PublicationInv
  <2>. DEFINE received == [p \in Period |-> views[p][a]]
  <2>1. /\ PublishedByPeriod(a) \in [Period -> Int]
        /\ \A p \in Period : PublishedByPeriod(a)[p] = PublishedIn(p, a)
    BY <2>0 DEF PublishedByPeriod, PublishedTyped
  <2>2. received \in [Period -> Int] /\ \A p \in Period : received[p] = views[p][a]
    BY <2>0 DEF TypeOK, Payload
  <2>. HIDE DEF received
  <2>3. \A p \in Period : PublishedByPeriod(a)[p] <= received[p]
    BY <2>1, <2>2, PublishedAtMostViews
  <2>4. SumFunction(PublishedByPeriod(a)) <= SumFunction(received)
    BY <2>1, <2>2, <2>3, FiniteIndices, SumMonotone
  <2>5. totalViews[a] = SumFunction(PublishedByPeriod(a))
    BY DEF CountingInv, CountedIsPublished, PublishedByPeriod, Sum
  <2>. QED
    BY <2>4, <2>5 DEF received
<1>. QED
  BY <1>1, CountingInvariant, PTL

-----------------------------------------------------------------------------
(* One step, seen from the row of a period.                                *)
RowKept(p) ==
  /\ batches'[p].status = batches[p].status
  /\ batches'[p].payload = batches[p].payload
  /\ batches'[p].mirrorApplied = batches[p].mirrorApplied
RowCreated(p) ==
  \E s \in TickSlots :
    /\ TickCreate(s) /\ tick[s].pc = "create" /\ tick[s].period = p
    /\ batches[p].status = "absent" /\ batches'[p].status = "PENDING"
    /\ batches'[p].payload = tick[s].aggregates /\ batches'[p].mirrorApplied = FALSE
RowFlagged(p) ==
  \E r \in RecSlots :
    /\ FinFlag(r, p)
    /\ batches'[p].status = batches[p].status
    /\ batches'[p].payload = batches[p].payload
    /\ batches'[p].mirrorApplied = TRUE
RowConfirmed(p) ==
  \E r \in RecSlots :
    /\ FinConfirm(r, p)
    /\ batches'[p].status = "CONFIRMED"
    /\ batches'[p].payload = batches[p].payload
    /\ batches'[p].mirrorApplied = batches[p].mirrorApplied

\* Every step is one of these to the row, or leaves it alone.
LEMMA RowSteps ==
  ASSUME TypeOK, [Next]_vars, NEW p \in Period
  PROVE  RowKept(p) \/ RowCreated(p) \/ RowFlagged(p) \/ RowConfirmed(p)
<1>t. /\ batches \in [Period -> Batch]
      /\ \A s \in TickSlots : TickShape(tick[s])
  BY DEF TypeOK
<1>0. CASE UNCHANGED batches
  BY <1>0 DEF RowKept
<1>1. ASSUME NEW s \in TickSlots, TickCreate(s)
      PROVE  RowKept(p) \/ RowCreated(p)
  <2>. DEFINE b == [NoBatch EXCEPT !.status = "PENDING", !.payload = tick[s].aggregates]
  <2>1. tick[s].period \in Period /\ tick[s].pc = "create"
    BY <1>t, <1>1 DEF TickCreate, TickShape, IdleTick
  <2>2. b.status = "PENDING" /\ b.payload = tick[s].aggregates /\ b.mirrorApplied = FALSE
    BY DEF NoBatch
  <2>3. \/ UNCHANGED batches
        \/ /\ batches[tick[s].period].status = "absent"
           /\ batches' = [batches EXCEPT ![tick[s].period] = b]
    BY <1>1 DEF TickCreate, SetBatch
  <2>. HIDE DEF b
  <2>4. CASE tick[s].period = p
    <3>1. CASE UNCHANGED batches
      BY <3>1 DEF RowKept
    <3>2. CASE /\ batches[p].status = "absent"
               /\ batches' = [batches EXCEPT ![p] = b]
      <4>1. batches'[p] = b
        BY <1>t, <3>2
      <4>. QED
        BY <1>1, <2>1, <2>2, <2>4, <3>2, <4>1 DEF RowCreated
    <3>. QED
      BY <2>3, <2>4, <3>1, <3>2
  <2>5. CASE tick[s].period # p
    BY <1>t, <1>0, <2>1, <2>3, <2>5 DEF RowKept
  <2>. QED
    BY <2>4, <2>5
<1>2. ASSUME NEW s \in TickSlots, TickMarkPeriod(s)
      PROVE  RowKept(p)
  <2>1. tick[s].period \in Period
    BY <1>t, <1>2 DEF TickMarkPeriod, TickShape, IdleTick
  <2>. QED
    BY <1>t, <1>2, <2>1 DEF TickMarkPeriod, SetBatch, Batch, RowKept
<1>3. ASSUME NEW r \in RecSlots, NEW q \in Period, FinFlag(r, q)
      PROVE  RowKept(p) \/ RowFlagged(p)
  <2>1. CASE q = p
    BY <1>t, <1>3, <2>1 DEF FinFlag, SetBatch, Batch, RowFlagged
  <2>2. CASE q # p
    BY <1>t, <1>3, <2>2 DEF FinFlag, SetBatch, Batch, RowKept
  <2>. QED
    BY <2>1, <2>2
<1>4. ASSUME NEW r \in RecSlots, NEW q \in Period, FinConfirm(r, q)
      PROVE  RowKept(p) \/ RowConfirmed(p)
  <2>1. CASE q = p
    <3>1. batches' = [batches EXCEPT ![p] = [batches[p] EXCEPT !.status = "CONFIRMED"]]
      BY <1>4, <2>1 DEF FinConfirm, SetBatch
    <3>. QED
      BY <1>t, <1>4, <2>1, <3>1 DEF Batch, RowConfirmed
  <2>2. CASE q # p
    BY <1>t, <1>4, <2>2 DEF FinConfirm, SetBatch, Batch, RowKept
  <2>. QED
    BY <2>1, <2>2
<1>. QED
  BY <1>0, <1>1, <1>2, <1>3, <1>4, BatchWriters

(* A row keeps its payload.                                                *)
LEMMA RowStays ==
  ASSUME TypeOK, [Next]_vars, NEW p \in Period, batches[p].status # "absent"
  PROVE  batches'[p].status # "absent" /\ batches'[p].payload = batches[p].payload
BY RowSteps DEF RowKept, RowCreated, RowFlagged, RowConfirmed

-----------------------------------------------------------------------------
(* One step, seen from the finaliser of a period.                          *)
FinKept(r, p) == rec'[r].fin[p] = rec[r].fin[p] /\ rec'[r].pc = rec[r].pc
FinStopped(r, p) ==
  /\ rec'[r].fin[p].pc = "done"
  /\ rec[r].pc = "finalize" /\ rec[r].fin[p].pc \in {"mirror", "flag"} =>
       {"crash", "dbError"} \cap Env # {}
FinStarted(r, p) ==
  /\ RecPeriods(r) /\ rec[r].pc = "confirm" /\ rec'[r].pc = "finalize"
  /\ batches[p].status = "PENDING"
  /\ rec'[r].fin[p].pc = "chunks" /\ rec'[r].fin[p].applied = batches[p].mirrorApplied
FinPassed(r, p) ==
  /\ FinChunks(r, p) /\ InPhase(r, p, "chunks") /\ rec'[r].pc = "finalize" /\ AllConfirmed(p)
  /\ rec'[r].fin[p].pc = FirstPhase(rec[r].fin[p])
  /\ rec'[r].fin[p].todo = Support(batches[p].payload)
FinAdded(r, p) ==
  \E a \in Assets :
    /\ FinMirror(r, p, a) /\ InPhase(r, p, "mirror") /\ rec'[r].pc = "finalize"
    /\ rec'[r].fin[p].todo = rec[r].fin[p].todo \ {a}
    /\ rec'[r].fin[p].pc = IF rec[r].fin[p].todo = {a} THEN "flag" ELSE "mirror"
FinFlagged(r, p) ==
  FinFlag(r, p) /\ InPhase(r, p, "flag") /\ rec'[r].pc = "finalize" /\ rec'[r].fin[p].pc = "check"
FinCompared(r, p) ==
  /\ \E a \in Assets : FinReadChain(r, p, a) \/ FinCompare(r, p, a)
  /\ rec[r].pc = "finalize" /\ rec[r].fin[p].pc \in {"check", "compare"}
  /\ rec'[r].pc = "finalize" /\ rec'[r].fin[p].pc \in {"check", "compare", "confirm"}
FinDone(r, p) ==
  FinConfirm(r, p) /\ InPhase(r, p, "confirm") /\ rec'[r].pc = "finalize" /\ rec'[r].fin[p].pc = "anchor"

\* Every step is one of these to the finaliser, or leaves it alone.
LEMMA FinSteps ==
  ASSUME TypeOK, [Next]_vars, NEW r \in RecSlots, NEW p \in Period
  PROVE  \/ FinKept(r, p) \/ FinStopped(r, p) \/ FinStarted(r, p) \/ FinPassed(r, p)
         \/ FinAdded(r, p) \/ FinFlagged(r, p) \/ FinCompared(r, p) \/ FinDone(r, p)
<1>0. /\ rec \in [RecSlots -> RecLocals] /\ rec[r].fin \in [Period -> Finalizer]
      /\ rec[r].fin[p] \in Finalizer
      /\ rec[r].pc = "idle" => rec[r] = IdleRec
  BY DEF TypeOK, RecLocals
<1>d. DoneFinalizer.pc = "done" /\ IdleRec.fin[p] = DoneFinalizer
  BY DEF DoneFinalizer, IdleRec
<1>1. CASE UNCHANGED rec
  BY <1>1 DEF FinKept
<1>2. ASSUME NEW z \in RecSlots, z # r, RecStep(z)
      PROVE  FinKept(r, p)
  <2>1. \E n : SetRec(z, n)
    BY <1>2 DEF RecStep, RecStart, RecConfirmChunk, RecSkipChunk, RecPeriods, RecAbort, RecEnd,
           FinChunks, FinMirror, FinFlag, FinReadChain, FinCompare, FinConfirm, FinAnchor,
           FinAbort, GoTo
  <2>. QED
    BY <1>2, <2>1 DEF SetRec, FinKept
<1>3. CASE RecStart(r) \/ RecAbort(r) \/ RecEnd(r)
  <2>1. rec'[r].fin = IdleRec.fin
    BY <1>0, <1>3 DEF RecStart, RecAbort, RecEnd, SetRec, IdleRec
  <2>2. rec[r].pc = "finalize" => rec[r].fin[p].pc = "done"
    BY <1>3 DEF RecStart, RecAbort, RecEnd
  <2>. QED
    BY <1>d, <2>1, <2>2 DEF FinStopped
<1>4. CASE RecPeriods(r)
  <2>1. /\ rec'[r].fin = [q \in Period |-> IF batches[q].status = "PENDING"
                                          THEN StartFinalizer(q) ELSE DoneFinalizer]
        /\ rec'[r].pc = "finalize" /\ rec[r].pc = "confirm"
    BY <1>0, <1>4 DEF RecPeriods, SetRec, RecLocals
  <2>2. StartFinalizer(p).pc = "chunks" /\ StartFinalizer(p).applied = batches[p].mirrorApplied
    BY DEF StartFinalizer, DoneFinalizer
  <2>. QED
    BY <1>4, <1>d, <2>1, <2>2 DEF FinStarted, FinStopped
<1>5. ASSUME NEW w \in rec[r].snapshot, RecConfirmChunk(r, w) \/ RecSkipChunk(r, w)
      PROVE  FinKept(r, p)
  BY <1>0, <1>5 DEF RecConfirmChunk, RecSkipChunk, SetRec, RecLocals, FinKept
<1>g. ASSUME NEW q \in Period, NEW f, GoTo(r, q, f)
      PROVE  /\ rec'[r].pc = rec[r].pc
             /\ rec'[r].fin[q] = f
             /\ q # p => FinKept(r, p)
  <2>1. rec'[r].fin = [rec[r].fin EXCEPT ![q] = f] /\ rec'[r].pc = rec[r].pc
    BY <1>0, <1>g DEF GoTo, SetRec, RecLocals
  <2>. QED
    BY <1>0, <2>1 DEF FinKept
<1>6. ASSUME NEW q \in Period, q # p,
             \/ FinChunks(r, q) \/ FinFlag(r, q) \/ FinConfirm(r, q)
             \/ FinAnchor(r, q) \/ FinAbort(r, q)
             \/ \E a \in Assets : FinMirror(r, q, a) \/ FinReadChain(r, q, a) \/ FinCompare(r, q, a)
      PROVE  FinKept(r, p)
  <2>1. \E f : GoTo(r, q, f)
    BY <1>6 DEF FinChunks, FinFlag, FinConfirm, FinAnchor, FinAbort, FinMirror, FinReadChain,
                FinCompare
  <2>. QED
    BY <1>6, <1>g, <2>1
<1>7. CASE FinChunks(r, p)
  <2>. DEFINE f == PhaseOver(rec[r].fin[p], FirstPhase(rec[r].fin[p]), batches[p].payload)
  <2>1. f.pc = FirstPhase(rec[r].fin[p]) /\ f.todo = Support(batches[p].payload)
    BY <1>0 DEF PhaseOver, Finalizer
  <2>2. /\ InPhase(r, p, "chunks")
        /\ GoTo(r, p, IF AllConfirmed(p) THEN f ELSE DoneFinalizer)
    BY <1>7 DEF FinChunks
  <2>. HIDE DEF f
  <2>3. rec'[r].pc = "finalize" /\ rec'[r].fin[p] = IF AllConfirmed(p) THEN f ELSE DoneFinalizer
    BY <1>g, <2>2 DEF InPhase
  <2>. QED
    BY <1>7, <1>d, <2>1, <2>2, <2>3 DEF FinPassed, FinStopped, InPhase
<1>8. ASSUME NEW a \in Assets, FinMirror(r, p, a)
      PROVE  FinAdded(r, p)
  <2>. DEFINE k == rec[r].fin[p]
              f == [k EXCEPT !.todo = k.todo \ {a}, !.pc = IF k.todo = {a} THEN "flag" ELSE k.pc]
  <2>1. f.todo = k.todo \ {a} /\ f.pc = IF k.todo = {a} THEN "flag" ELSE k.pc
    BY <1>0 DEF Finalizer
  <2>2. InPhase(r, p, "mirror") /\ GoTo(r, p, f)
    BY <1>8 DEF FinMirror
  <2>. HIDE DEF f
  <2>3. rec'[r].pc = "finalize" /\ rec'[r].fin[p] = f
    BY <1>g, <2>2 DEF InPhase
  <2>. QED
    BY <1>8, <2>1, <2>2, <2>3 DEF FinAdded, InPhase
<1>9. CASE FinFlag(r, p)
  <2>. DEFINE f == PhaseOver(rec[r].fin[p], "check", batches[p].payload)
  <2>1. f.pc = "check"
    BY <1>0 DEF PhaseOver, Finalizer
  <2>2. InPhase(r, p, "flag") /\ GoTo(r, p, f)
    BY <1>9 DEF FinFlag
  <2>. HIDE DEF f
  <2>3. rec'[r].pc = "finalize" /\ rec'[r].fin[p] = f
    BY <1>g, <2>2 DEF InPhase
  <2>. QED
    BY <1>9, <2>1, <2>2, <2>3 DEF FinFlagged
<1>10. ASSUME NEW a \in Assets, FinReadChain(r, p, a) \/ FinCompare(r, p, a)
       PROVE  FinCompared(r, p) \/ FinStopped(r, p)
  <2>1. rec[r].pc = "finalize" /\ rec[r].fin[p].pc \in {"check", "compare"}
    BY <1>10 DEF FinReadChain, FinCompare, InPhase
  <2>. DEFINE f == [rec[r].fin[p] EXCEPT !.pc = "compare", !.onchain = totalViews[a]]
              g == [rec[r].fin[p] EXCEPT !.todo = rec[r].fin[p].todo \ {a}, !.onchain = 0,
                      !.pc = IF rec[r].fin[p].todo = {a} THEN "confirm" ELSE "check"]
  <2>2. f.pc = "compare" /\ g.pc \in {"confirm", "check"}
    BY <1>0 DEF Finalizer
  <2>3. GoTo(r, p, f) \/ GoTo(r, p, g) \/ GoTo(r, p, DoneFinalizer)
    BY <1>10 DEF FinReadChain, FinCompare
  <2>. HIDE DEF f, g
  <2>4. rec'[r].pc = "finalize" /\ (rec'[r].fin[p] = f \/ rec'[r].fin[p] = g \/ rec'[r].fin[p] = DoneFinalizer)
    BY <1>g, <2>1, <2>3
  <2>. QED
    BY <1>10, <1>d, <2>1, <2>2, <2>4 DEF FinCompared, FinStopped
<1>11. CASE FinConfirm(r, p)
  <2>. DEFINE f == [rec[r].fin[p] EXCEPT !.pc = "anchor"]
  <2>1. f.pc = "anchor"
    BY <1>0 DEF Finalizer
  <2>2. InPhase(r, p, "confirm") /\ GoTo(r, p, f)
    BY <1>11 DEF FinConfirm
  <2>. HIDE DEF f
  <2>3. rec'[r].pc = "finalize" /\ rec'[r].fin[p] = f
    BY <1>g, <2>2 DEF InPhase
  <2>. QED
    BY <1>11, <2>1, <2>2, <2>3 DEF FinDone
<1>12. CASE FinAnchor(r, p) \/ FinAbort(r, p)
  <2>1. rec'[r].fin[p] = DoneFinalizer
    BY <1>g, <1>12 DEF FinAnchor, FinAbort
  <2>2. rec[r].fin[p].pc \in {"mirror", "flag"} => "dbError" \in Env
    BY <1>12 DEF FinAnchor, FinAbort, InPhase
  <2>. QED
    BY <1>d, <2>1, <2>2 DEF FinStopped
<1>13. CASE RecStep(r)
  BY <1>13, <1>3, <1>4, <1>5, <1>6, <1>7, <1>8, <1>9, <1>10, <1>11, <1>12 DEF RecStep
<1>14. CASE Crash
  <2>1. rec'[r].fin = IdleRec.fin /\ "crash" \in Env
    BY <1>14 DEF Crash
  <2>. QED
    BY <1>d, <2>1 DEF FinStopped
<1>15. ASSUME NEW s \in TickSlots, TickStart(s) \/ TickStep(s)
       PROVE  UNCHANGED rec
  BY <1>15 DEF TickStep, TickStart, TickAggregate, TickCreate, TickEnsure, TickFind, TickMark,
         TickMarkPeriod, TickMarkError, TickFail, TickAbort, TickSendRejected, TickSend, TickSendLost
<1>. QED
  BY <1>1, <1>2, <1>13, <1>14, <1>15
  DEF Next, AdvanceClock, RecordView, Mine, Deepen, Revert, Drop, Reorg, vars

-----------------------------------------------------------------------------
(* A receipt that is deep stays deep, and a settled period stays settled.  *)
LEMMA DeepStays ==
  ASSUME TypeOK, [Next]_vars, NEW t \in Tx, IsConfirmed(t)
  PROVE  IsConfirmed(t)'
<1>0. txs \in [Tx -> Transaction]
  BY DEF TypeOK
<1>1. CASE UNCHANGED chain
  BY <1>1 DEF chain, IsConfirmed
<1>2. ASSUME NEW p, NEW i, NEW u \in Tx, Broadcast(p, i, u)
      PROVE  IsConfirmed(t)'
  <2>1. u # t
    BY <1>2 DEF Broadcast, IsFresh, IsConfirmed
  <2>. QED
    BY <1>0, <1>2, <2>1 DEF Broadcast, IsConfirmed
<1>3. ASSUME NEW u \in Tx, Mine(u) \/ Deepen(u) \/ Revert(u) \/ Drop(u) \/ Reorg(u)
      PROVE  IsConfirmed(t)'
  <2>1. u # t
    BY <1>3 DEF Mine, Deepen, Revert, Drop, Reorg, IsConfirmed
  <2>2. \E n : txs' = [txs EXCEPT ![u] = n]
    BY <1>3 DEF Mine, Deepen, Revert, Drop, Reorg
  <2>. QED
    BY <1>0, <2>1, <2>2 DEF IsConfirmed
<1>. QED
  BY <1>1, <1>2, <1>3, ChainMoves

\* The chunks of a settled period stay as they are.
LEMMA SettledStays ==
  ASSUME Paced, SettlementInv, [Next]_vars, NEW p \in Period, Settled(p)
  PROVE  Settled(p)'
<1>0. SettlementInv' /\ PublicationInv /\ TypeOK
  BY NextSettlement DEF SettlementInv, PublicationInv
<1>1. ~NoChunks(p)
  BY DEF Settled, NoChunks, NoChunk
<1>2. ~CutMade(p)
  BY <1>1 DEF CutMade
<1>3. PICK j \in ChunkIdx : chunks[p][j].status # "absent"
  BY DEF Settled
<1>4. chunks'[p][j].status # "absent"
  BY <1>0, <1>2, <1>3, ChunksStay
<1>5. ASSUME NEW i \in ChunkIdx, chunks'[p][i].status # "absent"
      PROVE  (chunks[p][i].tx \in Tx /\ IsConfirmed(chunks[p][i].tx))'
  <2>1. chunks[p][i].status # "absent"
    <3>. SUFFICES ASSUME chunks[p][i].status = "absent" PROVE FALSE
      OBVIOUS
    <3>1. chunks[p][i].tx \in Tx \cup {NoTx} /\ chunks[p][i] \in Chunk
      BY <1>0 DEF TypeOK, Chunk
    <3>2. ChunkKept(p, i) \/ ChunkMarked(p, i) \/ ChunkFailed(p, i) \/ ChunkConfirmed(p, i)
      BY <1>0, <1>1, ChunkSteps DEF ChunkFilled
    <3>3. ~ChunkMarked(p, i) /\ ~ChunkFailed(p, i) /\ ~ChunkConfirmed(p, i)
      BY <1>0 DEF ChunkMarked, ChunkFailed, ChunkConfirmed, PublicationInv, ChunksInUse, AfterSending
    <3>. QED
      BY <1>5, <3>2, <3>3 DEF ChunkKept
  <2>2. PICK t \in Tx : t = chunks[p][i].tx /\ IsConfirmed(t)
    BY <2>1 DEF Settled
  <2>3. chunks'[p][i].tx = t
    BY <1>0, <2>2, ConstantTypes, SubmittedChunkStep DEF NoTx
  <2>4. IsConfirmed(t)'
    BY <1>0, <2>2, DeepStays
  <2>. QED
    BY <2>3, <2>4 DEF IsConfirmed
<1>. QED
  BY <1>4, <1>5 DEF Settled

-----------------------------------------------------------------------------
(* SnapshotInv, part by part.                                              *)

(* What a tick has in hand as long as it has not cut the chunks.           *)
LEMMA TickStarts ==
  ASSUME TypeOK, NEW s \in TickSlots, TickStart(s)
  PROVE  /\ UNCHANGED batches
         /\ clock - 1 \in Period /\ (Aligned => ~fired[clock - 1])
         /\ \/ tick'[s].pc = "idle"
            \/ /\ tick'[s].pc = "aggregate" /\ tick'[s].period = clock - 1
               /\ tick'[s].exists = (batches[clock - 1].status # "absent")
<1>. DEFINE p == PreviousPeriod
            n == [IdleTick EXCEPT !.pc = "aggregate", !.period = p,
                                  !.exists = (batches[p].status # "absent"),
                                  !.txSet = (batches[p].tx # NoTx)]
<1>1. n.pc = "aggregate" /\ n.period = p /\ n.exists = (batches[p].status # "absent")
  BY DEF IdleTick
<1>2. SetTick(s, IF batches[p].status = "CONFIRMED" THEN IdleTick ELSE n)
  BY DEF TickStart
<1>. HIDE DEF n
<1>3. tick'[s] = IdleTick \/ tick'[s] = n
  BY <1>2 DEF SetTick, TypeOK
<1>4. p = clock - 1
  BY DEF PreviousPeriod
<1>5. UNCHANGED batches /\ p \in Period /\ (Aligned => ~fired[p])
  BY DEF TickStart, tables, Aligned
<1>. HIDE DEF p
<1>. QED
  BY <1>1, <1>3, <1>4, <1>5 DEF IdleTick

\* How a tick comes to hold aggregates: it read the views, or it inserted the row.
LEMMA TickReads ==
  ASSUME TypeOK, NEW s \in TickSlots, TickStep(s), tick'[s].pc \in {"create", "ensure"}
  PROVE  \/ /\ TickAggregate(s) /\ tick[s].pc = "aggregate" /\ UNCHANGED batches
            /\ tick'[s].aggregates = views[tick[s].period] /\ tick'[s].period = tick[s].period
            /\ tick'[s].exists = tick[s].exists
            /\ tick'[s].pc = IF tick[s].exists THEN "ensure" ELSE "create"
         \/ /\ TickCreate(s) /\ tick[s].pc = "create" /\ tick'[s].pc = "ensure"
            /\ tick'[s].aggregates = tick[s].aggregates /\ tick'[s].period = tick[s].period
            /\ batches[tick[s].period].status = "absent"
            /\ batches' = [batches EXCEPT ![tick[s].period] =
                 [NoBatch EXCEPT !.status = "PENDING", !.payload = tick[s].aggregates]]
<1>0. tick[s] \in TickLocals /\ tick \in [TickSlots -> TickLocals]
  BY DEF TypeOK
<1>1. tick[s].pc \in {"aggregate", "create"}
  BY TickLocalsStep
<1>2. TickAggregate(s) \/ TickCreate(s) \/ TickAbort(s)
  BY <1>1 DEF TickStep, TickEnsure, TickFind, TickMark, TickMarkPeriod, TickMarkError, TickFail,
              TickSendRejected, TickSend, TickSendLost, IsNextChunk
<1>3. ~TickAbort(s)
  BY <1>0 DEF TickAbort, SetTick, IdleTick
<1>4. CASE TickAggregate(s)
  <2>1. UNCHANGED batches /\ tick[s].pc = "aggregate"
    BY <1>4 DEF TickAggregate, tables
  <2>. DEFINE n == [tick[s] EXCEPT !.pc = IF tick[s].exists THEN "ensure" ELSE "create",
                                   !.aggregates = views[tick[s].period]]
  <2>2. /\ n.pc = IF tick[s].exists THEN "ensure" ELSE "create"
        /\ n.aggregates = views[tick[s].period] /\ n.period = tick[s].period
        /\ n.exists = tick[s].exists
    BY <1>0 DEF TickLocals
  <2>3. SetTick(s, IF views[tick[s].period] = Empty THEN IdleTick ELSE n)
    BY <1>4 DEF TickAggregate
  <2>. HIDE DEF n
  <2>4. tick'[s] = n
    BY <1>0, <2>3 DEF SetTick, IdleTick
  <2>. QED
    BY <1>4, <2>1, <2>2, <2>4
<1>5. CASE TickCreate(s)
  <2>. DEFINE n == [tick[s] EXCEPT !.pc = "ensure"]
  <2>1. n.pc = "ensure" /\ n.aggregates = tick[s].aggregates /\ n.period = tick[s].period
    BY <1>0 DEF TickLocals
  <2>2. \/ /\ batches[tick[s].period].status = "absent" /\ SetTick(s, n)
           /\ batches' = [batches EXCEPT ![tick[s].period] =
                [NoBatch EXCEPT !.status = "PENDING", !.payload = tick[s].aggregates]]
        \/ SetTick(s, IdleTick)
    BY <1>5 DEF TickCreate, SetBatch
  <2>. HIDE DEF n
  <2>3. ~SetTick(s, IdleTick) /\ (SetTick(s, n) => tick'[s] = n)
    BY <1>0 DEF SetTick, IdleTick
  <2>4. tick[s].pc = "create"
    BY <1>5 DEF TickCreate
  <2>. QED
    BY <1>5, <2>1, <2>2, <2>3, <2>4
<1>. QED
  BY <1>2, <1>3, <1>4, <1>5

(* No step of a tick brings it back to its first await.                    *)
LEMMA TickKeepsOn ==
  ASSUME TypeOK, NEW s \in TickSlots, TickStep(s)
  PROVE  tick'[s].pc # "aggregate"
<1>. DEFINE k == tick[s]
<1>0. k \in TickLocals /\ tick \in [TickSlots -> TickLocals]
  BY DEF TypeOK
<1>a. \A n : SetTick(s, n) => tick'[s] = n
  BY <1>0 DEF SetTick
<1>b. IdleTick.pc = "idle"
  BY DEF IdleTick
<1>c. \A n \in TickLocals : ContinueLoop(n).pc \in {"idle", "send"}
  BY <1>b DEF ContinueLoop, TickLocals
<1>1. CASE TickAggregate(s) \/ TickCreate(s) \/ TickEnsure(s)
  BY <1>0, <1>1, <1>a, <1>b DEF TickAggregate, TickCreate, TickEnsure, TickLocals
<1>2. CASE TickFind(s) \/ TickMarkError(s) \/ TickAbort(s)
  BY <1>0, <1>2, <1>a, <1>b DEF TickFind, TickMarkError, TickAbort, TickLocals
<1>3. CASE TickMark(s) \/ TickFail(s)
  BY <1>0, <1>3, <1>a, <1>c DEF TickMark, TickFail, TickLocals
<1>4. CASE TickMarkPeriod(s)
  <2>. DEFINE n == [k EXCEPT !.txSet = TRUE]
  <2>1. n \in TickLocals
    BY <1>0 DEF TickLocals
  <2>2. SetTick(s, ContinueLoop(n))
    BY <1>4 DEF TickMarkPeriod
  <2>. HIDE DEF n
  <2>. QED
    BY <1>a, <1>c, <2>1, <2>2
<1>5. ASSUME NEW i, NEW t, TickSend(s, i, t) \/ TickSendLost(s, i, t) \/ TickSendRejected(s, i)
      PROVE  tick'[s].pc \in {"mark", "fail"}
  <2>1. \A pc, h : AfterSend(k, i, pc, h).pc = pc
    BY <1>0 DEF AfterSend, TickLocals
  <2>. QED
    BY <1>5, <1>a, <2>1 DEF TickSend, TickSendLost, TickSendRejected
<1>. QED
  BY <1>1, <1>2, <1>3, <1>4, <1>5 DEF TickStep

(* Only a row that exists is confirmed, and nobody inserts one behind the  *)
(* back of a tick that has found none.                                     *)
LEMMA NoRow ==
  ASSUME SettlementInv, CutFromBatch, [Next]_vars, NEW p \in Period,
         batches[p].status = "absent", batches'[p].status # "absent"
  PROVE  \E s \in TickSlots : TickCreate(s) /\ tick[s].pc = "create" /\ tick[s].period = p
<1>0. TypeOK
  BY DEF SettlementInv, PublicationInv
<1>1. ~RowConfirmed(p)
  <2>. SUFFICES ASSUME NEW r \in RecSlots, FinConfirm(r, p) PROVE FALSE
    BY DEF RowConfirmed
  <2>1. Settled(p)
    BY DEF FinConfirm, InPhase, SettlementInv, FinalizedIsSettled
  <2>2. NoChunks(p)
    BY DEF CutFromBatch
  <2>. QED
    BY <2>1, <2>2 DEF Settled, NoChunks, NoChunk
<1>. QED
  BY <1>0, <1>1, RowSteps DEF RowKept, RowCreated, RowFlagged

\* Chunks appear once, cut from aggregates that are those of the row.
LEMMA CutStep ==
  ASSUME Paced, PublicationInv, CutFromBatch, AggregatesInRow, [Next]_vars
  PROVE  CutFromBatch'
<1>0. TypeOK
  BY DEF PublicationInv
<1>. SUFFICES ASSUME NEW p \in Period
              PROVE  \/ NoChunks(p)'
                     \/ batches'[p].status # "absent" /\ IsCut(p, batches[p].payload)'
  BY DEF CutFromBatch
<1>1. PICK payload : payload = batches[p].payload
  OBVIOUS
<1>2. CASE CutMade(p)
  <2>1. PICK s \in TickSlots : TickEnsure(s) /\ tick[s].period = p /\ NoChunks(p)
    BY <1>2 DEF CutMade
  <2>2. batches[p].status # "absent" /\ payload = tick[s].aggregates
    BY <1>1, <2>1 DEF TickEnsure, AggregatesInRow
  <2>3. IsCut(p, payload)'
    BY <1>0, <2>1, <2>2, EnsureMakesCut
  <2>. QED
    BY <1>0, <1>1, <2>2, <2>3, RowStays DEF IsCut
<1>3. CASE ~CutMade(p)
  <2>1. CASE NoChunks(p)
    BY <1>3, <2>1, CutStays
  <2>2. CASE batches[p].status # "absent" /\ IsCut(p, payload)
    <3>1. IsCut(p, payload)'
      BY <1>3, <2>2, CutStays
    <3>. QED
      BY <1>0, <1>1, <2>2, <3>1, RowStays DEF IsCut
  <2>. QED
    BY <1>1, <2>1, <2>2 DEF CutFromBatch
<1>. QED
  BY <1>2, <1>3

\* A tick that reaches ensureChunks holds the aggregates of the row.
LEMMA AggregatesStep ==
  ASSUME Paced, TypeOK, TypeOK', AggregatesInRow, RowByOneTick, RowReadBack, RowIsViews, [Next]_vars
  PROVE  AggregatesInRow'
<1>. SUFFICES ASSUME NEW s \in TickSlots, tick'[s].pc = "ensure"
              PROVE  /\ batches'[tick'[s].period].status # "absent"
                     /\ batches'[tick'[s].period].payload = tick'[s].aggregates
  BY DEF AggregatesInRow
<1>0. /\ tick[s].pc # "idle" => tick[s].period \in Period
      /\ batches \in [Period -> Batch]
  BY DEF TypeOK, TickShape
<1>1. CASE tick'[s] = tick[s]
  BY <1>0, <1>1, RowStays DEF AggregatesInRow
<1>2. CASE TickStep(s)
  <2>1. CASE /\ tick[s].pc = "aggregate" /\ UNCHANGED batches
             /\ tick'[s].aggregates = views[tick[s].period] /\ tick'[s].period = tick[s].period
             /\ tick'[s].pc = IF tick[s].exists THEN "ensure" ELSE "create"
    <3>1. tick[s].exists /\ tick[s].period \in Period
      BY <1>0, <2>1
    <3>2. OneAtATime
      BY <2>1, <3>1 DEF RowByOneTick, Paced
    <3>3. batches[tick[s].period].status # "absent"
      BY <2>1, <3>1, <3>2 DEF RowReadBack
    <3>4. batches[tick[s].period].payload = views[tick[s].period]
      BY <3>1, <3>2, <3>3 DEF RowIsViews, OneAtATime
    <3>. QED
      BY <2>1, <3>3, <3>4
  <2>2. CASE /\ tick[s].pc = "create"
             /\ tick'[s].aggregates = tick[s].aggregates /\ tick'[s].period = tick[s].period
             /\ batches' = [batches EXCEPT ![tick[s].period] =
                  [NoBatch EXCEPT !.status = "PENDING", !.payload = tick[s].aggregates]]
    <3>. DEFINE b == [NoBatch EXCEPT !.status = "PENDING", !.payload = tick[s].aggregates]
    <3>1. b.status = "PENDING" /\ b.payload = tick[s].aggregates
      BY DEF NoBatch
    <3>2. batches'[tick[s].period] = b
      BY <1>0, <2>2
    <3>. HIDE DEF b
    <3>. QED
      BY <2>2, <3>1, <3>2
  <2>. QED
    BY <1>2, <2>1, <2>2, TickReads
<1>3. ~TickStart(s)
  BY TickStarts
<1>4. ~Crash
  BY DEF Crash, IdleTick
<1>. QED
  BY <1>1, <1>2, <1>3, <1>4, TickMoves

(* fired only grows.                                                       *)
LEMMA FiredStays ==
  ASSUME TypeOK, [Next]_vars, NEW p \in Period, fired[p]
  PROVE  fired'[p]
<1>1. ASSUME NEW s \in TickSlots, TickStart(s)
      PROVE  fired'[p]
  BY <1>1 DEF TickStart, TypeOK
<1>2. ASSUME NEW s \in TickSlots, TickStep(s)
      PROVE  UNCHANGED fired
  BY <1>2 DEF TickStep, TickAggregate, TickCreate, TickEnsure, TickFind, TickMark,
     TickMarkPeriod, TickMarkError, TickFail, TickAbort, TickSendRejected, TickSend, TickSendLost
<1>3. ASSUME NEW r \in RecSlots, RecStep(r)
      PROVE  UNCHANGED fired
  BY <1>3 DEF RecStep, RecStart, RecConfirmChunk, RecSkipChunk, RecPeriods, RecAbort, RecEnd,
       FinChunks, FinMirror, FinFlag, FinReadChain, FinCompare, FinConfirm, FinAnchor, FinAbort
<1>. QED
  BY <1>1, <1>2, <1>3
  DEF Next, AdvanceClock, RecordView, Mine, Deepen, Revert, Drop, Reorg, Crash, vars

\* An aligned period is fired once, by the tick that inserts its row.
LEMMA RowByOneStep ==
  ASSUME SettlementInv, CutFromBatch, RowByOneTick, [Next]_vars
  PROVE  RowByOneTick'
<1>. SUFFICES ASSUME Aligned
              PROVE  /\ \A p \in Period : ~fired'[p] => batches'[p].status = "absent"
                     /\ \A s \in TickSlots : tick'[s].pc \in {"aggregate", "create"} =>
                          batches'[tick'[s].period].status = "absent" /\ ~tick'[s].exists
  BY DEF RowByOneTick, Aligned
<1>0. /\ TypeOK /\ PublicationInv
      /\ \A s \in TickSlots : tick[s].pc # "idle" => tick[s].period \in Period
  BY DEF SettlementInv, PublicationInv, TypeOK, TickShape
<1>1. ASSUME NEW p \in Period, ~fired'[p]
      PROVE  batches'[p].status = "absent"
  <2>1. ~fired[p] /\ batches[p].status = "absent"
    BY <1>0, <1>1, FiredStays DEF RowByOneTick
  <2>2. \A s \in TickSlots : tick[s].pc # "idle" => tick[s].period # p
    BY <1>0, <2>1 DEF PublicationInv, TicksApart
  <2>. QED
    BY <2>1, <2>2, NoRow
<1>2. ASSUME NEW s \in TickSlots, tick'[s].pc \in {"aggregate", "create"}
      PROVE  batches'[tick'[s].period].status = "absent" /\ ~tick'[s].exists
  <2>1. CASE tick'[s] = tick[s]
    <3>1. /\ tick[s].period \in Period /\ batches[tick[s].period].status = "absent"
          /\ ~tick[s].exists /\ tick[s].pc # "idle"
      BY <1>0, <1>2, <2>1 DEF RowByOneTick
    <3>2. SUFFICES ASSUME NEW z \in TickSlots, TickCreate(z), tick[z].pc = "create",
                          tick[z].period = tick[s].period
                   PROVE  FALSE
      BY <2>1, <3>1, NoRow
    <3>3. z = s
      BY <1>0, <3>1, <3>2 DEF PublicationInv, TicksApart
    <3>4. tick'[s].pc # "create"
      <4>1. SetTick(s, [tick[s] EXCEPT !.pc = "ensure"]) \/ SetTick(s, IdleTick)
        BY <3>2, <3>3 DEF TickCreate
      <4>. QED
        BY <1>0, <4>1 DEF SetTick, IdleTick, TypeOK, TickLocals
    <3>. QED
      BY <2>1, <3>2, <3>3, <3>4
  <2>2. CASE TickStart(s)
    <3>1. batches[clock - 1].status = "absent" /\ UNCHANGED batches
      BY <1>0, <2>2, TickStarts DEF RowByOneTick
    <3>. QED
      BY <1>0, <1>2, <2>2, <3>1, TickStarts
  <2>3. CASE TickStep(s)
    <3>1. tick'[s].pc = "create"
      BY <1>0, <1>2, <2>3, TickKeepsOn
    <3>2. /\ tick[s].pc = "aggregate" /\ UNCHANGED batches
          /\ tick'[s].period = tick[s].period /\ tick'[s].exists = tick[s].exists
      BY <1>0, <2>3, <3>1, TickReads
    <3>. QED
      BY <3>2 DEF RowByOneTick
  <2>4. ~Crash
    BY <1>2 DEF Crash, IdleTick
  <2>. QED
    BY <1>0, <2>1, <2>2, <2>3, <2>4, TickMoves
<1>. QED
  BY <1>1, <1>2

\* What a tick alone has read of the row is still so.
LEMMA RowReadStep ==
  ASSUME SettlementInv, CutFromBatch, RowReadBack, [Next]_vars
  PROVE  RowReadBack'
<1>. SUFFICES ASSUME OneAtATime, NEW s \in TickSlots
              PROVE  /\ tick'[s].pc = "aggregate" =>
                          tick'[s].exists = (batches'[tick'[s].period].status # "absent")
                     /\ tick'[s].pc = "create" => batches'[tick'[s].period].status = "absent"
  BY DEF RowReadBack, OneAtATime
<1>0. /\ TypeOK /\ PublicationInv
      /\ tick[s].pc # "idle" => tick[s].period \in Period
      /\ \A z \in TickSlots : z = s
  BY DEF SettlementInv, PublicationInv, TypeOK, TickShape, OneAtATime
<1>1. CASE tick'[s] = tick[s]
  <2>1. CASE tick[s].pc \in {"aggregate", "create"}
    <3>1. ~TickCreate(s)
      <4>1. TickCreate(s) => /\ tick[s].pc = "create"
                             /\ SetTick(s, [tick[s] EXCEPT !.pc = "ensure"]) \/ SetTick(s, IdleTick)
        BY DEF TickCreate
      <4>. QED
        BY <1>0, <1>1, <4>1 DEF SetTick, IdleTick, TypeOK, TickLocals
    <3>2. batches[tick[s].period].status = "absent" => batches'[tick[s].period].status = "absent"
      BY <1>0, <2>1, <3>1, NoRow
    <3>3. batches[tick[s].period].status # "absent" => batches'[tick[s].period].status # "absent"
      BY <1>0, <2>1, RowStays
    <3>. QED
      BY <1>1, <3>2, <3>3 DEF RowReadBack
  <2>2. CASE tick[s].pc \notin {"aggregate", "create"}
    BY <1>1, <2>2
  <2>. QED
    BY <2>1, <2>2
<1>2. CASE TickStart(s)
  BY <1>0, <1>2, TickStarts
<1>3. CASE TickStep(s)
  <2>1. tick'[s].pc # "aggregate"
    BY <1>0, <1>3, TickKeepsOn
  <2>2. CASE tick'[s].pc = "create"
    <3>1. /\ tick[s].pc = "aggregate" /\ UNCHANGED batches
          /\ tick'[s].period = tick[s].period /\ ~tick[s].exists
      BY <1>0, <1>3, <2>2, TickReads
    <3>. QED
      BY <2>2, <3>1 DEF RowReadBack
  <2>. QED
    BY <2>1, <2>2
<1>. QED
  BY <1>0, <1>1, <1>2, <1>3, TickMoves DEF OneAtATime, Crash

\* The views of a period that is over do not change unless late ones come.
LEMMA RowIsViewsStep ==
  ASSUME SettlementInv, TypeOK', CutFromBatch, RowIsViews, [Next]_vars
  PROVE  RowIsViews'
<1>. SUFFICES ASSUME "lateView" \notin Env
              PROVE  /\ \A p \in Period : batches'[p].status # "absent" =>
                          p < clock' /\ batches'[p].payload = views'[p]
                     /\ \A s \in TickSlots :
                          /\ tick'[s].pc # "idle" => tick'[s].period < clock'
                          /\ tick'[s].pc \in {"create", "ensure"} =>
                               tick'[s].aggregates = views'[tick'[s].period]
  BY DEF RowIsViews
<1>0. /\ TypeOK /\ clock \in Nat /\ Period \subseteq Nat
      /\ clock' \in {clock, clock + 1}
      /\ \A p \in Period : p < clock => p < clock' /\ views'[p] = views[p]
  <2>1. TypeOK /\ clock \in Nat /\ Period \subseteq Nat
    BY ConstantsAssumption DEF SettlementInv, PublicationInv, TypeOK, ConstantsAssumption, Period
  <2>2. clock' \in {clock, clock + 1} /\ \A p \in Period : p < clock => views'[p] = views[p]
    BY <2>1, ClosedPeriods
  <2>. QED
    BY <2>1, <2>2
<1>1. ASSUME NEW p \in Period, batches'[p].status # "absent"
      PROVE  p < clock' /\ batches'[p].payload = views'[p]
  <2>1. CASE batches[p].status # "absent"
    BY <1>0, <2>1, RowStays DEF RowIsViews
  <2>2. CASE batches[p].status = "absent"
    <3>1. PICK s \in TickSlots : TickCreate(s) /\ tick[s].pc = "create" /\ tick[s].period = p
      BY <1>1, <2>2, NoRow
    <3>2. p < clock /\ tick[s].aggregates = views[p]
      BY <3>1 DEF RowIsViews
    <3>3. batches'[p].payload = tick[s].aggregates
      <4>1. \/ UNCHANGED batches
            \/ batches' = [batches EXCEPT ![p] =
                 [NoBatch EXCEPT !.status = "PENDING", !.payload = tick[s].aggregates]]
        BY <3>1 DEF TickCreate, SetBatch
      <4>. QED
        BY <1>0, <1>1, <2>2, <4>1 DEF TypeOK, NoBatch
    <3>. QED
      BY <1>0, <3>2, <3>3
  <2>. QED
    BY <2>1, <2>2
<1>2. ASSUME NEW s \in TickSlots
      PROVE  /\ tick'[s].pc # "idle" => tick'[s].period < clock'
             /\ tick'[s].pc \in {"create", "ensure"} =>
                  tick'[s].aggregates = views'[tick'[s].period]
  BY <1>0, RetryTicks DEF RowIsViews
<1>. QED
  BY <1>1, <1>2

\* No transaction reverts where the environment reverts none.
LEMMA NeverRevertedStep ==
  ASSUME TypeOK, NeverReverted, [Next]_vars
  PROVE  NeverReverted'
<1>. SUFFICES ASSUME "txReverted" \notin Env, NEW t \in Tx
              PROVE  txs'[t].state # "reverted"
  BY DEF NeverReverted
<1>0. txs \in [Tx -> Transaction] /\ txs[t].state # "reverted"
  BY DEF TypeOK, NeverReverted
<1>1. CASE UNCHANGED chain
  BY <1>0, <1>1 DEF chain
<1>2. ASSUME NEW p, NEW i, NEW u \in Tx, Broadcast(p, i, u)
      PROVE  txs'[t].state # "reverted"
  BY <1>0, <1>2 DEF Broadcast
<1>3. ASSUME NEW u \in Tx, Mine(u) \/ Deepen(u) \/ Revert(u) \/ Drop(u) \/ Reorg(u)
      PROVE  txs'[t].state # "reverted"
  <2>1. \E state \in {"pool", "mined", "deep", "dropped"} :
          txs' = [txs EXCEPT ![u] = [txs[u] EXCEPT !.state = state]]
    BY <1>3 DEF Mine, Deepen, Revert, Drop, Reorg
  <2>. QED
    BY <1>0, <2>1 DEF Transaction
<1>. QED
  BY <1>1, <1>2, <1>3, ChainMoves

(* anchored is written by a finaliser that has confirmed its period.       *)
LEMMA Anchors ==
  ASSUME TypeOK, [Next]_vars, NEW p \in Period
  PROVE  \/ anchored'[p] = anchored[p]
         \/ /\ \E r \in RecSlots : rec[r].fin[p].pc = "anchor"
            /\ anchored'[p] = views[p] /\ UNCHANGED <<views, batches>>
<1>1. ASSUME NEW s \in TickSlots, TickStart(s) \/ TickStep(s)
      PROVE  UNCHANGED anchored
  BY <1>1 DEF TickStart, TickStep, TickAggregate, TickCreate, TickEnsure, TickFind, TickMark,
     TickMarkPeriod, TickMarkError, TickFail, TickAbort, TickSendRejected, TickSend, TickSendLost,
     tables
<1>2. ASSUME NEW r \in RecSlots, RecStep(r)
      PROVE  UNCHANGED anchored \/ \E q \in Period : FinAnchor(r, q)
  BY <1>2 DEF RecStep, RecStart, RecConfirmChunk, RecSkipChunk, RecPeriods, RecAbort, RecEnd,
       FinChunks, FinMirror, FinFlag, FinReadChain, FinCompare, FinConfirm, FinAbort, tables
<1>3. ASSUME NEW r \in RecSlots, NEW q \in Period, FinAnchor(r, q)
      PROVE  \/ anchored'[p] = anchored[p]
             \/ /\ rec[r].fin[p].pc = "anchor"
                /\ anchored'[p] = views[p] /\ UNCHANGED <<views, batches>>
  BY <1>3 DEF FinAnchor, InPhase, TypeOK
<1>. QED
  BY <1>1, <1>2, <1>3
  DEF Next, AdvanceClock, RecordView, Mine, Deepen, Revert, Drop, Reorg, Crash, vars, tables

\* Views are marked anchored after their period was confirmed.
LEMMA AnchoredStep ==
  ASSUME SettlementInv, AnchoredIsConfirmed, RowIsViews, [Next]_vars
  PROVE  AnchoredIsConfirmed'
<1>0. TypeOK
  BY DEF SettlementInv, PublicationInv
<1>1. ASSUME NEW r \in RecSlots, NEW p \in Period, rec'[r].fin[p].pc = "anchor"
      PROVE  batches'[p].status = "CONFIRMED"
  <2>1. CASE rec[r].fin[p].pc = "anchor"
    BY <1>0, <2>1, ConfirmedBatchStep DEF AnchoredIsConfirmed
  <2>2. CASE FinDone(r, p)
    BY <1>0, <2>2 DEF FinDone, FinConfirm, SetBatch, TypeOK, Batch
  <2>3. FinKept(r, p) => rec[r].fin[p].pc = "anchor"
    BY <1>1 DEF FinKept
  <2>4. ~(FinStopped(r, p) \/ FinStarted(r, p) \/ FinPassed(r, p) \/ FinAdded(r, p)
            \/ FinFlagged(r, p) \/ FinCompared(r, p))
    BY <1>1 DEF FinStopped, FinStarted, FinPassed, FinAdded, FinFlagged, FinCompared, FirstPhase
  <2>. QED
    BY <1>0, <2>1, <2>2, <2>3, <2>4, FinSteps
<1>2. ASSUME "lateView" \notin Env, NEW p \in Period
      PROVE  anchored'[p] = Empty \/ (batches'[p].status = "CONFIRMED" /\ anchored'[p] = views'[p])
  <2>1. CASE anchored'[p] = anchored[p]
    <3>1. CASE anchored[p] = Empty
      BY <2>1, <3>1
    <3>2. CASE batches[p].status = "CONFIRMED" /\ anchored[p] = views[p]
      <4>1. p < clock
        BY <1>2, <3>2 DEF RowIsViews
      <4>2. views'[p] = views[p]
        BY <1>0, <1>2, <4>1, ClosedPeriods
      <4>. QED
        BY <1>0, <2>1, <3>2, <4>2, ConfirmedBatchStep
    <3>. QED
      BY <1>2, <3>1, <3>2 DEF AnchoredIsConfirmed
  <2>2. ASSUME NEW r \in RecSlots, rec[r].fin[p].pc = "anchor", anchored'[p] = views[p],
               UNCHANGED <<views, batches>>
        PROVE  batches'[p].status = "CONFIRMED" /\ anchored'[p] = views'[p]
    BY <2>2 DEF AnchoredIsConfirmed
  <2>. QED
    BY <1>0, <2>1, <2>2, Anchors
<1>. QED
  BY <1>1, <1>2 DEF AnchoredIsConfirmed

\* The row is flagged by the finaliser that found all chunks confirmed.
LEMMA AppliedStep ==
  ASSUME Paced, SettlementInv, AppliedIsSettled, [Next]_vars
  PROVE  AppliedIsSettled'
<1>. SUFFICES ASSUME NEW p \in Period, batches'[p].mirrorApplied PROVE Settled(p)'
  BY DEF AppliedIsSettled
<1>1. CASE batches[p].mirrorApplied
  BY <1>1, SettledStays DEF AppliedIsSettled
<1>2. CASE RowFlagged(p)
  <2>1. Settled(p)
    BY <1>2 DEF RowFlagged, FinFlag, InPhase, SettlementInv, FinalizedIsSettled
  <2>. QED
    BY <2>1, SettledStays
<1>. QED
  BY <1>1, <1>2, RowSteps DEF RowKept, RowCreated, RowConfirmed, SettlementInv, PublicationInv

\* There is no row, no chunk and no tick at first.
LEMMA InitSnapshot == Init => SnapshotInv
<1>. SUFFICES ASSUME Init PROVE SnapshotInv
  OBVIOUS
<1>0. SettlementInv
  BY InitSettlement
<1>1. /\ \A s \in TickSlots : tick[s].pc = "idle"
      /\ \A r \in RecSlots, p \in Period : rec[r].fin[p].pc = "done"
      /\ \A p \in Period : NoChunks(p) /\ batches[p].status = "absent" /\ ~batches[p].mirrorApplied
      /\ \A p \in Period : anchored[p] = Empty
      /\ \A t \in Tx : txs[t].state = "unsent"
  BY DEF Init, IdleTick, IdleRec, DoneFinalizer, NoChunks, NoBatch, Unsent
<1>. QED
  BY <1>0, <1>1 DEF SnapshotInv, CutFromBatch, AggregatesInRow, RowByOneTick, RowReadBack,
     RowIsViews, NeverReverted, AnchoredIsConfirmed, AppliedIsSettled

\* The parts together are inductive.
LEMMA NextSnapshot ==
  ASSUME Paced, SnapshotInv, [Next]_vars
  PROVE  SnapshotInv'
<1>0. /\ SettlementInv /\ SettlementInv' /\ PublicationInv /\ TypeOK /\ TypeOK'
      /\ CutFromBatch /\ AggregatesInRow /\ RowByOneTick /\ RowReadBack /\ RowIsViews
      /\ NeverReverted /\ AnchoredIsConfirmed /\ AppliedIsSettled
  <2>1. SettlementInv'
    BY NextSettlement DEF SnapshotInv
  <2>. QED
    BY <2>1 DEF SnapshotInv, SettlementInv, PublicationInv
<1>1. CutFromBatch' /\ AggregatesInRow'
  BY <1>0, CutStep, AggregatesStep
<1>2. RowByOneTick' /\ RowReadBack' /\ RowIsViews'
  BY <1>0, RowByOneStep, RowReadStep, RowIsViewsStep
<1>3. NeverReverted' /\ AnchoredIsConfirmed' /\ AppliedIsSettled'
  BY <1>0, NeverRevertedStep, AnchoredStep, AppliedStep
<1>. QED
  BY <1>0, <1>1, <1>2, <1>3 DEF SnapshotInv

(***************************************************************************)
(* In either regime the chunks of a period are the cut of the payload its  *)
(* row has kept since createPending, and what is anchored or applied to    *)
(* the mirror belongs to a settled period.                                 *)
(***************************************************************************)
THEOREM SnapshotInvariant ==
  ASSUME Paced
  PROVE  Spec => []SnapshotInv
<1>1. SnapshotInv /\ [Next]_vars => SnapshotInv'
  BY NextSnapshot
<1>. QED
  BY <1>1, InitSnapshot, PTL DEF Spec

-----------------------------------------------------------------------------
(* Every asset of a payload is in a slice that has a chunk index.          *)
LEMMA SliceOfAsset ==
  ASSUME NEW payload \in Payload, NEW a \in Assets
  PROVE  \E i \in ChunkIdx : Slice(payload, i)[a] = payload[a]
<1>. DEFINE before == {b \in Support(payload) : b < a}
            i == Position(a, payload) \div MaxChunk
<1>1. IsFiniteSet(Assets) /\ MaxChunk \in Nat \ {0}
  BY ConstantsAssumption DEF ConstantsAssumption
<1>2. before \subseteq Assets \ {a}
  BY ConstantsAssumption DEF Support, ConstantsAssumption
<1>3. /\ Cardinality(Assets \ {a}) = Cardinality(Assets) - 1
      /\ Cardinality(Assets) \in Nat
      /\ IsFiniteSet(Assets \ {a})
  BY <1>1, FS_RemoveElement, FS_CardinalityType
<1>4. Cardinality(before) \in Nat /\ Cardinality(before) <= Cardinality(Assets \ {a})
  BY <1>2, <1>3, FS_Subset, FS_CardinalityType
<1>5. Position(a, payload) \in Nat /\ Position(a, payload) <= Cardinality(Assets) - 1
  BY <1>3, <1>4 DEF Position
<1>6. \A n \in Nat, d \in Nat \ {0} : n \div d \in 0..n
  OBVIOUS
<1>7. i \in 0..Position(a, payload)
  BY <1>1, <1>5, <1>6
<1>8. i \in ChunkIdx
  BY <1>3, <1>5, <1>7 DEF ChunkIdx
<1>9. Slice(payload, i)[a] = payload[a]
  BY DEF Slice
<1>. QED
  BY <1>8, <1>9

(***************************************************************************)
(* If no transaction reverts, what the chain has counted for a settled     *)
(* period is the payload of its row.                                       *)
(***************************************************************************)
LEMMA SettledIsPublished ==
  ASSUME "txReverted" \notin Env, SnapshotInv, NEW p \in Period, Settled(p), NEW a \in Assets
  PROVE  PublishedIn(p, a) = batches[p].payload[a]
<1>. DEFINE payload == batches[p].payload
<1>0. /\ PublicationInv /\ TypeOK /\ payload \in Payload /\ payload[a] \in Nat
      /\ \A i \in ChunkIdx : chunks[p][i] \in Chunk
  BY DEF SnapshotInv, SettlementInv, PublicationInv, TypeOK, Batch, Payload
<1>1. ~NoChunks(p)
  BY DEF Settled, NoChunks, NoChunk
<1>2. IsCut(p, payload)
  BY <1>1 DEF SnapshotInv, CutFromBatch
<1>3. CASE payload[a] > 0
  <2>1. PICK i \in ChunkIdx : Slice(payload, i)[a] = payload[a]
    BY <1>0, SliceOfAsset
  <2>2. Slice(payload, i) # Empty
    BY <1>3, <2>1 DEF Empty
  <2>3. chunks[p][i].status # "absent" /\ chunks[p][i].payload = Slice(payload, i)
    BY <1>2, <2>2 DEF IsCut
  <2>4. PICK t \in Tx : t = chunks[p][i].tx /\ IsConfirmed(t)
    BY <2>3 DEF Settled
  <2>5. Published(t)
    BY <2>4 DEF IsConfirmed, Published, SnapshotInv, NeverReverted
  <2>6. SentFrom(t, p, i)
    BY <2>4, ConstantTypes DEF SnapshotInv, SettlementInv, ChunkHash, NoTx
  <2>7. txs[t].period = p /\ txs[t].payload = Slice(payload, i)
    BY <1>0, <2>3, <2>6 DEF PublicationInv, SentPayload, SentFrom
  <2>8. PublishedIn(p, a) = txs[t].payload[a]
    BY <1>0, <1>3, <2>1, <2>5, <2>7, OneCounts
  <2>. QED
    BY <2>1, <2>7, <2>8
<1>4. CASE ~(payload[a] > 0)
  <2>1. payload[a] = 0
    BY <1>0, <1>4
  <2>2. ASSUME NEW t \in Tx, Published(t), txs[t].period = p
        PROVE  txs[t].payload[a] = 0
    <3>1. PICK i \in ChunkIdx : txs[t].payload = chunks[p][i].payload
      BY <1>0, <2>2 DEF PublicationInv, SentPayload, Sent, Published
    <3>2. chunks[p][i] = NoChunk \/ chunks[p][i].payload = Slice(payload, i)
      BY <1>2 DEF IsCut
    <3>3. NoChunk.payload[a] = 0
      BY DEF NoChunk, Empty
    <3>4. Slice(payload, i)[a] = 0
      BY <2>1 DEF Slice
    <3>. QED
      BY <3>1, <3>2, <3>3, <3>4
  <2>3. PublishedIn(p, a) = 0
    BY <1>0, <2>2, NoneCounts
  <2>. QED
    BY <2>1, <2>3
<1>. QED
  BY <1>3, <1>4

(***************************************************************************)
(* If no transaction reverts, in either regime every view of the snapshot  *)
(* of a CONFIRMED period is on chain, exactly once.                        *)
(***************************************************************************)
THEOREM ConfirmedPeriodsArePublished ==
  ASSUME Paced, "txReverted" \notin Env
  PROVE  Spec => []ConfirmedPeriodIsPublished
<1>1. SnapshotInv => ConfirmedPeriodIsPublished
  BY SettledIsPublished
  DEF ConfirmedPeriodIsPublished, SnapshotInv, SettlementInv, FinalizedIsSettled
<1>. QED
  BY <1>1, SnapshotInvariant, PTL

(***************************************************************************)
(* If moreover no view comes late, a view that is marked anchored is       *)
(* counted on chain.                                                       *)
(***************************************************************************)
THEOREM AnchoredViewsAreCounted ==
  ASSUME Paced, {"txReverted", "lateView"} \cap Env = {}
  PROVE  Spec => []AnchoredViewsArePublished
<1>1. SnapshotInv => AnchoredViewsArePublished
  <2>. SUFFICES ASSUME SnapshotInv, NEW p \in Period, NEW a \in Assets
                PROVE  anchored[p][a] <= PublishedIn(p, a)
    BY DEF AnchoredViewsArePublished
  <2>0. /\ TypeOK /\ PublishedIn(p, a) \in Int /\ 0 <= PublishedIn(p, a)
    BY PublishedTypes DEF PublishedTyped, SnapshotInv, SettlementInv, PublicationInv
  <2>1. CASE anchored[p] = Empty
    BY <2>0, <2>1 DEF Empty
  <2>2. CASE batches[p].status = "CONFIRMED" /\ anchored[p] = views[p]
    <3>1. Settled(p)
      BY <2>2 DEF SnapshotInv, SettlementInv, FinalizedIsSettled
    <3>2. batches[p].payload = views[p]
      BY <2>2 DEF SnapshotInv, RowIsViews
    <3>3. PublishedIn(p, a) = batches[p].payload[a]
      BY <3>1, SettledIsPublished
    <3>. QED
      BY <2>0, <2>2, <3>2, <3>3
  <2>. QED
    BY <2>1, <2>2 DEF SnapshotInv, AnchoredIsConfirmed
<1>. QED
  BY <1>1, SnapshotInvariant, PTL

-----------------------------------------------------------------------------
(***************************************************************************)
(* The mirror.  Finalisers of one period may overlap, start again after a  *)
(* crash, and add the period more than once: its views are then counted    *)
(* too often, but those that the flags speak of are never missing.         *)
(***************************************************************************)
MirrorTerm(p, a) == IF InMirror(p, a) THEN batches[p].payload[a] ELSE 0
MirrorTerms(a) == [p \in Period |-> MirrorTerm(p, a)]
MirrorCoversTerms == \A a \in Assets : SumFunction(MirrorTerms(a)) <= mirror[a]

\* The sum of what is flagged or being added, as one sum of terms.
LEMMA CoversAsTerms == MirrorCoversApplied <=> MirrorCoversTerms
<1>1. \A a \in Assets : MirrorTerms(a) =
        [p \in Period |-> IF InMirror(p, a) THEN batches[p].payload[a] ELSE 0]
  BY DEF MirrorTerms, MirrorTerm
<1>. QED
  BY <1>1 DEF MirrorCoversApplied, MirrorCoversTerms, Sum

\* A finaliser is started for a row, and only a finaliser flags one.
LEMMA NoRowNoFinalizer ==
  ASSUME TypeOK, OnlyRowsAreFinalized, [Next]_vars, NEW p \in Period,
         batches[p].status = "absent"
  PROVE  /\ ~batches'[p].mirrorApplied
         /\ \A r \in RecSlots : rec'[r].fin[p].pc = "done"
<1>1. ~RowFlagged(p)
  BY DEF RowFlagged, FinFlag, InPhase, OnlyRowsAreFinalized
<1>2. ~batches'[p].mirrorApplied
  BY <1>1, RowSteps DEF RowKept, RowCreated, RowConfirmed, FinConfirm, InPhase,
     OnlyRowsAreFinalized
<1>3. ASSUME NEW r \in RecSlots
      PROVE  rec'[r].fin[p].pc = "done"
  <2>1. rec[r].fin[p].pc = "done"
    BY DEF OnlyRowsAreFinalized
  <2>2. ~FinStarted(r, p)
    BY DEF FinStarted
  <2>. QED
    BY <2>1, <2>2, FinSteps DEF FinKept, FinStopped, FinPassed, FinAdded, FinFlagged,
       FinCompared, FinDone, InPhase
<1>. QED
  BY <1>2, <1>3

\* What is not in the table is not finalised after a step either.
LEMMA OnlyRowsStep ==
  ASSUME TypeOK, OnlyRowsAreFinalized, [Next]_vars
  PROVE  OnlyRowsAreFinalized'
<1>. SUFFICES ASSUME NEW p \in Period, batches'[p].status = "absent"
              PROVE  /\ ~batches'[p].mirrorApplied
                     /\ \A r \in RecSlots : rec'[r].fin[p].pc = "done"
  BY DEF OnlyRowsAreFinalized
<1>1. batches[p].status = "absent"
  BY RowStays
<1>. QED
  BY <1>1, NoRowNoFinalizer

(* Only incrementMirrorViews of asset a brings more of a into the mirror.  *)
AddsTo(p, a) == \E r \in RecSlots : FinMirror(r, p, a)

\* A step that adds nothing of this asset and period leaves the term as it is,
\* flagging takes over from the finaliser that has added everything, or forgets
\* a finaliser that had not come to the flag: the term never grows.
LEMMA TermNeverGrows ==
  ASSUME TypeOK, TypeOK', OnlyRowsAreFinalized, [Next]_vars,
         NEW p \in Period, NEW a \in Assets, ~AddsTo(p, a)
  PROVE  MirrorTerm(p, a)' <= MirrorTerm(p, a)
<1>0. batches[p].payload[a] \in Nat /\ batches'[p].payload[a] \in Nat
  BY DEF TypeOK, Batch, Payload
<1>1. CASE ~InMirror(p, a)'
  BY <1>0, <1>1 DEF MirrorTerm
<1>2. CASE InMirror(p, a)'
  <2>1. batches[p].status # "absent"
    BY <1>2, NoRowNoFinalizer DEF InMirror, Touched, InPhase
  <2>2. batches'[p].payload = batches[p].payload
    BY <2>1, RowStays
  <2>3. CASE batches'[p].mirrorApplied
    <3>1. RowFlagged(p) => InMirror(p, a)
      BY DEF RowFlagged, FinFlag, InMirror, Touched
    <3>2. ~RowFlagged(p) => InMirror(p, a)
      BY <2>1, <2>3, RowSteps DEF RowKept, RowCreated, RowConfirmed, InMirror
    <3>3. InMirror(p, a)
      BY <3>1, <3>2
    <3>. QED
      BY <1>0, <2>2, <3>3 DEF MirrorTerm
  <2>4. ASSUME NEW r \in RecSlots, Touched(r, p, a)'
        PROVE  Touched(r, p, a) \/ batches[p].payload[a] = 0
    <3>0. rec'[r].pc = "finalize" /\ rec'[r].fin[p].pc \in {"flag", "mirror"}
      BY <2>4 DEF Touched, InPhase
    <3>1. CASE FinKept(r, p)
      BY <2>4, <3>1 DEF FinKept, Touched, InPhase
    <3>2. CASE FinPassed(r, p)
      <4>1. /\ rec'[r].fin[p].pc \in {"check", "mirror"}
            /\ rec'[r].fin[p].todo = Support(batches[p].payload)
        BY <3>2 DEF FinPassed, FirstPhase
      <4>2. a \notin Support(batches[p].payload)
        BY <2>4, <4>1 DEF Touched, InPhase
      <4>. QED
        BY <1>0, <4>2 DEF Support
    <3>3. CASE FinAdded(r, p)
      <4>1. PICK b \in Assets :
              /\ FinMirror(r, p, b) /\ InPhase(r, p, "mirror")
              /\ rec'[r].fin[p].todo = rec[r].fin[p].todo \ {b}
              /\ rec'[r].fin[p].pc = IF rec[r].fin[p].todo = {b} THEN "flag" ELSE "mirror"
        BY <3>3 DEF FinAdded
      <4>2. b # a
        BY <4>1 DEF AddsTo
      <4>3. a \notin rec[r].fin[p].todo
        BY <2>4, <4>1, <4>2 DEF Touched, InPhase
      <4>. QED
        BY <4>1, <4>3 DEF Touched
    <3>4. ~FinStopped(r, p) /\ ~FinStarted(r, p) /\ ~FinFlagged(r, p)
          /\ ~FinCompared(r, p) /\ ~FinDone(r, p)
      BY <3>0 DEF FinStopped, FinStarted, FinFlagged, FinCompared, FinDone
    <3>. QED
      BY <3>1, <3>2, <3>3, <3>4, FinSteps
  <2>5. CASE \E r \in RecSlots : Touched(r, p, a)'
    <3>1. InMirror(p, a) \/ batches[p].payload[a] = 0
      BY <2>4, <2>5 DEF InMirror
    <3>. QED
      BY <1>0, <2>2, <3>1 DEF MirrorTerm
  <2>. QED
    BY <1>2, <2>3, <2>5 DEF InMirror
<1>. QED
  BY <1>1, <1>2

(* incrementMirrorViews adds at least what the term grows by.              *)
LEMMA MirrorAdds ==
  ASSUME TypeOK, NEW r \in RecSlots, NEW p \in Period, NEW a \in Assets, FinMirror(r, p, a)
  PROVE  /\ 0 <= MirrorTerm(p, a)
         /\ MirrorTerm(p, a)' <= batches[p].payload[a]
         /\ mirror'[a] = mirror[a] + batches[p].payload[a]
         /\ \A b \in Assets \ {a} : mirror'[b] = mirror[b]
<1>0. batches[p].payload[a] \in Nat /\ mirror \in [Assets -> Nat]
  BY DEF TypeOK, Batch, Payload
<1>1. /\ UNCHANGED batches
      /\ mirror' = [mirror EXCEPT ![a] = mirror[a] + batches[p].payload[a]]
  BY DEF FinMirror
<1>. QED
  BY <1>0, <1>1 DEF MirrorTerm

\* Only the finaliser writes the mirror.
LEMMA MirrorChanges ==
  ASSUME [Next]_vars
  PROVE  UNCHANGED mirror \/ \E p \in Period, a \in Assets : AddsTo(p, a)
<1>1. ASSUME NEW s \in TickSlots, TickStart(s) \/ TickStep(s)
      PROVE  UNCHANGED mirror
  BY <1>1 DEF TickStart, TickStep, TickAggregate, TickCreate, TickEnsure, TickFind, TickMark,
     TickMarkPeriod, TickMarkError, TickFail, TickAbort, TickSendRejected, TickSend, TickSendLost,
     tables
<1>2. ASSUME NEW r \in RecSlots, RecStep(r)
      PROVE  UNCHANGED mirror \/ \E p \in Period, a \in Assets : FinMirror(r, p, a)
  BY <1>2 DEF RecStep, RecStart, RecConfirmChunk, RecSkipChunk, RecPeriods, RecAbort, RecEnd,
       FinChunks, FinReadChain, FinFlag, FinCompare, FinConfirm, FinAnchor, FinAbort, tables
<1>. QED
  BY <1>1, <1>2
  DEF Next, AdvanceClock, RecordView, Mine, Deepen, Revert, Drop, Reorg, Crash, vars, tables, AddsTo

\* One step adds an asset of one period only, whoever takes it.
LEMMA AddsToOne ==
  ASSUME TypeOK, NEW q \in Period, NEW p \in Period \ {q}, NEW a \in Assets,
         AddsTo(q, a), AddsTo(p, a)
  PROVE  FALSE
<1>1. PICK r \in RecSlots : FinMirror(r, q, a)
  BY DEF AddsTo
<1>2. PICK z \in RecSlots : FinMirror(z, p, a)
  BY DEF AddsTo
<1>3. /\ rec \in [RecSlots -> RecLocals]
      /\ rec[r].fin \in [Period -> Finalizer] /\ rec[z].fin \in [Period -> Finalizer]
  BY DEF TypeOK, RecLocals
<1>4. PICK f : GoTo(r, q, f)
  BY <1>1 DEF FinMirror
<1>5. rec'[z].fin[p] = rec[z].fin[p]
  <2>1. CASE z = r
    BY <1>3, <1>4, <2>1 DEF GoTo, SetRec, RecLocals
  <2>2. CASE z # r
    BY <1>3, <1>4, <2>2 DEF GoTo, SetRec
  <2>. QED
    BY <2>1, <2>2
<1>. DEFINE k == rec[z].fin[p]
            g == [k EXCEPT !.todo = k.todo \ {a}, !.pc = IF k.todo = {a} THEN "flag" ELSE k.pc]
<1>6. g.todo = k.todo \ {a} /\ a \in k.todo
  BY <1>2, <1>3 DEF Finalizer, FinMirror, IsNextAsset
<1>7. GoTo(z, p, g)
  BY <1>2 DEF FinMirror
<1>. HIDE DEF g
<1>8. rec'[z].fin[p] = g
  BY <1>3, <1>7 DEF GoTo, SetRec, RecLocals
<1>. QED
  BY <1>5, <1>6, <1>8

MirrorTyped == \A a \in Assets : MirrorTerms(a) \in [Period -> Int]

\* The terms are integers.
LEMMA MirrorTypes == TypeOK => MirrorTyped
BY DEF TypeOK, Batch, Payload, MirrorTyped, MirrorTerms, MirrorTerm

\* The mirror grows at least as much as what it must cover.
LEMMA MirrorSumStep ==
  ASSUME TypeOK, TypeOK', OnlyRowsAreFinalized, MirrorCoversTerms, [Next]_vars
  PROVE  MirrorCoversTerms'
<1>. SUFFICES ASSUME NEW a \in Assets
              PROVE  SumFunction(MirrorTerms(a)') <= mirror'[a]
  BY DEF MirrorCoversTerms
<1>0. /\ MirrorTerms(a) \in [Period -> Int] /\ MirrorTerms(a)' \in [Period -> Int]
      /\ \A p \in Period : /\ MirrorTerms(a)[p] = MirrorTerm(p, a)
                           /\ MirrorTerms(a)'[p] = MirrorTerm(p, a)'
      /\ SumFunction(MirrorTerms(a)) <= mirror[a]
      /\ mirror[a] \in Int
  <2>1. MirrorTyped /\ MirrorTyped'
    BY MirrorTypes, PTL
  <2>. QED
    BY <2>1 DEF MirrorTyped, MirrorTerms, MirrorCoversTerms, TypeOK, Payload
<1>1. SumFunction(MirrorTerms(a)) \in Int /\ SumFunction(MirrorTerms(a)') \in Int
  BY <1>0, FiniteIndices, SumType
<1>2. CASE \E q \in Period : AddsTo(q, a)
  <2>1. PICK q \in Period, r \in RecSlots : AddsTo(q, a) /\ FinMirror(r, q, a)
    BY <1>2 DEF AddsTo
  <2>. DEFINE n == batches[q].payload[a]
              more == [MirrorTerms(a) EXCEPT ![q] = MirrorTerms(a)[q] + n]
  <2>2. n \in Int
    BY DEF TypeOK, Batch, Payload
  <2>3. 0 <= MirrorTerm(q, a) /\ MirrorTerm(q, a)' <= n /\ mirror'[a] = mirror[a] + n
    BY <2>1, MirrorAdds
  <2>4. \A p \in Period \ {q} : MirrorTerm(p, a)' <= MirrorTerm(p, a)
    BY <2>1, AddsToOne, TermNeverGrows
  <2>. HIDE DEF n
  <2>5. /\ more \in [Period -> Int]
        /\ more[q] = MirrorTerms(a)[q] + n
        /\ \A p \in Period \ {q} : MirrorTerms(a)[p] = more[p]
    BY <1>0, <2>2
  <2>. HIDE DEF more
  <2>6. \A p \in Period : MirrorTerms(a)'[p] <= more[p]
    <3>1. MirrorTerm(q, a) \in Int /\ MirrorTerm(q, a)' \in Int
      BY <1>0
    <3>2. MirrorTerms(a)'[q] <= more[q]
      BY <1>0, <2>2, <2>3, <2>5, <3>1
    <3>3. ASSUME NEW p \in Period \ {q} PROVE MirrorTerms(a)'[p] <= more[p]
      BY <1>0, <2>4, <2>5
    <3>. QED
      BY <3>2, <3>3
  <2>7. SumFunction(more) = SumFunction(MirrorTerms(a)) + more[q] - MirrorTerms(a)[q]
    BY <1>0, <2>5, FiniteIndices, SumDifference
  <2>8. SumFunction(MirrorTerms(a)') <= SumFunction(more)
    BY <1>0, <2>5, <2>6, FiniteIndices, SumMonotone
  <2>9. MirrorTerms(a)[q] \in Int
    BY <1>0
  <2>. QED
    BY <1>0, <1>1, <2>2, <2>3, <2>5, <2>7, <2>8, <2>9
<1>3. CASE ~\E q \in Period : AddsTo(q, a)
  <2>1. \A p \in Period : MirrorTerms(a)'[p] <= MirrorTerms(a)[p]
    BY <1>0, <1>3, TermNeverGrows
  <2>2. SumFunction(MirrorTerms(a)') <= SumFunction(MirrorTerms(a))
    BY <1>0, <2>1, FiniteIndices, SumMonotone
  <2>3. mirror'[a] = mirror[a]
    <3>1. ASSUME NEW p \in Period, NEW b \in Assets, AddsTo(p, b)
          PROVE  mirror'[a] = mirror[a]
      <4>1. b # a
        BY <1>3, <3>1
      <4>. QED
        BY <3>1, <4>1, MirrorAdds DEF AddsTo
    <3>. QED
      BY <3>1, MirrorChanges
  <2>. QED
    BY <1>0, <1>1, <2>2, <2>3
<1>. QED
  BY <1>2, <1>3

\* Nothing is in the mirror at first.
LEMMA InitMirror == Init => MirrorInv
<1>. SUFFICES ASSUME Init PROVE MirrorInv
  OBVIOUS
<1>0. TypeOK
  BY InitTypeOK
<1>1. /\ \A r \in RecSlots, p \in Period : rec[r].fin[p].pc = "done"
      /\ \A p \in Period : ~batches[p].mirrorApplied
      /\ \A a \in Assets : mirror[a] = 0
  BY DEF Init, IdleRec, DoneFinalizer, NoBatch, Empty
<1>2. OnlyRowsAreFinalized
  BY <1>1 DEF OnlyRowsAreFinalized
<1>3. ASSUME NEW a \in Assets
      PROVE  SumFunction(MirrorTerms(a)) = 0
  <2>1. \A p \in Period : ~InMirror(p, a)
    BY <1>1 DEF InMirror, Touched, InPhase
  <2>2. MirrorTerms(a) \in [Period -> Int] /\ \A p \in Period : MirrorTerms(a)[p] = 0
    BY <2>1 DEF MirrorTerms, MirrorTerm
  <2>. QED
    BY <2>2, FiniteIndices, SumZero
<1>4. MirrorCoversTerms
  BY <1>1, <1>3 DEF MirrorCoversTerms
<1>. QED
  BY <1>0, <1>2, <1>4, CoversAsTerms DEF MirrorInv

\* Every step keeps the mirror covering what it must.
LEMMA NextMirror ==
  ASSUME MirrorInv, [Next]_vars
  PROVE  MirrorInv'
<1>1. TypeOK /\ TypeOK' /\ OnlyRowsAreFinalized /\ MirrorCoversTerms
  BY NextType, CoversAsTerms DEF MirrorInv
<1>2. OnlyRowsAreFinalized'
  BY <1>1, OnlyRowsStep
<1>3. MirrorCoversTerms'
  BY <1>1, MirrorSumStep
<1>4. MirrorCoversApplied'
  BY <1>3, CoversAsTerms, PTL
<1>. QED
  BY <1>1, <1>2, <1>4 DEF MirrorInv

(***************************************************************************)
(* Whatever overlaps, crashes or fails, the mirror of an asset holds at    *)
(* least the payloads of the periods flagged mirrorApplied and of what the *)
(* finalisers in flight have added: no flag, which keeps a period from     *)
(* being added again, is set for views that were not added.                *)
(***************************************************************************)
THEOREM MirrorsCoverWhatIsApplied == Spec => []MirrorCoversApplied
<1>1. MirrorInv /\ [Next]_vars => MirrorInv'
  BY NextMirror
<1>2. MirrorInv => MirrorCoversApplied
  BY DEF MirrorInv
<1>. QED
  BY <1>1, <1>2, InitMirror, PTL DEF Spec

(***************************************************************************)
(* If publication is paced and no transaction reverts, a period that any   *)
(* finaliser is adding to the mirror, or that is flagged, is on chain with *)
(* all its views, each once: every increment repeats a count of the chain, *)
(* however many finalisers make it.                                        *)
(***************************************************************************)
THEOREM AppliedPeriodsArePublished ==
  ASSUME Paced, "txReverted" \notin Env
  PROVE  Spec => []AppliedPeriodIsPublished
<1>1. ASSUME SnapshotInv, NEW p \in Period,
             batches[p].mirrorApplied
               \/ \E r \in RecSlots : InPhase(r, p, "mirror") \/ InPhase(r, p, "flag")
      PROVE  \A a \in Assets : PublishedIn(p, a) = batches[p].payload[a]
  <2>1. Settled(p)
    BY <1>1 DEF InPhase, SnapshotInv, AppliedIsSettled, SettlementInv, FinalizedIsSettled
  <2>. QED
    BY <1>1, <2>1, SettledIsPublished
<1>2. SnapshotInv => AppliedPeriodIsPublished
  BY <1>1 DEF AppliedPeriodIsPublished
<1>. QED
  BY <1>2, SnapshotInvariant, PTL

-----------------------------------------------------------------------------
(***************************************************************************)
(* The auditors.  A counter that only grows cannot catch up with a total   *)
(* that was already behind it.                                             *)
(***************************************************************************)
LEMMA CountersGrow ==
  ASSUME "reorg" \notin Env, TypeOK, [Next]_vars, NEW a \in Assets
  PROVE  totalViews[a] <= totalViews'[a] /\ totalViews[a] \in Int /\ totalViews'[a] \in Int
<1>0. totalViews[a] \in Int /\ \A t \in Tx : txs[t].payload[a] \in Nat
  BY DEF TypeOK, Transaction, Payload
<1>1. ASSUME NEW t \in Tx, Mine(t)
      PROVE  totalViews'[a] = totalViews[a] + txs[t].payload[a]
  BY <1>1 DEF Mine, Plus
<1>2. ASSUME NEW t \in Tx, Deepen(t) \/ Revert(t) \/ Drop(t) \/ Reorg(t)
      PROVE  UNCHANGED totalViews
  BY <1>2 DEF Deepen, Revert, Drop, Reorg
<1>. QED
  BY <1>0, <1>1, <1>2, ChainMoves DEF chain

\* The pairs of a client and a document, by the kind of the document.
LEMMA WhoAuditsWhat ==
  ASSUME NEW v \in WhoAndWhat
  PROVE  /\ Document(v) \in Documents
         /\ Document(v) \in Assets => Document(v) \notin Contracts \cup Missing
         /\ Document(v) \in Contracts => Document(v) \notin Assets \cup Orphans
         /\ v \in {"browser", "script"} \X {Document(v)}
<1>1. PICK c \in {"browser", "script"}, d \in Documents : v = <<c, d>>
  BY DEF WhoAndWhat
<1>2. Document(v) = d
  BY <1>1 DEF Document
<1>3. Orphans \subseteq Assets /\ Missing \subseteq Contracts /\ Contracts \cap Assets = {}
  BY ConstantsAssumption, AuditAssumption DEF ConstantsAssumption, AuditAssumption
<1>. QED
  BY <1>1, <1>2, <1>3 DEF Documents

\* A clean verdict comes of equal totals and of a record that is there and
\* holds the hash of the row.
LEMMA OutcomeIsFounded ==
  ASSUME audit.of \in WhoAndWhat
  PROVE  /\ Outcome \in Verdicts
         /\ Outcome \in Clean =>
              /\ Document(audit.of) \in Assets =>
                   audit.reported = totalViews[Document(audit.of)]
              /\ Document(audit.of) \notin Altered \cup Orphans \cup Missing
<1>. DEFINE d == Document(audit.of)
            total == totalViews[d]
<1>1. PICK c \in {"browser", "script"} : audit.of = <<c, d>>
  BY WhoAuditsWhat
<1>2. /\ d \in Assets \cup Contracts
      /\ d \in Assets => d \notin Contracts \cup Missing
      /\ d \in Contracts => d \notin Assets \cup Orphans
  BY WhoAuditsWhat DEF Documents
<1>. HIDE DEF d
<1>3. Outcome = CASE audit.of \in {"browser"} \X Assets    -> AssetVerdict(d, audit.reported, total)
                  [] audit.of \in {"browser"} \X Contracts -> ContractVerdict(d)
                  [] audit.of \in {"script"} \X Assets     -> AssetExit(d, audit.reported, total)
                  [] audit.of \in {"script"} \X Contracts  -> ContractExit(d)
  BY DEF Outcome, d
<1>4. CASE c = "browser" /\ d \in Assets
  <2>1. Outcome = AssetVerdict(d, audit.reported, total)
    BY <1>1, <1>2, <1>3, <1>4
  <2>. QED
    BY <1>2, <1>4, <2>1 DEF AssetVerdict, SameHash, Verdicts, Clean, d
<1>5. CASE c = "browser" /\ d \in Contracts
  <2>1. Outcome = ContractVerdict(d)
    BY <1>1, <1>2, <1>3, <1>5
  <2>. QED
    BY <1>2, <1>5, <2>1 DEF ContractVerdict, SameHash, Verdicts, Clean, d
<1>6. CASE c = "script" /\ d \in Assets
  <2>1. Outcome = AssetExit(d, audit.reported, total)
    BY <1>1, <1>2, <1>3, <1>6
  <2>. QED
    BY <1>2, <1>6, <2>1 DEF AssetExit, SameHash, Verdicts, Clean, d
<1>7. CASE c = "script" /\ d \in Contracts
  <2>1. Outcome = ContractExit(d)
    BY <1>1, <1>2, <1>3, <1>7
  <2>. QED
    BY <1>2, <1>7, <2>1 DEF ContractExit, SameHash, Verdicts, Clean, d
<1>. QED
  BY <1>2, <1>4, <1>5, <1>6, <1>7

\* An audit that has ended.
LEMMA EndedIsRecord ==
  ASSUME NEW w \in WhoAndWhat, NEW q \in {"unread", "behind", "equal", "ahead"},
         NEW o \in Outcomes
  PROVE  [of |-> w, pc |-> "idle", reported |-> 0, relation |-> q, outcome |-> o]
           \in AuditRecord
BY DEF AuditRecord

\* No audit has a verdict at first.
LEMMA AuditInit_Inv == AuditInit => AuditInv
<1>. SUFFICES ASSUME NEW v \in Audits, audit = NoAudit(v) PROVE AuditInv
  BY DEF AuditInit
<1>1. v \in WhoAndWhat
  BY AuditAssumption DEF AuditAssumption, WhoAndWhat
<1>2. /\ audit \in AuditRecord
      /\ audit.pc = "idle"
      /\ audit.outcome = "none"
  BY <1>1 DEF NoAudit, AuditRecord, Outcomes
<1>. QED
  BY <1>2 DEF AuditInv, CleanNeverHidesViews, Clean

\* How two totals compare.
LEMMA RelationIs ==
  ASSUME NEW m \in Int, NEW n \in Int
  PROVE  /\ Relation(m, n) \in {"behind", "equal", "ahead"}
         /\ Relation(m, n) = "behind" => m < n
BY DEF Relation

\* The pipeline moves counters up only; the audit goes on with what it read.
LEMMA AuditStep ==
  ASSUME "reorg" \notin Env, TypeOK, AuditInv, [AuditNext]_allVars
  PROVE  AuditInv'
<1>. DEFINE d == Document(audit.of)
<1>0. /\ audit \in AuditRecord
      /\ audit.of \in WhoAndWhat
      /\ audit.reported \in Int
      /\ d \in Assets \cup Contracts
      /\ totalViews \in [Assets -> Int] /\ mirror \in [Assets -> Nat]
  BY WhoAuditsWhat DEF AuditInv, AuditRecord, Documents, TypeOK, Payload
<1>1. CASE [Next]_vars /\ UNCHANGED audit
  <2>1. \A a \in Assets : /\ totalViews[a] <= totalViews'[a]
                          /\ totalViews[a] \in Int /\ totalViews'[a] \in Int
    BY <1>1, CountersGrow
  <2>2. audit.pc = "chain" /\ audit.relation = "behind"
          => d \in Assets /\ audit.reported < totalViews'[d]
    BY <1>0, <2>1 DEF AuditInv
  <2>. QED
    BY <1>1, <2>2 DEF AuditInv, CleanNeverHidesViews, Founded
<1>2. CASE Begin /\ UNCHANGED vars
  <2>1. audit' = [of |-> audit.of, pc |-> "api", reported |-> 0, relation |-> "unread",
                  outcome |-> "none"]
    BY <1>2 DEF Begin, NoAudit
  <2>2. /\ audit' \in AuditRecord
        /\ audit'.pc = "api"
        /\ audit'.outcome = "none"
    BY <1>0, <2>1 DEF AuditRecord, Outcomes
  <2>. QED
    BY <2>2 DEF AuditInv, CleanNeverHidesViews, Clean
<1>3. CASE ReadApi /\ UNCHANGED vars
  <2>1. /\ audit' = [audit EXCEPT !.pc = "chain",
                       !.reported = IF d \in Assets THEN mirror[d] ELSE 0,
                       !.relation = IF d \in Assets THEN Relation(mirror[d], totalViews[d])
                                                    ELSE "equal"]
        /\ audit.pc = "api"
    BY <1>3 DEF ReadApi
  <2>2. audit.outcome = "none" /\ UNCHANGED totalViews
    BY <1>3, <2>1 DEF AuditInv, vars, chain
  <2>. HIDE DEF d
  <2>3. PICK n \in Int : n = IF d \in Assets THEN mirror[d] ELSE 0
    BY <1>0
  <2>4. PICK q \in {"behind", "equal", "ahead"} :
          /\ q = IF d \in Assets THEN Relation(mirror[d], totalViews[d]) ELSE "equal"
          /\ q = "behind" => d \in Assets /\ n < totalViews[d]
    <3>1. CASE d \in Assets
      <4>1. mirror[d] \in Int /\ totalViews[d] \in Int /\ n = mirror[d]
        BY <1>0, <2>3, <3>1
      <4>. QED
        BY <3>1, <4>1, RelationIs
    <3>2. CASE d \notin Assets
      BY <3>2
    <3>. QED
      BY <3>1, <3>2
  <2>5. audit' = [audit EXCEPT !.pc = "chain", !.reported = n, !.relation = q]
    BY <2>1, <2>3, <2>4
  <2>6. /\ audit'.pc = "chain"
        /\ audit'.of = audit.of
        /\ audit'.outcome = "none"
        /\ audit'.reported = n
        /\ audit'.relation = q
        /\ audit' \in AuditRecord
    BY <1>0, <2>2, <2>5 DEF AuditRecord
  <2>7. Document(audit'.of) = d
    BY <2>6 DEF d
  <2>. QED
    BY <2>2, <2>4, <2>6, <2>7 DEF AuditInv, CleanNeverHidesViews, Clean
<1>4. CASE ReadChain /\ UNCHANGED vars
  <2>1. /\ audit' = [audit EXCEPT !.pc = "idle", !.reported = 0, !.outcome = Outcome]
        /\ audit.pc = "chain"
    BY <1>4 DEF ReadChain
  <2>2. /\ Outcome \in Verdicts
        /\ Outcome \in Clean => /\ d \in Assets => audit.reported = totalViews[d]
                                /\ d \notin Altered \cup Orphans \cup Missing
    BY <1>0, OutcomeIsFounded
  <2>3. PICK q \in {"behind", "equal", "ahead"} : q = audit.relation
    BY <1>0, <2>1 DEF AuditInv, AuditRecord
  <2>4. q = "behind" => d \in Assets /\ audit.reported < totalViews[d]
    BY <2>1, <2>3 DEF AuditInv
  <2>. HIDE DEF d
  <2>5. PICK o \in Verdicts : o = Outcome
    BY <2>2
  <2>6. audit' = [of |-> audit.of, pc |-> "idle", reported |-> 0, relation |-> q, outcome |-> o]
    BY <1>0, <2>1, <2>3, <2>5 DEF AuditRecord
  <2>7. o \in Outcomes
    BY <2>5 DEF Outcomes
  <2>8. audit' \in AuditRecord
    BY <1>0, <2>6, <2>7, EndedIsRecord
  <2>9. /\ audit'.pc = "idle"
        /\ audit'.of = audit.of
        /\ audit'.outcome = o
        /\ audit'.relation = q
    BY <2>6
  <2>10. o \in Clean => q # "behind"
    <3>. SUFFICES ASSUME o \in Clean, q = "behind" PROVE FALSE
      OBVIOUS
    <3>1. audit.reported = totalViews[d] /\ audit.reported < totalViews[d]
      BY <2>2, <2>4, <2>5
    <3>2. PICK n \in Int : n = audit.reported
      BY <1>0
    <3>. QED
      BY <3>1, <3>2
  <2>11. Document(audit'.of) = d
    BY <2>9 DEF d
  <2>12. CleanNeverHidesViews'
    BY <2>2, <2>5, <2>9, <2>10, <2>11 DEF CleanNeverHidesViews, Founded
  <2>. QED
    BY <2>8, <2>9, <2>12 DEF AuditInv
<1>5. CASE Fail /\ UNCHANGED vars
  <2>1. PICK o \in {"exit 1", "error"} :
          audit' = [of |-> audit.of, pc |-> "idle", reported |-> 0, relation |-> "unread",
                    outcome |-> o]
    BY <1>5 DEF Fail, NoAudit
  <2>2. o \in Verdicts
    BY DEF Verdicts, Clean
  <2>3. o \in Outcomes
    BY <2>2 DEF Outcomes
  <2>4. /\ audit' \in AuditRecord
        /\ audit'.pc = "idle"
        /\ audit'.outcome = o
    BY <1>0, <2>1, <2>3, EndedIsRecord
  <2>5. o \notin Clean
    BY DEF Clean
  <2>. QED
    BY <2>4, <2>5 DEF AuditInv, CleanNeverHidesViews
<1>6. CASE UNCHANGED allVars
  BY <1>1, <1>6 DEF allVars
<1>. QED
  BY <1>1, <1>2, <1>3, <1>4, <1>5, <1>6 DEF AuditNext

(***************************************************************************)
(* Unless a block is undone, a clean verdict, of the script or of the      *)
(* browser, never passes over views: the API did not report less than the  *)
(* contract had counted at that moment, and the document is on chain with  *)
(* the hash of its row, whatever happens between the two reads and however *)
(* wrong overlapping or crashed reconciliations made the mirror.           *)
(***************************************************************************)
THEOREM CleanVerdictsHideNothing ==
  ASSUME "reorg" \notin Env
  PROVE  AuditSpec => []CleanNeverHidesViews
<1>. DEFINE IInv == TypeOK /\ AuditInv
<1>1. Init /\ AuditInit => IInv
  BY InitTypeOK, AuditInit_Inv
<1>2. IInv /\ [AuditNext]_allVars => IInv'
  <2>. SUFFICES ASSUME IInv, [AuditNext]_allVars PROVE IInv'
    OBVIOUS
  <2>1. [Next]_vars
    BY DEF AuditNext, allVars
  <2>. QED
    BY <2>1, NextType, AuditStep
<1>3. IInv => CleanNeverHidesViews
  BY DEF AuditInv
<1>. QED
  BY <1>1, <1>2, <1>3, PTL DEF AuditSpec
=============================================================================
