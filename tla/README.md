# Cardiofy blockchain module: TLA+ models and proofs

Cardiofy's blockchain module notarizes contracts and assets (songs) on an EVM
chain and counts the views of the assets there, in batches. It is a Node.js
backend over PostgreSQL, a Solidity contract (`Notary.sol`), a few operator
scripts and a browser prototype for auditors. This directory holds its
specification in TLA+, the TLC configurations that check it on small instances,
and TLAPS proofs that hold for every value of the constants.

Paths are relative to the root of the repository; `backend/` stands for
`src/apps/backend/src/`, `notary/` for `src/apps/notary/`, `audit/` for
`src/apps/audit-prototype/`.

Run a check with `tlc -config notarize_storm.cfg MCNotarization.tla`, a proof
with `tlapm Notarization_proofs.tla`. `PROJECT.json` lists runs, mutants, the
map from definitions to lines of code, findings, hazards and theorems.

## 1. The system

```
 core ──POST /contracts, /assets──▶ Contract/AssetService ──▶ SequentialNonceManager ─▶ EVM node ─▶ Notary.sol
      ──POST /views─────────────▶ ViewService                      ▲                        │
                                        │                             │                        │
                                   PostgreSQL ◀── BatchJob ───────────┘                        │
                             contracts assets views ◀── ReconcileJob ──── receipts, counters ──┘
                             batches batch_chunks
 auditor ── verify script / audit prototype ── reads API and chain, compares
```

Everything in the backend runs in one process on one event loop. The unit of
interleaving is therefore the `await`: between two awaits a handler runs alone,
and at every await any other handler or cron tick may run. Rows in PostgreSQL
and the chain survive a crash, local variables do not. No transaction of the
database spans two of the steps below, and no UPDATE of the repositories
has a condition on what it overwrites.

### Components

| Component | State | Operations | What makes it correct |
|---|---|---|---|
| **Batch publication** `backend/modules/batches/` | tables `batches`, `batch_chunks`; locals of each tick | cron tick: pick the period that just closed, aggregate its views, create the batch, cut it in chunks, send each chunk, store its hash | a view reaches the additive counter of the contract at most once; one bad chunk does not stop the others; what failed is tried again |
| **Reconciliation** `backend/modules/reconciliation/` | `contracts`, `assets`, `batches`, `batch_chunks`, `total_views_mirror`, `anchored` | cron tick: confirm rows whose transaction is deep; finalise periods whose chunks are all confirmed: mirror, comparison with the chain, CONFIRMED, anchored | CONFIRMED means deep and complete, and is final; the mirror gets each period once, and never lacks one that is flagged; a view said to be anchored is on chain; every period is finalised in the end |
| **Notarization** `backend/modules/contracts/`, `assets/` | tables `contracts`, `assets` | `notarize`: look up, insert PENDING, send, store the hash or mark FAILED | a document is sent once; what was answered 201 stays tracked; a status only moves forward |
| **View registration** `backend/modules/views/` | table `views` | `register`: look up the key, check the asset, insert, answer 202 | an event is counted once whatever is retried; all answers name one id; the caller is acknowledged in the end |
| **Signer** `backend/modules/notary/local-signer.provider.ts` | `#noncePromise`, `#delta` of `ethers.NonceManager` | `sendTransaction`, `reset` | the counter agrees with the node once calls have settled; no accepted transaction is stuck behind a nonce nobody uses |
| **Gateway** `backend/modules/notary/ethers-notary.gateway.ts` | none | `notarizeContract/Asset`, `publishBatch`, `confirmations`, `getAssetTotalViews`, `asBytes32` | a receipt is reported as deep only when it is, and only when it succeeded; ids do not merge |
| **Notary contract** `notary/contracts/Notary.sol` | contracts, assets, `totalViews`, attester, owner, pendingOwner | `notarizeContract`, `notarizeAsset`, `publishBatch`, `rotateAttester`, two-step ownership | records are written once; `publishBatch` is additive and all-or-nothing; only the attester writes |
| **Process life cycle** `backend/application.ts`, `database.connection.ts` | HTTP server, cron handles, database pool, timers | start, signals, graceful exit, fatal shutdown | no request and no new tick meets a closed pool; the exit code tells a signal from a failure; shutdown ends |
| **Operator scripts** `notary/scripts/` | `.env` and its backup, ownership on chain | `keygen`, `transfer-ownership`, `verify` | the old key is never lost; ownership is handed over only to the address that accepts |
| **Auditor** `notary/scripts/verify.ts`, `audit/src/lib/` | none | compare record, hash and counter of API and chain | the verdict is right for what it read |
| **HTTP surface** `backend/express.api.ts`, `infrastructure/`, controllers, health checks | the request | parse, authenticate, route, validate, handle, map errors | the order of the checks, and the same security as the OpenAPI document announces |
| **Configuration, schemas, UI** | none, once started | parsing, rendering | pure functions |

### Where it is hard

* `protect: true` does not protect: `runOnce` of both jobs starts a promise and
  returns `void` (`batch.job.ts:40`, `reconciliation.job.ts:38`), so croner
  sees a tick that ended at once. Ticks of one job overlap whenever one takes
  longer than the interval.
* A send can fail in two ways that look alike: refused, or accepted with the
  answer lost. A crash between the broadcast and the UPDATE that stores the
  hash is a third way to forget a transaction.
* Values are read, then used one or more awaits later: `mirrorApplied`, the list
  of pending chunks, the chain's counter against the mirror, the aggregates of
  a period that views still arrive for, the pending transaction count.
* The chain moves on its own: transactions are dropped, revert, are undone.
* Only the period that just closed is ever published by a tick.
* Nothing keeps a second signal, or an uncaught error during a drain, from
  starting a second `gracefulShutdown` over the same server, jobs and pool, and
  nothing in `run()` looks whether one has begun.
* Operators and auditors act on what they read some awaits ago: a run of
  `transfer-ownership.ts` asks a question between its reads and its transaction,
  an audit compares an answer of the API with a later state of the chain.

The hazards, line by line, are in `PROJECT.json`, each with the properties that
would catch it.

## 2. The modules

| Module | Role |
|---|---|
| `BatchPipeline` | batch publication, batch reconciliation, their tables and the chain they act on, composed |
| `BatchPipelineProps` | its type invariant, safety, action and liveness properties |
| `BatchPipelineInv` | its inductive invariants `PublicationInv`, `SettlementInv`, `FinalityInv`, `CountingInv`, `SnapshotInv` and `MirrorInv`, and the regimes they hold in |
| `BatchPipeline_proofs` | the theorems about publication, settlement and what never goes back |
| `BatchPipelineCounting_proofs` | the theorems about what adds up: counters, confirmed periods, the mirror; and about audits |
| `SumTheorems` | lemmas about `SumFunction` of the community modules, used by the two `_proofs` modules that sum |
| `Notarization` | `ContractService.notarize`, `AssetService.notarize`, `reconcileContracts`, `reconcileAssets`, the notarize functions of the contract |
| `NotarizationRecord` | abstract specification: the life of a row |
| `NotarizationInv`, `Notarization_proofs` | inductive invariant `RecordInv` and the theorems, refinement included |
| `ViewRegistration` | `ViewService.register` under a core that retries |
| `ViewLog` | abstract specification: one atomic record-or-replay |
| `ViewRegistration_proofs` | the theorems, refinement included |
| `SequentialNonce` | the nonce manager over `ethers.NonceManager` |
| `SequentialNonce_proofs` | its inductive invariant and the theorems |
| `HttpSurface` | the middleware chain, the routes, the error mapping and the health checks as functions of the request; the statuses of the OpenAPI document |
| `Application` | the process: boot, connections, cron ticks, drains, timers, exit; extends `HttpSurface` |
| `Application_proofs` | the theorems |
| `Notary` | the contract: records, counters, attester, two-step ownership |
| `OwnershipTransfer` | `transfer-ownership.ts` over `Notary`, beside direct transactions |
| `OwnershipTransfer_proofs` | the theorems |
| `Audit` | `verify.ts` and the browser prototype, composed with `BatchPipeline` |
| `MCBatchPipeline`, `MCNotarization`, `MCViewRegistration`, `MCSequentialNonce`, `MCApplication`, `MCOwnershipTransfer`, `MCAudit` | symmetry sets and enumerations of constants for TLC |

Mutants (`Slice_Overlap`, `Create_Upsert`, ...) sit in front of the definition
they are a plausible mistake of. No action uses one; replacing the definition
by its mutant breaks the property it is listed with.

### BatchPipeline

`tick[s]` is a `publishBatchFor` call in flight, `rec[r]` a `reconcileBatches`
call; a record of locals with a program counter that names the awaited call
to come. `TickSlots` and `RecSlots` bound how many are in flight together. The
tables are functions from keys to rows, an absent row being a status of its
own. The chain is a set of transactions with a state (`pool`, `mined`,
`deep`, `reverted`, `dropped`) and the counter `totalViews`.

| Code | Actions |
|---|---|
| `ViewRepository.create`, seen by the pipeline | `RecordView` |
| wall clock, cron, `previousPeriodId` | `AdvanceClock`, `TickStart` |
| `publishBatchFor` up to the loop | `TickStart`, `TickAggregate`, `TickCreate`, `TickEnsure`, `TickFind` |
| the loop over chunks and its catch | `TickSend`, `TickSendLost`, `TickSendRejected`, `TickMark`, `TickMarkPeriod`, `TickMarkError`, `TickFail` |
| a query outside that try throws | `TickAbort` |
| `confirmPendingChunks` | `RecStart`, `RecConfirmChunk`, `RecSkipChunk` |
| the finalisation of each period, all periods concurrently (`Promise.allSettled`) | `RecPeriods`, `FinChunks`, `FinMirror`, `FinFlag`, `FinReadChain`, `FinCompare`, `FinConfirm`, `FinAnchor`, `FinAbort`, `RecEnd` |
| node and chain (external) | `Mine`, `Deepen`, `Revert`, `Drop`, `Reorg` |
| process | `Crash` |

Data is abstracted to what the properties tell apart. A period is a number, a
payload a function from assets to counts, an asset a natural number in the
order of `localeCompare`, on which `chunkBy`'s slices depend. `Env` is the set
of hardships that may happen in a run, so that a run can ask what holds
without a given one. `Env` without `fineCron` is the configuration that
README.md:90 asks for: the cron fires once per period.

### Notarization

One request is `Find`, `Create`, `Send` (or `SendRefused`, `SendLost`), then
`Mark` or `Fail`. The same operator serves both tables because both services
are the same code; `NotarizeContract` and `NotarizeAsset` restrict it to
their ids. A pass over a table is `StartPass` followed by `Confirm` or `Skip`
for each row found. The contract's `AlreadyExists` is the guard of `Mine`.
`NotarizationRecord` says what the rows may do: created PENDING, at most one
hash, then CONFIRMED or FAILED for good.

### ViewRegistration

`register` is `Lookup`, `RequireExists`, `Create` or `CreateConflict`, each a
query. `Arrive` lets the core send any key again as long as it has no 202, with
several requests for one key in flight. `answers` records every 202 given.
`ViewLog` has one step, record or replay; the refinement says the three
queries cannot be told from it.

### SequentialNonce

`reads` are the promises of `eth_getTransactionCount`, `cached` and `delta` the
private fields of the manager. Continuations of calls that wait for one
promise run as one step (`ReadAnswered`): the event loop drains its microtasks
before anything else. `burst` is a history of what happened since no call was
in flight; `Calm` says that no two calls shared a read and nothing failed
while calls overlapped.

### HttpSurface and Application

A request is `[endpoint, body, token, valid]`: which route, whether the body
parser accepts it, whether the shared token is there, whether the schemas are
satisfied. `Refusal` is the order in which Express and routing-controllers
decide: body parser, route table, `authorizationChecker`, parameter decorators.
`Answers` is what is left to the handler: the status of `@HttpCode`, the errors
of its service through `Handled`, and 500 when a query fails or the response
breaks its schema. `Documented` is transcribed from `openapi-document.ts`.

| Code | Actions |
|---|---|
| `index.ts`, `createEnvConfig`, constructors | `Construct` |
| `run` | `Connected`, `ConnectFails`; with the port taken, `Connected` leaves a process without a server, since Express 5 calls the callback of `listen` for the error too |
| requests | `Connect`, `Receive`, `Answer`, `Release` |
| cron ticks | `TickStarts`, `TickEnds` |
| `gracefulExit`, `fatalShutdown`, `gracefulShutdown` | `Signal`, `Fatal` (up to the first await), `AfterServer`, `Finish`, `ForceTimeout` |
| Node, postgres.js | `ServerCloses`, `PoolEnds`, `PoolFails`, `NaturalExit` |

`drains[d]` is one call of `gracefulShutdown` with its caller; several run side
by side by side. `server.close()` may call back with an error of its own and the
pool's `end()` may reject; `Rejects` and `Finish` say what becomes of the drain then
(exit 1, as `application.test.ts` asserts). `jobs` stands for both crons, which are started and stopped in one
turn of the event loop.

### Notary and OwnershipTransfer

An action of `Notary` is a call that succeeds; a revert changes nothing, so it
is the absence of a step. `MaxUint` stands for the largest `uint256`.
`publishBatch` is one step, as the transaction is. A run of the script is a
record with a program counter that names its next await: `ReadOwner`,
`ReadForPropose`/`ReadForAccept`, `Confirm`, `Send`, `Wait`, `CheckOwner`,
`CheckPending`; `RpcFails` is the `catch` of `main`. `Mine` executes the
transaction of a run, `Govern` and `Attest` those that accounts send by other
means. `proposer`, `proposedBy` and `installedBy` are histories.

### Audit

`audit` is the audit in flight: `Begin`, `ReadApi`, `ReadChain`, or `Fail`. The
verdicts of the browser (`AssetVerdict`, `ContractVerdict`) and the exit codes of
the script (`AssetExit`, `ContractExit`) are operators of what both reads
returned. Between the two reads any step of `BatchPipeline` may happen.
`relation` is a history: whether the mirror was behind, equal to or ahead of the
counter when the API answered. Audits disturb nobody, so one auditor going on for ever is enough.

## 3. What the runs check

Passing runs:

| Run | Question | Bounds |
|---|---|---|
| `pipe_storm` | Aligned cron and every other hardship at once. Nothing is published twice, counters are never inflated, no period is confirmed without deep transactions of its own, no hash is overwritten; the mirror, although it may be too high, never lacks a period whose flag is set | 1 period, 2 assets in 2 chunks, 2 transactions, 1 tick with 2 overlapping reconciliations; increments up to 3 |
| `pipe_periods` | Ticks of two periods overlap, and two reconciliations, with crashes and reorganisations. A CONFIRMED period keeps its chunks CONFIRMED; only what is on chain is added to the mirror; confirmations are never taken back | 2 periods, 1 asset, 2 ticks, 2 reconciliations, no database errors and no reverts |
| `pipe_retry` | A fine cron that ticks a period again, one tick and one reconciliation at a time. Retries resend only what was never submitted; what is confirmed or anchored is on chain, each view once | 2 periods, 2 assets, 4 transactions |
| `pipe_live` | The pipeline with an auditor. Every view is anchored unless an asset the contract does not know was viewed; a poisoned chunk does not hold back the healthy ones; a clean verdict was true when the API answered; a discrepancy of the totals goes away | 2 periods, 2 assets, one of them unknown on chain; the script on the other asset, or the browser on a contract whose row was altered |
| `notarize_storm` | Every hardship at once. Sent once, accepted stays tracked, confirmed is deep, rows refine `NotarizationRecord` | 1 contract, 2 assets, 3 transactions, 2 requests, 2 passes |
| `views_retry` | Retries, lost answers, failed queries, crashes. Counted once, refines `ViewLog`, acknowledged in the end | 2 keys, 3 requests, 3 ids, 2 faults |
| `nonce_calm` | Two senders, refusals, lost answers, failed reads, restarts. After every calm burst manager and node agree and no accepted transaction is stuck | 4 reads, nonces up to 6 |
| `process` | The whole process. A drain closes the pool after the last connection and after the jobs; after signals alone the exit code says whether server and pool were closed; an uncaught error never ends it naturally; a signal ends it; the token is asked for exactly where the OpenAPI document says | 1 connection, 2 jobs, 2 drains of any kind, 13 configurations, 28 requests |
| `operator` | A run of the script raced by direct transactions. No stale proposal, what stands was reported, records only grow under any change of attester and owner | 3 accounts, 1 run, 1 id, 2 hashes, counters up to 2, batches up to 2 entries |

Why the bounds are enough for the cases in question: two assets with
`MaxChunk = 1` are the smallest period with two chunks, so a chunk can fail
while its neighbour succeeds; two slots are the smallest overlap and no
handler waits for more than one other; two periods let counters accumulate
and finalisations of different periods interleave; one more transaction than
documents would be needed to send one twice, and three are available for one
request that retries after a failed insert or a lost answer; two keys and
three requests let one key be retried while both its first request and
another key's are in flight. `MaxMirror` only bounds the repeated increments
that follow a crash or a failed query. The theorems below remove the bounds for
most of the safety properties.

One connection and two drains are enough for a request that outlives the call of
the first drain and the start of the second; the requests name every route with
and without the token, and every kind of bad input once. Three accounts are the
smallest hand-over with a bystander to propose instead; a counter of at most
two and batches of two entries reach the end of the range by one addition and by
two entries for one asset. The proofs cover any number of them.

Every cfg has `CHECK_DEADLOCK FALSE`: at the bounds (all periods over, all
transactions used, every event acknowledged) the model stops, and so does a
backend nobody calls.

Violation runs show where the code departs from what the repository says:

| Run | Property | What happens |
|---|---|---|
| `bug_no_retry` | `FailedChunkIsRetried` | with an aligned cron nobody comes back to a period whose chunk FAILED, against `batch.service.ts:83`. Checked under `FairSpec` |
| `bug_mirror` | `MirrorNeverAheadOfChain` | two overlapping reconciliations both read `mirrorApplied = false` and both add the period, although `reconciliation.job.ts:11` says that `protect` keeps ticks apart and `reconciliation.service.ts:112` that the mirror is applied once. The comparison with the chain then keeps the period, and every later one with that asset, PENDING. With a single slot in `RecSlots` a crash between the increments and the flag breaks the same property |
| `bug_nonce` | `NextNonceIsExpected` | a rejected read of the pending count stays cached, since it is awaited before the `try` that resets; later sends find it and reject, until a restart or until a call that took its nonce earlier fails and resets. Without `rpcDown` a call that fails while another holds the next nonce breaks the same property, and without `refused` as well two calls that waited for one read and took one nonce |

Other departures have no run of their own; TLC shows each when one constant of a
passing run is changed, and the theorems name the hardship among their hypotheses:

* `"crash"` or `"sendLost"` in the `Env` of `pipe_retry`: `NoDoublePublication`
  fails. The hash of a transaction that is on its way was never stored, and the
  next tick of the period sends the chunk again, against the blockchain
  specification (lines 469-474) and `batch.service.ts:38`.
* `"lateView"` there: `NoDoublePublication` fails too. A view of another asset
  shifts the slices between two ticks of a period, and `ensureChunks` puts an asset
  in two chunks, against `batch.service.ts:53-54`.
* `Env = {"lateView"}` there: `AnchoredViewsArePublished` fails. A view with an
  `occurredAt` in a closed period arrives after the aggregation, and
  `markPeriodAnchored` marks it with the others, against `schema.ts:83`.
* `Env = {"txReverted"}` there: `ConfirmedPeriodIsPublished` fails. `confirmations`
  reports a reverted `publishBatch` as deep as any other
  (`ethers-notary.gateway.ts:72`), and once the next period is on chain the totals
  can agree although one period is missing.
* `"dbError"` in `pipe_periods`: `ConfirmationIsFinal` fails. `markSubmitted` throws in
  the try of the send, and the catch marks FAILED a chunk that is on its way, or
  CONFIRMED by then. Such a chunk is neither sent again nor confirmed.

The first two need a cron that fires more than once per period (`fineCron`).
`env.config.ts:45` asks for an aligned one, under which `pipe_storm` has all the
hardships and nothing is sent twice; but then a period is not resumed at all, which
is `bug_no_retry`.

Seen while modelling, and left out of the properties by name rather than hidden:

* a signal during start-up finds no server: it closes the pool, `run()` goes on
  to start jobs and server on it, and the process ends by the timer with code 1
  instead of the natural exit of `application.ts:77-80` (`NoEarlyDrain` excludes
  it from three properties, `SignalEndsProcess` includes it);
* the OpenAPI document announces 409 for a repeated `Idempotency-Key`, which is
  answered 202 with `duplicate: true` (`view.controller.ts:31`); it leaves out the
  404 of `POST /views`, the 400 of the GET routes, 413 and 500; malformed JSON is
  answered 500, not the 400 "Body invalido";
* `transfer-ownership.ts --new-owner=<owner>` says that there is nothing to do
  while a proposal to somebody else stands (`transfer-ownership.ts:150`);
* a second `keygen --write-env` overwrites the `.env.bak` of the first
  (`keygen.ts:89`), so the key before last is gone.

Fairness. `BatchPipeline!Fairness` is weak fairness of the clock, of the cron
timers, of each call in flight and of mining and deepening: timers fire,
promises settle, blocks are produced. Nothing is assumed of views, crashes or
faults. A `dbError` that recurs for ever would defeat liveness, so `pipe_live`
runs without hardships (`Env = {}`); what remains hard there is the interplay of
two periods, the comparison of chain and mirror across two awaits, and the
poisoned chunk. `ViewRegistration!Fairness` is weak fairness of each request
in flight, and strong fairness of the core sending an unacknowledged event:
the core goes on retrying (the spec of the API calls a retry with the same key
a safe replay), and `Requests` is a bound of the model which must not starve
one key by another. Faults there are bounded by `MaxFaults`. `Audit` adds an
auditor who tries again (weak fairness of `Begin`) and whose reads may fail but
not every time (strong fairness of the reads). `Application!Fairness` is weak
fairness of what Node does by itself: callbacks, the timers of the drains, the
exit of an empty event loop. Nothing is assumed there of clients, handlers,
ticks or the database, which is why only the timer carries `SignalEndsProcess`.

## 4. What is proved

TLAPS checks all theorems for every value of the constants that satisfies the
modules' assumptions: any number of assets, periods, chunks, documents, keys,
overlapping calls and transactions.

| Theorem | Statement |
|---|---|
| `BatchPipeline_proofs!TypeCorrect` | `Spec => []TypeOK`, under all hardships |
| `BatchPipeline_proofs!PublishedAtMostOnce` | when `Paced`, `Spec => []NoDoublePublication` |
| `BatchPipeline_proofs!SettlementInvariant`, `ConfirmedOnlyWhenSettled` | when `Paced`, `Spec => []SettlementInv` and `Spec => []ConfirmedPeriodIsSettled` |
| `BatchPipeline_proofs!SubmittedChunksAreFrozen` | when `Paced`, `Spec => SubmittedChunkIsFrozen` |
| `BatchPipeline_proofs!ConfirmationsAreFinal`, `ConfirmedPeriodsAreComplete` | when `Paced`, without `dbError`, `Spec => ConfirmationIsFinal` and `Spec => []ConfirmedPeriodIsComplete` |
| `BatchPipelineCounting_proofs!CountingInvariant`, `SnapshotInvariant` | when `Paced`, `Spec => []CountingInv` and `Spec => []SnapshotInv` |
| `BatchPipelineCounting_proofs!CountersAreNeverInflated` | when `Paced`, `Spec => []CounterNeverInflated` |
| `BatchPipelineCounting_proofs!ConfirmedPeriodsArePublished` | when `Paced`, without `txReverted`, `Spec => []ConfirmedPeriodIsPublished` |
| `BatchPipelineCounting_proofs!AnchoredViewsAreCounted` | when `Paced`, without `txReverted` and `lateView`, `Spec => []AnchoredViewsArePublished` |
| `BatchPipelineCounting_proofs!MirrorsCoverWhatIsApplied` | `Spec => []MirrorCoversApplied`, under all hardships and any number of overlapping reconciliations |
| `BatchPipelineCounting_proofs!AppliedPeriodsArePublished` | when `Paced`, without `txReverted`, `Spec => []AppliedPeriodIsPublished`, for any number of overlapping, crashing and failing reconciliations |
| `BatchPipelineCounting_proofs!CleanVerdictsHideNothing` | without `reorg`, `AuditSpec => []CleanNeverHidesViews` |
| `Notarization_proofs!TypeCorrect` | `Spec => []TypeOK` |
| `Notarization_proofs!RecordInvariant` | `Spec => []RecordInv` |
| `Notarization_proofs!DocumentsSentOnce`, `AcceptedStaysTracked`, `ConfirmedOnlyWhenDeep` | the three safety properties of `notarize_storm` |
| `Notarization_proofs!ImplementsRecord` | `Spec => RefinesRecord` |
| `ViewRegistration_proofs!TypeCorrect`, `EventsCountedOnce` | `Spec => []TypeOK`, `Spec => []CountedOnce` |
| `ViewRegistration_proofs!ImplementsViewLog` | `Spec => RefinesViewLog` |
| `SequentialNonce_proofs!TypeCorrect`, `ManagerIsAligned`, `NobodyIsStuck` | the three invariants of `nonce_calm` |
| `Application_proofs!ShutdownSafe`, `TypeCorrect` | `Spec => [](TypeOK /\ ShutdownInv)` and `Spec => []TypeOK` |
| `Application_proofs!PoolLastTheorem`, `TicksStopTheorem`, `SignalsTheorem`, `FatalTheorem`, `SecurityTheorem` | the five safety properties of `process` |
| `OwnershipTransfer_proofs!HandoverSafe` | the inductive invariant of the hand-over |
| `OwnershipTransfer_proofs!ProposalTheorem`, `SuccessTheorem`, `ReportTheorem` | three of the safety properties of `operator` |
| `OwnershipTransfer_proofs!TypeCorrect`, `RecordsTheorem` | `Spec => []TypeOK`, the range of the counters included, and `Spec => RecordsOnlyGrow` |

**The regimes.** `Paced` is the disjunction of two configurations in which
publication is safe, and each hypothesis is one without which TLC finds a
counterexample. `Aligned` is the cron that README.md:90 asks for, once a period:
everything else may happen, ticks of different periods overlap, calls crash and
answers are lost. `OneAtATime` is a cron as fine as one likes whose ticks never
overlap, where no hash that went out is lost (no `crash`, `dbError`, `sendLost`)
and no view comes after its period (`lateView`). `pipe_storm`, `pipe_periods`
and `pipe_live` are instances of the first, `pipe_retry` of the second.
Neither says anything of reconciliations: they may overlap, crash and fail in both.

**Publication.** `NoDoublePublication` is not inductive: it says nothing of
a tick that is about to send. `PublicationInv` adds that a tick has its period
to itself (`TicksApart`; from `fired` with an aligned cron, from the single slot
otherwise), that what its loop has yet to send was never sent (`TodoIsUnsent`),
that a transaction carries the payload of its chunk and a chunk has one
transaction (`SentPayload`, `SentOnce`), and that chunks of a period do not
share an asset (`SlicesApart`, from `SlicesDisjoint`, a lemma about `Slice`).
Where the cron fires again, `ReadyToRetry` says what the next tick of the period
finds: every hash is in its chunk or about to be written there, so `findChunks`
lists only what was never sent, and the chunks are still the cut of the views,
so `ensureChunks` inserts nothing beside them. Most steps disturb none of it;
lemma `Quiet` covers them and four lemmas cover the start of a tick, the
creation of chunks, `TickFind` and the sends.

**Settlement.** `SettlementInv` adds that hashes in hand and in rows belong to
the transaction of their chunk, that the list of pending chunks a
reconciliation read still holds, and that a period is settled from the moment
a finaliser passed `findChunks`. Lemma `Keeps` reduces preservation to what a
step must not do (forget a transaction, replace a hash, confirm a shallow chunk).

**Finality.** The hash of a chunk belongs to its one transaction (`ChunkHash`,
`SentOnce`), and what a transaction carries never changes; so it is enough that
no step clears a hash or forgets a transaction to know that none replaces a hash
or a payload. `FinalityInv` adds that a tick about to overwrite a status
(`markChunkSubmitted`, `markChunkFailed`) finds a chunk without a hash, hence
not CONFIRMED, and that a period past `findChunks` is complete. An update that
throws after `markChunkSubmitted` took effect breaks the former: `markSubmitted`
fails, and the catch marks FAILED a chunk that may be CONFIRMED by then. Hence
the hypothesis without `dbError`.

The hypothesis `Paced` cannot be dropped: with a fine cron two ticks of one
period overlap and send the same chunk twice, or a view that arrives between
two ticks shifts the slices.

**Sums.** Counters and mirror are compared with sums over periods and
transactions, which the modules write with `SumFunction` of the community
module Functions. The induction theorems of the library cannot be instantiated
here, so `SumTheorems` argues by least counterexample: `WFMin` gives the
smallest number of indices for which a fact fails, and the fold's own equation
leads from it to a smaller one. The definition of the fold is shown to have a
value in the same way (`SumsExist`). What is used afterwards is that sums are
integers, grow with their terms (`SumMonotone`) and move by as much as one term
moves (`SumDifference`).

**Counting.** `CountingInv` says that `totalViews` is the sum over all periods
and published transactions (`CountedIsPublished`: `Mine` and `Reorg` change one
term by what the transaction carries) and that a payload holds no more views
than were received (`ViewsCoverPayloads`: aggregates are views read back, and
views only grow). Since transactions of a period share no asset, the sum for one
period and asset has at most one term (`OneCounts`), and a sum of terms that are
each below the views is below the views (`SumMonotone`).

**Confirmed periods.** That a period was published in full needs the row: its
chunks are the cut of the payload `createPending` stored (`CutFromBatch`), which
needs that a tick reaching `ensureChunks` holds that payload (`AggregatesInRow`).
With an aligned cron the tick found no row and inserted it (`RowByOneTick`); one
at a time it read back what no view has changed since (`RowReadBack`,
`RowIsViews`). Every asset of the payload is in one slice (`SliceOfAsset`), whose
chunk is on a deep transaction (`SettlementInv`) that did not revert
(`NeverReverted`). What is anchored belongs to a confirmed period
(`AnchoredIsConfirmed`) and, without late views, is its payload.

**Mirror.** The code does not keep the mirror exact (`bug_mirror`); what it does keep is proved without assuming that
reconciliations come one at a time. From below: a period is in the sum of
`MirrorCoversApplied` when its row is flagged or some finaliser has passed the
asset. Such a term never grows but by an increment, which adds at least as much
to the mirror (`TermNeverGrows`, `MirrorAdds`): setting the flag takes over from
the finaliser that has added everything, a crash or a failed query only drops
terms. That no row is created under a finaliser needs `OnlyRowsAreFinalized`.
The sums are compared through the function that has the one term increased. From
above: what is added or flagged belongs to a settled period (`FinalizedIsSettled`,
`AppliedIsSettled`), which the chain has counted exactly once
(`SettledIsPublished`); so an increment too many repeats views that are on chain
and never invents any.

**Audits.** `AuditInv` says that a total that was behind the counter when it was
read stays behind: the counter, without reorganisations, only grows. So equal
totals at the second read mean that nothing was missing at the first, whatever
became of the mirror (`CleanNeverHidesViews`). `pipe_live` checks the stronger
`CleanIsGenuine`, that they were equal at the first read: this needs a mirror that is
not ahead of the chain, which overlapping or crashed reconciliations do not leave
(`bug_mirror`), so no theorem states it.

**Notarization.** `RecordInv` states the ownership that the primary key gives:
between its insert and its answer a request finds its row `PENDING` without a
hash and is the only one that will write it (`OwnersApart`), and it is the
first to send for its document (`SendIsFirst`). A row with a hash is only ever
confirmed (`PassesTracked`), which is why unconditional UPDATEs are harmless.
One lemma per kind of step; the refinement needs nothing more.

**View registration.** `ViewsInv` adds that uuids are apart and that a request
about to insert has seen its asset. The unique index does the rest.

**Nonces.** In a calm burst nobody is in flight while there is no promise, one call
alone waits for a pending one, and once the count is known each nonce below the
next one is taken by the node or held by one call (`HandedOut`). A call that
fails in a calm burst overlapped nobody, so it held the last nonce and the reset
loses nothing (`EvenOnKnown`).

**Shutdown.** `ShutdownInv` says which server, pool, jobs and exit go together:
without an early drain the pool is touched only when the server has closed and
the jobs have stopped (`PoolLast`), a server that has closed has no connection
(`ServerShape`), a fatal drain is over only with the process (`DrainShape`,
`ExitShape`), and what a connection carries went through `Refusal` and `Answers`
(`ConnShape`). `SecurityTheorem` is then a fact about the routes.

**Hand-over.** The histories are tied to the runs: a proposal or owner credited to
a run means that its transaction was mined, and a run past its wait has a mined
transaction. `TransferOwnership` and `AcceptOwnership` are the only steps that
change who may accept, and both reset the history with it. The records need no
such invariant: what a batch adds is a sum of naturals, and the sum that would
leave the range of a counter reverts (`RecordsStep`).

Every safety and action property of a passing run but `CleanIsGenuine` is stated by a
theorem. Otherwise only model-checked is liveness under fairness, which is out of the prover's reach:
`EveryViewIsAnchored`, `HealthyChunksProceed`, `WarnIsTransient`,
`EventuallyAcknowledged` and `SignalEndsProcess`. The properties of the violation
runs are false and have no theorem.

## 5. Assumptions

* A block NOTARY_CONFIRMATIONS deep is never undone. `confirmations` reads the
  receipt and then the latest block in two awaits; a receipt that is deep stays
  deep, so they are one step, together with the UPDATE that follows.
* A query either takes effect and resolves or does neither. (A COMMIT whose
  acknowledgement is lost would make `markSubmitted` throw after it took effect.)
* uuids are fresh, the sender of a view repeats the same body with its key.
* `ethers` 6.17: `NonceManager` keeps the promise of the count whatever becomes of
  it, reads the delta before awaiting and forgets both in `reset`. PostgreSQL
  enforces primary keys and the unique index on the idempotency key.
* The gas estimation in front of a send sees the latest block: a
  `publishBatch` with an unknown asset, or a document already registered, is
  refused before the broadcast. A transaction that was fine then and is not
  when mined reverts.
* Node: `server.close()` waits for every connection, reports
  ERR_SERVER_NOT_RUNNING when the server was not listening any more, and may report
  any other error; Express 5 calls the callback of `listen` for an `error` event; a process
  without handles exits with `process.exitCode`; unref'd timers are no handles.
  postgres.js: `end({timeout})` waits for queries but no longer than its timeout, or
  rejects,
  and a query on a pool that is ending fails. routing-controllers checks
  `@Authorized()` before it resolves parameters, and answers a request once.
* OpenZeppelin 5: `Ownable2Step` as in its source; ethers estimates gas before a
  send and rejects `wait()` on a receipt with status 0.
* `sendLost` covers a timeout of the provider after the broadcast.

Known behaviours of the code, reached by the models but shown by no run of their
own: with the port taken, a process that says it listens and lives on without a
server (`application.ts:32-34`); a notarized row FAILED whose transaction was accepted; a PENDING row without
hash after a crash, which stays so.

## 6. Not modelled, and the plan

Not modelled:

* `keygen.ts` and `address.ts --update-backend-env`: one synchronous run over one
  file, with nobody to interleave with. What a second run does to the backup is
  said in section 3.
* The request and response schemas (one Boolean of a request in `HttpSurface`),
  the React interface beyond the life of one verification, Swagger UI, logging,
  the listings of batches and documents beyond their status codes.
* `asBytes32` aliasing (`ethers-notary.gateway.ts:95`): ids that differ only in the
  case of their hex digits share a counter on chain and not in the mirror. The
  modules take ids as distinct on chain.
* `NullNotaryGateway` touches nothing; `BatchRepository.markFailed` has no caller.
* The log and the indexes of the contract's events, block timestamps.

What could still be added, in order of importance: ids as pairs of a row and a
bytes32 in `BatchPipeline`, to bring the aliasing in; recovery from hardships
bounded in number rather than absent in `pipe_live`; liveness of notarization;
an abstract specification of the pipeline (a ledger that counts a period once)
which `BatchPipeline` implements.
