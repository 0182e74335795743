# SignalProof: formal models

TLA+ specifications of SignalProof, the TLC runs that check them on small
instances, and proofs of their main theorems for TLAPS.  SignalProof takes a
network measurement from a contributor's browser, records it on a source chain
(Ethereum Sepolia), has its inclusion proven on Creditcoin, and accrues a
reward there.  Paths below are relative to the repository root.

## The system

| Component | State | Operations |
|---|---|---|
| `contracts/src/SourceBatchRegistry.sol` (source chain) | `registered`, `relayer`, `owner`; `MeasurementSubmitted` events | `submitMeasurement`, `setRelayer`, `transferOwnership` |
| `contracts/src/SignalProofSettlement.sol` (Creditcoin) | `settled`, `rewards`, balance, settings, `processedQueries` of Gluwa's `ASCBase` | `execute` (through `_processAndEmitEvent`), `claim`, setters, `withdraw`, `receive` |
| `contracts/src/SignalProofBatchSettlement.sol` (Creditcoin) | the same without queries, plus `siblingSettlements` | `executeBatch`, `setSiblingSettlements`, and the pool's |
| proof worker, `server/signalproof/proofWorker.ts` with `relayer.ts`, `worker.ts`, `chain.ts` | `ticking`, `ticksSinceReconcile`, the local variables of a tick | `tick`: reconcile, relay, fetch proofs, check, settle in batches or one by one |
| store, `server/signalproof/store.ts` and `server/db.ts` | the database handle; the rows, in MySQL or in memory, and their nonces | probe, look up, insert, update, claim workable rows, evict |
| gateway, `server/routers.ts`, `rateLimit.ts`, `shared/measurement.ts` | accepted attempts per contributor and cell | `submitMeasurement`, the public queries |
| on-chain read model, `server/signalproof/chainRead.ts`, `areas.ts`, `contributors.ts` | one cached snapshot, one read in flight, statistics per contributor | `getOnchainSnapshot`, coverage, contributors, rewards |
| buyer access, `access.ts`, `buyerApi.ts`, `areaExport.ts` | none: a key is computed from a payment | `verifyPurchase`, `verifyKey`, metered exports |
| browser, `client/src` and `client/public/sw.js` | a run and the row it follows; the wallet's account and chain; a stored key; cached answers | measure, sign, submit, poll; claim; pay, redeem; download |

A wallet signs the text for a measurement root; the gateway checks and stores
it as a `SUBMITTED` row; the worker, whose key is the registry's relayer, sends
it to the registry and the row becomes `AWAITING_ATTESTATION`; when the block is
attested on Creditcoin, anyone may prove the transaction to either settlement
contract, the worker among them, and the row becomes `SETTLED`, or `REJECTED`.
The contributor later calls `claim`.

What is hard here, and what would make each part correct:

* **Contracts.** Reentrancy through `claim` and `withdraw`; reverts; two replay
  layers; the order of settings and settlements.  Correct if a root is paid
  once, only for registered work, to its signer, and if what is owed and what
  was paid add up to what was credited.
* **Two routes.** Both are open to anyone; only the batch route looks at the
  other.  Correct if they agree on the payee and never both pay.
* **Worker.** Two chains, awaits between reading and acting, receipts that get
  lost, restarts that forget, others that settle the same rows.  Correct if its
  rows never claim more than the chains hold, every row reaches an end, nothing
  registered is left behind, terminal rows stay, and it pays once.
* **Gateway and store.** Requests that interleave between lookup and insert,
  two backends with different ideas of a root, a probe that is still on while
  calls come in, eviction, restarts.  Correct if a reading has one row, only
  signed readings count, the rate holds, and nothing live is dropped.  The
  first of these does not hold (see the disagreements).
* **Browser run.** Awaits of seconds, a wallet that switches accounts, answers
  about an earlier measurement, a page that is left while its run goes on.
  Correct if the page on screen has one run at a time, what is shown as settled
  was paid, and a measurement is followed to its end.
* **Read model.** RPCs that lose logs without an error, reads that overlap, two
  totals as the only defence, and that for scans with one start only.  Correct if a
  row served is true, a full picture is not given up, and a lossy one is mended.
* **Claims and purchases.** Money that is owed on several routes; a payment, a
  signature, a redemption and a key as four steps that fail or are repeated.
  Correct if a claim page ends up empty-handed nowhere it is owed, and a
  payment always leads to a key, and a key never to more than was paid.

## The modules

| Module | Models | Checked by |
|---|---|---|
| `RewardPool` | what both settlement contracts share: ledger, pull payment, reverts, settings | through the next two |
| `SignalProofSettlement` | the single-proof contract, extending `RewardPool` | `MCSettlement` |
| `SignalProofBatchSettlement` | the batch contract, extending `RewardPool` | `MCBatch` |
| `RewardLedger` | abstract specification: what either contract promises its contributors | as the property `ImplementsRewardLedger` of both |
| `SourceBatchRegistry` | the registry and the wallets that sign | `MCRegistry` |
| `SettlementRoutes` | the registry and both routes composed | `MCRoutes` |
| `ProofWorker` | worker, store and gateway over `SettlementRoutes` | `MCWorker`, `MCWorkerLive` |
| `MeasurementStore` | memory and MySQL behind one facade | through the next two |
| `Gateway` | concurrent submissions in front of the store, extending it | through the next |
| `MeasurementRun` | the console's tab, its wallet and other clients, extending `Gateway` | `MCGateway` |
| `ChainRead` | the snapshot, its views, the statistics and the claim page | through `Portal` |
| `BuyerAccess` | a purchase, from the page to the key | through `Portal` |
| `Portal` | the export that needs rows and a key, extending both | `MCPortal` |
| `RewardPoolProofs`, `SignalProofSettlementProofs`, `SignalProofBatchSettlementProofs`, `SourceBatchRegistryProofs`, `SettlementRoutesProofs`, `ProofWorkerProofs`, `GatewayProofs`, `PortalProofs` | proofs; `GatewayProofs` is about `MeasurementStore`, `Gateway` and `MeasurementRun`, `PortalProofs` about `ChainRead`, `BuyerAccess` and `Portal` | `tlapm` |
| `MCSettlement`, `MCBatch`, `MCRoutes`, `MCWorker`, `MCGateway`, `MCPortal` | the instances | |

### Contracts

A contract function is one action, except where it transfers value: the call
runs the receiver's code.  `Claim` and `Withdraw` therefore stop at the call
and push a frame with the storage a revert would restore; `TransferSucceeds`
and `TransferFails` (`Unwind` in the contracts) pop it.  In between, every
action of the contract may happen, to any depth up to `MaxDepth`, which is what
a receiver that calls back can do, and more.  The variables `accrued`, `paid`
and `verified` are history: totals ever credited and paid, and the events.

A source transaction is a record of its receipt status and of its
`MeasurementSubmitted`-shaped logs.  Logs keep emitter, root, contributor and
timestamp; area, session and readings are only copied and are left out.  The
precompile is the set `attested`; proof bytes, continuity proofs and the
query id's encoding are not modelled, so a query *is* a source transaction.
`SettleLogs` enters all logs of a transaction at once; for the batch contract
`Accepted` says which those are, in one set; `LoopSettles` is the contract's two
loops, log by log (`Visit`), and `AcceptedIsTheLoop` says that they agree.

A listed sibling is a foreign address.  One that pays answers `settled` with a
bool; an `Unresponsive` one reverts or answers too little, which counts as a no;
an `Unreadable` one answers with a word that is no bool, on which `abi.decode`
reverts the whole call (`AskingReverts`), unless a sibling listed before it has
said yes.

A signature is a record of who signed for which root and contributor;
recovering it against another text gives an address nobody has.  The relayer
may submit anything with any signature that exists.

`SettlementRoutes` instantiates the three contracts over its own variables.
Their settings are constants there, held in `deployment`.  It takes no money
out of the pools: `MCSettlement` and `MCBatch` do.

### Worker

`worker` holds the local variables of a tick: its stage, the rows still to do
(`todo`), the rows that passed (`kept`), the group being settled, the attempts
as claimed, and the transaction awaited.  Every `await` that matters is a step
boundary, so gateway, chains, other provers and restarts interleave there.

| Stage | Code | Actions |
|---|---|---|
| `reconcile`, `recover` | `reconcileFromChain` | `ReconcileRead`, `RecoverRow` |
| `relay` | `processSubmitted`, `relayMeasurement` | `ClaimSubmitted`, `RelaySend`, `RelayRefused`, `RelayMined`, `SendFails`, `WaitFails` |
| `prepare` | `processAwaitingAttestation`, `fetchProof` | `ClaimAwaiting`, `FetchProof`, `FetchFails` |
| `check` | `markIfAlreadySettled` | `StartChecks`, `CheckClosesRow`, `CheckKeepsRow` |
| `batch`, `receipt` | `groupByContinuityProof`, `settleBatch` | `PickGroup`, `BatchSend`, `BatchMined`, `BatchFails`, `ReadReceipt`, `ReceiptReadFails` |
| `single` | `settleMeasurement` | `SingleSend`, `SingleMined`, `SendFails`, `WaitFails` |
| `relay`, `receipt`, `single` | the row write after a mined transaction | `WriteFails` |

The environment: `Accept` (a contributor signs and the gateway admits and
stores), `BackoffElapses`, `Attest`, `NextBlock`, `OthersSettle`, `StrayLands`
and `Crash`.

Abstractions, each with its reason:

* A transaction is mined and its receipt read in one step, since the worker
  reads no chain between the two.  What separates them is the loss of the
  answer: `WaitFails`, `BatchFails` and `Crash` leave the transaction pending
  in `stray`, and `StrayLands` mines it later.  Transactions of one key on one
  chain land in order, as nonces make them; none is dropped for ever.
* Which error text the client library produces for a revert is not known, so
  `RelayRefused` and a reverted relay are permanent or transient by choice.  A
  settlement that reverts after being mined carries no reason and is transient.
* Which rows share a continuity proof is the proof service's choice.
* Durations are abstracted: a row is delayed or it is not.
* A root has one spelling.  The code compares the roots of a receipt with those of
  its rows by their letters (`proofWorker.ts:398`), so a row under a re-cased root
  would miss its own event; spelling is in `MeasurementStore` and `Gateway`.
* A read of the attested height that fails ends the tick (`proofWorker.ts:176`), and
  no attempt is counted; a snapshot that fails ends reconciliation.
* Reconciliation recovers the measurements it found unpaid (`worker.unpaid`) in any
  order: the code's is that of the logs, and nothing depends on it.  A list picked from
  another (`Ordered`: the workable rows, those with a proof, a group) is the one
  sequence with these members in the old order.
* `MAX_BATCH_ENTRIES` (50) exceeds `BATCH_SIZE` (10), so the slice of a group
  in `processAwaitingAttestation` never cuts and is left out.
* A write to the store may fail where it matters, after a transaction was mined
  (`WriteFails`).  When the failure cannot be recorded either, the tick ends;
  the model's `Crash`, which forgets no row of a database, covers that.
* Row fields that only feed the dashboard are left out.

`Gateways` lists the gateways a run considers; each names its configuration (mode,
batch route, batch size, database), who else settles, what may fail (`faults`), and
the bounds on crashes, pending transactions and time.  The choice is made in the
initial state, so one run covers several environments, and a property says for which
of them it holds.

### Gateway, store and browser run

`MeasurementStore` keeps both backends.  `handle` is what `getDb` knows: the
first call starts the probe and awaits it (`prober`), and any other call that
comes meanwhile finds no handle and is served from memory.  A root is the hash
of a reading and is identified with it; since memory compares the text of a root
and MySQL ignores case, a submission carries whether its root is `recased`.
`Evicted` drops the oldest terminal rows above the cap, with their nonces;
`Without` is the list that is left.

`Gateway` serves requests in slots.  `Arrive` is `admitMeasurement`, which has
no await between policy, integrity and the rate limit, so it is one step; the
limiter's attempts (`accepted`) are kept as positions in the list of what was
admitted, whose entries have the times the code keeps.  Then
`LookUp`, `InsertRow` or `InsertRefused`, and `ReadBack` are calls of the store
with anything in between, each of which may fail under MySQL (`CallFails`).  The
worker is here only as a caller that advances and recovers rows, in any order.

`MeasurementRun` adds the tab.  `runs` are the async functions that have not returned;
`mounted` says of each whether the page it belongs to is on screen, for the hook that
started it lives in `Home.tsx:326`, which a route change unmounts (`App.tsx:23`).
What a run of a page left before sets, is set nowhere (`Seen`); that the page on
screen has one run is what `SingleRun` checks.  A request is in the slot with the
number of its run.  A run measures, signs with the account the wallet has by then, and
sends; `submitted`, `polled` and `shown` are the mutation, the query on its way and
the status the effect has seen.  Other clients resend what was signed, as it is,
re-cased, or altered with or without its root adjusted; they cannot sign for others.
The visitor may switch the console's mode and return (`Remount`: the state of the page
stays, `AutoMeasure` forgets its flag), go to another route and return (`Navigate`:
both start anew, the runs go on), close the tab (`Leave`), or let a request to sign
lapse (`NotSignedInTime`).  Geolocation, latency and throughput are a measurement that
succeeds or does not.

### Read model, claims and purchases

`ChainRead` keeps the chains as sets of logs and the snapshot as a set of rows. A read
is `StartRead`, which takes the head, and then one of `CompleteRead`, `LossyRead` (any
part of the logs) and `FailRead`.  Scans begin at the deploy block of their contract
where it was recorded, or else `MAX_LOOKBACK_BLOCKS` behind the head (`Start`), so
logs have blocks and old ones may fall out of reach; a snapshot remembers where its
scans began (`scannedFrom`), and `ReconcileSnapshot` compares sizes only for equal
beginnings. `Recorded` says that the deploy blocks of all configured contracts are
known.  Every settlement pays one unit, since amounts are the subject of the
contracts' modules; the order of logs only decides which row is first and is left out.
`EMPTY_RETRIES`, `scanLogs`' chunks and their retries make a lossy read rarer; the
model lets every read be lossy and needs none of them. `ComputeStats` joins a snapshot
taken earlier with the claims of now, of which the scan may lose some; how many, is
kept in `lost`, which the code does not know. `FetchRewards` and `ClickClaim` are the
claim page, with buttons that stay as they were until the next read, next to claims
made elsewhere, withdrawals by the owner and `retired` routes the page does not know.

`BuyerAccess` has the market, one wallet and one page.  `Buy`, `PaymentSent`,
`SignText`, `Judged`, `NotFound` and `PollAgain` are the awaits of `buy()` and
`redeem()`; the account of the click, the account that sends and the account
that signs may all differ.  The server restarts with another price, term or secret,
each of which it reads anew for every request.  A key is issued together with the
moment, the price and the term it was issued at.  A deployment with an access secret
is modelled: without one, nothing is metered.  A day is the unit of time.  While the
wallet is asked to switch chains the page is not busy, and could be clicked again;
`BuyOnOtherChain` is one step and leaves that out.

`Portal` is the export: rows of a cell through the gate, saved by the page,
kept by the service worker and served by it when the browser is offline.  A run
considers `Situations`, pairs of a deployment and a market, and `uses` says
which parts of the program are on in a situation; the parts share little state,
so that all of them at once would multiply states and add no behaviour.

## What the runs check

Symmetry is not used.  Deadlock is checked except in `MCRoutes` and
`MCRoutesTwice`, where everything settled at the last block is an end, and in the
runs of `MCGateway.tla` and `MCPortal.tla`, where runs, restarts and time are used up
in the end.

| Run | States | Shows |
|---|---|---|
| `MCSettlement` | 529,152 | the single-proof contract keeps its accounts under nested reentrant calls and reverts (`RewardsBalanced`), pays a root once (`PaidOncePerRoot`), its replay layers agree (`ReplayLayersAgree`), it pays only for logs of a bound registry in a successful attested transaction (`OnlyRegisteredWork`), and it implements `RewardLedger` |
| `MCBatch` | 452,096 | the same accounts for the batch contract; the loops settle exactly `Accepted` (`AcceptedIsTheLoop`); a log the contract has no reason to refuse makes its batch executable whatever else is in it (`HonestLogNeverStranded`), unless a listed sibling answers with no bool; times and window stand in that property by themselves, and the window changes; what a listed sibling paid is not paid again (`NeverRepeatsASibling`); it implements `RewardLedger` |
| `MCRegistry` | 576 | one submission per root; every submission signed by its contributor |
| `MCRoutes` | 16,800 | a reward only for a signer (`PaysOnlySigners`), the same payee on both routes (`RoutesAgreeOnPayee`), and a root settled on the single route stays closed on a batch route that lists it |
| `MCWorker` | 1.3 million | rows behind the chains (`RowsBehindChains`), terminal rows final while routes can be read and rows written, and single payment while no receipt, read or write is lost as well |
| `MCWorkerLive` | 363,194 | every row ends (`RowsClose`) in five gateways that differ in what fails, ticks whose reads of height, snapshot and routes fail and one with room for one of two rows among them; those that settle leave nothing registered behind (`RegisteredIsPaid`), though restarts lose rows, receipts are lost, and reads or writes fail |
| `MCGateway` | 844,249 | a second row of a reading only in memory, recovered beside a re-cased one (`SecondRowIsRecovered`), only readings their contributor signed count (`OnlySignedCounts`), the rate holds (`CellRate`), no live row is evicted (`LiveRowsStay`), the page on screen has one run at a time (`SingleRun`), settled on screen was paid (`SettledShownIsPaid`), and a measurement MySQL holds is followed to its end across restarts of the server (`Followed`) |
| `MCPortal` | 97,850 | rows served and saved are true and the views agree (`ServedIsTrue`); where deploy blocks are recorded, a full snapshot stays (`TruthSticks`) and a lossy one is mended (`CatchesUp`); the statistics call no more unclaimed than is owed, three cases excepted (`UnclaimedBounded`), and what is owed reaches its owner (`RewardsReachTheirOwner`); a key stands for a payment of the price asked and runs for the term offered (`KeysArePaidFor`), and a payment leads to a key (`PaymentBringsAccess`) |
| `MCRoutesTwice`, `MCWorkerTwice`, `MCWorkerWalksBack`, `MCWorkerSkipped` | | disagreements, below |

Bounds. Two roots and two contributors are the least for a batch, a repeated root and
a disputed payee. The source transactions of `MCSettlement` are chosen to contain an
honest log, a repeated root with another payee, a lookalike's log and a failed
transaction. `MCBatch` has one transaction, since each more multiplies the batches,
with a lookalike's log first, then one root at two times for two payees, and another
root; a batch may hold it twice. So a root is repeated inside a transaction, across a
batch and across batches, and foreign, stale and early logs come before honest ones;
batches of different transactions, and of failed ones, are left to the proofs.
`MaxDepth = 2` in `MCSettlement` lets a receiver be called back inside its own
callback; `MCBatch` stops at one level. The freshness window of `MCSettlement` is 0
and time goes to 1, so logs are in the future, on the edge and stale; the window of
`MCBatch` is changed between 0 and 1 as well. Its siblings, of which one may be
listed, are one that pays, one that does not answer and one that answers with no bool;
lists of two, in which a yes comes before the answer that is no bool, are left to the
proofs. In the worker runs one contributor suffices, since payees are the routes'
business; two rows are the least for a batch; `MAX_ATTEMPTS = 2` has a retry and an
exhausted row, `RECONCILE_EVERY_TICKS = 2` ticks with and without reconciliation, and
one crash and one pending transaction are each enough to meet every stage.
`batchSize = 2` has room for every row; the gateway `Narrow` has 1, so that the older row, while
it can be worked on, keeps the other waiting. `Unwritten` adds failing row writes to
others that settle, a crash and a lost receipt; `Unread` has a restart without rows
and reads that fail, of the attested height and the snapshot among them.

`MCGateway` has three slots, one for each run of the tab and one for somebody else;
two are the least for submissions to overlap.  `RATE_MAX = 1`, a window of 2 and time
to 2 have a window that is full and one that has passed; `MAX_ROWS = 1` overflows with
two rows.  Four deployments cover what must not all happen at once: MySQL with a
resend, memory with a resend, a wallet that switches accounts on a clock too far
ahead, and a tab with two runs, in which cycle and button take turns or, after a route
change, run side by side, while memory overflows.

`MCPortal` considers twelve situations.  Nine are of the chains: two routes, two
registries (so that a root may be in both), a redeployment (retired contracts that are
older than the block scans start from), no recorded deploy blocks with a window that
the head outruns, statistics on three routes of which one is retired, statistics with
claims that get lost, statistics with two registries, a claim page of two
contributors, and an export.  Two roots are the least for a read that loses one log
and gains another.  Three are of the market: a wallet that switches accounts and
chains, one where RPCs and requests fail while price and secret change, and one where
price and term change.  `MaxPolls = 1` has a confirmation that comes late and one that
does not come.

Fairness (`FairSpec`).  The interval keeps firing and each await ends, in an answer or
an error: weak fairness of `Step`.  That is an assumption about the nodes, as
`tx.wait(1)` has no timeout in the code; a transaction that is dropped for good hangs
the worker until it restarts.  Backoffs elapse with the clock, blocks get attested,
pending transactions land.  Nothing is assumed of contributors, of other provers, of
crashes, or of which outcome a step has, with one exception: the attested height and
the snapshot, whose failing is counted nowhere, are read successfully again and again
if they are asked for again and again (strong fairness of `ClaimAwaiting` and
`ReconcileReads(Unpaid)`).  A source RPC that is down for good leaves rows as they
are, for ever and rightly.  For all the rest, `RowsClose` rests on failures being
counted.

`MCGateway`: the tab polls every 15 seconds and the query is answered, the store
is probed, and the worker advances a row it can advance.  Nothing is assumed of
runs, of the wallet or of other clients.  `MCPortal`: pages poll the snapshot and
caches expire (weak); an RPC that is asked again and again also answers
completely again and again (strong, `CompleteRead`), without which nothing a
cache does could mend a lossy read; the claim page reads the rewards and its
user clicks a button that pays; a buyer reloads a page that hangs, signs often
enough when asked again and again, and redeems again after an error, a paid
transfer is mined, and the server in the end finds the block.

### Disagreements

* `MCRoutesTwice`: README.md:252 says nobody can settle a root twice across
  routes.  Only the batch route asks its siblings, so a measurement settled in
  a batch first is paid again by `execute` on the single-proof route.
* `MCWorkerTwice`: docs/site/security.md:14 says the worker cannot settle a
  root twice.  The fallback of `proofWorker.ts:219` also runs when waiting for
  the batch failed, and does not ask the routes again: the batch lands, then
  the single settlements do.
* `MCWorkerWalksBack`: `worker.ts:169` says nothing walks SETTLED back.  If
  `batch.settled` throws at `proofWorker.ts:403` after other rows of the batch
  were closed, the fallback settles those again, fails, and `recordFailure`
  writes into the settled rows, REJECTED in the end.
* `MCWorkerSkipped`: `proofWorker.ts:401` says "already settled" and "too old"
  want opposite handling; both become REJECTED, and a payment by a sibling is
  recorded as too old.

Two more behaviours are visible in the model and not stated as properties.
In relay-only mode no code closes the row of a measurement its contributor
settled: `reconcileFromChain` skips settled measurements and existing rows.
And after the receipt of a relay is lost, the retry is refused as a duplicate,
which is permanent; reconciliation skips the REJECTED row, so the worker never
settles that measurement (`RegisteredIsPaid` allows for it).  The same happens
when the row write after a relay fails.  A row write that fails while the
receipt of a batch is read (`proofWorker.ts:411`) starts the fallback as a lost
receipt does, and so does a read of the routes that fails
there (`proofWorker.ts:403`): the batch has landed, single settlements of all its
rows follow, and the ones it paid are paid twice without any receipt being lost.
`PaysOnceWhenHeard` and `TerminalIsFinal` leave gateways with failing writes or
reads out for that reason.

What the other modules met, and how their properties allow for it:

* The comment at `SignalProofBatchSettlement.sol:135` says that a misconfigured
  sibling degrades to no cross-check and cannot stop the route.  One whose call
  succeeds with a word that is neither 0 nor 1 makes `abi.decode` (:147) revert every
  batch with an honest log, until the owner changes the list.
  `HonestLogNeverStranded` has as its premise that no such sibling is listed.
* README.md:257 and docs/site/security.md:48 say that a re-read never shrinks what
  was served.  `chainRead.ts:218` takes any answer to a scan with another start, and
  without a recorded deploy block every block moves the start (`chainRead.ts:231`;
  docs/site/operations.md:15 describes that fallback).  `TruthSticks` and `CatchesUp`
  are about deployments that record theirs (`Recorded`).
* `access.ts:139` and `BuyAccess.tsx:7` say that a payment has one key.  When the block
  cannot be read (`access.ts:142`) the term runs from the local clock, and a late
  redemption gets another key, which ends later.  `KeysArePaidFor` therefore bounds
  the expiry by the redemption and not by the payment.
* `store.ts:9` says memory has the uniqueness of the MySQL schema, and
  `routers.ts:125` that re-casing a root is harmless.  Reconciliation looks for the
  row of a re-cased root under the root as the chain has it (`proofWorker.ts:115`),
  does not find it in memory (`store.ts:62`) and inserts another, with a nonce of its
  own.  `SecondRowIsRecovered` says that nothing else makes a second row.
* `AutoMeasure.tsx:57` says its flag keeps a cycle from starting while one is
  sampling.  A link to another route and back mounts a component with a new flag and
  an idle state while the cycle goes on, and the next may begin beside it.
  `SingleRun` is about the page on screen.
* `unclaimedWei` subtracts the claims of the configured routes from the
  settlements of all scanned ones (`chainRead.ts:793`): what was claimed on a
  retired route is offered again, and a root in two registries is counted
  twice.  These are two exceptions of `UnclaimedBounded`.  The third are the claims a
  scan loses: `chainRead.ts:779` reads claims on both routes lest money already paid
  be offered, but that scan may lose logs as any other, and nothing notices.
* `redeemAccess` is awaited without a catch (`BuyAccess.tsx:64`): a request that
  fails leaves the page busy until it is reloaded (stage `hung`).  The first click
  on another chain always ends in an error, since the function goes on with the
  chain id of the click (`BuyOnOtherChain`).  A price raised after the terms were
  fetched makes the payment too small; `PaymentBringsAccess` then ends its promise.
* `sw.js:32` passes only `/api/` by, although lines 4 to 9 say that API responses
  are never cached: an answer of `/v1/` is served again offline, and where there
  is none the page saves the app's own HTML as its export (`Shell`).  `ServedIsTrue`
  does not object: what is stale was true, and is part of what is true now.
* Rows inserted while the database is being probed stay in memory, where no
  later call looks for them when MySQL turns out to be there (`handle`), so memory
  and MySQL may each have a row of one reading; `SecondRowIsRecovered` is about each.
  `Followed` is about rows that MySQL holds.  A run of a page that was left is
  sent and stored without anybody following it.  A read-back that fails after the
  insert shows an accepted measurement as rejected.

## What is proved

Every safety invariant and action property that a passing run checks is a theorem: it
holds for every value of the constants.  The proofs rest on the named assumptions
only, which TLC evaluates in every run: amounts and times are numbers, the zero
address is not an account, logs are sequences of logs, a malformed signature is
nobody's, the composition's sibling lists name only the single route, a gateway, a
deployment and a market are of the kind their modules say, a reading has the fields
the gateway checks, the worker is no request, and a clock that is cut off in a run is
a number.

| Module | Theorem | Statement |
|---|---|---|
| `SignalProofSettlementProofs` | `TypeCorrect`, `RewardsAlwaysBalanced`, `NoRootPaidTwice` | `Spec =>` `[]TypeOK`, `[]RewardsBalanced`, `[]PaidOncePerRoot` |
| | `RewardsAreEarned`, `ReplayLayersNeverDisagree` | `Spec =>` `[]OnlyRegisteredWork`, `[]ReplayLayersAgree` |
| | `RefinesRewardLedger`, `CreditsArePermanent` | `Spec =>` `ImplementsRewardLedger`, `[][NoLess(Committed, Committed')]_vars` |
| `SignalProofBatchSettlementProofs` | `TypeCorrect`, `RewardsAlwaysBalanced`, `NoRootPaidTwice`, `RefinesRewardLedger`, `CreditsArePermanent` | the same for the batch contract |
| | `SiblingsNeverRepeated`, `HonestLogSettles`, `LoopIsAccepted` | `Spec =>` `NeverRepeatsASibling`, `[]HonestLogNeverStranded`, `[]AcceptedIsTheLoop` |
| `SourceBatchRegistryProofs` | `TypeCorrect`, `RootRecordedOnce`, `NoForgedAttribution` | `RegistrySpec =>` `[]RegistryTypeOK`, `[]OneSubmissionPerRoot`, `[]AttributionSigned` |
| `SettlementRoutesProofs` | `OnlySignersPaid`, `OnePayeePerRoot`, `SingleRouteClosesBatch` | `RoutesSpec =>` `[]PaysOnlySigners`, `[]RoutesAgreeOnPayee`, `SingleClosesBatch` |
| | `RegistryAlone`, `SingleRouteAlone`, `BatchRouteAlone` | `RoutesSpec =>` `R!RegistrySpec`, `S!Spec`, `[][B!Next]_(B!vars)` |
| `ProofWorkerProofs` | `TypeCorrect`, `RowsNeverAhead` | `Spec =>` `[]WorkerTypeOK`, `[]RowsBehindChains` |
| | `ClosedRowsStayClosed`, `HeardIsPaidOnce` | `Spec =>` `TerminalIsFinal`, `PaysOnceWhenHeard` |
| `GatewayProofs` | `RunTypeCorrect`, `SecondRowOnlyRecovered`, `OnlySignedEver`, `LimitHolds` | `Spec =>` `[]RunTypeOK`, `[]SecondRowIsRecovered`, `[]OnlySignedCounts`, `[]CellRate` |
| | `LiveRowsAreKept`, `OneRunPerPage`, `SettledMeansPaid` | `Spec =>` `LiveRowsStay`, `[]SingleRun`, `[]SettledShownIsPaid` |
| `PortalProofs` | `OnlyTruthServed`, `NoKeyUnpaid` | `PortalSpec =>` `[]ServedIsTrue`, `[]KeysArePaidFor` |
| | `FullSnapshotStays`, `UnclaimedStaysBounded` | `PortalSpec =>` `TruthSticks`, `UnclaimedBounded` |

### Contracts

`RewardsBalanced` is not inductive: `TransferFails` replaces the storage by the
one saved in a frame, of which the invariant says nothing.  `PoolSound` adds that
every saved storage is sound as well, and soundness joins types, balance and one
event per root, since each is needed to keep the others (the credit of a batch is
a number because its logs are finitely many; a root is fresh because the settled
map agrees with the events).  `RewardPoolProofs` proves once that each pool
operation keeps `PoolSound` (`PoolStepSound`, `TransferFailsSound`) and that
`SettleLogs` does, for any finite set of unsettled logs with distinct roots
(`SettleLogsSound`).  The contracts' modules then only show that the logs they
enter are such a set: `ExecuteSound` for the single-proof contract,
`AcceptedFinite` and `AcceptedSettleable` for the batch.

The refinement.  `RewardLedger` counts what credits promise as the cardinality of
a set, a wei of a credit being a pair of the credit and a number; unions of
disjoint finite sets then do what a sum would need an induction for
(`WeiUnion`, `WeiOfLogs`).  `PoolItemised` says of the present storage, and of
every one saved in a frame, that the total accrued is that cardinality.  Between
transactions (`Committed`) every step is then one of the ledger or a stutter
(`CommittedTransaction`).

Permanence, the half of it that is about time, uses `Layered`: each saved storage
has no credit and no payment that the ones saved later, and the present one, have
lost.  A step adds a layer, removes the top one, or returns to it, and none of
these touches the lowest, which is what had been committed (`GrowthLayered`,
`CallLayered`, `ReturnLayered`).

What the single-proof contract pays for: `TraceInv` says that every event stems
from a log of a bound registry in a successful attested transaction, and that
queries and settled roots agree, of the current state and of every storage saved
in a frame; a revert then restores a storage of which it was known.

`HonestLogNeverStranded`: if a log the contract does not refuse is in a batch,
there is a first position with such a log of the same root (`FirstExists`), by the
well-foundedness of strict inclusion between finite sets (`LeastNat`); the log at
that position is accepted, so the batch settles at least one (`AcceptedNonEmpty`).
That no listed sibling is `Unreadable` is a premise of the property (see the
disagreements).

`AcceptedIsTheLoop`: what the loops have settled after log `j` of transaction `i` is
the set of first eligible logs up to there (`SettledUpTo`), or that the call has
reverted, if one of these logs asks a sibling that is no use (`Answered`).  One visit
takes that set to the next (`VisitStep`): a root is among those entered exactly when
an eligible log of it was visited.  The library's induction theorems take an operator
as a parameter and cannot be instantiated, so the two loops are unrolled by the least
place where two functions that take the same steps differ, of which there is none
(`LoopUnique`); that a function with these steps exists is shown by giving
`SettledUpTo` as one.  Nothing bounds the length of a batch.

The registry: a submission needs a recovered signer, and only a signature over
this very text recovers to an address with a key (`RecoveredIsSigner`);
signatures are never taken back.  The composition, `RoutesInv`: every event of a
route is backed by a submission of the registry with the same payee, every
submission by a signature, submissions are one per root, and what is attested was
submitted.

That the composition adds nothing to the contracts is proved as well: it meets what
their modules assume (`PartsAssumed`), and its steps are steps of each of them or
leave it alone (`RegistryAlone`, `SingleRouteAlone`, `BatchRouteAlone`), so the
theorems about a contract with any caller and any owner are about this one too.  A
settlement on the single route is, for the batch route, its sibling's settlement of
one root, because a registry call logs one measurement.  The batch route may start
here with its sibling already listed, which alone takes a call of its owner first;
its theorem is therefore about the steps.

### Worker

`RowsBehindChains` needs what a tick takes for granted of the rows it holds while
everything else moves.  `WorkerInv` has four parts: the chains record each
registered root with its event (`ChainInv`); a row that can be worked on has
attempts left and, from `AWAITING_ATTESTATION` on, is registered with its own
payee and time (`StoreInv`); the rows held by a tick exist and are registered once
relayed, what the receipt says was won has been settled, and the transaction it
waits for is that of its row or group (`TickInv`); bounds (`CountInv`).  Chains
only grow (`ChainMoves`), so a late `StrayLands`, others, and a restart that loses
the rows keep all of it.

`TerminalIsFinal` and `PaysOnceWhenHeard` need to know in how many hands a row is.
`HandInv` adds: no row is in a list twice, or in the list kept as well as in the
one to do (`ListsInv`); while routes can be read and rows written, a row in hand
is unfinished (`FinalInv`); and a gateway that hears of everything has nothing
pending and has closed the row of whatever the batch route paid for, unless it is
reading that very receipt (`HeardInv`).  A single settlement is then never sent for
a root the batch route has settled, and the batch route asks the single one.
Looking for that invariant showed that failing reads have to be excluded in
`PaysOnceWhenHeard` (see the fallback above).

### Gateway, store and browser run

`RunInv` joins five invariants, of which none holds alone.

* `StoreInv`: the nonce of every row in memory is reserved and belongs to one row, a
  spelling of a root is that of one row, and in MySQL a root has one row.  Text that
  is re-cased passes the lookup of memory, not the nonce, so that two rows the gateway
  made are one; a row recovered from the chain has a nonce of its own, and the one
  spelling the chain uses, so it stands beside a re-cased row or alone.  Dropping a
  terminal row frees its nonce, which is safe because no other row had it.  `Without`
  is shown to keep every position that is not dropped, once (`WithoutFacts`), and
  `Evicted` only has terminal ones: that is `LiveRowsStay`.
* `SignedInv`: whatever is on the wire carries a signature somebody made, and what
  is past admission is the reading its contributor signed; every row, and every root
  on the source chain, from which rows are recovered, stems from one of these.
* `RateInv`: an admission that is still in a window with now is counted by its key.
  When a reading is admitted, a window that has now in it therefore holds only what
  the limiter has just counted (`WindowCounts`), and any other window stays as it is
  (`AdmissionSound`).
* `TabInv`: at most one run is mounted; while one is, the page is sampling or
  submitted and follows no root; runs have numbers of their own, and with them slots;
  the status a query brings back as settled was paid for the root it was asked for.  A
  late answer is then about another root.
* `ClockInv`: the deployment and the clock keep their ranges.

The lemmas are one per action (`ArriveSound`, `InsertRowSound`, `WalletSignsSound`,
and so on), each under what it leaves alone (`CallSound`, `ReadSound`,
`GatewaySends`).

### Read model, claims and purchases

`PortalInv` joins four invariants.  `SnapshotInv`: what is served is the join of some
of the submissions with some of the settlements that the chains hold, so it is never
more than the truth.  Where deploy blocks are recorded, two scans begin at the same
block and the later one reaches at least as far.  A join of part of the logs that has
the totals of the join of all of them shows the same standing (`JoinCounts`,
`SameStanding`, by the cardinality of subsets of a finite set), and any other has a
smaller total and is refused.  The views agree because what is counted group by group
and the rows correspond one to one (`CountByGroup`).

`ClaimsInv`: on each route, no more was claimed than settled for a contributor.
What the statistics call paid in an old snapshot is at most what is settled on all
routes now (`EarnedBySettlements`), which is what accrued and what was claimed
(`SettledSplits`), and so no more is called unclaimed than is owed, up to the three
exceptions (`ComputedBounded`).

`BuyInv`: an issued key's payment was found paid, to the pool, by the signer; a mined
payment is never changed again; its value was compared with the price at the
redemption; and the expiry is the term of that moment after a time between the block
and the redemption.  `ExportInv`: what is saved was served while a key was stored.

### Only model-checked

Liveness under fairness (`RowsClose`, `RegisteredIsPaid`, `Followed`,
`CatchesUp`, `RewardsReachTheirOwner`, `PaymentBringsAccess`) is out of the proof
system's reach and stays with TLC.

## Not modelled

* Proof bytes, ABI decoding, gas and its fallbacks, and 256-bit overflow of
  rewards (it would take more CTC than exists).
* Contract settings vary in the single contracts' modules and not in the
  composition.  How a server process learns its routes (`chain.ts:174`) is left
  out: the routes are constants of a run.
* The retries inside a scan, the order of logs, and how far attestation has come;
  quality scores, badges, briefs, trends and quotes, which format rows; readers that
  look one row up and keep no state (`verify.ts`, `proofView.ts`, `ops.ts`).
* `server/_core`: the platform template (sessions, uploads, model calls, maps),
  of which the pipeline uses only the HTTP server.
* `client/src/components/ui`: a vendored component library.  Pages and components that
  render what they are given, the docs pages and their search.
* Pure helpers such as geohashes and queue positions, and the deployment and
  end-to-end scripts, which drive the modelled parts.

These are most of the repository's lines, which is why the map, though it covers
most of the pipeline's own control, covers a modest share of them.

## Plan

Done: the contracts, their composition, the worker with its failures, the
gateway and its store, the tab, the read model, claims and purchases, and the
theorems above.  What is left, in the order of what matters:

1. The chain context: routes that are resolved after the context is cached, and
   batch routes that list each other.
2. A transaction that is dropped for good while the worker waits for it.
3. Safety lemmas that the liveness properties rest on (a row that is worked on is
   never out of the queue; a failure counts an attempt).
