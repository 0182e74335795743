---------------------------- MODULE ProofWorker ----------------------------
(***************************************************************************)
(* The gateway's proof worker (server/signalproof/proofWorker.ts, with     *)
(* relayer.ts, worker.ts and the row store) between the two chains of      *)
(* SettlementRoutes.  It is one loop, a tick every 15 seconds and never    *)
(* two at once: reconcile with the chains, relay the SUBMITTED rows, then  *)
(* prove and settle the AWAITING_ATTESTATION rows.  Every await in a tick  *)
(* is a step of its own, and the chains, the gateway and other provers     *)
(* move in between.                                                        *)
(*                                                                         *)
(* A transaction the worker sends is mined and answered in one step: what  *)
(* the worker does next reads no chain before it writes the row.  When the *)
(* answer is lost, or the process dies, the transaction stays pending and  *)
(* lands later.  All transactions of one key on one chain land in order.   *)
(*                                                                         *)
(* Roots are in the one spelling a client derives.  What a re-cased root   *)
(* does to the rows is in Gateway; what it does to the worker, which       *)
(* compares a receipt's roots with a row's as text, is left out.           *)
(***************************************************************************)
EXTENDS SettlementRoutes, Functions

CONSTANTS
  MAX_ATTEMPTS,            \* length of the backoff schedule
  RECONCILE_EVERY_TICKS,
  Gateways                 \* the gateways considered

\* How a gateway is configured, what goes wrong around it, and bounds on that.
Gateway == [
  autoSettle : BOOLEAN,        \* PROOF_WORKER_MODE: "full" (TRUE) or "relay-only"
  batchConfigured : BOOLEAN,   \* is BATCH_SETTLEMENT_ADDRESS set?
  batchSize : Nat \ {0},       \* BATCH_SIZE, rows claimed per stage and tick
  durable : BOOLEAN,           \* do rows survive a restart: is there a database?
  openRoutes : SUBSET {"single", "batch"},   \* the routes others settle on
  faults : SUBSET {"send", "wait", "read", "proof", "store"},   \* what may fail
  maxCrashes : Nat,            \* bound: restarts
  maxStray : Nat,              \* bound: transactions left pending at a time
  lastBlock : 0 .. MaxTime]    \* bound: the time the chains reach

ASSUME WorkerAssumption ==
  /\ MaxTime \in Nat
  /\ {MAX_ATTEMPTS, RECONCILE_EVERY_TICKS} \subseteq Nat \ {0}
  /\ Gateways \subseteq Gateway

VARIABLES
  rows,             \* root -> its row, in MySQL or in memory
  queue,            \* the roots that have a row, by createdAt
  worker,           \* the local variables of the tick in progress
  stray,            \* transactions sent and given up on, oldest first
  ticksSinceReconcile,
  crashes

storeVars  == <<rows, queue>>
workerVars == <<storeVars, worker, stray, ticksSinceReconcile, crashes>>
vars       == <<chainVars, workerVars>>

AutoSettle      == deployment.gateway.autoSettle
BatchConfigured == deployment.gateway.batchConfigured
BATCH_SIZE      == deployment.gateway.batchSize
Durable         == deployment.gateway.durable
OpenRoutes      == deployment.gateway.openRoutes
Faults          == deployment.gateway.faults
MaxCrashes      == deployment.gateway.maxCrashes
MaxStray        == deployment.gateway.maxStray
LastBlock       == deployment.gateway.lastBlock

Status == {"NONE", "SUBMITTED", "AWAITING_ATTESTATION", "SETTLED", "REJECTED"}
Terminal == {"SETTLED", "REJECTED"}
Stage == {"idle", "reconcile", "recover", "relay", "prepare", "check",
          "batch", "receipt", "single"}

Row == [status : Status, contributor : Contributor \cup {NoAddr},
        timestamp : 0 .. MaxTime, attempts : 0 .. MAX_ATTEMPTS, delayed : BOOLEAN]
NoRow == [status |-> "NONE", contributor |-> NoAddr, timestamp |-> 0,
          attempts |-> 0, delayed |-> FALSE]

\* A transaction of the worker: a measurement for the registry, or the
\* measurements one call proves to a settlement route.
Tx == [kind : {"relay", "single", "batch"}, roots : Seq(Root),
       contributor : Contributor \cup {NoAddr}, timestamp : 0 .. MaxTime]
NoTx == [kind |-> "none"]

Attempts == [r \in Root |-> rows[r].attempts]

\* Between two ticks, and after a restart.
Resting == [stage |-> "idle", unpaid |-> {}, todo |-> <<>>, kept |-> <<>>,
            group |-> <<>>, won |-> {}, claimed |-> [r \in Root |-> 0], awaited |-> NoTx]

WorkerTypeOK ==
  /\ rows \in [Root -> Row]
  /\ Range(queue) = {r \in Root : rows[r].status # "NONE"}
  /\ worker.stage \in Stage
  /\ worker.awaited \in Tx \cup {NoTx}
  /\ \A i \in DOMAIN stray : stray[i] \in Tx
  /\ ticksSinceReconcile \in 0 .. RECONCILE_EVERY_TICKS
  /\ crashes \in 0 .. MaxCrashes

\* A deployment of the contracts, and the gateway in front of it.
Fronted(d, g) == [x \in DOMAIN d \cup {"gateway"} |-> IF x = "gateway" THEN g ELSE d[x]]

Init ==
  /\ ChainsInit({Fronted(d, g) : d \in Deployments, g \in Gateways})
  /\ rows = [r \in Root |-> NoRow]
  /\ queue = <<>>
  /\ worker = Resting
  /\ stray = <<>>
  /\ ticksSinceReconcile = RECONCILE_EVERY_TICKS   \* the first tick reconciles
  /\ crashes = 0

---------------------------------------------------------------------------
(* Transactions.                                                           *)

\* The source transaction that registered r.
SourceTxOf(r) == TxOf(CHOOSE e \in submitted : e.root = r)
SourceTxsOf(roots) == [i \in DOMAIN roots |-> SourceTxOf(roots[i])]

SignatureOf(tx) == [signer |-> tx.contributor, root |-> tx.roots[1],
                    contributor |-> tx.contributor]

\* Would the chain accept it now?
Accepts(tx) ==
  CASE tx.kind = "relay"  -> R!Submittable(Relayer, tx.roots[1], tx.contributor, SignatureOf(tx))
    [] tx.kind = "single" -> S!Executable(SourceTxOf(tx.roots[1]))
    [] tx.kind = "batch"  -> B!Executable(SourceTxsOf(tx.roots))

\* It does.
Mined(tx) ==
  \/ tx.kind = "relay"  /\ Submit(tx.roots[1], tx.contributor, tx.timestamp, SignatureOf(tx))
  \/ tx.kind = "single" /\ SettleSingle(SourceTxOf(tx.roots[1]))
  \/ tx.kind = "batch"  /\ SettleBatch(SourceTxsOf(tx.roots))

\* The registry is on the source chain, both routes are on Creditcoin.
SameChain(s, t) == (s.kind = "relay") = (t.kind = "relay")

\* Nothing sent earlier with the same key is still pending.
NextInOrder(tx) == \A i \in DOMAIN stray : ~SameChain(stray[i], tx)

Settlement(kind, roots) ==
  [kind |-> kind, roots |-> roots, contributor |-> NoAddr, timestamp |-> 0]

---------------------------------------------------------------------------
(* The store.                                                              *)

Inserted(r, status, c, t) ==
  /\ rows' = [rows EXCEPT ![r] = [status |-> status, contributor |-> c,
                                  timestamp |-> t, attempts |-> 0, delayed |-> FALSE]]
  /\ queue' = Append(queue, r)

\* The roots of a set, in the order of a list they are all in.
Ordered(roots, list) ==
  {s \in UNION {[1 .. n -> roots] : n \in 0 .. Len(list)} :
     /\ Range(s) = roots
     /\ \A i, j \in DOMAIN s : i < j =>
          \E k, l \in DOMAIN list : k < l /\ s[i] = list[k] /\ s[j] = list[l]}

\* claimWorkableMeasurements: the oldest rows of a status that are not backing off.
Due(status) == {r \in Root : rows[r].status = status /\ ~rows[r].delayed}
Workable(status) ==
  {SubSeq(due, 1, IF Len(due) < BATCH_SIZE THEN Len(due) ELSE BATCH_SIZE) :
     due \in Ordered(Due(status), queue)}

\* updateMeasurementByRoot, with the columns that are written together.
Marked(row, status, attempts, delayed) ==
  [row EXCEPT !.status = status, !.attempts = attempts, !.delayed = delayed]

\* The row moves on to a status, with a clean slate.
Advanced(r, status) == rows' = [rows EXCEPT ![r] = Marked(@, status, 0, FALSE)]

\* Mutations of RecordFailure: one attempt too many, and none counted.
RecordFailureLate(r, permanent) ==
  LET attempts == worker.claimed[r] + 1
      terminal == permanent \/ attempts > MAX_ATTEMPTS
  IN rows' = [rows EXCEPT ![r] =
       Marked(@, IF terminal THEN "REJECTED" ELSE @.status, attempts, ~terminal)]
RecordFailureUncounted(r, permanent) ==
  rows' = [rows EXCEPT ![r] =
    Marked(@, IF permanent THEN "REJECTED" ELSE @.status, @.attempts, ~permanent)]

\* recordFailure: it counts on from the copy of the row claimed in this tick,
\* and writes to whatever the row has become.
RecordFailure(r, permanent) ==
  LET attempts == worker.claimed[r] + 1
      terminal == permanent \/ attempts >= MAX_ATTEMPTS
  IN rows' = [rows EXCEPT ![r] =
       Marked(@, IF terminal THEN "REJECTED" ELSE @.status, attempts, ~terminal)]

---------------------------------------------------------------------------
(* The gateway and the rest of the world.                                  *)

\* A contributor signs, and the gateway admits the measurement.
Accept(r, c) ==
  /\ rows[r].status = "NONE"
  /\ Inserted(r, "SUBMITTED", c, now)
  /\ Sign(c, r)
  /\ UNCHANGED <<worker, stray, ticksSinceReconcile, crashes>>

\* The next retry of r is due.
BackoffElapses(r) ==
  /\ rows[r].delayed
  /\ rows' = [rows EXCEPT ![r].delayed = FALSE]
  /\ UNCHANGED <<chainVars, queue, worker, stray, ticksSinceReconcile, crashes>>

\* A contributor settles from its own wallet, or any other prover.
OthersSettle ==
  /\ \E tx \in attested :
       \/ "single" \in OpenRoutes /\ SettleSingle(tx)
       \/ "batch" \in OpenRoutes /\ SettleBatch(<<tx>>)
  /\ UNCHANGED workerVars

\* A transaction the worker has given up on is mined, or reverts.
StrayLands ==
  \E i \in DOMAIN stray :
    /\ \A j \in 1 .. i - 1 : ~SameChain(stray[j], stray[i])
    /\ stray' = [j \in 1 .. Len(stray) - 1 |-> IF j < i THEN stray[j] ELSE stray[j + 1]]
    /\ IF Accepts(stray[i]) THEN Mined(stray[i]) ELSE UNCHANGED chainVars
    /\ UNCHANGED <<storeVars, worker, ticksSinceReconcile, crashes>>

\* The process stops, in whatever it was doing, and starts again; or a tick
\* gives up because the database does not answer at all.
Crash ==
  /\ crashes < MaxCrashes
  /\ crashes' = crashes + 1
  /\ worker' = Resting
  /\ stray' = IF worker.awaited = NoTx THEN stray ELSE Append(stray, worker.awaited)
  /\ ticksSinceReconcile' = RECONCILE_EVERY_TICKS
  /\ IF Durable THEN UNCHANGED storeVars
     ELSE rows' = [r \in Root |-> NoRow] /\ queue' = <<>>
  /\ UNCHANGED chainVars

World ==
  \/ \E r \in Root, c \in Contributor : Accept(r, c)
  \/ \E r \in Root : BackoffElapses(r)
  \/ \E e \in submitted : Attest(e) /\ UNCHANGED workerVars
  \/ now < LastBlock /\ NextBlock /\ UNCHANGED workerVars
  \/ OthersSettle
  \/ StrayLands
  \/ Crash

---------------------------------------------------------------------------
(* A tick: reconcile, then relay.                                          *)

\* The stage s with nothing left to do in it.
Done(s) == worker.stage = s /\ worker.todo = <<>>

\* The loop of stage s is at r.
At(s, r) == worker.stage = s /\ worker.todo # <<>> /\ r = Head(worker.todo)

\* The loop moves on.
NextRow == worker' = [worker EXCEPT !.awaited = NoTx, !.todo = Tail(@)]

\* What is local to a step of the worker.
Local == UNCHANGED <<stray, ticksSinceReconcile, crashes>>

\* Mutation of StartTick: the counter is reset on every tick.
StartTickResets ==
  /\ worker.stage = "idle"
  /\ worker' = [worker EXCEPT !.stage =
       IF ticksSinceReconcile + 1 >= RECONCILE_EVERY_TICKS THEN "reconcile" ELSE "recover"]
  /\ ticksSinceReconcile' = 0
  /\ UNCHANGED <<chainVars, storeVars, stray, crashes>>

StartTick ==
  /\ worker.stage = "idle"
  /\ IF ticksSinceReconcile + 1 >= RECONCILE_EVERY_TICKS
     THEN /\ ticksSinceReconcile' = 0
          /\ worker' = [worker EXCEPT !.stage = "reconcile"]
     ELSE /\ ticksSinceReconcile' = ticksSinceReconcile + 1
          /\ worker' = [worker EXCEPT !.stage = "recover"]
  /\ UNCHANGED <<chainVars, storeVars, stray, crashes>>

\* getOnchainSnapshot: the measurements with no MeasurementVerified on either
\* route.  A failing endpoint leaves an earlier snapshot, or none.
ReconcileReads(unpaid) ==
  /\ worker.stage = "reconcile"
  /\ worker' = [worker EXCEPT !.stage = "recover", !.unpaid = unpaid]
  /\ UNCHANGED <<chainVars, storeVars>> /\ Local

Unpaid == registered \ (sSettled \cup bSettled)

ReconcileRead ==
  \/ ReconcileReads(Unpaid)
  \/ "read" \in Faults /\ \E unpaid \in SUBSET registered : ReconcileReads(unpaid)

\* Mutation of RecoverRow: a row that exists is overwritten.
RecoverRowAlways(r) ==
  /\ worker.stage = "recover" /\ r \in worker.unpaid
  /\ LET e == CHOOSE e \in submitted : e.root = r
     IN rows' = [rows EXCEPT ![r] =
          [status |-> "AWAITING_ATTESTATION", contributor |-> e.contributor,
           timestamp |-> e.timestamp, attempts |-> 0, delayed |-> FALSE]]
  /\ queue' = IF rows[r].status = "NONE" THEN Append(queue, r) ELSE queue
  /\ worker' = [worker EXCEPT !.unpaid = @ \ {r}]
  /\ UNCHANGED chainVars /\ Local

\* One measurement of the snapshot, whose order is of no account, gets a row
\* back unless it has one.
RecoverRow(r) ==
  /\ worker.stage = "recover" /\ r \in worker.unpaid
  /\ IF rows[r].status = "NONE"
     THEN LET e == CHOOSE e \in submitted : e.root = r
          IN Inserted(r, "AWAITING_ATTESTATION", e.contributor, e.timestamp)
     ELSE UNCHANGED storeVars
  /\ worker' = [worker EXCEPT !.unpaid = @ \ {r}]
  /\ UNCHANGED chainVars /\ Local

\* processSubmitted claims its rows.
ClaimSubmitted ==
  /\ worker.stage = "recover" /\ worker.unpaid = {}
  /\ \E claimed \in Workable("SUBMITTED") :
       worker' = [worker EXCEPT !.stage = "relay", !.todo = claimed, !.claimed = Attempts]
  /\ UNCHANGED <<chainVars, storeVars>> /\ Local

\* The transaction a relay of r sends.
RelayTx(r) == [kind |-> "relay", roots |-> <<r>>,
               contributor |-> rows[r].contributor, timestamp |-> rows[r].timestamp]

\* relayMeasurement: gas estimation passes, and the transaction is sent.
RelaySend(r) ==
  /\ At("relay", r) /\ worker.awaited = NoTx
  /\ Accepts(RelayTx(r))
  /\ worker' = [worker EXCEPT !.awaited = RelayTx(r)]
  /\ UNCHANGED <<chainVars, storeVars>> /\ Local

\* Gas estimation sees the registry revert; the error names the reason, or not.
RelayRefused(r) ==
  /\ At("relay", r) /\ worker.awaited = NoTx
  /\ ~Accepts(RelayTx(r))
  /\ \E permanent \in BOOLEAN : RecordFailure(r, permanent)
  /\ NextRow
  /\ UNCHANGED <<chainVars, queue>> /\ Local

\* It is mined and its receipt read.  A revert is SourceTransactionFailed, or
\* an error the client library raises before that.
RelayMined(r) ==
  /\ At("relay", r) /\ worker.awaited # NoTx /\ NextInOrder(worker.awaited)
  /\ \/ /\ Mined(worker.awaited)
        /\ Advanced(r, "AWAITING_ATTESTATION")
     \/ /\ ~Accepts(worker.awaited) /\ UNCHANGED chainVars
        /\ \E permanent \in BOOLEAN : RecordFailure(r, permanent)
  /\ NextRow
  /\ UNCHANGED queue /\ Local

---------------------------------------------------------------------------
(* A tick: prove and settle.                                               *)

\* Stage 2 claims its rows and reads the attested height, once.  A row whose
\* block is not attested is left alone, its attempts untouched.
ClaimAwaiting ==
  /\ Done("relay") /\ AutoSettle
  /\ \E claimed \in Workable("AWAITING_ATTESTATION") :
       \E ready \in Ordered({r \in Range(claimed) : SourceTxOf(r) \in attested}, claimed) :
         worker' = [worker EXCEPT !.stage = "prepare", !.todo = ready, !.claimed = Attempts]
  /\ UNCHANGED <<chainVars, storeVars>> /\ Local

\* fetchProof.
FetchProof(r) ==
  /\ At("prepare", r)
  /\ worker' = [worker EXCEPT !.todo = Tail(@), !.kept = Append(@, r)]
  /\ UNCHANGED <<chainVars, storeVars>> /\ Local

FetchFails(r) ==
  /\ At("prepare", r) /\ "proof" \in Faults
  /\ RecordFailure(r, FALSE)
  /\ NextRow
  /\ UNCHANGED <<chainVars, queue>> /\ Local

StartChecks ==
  /\ Done("prepare")
  /\ worker' = [worker EXCEPT !.stage = "check", !.todo = worker.kept, !.kept = <<>>]
  /\ UNCHANGED <<chainVars, storeVars>> /\ Local

\* The routes the worker knows of, and what they have settled.
SettledOnRoutes == {sSettled} \cup (IF BatchConfigured THEN {bSettled} ELSE {})

\* markIfAlreadySettled finds r settled on some route, and closes the row.
CheckClosesRow(r) ==
  /\ At("check", r)
  /\ \E paid \in SettledOnRoutes : r \in paid
  /\ Advanced(r, "SETTLED")
  /\ NextRow
  /\ UNCHANGED <<chainVars, queue>> /\ Local

\* No route says so, or the one that would cannot be read.
CheckKeepsRow(r) ==
  /\ At("check", r)
  /\ (\A paid \in SettledOnRoutes : r \notin paid) \/ "read" \in Faults
  /\ worker' = [worker EXCEPT !.todo = Tail(@), !.kept = Append(@, r)]
  /\ UNCHANGED <<chainVars, storeVars>> /\ Local

\* The checks, or the previous group, are done.
BetweenGroups == Done("check") \/ Done("receipt") \/ Done("single")

\* The next group: rows with one continuity proof, the first row among them.
\* Which rows those are is for the proof service to say.
PickGroup ==
  /\ BetweenGroups /\ worker.kept # <<>>
  /\ \E same \in SUBSET Range(worker.kept) :
       /\ Head(worker.kept) \in same
       /\ \E group \in Ordered(same, worker.kept),
             rest \in Ordered(Range(worker.kept) \ same, worker.kept) :
            worker' = [worker EXCEPT !.kept = rest, !.group = group, !.todo = group,
                         !.stage = IF BatchConfigured /\ Len(group) > 1
                                   THEN "batch" ELSE "single"]
  /\ UNCHANGED <<chainVars, storeVars>> /\ Local

\* settleBatch sends; the gas estimate is optional, a revert shows when mined.
BatchSend ==
  /\ worker.stage = "batch" /\ worker.awaited = NoTx
  /\ worker' = [worker EXCEPT !.awaited = Settlement("batch", worker.group)]
  /\ UNCHANGED <<chainVars, storeVars>> /\ Local

\* Whatever settleBatch throws, every row of the group is then settled singly.
FallBack ==
  worker' = [worker EXCEPT !.stage = "single", !.todo = worker.group,
                           !.awaited = NoTx, !.won = {}]

\* Mutation of BatchMined: after a batch that succeeds, the rows are still
\* settled one by one.
BatchMinedFallsThrough ==
  /\ worker.stage = "batch" /\ worker.awaited # NoTx /\ NextInOrder(worker.awaited)
  /\ Mined(worker.awaited) \/ (~Accepts(worker.awaited) /\ UNCHANGED chainVars)
  /\ FallBack
  /\ UNCHANGED storeVars /\ Local

\* The receipt names the measurements the batch settled.
BatchMined ==
  /\ worker.stage = "batch" /\ worker.awaited # NoTx /\ NextInOrder(worker.awaited)
  /\ \/ /\ Mined(worker.awaited)
        /\ worker' = [worker EXCEPT !.stage = "receipt", !.awaited = NoTx,
                        !.won = {l.root : l \in B!Accepted(SourceTxsOf(worker.group))}]
     \/ ~Accepts(worker.awaited) /\ UNCHANGED chainVars /\ FallBack
  /\ UNCHANGED storeVars /\ Local

\* The call never leaves the gateway, or its receipt never comes.
BatchFails ==
  /\ worker.stage = "batch"
  /\ \/ worker.awaited = NoTx /\ "send" \in Faults /\ UNCHANGED stray
     \/ /\ worker.awaited # NoTx /\ "wait" \in Faults /\ Len(stray) < MaxStray
        /\ stray' = Append(stray, worker.awaited)
  /\ FallBack
  /\ UNCHANGED <<chainVars, storeVars, ticksSinceReconcile, crashes>>

\* Mutation of ReadReceipt: a batch that succeeds is taken to have settled
\* all of its rows.
AssumeSettled(r) ==
  /\ At("receipt", r)
  /\ Advanced(r, "SETTLED")
  /\ NextRow
  /\ UNCHANGED <<chainVars, queue>> /\ Local

\* A row of the batch: settled if the receipt says so (by the text of the root,
\* of which there is one here).  If not, the batch contract is asked whether it
\* has settled it, and the answer is recorded as ALREADY_SETTLED or
\* MEASUREMENT_TOO_OLD, both of which are permanent.
ReadReceipt(r) ==
  /\ At("receipt", r)
  /\ IF r \in worker.won THEN Advanced(r, "SETTLED") ELSE RecordFailure(r, TRUE)
  /\ NextRow
  /\ UNCHANGED <<chainVars, queue>> /\ Local

\* That question may fail, and with it settleBatch.
ReceiptReadFails(r) ==
  /\ At("receipt", r) /\ r \notin worker.won /\ "read" \in Faults
  /\ FallBack
  /\ UNCHANGED <<chainVars, storeVars>> /\ Local

\* settleMeasurement sends.
SingleSend(r) ==
  /\ At("single", r) /\ worker.awaited = NoTx
  /\ worker' = [worker EXCEPT !.awaited = Settlement("single", <<r>>)]
  /\ UNCHANGED <<chainVars, storeVars>> /\ Local

\* It is mined.  A revert gives no reason, so it counts as transient.
SingleMined(r) ==
  /\ At("single", r) /\ worker.awaited # NoTx /\ NextInOrder(worker.awaited)
  /\ \/ Mined(worker.awaited) /\ Advanced(r, "SETTLED")
     \/ ~Accepts(worker.awaited) /\ UNCHANGED chainVars /\ RecordFailure(r, FALSE)
  /\ NextRow
  /\ UNCHANGED queue /\ Local

\* A relay or a single settlement cannot be sent.
SendFails(r) ==
  /\ At("relay", r) \/ At("single", r)
  /\ worker.awaited = NoTx /\ "send" \in Faults
  /\ RecordFailure(r, FALSE)
  /\ NextRow
  /\ UNCHANGED <<chainVars, queue>> /\ Local

\* Its receipt never comes, and it stays pending.
WaitFails(r) ==
  /\ At("relay", r) \/ At("single", r)
  /\ worker.awaited # NoTx /\ "wait" \in Faults /\ Len(stray) < MaxStray
  /\ stray' = Append(stray, worker.awaited)
  /\ RecordFailure(r, FALSE)
  /\ NextRow
  /\ UNCHANGED <<chainVars, queue, ticksSinceReconcile, crashes>>

\* The database fails, once, when a transaction has been mined and its row is
\* to be written.  That counts as a failure of the row, and of a whole batch.
\* (When the failure cannot be recorded either, the tick ends: see Crash.)
WriteFails(r) ==
  /\ "store" \in Faults
  /\ \/ /\ At("relay", r) \/ At("single", r)
        /\ worker.awaited # NoTx /\ NextInOrder(worker.awaited)
        /\ Mined(worker.awaited)
        /\ RecordFailure(r, FALSE)
        /\ NextRow
        /\ UNCHANGED queue
     \/ At("receipt", r) /\ FallBack /\ UNCHANGED <<chainVars, storeVars>>
  /\ Local

\* The tick is over; in relay-only mode, and when the attested height cannot
\* be read, after the first stage.
EndTick ==
  /\ \/ BetweenGroups /\ worker.kept = <<>>
     \/ Done("relay") /\ (~AutoSettle \/ "read" \in Faults)
  /\ worker' = Resting
  /\ UNCHANGED <<chainVars, storeVars>> /\ Local

Step ==
  \/ StartTick \/ ReconcileRead \/ ClaimSubmitted
  \/ ClaimAwaiting \/ StartChecks \/ PickGroup \/ EndTick
  \/ BatchSend \/ BatchMined \/ BatchFails
  \/ \E r \in Root :
       \/ RecoverRow(r)
       \/ RelaySend(r) \/ RelayRefused(r) \/ RelayMined(r)
       \/ FetchProof(r) \/ FetchFails(r)
       \/ CheckClosesRow(r) \/ CheckKeepsRow(r)
       \/ ReadReceipt(r) \/ ReceiptReadFails(r)
       \/ SingleSend(r) \/ SingleMined(r)
       \/ SendFails(r) \/ WaitFails(r) \/ WriteFails(r)

Next == Step \/ World

Spec == Init /\ [][Next]_vars

\* The interval keeps firing, nodes answer or time out, pending transactions
\* are mined, backoffs elapse and blocks get attested.  The attested height and
\* the snapshot, whose failing is counted nowhere, are not for ever refused: a
\* tick that reads them succeeds again and again.
Fairness ==
  /\ WF_vars(Step)
  /\ SF_vars(ClaimAwaiting)
  /\ SF_vars(ReconcileReads(Unpaid))
  /\ WF_vars(StrayLands)
  /\ \A r \in Root : WF_vars(BackoffElapses(r))
  /\ WF_vars(\E e \in submitted : Attest(e) /\ UNCHANGED workerVars)

FairSpec == Spec /\ Fairness

---------------------------------------------------------------------------
(* Properties.                                                             *)

\* The row never runs ahead of the chains: one that awaits attestation has its
\* MeasurementSubmitted, and one shown as settled has been paid on a route.
\* The registered payee and timestamp are those of the row.
RowsBehindChains ==
  \A r \in Root :
    /\ rows[r].status \in {"AWAITING_ATTESTATION", "SETTLED"} =>
         \E e \in submitted : e = [root |-> r, contributor |-> rows[r].contributor,
                                   timestamp |-> rows[r].timestamp]
    /\ rows[r].status = "SETTLED" => r \in sSettled \cup bSettled

\* A step of the worker pays for nothing some route has already paid for.
PaysOnce ==
  workerVars' # workerVars =>
    \A r \in (sSettled' \ sSettled) \cup (bSettled' \ bSettled) :
      r \notin sSettled \cup bSettled

\* The proof worker cannot settle a root twice (docs/site/security.md), batch
\* and fallback to single settlement included.
WorkerPaysOnce == [][PaysOnce]_vars

\* It holds of a gateway that hears of every transaction it sends, can write it
\* down and can read the routes, whatever else fails and whoever else settles on
\* the single route, when the batch route is told of that one.
HeardOfAll ==
  /\ {"wait", "store", "read"} \cap Faults = {} /\ MaxCrashes = 0
  /\ OpenRoutes \subseteq {"single"} /\ deployment.siblings # <<>>
PaysOnceWhenHeard == [][HeardOfAll => PaysOnce]_vars

\* SETTLED means the reward has accrued, so nothing, a later failure elsewhere
\* in the pipeline included, walks it back to REJECTED (canTransition).
SettledIsFinal ==
  [][\A r \in Root : rows[r].status = "SETTLED" => rows'[r].status # "REJECTED"]_vars

\* Both terminal states are final as long as routes can be read and rows be
\* written, though a row is in several hands: batch, fallback and reconciliation.
TerminalIsFinal ==
  [][\A r \in Root : {"read", "store"} \cap Faults = {} /\ rows[r].status \in Terminal =>
       rows'[r].status \in {rows[r].status, "NONE"}]_vars

\* A skipped entry that is "already settled" wants the opposite of one that is
\* "too old" (settleBatch): a measurement paid for is not turned into REJECTED.
PaidNeverRejected ==
  [][\A r \in Root :
       rows[r].status # "REJECTED" /\ rows'[r].status = "REJECTED"
         => r \notin sSettled \cup bSettled]_vars

\* No row is stuck, whatever fails or gets lost, as long as the attested height
\* can be read from time to time (a tick that cannot ends uncounted): each row is
\* relayed or rejected in the end and, unless the gateway only relays, settled or
\* rejected.
RowsClose ==
  \A r \in Root :
    []<>(/\ rows[r].status # "SUBMITTED"
         /\ AutoSettle => rows[r].status # "AWAITING_ATTESTATION")

\* A gateway that settles leaves no registered measurement behind, though it
\* restarts without a database in the middle of whatever it was sending, and
\* though ticks fail: it is paid for, or its row was rejected.  What it has
\* forgotten it must read again, so the snapshot must come through from time to
\* time; a failed one is not read again before RECONCILE_EVERY_TICKS.
RegisteredIsPaid ==
  \A r \in Root :
    []<>(AutoSettle /\ r \in registered =>
           r \in sSettled \cup bSettled \/ rows[r].status = "REJECTED")
=============================================================================
