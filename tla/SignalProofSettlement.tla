----------------------- MODULE SignalProofSettlement -----------------------
(***************************************************************************)
(* The single-proof route: contracts/src/SignalProofSettlement.sol.        *)
(* execute() belongs to Gluwa's ASCBase, which is not in this repository:  *)
(* it refuses a query it has processed, asks the precompile whether the    *)
(* source transaction is included in an attested block, records the query  *)
(* and calls _processAndEmitEvent.  A query stands for one source          *)
(* transaction.                                                            *)
(*                                                                         *)
(* A source transaction is a record of ok (receiptStatus = 1) and logs,    *)
(* the MeasurementSubmitted-shaped logs of its receipt, whichever          *)
(* contracts emitted them.                                                 *)
(***************************************************************************)
EXTENDS RewardPool

CONSTANTS
  SourceTx,   \* the transactions of the source chain
  MaxTime     \* bound: the last block timestamp considered

ASSUME SourceTxAssumption ==
  /\ \A t \in SourceTx : t.ok \in BOOLEAN /\ t.logs \in Seq(Log)
  /\ MaxTime \in Nat

VARIABLES
  processedQueries,   \* the source transactions ASCBase has processed
  attested,           \* the source transactions in attested blocks
  now                 \* block.timestamp

vars == <<poolVars, processedQueries, attested, now>>

TypeOK ==
  /\ Storage \in StorageType
  /\ processedQueries \in SUBSET SourceTx
  /\ attested \in SUBSET SourceTx
  /\ now \in Nat
  /\ frames \in Seq([before : StorageType, ext : SUBSET SourceTx])

Init ==
  /\ PoolInit
  /\ processedQueries = {}
  /\ attested = {}
  /\ now = 0

Logs(tx) == {tx.logs[i] : i \in DOMAIN tx.logs}

\* Mutations of AllSettleable: the second replay layer is missing, and the
\* emitter is not bound.
AllFresh(tx) ==
  \A i \in DOMAIN tx.logs :
    tx.logs[i].emitter = sourceRegistry /\ Fresh(tx.logs[i], now)
AllSettleableFromAnyone(tx) ==
  \A i \in DOMAIN tx.logs :
    /\ tx.logs[i].root \notin settled
    /\ \A j \in 1 .. i - 1 : tx.logs[j].root # tx.logs[i].root
    /\ Fresh(tx.logs[i], now)

\* _settleOne accepts every log of the transaction, in order.
AllSettleable(tx) ==
  \A i \in DOMAIN tx.logs :
    /\ tx.logs[i].emitter = sourceRegistry
    /\ tx.logs[i].root \notin settled
    /\ \A j \in 1 .. i - 1 : tx.logs[j].root # tx.logs[i].root
    /\ Fresh(tx.logs[i], now)

\* The checks of _processAndEmitEvent: one refused log reverts all of them.
Processable(tx) ==
  /\ sourceRegistry # NoAddr
  /\ tx.ok
  /\ tx.logs # <<>>
  /\ AllSettleable(tx)

\* What ASCBase.execute asks before and during that.
Executable(tx) ==
  /\ tx \notin processedQueries
  /\ tx \in attested
  /\ Processable(tx)

\* execute(), open to any caller.
Execute(tx) ==
  /\ Executable(tx)
  /\ processedQueries' = processedQueries \cup {tx}
  /\ SettleLogs(Logs(tx))
  /\ UNCHANGED <<attested, now>>

\* The operations every pool has; storage of this route is its query record.
Pool == PoolStep(processedQueries) /\ UNCHANGED <<processedQueries, attested, now>>

\* A failed transfer also forgets the queries processed inside it.
Unwind ==
  /\ TransferFails
  /\ processedQueries' = frames[Len(frames)].ext
  /\ UNCHANGED <<attested, now>>

\* The attestation chain reaches the block of tx, between two transactions.
Attest(tx) ==
  /\ frames = <<>>
  /\ tx \notin attested
  /\ attested' = attested \cup {tx}
  /\ UNCHANGED <<poolVars, processedQueries, now>>

\* A later block.
Tick ==
  /\ frames = <<>>
  /\ now < MaxTime
  /\ now' = now + 1
  /\ UNCHANGED <<poolVars, processedQueries, attested>>

Next ==
  \/ \E tx \in SourceTx : Execute(tx) \/ Attest(tx)
  \/ Pool
  \/ Unwind
  \/ Tick

Spec == Init /\ [][Next]_vars

---------------------------------------------------------------------------
(* Properties.                                                             *)

\* Whatever calls back into the contract while it pays, and whichever of
\* those calls revert, a contributor holds or has received exactly what the
\* settled measurements credited to it: claim() zeroes the balance before
\* the transfer, and a failed transfer restores it.
RewardsBalanced == Balanced(Storage)

\* One measurement is paid for by one event however often it is proven: the
\* settled map and the MeasurementVerified events agree, and no root has two.
PaidOncePerRoot == OneEventPerRoot(Storage)

\* Both of these hold of every storage a failing transfer can restore.
IInv ==
  /\ PoolSound(SUBSET SourceTx)
  /\ processedQueries \in SUBSET SourceTx
  /\ attested \in SUBSET SourceTx
  /\ now \in Nat

\* The two replay layers agree: a processed query has settled all of its
\* logs, and a settled root belongs to exactly one processed query.
ReplayLayersAgree ==
  /\ \A tx \in processedQueries : {l.root : l \in Logs(tx)} \subseteq settled
  /\ \A r \in settled :
       Cardinality({tx \in processedQueries : \E l \in Logs(tx) : l.root = r}) = 1

\* The precompile proves inclusion only.  Still, every reward goes back to a
\* registered measurement: a log of a processed, attested transaction that
\* succeeded, emitted by a registry the owner bound, for that contributor.
OnlyRegisteredWork ==
  \A e \in verified : \E tx \in processedQueries \cap attested :
    /\ tx.ok
    /\ \E l \in Logs(tx) : /\ l.emitter \in Registry
                           /\ l.root = e.root
                           /\ l.contributor = e.contributor

\* Seen from outside, transaction by transaction, the contract keeps the
\* promise of RewardLedger: credits are permanent, unique per root, and their
\* sum is what contributors were paid or are owed.
Ledger == INSTANCE RewardLedger WITH
  credit <- Committed.verified, owed <- Committed.rewards, paidOut <- Committed.paid

ImplementsRewardLedger == Ledger!Spec
============================================================================
