-------------------- MODULE SignalProofBatchSettlement --------------------
(***************************************************************************)
(* The batch route: contracts/src/SignalProofBatchSettlement.sol.  One     *)
(* call settles many source transactions under one continuity proof.  A    *)
(* log that cannot be settled is skipped, where the single-proof route     *)
(* would revert, and a measurement a sibling settlement contract has paid  *)
(* for is skipped too.                                                     *)
(*                                                                         *)
(* Source transactions are the records of SignalProofSettlement.  The      *)
(* siblings are other contracts: what they have settled is a variable of   *)
(* the environment here, and another module's state in SettlementRoutes.   *)
(***************************************************************************)
EXTENDS RewardPool, SequencesExt

CONSTANTS
  SourceTx,       \* the transactions of the source chain
  MaxTime,        \* bound: the last block timestamp considered
  MaxBatch,       \* bound: transactions in one batch
  Sibling,        \* addresses the owner lists as sibling settlements
  Unresponsive,   \* those of them whose settled() call fails or answers too little
  Unreadable,     \* those that answer with a word that is not a bool
  MAX_SIBLINGS

ASSUME BatchAssumption ==
  /\ \A t \in SourceTx : t.ok \in BOOLEAN /\ t.logs \in Seq(Log)
  /\ Unresponsive \cup Unreadable \subseteq Sibling
  /\ MaxTime \in Nat /\ MaxBatch \in Nat /\ MAX_SIBLINGS \in Nat

VARIABLES
  siblingSettlements,   \* the list the owner set
  siblingSettled,       \* what each sibling's settled() answers
  attested,             \* the source transactions in attested blocks
  now                   \* block.timestamp

vars == <<poolVars, siblingSettlements, siblingSettled, attested, now>>

\* The lists the owner may set.
SiblingList == {l \in Seq(Sibling) : Len(l) <= MAX_SIBLINGS}

\* What a revert restores besides the pool; siblings may be called in between.
Ext == [listed : SiblingList, settled : [Sibling -> SUBSET Root]]
ext == [listed |-> siblingSettlements, settled |-> siblingSettled]

TypeOK ==
  /\ Storage \in StorageType
  /\ siblingSettlements \in SiblingList
  /\ siblingSettled \in [Sibling -> SUBSET Root]
  /\ attested \in SUBSET SourceTx
  /\ now \in Nat
  /\ frames \in Seq([before : StorageType, ext : Ext])

Init ==
  /\ PoolInit
  /\ siblingSettlements = <<>>
  /\ siblingSettled = [s \in Sibling |-> {}]
  /\ attested = {}
  /\ now = 0

\* Mutation of SettledBySibling: no answer is taken for a yes.
SettledOrUnresponsive(root) ==
  \E i \in DOMAIN siblingSettlements :
    LET s == siblingSettlements[i] IN
      s \in Unresponsive \/ (s \notin Unreadable /\ root \in siblingSettled[s])

\* The i-th sibling answers that it has settled root.
SaysYes(i, root) ==
  /\ siblingSettlements[i] \notin Unresponsive \cup Unreadable
  /\ root \in siblingSettled[siblingSettlements[i]]

\* _settledBySibling: a sibling that does not answer is not evidence.
SettledBySibling(root) == \E i \in DOMAIN siblingSettlements : SaysYes(i, root)

\* Asking for root, abi.decode meets a word that is not a bool before a yes
\* ends the search, and the whole call reverts.
AskingReverts(root) ==
  \E i \in DOMAIN siblingSettlements :
    /\ siblingSettlements[i] \in Unreadable
    /\ \A k \in 1 .. i - 1 : ~SaysYes(k, root)

\* The positions of the logs of a batch, and the order the loops visit them in.
Positions(txs) == UNION {{<<i, j>> : j \in DOMAIN txs[i].logs} : i \in DOMAIN txs}
LogAt(txs, p) == txs[p[1]].logs[p[2]]
Before(p, q) == p[1] < q[1] \/ (p[1] = q[1] /\ p[2] < q[2])

\* Mutations of Eligible: one replay check or the other is missing.
EligibleAgain(log) ==
  /\ log.emitter = sourceRegistry
  /\ ~SettledBySibling(log.root)
  /\ Fresh(log, now)
EligibleHere(log) ==
  /\ log.emitter = sourceRegistry
  /\ log.root \notin settled
  /\ Fresh(log, now)

\* A log none of the loop's skips applies to, as the batch starts.
Eligible(log) ==
  /\ log.emitter = sourceRegistry
  /\ log.root \notin settled
  /\ ~SettledBySibling(log.root)
  /\ Fresh(log, now)

\* Mutation of Accepted: settled is read once, before the loop.
EveryEligible(txs) ==
  {LogAt(txs, p) : p \in {q \in Positions(txs) : Eligible(LogAt(txs, q))}}

\* The logs a batch settles: of the eligible logs of a root, the first.
Accepted(txs) ==
  {LogAt(txs, p) : p \in {q \in Positions(txs) :
     /\ Eligible(LogAt(txs, q))
     /\ ~\E o \in Positions(txs) : /\ Before(o, q)
                                   /\ Eligible(LogAt(txs, o))
                                   /\ LogAt(txs, o).root = LogAt(txs, q).root}}

\* No log of the batch that comes to the question about the siblings makes it
\* revert; those of another emitter, or paid here before, do not come to it.
Answered(txs) ==
  \A p \in Positions(txs) :
    LET l == LogAt(txs, p) IN
      l.emitter = sourceRegistry /\ l.root \notin settled => ~AskingReverts(l.root)

\* What a call has settled so far, or that it reverts.
Reverts == [reverted |-> TRUE, logs |-> {}]
Settles(L) == [reverted |-> FALSE, logs |-> L]

\* The body of _settleTransaction's loop: log is settled or skipped, unless the
\* call reverts.
Visit(done, log) ==
  IF \/ done.reverted
     \/ log.emitter # sourceRegistry
     \/ log.root \in settled \cup {l.root : l \in done.logs}
  THEN done
  ELSE IF AskingReverts(log.root) THEN Reverts
  ELSE IF \/ SettledBySibling(log.root)
          \/ log.timestamp > now
          \/ now - log.timestamp > maxMeasurementAge
  THEN done
  ELSE Settles(done.logs \cup {log})

\* The loop over the logs of one transaction, and executeBatch's over those.
SettleTransaction(done, logs) ==
  LET after[j \in 0 .. Len(logs)] == IF j = 0 THEN done ELSE Visit(after[j - 1], logs[j])
  IN after[Len(logs)]

LoopSettles(txs) ==
  LET after[i \in 0 .. Len(txs)] ==
        IF i = 0 THEN Settles({}) ELSE SettleTransaction(after[i - 1], txs[i].logs)
  IN after[Len(txs)]

\* The checks of executeBatch: the transactions are all proven and succeeded,
\* no sibling reverts the call, and at least one log is settled.
Executable(txs) ==
  /\ txs # <<>>
  /\ sourceRegistry # NoAddr
  /\ \A i \in DOMAIN txs : txs[i] \in attested /\ txs[i].ok
  /\ Answered(txs)
  /\ Accepted(txs) # {}

\* executeBatch, open to any caller.
ExecuteBatch(txs) ==
  /\ Executable(txs)
  /\ SettleLogs(Accepted(txs))
  /\ UNCHANGED <<siblingSettlements, siblingSettled, attested, now>>

Batches == BoundedSeq(SourceTx, MaxBatch)

\* Mutation of SetSiblingSettlements: the list is not capped.
SetSiblingsUncapped(caller, siblings) ==
  /\ caller = owner
  /\ siblingSettlements' = siblings
  /\ UNCHANGED <<poolVars, siblingSettled, attested, now>>

\* setSiblingSettlements, onlyOwner: the list is replaced as a whole.
SetSiblingSettlements(caller, siblings) ==
  /\ caller = owner
  /\ Len(siblings) <= MAX_SIBLINGS
  /\ siblingSettlements' = siblings
  /\ UNCHANGED <<poolVars, siblingSettled, attested, now>>

\* claim, the setters, transferOwnership, withdraw and receive.
Pool ==
  /\ PoolStep(ext)
  /\ UNCHANGED <<siblingSettlements, siblingSettled, attested, now>>

\* A failed transfer undoes what ran inside it, in the siblings as well.
Unwind ==
  /\ TransferFails
  /\ siblingSettlements' = frames[Len(frames)].ext.listed
  /\ siblingSettled' = frames[Len(frames)].ext.settled
  /\ UNCHANGED <<attested, now>>

\* The siblings that can be asked about a measurement.
Answering == Sibling \ (Unresponsive \cup Unreadable)

\* Somebody settles a measurement on one of those.
SiblingSettles(s, root) ==
  /\ root \notin siblingSettled[s]
  /\ siblingSettled' = [siblingSettled EXCEPT ![s] = @ \cup {root}]
  /\ UNCHANGED <<poolVars, siblingSettlements, attested, now>>

\* The attestation chain reaches the block of tx, between two transactions.
Attest(tx) ==
  /\ frames = <<>>
  /\ tx \notin attested
  /\ attested' = attested \cup {tx}
  /\ UNCHANGED <<poolVars, siblingSettlements, siblingSettled, now>>

\* A later block.
Tick ==
  /\ frames = <<>>
  /\ now < MaxTime
  /\ now' = now + 1
  /\ UNCHANGED <<poolVars, siblingSettlements, siblingSettled, attested>>

Next ==
  \/ \E txs \in Batches : ExecuteBatch(txs)
  \/ \E c \in Account, s \in BoundedSeq(Sibling, MAX_SIBLINGS + 1) : SetSiblingSettlements(c, s)
  \/ Pool
  \/ Unwind
  \/ \E s \in Answering, r \in Root : SiblingSettles(s, r)
  \/ \E tx \in SourceTx : Attest(tx)
  \/ Tick

Spec == Init /\ [][Next]_vars

---------------------------------------------------------------------------
(* Properties.                                                             *)

\* The inductive invariant: the pool is sound whatever is undone.
IInv ==
  /\ PoolSound(Ext)
  /\ siblingSettlements \in SiblingList
  /\ siblingSettled \in [Sibling -> SUBSET Root]
  /\ attested \in SUBSET SourceTx
  /\ now \in Nat

\* As on the single-proof route: no reward is lost, invented or paid twice,
\* whatever calls back during a transfer.
RewardsBalanced == Balanced(Storage)

\* One batch may carry a root twice, and a root may come back in a later
\* batch: there is still one event per settled root.
PaidOncePerRoot == OneEventPerRoot(Storage)

\* A batch settles what the contract's loops settle, on every batch and state -
\* a log is entered for good before the next one is looked at - and is reverted
\* by a sibling exactly when the loops are.
AcceptedIsTheLoop ==
  \A txs \in Batches :
    LoopSettles(txs) = IF Answered(txs) THEN Settles(Accepted(txs)) ELSE Reverts

\* A log the contract itself has no reason to refuse: the registry's, of a root
\* not paid for here or on an answering sibling, and inside the window, its first
\* and last second included.
Honest(l) ==
  /\ l.emitter = sourceRegistry
  /\ l.root \notin settled
  /\ \A s \in Answering : l.root \notin siblingSettled[s]
  /\ now \in l.timestamp .. l.timestamp + maxMeasurementAge

\* A batch of proven, successful transactions with an honest log in it.
CarriesHonestLog(txs) ==
  /\ sourceRegistry # NoAddr
  /\ \A i \in DOMAIN txs : txs[i] \in attested /\ txs[i].ok
  /\ \E p \in Positions(txs) : Honest(LogAt(txs, p))

\* One bad entry never strands an honest one: such a batch can be executed,
\* whatever else is in it - stale, foreign or repeated logs - and whichever
\* siblings fail to answer.  The premise is not the contract's: its comment says
\* that a misconfigured sibling degrades to no cross-check, but a listed one that
\* answers with a word that is not a bool stops the route.
HonestLogNeverStranded ==
  (\A i \in DOMAIN siblingSettlements : siblingSettlements[i] \notin Unreadable)
    => \A txs \in Batches : CarriesHonestLog(txs) => Executable(txs)

\* The batch route never pays for what a listed sibling that answers has paid.
NeverRepeatsASibling ==
  [][\A r \in settled' \ settled : frames' = frames => ~SettledBySibling(r)]_vars

\* Transaction by transaction, the contract keeps the promise of RewardLedger.
Ledger == INSTANCE RewardLedger WITH
  credit <- Committed.verified, owed <- Committed.rewards, paidOut <- Committed.paid

ImplementsRewardLedger == Ledger!Spec
============================================================================
