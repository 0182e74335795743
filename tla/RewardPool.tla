---------------------------- MODULE RewardPool ----------------------------
(***************************************************************************)
(* The part the two settlement contracts of SignalProof share: a pool of   *)
(* native CTC, the rewards accrued against it, the pull payment, and the   *)
(* owner's settings.  contracts/src/SignalProofSettlement.sol is the text  *)
(* translated here; SignalProofBatchSettlement.sol repeats it              *)
(* ("identical to the single-proof contract").                             *)
(*                                                                         *)
(* A transfer of value runs the receiver's code, which may call the        *)
(* contract again and may revert.  So a transfer is two steps: the call    *)
(* pushes a frame holding the storage a revert would restore, and the      *)
(* return pops it.  Every other operation may run between the two, with    *)
(* the receiver as its caller.                                             *)
(***************************************************************************)
EXTENDS Naturals, Sequences, FiniteSets

CONSTANTS
  Account,        \* addresses that may own the contract or be a contributor
  Emitter,        \* addresses of source-chain contracts
  Registry,       \* those of them the owner binds as sourceRegistry
  NoAddr,         \* address(0)
  Root,           \* measurement roots
  RewardChoices,  \* the rewards the owner sets
  AgeChoices,     \* the freshness windows the owner sets
  FundChoices,    \* the amounts sent to or withdrawn from the pool
  MaxBalance,     \* bound: the most the pool is funded up to
  MaxDepth        \* bound: how deep transfers nest

ASSUME PoolAssumption ==
  /\ RewardChoices \subseteq Nat
  /\ AgeChoices \subseteq Nat
  /\ FundChoices \subseteq Nat
  /\ Registry \subseteq Emitter
  /\ NoAddr \notin Account \cup Emitter

VARIABLES
  owner, sourceRegistry, rewardAmount, maxMeasurementAge,
  settled,      \* the roots this contract has paid for
  rewards,      \* contributor -> claimable wei
  balance,      \* the contract's own CTC
  verified,     \* MeasurementVerified events emitted so far
  accrued,      \* contributor -> total of the rewards ever credited
  paid,         \* contributor -> total ever sent to it by claim
  frames        \* value transfers in progress, outermost first

poolVars == <<owner, sourceRegistry, rewardAmount, maxMeasurementAge,
              settled, rewards, balance, verified, accrued, paid, frames>>
settings == <<owner, sourceRegistry, rewardAmount, maxMeasurementAge>>
ledger   == <<settled, rewards, verified, accrued>>
money    == <<balance, paid>>

\* A MeasurementSubmitted-shaped log of a source transaction.
Log == [emitter : Emitter, root : Root, contributor : Account, timestamp : Nat]

\* A MeasurementVerified event.
Event == [root : Root, contributor : Account, reward : Nat]

\* What a revert restores: the contract's storage, its balance, its events,
\* and what had been paid out.
Storage ==
  [owner |-> owner, sourceRegistry |-> sourceRegistry,
   rewardAmount |-> rewardAmount, maxMeasurementAge |-> maxMeasurementAge,
   settled |-> settled, rewards |-> rewards, balance |-> balance,
   verified |-> verified, accrued |-> accrued, paid |-> paid]

StorageType ==
  [owner : Account, sourceRegistry : Registry \cup {NoAddr},
   rewardAmount : Nat, maxMeasurementAge : Nat,
   settled : SUBSET Root, rewards : [Account -> Nat], balance : Nat,
   verified : SUBSET Event, accrued : [Account -> Nat],
   paid : [Account -> Nat]]

PoolInit ==
  /\ owner \in Account
  /\ sourceRegistry \in Registry \cup {NoAddr}
  /\ rewardAmount \in RewardChoices
  /\ maxMeasurementAge \in AgeChoices
  /\ settled = {}
  /\ rewards = [a \in Account |-> 0]
  /\ balance = 0
  /\ verified = {}
  /\ accrued = [a \in Account |-> 0]
  /\ paid = [a \in Account |-> 0]
  /\ frames = <<>>

---------------------------------------------------------------------------
(* Settlement proper.  What is settled differs between the two contracts;  *)
(* how it is entered in the ledger does not.                               *)

\* timestamp > now is "in the future"; older than the window is "too old".
Fresh(log, now) ==
  /\ log.timestamp <= now
  /\ now - log.timestamp <= maxMeasurementAge

\* What the logs L, at most one per root, add to a contributor's balance.
Credit(L, a) == rewardAmount * Cardinality({l \in L : l.contributor = a})

\* Enter the logs L: mark the roots, accrue the reward in force, emit the events.
SettleLogs(L) ==
  /\ settled' = settled \cup {l.root : l \in L}
  /\ rewards' = [a \in Account |-> rewards[a] + Credit(L, a)]
  /\ accrued' = [a \in Account |-> accrued[a] + Credit(L, a)]
  /\ verified' = verified \cup
       {[root |-> l.root, contributor |-> l.contributor,
         reward |-> rewardAmount] : l \in L}
  /\ UNCHANGED <<settings, money, frames>>

---------------------------------------------------------------------------
(* Transfers of value.                                                     *)

\* Hand control to the receiver; ext is the storage of the extending contract.
CallOut(ext) ==
  /\ Len(frames) < MaxDepth
  /\ frames' = Append(frames, [before |-> Storage, ext |-> ext])

\* Mutation of Claim: the balance is not zeroed.
ClaimKeepsBalance(a, ext) ==
  /\ rewards[a] # 0
  /\ balance >= rewards[a]
  /\ paid' = [paid EXCEPT ![a] = @ + rewards[a]]
  /\ balance' = balance - rewards[a]
  /\ CallOut(ext)
  /\ UNCHANGED <<settings, settled, rewards, verified, accrued>>

\* claim(), up to the call that pays the sender.
Claim(a, ext) ==
  /\ rewards[a] # 0
  /\ balance >= rewards[a]
  /\ rewards' = [rewards EXCEPT ![a] = 0]
  /\ paid' = [paid EXCEPT ![a] = @ + rewards[a]]
  /\ balance' = balance - rewards[a]
  /\ CallOut(ext)
  /\ UNCHANGED <<settings, settled, verified, accrued>>

\* withdraw(amount), up to the call that pays the owner.
Withdraw(caller, amount, ext) ==
  /\ caller = owner
  /\ balance >= amount
  /\ balance' = balance - amount
  /\ CallOut(ext)
  /\ UNCHANGED <<settings, ledger, paid>>

\* The receiver returns, and the claim or withdrawal completes.
TransferSucceeds ==
  /\ frames # <<>>
  /\ frames' = SubSeq(frames, 1, Len(frames) - 1)
  /\ UNCHANGED <<settings, ledger, money>>

\* Mutation of TransferFails: the failure goes unnoticed, and only what the
\* receiver itself did is undone.
FailureUnnoticed ==
  /\ frames # <<>>
  /\ LET before == frames[Len(frames)].before IN
       /\ balance' = before.balance
       /\ paid' = before.paid
  /\ frames' = SubSeq(frames, 1, Len(frames) - 1)
  /\ UNCHANGED <<settings, ledger>>

\* The receiver reverts (or refuses the value): TransferFailed() undoes the
\* claim or withdrawal and whatever ran inside it.
TransferFails ==
  /\ frames # <<>>
  /\ LET before == frames[Len(frames)].before IN
       /\ owner' = before.owner
       /\ sourceRegistry' = before.sourceRegistry
       /\ rewardAmount' = before.rewardAmount
       /\ maxMeasurementAge' = before.maxMeasurementAge
       /\ settled' = before.settled
       /\ rewards' = before.rewards
       /\ balance' = before.balance
       /\ verified' = before.verified
       /\ accrued' = before.accrued
       /\ paid' = before.paid
  /\ frames' = SubSeq(frames, 1, Len(frames) - 1)

\* receive(): anyone funds the pool.
Receive(amount) ==
  /\ balance + amount <= MaxBalance
  /\ balance' = balance + amount
  /\ UNCHANGED <<settings, ledger, paid, frames>>

---------------------------------------------------------------------------
(* Administration, onlyOwner.                                              *)

SetSourceRegistry(caller, registry) ==
  /\ caller = owner
  /\ sourceRegistry' = registry
  /\ UNCHANGED <<owner, rewardAmount, maxMeasurementAge, ledger, money, frames>>

SetRewardAmount(caller, amount) ==
  /\ caller = owner
  /\ rewardAmount' = amount
  /\ UNCHANGED <<owner, sourceRegistry, maxMeasurementAge, ledger, money, frames>>

SetMaxMeasurementAge(caller, age) ==
  /\ caller = owner
  /\ maxMeasurementAge' = age
  /\ UNCHANGED <<owner, sourceRegistry, rewardAmount, ledger, money, frames>>

\* Mutation of TransferOwnership: the zero address is not refused.
TransferOwnershipToAnyone(caller, newOwner) ==
  /\ caller = owner
  /\ owner' = newOwner
  /\ UNCHANGED <<sourceRegistry, rewardAmount, maxMeasurementAge, ledger, money, frames>>

TransferOwnership(caller, newOwner) ==
  /\ caller = owner
  /\ newOwner # NoAddr
  /\ owner' = newOwner
  /\ UNCHANGED <<sourceRegistry, rewardAmount, maxMeasurementAge, ledger, money, frames>>

\* Every operation of the pool that leaves the route's own storage ext alone.
PoolStep(ext) ==
  \/ \E a \in Account : Claim(a, ext)
  \/ \E c \in Account, amount \in FundChoices : Withdraw(c, amount, ext)
  \/ TransferSucceeds
  \/ \E amount \in FundChoices : Receive(amount)
  \/ \E c \in Account, r \in Registry \cup {NoAddr} : SetSourceRegistry(c, r)
  \/ \E c \in Account, amount \in RewardChoices : SetRewardAmount(c, amount)
  \/ \E c \in Account, age \in AgeChoices : SetMaxMeasurementAge(c, age)
  \/ \E c \in Account, n \in Account \cup {NoAddr} : TransferOwnership(c, n)

---------------------------------------------------------------------------
(* What the pool owes and has paid, for one state of its storage.          *)

\* Nothing accrued is lost and nothing is paid beyond what accrued.
Balanced(s) == \A a \in Account : s.rewards[a] + s.paid[a] = s.accrued[a]

\* A root has at most one MeasurementVerified event, and exactly when settled.
OneEventPerRoot(s) ==
  /\ s.settled = {e.root : e \in s.verified}
  /\ \A e, f \in s.verified : e.root = f.root => e = f

\* The inductive invariant: the storage is sound, and so is every storage a
\* failed transfer would restore.
Sound(s) == s \in StorageType /\ Balanced(s) /\ OneEventPerRoot(s)

PoolSound(Ext) ==
  /\ Sound(Storage)
  /\ frames \in Seq([before : StorageType, ext : Ext])
  /\ \A i \in 1 .. Len(frames) : Sound(frames[i].before)

\* The storage the chain holds once every transfer in progress were undone:
\* what has been committed before the current transaction.
Committed == IF frames = <<>> THEN Storage ELSE frames[1].before
============================================================================
