-------------------- MODULE SignalProofSettlementProofs --------------------
(***************************************************************************)
(* The safety of the single-proof route, for every set of accounts, roots  *)
(* and source transactions, every reward and window, and transfers nested  *)
(* to any depth.                                                           *)
(***************************************************************************)
EXTENDS SignalProofSettlement, RewardPoolProofs

\* The logs of a transaction form a finite set of logs.
LEMMA LogsFinite ==
  ASSUME NEW tx \in SourceTx
  PROVE  Logs(tx) \in SUBSET Log /\ IsFiniteSet(Logs(tx))
<1>1. tx.logs \in Seq(Log)
  BY SourceTxAssumption
<1>2. /\ Len(tx.logs) \in Nat
      /\ DOMAIN tx.logs = 1 .. Len(tx.logs)
      /\ tx.logs \in [1 .. Len(tx.logs) -> Log]
  BY <1>1, LenProperties
<1>3. Logs(tx) \in SUBSET Log
  BY <1>2 DEF Logs
<1>4. tx.logs \in Surjection(1 .. Len(tx.logs), Logs(tx))
  BY <1>2 DEF Logs, Surjection
<1>5. QED
  BY <1>2, <1>3, <1>4, FS_NatSurjection DEF ExistsSurjection

\* execute() settles new roots only, each once.
LEMMA ExecuteSettles ==
  ASSUME NEW tx \in SourceTx, Execute(tx)
  PROVE  /\ \A l \in Logs(tx) : l.root \notin settled
         /\ \A k, l \in Logs(tx) : k.root = l.root => k = l
<1>1. AllSettleable(tx)
  BY DEF Execute, Executable, Processable
<1>2. Len(tx.logs) \in Nat /\ DOMAIN tx.logs = 1 .. Len(tx.logs)
  BY SourceTxAssumption, LenProperties
<1>3. \A l \in Logs(tx) : l.root \notin settled
  BY <1>1 DEF AllSettleable, Logs
<1>4. \A i, j \in DOMAIN tx.logs : tx.logs[i].root = tx.logs[j].root => i = j
  <2>1. \A i \in 1 .. Len(tx.logs) : \A j \in 1 .. i - 1 :
           tx.logs[j].root # tx.logs[i].root
    BY <1>1, <1>2 DEF AllSettleable
  <2> QED
    BY <1>2, <2>1
<1>5. \A k, l \in Logs(tx) : k.root = l.root => k = l
  BY <1>4 DEF Logs
<1> QED
  BY <1>3, <1>5

LEMMA ExecuteSound ==
  ASSUME IInv, NEW tx \in SourceTx, Execute(tx)
  PROVE  IInv'
<1>1. /\ SettleLogs(Logs(tx))
      /\ processedQueries' = processedQueries \cup {tx}
      /\ UNCHANGED <<attested, now>>
  BY DEF Execute
<1>2. PoolSound(SUBSET SourceTx)'
  BY <1>1, ExecuteSettles, LogsFinite, SettleLogsSound DEF IInv
<1> QED
  BY <1>1, <1>2 DEF IInv

\* IInv is inductive.
LEMMA InitIInv == Init => IInv
BY PoolInitSound DEF Init, IInv

LEMMA NextIInv == IInv /\ [Next]_vars => IInv'
<1> SUFFICES ASSUME IInv, [Next]_vars
             PROVE  IInv'
  OBVIOUS
<1>1. CASE \E tx \in SourceTx : Execute(tx)
  BY <1>1, ExecuteSound
<1>2. CASE \E tx \in SourceTx : Attest(tx)
  <2>1. PoolSound(SUBSET SourceTx)'
    BY <1>2, PoolStutter DEF Attest, IInv
  <2>2. QED
    BY <1>2, <2>1 DEF Attest, IInv
<1>3. CASE Pool
  <2>1. PoolSound(SUBSET SourceTx)'
    BY <1>3, PoolStepSound DEF Pool, IInv
  <2>2. QED
    BY <1>3, <2>1 DEF Pool, IInv
<1>4. CASE Unwind
  <2>1. PoolSound(SUBSET SourceTx)'
    BY <1>4, TransferFailsSound DEF Unwind, IInv
  <2>2. frames[Len(frames)].ext \in SUBSET SourceTx
    <3>1. /\ frames \in Seq([before : StorageType, ext : SUBSET SourceTx])
          /\ frames # <<>>
      BY <1>4 DEF IInv, PoolSound, Unwind, TransferFails
    <3>2. Len(frames) \in 1 .. Len(frames)
      <4>1. Len(frames) \in Nat \ {0}
        BY <3>1, EmptySeq
      <4>2. QED
        BY <4>1
    <3>3. frames[Len(frames)] \in [before : StorageType, ext : SUBSET SourceTx]
      BY <3>1, <3>2, ElementOfSeq
    <3>4. QED
      BY <3>3
  <2>3. QED
    BY <1>4, <2>1, <2>2 DEF Unwind, IInv
<1>5. CASE Tick
  <2>1. PoolSound(SUBSET SourceTx)'
    BY <1>5, PoolStutter DEF Tick, IInv
  <2>2. QED
    BY <1>5, <2>1 DEF Tick, IInv
<1>6. CASE UNCHANGED vars
  <2>1. PoolSound(SUBSET SourceTx)'
    BY <1>6, PoolStutter DEF vars, IInv
  <2>2. QED
    BY <1>6, <2>1 DEF vars, IInv
<1>7. QED
  BY <1>1, <1>2, <1>3, <1>4, <1>5, <1>6 DEF Next

LEMMA IInvAlways == Spec => []IInv
BY InitIInv, NextIInv, PTL DEF Spec

\* Every variable keeps its type, saved storages included.
THEOREM TypeCorrect == Spec => []TypeOK
<1>1. IInv => TypeOK
  BY DEF IInv, PoolSound, Sound, TypeOK
<1>2. QED
  BY <1>1, IInvAlways, PTL

\* claim() pays each contributor exactly what settled measurements credited,
\* whatever runs inside the transfer and whichever transfers fail.
THEOREM RewardsAlwaysBalanced == Spec => []RewardsBalanced
<1>1. IInv => RewardsBalanced
  BY DEF IInv, PoolSound, Sound, RewardsBalanced
<1>2. QED
  BY <1>1, IInvAlways, PTL

\* No measurement is paid for twice on this route.
THEOREM NoRootPaidTwice == Spec => []PaidOncePerRoot
<1>1. IInv => PaidOncePerRoot
  BY DEF IInv, PoolSound, Sound, PaidOncePerRoot
<1>2. QED
  BY <1>1, IInvAlways, PTL
---------------------------------------------------------------------------
(* The replay layers and the registry, which IInv says nothing about.      *)

\* A reward for e goes back to a query among Q, of those in A attested.
BackedBy(e, Q, A) ==
  \E tx \in Q \cap A :
    /\ tx.ok
    /\ \E l \in Logs(tx) : /\ l.emitter \in Registry
                           /\ l.root = e.root
                           /\ l.contributor = e.contributor

HasRoot(tx, r) == \E l \in Logs(tx) : l.root = r

\* The roots, the events and the queries of one state belong together.
Traced(roots, events, Q, A) ==
  /\ \A tx \in Q : \A l \in Logs(tx) : l.root \in roots
  /\ \A r \in roots : \E tx \in Q : HasRoot(tx, r)
  /\ \A t, u \in Q : \A r \in roots : HasRoot(t, r) /\ HasRoot(u, r) => t = u
  /\ \A e \in events : BackedBy(e, Q, A)

\* They do now, and would in every state a failed transfer restores.
TraceInv ==
  /\ Traced(settled, verified, processedQueries, attested)
  /\ \A i \in 1 .. Len(frames) :
       Traced(frames[i].before.settled, frames[i].before.verified, frames[i].ext, attested)

\* Attestation is never taken back, so neither is a trace.
LEMMA TracedStays ==
  ASSUME NEW roots, NEW events, NEW Q, NEW A, NEW B, A \subseteq B,
         Traced(roots, events, Q, A)
  PROVE  Traced(roots, events, Q, B)
BY DEF Traced, BackedBy

LEMMA ExecuteTraced ==
  ASSUME IInv, TraceInv, NEW tx \in SourceTx, Execute(tx)
  PROVE  TraceInv'
<1>1. /\ AllSettleable(tx) /\ SettleLogs(Logs(tx)) /\ tx \in attested /\ tx.ok
      /\ sourceRegistry # NoAddr
      /\ processedQueries' = processedQueries \cup {tx} /\ attested' = attested
  BY DEF Execute, Executable, Processable
<1>2. /\ settled' = settled \cup {l.root : l \in Logs(tx)}
      /\ verified' = verified \cup {[root |-> l.root, contributor |-> l.contributor,
                                     reward |-> rewardAmount] : l \in Logs(tx)}
      /\ frames' = frames
  BY <1>1 DEF SettleLogs
<1>3. \A l \in Logs(tx) : l.root \notin settled /\ l.emitter = sourceRegistry
  BY <1>1 DEF AllSettleable, Logs
<1>4. sourceRegistry \in Registry
  BY <1>1 DEF IInv, PoolSound, Sound, Storage, StorageType
<1>5. Traced(settled, verified, processedQueries, attested)
  BY DEF TraceInv
<1>6. ASSUME NEW e \in verified' PROVE BackedBy(e, processedQueries', attested')
  <2>1. CASE e \in verified
    BY <1>1, <1>5, <2>1 DEF Traced, BackedBy
  <2>2. CASE e \notin verified
    <3>1. PICK l \in Logs(tx) : e.root = l.root /\ e.contributor = l.contributor
      BY <1>2, <2>2
    <3> QED
      BY <1>1, <1>3, <1>4, <3>1 DEF BackedBy
  <2> QED
    BY <2>1, <2>2
<1>7. \A t \in processedQueries' : \A l \in Logs(t) : l.root \in settled'
  BY <1>1, <1>2, <1>5 DEF Traced
<1>8. \A r \in settled' : \E t \in processedQueries' : HasRoot(t, r)
  BY <1>1, <1>2, <1>5 DEF Traced, HasRoot
<1>9. ASSUME NEW t \in processedQueries', NEW u \in processedQueries', NEW r \in settled',
             HasRoot(t, r), HasRoot(u, r)
      PROVE  t = u
  <2>1. CASE r \in settled
    <3>1. t \in processedQueries /\ u \in processedQueries
      BY <1>1, <1>3, <1>9, <2>1 DEF HasRoot
    <3> QED
      BY <1>5, <1>9, <2>1, <3>1 DEF Traced
  <2>2. CASE r \notin settled
    <3>1. t = tx /\ u = tx
      BY <1>1, <1>5, <1>9, <2>2 DEF Traced, HasRoot
    <3> QED
      BY <3>1
  <2> QED
    BY <2>1, <2>2
<1>10. Traced(settled', verified', processedQueries', attested')
  BY <1>6, <1>7, <1>8, <1>9 DEF Traced
<1> QED
  BY <1>1, <1>2, <1>10 DEF TraceInv

\* A transfer of value begins: the state it saves is the one there is.
LEMMA CallOutTraced ==
  ASSUME IInv, TraceInv, CallOut(processedQueries),
         UNCHANGED <<settled, verified, processedQueries, attested>>
  PROVE  TraceInv'
<1> DEFINE F == [before : StorageType, ext : SUBSET SourceTx]
           top == [before |-> Storage, ext |-> processedQueries]
<1>1. frames \in Seq(F) /\ top \in F
  BY DEF IInv, PoolSound, Sound
<1>2. /\ Len(frames') = Len(frames) + 1
      /\ \A i \in 1 .. Len(frames) : frames'[i] = frames[i]
      /\ frames'[Len(frames) + 1] = top
  BY <1>1, AppendProperties DEF CallOut
<1>3. Len(frames) \in Nat
  BY <1>1, LenProperties
<1>4. top.before.settled = settled /\ top.before.verified = verified /\ top.ext = processedQueries
  BY DEF Storage
<1> HIDE DEF top, F
<1>5. ASSUME NEW i \in 1 .. Len(frames')
      PROVE  Traced(frames'[i].before.settled, frames'[i].before.verified, frames'[i].ext, attested')
  <2>1. CASE i = Len(frames) + 1
    BY <1>2, <1>4, <2>1 DEF TraceInv
  <2>2. CASE i # Len(frames) + 1
    <3>1. i \in 1 .. Len(frames)
      BY <1>2, <1>3, <2>2
    <3> QED
      BY <1>2, <3>1 DEF TraceInv
  <2> QED
    BY <2>1, <2>2
<1> QED
  BY <1>5 DEF TraceInv

\* The innermost transfer ends; what is saved further out stays traced.
LEMMA PopTraced ==
  ASSUME IInv, TraceInv, frames # <<>>,
         frames' = SubSeq(frames, 1, Len(frames) - 1), attested' = attested
  PROVE  \A i \in 1 .. Len(frames') :
           Traced(frames'[i].before.settled, frames'[i].before.verified, frames'[i].ext, attested')
<1>1. frames \in Seq([before : StorageType, ext : SUBSET SourceTx])
  BY DEF IInv, PoolSound
<1>2. /\ Len(frames') = Len(frames) - 1 /\ Len(frames) \in Nat
      /\ \A i \in 1 .. Len(frames) - 1 : frames'[i] = frames[i]
  BY <1>1, DropLast, LenProperties
<1>3. \A i \in 1 .. Len(frames') :
        /\ frames'[i] = frames[i]
        /\ Traced(frames[i].before.settled, frames[i].before.verified, frames[i].ext, attested)
  BY <1>2 DEF TraceInv
<1> QED
  BY <1>3

LEMMA InitTraceInv == Init => TraceInv
BY EmptySeq DEF Init, PoolInit, TraceInv, Traced

LEMMA NextTraceInv == IInv /\ TraceInv /\ [Next]_vars => TraceInv'
<1> SUFFICES ASSUME IInv, TraceInv, [Next]_vars
             PROVE  TraceInv'
  OBVIOUS
<1>1. CASE \E tx \in SourceTx : Attest(tx)
  <2>1. /\ attested \subseteq attested'
        /\ UNCHANGED <<settled, verified, processedQueries, frames>>
    BY <1>1 DEF Attest, poolVars
  <2> QED
    BY <2>1, TracedStays DEF TraceInv
<1>2. CASE Pool
  <2>1. \/ CallOut(processedQueries) \/ TransferSucceeds
        \/ frames' = frames
    BY <1>2 DEF Pool, PoolStep, Claim, Withdraw, Receive, SetSourceRegistry,
         SetRewardAmount, SetMaxMeasurementAge, TransferOwnership
  <2>2. UNCHANGED <<settled, verified, processedQueries, attested>>
    BY <1>2 DEF Pool, PoolStep, Claim, Withdraw, TransferSucceeds, Receive, ledger,
         SetSourceRegistry, SetRewardAmount, SetMaxMeasurementAge, TransferOwnership
  <2>3. CASE TransferSucceeds
    <3>1. frames # <<>> /\ frames' = SubSeq(frames, 1, Len(frames) - 1)
      BY <2>3 DEF TransferSucceeds
    <3>2. Traced(settled', verified', processedQueries', attested')
      BY <2>2 DEF TraceInv
    <3> QED
      BY <2>2, <3>1, <3>2, PopTraced DEF TraceInv
  <2>4. CASE frames' = frames
    BY <2>2, <2>4, TracedStays DEF TraceInv
  <2> QED
    BY <2>1, <2>2, <2>3, <2>4, CallOutTraced
<1>3. CASE Unwind
  <2>1. /\ frames # <<>> /\ frames' = SubSeq(frames, 1, Len(frames) - 1)
        /\ settled' = frames[Len(frames)].before.settled
        /\ verified' = frames[Len(frames)].before.verified
        /\ processedQueries' = frames[Len(frames)].ext /\ attested' = attested
    BY <1>3 DEF Unwind, TransferFails
  <2>2. Len(frames) \in 1 .. Len(frames)
    <3>1. Len(frames) \in Nat \ {0}
      BY <2>1, EmptySeq DEF IInv, PoolSound
    <3> QED
      BY <3>1
  <2>3. Traced(settled', verified', processedQueries', attested')
    BY <2>1, <2>2 DEF TraceInv
  <2> QED
    BY <2>1, <2>3, PopTraced DEF TraceInv
<1>4. CASE Tick \/ UNCHANGED vars
  <2>1. UNCHANGED <<settled, verified, processedQueries, attested, frames>>
    BY <1>4 DEF Tick, vars, poolVars
  <2> QED
    BY <2>1, TracedStays DEF TraceInv
<1> QED
  BY <1>1, <1>2, <1>3, <1>4, ExecuteTraced DEF Next

LEMMA TraceInvAlways == Spec => []TraceInv
<1> QED
  BY InitTraceInv, NextTraceInv, IInvAlways, PTL DEF Spec

\* Every reward was earned: a successful, attested source transaction holds the
\* registry's log of that root and that contributor.
THEOREM RewardsAreEarned == Spec => []OnlyRegisteredWork
<1>1. TraceInv => OnlyRegisteredWork
  BY DEF TraceInv, Traced, BackedBy, OnlyRegisteredWork
<1> QED
  BY <1>1, TraceInvAlways, PTL

\* The query layer and the measurement layer of replay protection never
\* disagree, whichever transfers fail.
THEOREM ReplayLayersNeverDisagree == Spec => []ReplayLayersAgree
<1>1. ASSUME TraceInv, NEW r \in settled
      PROVE  Cardinality({tx \in processedQueries : \E l \in Logs(tx) : l.root = r}) = 1
  <2>1. PICK t \in processedQueries : HasRoot(t, r)
    BY <1>1 DEF TraceInv, Traced
  <2>2. \A u \in processedQueries : HasRoot(u, r) => u = t
    BY <1>1, <2>1 DEF TraceInv, Traced
  <2>3. {tx \in processedQueries : \E l \in Logs(tx) : l.root = r} = {t}
    BY <2>1, <2>2 DEF HasRoot
  <2> QED
    BY <2>3, FS_Singleton
<1>2. TraceInv => ReplayLayersAgree
  BY <1>1 DEF TraceInv, Traced, ReplayLayersAgree
<1> QED
  BY <1>2, TraceInvAlways, PTL
---------------------------------------------------------------------------
(* What was committed stays.                                               *)

LEMMA StepLayered ==
  ASSUME IInv, IInv', Layered, [Next]_vars
  PROVE  Layered' /\ NoLess(Committed, Committed')
<1>1. PoolSound(SUBSET SourceTx) /\ PoolSound(SUBSET SourceTx)'
  BY DEF IInv
<1>2. CASE \E tx \in SourceTx : Execute(tx)
  BY <1>1, <1>2, SettleLogsLayered DEF Execute
<1>3. CASE Pool
  BY <1>1, <1>3, PoolStepLayered DEF Pool, IInv
<1>4. CASE Unwind
  BY <1>1, <1>4, TransferFailsLayered DEF Unwind
<1>5. CASE (\E tx \in SourceTx : Attest(tx)) \/ Tick \/ UNCHANGED vars
  BY <1>1, <1>5, StutterLayered DEF Attest, Tick, vars
<1> QED
  BY <1>2, <1>3, <1>4, <1>5 DEF Next

\* The promise of RewardLedger that nothing is taken back: whatever calls back
\* into the contract and whichever transfers fail, the credits and payments
\* that were there before a transaction are there after it.
THEOREM CreditsArePermanent == Spec => [][NoLess(Committed, Committed')]_vars
<1> DEFINE Kept == NoLess(Committed, Committed')
<1>1. Init => Layered
  BY InitLayered DEF Init
<1>2. IInv /\ IInv' /\ Layered /\ [Next]_vars => Layered' /\ Kept
  BY StepLayered
<1> HIDE DEF Kept
<1>3. Spec => [][Kept]_vars
  BY <1>1, <1>2, IInvAlways, PTL DEF Spec
<1> QED
  BY <1>3 DEF Kept
---------------------------------------------------------------------------
(* The contract implements RewardLedger.                                   *)

LEMMA InitItemisedHere == Init => PoolItemised
BY InitItemised DEF Init

LEMMA NextItemised == IInv /\ PoolItemised /\ [Next]_vars => PoolItemised'
<1> SUFFICES ASSUME IInv, PoolItemised, [Next]_vars
             PROVE  PoolItemised'
  OBVIOUS
<1>1. PoolSound(SUBSET SourceTx)
  BY DEF IInv
<1>2. ASSUME NEW tx \in SourceTx, Execute(tx)
      PROVE  PoolItemised'
  BY <1>1, <1>2, ExecuteSettles, LogsFinite, SettleLogsItemised DEF Execute
<1>3. CASE Pool
  BY <1>1, <1>3, PoolStepItemised DEF Pool, IInv
<1>4. CASE Unwind
  BY <1>1, <1>4, TransferFailsItemised DEF Unwind
<1>5. CASE (\E tx \in SourceTx : Attest(tx)) \/ Tick \/ UNCHANGED vars
  BY <1>5, StutterItemised DEF Attest, Tick, vars
<1> QED
  BY <1>2, <1>3, <1>4, <1>5 DEF Next

\* The inductive invariant that carries the refinement: the storage the chain
\* would fall back to is sound, and its events add up.
LInv == /\ IInv /\ Layered /\ PoolItemised
        /\ Sound(Committed) /\ Itemised(Committed)

LEMMA LInvAlways == Spec => []LInv
<1>1. Init => Layered
  BY InitLayered DEF Init
<1>2. IInv /\ IInv' /\ Layered /\ [Next]_vars => Layered'
  BY StepLayered
<1>3. IInv /\ PoolItemised => Sound(Committed) /\ Itemised(Committed)
  BY CommittedSound DEF IInv
<1>4. Spec => [](IInv /\ Layered /\ PoolItemised)
  BY <1>1, <1>2, InitItemisedHere, NextItemised, IInvAlways, PTL DEF Spec
<1> QED
  BY <1>3, <1>4, PTL DEF LInv

\* Transaction by transaction, whatever calls back and whichever transfers
\* fail, the contract does what RewardLedger promises: credits are unique and
\* permanent, and what is owed and paid adds up to them.
THEOREM RefinesRewardLedger == Spec => ImplementsRewardLedger
<1>1. Init => Ledger!Init
  BY DEF Init, PoolInit, Ledger!Init, Committed, Storage
<1>2. LInv /\ LInv' /\ [Next]_vars => [Ledger!Transaction]_Ledger!vars
  <2> SUFFICES ASSUME LInv, LInv', [Next]_vars
               PROVE  Ledger!Transaction
    OBVIOUS
  <2>1. NoLess(Committed, Committed')
    BY StepLayered DEF LInv
  <2>2. Sound(Committed) /\ Sound(Committed') /\ Itemised(Committed')
    BY DEF LInv
  <2>3. \A C, a : Ledger!CreditedTo(C, a) = Cardinality(Wei(C, a))
    BY DEF Ledger!CreditedTo, Ledger!Cardinality, Cardinality, Wei
  <2> QED
    BY <2>1, <2>2, <2>3, CommittedTransaction DEF Ledger!Transaction
<1> QED
  BY <1>1, <1>2, LInvAlways, PTL DEF Spec, ImplementsRewardLedger, Ledger!Spec
============================================================================
