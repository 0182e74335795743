------------------ MODULE SignalProofBatchSettlementProofs ------------------
(***************************************************************************)
(* The safety of the batch route, for batches of any length.  Two facts    *)
(* are new over the single-proof route: skipping what is ineligible, log   *)
(* by log, leaves at most one log per root (AcceptedSettleable), and what  *)
(* it leaves is exactly Accepted (LoopIsAccepted).                         *)
(***************************************************************************)
EXTENDS SignalProofBatchSettlement, RewardPoolProofs

\* A bounded sequence is a sequence.
LEMMA BoundedSeqType ==
  ASSUME NEW S, NEW n \in Nat, NEW s \in BoundedSeq(S, n)
  PROVE  s \in Seq(S)
<1>1. PICK m \in 0 .. n : s \in [1 .. m -> S]
  BY DEF BoundedSeq, SeqOf
<1>2. QED
  BY <1>1

\* A set of natural numbers has a least one: of the intervals 1 .. n, one holds
\* no other.
LEMMA LeastNat ==
  ASSUME NEW S \in SUBSET Nat, S # {}
  PROVE  \E n \in S : \A m \in S : n <= m
<1> DEFINE T == {1 .. n : n \in S}
           R == StrictSubsetOrdering(Nat)
<1>1. T \subseteq FiniteSubsetsOf(Nat)
  <2>1. ASSUME NEW n \in S PROVE 1 .. n \in SUBSET Nat /\ IsFiniteSet(1 .. n)
    BY FS_Interval
  <2> QED
    BY <2>1 DEF FiniteSubsetsOf
<1>2. T # {}
  OBVIOUS
<1>3. IsWellFoundedOn(R, FiniteSubsetsOf(Nat))
  BY FS_StrictSubsetOrderingWellFounded
<1> HIDE DEF T, R
<1>4. PICK x \in T : \A y \in T : <<y, x>> \notin R
  BY <1>1, <1>2, <1>3, WFMin
<1>5. PICK n \in S : x = 1 .. n
  BY DEF T
<1>6. ASSUME NEW m \in S, m < n PROVE FALSE
  <2>1. 1 .. m \in T
    BY DEF T
  <2>2. 1 .. m \subseteq 1 .. n /\ 1 .. m # 1 .. n
    <3>1. n \in 1 .. n /\ n \notin 1 .. m
      BY <1>6
    <3> QED
      BY <1>6, <3>1
  <2>3. <<1 .. m, 1 .. n>> \in R
    BY <2>2 DEF R, StrictSubsetOrdering
  <2> QED
    BY <1>4, <1>5, <2>1, <2>3
<1> QED
  BY <1>6

\* The transactions of a batch are proven ones, and their logs are sequences.
LEMMA BatchType ==
  ASSUME NEW txs \in Batches
  PROVE  /\ txs \in Seq(SourceTx)
         /\ Len(txs) \in Nat /\ DOMAIN txs = 1 .. Len(txs)
         /\ \A i \in DOMAIN txs : /\ txs[i].logs \in Seq(Log)
                                  /\ Len(txs[i].logs) \in Nat
                                  /\ DOMAIN txs[i].logs = 1 .. Len(txs[i].logs)
<1>1. txs \in Seq(SourceTx)
  BY BoundedSeqType, BatchAssumption DEF Batches
<1>2. Len(txs) \in Nat /\ DOMAIN txs = 1 .. Len(txs)
  BY <1>1, LenProperties
<1>3. \A i \in DOMAIN txs : txs[i].logs \in Seq(Log)
  BY <1>1, <1>2, ElementOfSeq, BatchAssumption
<1>4. QED
  BY <1>1, <1>2, <1>3, LenProperties

\* The logs a batch settles are finitely many.
LEMMA AcceptedFinite ==
  ASSUME NEW txs \in Batches
  PROVE  Accepted(txs) \in SUBSET Log /\ IsFiniteSet(Accepted(txs))
<1> DEFINE Of(i) == {txs[i].logs[j] : j \in DOMAIN txs[i].logs}
           All == {Of(i) : i \in DOMAIN txs}
<1>1. \A i \in DOMAIN txs : Of(i) \in SUBSET Log
  BY BatchType, ElementOfSeq
<1>2. \A S \in All : IsFiniteSet(S)
  <2>1. ASSUME NEW i \in DOMAIN txs
        PROVE  IsFiniteSet(Of(i))
    <3>1. txs[i].logs \in Surjection(1 .. Len(txs[i].logs), Of(i))
      BY BatchType, LenProperties DEF Surjection
    <3>2. QED
      BY <3>1, BatchType, FS_NatSurjection DEF ExistsSurjection
  <2>2. QED
    BY <2>1
<1>3. IsFiniteSet(All)
  <2> DEFINE f == [i \in 1 .. Len(txs) |-> Of(i)]
  <2> HIDE DEF Of
  <2>1. f \in Surjection(1 .. Len(txs), All)
    <3>1. All = {Of(i) : i \in 1 .. Len(txs)}
      BY BatchType
    <3>2. f \in [1 .. Len(txs) -> All] /\ \A i \in 1 .. Len(txs) : f[i] = Of(i)
      BY <3>1
    <3>3. \A S \in All : \E i \in 1 .. Len(txs) : S = Of(i)
      BY <3>1
    <3> HIDE DEF f, All
    <3>4. QED
      BY <3>2, <3>3 DEF Surjection
  <2>2. QED
    BY <2>1, BatchType, FS_NatSurjection DEF ExistsSurjection
<1>4. IsFiniteSet(UNION All)
  BY <1>2, <1>3, FS_UNION
<1>5. Accepted(txs) \in SUBSET (UNION All)
  BY DEF Accepted, Positions, LogAt
<1>6. Accepted(txs) \in SUBSET Log
  BY <1>1, <1>5
<1>7. QED
  BY <1>4, <1>5, <1>6, FS_Subset

\* Every accepted log is of a root not settled yet, and no two share a root:
\* of two positions, the loops visit one first, and skip the other.
LEMMA AcceptedSettleable ==
  ASSUME NEW txs \in Batches
  PROVE  /\ \A l \in Accepted(txs) : l.root \notin settled
         /\ \A k, l \in Accepted(txs) : k.root = l.root => k = l
<1>1. \A l \in Accepted(txs) : l.root \notin settled
  BY DEF Accepted, Eligible
<1>2. \A p, q \in Positions(txs) : p = q \/ Before(p, q) \/ Before(q, p)
  <2>1. \A p \in Positions(txs) : /\ p = <<p[1], p[2]>>
                                  /\ p[1] \in Nat /\ p[2] \in Nat
    BY BatchType DEF Positions
  <2>2. QED
    BY <2>1 DEF Before
<1>3. ASSUME NEW k \in Accepted(txs), NEW l \in Accepted(txs), k.root = l.root
      PROVE  k = l
  <2>1. PICK p \in Positions(txs) :
          /\ k = LogAt(txs, p) /\ Eligible(k)
          /\ ~\E o \in Positions(txs) : /\ Before(o, p) /\ Eligible(LogAt(txs, o))
                                        /\ LogAt(txs, o).root = k.root
    BY DEF Accepted
  <2>2. PICK q \in Positions(txs) :
          /\ l = LogAt(txs, q) /\ Eligible(l)
          /\ ~\E o \in Positions(txs) : /\ Before(o, q) /\ Eligible(LogAt(txs, o))
                                        /\ LogAt(txs, o).root = l.root
    BY DEF Accepted
  <2>3. p = q
    BY <1>2, <1>3, <2>1, <2>2
  <2>4. QED
    BY <2>1, <2>2, <2>3
<1>4. QED
  BY <1>1, <1>3

\* IInv is inductive.
LEMMA InitIInv == Init => IInv
BY PoolInitSound, EmptySeq, BatchAssumption DEF Init, IInv, SiblingList

LEMMA NextIInv == IInv /\ [Next]_vars => IInv'
<1> SUFFICES ASSUME IInv, [Next]_vars
             PROVE  IInv'
  OBVIOUS
<1>1. ASSUME NEW txs \in Batches, ExecuteBatch(txs)
      PROVE  IInv'
  <2>1. PoolSound(Ext)'
    BY <1>1, AcceptedFinite, AcceptedSettleable, SettleLogsSound DEF ExecuteBatch, IInv, Ext
  <2>2. QED
    BY <1>1, <2>1 DEF ExecuteBatch, IInv
<1>2. ASSUME NEW c \in Account, NEW s \in BoundedSeq(Sibling, MAX_SIBLINGS + 1),
             SetSiblingSettlements(c, s)
      PROVE  IInv'
  <2>1. PoolSound(Ext)'
    BY <1>2, PoolStutter DEF SetSiblingSettlements, IInv, Ext
  <2>2. siblingSettlements' \in SiblingList
    BY <1>2, BoundedSeqType, BatchAssumption DEF SetSiblingSettlements, SiblingList
  <2>3. QED
    BY <1>2, <2>1, <2>2 DEF SetSiblingSettlements, IInv
<1>3. CASE Pool
  <2>1. ext \in Ext
    BY DEF IInv, ext, Ext
  <2>2. PoolSound(Ext)'
    BY <1>3, <2>1, PoolStepSound DEF Pool, IInv, Ext
  <2>3. QED
    BY <1>3, <2>2 DEF Pool, IInv
<1>4. CASE Unwind
  <2>1. PoolSound(Ext)'
    BY <1>4, TransferFailsSound DEF Unwind, IInv, Ext
  <2>2. frames[Len(frames)].ext \in Ext
    <3>1. frames \in Seq([before : StorageType, ext : Ext]) /\ frames # <<>>
      BY <1>4 DEF IInv, PoolSound, Unwind, TransferFails
    <3>2. Len(frames) \in 1 .. Len(frames)
      <4>1. Len(frames) \in Nat \ {0}
        BY <3>1, EmptySeq
      <4>2. QED
        BY <4>1
    <3>3. frames[Len(frames)] \in [before : StorageType, ext : Ext]
      BY <3>1, <3>2, ElementOfSeq
    <3>4. QED
      BY <3>3
  <2>3. QED
    BY <1>4, <2>1, <2>2 DEF Unwind, IInv, Ext
<1>5. ASSUME NEW s \in Answering, NEW r \in Root, SiblingSettles(s, r)
      PROVE  IInv'
  <2>1. PoolSound(Ext)'
    BY <1>5, PoolStutter DEF SiblingSettles, IInv, Ext
  <2>2. siblingSettled' \in [Sibling -> SUBSET Root]
    BY <1>5 DEF SiblingSettles, IInv
  <2>3. QED
    BY <1>5, <2>1, <2>2 DEF SiblingSettles, IInv
<1>6. CASE \/ \E tx \in SourceTx : Attest(tx)
           \/ Tick
           \/ UNCHANGED vars
  <2>1. /\ UNCHANGED <<poolVars, siblingSettlements, siblingSettled>>
        /\ attested' \in SUBSET SourceTx /\ now' \in Nat
    BY <1>6 DEF Attest, Tick, vars, IInv
  <2>2. PoolSound(Ext)'
    BY <2>1, PoolStutter DEF IInv, Ext, SiblingList
  <2>3. QED
    BY <2>1, <2>2 DEF IInv
<1>7. QED
  BY <1>1, <1>2, <1>3, <1>4, <1>5, <1>6 DEF Next

LEMMA IInvAlways == Spec => []IInv
BY InitIInv, NextIInv, PTL DEF Spec

\* Every variable keeps its type, and the sibling list its cap, saved storages
\* included.
THEOREM TypeCorrect == Spec => []TypeOK
<1>1. IInv => TypeOK
  BY DEF IInv, PoolSound, Sound, TypeOK
<1>2. QED
  BY <1>1, IInvAlways, PTL

\* claim() pays each contributor exactly what settled batches credited.
THEOREM RewardsAlwaysBalanced == Spec => []RewardsBalanced
<1>1. IInv => RewardsBalanced
  BY DEF IInv, PoolSound, Sound, RewardsBalanced
<1>2. QED
  BY <1>1, IInvAlways, PTL

\* However batches repeat and overlap, no measurement is paid for twice here.
THEOREM NoRootPaidTwice == Spec => []PaidOncePerRoot
<1>1. IInv => PaidOncePerRoot
  BY DEF IInv, PoolSound, Sound, PaidOncePerRoot
<1>2. QED
  BY <1>1, IInvAlways, PTL

\* The batch route never pays for what a listed sibling that answers has paid.
THEOREM SiblingsNeverRepeated == Spec => NeverRepeatsASibling
<1> DEFINE P == \A r \in settled' \ settled : frames' = frames => ~SettledBySibling(r)
<1>1. ASSUME IInv, [Next]_vars
      PROVE  [P]_vars
  <2>1. ASSUME NEW txs \in Batches, ExecuteBatch(txs)
        PROVE  P
    <3>1. settled' = settled \cup {l.root : l \in Accepted(txs)}
      BY <2>1 DEF ExecuteBatch, SettleLogs
    <3>2. \A l \in Accepted(txs) : ~SettledBySibling(l.root)
      BY DEF Accepted, Eligible
    <3>3. QED
      BY <3>1, <3>2
  <2>2. CASE Unwind
    <3>1. /\ frames \in Seq([before : StorageType, ext : Ext]) /\ frames # <<>>
          /\ frames' = SubSeq(frames, 1, Len(frames) - 1)
      BY <1>1, <2>2 DEF IInv, PoolSound, Unwind, TransferFails
    <3>2. Len(frames') = Len(frames) - 1 /\ Len(frames) \in Nat
      BY <3>1, DropLast, LenProperties
    <3>3. frames' # frames
      BY <3>2
    <3>4. QED
      BY <3>3
  <2>3. CASE \/ \E c \in Account, s \in BoundedSeq(Sibling, MAX_SIBLINGS + 1) :
                   SetSiblingSettlements(c, s)
             \/ \E s \in Answering, r \in Root : SiblingSettles(s, r)
             \/ \E tx \in SourceTx : Attest(tx)
             \/ Tick
             \/ UNCHANGED vars
    <3>1. settled' = settled
      BY <2>3 DEF SetSiblingSettlements, SiblingSettles, Attest, Tick, vars, poolVars
    <3>2. QED
      BY <3>1
  <2>4. CASE Pool
    <3>1. settled' = settled
      BY <2>4 DEF Pool, PoolStep, Claim, Withdraw, TransferSucceeds, Receive, ledger,
        SetSourceRegistry, SetRewardAmount, SetMaxMeasurementAge, TransferOwnership
    <3>2. QED
      BY <3>1
  <2>5. QED
    BY <1>1, <2>1, <2>2, <2>3, <2>4 DEF Next
<1>2. QED
  BY <1>1, IInvAlways, PTL DEF Spec, NeverRepeatsASibling
---------------------------------------------------------------------------
(* No honest log is stranded.                                              *)

\* Position q holds the first eligible log of its root.
FirstOfRoot(txs, q) ==
  /\ Eligible(LogAt(txs, q))
  /\ ~\E o \in Positions(txs) : /\ Before(o, q)
                                /\ Eligible(LogAt(txs, o))
                                /\ LogAt(txs, o).root = LogAt(txs, q).root

\* A position is a pair of numbers, of a transaction and of a log of it.
LEMMA PositionType ==
  ASSUME NEW txs \in Batches, NEW p \in Positions(txs)
  PROVE  /\ p[1] \in 1 .. Len(txs) /\ p[2] \in 1 .. Len(txs[p[1]].logs)
         /\ p[1] \in Nat /\ p[2] \in Nat /\ p = <<p[1], p[2]>>
         /\ Len(txs) \in Nat /\ Len(txs[p[1]].logs) \in Nat
         /\ LogAt(txs, p) \in Log
<1>1. PICK i \in DOMAIN txs : p \in {<<i, j>> : j \in DOMAIN txs[i].logs}
  BY DEF Positions
<1>2. PICK j \in DOMAIN txs[i].logs : p = <<i, j>>
  BY <1>1
<1>3. txs[i].logs[j] \in Log
  BY BatchType, ElementOfSeq
<1> QED
  BY <1>2, <1>3, BatchType DEF LogAt

\* Every eligible log has a first eligible one of its root, no later than it.
LEMMA FirstExists ==
  ASSUME NEW txs \in Batches, NEW q \in Positions(txs), Eligible(LogAt(txs, q))
  PROVE  \E p \in Positions(txs) : /\ FirstOfRoot(txs, p)
                                   /\ LogAt(txs, p).root = LogAt(txs, q).root
                                   /\ p = q \/ Before(p, q)
<1> DEFINE Like(p) == /\ Eligible(LogAt(txs, p))
                      /\ LogAt(txs, p).root = LogAt(txs, q).root
           Rows == {i \in Nat : \E p \in Positions(txs) : Like(p) /\ p[1] = i}
<1>1. \A p \in Positions(txs) : p[1] \in Nat /\ p[2] \in Nat /\ p = <<p[1], p[2]>>
  BY PositionType
<1>2. q[1] \in Rows
  BY <1>1
<1>3. PICK i \in Rows : \A k \in Rows : i <= k
  BY <1>2, LeastNat
<1> DEFINE Cols == {j \in Nat : \E p \in Positions(txs) : Like(p) /\ p[1] = i /\ p[2] = j}
<1>4. \E j \in Cols : TRUE
  BY <1>1, <1>3
<1>5. PICK j \in Cols : \A k \in Cols : j <= k
  BY <1>4, LeastNat
<1>6. PICK p \in Positions(txs) : Like(p) /\ p[1] = i /\ p[2] = j
  BY <1>5
<1>7. ASSUME NEW o \in Positions(txs), Like(o)
      PROVE  ~Before(o, p) /\ (p = o \/ Before(p, o))
  <2>1. o[1] \in Rows
    BY <1>1, <1>7
  <2>2. i \in Nat /\ j \in Nat /\ o[1] \in Nat /\ o[2] \in Nat /\ i <= o[1]
    BY <1>1, <1>3, <1>5, <2>1
  <2>3. CASE o[1] = i
    <3>1. o[2] \in Cols
      BY <1>1, <1>7, <2>3
    <3>2. j <= o[2]
      BY <1>5, <3>1
    <3> HIDE DEF Rows, Cols, Like
    <3>3. p = <<i, j>> /\ o = <<i, o[2]>>
      BY <1>1, <1>6, <2>3
    <3> QED
      BY <1>6, <2>2, <2>3, <3>2, <3>3 DEF Before
  <2>4. CASE i < o[1]
    BY <1>6, <2>2, <2>4 DEF Before
  <2> QED
    BY <2>2, <2>3, <2>4
<1>8. FirstOfRoot(txs, p)
  BY <1>6, <1>7 DEF FirstOfRoot
<1> QED
  BY <1>6, <1>7, <1>8

\* If any log of a batch is eligible, one is accepted.
LEMMA AcceptedNonEmpty ==
  ASSUME NEW txs \in Batches, NEW q \in Positions(txs), Eligible(LogAt(txs, q))
  PROVE  Accepted(txs) # {}
BY FirstExists DEF FirstOfRoot, Accepted

\* One log the contract has no reason to refuse makes a batch of proven
\* transactions executable, whatever else it carries and whichever siblings fail
\* to answer, as long as none of them answers with a word that is not a bool.
THEOREM HonestLogSettles == Spec => []HonestLogNeverStranded
<1>1. ASSUME IInv, NEW txs \in Batches, CarriesHonestLog(txs),
             \A i \in DOMAIN siblingSettlements : siblingSettlements[i] \notin Unreadable
      PROVE  Executable(txs)
  <2>1. PICK p \in Positions(txs) : Honest(LogAt(txs, p))
    BY <1>1 DEF CarriesHonestLog
  <2>2. \A i \in DOMAIN siblingSettlements : siblingSettlements[i] \in Sibling
    BY <1>1, ElementOfSeq, LenProperties DEF IInv, SiblingList
  <2>3. ~SettledBySibling(LogAt(txs, p).root)
    BY <2>1, <2>2 DEF SettledBySibling, SaysYes, Answering, Honest
  <2>4. Fresh(LogAt(txs, p), now)
    <3> DEFINE t == LogAt(txs, p).timestamp
    <3>1. t \in Nat /\ now \in Nat /\ maxMeasurementAge \in Nat
      BY <1>1, PositionType DEF Log, IInv, PoolSound, Sound, StorageType, Storage
    <3>2. now \in t .. t + maxMeasurementAge
      BY <2>1 DEF Honest
    <3> HIDE DEF t
    <3>3. t <= now /\ now - t <= maxMeasurementAge
      BY <3>1, <3>2
    <3> QED
      BY <3>3 DEF Fresh, t
  <2>5. Eligible(LogAt(txs, p))
    BY <2>1, <2>3, <2>4 DEF Eligible, Honest
  <2>6. Accepted(txs) # {}
    BY <2>5, AcceptedNonEmpty
  <2>7. txs # <<>>
    BY BatchType DEF Positions
  <2>8. Answered(txs)
    BY <1>1 DEF Answered, AskingReverts
  <2> QED
    BY <1>1, <2>6, <2>7, <2>8 DEF Executable, CarriesHonestLog
<1>2. IInv => HonestLogNeverStranded
  BY <1>1 DEF HonestLogNeverStranded
<1> QED
  BY <1>2, IInvAlways, PTL
---------------------------------------------------------------------------
(* Accepted is what the loops of the contract settle.                      *)

\* Two functions on 0 .. n that start alike and take every step alike are equal
\* throughout: there is no first place where they differ.
LEMMA LoopUnique ==
  ASSUME NEW n \in Nat, NEW f, NEW g, f[0] = g[0],
         \A i \in 1 .. n : f[i - 1] = g[i - 1] => f[i] = g[i]
  PROVE  \A i \in 0 .. n : f[i] = g[i]
<1> DEFINE Off == {i \in 0 .. n : f[i] # g[i]}
<1>1. ASSUME Off # {} PROVE FALSE
  <2>1. Off \in SUBSET Nat
    OBVIOUS
  <2>2. PICK i \in Off : \A k \in Off : i <= k
    <3> HIDE DEF Off
    <3> QED
      BY <1>1, <2>1, LeastNat
  <2>3. i \in 1 .. n /\ i - 1 \in 0 .. n
    BY <2>2
  <2>4. f[i - 1] = g[i - 1]
    BY <2>2, <2>3
  <2> QED
    BY <2>2, <2>3, <2>4
<1> QED
  BY <1>1

\* Position q is visited no later than log j of transaction i.
UpTo(q, i, j) == q[1] < i \/ (q[1] = i /\ q[2] <= j)

\* Asking the siblings about the log at position q reverts the call.
Stops(txs, q) ==
  LET l == LogAt(txs, q) IN
    l.emitter = sourceRegistry /\ l.root \notin settled /\ AskingReverts(l.root)

\* What has been settled once log j of transaction i has been visited, if the
\* call has not reverted, and where it stands.
EnteredUpTo(txs, i, j) ==
  {LogAt(txs, p) : p \in {q \in Positions(txs) : FirstOfRoot(txs, q) /\ UpTo(q, i, j)}}

StopsUpTo(txs, i, j) == \E q \in Positions(txs) : UpTo(q, i, j) /\ Stops(txs, q)

SettledUpTo(txs, i, j) ==
  IF StopsUpTo(txs, i, j) THEN Reverts ELSE Settles(EnteredUpTo(txs, i, j))

\* One visit takes the loop from what is settled before a position to what is
\* settled after it.
LEMMA VisitStep ==
  ASSUME IInv, NEW txs \in Batches, NEW i \in DOMAIN txs, NEW j \in DOMAIN txs[i].logs
  PROVE  Visit(SettledUpTo(txs, i, j - 1), txs[i].logs[j]) = SettledUpTo(txs, i, j)
<1> DEFINE p == <<i, j>>
           l == txs[i].logs[j]
           done == EnteredUpTo(txs, i, j - 1)
<1>1. p \in Positions(txs) /\ LogAt(txs, p) = l /\ i \in Nat /\ j \in Nat /\ l \in Log
  <2>1. p \in Positions(txs)
    BY DEF Positions
  <2>2. LogAt(txs, p) = l
    BY DEF LogAt
  <2> QED
    BY <2>1, <2>2, PositionType
<1>2. \A q \in Positions(txs) :
        /\ UpTo(q, i, j) <=> UpTo(q, i, j - 1) \/ q = p
        /\ UpTo(q, i, j - 1) <=> Before(q, p)
  <2>1. \A q \in Positions(txs) : q[1] \in Nat /\ q[2] \in Nat /\ q = <<q[1], q[2]>>
    BY PositionType
  <2>2. ASSUME NEW q \in Positions(txs)
        PROVE  /\ UpTo(q, i, j) <=> UpTo(q, i, j - 1) \/ q = p
               /\ UpTo(q, i, j - 1) <=> Before(q, p)
    <3>1. q = p <=> q[1] = i /\ q[2] = j
      BY <2>1
    <3>2. Before(q, p) <=> q[1] < i \/ (q[1] = i /\ q[2] < j)
      BY DEF Before
    <3> HIDE DEF p
    <3>3. q[1] \in Nat /\ q[2] \in Nat
      BY <2>1
    <3> QED
      BY <1>1, <3>1, <3>2, <3>3 DEF UpTo
  <2> QED
    BY <2>2
<1>3. EnteredUpTo(txs, i, j) = IF FirstOfRoot(txs, p) THEN done \cup {l} ELSE done
  <2> HIDE DEF p, l
  <2> QED
    BY <1>1, <1>2 DEF EnteredUpTo
<1>8. StopsUpTo(txs, i, j) <=> StopsUpTo(txs, i, j - 1) \/ Stops(txs, p)
  <2> HIDE DEF p, l
  <2> QED
    BY <1>1, <1>2 DEF StopsUpTo
<1>4. l.root \in {k.root : k \in done} <=>
        \E o \in Positions(txs) : Before(o, p) /\ Eligible(LogAt(txs, o))
                                               /\ LogAt(txs, o).root = l.root
  <2> HIDE DEF p, l
  <2>1. ASSUME NEW k \in done, k.root = l.root
        PROVE  \E o \in Positions(txs) : Before(o, p) /\ Eligible(LogAt(txs, o))
                                                      /\ LogAt(txs, o).root = l.root
    BY <1>2, <2>1 DEF EnteredUpTo, FirstOfRoot
  <2>2. ASSUME NEW o \in Positions(txs), Before(o, p), Eligible(LogAt(txs, o)),
               LogAt(txs, o).root = l.root
        PROVE  l.root \in {k.root : k \in done}
    <3>1. PICK f \in Positions(txs) : /\ FirstOfRoot(txs, f)
                                      /\ LogAt(txs, f).root = LogAt(txs, o).root
                                      /\ f = o \/ Before(f, o)
      BY <2>2, FirstExists
    <3>2. Before(f, p)
      <4>1. /\ f[1] \in Nat /\ f[2] \in Nat /\ o[1] \in Nat /\ o[2] \in Nat
            /\ p[1] \in Nat /\ p[2] \in Nat
        BY <1>1, PositionType
      <4> QED
        BY <2>2, <3>1, <4>1 DEF Before
    <3>3. LogAt(txs, f) \in done
      BY <1>2, <3>1, <3>2 DEF EnteredUpTo
    <3> QED
      BY <2>2, <3>1, <3>3
  <2> HIDE DEF done
  <2> QED
    BY <2>1, <2>2
<1>5. Fresh(l, now) <=> ~(l.timestamp > now) /\ ~(now - l.timestamp > maxMeasurementAge)
  <2>1. l.timestamp \in Nat /\ now \in Nat /\ maxMeasurementAge \in Nat
    BY <1>1 DEF Log, IInv, PoolSound, Sound, StorageType, Storage
  <2> HIDE DEF l
  <2> QED
    BY <2>1 DEF Fresh
<1>6. FirstOfRoot(txs, p) <=> Eligible(l) /\ l.root \notin {k.root : k \in done}
  <2> HIDE DEF p, l, done
  <2> QED
    BY <1>1, <1>4 DEF FirstOfRoot
<1>7. CASE StopsUpTo(txs, i, j - 1)
  <2>1. Visit(Reverts, l) = Reverts
    BY DEF Visit, Reverts
  <2> QED
    BY <1>7, <1>8, <2>1 DEF SettledUpTo
<1>9. CASE ~StopsUpTo(txs, i, j - 1) /\ Stops(txs, p)
  <2>1. l.emitter = sourceRegistry /\ l.root \notin settled /\ AskingReverts(l.root)
    <3> HIDE DEF p, l
    <3> QED
      BY <1>1, <1>9 DEF Stops
  <2>2. l.root \notin {k.root : k \in done}
    <3>1. ASSUME NEW o \in Positions(txs), Before(o, p), Eligible(LogAt(txs, o)),
                 LogAt(txs, o).root = l.root
          PROVE  FALSE
      <4>1. Stops(txs, o)
        BY <2>1, <3>1 DEF Stops, Eligible
      <4> QED
        BY <1>2, <1>9, <3>1, <4>1 DEF StopsUpTo
    <3> QED
      BY <1>4, <3>1
  <2>3. Visit(Settles(done), l) = Reverts
    <3> HIDE DEF p, l, done
    <3> QED
      BY <2>1, <2>2 DEF Visit, Settles
  <2> QED
    BY <1>8, <1>9, <2>3 DEF SettledUpTo
<1>10. CASE ~StopsUpTo(txs, i, j - 1) /\ ~Stops(txs, p)
  <2>1. l.emitter = sourceRegistry /\ l.root \notin settled => ~AskingReverts(l.root)
    <3> HIDE DEF p, l
    <3> QED
      BY <1>1, <1>10 DEF Stops
  <2>2. Visit(Settles(done), l)
          = Settles(IF FirstOfRoot(txs, p) THEN done \cup {l} ELSE done)
    <3> HIDE DEF p, l, done
    <3>1. Settles(done).logs = done /\ ~Settles(done).reverted
      BY DEF Settles
    <3> QED
      BY <1>5, <1>6, <2>1, <3>1 DEF Visit, Eligible
  <2> QED
    BY <1>3, <1>8, <1>10, <2>2 DEF SettledUpTo
<1> QED
  BY <1>7, <1>9, <1>10

\* The inner loop takes what was settled before a transaction to what is
\* settled after it.
LEMMA TransactionStep ==
  ASSUME IInv, NEW txs \in Batches, NEW i \in DOMAIN txs
  PROVE  SettleTransaction(SettledUpTo(txs, i, 0), txs[i].logs) = SettledUpTo(txs, i + 1, 0)
<1> DEFINE logs == txs[i].logs
           n == Len(logs)
           done == SettledUpTo(txs, i, 0)
           Loop(a) == a = [j \in 0 .. n |-> IF j = 0 THEN done ELSE Visit(a[j - 1], logs[j])]
           g == [j \in 0 .. n |-> SettledUpTo(txs, i, j)]
           after == CHOOSE a : Loop(a)
<1>1. n \in Nat /\ DOMAIN logs = 1 .. n /\ i \in Nat
  BY BatchType
<1>2. \A j \in 1 .. n : Visit(SettledUpTo(txs, i, j - 1), logs[j]) = SettledUpTo(txs, i, j)
  BY <1>1, VisitStep
<1>3. \A j \in 0 .. n : g[j] = SettledUpTo(txs, i, j)
  OBVIOUS
<1>4. Loop(g)
  <2>1. \A j \in 0 .. n : SettledUpTo(txs, i, j)
          = IF j = 0 THEN done ELSE Visit(g[j - 1], logs[j])
    <3>1. ASSUME NEW j \in 0 .. n, j # 0
          PROVE  SettledUpTo(txs, i, j) = Visit(g[j - 1], logs[j])
      <4>1. j \in 1 .. n /\ j - 1 \in 0 .. n
        BY <1>1, <3>1
      <4> HIDE DEF g, logs, n
      <4> QED
        BY <1>2, <1>3, <4>1
    <3> QED
      BY <3>1
  <2> QED
    BY <2>1
<1>5. Loop(after)
  <2> HIDE DEF Loop, g
  <2> QED
    BY <1>4
<1>6. after[n] = g[n]
  <2>1. after[0] = g[0]
    <3>1. 0 \in 0 .. n
      BY <1>1
    <3> HIDE DEF after, g
    <3> QED
      BY <1>3, <1>5, <3>1
  <2>2. ASSUME NEW j \in 1 .. n, after[j - 1] = g[j - 1]
        PROVE  after[j] = g[j]
    <3>1. j \in 0 .. n /\ j # 0 /\ j - 1 \in 0 .. n
      BY <1>1
    <3>2. after[j] = Visit(after[j - 1], logs[j])
      <4> HIDE DEF after, logs, n, g
      <4> QED
        BY <1>5, <3>1
    <3> HIDE DEF after, g, logs, n
    <3> QED
      BY <1>2, <1>3, <2>2, <3>1, <3>2
  <2>3. n \in 0 .. n
    BY <1>1
  <2>4. n \in Nat
    BY <1>1
  <2> HIDE DEF after, g, n, logs, done, Loop
  <2>5. \A j \in 0 .. n : after[j] = g[j]
    BY <2>1, <2>2, <2>4, LoopUnique
  <2> QED
    BY <2>3, <2>5
<1>7. SettleTransaction(done, logs) = after[n]
  BY DEF SettleTransaction
<1>8. g[n] = SettledUpTo(txs, i + 1, 0)
  <2>1. g[n] = SettledUpTo(txs, i, n)
    BY <1>1, <1>3
  <2>2. ASSUME NEW q \in Positions(txs)
        PROVE  UpTo(q, i, n) <=> UpTo(q, i + 1, 0)
    <3>1. q[1] \in Nat /\ q[2] \in Nat /\ q[2] \in 1 .. Len(txs[q[1]].logs)
      BY PositionType
    <3>2. q[1] = i => q[2] <= n
      BY <1>1, <3>1
    <3>3. ~(q[2] <= 0)
      <4>1. Len(txs[q[1]].logs) \in Nat
        BY PositionType
      <4> QED
        BY <3>1, <4>1
    <3> HIDE DEF n
    <3> QED
      BY <1>1, <3>1, <3>2, <3>3 DEF UpTo
  <2>3. SettledUpTo(txs, i, n) = SettledUpTo(txs, i + 1, 0)
    <3> HIDE DEF n
    <3> QED
      BY <2>2 DEF SettledUpTo, EnteredUpTo, StopsUpTo
  <2> QED
    BY <2>1, <2>3
<1> QED
  BY <1>6, <1>7, <1>8

\* On every reachable state and every batch the contract's loops settle what
\* Accepted says, or revert exactly when a sibling does not answer with a bool.
THEOREM LoopIsAccepted == Spec => []AcceptedIsTheLoop
<1>1. ASSUME IInv, NEW txs \in Batches
      PROVE  LoopSettles(txs) = IF Answered(txs) THEN Settles(Accepted(txs)) ELSE Reverts
  <2> DEFINE n == Len(txs)
             Loop(a) == a = [i \in 0 .. n |->
               IF i = 0 THEN Settles({}) ELSE SettleTransaction(a[i - 1], txs[i].logs)]
             g == [i \in 0 .. n |-> SettledUpTo(txs, i + 1, 0)]
             after == CHOOSE a : Loop(a)
  <2>1. n \in Nat /\ DOMAIN txs = 1 .. n
    BY BatchType
  <2>2. \A q \in Positions(txs) : q[1] \in 1 .. n /\ q[1] \in Nat /\ q[2] \in Nat /\ q[2] # 0
    <3>1. ASSUME NEW q \in Positions(txs)
          PROVE  q[1] \in 1 .. n /\ q[1] \in Nat /\ q[2] \in Nat /\ q[2] # 0
      <4>1. /\ q[1] \in 1 .. n /\ q[1] \in Nat /\ q[2] \in Nat
            /\ q[2] \in 1 .. Len(txs[q[1]].logs) /\ Len(txs[q[1]].logs) \in Nat
        BY PositionType
      <4> QED
        BY <4>1
    <3> QED
      BY <3>1
  <2>3. SettledUpTo(txs, 1, 0) = Settles({})
    <3>1. \A q \in Positions(txs) : ~UpTo(q, 1, 0)
      <4> HIDE DEF n
      <4> QED
        BY <2>1, <2>2 DEF UpTo
    <3> QED
      BY <3>1 DEF SettledUpTo, EnteredUpTo, StopsUpTo
  <2>4. SettledUpTo(txs, n + 1, 0) = IF Answered(txs) THEN Settles(Accepted(txs)) ELSE Reverts
    <3>1. \A q \in Positions(txs) : UpTo(q, n + 1, 0)
      <4> HIDE DEF n
      <4> QED
        BY <2>1, <2>2 DEF UpTo
    <3> QED
      <4>1. EnteredUpTo(txs, n + 1, 0) = Accepted(txs)
        BY <3>1 DEF EnteredUpTo, FirstOfRoot, Accepted
      <4>2. StopsUpTo(txs, n + 1, 0) <=> ~Answered(txs)
        BY <3>1 DEF StopsUpTo, Stops, Answered
      <4> QED
        BY <4>1, <4>2 DEF SettledUpTo
  <2>5. \A i \in 1 .. n :
          SettleTransaction(SettledUpTo(txs, i, 0), txs[i].logs) = SettledUpTo(txs, i + 1, 0)
    BY <1>1, <2>1, TransactionStep
  <2>6. \A i \in 0 .. n : g[i] = SettledUpTo(txs, i + 1, 0)
    OBVIOUS
  <2>7. Loop(g)
    <3>1. \A i \in 0 .. n : SettledUpTo(txs, i + 1, 0)
            = IF i = 0 THEN Settles({}) ELSE SettleTransaction(g[i - 1], txs[i].logs)
      <4>1. ASSUME NEW i \in 0 .. n, i # 0
            PROVE  SettledUpTo(txs, i + 1, 0) = SettleTransaction(g[i - 1], txs[i].logs)
        <5>1. i \in 1 .. n /\ i - 1 \in 0 .. n /\ (i - 1) + 1 = i
          BY <2>1, <4>1
        <5>2. g[i - 1] = SettledUpTo(txs, i, 0)
          <6> HIDE DEF g, n
          <6> QED
            BY <2>6, <5>1
        <5> HIDE DEF g, n
        <5> QED
          BY <2>5, <5>1, <5>2
      <4> QED
        BY <2>3, <4>1
    <3> QED
      BY <3>1
  <2>8. Loop(after)
    <3> HIDE DEF Loop, g
    <3> QED
      BY <2>7
  <2>9. after[n] = g[n]
    <3>1. after[0] = g[0]
      <4>1. 0 \in 0 .. n
        BY <2>1
      <4> HIDE DEF after, g
      <4> QED
        BY <2>3, <2>6, <2>8, <4>1
    <3>2. ASSUME NEW i \in 1 .. n, after[i - 1] = g[i - 1]
          PROVE  after[i] = g[i]
      <4>1. i \in 0 .. n /\ i # 0 /\ i - 1 \in 0 .. n /\ (i - 1) + 1 = i
        BY <2>1
      <4>2. after[i] = SettleTransaction(after[i - 1], txs[i].logs)
        <5> HIDE DEF after, n, g
        <5> QED
          BY <2>8, <4>1
      <4>3. g[i - 1] = SettledUpTo(txs, i, 0) /\ g[i] = SettledUpTo(txs, i + 1, 0)
        <5> HIDE DEF after, n, g
        <5> QED
          BY <2>6, <4>1
      <4> HIDE DEF after, g, n
      <4> QED
        BY <2>5, <3>2, <4>2, <4>3
    <3>3. n \in 0 .. n
      BY <2>1
    <3> HIDE DEF after, g, n
    <3> QED
      BY <2>1, <3>1, <3>2, <3>3, LoopUnique
  <2>10. LoopSettles(txs) = after[n]
    BY DEF LoopSettles
  <2>11. g[n] = SettledUpTo(txs, n + 1, 0)
    BY <2>1, <2>6
  <2> QED
    BY <2>4, <2>9, <2>10, <2>11
<1>2. IInv => AcceptedIsTheLoop
  BY <1>1 DEF AcceptedIsTheLoop
<1> QED
  BY <1>2, IInvAlways, PTL
---------------------------------------------------------------------------
(* What was committed stays.                                               *)

LEMMA StepLayered ==
  ASSUME IInv, IInv', Layered, [Next]_vars
  PROVE  Layered' /\ NoLess(Committed, Committed')
<1>1. PoolSound(Ext) /\ PoolSound(Ext)'
  BY DEF IInv, Ext, SiblingList
<1>2. CASE \E txs \in Batches : ExecuteBatch(txs)
  BY <1>1, <1>2, SettleLogsLayered DEF ExecuteBatch
<1>3. CASE Pool
  <2>1. ext \in Ext
    BY DEF IInv, ext, Ext
  <2> QED
    BY <1>1, <1>3, <2>1, PoolStepLayered DEF Pool
<1>4. CASE Unwind
  BY <1>1, <1>4, TransferFailsLayered DEF Unwind
<1>5. CASE ~(\E txs \in Batches : ExecuteBatch(txs)) /\ ~Pool /\ ~Unwind
  <2>1. UNCHANGED poolVars
    BY <1>5 DEF Next, SetSiblingSettlements, SiblingSettles, Attest, Tick, vars
  <2> QED
    BY <1>1, <2>1, StutterLayered
<1> QED
  BY <1>2, <1>3, <1>4, <1>5

\* The promise of RewardLedger that nothing is taken back, for the batch
\* contract: credits and payments of earlier transactions stay, whatever calls
\* back and whichever transfers fail.
THEOREM CreditsArePermanent == Spec => [][NoLess(Committed, Committed')]_vars
<1> DEFINE Kept == NoLess(Committed, Committed')
<1>1. Init => Layered
  BY InitLayered DEF Init
<1>2. IInv /\ IInv' /\ Layered /\ [Next]_vars => Layered' /\ Kept
  BY StepLayered
<1> HIDE DEF Kept
<1>3. Spec => [][Kept]_vars
  BY <1>1, <1>2, IInvAlways, PTL DEF Spec
<1> QED
  BY <1>3 DEF Kept
---------------------------------------------------------------------------
(* The contract implements RewardLedger.                                   *)

LEMMA InitItemisedHere == Init => PoolItemised
BY InitItemised DEF Init

LEMMA NextItemised == IInv /\ PoolItemised /\ [Next]_vars => PoolItemised'
<1> SUFFICES ASSUME IInv, PoolItemised, [Next]_vars
             PROVE  PoolItemised'
  OBVIOUS
<1>1. PoolSound(Ext)
  BY DEF IInv, Ext, SiblingList
<1>2. ASSUME NEW txs \in Batches, ExecuteBatch(txs)
      PROVE  PoolItemised'
  BY <1>1, <1>2, AcceptedFinite, AcceptedSettleable, SettleLogsItemised DEF ExecuteBatch
<1>3. CASE Pool
  <2>1. ext \in Ext
    BY DEF IInv, ext, Ext
  <2> QED
    BY <1>1, <1>3, <2>1, PoolStepItemised DEF Pool
<1>4. CASE Unwind
  BY <1>1, <1>4, TransferFailsItemised DEF Unwind
<1>5. CASE ~(\E txs \in Batches : ExecuteBatch(txs)) /\ ~Pool /\ ~Unwind
  <2>1. UNCHANGED poolVars
    BY <1>5 DEF Next, SetSiblingSettlements, SiblingSettles, Attest, Tick, vars
  <2> QED
    BY <2>1, StutterItemised
<1> QED
  BY <1>2, <1>3, <1>4, <1>5

\* The inductive invariant that carries the refinement: the storage the chain
\* would fall back to is sound, and its events add up.
LInv == /\ IInv /\ Layered /\ PoolItemised
        /\ Sound(Committed) /\ Itemised(Committed)

LEMMA LInvAlways == Spec => []LInv
<1>1. Init => Layered
  BY InitLayered DEF Init
<1>2. IInv /\ IInv' /\ Layered /\ [Next]_vars => Layered'
  BY StepLayered
<1>3. IInv /\ PoolItemised => Sound(Committed) /\ Itemised(Committed)
  BY CommittedSound DEF IInv
<1>4. Spec => [](IInv /\ Layered /\ PoolItemised)
  BY <1>1, <1>2, InitItemisedHere, NextItemised, IInvAlways, PTL DEF Spec
<1> QED
  BY <1>3, <1>4, PTL DEF LInv

\* The batch contract keeps the promise of RewardLedger as well, for batches
\* of any length and whatever the siblings answer.
THEOREM RefinesRewardLedger == Spec => ImplementsRewardLedger
<1>1. Init => Ledger!Init
  BY DEF Init, PoolInit, Ledger!Init, Committed, Storage
<1>2. LInv /\ LInv' /\ [Next]_vars => [Ledger!Transaction]_Ledger!vars
  <2> SUFFICES ASSUME LInv, LInv', [Next]_vars
               PROVE  Ledger!Transaction
    OBVIOUS
  <2>1. NoLess(Committed, Committed')
    BY StepLayered DEF LInv
  <2>2. Sound(Committed) /\ Sound(Committed') /\ Itemised(Committed')
    BY DEF LInv
  <2>3. \A C, a : Ledger!CreditedTo(C, a) = Cardinality(Wei(C, a))
    BY DEF Ledger!CreditedTo, Ledger!Cardinality, Cardinality, Wei
  <2> QED
    BY <2>1, <2>2, <2>3, CommittedTransaction DEF Ledger!Transaction
<1> QED
  BY <1>1, <1>2, LInvAlways, PTL DEF Spec, ImplementsRewardLedger, Ledger!Spec
============================================================================
