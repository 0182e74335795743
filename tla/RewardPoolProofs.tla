------------------------- MODULE RewardPoolProofs -------------------------
(***************************************************************************)
(* The steps of the pool preserve PoolSound, whichever contract they       *)
(* belong to.  The proofs about the two settlement contracts cite these    *)
(* lemmas for everything except the settlement step itself, and            *)
(* SettleLogsSound for that.                                               *)
(***************************************************************************)
EXTENDS RewardPool, FiniteSetTheorems, SequenceTheorems, TLAPS

\* A finite set of logs adds a natural number to each contributor's balance.
LEMMA CreditNat ==
  ASSUME NEW L, IsFiniteSet(L), rewardAmount \in Nat, NEW a
  PROVE  Credit(L, a) \in Nat
<1>1. IsFiniteSet({l \in L : l.contributor = a})
  BY FS_Subset
<1>2. Cardinality({l \in L : l.contributor = a}) \in Nat
  BY <1>1, FS_CardinalityType
<1>3. QED
  BY <1>2 DEF Credit

\* A settled set of logs, new roots only and one log per root, leaves the
\* storage sound: the credit enters rewards and accrued alike, and each new
\* root gets its one event.
LEMMA SettleLogsSound ==
  ASSUME NEW Ext, PoolSound(Ext), NEW L \in SUBSET Log, IsFiniteSet(L),
         \A l \in L : l.root \notin settled,
         \A k, l \in L : k.root = l.root => k = l,
         SettleLogs(L)
  PROVE  PoolSound(Ext)'
<1> DEFINE New == {[root |-> l.root, contributor |-> l.contributor,
                    reward |-> rewardAmount] : l \in L}
<1> USE DEF PoolSound, Sound
<1>1. /\ Storage \in StorageType
      /\ rewards \in [Account -> Nat] /\ accrued \in [Account -> Nat]
      /\ paid \in [Account -> Nat] /\ rewardAmount \in Nat
      /\ settled \in SUBSET Root /\ verified \in SUBSET Event
  BY DEF Storage, StorageType
<1>2. \A a \in Account : Credit(L, a) \in Nat
  BY <1>1, CreditNat
<1>3. New \in SUBSET Event
  BY <1>1 DEF Event, Log
<1>4. Storage' \in StorageType
  <2>1. rewards' \in [Account -> Nat] /\ accrued' \in [Account -> Nat]
    BY <1>1, <1>2 DEF SettleLogs
  <2>2. settled' \in SUBSET Root
    BY <1>1 DEF SettleLogs, Log
  <2>3. verified' \in SUBSET Event
    BY <1>1, <1>3 DEF SettleLogs
  <2>4. QED
    BY <1>1, <2>1, <2>2, <2>3 DEF SettleLogs, Storage, StorageType, settings, money
<1>5. Balanced(Storage')
  <2>1. \A a \in Account : rewards'[a] + paid'[a] = accrued'[a]
    <3> TAKE a \in Account
    <3>1. rewards[a] + paid[a] = accrued[a]
      BY DEF Balanced, Storage
    <3>2. /\ rewards'[a] = rewards[a] + Credit(L, a)
          /\ accrued'[a] = accrued[a] + Credit(L, a)
          /\ paid' = paid
      BY DEF SettleLogs, money
    <3>3. /\ rewards[a] \in Nat /\ paid[a] \in Nat
          /\ accrued[a] \in Nat /\ Credit(L, a) \in Nat
      BY <1>1, <1>2
    <3>4. QED
      BY <3>1, <3>2, <3>3
  <2>2. QED
    BY <2>1 DEF Balanced, Storage
<1>6. OneEventPerRoot(Storage')
  <2>1. settled = {e.root : e \in verified}
    BY DEF OneEventPerRoot, Storage
  <2>2. \A e, f \in verified : e.root = f.root => e = f
    BY DEF OneEventPerRoot, Storage
  <2>3. settled' = settled \cup {l.root : l \in L} /\ verified' = verified \cup New
    BY DEF SettleLogs
  <2>4. {e.root : e \in New} = {l.root : l \in L}
    <3>1. \A e \in New : \E l \in L : e.root = l.root
      OBVIOUS
    <3>2. ASSUME NEW l \in L PROVE \E e \in New : e.root = l.root
      <4>1. [root |-> l.root, contributor |-> l.contributor,
             reward |-> rewardAmount] \in New
        OBVIOUS
      <4> HIDE DEF New
      <4>2. QED
        BY <4>1
    <3> HIDE DEF New
    <3>3. QED
      BY <3>1, <3>2
  <2>5. settled' = {e.root : e \in verified'}
    BY <2>1, <2>3, <2>4
  <2>6. \A e \in New : e.root \notin settled
    OBVIOUS
  <2>7. \A e, f \in New : e.root = f.root => e = f
    OBVIOUS
  <2>8. ASSUME NEW e \in verified', NEW f \in verified', e.root = f.root
        PROVE  e = f
    <3>1. CASE e \in verified /\ f \in verified
      BY <3>1, <2>2, <2>8
    <3>2. CASE e \in New /\ f \in New
      BY <3>2, <2>7, <2>8
    <3>3. CASE e \in verified /\ f \in New
      BY <3>3, <2>1, <2>6, <2>8
    <3>4. CASE e \in New /\ f \in verified
      BY <3>4, <2>1, <2>6, <2>8
    <3>5. QED
      BY <2>3, <3>1, <3>2, <3>3, <3>4
  <2>9. QED
    BY <2>5, <2>8 DEF OneEventPerRoot, Storage
<1>7. frames' = frames
  BY DEF SettleLogs
<1>8. QED
  BY <1>4, <1>5, <1>6, <1>7

\* Calling out saves the storage as it is, so the frames stay sound.
LEMMA CallOutSound ==
  ASSUME NEW Ext, PoolSound(Ext), NEW ext \in Ext, CallOut(ext)
  PROVE  /\ frames' \in Seq([before : StorageType, ext : Ext])
         /\ \A i \in 1 .. Len(frames') : Sound(frames'[i].before)
<1> DEFINE F == [before : StorageType, ext : Ext]
           top == [before |-> Storage, ext |-> ext]
<1>1. frames \in Seq(F) /\ top \in F /\ Sound(top.before)
  BY DEF PoolSound, Sound
<1>2. frames' = Append(frames, top)
  BY DEF CallOut
<1>3. /\ frames' \in Seq(F)
      /\ Len(frames') = Len(frames) + 1
      /\ \A i \in 1 .. Len(frames) : frames'[i] = frames[i]
      /\ frames'[Len(frames) + 1] = top
  BY <1>1, <1>2, AppendProperties
<1>4. Len(frames) \in Nat
  BY <1>1, LenProperties
<1>5. ASSUME NEW i \in 1 .. Len(frames')
      PROVE  Sound(frames'[i].before)
  <2>1. CASE i = Len(frames) + 1
    BY <2>1, <1>1, <1>3
  <2>2. CASE i # Len(frames) + 1
    <3>1. i \in 1 .. Len(frames)
      BY <2>2, <1>3, <1>4
    <3>2. QED
      BY <3>1, <1>3 DEF PoolSound
  <2>3. QED
    BY <2>1, <2>2
<1>6. QED
  BY <1>3, <1>5

\* A sequence without its last element.
LEMMA DropLast ==
  ASSUME NEW S, NEW s \in Seq(S), s # <<>>
  PROVE  /\ SubSeq(s, 1, Len(s) - 1) \in Seq(S)
         /\ Len(SubSeq(s, 1, Len(s) - 1)) = Len(s) - 1
         /\ \A i \in 1 .. Len(s) - 1 : SubSeq(s, 1, Len(s) - 1)[i] = s[i]
<1> DEFINE n == Len(s) - 1
<1>1. Len(s) \in Nat \ {0}
  BY EmptySeq
<1>2. n \in Nat /\ n <= Len(s)
  BY <1>1
<1>3. \A i \in 1 .. n : s[i] \in S
  <2> TAKE i \in 1 .. n
  <2>1. i \in 1 .. Len(s)
    BY <1>1, <1>2
  <2>2. QED
    BY <2>1, ElementOfSeq
<1> HIDE DEF n
<1>4. 1 \in Int /\ n \in Int
  BY <1>2
<1>5. /\ SubSeq(s, 1, n) \in Seq(S)
      /\ Len(SubSeq(s, 1, n)) = IF 1 <= n THEN n - 1 + 1 ELSE 0
      /\ \A i \in 1 .. n - 1 + 1 : SubSeq(s, 1, n)[i] = s[1 + i - 1]
  BY <1>3, <1>4, SubSeqProperties
<1>6. SubSeq(s, 1, n) \in Seq(S) /\ Len(SubSeq(s, 1, n)) = n
  BY <1>2, <1>5
<1>7. \A i \in 1 .. n : SubSeq(s, 1, n)[i] = s[i]
  <2> TAKE i \in 1 .. n
  <2>1. n - 1 + 1 = n /\ 1 + i - 1 = i
    BY <1>2
  <2>2. QED
    BY <1>5, <2>1
<1>8. QED
  BY <1>6, <1>7 DEF n

\* Popping a frame leaves the others as they are.
LEMMA PopSound ==
  ASSUME NEW Ext, PoolSound(Ext), frames # <<>>,
         frames' = SubSeq(frames, 1, Len(frames) - 1)
  PROVE  /\ frames' \in Seq([before : StorageType, ext : Ext])
         /\ \A i \in 1 .. Len(frames') : Sound(frames'[i].before)
<1> DEFINE F == [before : StorageType, ext : Ext]
<1>1. frames \in Seq(F)
  BY DEF PoolSound
<1>2. Len(frames) \in Nat \ {0}
  BY <1>1, EmptySeq
<1>3. /\ frames' \in Seq(F)
      /\ Len(frames') = Len(frames) - 1
      /\ \A i \in 1 .. Len(frames) - 1 : frames'[i] = frames[i]
  <2> HIDE DEF F
  <2>1. QED
    BY <1>1, DropLast
<1>4. QED
  BY <1>2, <1>3 DEF PoolSound

\* Claiming moves the sender's whole balance from rewards to paid.
LEMMA ClaimSound ==
  ASSUME NEW Ext, PoolSound(Ext), NEW ext \in Ext, NEW a \in Account, Claim(a, ext)
  PROVE  PoolSound(Ext)'
<1>1. /\ Storage \in StorageType /\ Balanced(Storage) /\ OneEventPerRoot(Storage)
  BY DEF PoolSound, Sound
<1>2. /\ rewards \in [Account -> Nat] /\ paid \in [Account -> Nat]
      /\ accrued \in [Account -> Nat] /\ balance \in Nat
  BY <1>1 DEF Storage, StorageType
<1>3. /\ rewards' = [rewards EXCEPT ![a] = 0]
      /\ paid' = [paid EXCEPT ![a] = @ + rewards[a]]
      /\ balance' = balance - rewards[a] /\ balance >= rewards[a]
      /\ UNCHANGED <<settings, settled, verified, accrued>>
  BY DEF Claim
<1>4. Storage' \in StorageType
  <2>1. /\ rewards' \in [Account -> Nat] /\ paid' \in [Account -> Nat]
        /\ balance' \in Nat
    BY <1>2, <1>3
  <2>2. QED
    BY <1>1, <1>3, <2>1 DEF Storage, StorageType, settings
<1>5. Balanced(Storage')
  <2>1. \A b \in Account : rewards[b] + paid[b] = accrued[b]
    BY <1>1 DEF Balanced, Storage
  <2>2. \A b \in Account : rewards'[b] + paid'[b] = accrued'[b]
    BY <1>2, <1>3, <2>1
  <2>3. QED
    BY <2>2 DEF Balanced, Storage
<1>6. OneEventPerRoot(Storage')
  BY <1>1, <1>3 DEF OneEventPerRoot, Storage
<1>7. CallOut(ext)
  BY DEF Claim
<1>8. QED
  BY <1>4, <1>5, <1>6, <1>7, CallOutSound DEF PoolSound, Sound

\* Steps that move the balance or the owner's settings leave the ledger alone.
LEMMA LedgerUntouchedSound ==
  ASSUME NEW Ext, PoolSound(Ext), UNCHANGED <<ledger, paid>>,
         Storage' \in StorageType
  PROVE  Sound(Storage')
<1>1. Balanced(Storage) /\ OneEventPerRoot(Storage)
  BY DEF PoolSound, Sound
<1>2. Balanced(Storage')
  BY <1>1 DEF Balanced, Storage, ledger
<1>3. OneEventPerRoot(Storage')
  BY <1>1 DEF OneEventPerRoot, Storage, ledger
<1>4. QED
  BY <1>2, <1>3 DEF Sound

\* A failed transfer restores a storage that was sound when it was saved.
LEMMA TransferFailsSound ==
  ASSUME NEW Ext, PoolSound(Ext), TransferFails
  PROVE  PoolSound(Ext)'
<1> DEFINE before == frames[Len(frames)].before
<1>1. frames # <<>> /\ frames' = SubSeq(frames, 1, Len(frames) - 1)
  BY DEF TransferFails
<1>2. Len(frames) \in 1 .. Len(frames)
  <2>1. Len(frames) \in Nat \ {0}
    BY <1>1, EmptySeq DEF PoolSound
  <2>2. QED
    BY <2>1
<1>3. Sound(before)
  BY <1>2 DEF PoolSound
<1>4. /\ Storage'.owner = before.owner
      /\ Storage'.sourceRegistry = before.sourceRegistry
      /\ Storage'.rewardAmount = before.rewardAmount
      /\ Storage'.maxMeasurementAge = before.maxMeasurementAge
      /\ Storage'.settled = before.settled
      /\ Storage'.rewards = before.rewards
      /\ Storage'.balance = before.balance
      /\ Storage'.verified = before.verified
      /\ Storage'.accrued = before.accrued
      /\ Storage'.paid = before.paid
  BY DEF TransferFails, Storage
<1>5. Sound(Storage')
  <2>1. before \in StorageType /\ Balanced(before) /\ OneEventPerRoot(before)
    BY <1>3 DEF Sound
  <2> HIDE DEF before
  <2>2. Storage' \in StorageType
    BY <1>4, <2>1 DEF Storage, StorageType
  <2>3. Balanced(Storage')
    BY <1>4, <2>1 DEF Balanced
  <2>4. OneEventPerRoot(Storage')
    BY <1>4, <2>1 DEF OneEventPerRoot
  <2>5. QED
    BY <2>2, <2>3, <2>4 DEF Sound
<1>6. QED
  BY <1>1, <1>5, PopSound DEF PoolSound

\* Every step of the pool itself preserves PoolSound.
LEMMA PoolStepSound ==
  ASSUME NEW Ext, PoolSound(Ext), NEW ext \in Ext, PoolStep(ext)
  PROVE  PoolSound(Ext)'
<1>1. Storage \in StorageType
  BY DEF PoolSound, Sound
<1>2. /\ owner \in Account /\ sourceRegistry \in Registry \cup {NoAddr}
      /\ rewardAmount \in Nat /\ maxMeasurementAge \in Nat /\ balance \in Nat
  BY <1>1 DEF Storage, StorageType
<1>3. CASE \E a \in Account : Claim(a, ext)
  BY <1>3, ClaimSound
<1>4. ASSUME NEW c \in Account, NEW amount \in FundChoices, Withdraw(c, amount, ext)
      PROVE  PoolSound(Ext)'
  <2>1. balance' \in Nat
    BY <1>2, <1>4, PoolAssumption DEF Withdraw
  <2>2. Storage' \in StorageType
    BY <1>1, <1>4, <2>1 DEF Withdraw, Storage, StorageType, settings, ledger
  <2>3. Sound(Storage')
    BY <1>4, <2>2, LedgerUntouchedSound DEF Withdraw
  <2>4. CallOut(ext)
    BY <1>4 DEF Withdraw
  <2>5. QED
    BY <2>3, <2>4, CallOutSound DEF PoolSound
<1>5. CASE TransferSucceeds
  <2>1. Storage' \in StorageType
    BY <1>1, <1>5 DEF TransferSucceeds, Storage, StorageType, settings, ledger, money
  <2>2. Sound(Storage')
    BY <1>5, <2>1, LedgerUntouchedSound DEF TransferSucceeds, money
  <2>3. QED
    BY <1>5, <2>2, PopSound DEF PoolSound, TransferSucceeds
<1>6. ASSUME NEW amount \in FundChoices, Receive(amount)
      PROVE  PoolSound(Ext)'
  <2>1. balance' \in Nat
    BY <1>2, <1>6, PoolAssumption DEF Receive
  <2>2. Storage' \in StorageType
    BY <1>1, <1>6, <2>1 DEF Receive, Storage, StorageType, settings, ledger
  <2>3. QED
    BY <1>6, <2>2, LedgerUntouchedSound DEF PoolSound, Receive
<1>7. ASSUME NEW c \in Account, NEW r \in Registry \cup {NoAddr}, SetSourceRegistry(c, r)
      PROVE  PoolSound(Ext)'
  <2>1. Storage' \in StorageType
    BY <1>1, <1>7 DEF SetSourceRegistry, Storage, StorageType, ledger, money
  <2>2. QED
    BY <1>7, <2>1, LedgerUntouchedSound DEF PoolSound, SetSourceRegistry, money
<1>8. ASSUME NEW c \in Account, NEW amount \in RewardChoices, SetRewardAmount(c, amount)
      PROVE  PoolSound(Ext)'
  <2>1. Storage' \in StorageType
    BY <1>1, <1>8, PoolAssumption DEF SetRewardAmount, Storage, StorageType, ledger, money
  <2>2. QED
    BY <1>8, <2>1, LedgerUntouchedSound DEF PoolSound, SetRewardAmount, money
<1>9. ASSUME NEW c \in Account, NEW age \in AgeChoices, SetMaxMeasurementAge(c, age)
      PROVE  PoolSound(Ext)'
  <2>1. Storage' \in StorageType
    BY <1>1, <1>9, PoolAssumption DEF SetMaxMeasurementAge, Storage, StorageType, ledger, money
  <2>2. QED
    BY <1>9, <2>1, LedgerUntouchedSound DEF PoolSound, SetMaxMeasurementAge, money
<1>10. ASSUME NEW c \in Account, NEW n \in Account \cup {NoAddr}, TransferOwnership(c, n)
       PROVE  PoolSound(Ext)'
  <2>1. Storage' \in StorageType
    BY <1>1, <1>10 DEF TransferOwnership, Storage, StorageType, ledger, money
  <2>2. QED
    BY <1>10, <2>1, LedgerUntouchedSound DEF PoolSound, TransferOwnership, money
<1>11. QED
  BY <1>3, <1>4, <1>5, <1>6, <1>7, <1>8, <1>9, <1>10 DEF PoolStep

\* A stuttering step of the pool.
LEMMA PoolStutter ==
  ASSUME NEW Ext, PoolSound(Ext), UNCHANGED poolVars
  PROVE  PoolSound(Ext)'
BY DEF PoolSound, Sound, Storage, poolVars

\* A freshly deployed pool is sound: nothing settled, accrued, paid or called.
LEMMA PoolInitSound ==
  ASSUME NEW Ext, PoolInit
  PROVE  PoolSound(Ext)
<1>1. Storage \in StorageType
  BY PoolAssumption DEF PoolInit, Storage, StorageType
<1>2. Balanced(Storage) /\ OneEventPerRoot(Storage)
  BY DEF PoolInit, Balanced, OneEventPerRoot, Storage
<1>3. /\ frames \in Seq([before : StorageType, ext : Ext])
      /\ \A i \in 1 .. Len(frames) : Sound(frames[i].before)
  BY EmptySeq DEF PoolInit
<1>4. QED
  BY <1>1, <1>2, <1>3 DEF PoolSound, Sound
---------------------------------------------------------------------------
(* What a transaction in progress can take back: nothing that was there    *)
(* before it began.                                                        *)

\* Storage t keeps the credits and the payments of storage s.
NoLess(s, t) ==
  /\ s.verified \subseteq t.verified
  /\ \A a \in Account : s.paid[a] <= t.paid[a]

\* Each saved storage has no more than those saved later, and than the present.
Layered ==
  /\ \A i \in 1 .. Len(frames) : NoLess(frames[i].before, Storage)
  /\ \A i, j \in 1 .. Len(frames) :
       i <= j => NoLess(frames[i].before, frames[j].before)

LEMMA NoLessTransitive ==
  ASSUME NEW s \in StorageType, NEW t \in StorageType, NEW u \in StorageType,
         NoLess(s, t), NoLess(t, u)
  PROVE  NoLess(s, u)
<1>1. ASSUME NEW a \in Account PROVE s.paid[a] <= u.paid[a]
  <2>1. s.paid[a] \in Nat /\ t.paid[a] \in Nat /\ u.paid[a] \in Nat
    BY DEF StorageType
  <2> QED
    BY <2>1 DEF NoLess
<1> QED
  BY <1>1 DEF NoLess

LEMMA NoLessSame ==
  ASSUME NEW s \in StorageType, NEW t \in StorageType,
         s.verified \subseteq t.verified, s.paid = t.paid
  PROVE  NoLess(s, t)
<1>1. \A a \in Account : s.paid[a] \in Nat
  BY DEF StorageType
<1> QED
  BY <1>1 DEF NoLess

\* The facts about frames that the next lemmas use.
LEMMA FramesTyped ==
  ASSUME NEW Ext, PoolSound(Ext)
  PROVE  /\ Len(frames) \in Nat /\ (frames = <<>> <=> Len(frames) = 0)
         /\ Storage \in StorageType
         /\ \A i \in 1 .. Len(frames) : frames[i].before \in StorageType
BY LenProperties, EmptySeq DEF PoolSound, Sound

\* A step that calls nobody and takes nothing back.
LEMMA GrowthLayered ==
  ASSUME NEW Ext, PoolSound(Ext), PoolSound(Ext)', Layered, frames' = frames,
         NoLess(Storage, Storage')
  PROVE  Layered' /\ NoLess(Committed, Committed')
<1>1. Storage' \in StorageType
  BY DEF PoolSound, Sound
<1>2. \A i \in 1 .. Len(frames) : NoLess(frames[i].before, Storage')
  BY <1>1, FramesTyped, NoLessTransitive DEF Layered
<1>3. Layered'
  BY <1>2 DEF Layered
<1>4. NoLess(Committed, Committed')
  <2>1. CASE frames = <<>>
    BY <2>1 DEF Committed
  <2>2. CASE frames # <<>>
    <3>1. frames[1].before \in StorageType
      BY <2>2, FramesTyped
    <3>2. NoLess(frames[1].before, frames[1].before)
      BY <3>1, NoLessSame
    <3> QED
      BY <2>2, <3>2 DEF Committed
  <2> QED
    BY <2>1, <2>2
<1> QED
  BY <1>3, <1>4

\* A step that calls out, saving the storage of before the step.
LEMMA CallLayered ==
  ASSUME NEW Ext, PoolSound(Ext), PoolSound(Ext)', Layered, NEW ext \in Ext,
         CallOut(ext), NoLess(Storage, Storage')
  PROVE  Layered' /\ NoLess(Committed, Committed')
<1> DEFINE F == [before : StorageType, ext : Ext]
           top == [before |-> Storage, ext |-> ext]
           n == Len(frames)
<1>1. /\ n \in Nat /\ (frames = <<>> <=> n = 0)
      /\ Storage \in StorageType /\ Storage' \in StorageType
      /\ \A i \in 1 .. n : frames[i].before \in StorageType
  BY FramesTyped DEF PoolSound, Sound
<1>2. frames \in Seq(F) /\ top \in F /\ frames' = Append(frames, top)
  BY <1>1 DEF PoolSound, CallOut
<1>3. /\ Len(frames') = n + 1
      /\ \A i \in 1 .. n : frames'[i] = frames[i]
      /\ frames'[n + 1] = top
  BY <1>2, AppendProperties
<1>4. frames'[n + 1].before = Storage
  BY <1>3
<1> HIDE DEF top, F
<1>5. NoLess(Storage, Storage)
  BY <1>1, NoLessSame
<1>6. ASSUME NEW i \in 1 .. n + 1
      PROVE  /\ NoLess(frames'[i].before, Storage) /\ NoLess(frames'[i].before, Storage')
             /\ i # n + 1 => i \in 1 .. n
  <2>1. CASE i = n + 1
    BY <1>1, <1>4, <1>5, <2>1
  <2>2. CASE i # n + 1
    <3>1. i \in 1 .. n
      BY <1>1, <2>2
    <3>2. NoLess(frames[i].before, Storage)
      BY <3>1 DEF Layered
    <3> QED
      BY <1>1, <1>3, <3>1, <3>2, NoLessTransitive
  <2> QED
    BY <2>1, <2>2
<1>7. ASSUME NEW i \in 1 .. n + 1, NEW j \in 1 .. n + 1, i <= j
      PROVE  NoLess(frames'[i].before, frames'[j].before)
  <2>1. CASE j = n + 1
    BY <1>4, <1>6, <2>1
  <2>2. CASE j # n + 1
    <3>1. i \in 1 .. n /\ j \in 1 .. n
      BY <1>1, <1>7, <2>2
    <3> QED
      BY <1>3, <1>7, <3>1 DEF Layered
  <2> QED
    BY <2>1, <2>2
<1>8. Layered'
  BY <1>3, <1>6, <1>7 DEF Layered
<1>9. Committed' = Committed
  <2>1. CASE n = 0
    <3>1. frames' # <<>> /\ frames'[1].before = Storage
      BY <1>2, <1>4, <2>1, AppendProperties, <1>3
    <3> QED
      BY <1>1, <2>1, <3>1 DEF Committed
  <2>2. CASE n # 0
    <3>1. 1 \in 1 .. n
      BY <1>1, <2>2
    <3>2. frames'[1] = frames[1] /\ frames' # <<>>
      BY <1>2, <1>3, <3>1, AppendProperties
    <3> QED
      BY <1>1, <2>2, <3>2 DEF Committed
  <2> QED
    BY <2>1, <2>2
<1>10. Committed \in StorageType
  <2>1. CASE n = 0
    BY <1>1, <2>1 DEF Committed
  <2>2. CASE n # 0
    <3>1. 1 \in 1 .. n
      BY <1>1, <2>2
    <3> QED
      BY <1>1, <2>2, <3>1 DEF Committed
  <2> QED
    BY <2>1, <2>2
<1>11. NoLess(Committed, Committed)
  BY <1>10, NoLessSame
<1> QED
  BY <1>8, <1>9, <1>11

\* A call that ends: the storage is the present one, or the one saved last.
LEMMA ReturnLayered ==
  ASSUME NEW Ext, PoolSound(Ext), Layered, frames # <<>>,
         frames' = SubSeq(frames, 1, Len(frames) - 1),
         \/ Storage'.verified = Storage.verified /\ Storage'.paid = Storage.paid
         \/ /\ Storage'.verified = frames[Len(frames)].before.verified
            /\ Storage'.paid = frames[Len(frames)].before.paid
  PROVE  Layered' /\ NoLess(Committed, Committed')
<1> DEFINE n == Len(frames)
<1>1. /\ n \in Nat \ {0}
      /\ Storage \in StorageType
      /\ \A i \in 1 .. n : frames[i].before \in StorageType
  BY FramesTyped
<1>2. /\ Len(frames') = n - 1
      /\ \A i \in 1 .. n - 1 : frames'[i] = frames[i]
      /\ frames' = <<>> <=> n = 1
  <2>1. frames \in Seq([before : StorageType, ext : Ext])
    BY DEF PoolSound
  <2>2. /\ Len(frames') = n - 1
        /\ \A i \in 1 .. n - 1 : frames'[i] = frames[i]
        /\ frames' \in Seq([before : StorageType, ext : Ext])
    BY <2>1, DropLast
  <2>3. frames' = <<>> <=> Len(frames') = 0
    BY <2>2, EmptySeq
  <2> QED
    BY <1>1, <2>2, <2>3
<1>3. n \in 1 .. n /\ 1 \in 1 .. n
  BY <1>1
<1>4. ASSUME NEW i \in 1 .. n PROVE NoLess(frames[i].before, Storage')
  <2>1. i <= n
    BY <1>1
  <2>2. NoLess(frames[i].before, Storage) /\ NoLess(frames[i].before, frames[n].before)
    BY <1>3, <2>1 DEF Layered
  <2> QED
    BY <2>2 DEF NoLess
<1>5. \A i \in 1 .. n - 1 : i \in 1 .. n
  BY <1>1
<1>6. Layered'
  BY <1>2, <1>4, <1>5 DEF Layered
<1>7. Committed = frames[1].before
  BY DEF Committed
<1>8. NoLess(Committed, Committed')
  <2>1. CASE n = 1
    BY <1>2, <1>3, <1>4, <1>7, <2>1 DEF Committed
  <2>2. CASE n # 1
    <3>1. \A k \in Nat \ {0} : k # 1 => 1 \in 1 .. k - 1
      OBVIOUS
    <3>2. 1 \in 1 .. n - 1
      BY <1>1, <2>2, <3>1
    <3>3. Committed' = frames[1].before
      BY <1>2, <2>2, <3>2 DEF Committed
    <3>4. NoLess(frames[1].before, frames[1].before)
      BY <1>1, <1>3, NoLessSame
    <3> QED
      BY <1>7, <3>3, <3>4
  <2> QED
    BY <2>1, <2>2
<1> QED
  BY <1>6, <1>8

\* Every step of the pool keeps the layers, and so what was committed.
LEMMA PoolStepLayered ==
  ASSUME NEW Ext, PoolSound(Ext), PoolSound(Ext)', Layered, NEW ext \in Ext, PoolStep(ext)
  PROVE  Layered' /\ NoLess(Committed, Committed')
<1>1. Storage \in StorageType /\ Storage' \in StorageType
  BY DEF PoolSound, Sound
<1>2. ASSUME UNCHANGED <<verified, paid>> PROVE NoLess(Storage, Storage')
  BY <1>1, <1>2, NoLessSame DEF Storage
<1>3. ASSUME NEW a \in Account, Claim(a, ext)
      PROVE  Layered' /\ NoLess(Committed, Committed')
  <2>1. rewards \in [Account -> Nat] /\ paid \in [Account -> Nat]
    BY <1>1 DEF Storage, StorageType
  <2>2. \A b \in Account : paid[b] <= paid'[b]
    BY <1>3, <2>1 DEF Claim
  <2>3. NoLess(Storage, Storage')
    BY <1>3, <2>2 DEF Claim, NoLess, Storage
  <2> QED
    BY <1>3, <2>3, CallLayered DEF Claim
<1>4. ASSUME NEW c \in Account, NEW amount \in FundChoices, Withdraw(c, amount, ext)
      PROVE  Layered' /\ NoLess(Committed, Committed')
  BY <1>2, <1>4, CallLayered DEF Withdraw, ledger
<1>5. CASE TransferSucceeds
  <2>1. Storage'.verified = Storage.verified /\ Storage'.paid = Storage.paid
    BY <1>5 DEF TransferSucceeds, ledger, money, Storage
  <2> QED
    BY <1>5, <2>1, ReturnLayered DEF TransferSucceeds
<1>6. ASSUME UNCHANGED <<verified, paid, frames>>
      PROVE  Layered' /\ NoLess(Committed, Committed')
  BY <1>2, <1>6, GrowthLayered
<1> QED
  BY <1>3, <1>4, <1>5, <1>6
     DEF PoolStep, Receive, SetSourceRegistry, SetRewardAmount, SetMaxMeasurementAge,
         TransferOwnership, ledger, money

LEMMA TransferFailsLayered ==
  ASSUME NEW Ext, PoolSound(Ext), Layered, TransferFails
  PROVE  Layered' /\ NoLess(Committed, Committed')
<1>1. /\ Storage'.verified = frames[Len(frames)].before.verified
      /\ Storage'.paid = frames[Len(frames)].before.paid
  BY DEF TransferFails, Storage
<1> QED
  BY <1>1, ReturnLayered DEF TransferFails

LEMMA SettleLogsLayered ==
  ASSUME NEW Ext, PoolSound(Ext), PoolSound(Ext)', Layered, NEW L, SettleLogs(L)
  PROVE  Layered' /\ NoLess(Committed, Committed')
<1>1. Storage \in StorageType /\ Storage' \in StorageType
  BY DEF PoolSound, Sound
<1>2. NoLess(Storage, Storage')
  BY <1>1, NoLessSame DEF SettleLogs, money, Storage
<1> QED
  BY <1>2, GrowthLayered DEF SettleLogs

LEMMA StutterLayered ==
  ASSUME NEW Ext, PoolSound(Ext), PoolSound(Ext)', Layered, UNCHANGED poolVars
  PROVE  Layered' /\ NoLess(Committed, Committed')
<1>1. Storage \in StorageType /\ Storage' \in StorageType
  BY DEF PoolSound, Sound
<1>2. NoLess(Storage, Storage')
  BY <1>1, NoLessSame DEF poolVars, Storage
<1> QED
  BY <1>2, GrowthLayered DEF poolVars

LEMMA InitLayered ==
  ASSUME PoolInit
  PROVE  Layered
BY EmptySeq DEF PoolInit, Layered
---------------------------------------------------------------------------
(* What was accrued is the sum of the events, counted wei by wei.          *)

Wei(C, a) == UNION {{e} \X (1 .. e.reward) : e \in {c \in C : c.contributor = a}}

\* The total of each contributor is what its events promise.
Itemised(s) ==
  \A a \in Account : /\ IsFiniteSet(Wei(s.verified, a))
                     /\ s.accrued[a] = Cardinality(Wei(s.verified, a))

\* It is now, and would be in every storage a failed transfer restores.
PoolItemised ==
  /\ Itemised(Storage)
  /\ \A i \in 1 .. Len(frames) : Itemised(frames[i].before)

\* The events of two sets without an event in common promise the sum of what
\* the sets promise.
LEMMA WeiUnion ==
  ASSUME NEW C, NEW D, C \cap D = {}, NEW a,
         IsFiniteSet(Wei(C, a)), IsFiniteSet(Wei(D, a))
  PROVE  /\ IsFiniteSet(Wei(C \cup D, a))
         /\ Cardinality(Wei(C \cup D, a)) = Cardinality(Wei(C, a)) + Cardinality(Wei(D, a))
<1>1. Wei(C \cup D, a) = Wei(C, a) \cup Wei(D, a)
  BY DEF Wei
<1>2. Wei(C, a) \cap Wei(D, a) = {}
  <2>1. \A w \in Wei(C, a) : w[1] \in C
    BY DEF Wei
  <2>2. \A w \in Wei(D, a) : w[1] \in D
    BY DEF Wei
  <2> QED
    BY <2>1, <2>2
<1>3. /\ Cardinality(Wei(C, a)) \in Nat /\ Cardinality(Wei(D, a)) \in Nat
  BY FS_CardinalityType
<1>4. \A m, n \in Nat : m + n - 0 = m + n
  OBVIOUS
<1>5. /\ IsFiniteSet(Wei(C, a) \cup Wei(D, a))
      /\ Cardinality(Wei(C, a) \cup Wei(D, a))
           = Cardinality(Wei(C, a)) + Cardinality(Wei(D, a)) - Cardinality(Wei(C, a) \cap Wei(D, a))
  BY FS_Union
<1>6. Cardinality(Wei(C, a) \cap Wei(D, a)) = 0
  BY <1>2, FS_EmptySet
<1> QED
  BY <1>1, <1>3, <1>4, <1>5, <1>6

\* Events of one reward promise a contributor that reward once per event.
LEMMA WeiOfOneReward ==
  ASSUME NEW C, NEW a, NEW r \in Nat, \A e \in C : e.reward = r,
         IsFiniteSet({c \in C : c.contributor = a})
  PROVE  /\ IsFiniteSet(Wei(C, a))
         /\ Cardinality(Wei(C, a)) = r * Cardinality({c \in C : c.contributor = a})
<1> DEFINE Of == {c \in C : c.contributor = a}
<1>1. Wei(C, a) = Of \X (1 .. r)
  BY DEF Wei
<1>2. IsFiniteSet(1 .. r) /\ Cardinality(1 .. r) = r
  BY FS_Interval
<1>3. Cardinality(Of) \in Nat
  BY FS_CardinalityType
<1> HIDE DEF Of
<1>4. Cardinality(Of) * r = r * Cardinality(Of)
  BY <1>3
<1>5. IsFiniteSet(Of)
  BY DEF Of
<1>6. IsFiniteSet(Of \X (1 .. r)) /\ Cardinality(Of \X (1 .. r)) = Cardinality(Of) * r
  BY <1>2, <1>5, FS_Product
<1> QED
  BY <1>1, <1>4, <1>6 DEF Of

\* The events a settlement emits promise each contributor its credit.
LEMMA WeiOfLogs ==
  ASSUME NEW L, IsFiniteSet(L), rewardAmount \in Nat, NEW a,
         \A k, l \in L : k.root = l.root => k = l
  PROVE  LET New == {[root |-> l.root, contributor |-> l.contributor,
                      reward |-> rewardAmount] : l \in L}
         IN  IsFiniteSet(Wei(New, a)) /\ Cardinality(Wei(New, a)) = Credit(L, a)
<1> DEFINE Emit(l) == [root |-> l.root, contributor |-> l.contributor, reward |-> rewardAmount]
           New == {Emit(l) : l \in L}
           From == {l \in L : l.contributor = a}
           Of == {e \in New : e.contributor = a}
           f == [l \in From |-> Emit(l)]
<1>1. IsFiniteSet(From)
  BY FS_Subset
<1>2. f \in Bijection(From, Of)
  <2>1. \A l \in From : f[l] \in Of /\ f[l].root = l.root
    OBVIOUS
  <2>2. f \in [From -> Of]
    BY <2>1
  <2>3. \A k, l \in From : f[k] = f[l] => k = l
    <3> TAKE k, l \in From
    <3> HAVE f[k] = f[l]
    <3>1. k.root = l.root
      BY <2>1
    <3> QED
      BY <3>1
  <2>4. \A e \in Of : \E l \in From : f[l] = e
    OBVIOUS
  <2> HIDE DEF f, From, Of
  <2> QED
    BY <2>2, <2>3, <2>4 DEF Bijection, Injection, IsInjective, Surjection
<1>3. IsFiniteSet(Of) /\ Cardinality(Of) = Cardinality(From)
  <2> HIDE DEF f, From, Of
  <2> QED
    BY <1>1, <1>2, FS_Bijection DEF ExistsBijection
<1>4. \A e \in New : e.reward = rewardAmount
  OBVIOUS
<1>5. IsFiniteSet(Wei(New, a)) /\ Cardinality(Wei(New, a)) = rewardAmount * Cardinality(Of)
  <2> HIDE DEF New
  <2> QED
    BY <1>3, <1>4, WeiOfOneReward
<1> QED
  BY <1>3, <1>5 DEF Credit

LEMMA SettleLogsItemised ==
  ASSUME NEW E, PoolSound(E), PoolItemised, NEW L \in SUBSET Log, IsFiniteSet(L),
         \A l \in L : l.root \notin settled,
         \A k, l \in L : k.root = l.root => k = l,
         SettleLogs(L)
  PROVE  PoolItemised'
<1> DEFINE New == {[root |-> l.root, contributor |-> l.contributor,
                    reward |-> rewardAmount] : l \in L}
<1>1. rewardAmount \in Nat /\ settled = {e.root : e \in verified}
  BY DEF PoolSound, Sound, Storage, StorageType, OneEventPerRoot
<1>2. /\ verified' = verified \cup New /\ frames' = frames
      /\ accrued' = [a \in Account |-> accrued[a] + Credit(L, a)]
  BY DEF SettleLogs
<1>3. verified \cap New = {}
  BY <1>1
<1>4. \A a : IsFiniteSet(Wei(New, a)) /\ Cardinality(Wei(New, a)) = Credit(L, a)
  BY <1>1, WeiOfLogs
<1> HIDE DEF New
<1>5. ASSUME NEW a \in Account
      PROVE  /\ IsFiniteSet(Wei(verified', a))
             /\ accrued'[a] = Cardinality(Wei(verified', a))
  <2>1. IsFiniteSet(Wei(verified, a)) /\ accrued[a] = Cardinality(Wei(verified, a))
    BY DEF PoolItemised, Itemised, Storage
  <2> QED
    BY <1>2, <1>3, <1>4, <2>1, WeiUnion
<1>6. Itemised(Storage')
  BY <1>5 DEF Itemised, Storage
<1> QED
  BY <1>2, <1>6 DEF PoolItemised

\* The frames of a call, and those a return leaves, are itemised.
LEMMA CallItemised ==
  ASSUME NEW E, PoolSound(E), PoolItemised, NEW ext \in E, CallOut(ext)
  PROVE  \A i \in 1 .. Len(frames') : Itemised(frames'[i].before)
<1> DEFINE top == [before |-> Storage, ext |-> ext]
<1>1. frames \in Seq([before : StorageType, ext : E]) /\ top \in [before : StorageType, ext : E]
  BY DEF PoolSound, Sound
<1>2. /\ Len(frames') = Len(frames) + 1 /\ Len(frames) \in Nat
      /\ \A i \in 1 .. Len(frames) : frames'[i] = frames[i]
      /\ frames'[Len(frames) + 1] = top
  BY <1>1, AppendProperties, LenProperties DEF CallOut
<1>3. Itemised(top.before)
  BY DEF PoolItemised
<1> HIDE DEF top
<1>4. \A i \in 1 .. Len(frames) + 1 : i = Len(frames) + 1 \/ i \in 1 .. Len(frames)
  BY <1>2
<1> QED
  BY <1>2, <1>3, <1>4 DEF PoolItemised

LEMMA ReturnItemised ==
  ASSUME NEW E, PoolSound(E), PoolItemised, frames # <<>>,
         frames' = SubSeq(frames, 1, Len(frames) - 1)
  PROVE  \A i \in 1 .. Len(frames') : Itemised(frames'[i].before)
<1>1. /\ Len(frames') = Len(frames) - 1 /\ Len(frames) \in Nat
      /\ \A i \in 1 .. Len(frames) - 1 : frames'[i] = frames[i]
  BY DropLast, LenProperties DEF PoolSound
<1>2. \A i \in 1 .. Len(frames) - 1 : i \in 1 .. Len(frames)
  BY <1>1
<1> QED
  BY <1>1, <1>2 DEF PoolItemised

\* No step of the pool changes an event or what accrued.
LEMMA PoolStepItemised ==
  ASSUME NEW E, PoolSound(E), PoolItemised, NEW ext \in E, PoolStep(ext)
  PROVE  PoolItemised'
<1>1. UNCHANGED <<verified, accrued>>
  BY DEF PoolStep, Claim, Withdraw, TransferSucceeds, Receive, ledger,
    SetSourceRegistry, SetRewardAmount, SetMaxMeasurementAge, TransferOwnership
<1>2. Itemised(Storage')
  BY <1>1 DEF PoolItemised, Itemised, Storage
<1>3. \/ CallOut(ext) \/ TransferSucceeds \/ frames' = frames
  BY DEF PoolStep, Claim, Withdraw, Receive, SetSourceRegistry, SetRewardAmount,
    SetMaxMeasurementAge, TransferOwnership
<1>4. \A i \in 1 .. Len(frames') : Itemised(frames'[i].before)
  BY <1>3, CallItemised, ReturnItemised DEF PoolItemised, TransferSucceeds
<1> QED
  BY <1>2, <1>4 DEF PoolItemised

LEMMA TransferFailsItemised ==
  ASSUME NEW E, PoolSound(E), PoolItemised, TransferFails
  PROVE  PoolItemised'
<1> DEFINE before == frames[Len(frames)].before
<1>1. Len(frames) \in Nat \ {0}
  BY EmptySeq DEF PoolSound, TransferFails
<1>2. Len(frames) \in 1 .. Len(frames)
  BY <1>1
<1>3. Itemised(before)
  BY <1>2 DEF PoolItemised
<1>4. Storage'.verified = before.verified /\ Storage'.accrued = before.accrued
  BY DEF TransferFails, Storage
<1>5. Itemised(Storage')
  BY <1>3, <1>4 DEF Itemised
<1> QED
  BY <1>5, ReturnItemised DEF PoolItemised, TransferFails

LEMMA StutterItemised ==
  ASSUME PoolItemised, UNCHANGED poolVars
  PROVE  PoolItemised'
BY DEF PoolItemised, poolVars, Storage

LEMMA InitItemised ==
  ASSUME PoolInit
  PROVE  PoolItemised
<1>1. \A a \in Account : Wei(verified, a) = {}
  BY DEF PoolInit, Wei
<1>2. Itemised(Storage)
  BY <1>1, FS_EmptySet DEF PoolInit, Itemised, Storage
<1> QED
  BY <1>2, EmptySeq DEF PoolInit, PoolItemised

\* What is committed is a storage like any other: sound and itemised.
LEMMA CommittedSound ==
  ASSUME NEW E, PoolSound(E), PoolItemised
  PROVE  Sound(Committed) /\ Itemised(Committed)
<1>1. CASE frames = <<>>
  BY <1>1 DEF Committed, PoolSound, PoolItemised
<1>2. CASE frames # <<>>
  <2>1. Len(frames) \in Nat \ {0}
    BY <1>2, EmptySeq DEF PoolSound
  <2>2. 1 \in 1 .. Len(frames)
    BY <2>1
  <2> QED
    BY <1>2, <2>2 DEF Committed, PoolSound, PoolItemised
<1> QED
  BY <1>1, <1>2

\* From one committed storage to the next is one transaction of RewardLedger.
LEMMA CommittedTransaction ==
  ASSUME Sound(Committed), Sound(Committed'), Itemised(Committed'),
         NoLess(Committed, Committed')
  PROVE  /\ Committed.verified \subseteq Committed'.verified
         /\ \A e, f \in Committed'.verified : e.root = f.root => e = f
         /\ \A a \in Account :
              /\ Committed'.rewards[a] + Committed'.paid[a]
                   = Cardinality(Wei(Committed'.verified, a))
              /\ Committed'.paid[a] >= Committed.paid[a]
<1>1. ASSUME NEW a \in Account
      PROVE  /\ Committed'.rewards[a] + Committed'.paid[a]
                  = Cardinality(Wei(Committed'.verified, a))
             /\ Committed'.paid[a] >= Committed.paid[a]
  <2>1. Committed.paid[a] \in Nat /\ Committed'.paid[a] \in Nat
    BY DEF Sound, StorageType
  <2>2. Committed.paid[a] <= Committed'.paid[a]
    BY DEF NoLess
  <2> QED
    BY <2>1, <2>2 DEF Sound, Balanced, Itemised
<1> QED
  BY <1>1 DEF Sound, OneEventPerRoot, NoLess
============================================================================
