---------------------- MODULE SettlementRoutesProofs ----------------------
(***************************************************************************)
(* From wallet to reward, over both routes: for any contributors, roots,   *)
(* batches and sibling lists.  The invariant follows the measurement: what *)
(* is submitted is signed and of one root each, what is attested is        *)
(* submitted, and what is paid for is submitted with that payee.           *)
(***************************************************************************)
EXTENDS SettlementRoutes, SequenceTheorems, TLAPS

SignatureOf(e) == [signer |-> e.contributor, root |-> e.root, contributor |-> e.contributor]

\* A reward goes back to a submission of the same root and contributor.
Backed(v) == \E e \in submitted : e.root = v.root /\ e.contributor = v.contributor

RoutesInv ==
  /\ signatures \subseteq [signer : Contributor, root : Root, contributor : Contributor]
  /\ \A e \in submitted : e.root \in registered /\ SignatureOf(e) \in signatures
  /\ \A e, f \in submitted : e.root = f.root => e = f
  /\ attested \subseteq {TxOf(e) : e \in submitted}
  /\ \A v \in sVerified \cup bVerified : Backed(v)

\* A submission is signed by its contributor, and of a root not submitted yet.
LEMMA SubmitSound ==
  ASSUME RoutesInv, NEW root \in Root, NEW c \in Contributor, NEW t,
         NEW sig \in signatures \cup {Garbage}, Submit(root, c, t, sig)
  PROVE  RoutesInv'
<1> DEFINE e == [root |-> root, contributor |-> c, timestamp |-> t]
<1>1. /\ registered' = registered \cup {root} /\ submitted' = submitted \cup {e}
      /\ UNCHANGED <<signatures, attested, sVerified, bVerified>>
  BY DEF Submit, R!SubmitMeasurement, singleVars, batchVars
<1>2. root \notin registered /\ R!RecoverContributor(root, c, sig) = c
  BY DEF Submit, R!SubmitMeasurement, R!Submittable
<1>3. SignatureOf(e) \in signatures
  <2>1. sig # Garbage
    BY <1>2, RoutesAssumption DEF Account, R!RecoverContributor
  <2>2. sig \in signatures /\ sig \in [signer : Contributor, root : Root, contributor : Contributor]
    BY <2>1 DEF RoutesInv
  <2>3. sig.root = root /\ sig.contributor = c /\ sig.signer = c
    BY <1>2, <2>1, RoutesAssumption DEF Account, R!RecoverContributor
  <2>4. sig = SignatureOf(e)
    BY <2>2, <2>3 DEF SignatureOf
  <2> QED
    BY <2>2, <2>4
<1>4. e.root = root
  OBVIOUS
<1> HIDE DEF e
<1>5. \A x \in submitted : x.root # root
  BY <1>2 DEF RoutesInv
<1>6. \A x \in submitted' : x.root \in registered' /\ SignatureOf(x) \in signatures'
  BY <1>1, <1>3, <1>4 DEF RoutesInv
<1>7. \A x, y \in submitted' : x.root = y.root => x = y
  BY <1>1, <1>4, <1>5 DEF RoutesInv
<1>8. attested' \subseteq {TxOf(x) : x \in submitted'}
  BY <1>1 DEF RoutesInv
<1>9. \A v \in sVerified' \cup bVerified' : Backed(v)'
  BY <1>1 DEF RoutesInv, Backed
<1> QED
  BY <1>1, <1>6, <1>7, <1>8, <1>9 DEF RoutesInv

\* The one log of an attested transaction is a submission's.
LEMMA LogSubmitted ==
  ASSUME RoutesInv, NEW tx \in attested, NEW j \in DOMAIN tx.logs
  PROVE  Backed(tx.logs[j])
<1>1. PICK e \in submitted : tx = TxOf(e)
  BY DEF RoutesInv
<1>2. tx.logs[j].root = e.root /\ tx.logs[j].contributor = e.contributor
  BY <1>1 DEF TxOf
<1> QED
  BY <1>2 DEF Backed

\* Events made of backed logs are backed.
LEMMA EventsBacked ==
  ASSUME NEW L, \A l \in L : Backed(l), NEW reward,
         NEW v \in {[root |-> l.root, contributor |-> l.contributor, reward |-> reward] : l \in L}
  PROVE  Backed(v)
<1>1. PICK l \in L : v.root = l.root /\ v.contributor = l.contributor
  OBVIOUS
<1> QED
  BY <1>1 DEF Backed

LEMMA SettleSingleSound ==
  ASSUME RoutesInv, NEW tx \in attested, SettleSingle(tx)
  PROVE  RoutesInv'
<1>1. /\ sVerified' = sVerified \cup
           {[root |-> l.root, contributor |-> l.contributor, reward |-> deployment.reward]
              : l \in S!Logs(tx)}
      /\ UNCHANGED <<registered, submitted, signatures, bVerified, attested>>
  BY DEF SettleSingle, S!Execute, S!SettleLogs, sourceVars, batchVars
<1>2. \A l \in S!Logs(tx) : Backed(l)
  BY LogSubmitted DEF S!Logs
<1>3. \A v \in sVerified' \cup bVerified' : Backed(v)
  BY <1>1, <1>2, EventsBacked DEF RoutesInv
<1> QED
  BY <1>1, <1>3 DEF RoutesInv, Backed

LEMMA SettleBatchSound ==
  ASSUME RoutesInv, NEW txs, SettleBatch(txs)
  PROVE  RoutesInv'
<1>1. /\ bVerified' = bVerified \cup
           {[root |-> l.root, contributor |-> l.contributor, reward |-> deployment.reward]
              : l \in B!Accepted(txs)}
      /\ UNCHANGED <<registered, submitted, signatures, sVerified, attested>>
  BY DEF SettleBatch, B!ExecuteBatch, B!SettleLogs, sourceVars, singleVars
<1>2. \A i \in DOMAIN txs : txs[i] \in attested
  BY DEF SettleBatch, B!ExecuteBatch, B!Executable
<1>3. ASSUME NEW l \in B!Accepted(txs) PROVE Backed(l)
  <2>1. PICK p \in B!Positions(txs) : l = B!LogAt(txs, p)
    BY DEF B!Accepted
  <2>2. p[1] \in DOMAIN txs /\ p[2] \in DOMAIN txs[p[1]].logs
    BY DEF B!Positions
  <2> QED
    BY <1>2, <2>1, <2>2, LogSubmitted DEF B!LogAt
<1>4. \A v \in sVerified' \cup bVerified' : Backed(v)
  BY <1>1, <1>3, EventsBacked DEF RoutesInv
<1> QED
  BY <1>1, <1>4 DEF RoutesInv, Backed

\* RoutesInv is inductive.
LEMMA InitRoutesInv == ChainsInit(Deployments) => RoutesInv
BY DEF ChainsInit, RoutesInv

LEMMA NextRoutesInv == RoutesInv /\ [RoutesNext]_chainVars => RoutesInv'
<1> SUFFICES ASSUME RoutesInv, [RoutesNext]_chainVars
             PROVE  RoutesInv'
  OBVIOUS
<1>1. ASSUME NEW who \in Contributor, NEW root \in Root, Sign(who, root)
      PROVE  RoutesInv'
  BY <1>1 DEF Sign, R!Sign, singleVars, batchVars, RoutesInv, Backed
<1>2. ASSUME NEW e \in submitted, Attest(e)
      PROVE  RoutesInv'
  BY <1>2 DEF Attest, sourceVars, singleVars, batchVars, RoutesInv, Backed
<1>3. CASE NextBlock
  BY <1>3 DEF NextBlock, sourceVars, singleVars, batchVars, RoutesInv, Backed
<1>4. CASE UNCHANGED chainVars
  BY <1>4 DEF chainVars, sourceVars, singleVars, batchVars, RoutesInv, Backed
<1> QED
  BY <1>1, <1>2, <1>3, <1>4, SubmitSound, SettleSingleSound, SettleBatchSound DEF RoutesNext

LEMMA RoutesInvAlways == RoutesSpec => []RoutesInv
<1> QED
  BY InitRoutesInv, NextRoutesInv, PTL DEF RoutesSpec

\* Whatever the relayer submits and whoever settles it where, a reward goes
\* only to a contributor that signed for that measurement itself.
THEOREM OnlySignersPaid == RoutesSpec => []PaysOnlySigners
<1>1. RoutesInv => PaysOnlySigners
  BY DEF RoutesInv, PaysOnlySigners, Backed, SignatureOf
<1> QED
  BY <1>1, RoutesInvAlways, PTL

\* The two routes never pay two contributors for one measurement.
THEOREM OnePayeePerRoot == RoutesSpec => []RoutesAgreeOnPayee
<1>1. RoutesInv => RoutesAgreeOnPayee
  BY DEF RoutesInv, RoutesAgreeOnPayee, Backed
<1> QED
  BY <1>1, RoutesInvAlways, PTL

\* A batch route that lists the single one never pays for what that has paid.
THEOREM SingleRouteClosesBatch == RoutesSpec => SingleClosesBatch
<1> DEFINE Listed == deployment.siblings \in Seq({SingleAddr})
           Kept == deployment.siblings # <<>> =>
                     \A r \in sSettled : r \in bSettled' => r \in bSettled
<1>1. ChainsInit(Deployments) => Listed
  BY RoutesAssumption DEF ChainsInit, Deployments
<1>2. Listed /\ [RoutesNext]_chainVars => Listed'
  <2>1. [RoutesNext]_chainVars => UNCHANGED deployment
    BY DEF RoutesNext, chainVars, Sign, Submit, Attest, SettleSingle, SettleBatch, NextBlock
  <2> QED
    BY <2>1
<1>3. Listed /\ [RoutesNext]_chainVars => [Kept]_chainVars
  <2> SUFFICES ASSUME Listed, [RoutesNext]_chainVars, deployment.siblings # <<>>,
                      NEW r \in sSettled, r \in bSettled', r \notin bSettled
               PROVE  FALSE
    OBVIOUS
  <2>1. PICK txs : SettleBatch(txs)
    BY DEF RoutesNext, chainVars, batchVars, Sign, Submit, Attest, SettleSingle, NextBlock
  <2>2. PICK l \in B!Accepted(txs) : l.root = r
    BY <2>1 DEF SettleBatch, B!ExecuteBatch, B!SettleLogs
  <2>3. ~B!SettledBySibling(r)
    BY <2>2 DEF B!Accepted, B!Eligible
  <2>4. 1 \in DOMAIN deployment.siblings /\ deployment.siblings[1] = SingleAddr
    BY EmptySeq, LenProperties, ElementOfSeq
  <2> QED
    BY <2>3, <2>4 DEF B!SettledBySibling, B!SaysYes
<1> QED
  BY <1>1, <1>2, <1>3, PTL DEF RoutesSpec, SingleClosesBatch
---------------------------------------------------------------------------
(* What holds of a contract alone holds of it here: the composition takes  *)
(* no step that the contract's own specification does not allow.           *)

\* What each contract's module takes for granted holds of its part.
LEMMA PartsAssumed ==
  /\ R!RegistryAssumption
  /\ S!PoolAssumption /\ S!SourceTxAssumption
  /\ B!PoolAssumption /\ B!BatchAssumption
<1>1. R!RegistryAssumption
  BY RoutesAssumption DEF R!RegistryAssumption, R!Signature
<1>2. S!PoolAssumption /\ B!PoolAssumption
  BY RoutesAssumption DEF S!PoolAssumption, B!PoolAssumption
<1>3. ASSUME NEW tx \in SourceTx
      PROVE  /\ tx.ok \in BOOLEAN
             /\ tx.logs \in Seq([emitter : {RegistryAddr}, root : Root,
                                 contributor : Account, timestamp : Nat])
  <2>1. PICK e \in R!Submission : tx = TxOf(e)
    BY DEF SourceTx
  <2>2. e.root \in Root /\ e.contributor \in Account /\ e.timestamp \in Nat
    BY RoutesAssumption DEF R!Submission
  <2> QED
    BY <2>1, <2>2 DEF TxOf
<1>4. S!SourceTxAssumption /\ B!BatchAssumption
  BY <1>3, RoutesAssumption DEF S!SourceTxAssumption, B!BatchAssumption, S!Log, B!Log
<1> QED
  BY <1>1, <1>2, <1>4

TypeInv == deployment \in Deployments /\ submitted \subseteq R!Submission

LEMMA TypeInvAlways == RoutesSpec => []TypeInv
<1>1. ChainsInit(Deployments) => TypeInv
  BY DEF ChainsInit, TypeInv
<1>2. TypeInv /\ [RoutesNext]_chainVars => TypeInv'
  <2> SUFFICES ASSUME TypeInv, [RoutesNext]_chainVars
               PROVE  TypeInv'
    OBVIOUS
  <2>1. deployment' = deployment
    BY DEF RoutesNext, chainVars, Sign, Submit, Attest, SettleSingle, SettleBatch, NextBlock
  <2>2. ASSUME NEW root \in Root, NEW c \in Contributor, NEW t \in 0 .. MaxTime,
               NEW sig \in signatures \cup {Garbage}, Submit(root, c, t, sig)
        PROVE  submitted' \subseteq R!Submission
    BY <2>2 DEF Submit, R!SubmitMeasurement, R!Submission, TypeInv, Account
  <2>3. ASSUME ~\E root \in Root, c \in Contributor, t \in 0 .. MaxTime,
                    sig \in signatures \cup {Garbage} : Submit(root, c, t, sig)
        PROVE  submitted' \subseteq R!Submission
    <3>1. submitted' = submitted
      BY <2>3 DEF RoutesNext, chainVars, sourceVars, Sign, R!Sign, Attest, SettleSingle,
        SettleBatch, NextBlock
    <3> QED
      BY <3>1 DEF TypeInv, R!Submission
  <2>4. submitted' \subseteq R!Submission
    BY <2>2, <2>3 DEF R!Submission
  <2> QED
    BY <2>1, <2>4 DEF TypeInv, Deployments, R!Submission
<1> QED
  BY <1>1, <1>2, PTL DEF RoutesSpec

\* The registry's part is a behaviour of SourceBatchRegistry, with a relayer
\* that submits what it likes.
THEOREM RegistryAlone == RoutesSpec => R!RegistrySpec
<1>1. ChainsInit(Deployments) => R!RegistryInit
  BY DEF ChainsInit, Deployments, R!RegistryInit, Account
<1>2. TypeInv /\ [RoutesNext]_chainVars => [R!RegistryNext]_R!registryVars
  <2> SUFFICES ASSUME TypeInv, [RoutesNext]_chainVars
               PROVE  [R!RegistryNext]_R!registryVars
    OBVIOUS
  <2>1. ASSUME NEW who \in Contributor, NEW root \in Root, Sign(who, root)
        PROVE  R!RegistryNext
    BY <2>1 DEF Sign, R!RegistryNext, Account
  <2>2. ASSUME NEW root \in Root, NEW c \in Contributor, NEW t \in 0 .. MaxTime,
               NEW sig \in signatures \cup {Garbage}, Submit(root, c, t, sig)
        PROVE  R!RegistryNext
    <3>1. R!SubmitMeasurement(Relayer, root, c, t, sig)
      BY <2>2 DEF Submit
    <3> QED
      BY <3>1 DEF R!RegistryNext, Account
  <2>3. CASE \/ \E e \in submitted : Attest(e)
             \/ \E tx \in attested : SettleSingle(tx)
             \/ \E txs \in B!Batches : SettleBatch(txs)
             \/ NextBlock
             \/ UNCHANGED chainVars
    <3>1. UNCHANGED <<deployment, sourceVars>>
      BY <2>3 DEF Attest, SettleSingle, SettleBatch, NextBlock, chainVars
    <3> QED
      BY <3>1 DEF R!registryVars, sourceVars
  <2> QED
    BY <2>1, <2>2, <2>3 DEF RoutesNext
<1> QED
  BY <1>1, <1>2, TypeInvAlways, PTL DEF RoutesSpec, R!RegistrySpec

\* The single route's part is a behaviour of SignalProofSettlement, whoever
\* calls it and whatever happens on the other route.
THEOREM SingleRouteAlone == RoutesSpec => S!Spec
<1>1. ChainsInit(Deployments) => S!Init
  BY DEF ChainsInit, Deployments, S!Init, S!PoolInit, Account, Zero
<1>2. RoutesInv /\ TypeInv /\ [RoutesNext]_chainVars => [S!Next]_S!vars
  <2> SUFFICES ASSUME RoutesInv, TypeInv, [RoutesNext]_chainVars
               PROVE  [S!Next]_S!vars
    OBVIOUS
  <2>1. ASSUME NEW e \in submitted, Attest(e)
        PROVE  S!Next
    <3>1. TxOf(e) \in SourceTx
      BY DEF SourceTx, TypeInv
    <3>2. S!Attest(TxOf(e))
      BY <2>1 DEF Attest, S!Attest, S!poolVars, singleVars
    <3> QED
      BY <3>1, <3>2 DEF S!Next
  <2>2. ASSUME NEW tx \in attested, SettleSingle(tx)
        PROVE  S!Next
    <3>1. tx \in SourceTx
      BY DEF SourceTx, TypeInv, RoutesInv
    <3> QED
      BY <2>2, <3>1 DEF SettleSingle, S!Next
  <2>3. CASE NextBlock
    <3>1. S!Tick
      BY <2>3 DEF NextBlock, S!Tick, S!poolVars, singleVars
    <3> QED
      BY <3>1 DEF S!Next
  <2>4. CASE \/ \E who \in Contributor, root \in Root : Sign(who, root)
             \/ \E root \in Root, c \in Contributor, t \in 0 .. MaxTime,
                   sig \in signatures \cup {Garbage} : Submit(root, c, t, sig)
             \/ \E txs \in B!Batches : SettleBatch(txs)
             \/ UNCHANGED chainVars
    <3>1. UNCHANGED <<deployment, attested, now, singleVars>>
      BY <2>4 DEF Sign, Submit, SettleBatch, B!ExecuteBatch, chainVars
    <3> QED
      BY <3>1 DEF S!vars, S!poolVars, singleVars
  <2> QED
    BY <2>1, <2>2, <2>3, <2>4 DEF RoutesNext
<1> QED
  BY <1>1, <1>2, TypeInvAlways, RoutesInvAlways, PTL DEF RoutesSpec, S!Spec

\* The batch route's part takes steps of SignalProofBatchSettlement only, the
\* single route being the sibling that settles in between.
THEOREM BatchRouteAlone == RoutesSpec => [][B!Next]_(B!vars)
<1>1. RoutesInv /\ TypeInv /\ [RoutesNext]_chainVars => [B!Next]_(B!vars)
  <2> SUFFICES ASSUME RoutesInv, TypeInv, [RoutesNext]_chainVars
               PROVE  [B!Next]_(B!vars)
    OBVIOUS
  <2>1. ASSUME NEW e \in submitted, Attest(e)
        PROVE  B!Next
    <3>1. TxOf(e) \in SourceTx
      BY DEF SourceTx, TypeInv
    <3>2. B!Attest(TxOf(e))
      BY <2>1 DEF Attest, B!Attest, B!poolVars, singleVars, batchVars
    <3> QED
      BY <3>1, <3>2 DEF B!Next
  <2>2. ASSUME NEW tx \in attested, SettleSingle(tx)
        PROVE  B!Next
    <3>1. PICK e \in submitted : tx = TxOf(e)
      BY DEF RoutesInv
    <3>2. S!Logs(tx) = {tx.logs[1]} /\ tx.logs[1].root = e.root /\ DOMAIN tx.logs = 1 .. 1
      BY <3>1 DEF TxOf, S!Logs
    <3>3. sSettled' = sSettled \cup {e.root} /\ e.root \notin sSettled
      BY <2>2, <3>2 DEF SettleSingle, S!Execute, S!Executable, S!Processable, S!AllSettleable,
        S!SettleLogs
    <3>4. e.root \in Root
      BY DEF TypeInv, R!Submission
    <3>5. UNCHANGED <<deployment, attested, now, batchVars>>
      BY <2>2 DEF SettleSingle, S!Execute
    <3>6. B!SiblingSettles(SingleAddr, e.root)
      BY <3>3, <3>5 DEF B!SiblingSettles, B!poolVars, batchVars
    <3> QED
      BY <3>4, <3>6 DEF B!Next, B!Answering
  <2>3. CASE NextBlock
    <3>1. B!Tick
      BY <2>3 DEF NextBlock, B!Tick, B!poolVars, singleVars, batchVars
    <3> QED
      BY <3>1 DEF B!Next
  <2>4. ASSUME NEW txs \in B!Batches, SettleBatch(txs)
        PROVE  B!Next
    BY <2>4 DEF SettleBatch, B!Next
  <2>5. CASE \/ \E who \in Contributor, root \in Root : Sign(who, root)
             \/ \E root \in Root, c \in Contributor, t \in 0 .. MaxTime,
                   sig \in signatures \cup {Garbage} : Submit(root, c, t, sig)
             \/ UNCHANGED chainVars
    <3>1. UNCHANGED <<deployment, attested, now, singleVars, batchVars>>
      BY <2>5 DEF Sign, Submit, chainVars
    <3> QED
      BY <3>1 DEF B!vars, B!poolVars, singleVars, batchVars
  <2> QED
    BY <2>1, <2>2, <2>3, <2>4, <2>5 DEF RoutesNext
<1> QED
  BY <1>1, TypeInvAlways, RoutesInvAlways, PTL DEF RoutesSpec
============================================================================
