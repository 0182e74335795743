------------------------- MODULE SettlementRoutes -------------------------
(***************************************************************************)
(* The three contracts together: the registry on the source chain, and the *)
(* single-proof and the batch route on Creditcoin, both open to anyone who *)
(* holds a proof.  The batch route may list the single one as a sibling;   *)
(* the single one knows of no other route.  Settings are those of the      *)
(* deployment, and no rewards are claimed here: SignalProofSettlement and  *)
(* SignalProofBatchSettlement cover both.                                  *)
(***************************************************************************)
EXTENDS Naturals, Sequences, FiniteSets, TLC

CONSTANTS
  Contributor, Relayer, Root,
  NoAddr, Nobody, NoRoot, Garbage, Truncated,
  RegistryAddr,   \* address of the registry both routes are bound to
  SingleAddr,     \* address of the single-proof route
  Reward, MaxAge, \* the settings of both routes
  SiblingLists,   \* the sibling lists the batch route may be deployed with
  MaxTime,        \* bound: the last block timestamp considered
  MaxBatch        \* bound: transactions in one batch

\* Who has an account on Creditcoin; the relayer owns both routes.
Account == Contributor \cup {Relayer}

ASSUME RoutesAssumption ==
  /\ NoAddr \notin Account \cup {RegistryAddr, Nobody} /\ Nobody \notin Account
  /\ NoRoot \notin Root
  /\ {Garbage, Truncated} \cap [signer : Account, root : Root, contributor : Account] = {}
  /\ SiblingLists \subseteq Seq({SingleAddr})
  /\ Reward \in Nat /\ MaxAge \in Nat /\ MaxTime \in Nat /\ MaxBatch \in Nat

VARIABLES
  deployment,                                                    \* the settings
  registered, submitted, signatures,                             \* registry
  attested, now,                                                 \* the chains
  sSettled, sRewards, sVerified, sAccrued, processedQueries,     \* single route
  bSettled, bRewards, bVerified, bAccrued                        \* batch route

sourceVars == <<registered, submitted, signatures>>
singleVars == <<sSettled, sRewards, sVerified, sAccrued, processedQueries>>
batchVars  == <<bSettled, bRewards, bVerified, bAccrued>>
chainVars  == <<deployment, sourceVars, attested, now, singleVars, batchVars>>

Zero == [a \in Account |-> 0]

R == INSTANCE SourceBatchRegistry WITH
  Address <- Account, Timestamp <- 0 .. MaxTime,
  relayer <- deployment.relayer, owner <- deployment.relayer

\* A registry call is a source transaction with one log.
TxOf(e) ==
  [ok |-> TRUE,
   logs |-> <<[emitter |-> RegistryAddr, root |-> e.root,
               contributor |-> e.contributor, timestamp |-> e.timestamp]>>]

SourceTx == {TxOf(e) : e \in R!Submission}

S == INSTANCE SignalProofSettlement WITH
  Emitter <- {RegistryAddr}, Registry <- {RegistryAddr},
  RewardChoices <- {Reward}, AgeChoices <- {MaxAge}, FundChoices <- {},
  MaxBalance <- 0, MaxDepth <- 0,
  owner <- deployment.relayer, sourceRegistry <- deployment.registry,
  rewardAmount <- deployment.reward, maxMeasurementAge <- deployment.age,
  settled <- sSettled, rewards <- sRewards,
  balance <- deployment.balance, verified <- sVerified, accrued <- sAccrued, paid <- deployment.paid,
  frames <- <<>>

B == INSTANCE SignalProofBatchSettlement WITH
  Emitter <- {RegistryAddr}, Registry <- {RegistryAddr},
  RewardChoices <- {Reward}, AgeChoices <- {MaxAge}, FundChoices <- {},
  MaxBalance <- 0, MaxDepth <- 0, MAX_SIBLINGS <- 4,
  Sibling <- {SingleAddr}, Unresponsive <- {}, Unreadable <- {},
  owner <- deployment.relayer, sourceRegistry <- deployment.registry,
  rewardAmount <- deployment.reward, maxMeasurementAge <- deployment.age,
  settled <- bSettled, rewards <- bRewards,
  balance <- deployment.balance, verified <- bVerified, accrued <- bAccrued, paid <- deployment.paid,
  frames <- <<>>, siblingSettlements <- deployment.siblings,
  siblingSettled <- [s \in {SingleAddr} |-> sSettled]

\* The deployments considered.
Deployments ==
  [relayer : {Relayer}, registry : {RegistryAddr}, reward : {Reward},
   age : {MaxAge}, balance : {0}, paid : {Zero}, siblings : SiblingLists]

ChainsInit(deployments) ==
  /\ deployment \in deployments
  /\ registered = {} /\ submitted = {} /\ signatures = {}
  /\ attested = {} /\ now = 0
  /\ sSettled = {} /\ sRewards = Zero /\ sVerified = {} /\ sAccrued = Zero
  /\ processedQueries = {}
  /\ bSettled = {} /\ bRewards = Zero /\ bVerified = {} /\ bAccrued = Zero

\* A contributor's wallet signs for a measurement.
Sign(who, root) ==
  /\ UNCHANGED deployment
  /\ R!Sign(who, root)
  /\ UNCHANGED <<attested, now, singleVars, batchVars>>

\* The relayer submits, with any signature it has seen and any timestamp.
Submit(root, contributor, timestamp, sig) ==
  /\ UNCHANGED deployment
  /\ R!SubmitMeasurement(Relayer, root, contributor, timestamp, sig)
  /\ UNCHANGED <<attested, now, singleVars, batchVars>>

\* The block of a registry event is attested on Creditcoin.
Attest(e) ==
  /\ TxOf(e) \notin attested
  /\ attested' = attested \cup {TxOf(e)}
  /\ UNCHANGED <<deployment, sourceVars, now, singleVars, batchVars>>

NextBlock ==
  /\ now < MaxTime
  /\ now' = now + 1
  /\ UNCHANGED <<deployment, sourceVars, attested, singleVars, batchVars>>

\* Anyone calls execute() on the single route.
SettleSingle(tx) ==
  /\ UNCHANGED <<deployment, sourceVars, batchVars>>
  /\ S!Execute(tx)

\* Anyone calls executeBatch() on the batch route.
SettleBatch(txs) ==
  /\ UNCHANGED <<deployment, sourceVars, singleVars>>
  /\ B!ExecuteBatch(txs)

RoutesNext ==
  \/ \E who \in Contributor, root \in Root : Sign(who, root)
  \/ \E root \in Root, contributor \in Contributor, timestamp \in 0 .. MaxTime,
        sig \in signatures \cup {Garbage} : Submit(root, contributor, timestamp, sig)
  \/ \E e \in submitted : Attest(e)
  \/ \E tx \in attested : SettleSingle(tx)
  \/ \E txs \in B!Batches : SettleBatch(txs)
  \/ NextBlock

RoutesSpec == ChainsInit(Deployments) /\ [][RoutesNext]_chainVars

---------------------------------------------------------------------------
(* Properties.                                                             *)

\* From wallet to reward: whatever the relayer submits and whoever settles
\* it on whichever route, a reward is credited only to a contributor whose
\* own signature over that measurement exists.
PaysOnlySigners ==
  \A e \in sVerified \cup bVerified :
    [signer |-> e.contributor, root |-> e.root, contributor |-> e.contributor]
      \in signatures

\* The registry accepts a root once, so the two routes can never pay two
\* different contributors for one measurement.
RoutesAgreeOnPayee ==
  \A e \in sVerified, f \in bVerified : e.root = f.root => e.contributor = f.contributor

\* Settling on the single route closes the batch route, when listed.
SingleClosesBatch ==
  [][deployment.siblings # <<>> => \A r \in sSettled : r \in bSettled' => r \in bSettled]_chainVars

\* "Anyone cannot settle the same root twice", per route and across routes
\* (README.md), where the batch route is told of the single one.
PaidOnceAcrossRoutes ==
  deployment.siblings # <<>> => sSettled \cap bSettled = {}
============================================================================
