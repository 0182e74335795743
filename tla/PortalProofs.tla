---------------------------- MODULE PortalProofs ----------------------------
(***************************************************************************)
(* What a buyer and a contributor are served is true, for any number of    *)
(* measurements, accounts and payments, whatever part of the logs a scan   *)
(* loses, and time without a bound.  Three invariants:                     *)
(*                                                                         *)
(* SnapshotInv: a snapshot is the join of some submissions and some        *)
(* settlements, and its two totals are the sizes of sets that a lossy scan *)
(* can only make smaller: equal totals then mean equal sets.  Where every  *)
(* deploy block is recorded all scans begin where the one served did, and  *)
(* a later one reaches all that an earlier one did.                        *)
(*                                                                         *)
(* BuyInv: a key is judged once and kept, so what it was judged by must    *)
(* not change: a payment that is in a block stays as it is.                *)
(*                                                                         *)
(* ExportInv: what the page saved was served while a key was stored.       *)
(***************************************************************************)
EXTENDS Portal, FiniteSetTheorems, TLAPS

Submissions == [registry : Registry, root : Root]
AllSettlements == [route : Route, root : Root]

Settles(V, root) == \E v \in V : v.root = root

\* The row of one submission.
RowOf(l, V) == [registry |-> l.registry, root |-> l.root, paidBy |-> PaidBy(l.root, V)]

\* The submissions in S that V settles.
SettledOf(S, V) == {l \in S : Settles(V, l.root)}

SnapshotInv ==
  /\ deployment \in Deployments
  /\ head \in Nat /\ asked \in Nat /\ asked <= head
  /\ Recorded => scannedFrom = ScanStart(0)
  /\ submitted \subseteq Submissions /\ IsFiniteSet(submitted)
  /\ verified \subseteq AllSettlements
  /\ cache = NoSnapshot \/
       \E S \in SUBSET submitted, V \in SUBSET verified : cache = Join(S, V)

\* A row names a route that did settle, and "nobody" when none did.
LEMMA PaidByNames ==
  ASSUME NEW V \in SUBSET AllSettlements, NEW root
  PROVE  /\ Settles(V, root) => \E v \in V : v.root = root /\ v.route = PaidBy(root, V)
         /\ PaidBy(root, V) # "nobody" <=> Settles(V, root)
<1> DEFINE routes == {v.route : v \in {w \in V : w.root = root}}
<1>1. routes \subseteq Route /\ "nobody" \notin Route
  BY DEF AllSettlements, Route
<1>2. routes = {} <=> ~Settles(V, root)
  BY DEF Settles
<1>3. PaidBy(root, V) = IF routes = {} THEN "nobody"
        ELSE CHOOSE r \in routes : \A s \in routes : RouteOrder[s] <= RouteOrder[r]
  BY DEF PaidBy
<1>4. ASSUME routes # {}
      PROVE  \E r \in routes : \A s \in routes : RouteOrder[s] <= RouteOrder[r]
  <2>1. RouteOrder["single"] = 1 /\ RouteOrder["batch"] = 2 /\ RouteOrder["retired"] = 3
    BY DEF RouteOrder
  <2> HIDE DEF routes
  <2>2. CASE "retired" \in routes
    BY <1>1, <2>1, <2>2 DEF Route
  <2>3. CASE "retired" \notin routes /\ "batch" \in routes
    BY <1>1, <2>1, <2>3 DEF Route
  <2>4. CASE "retired" \notin routes /\ "batch" \notin routes
    <3>1. PICK r \in routes : TRUE
      BY <1>4
    <3>2. \A s \in routes : s = "single"
      BY <1>1, <2>4 DEF Route
    <3> QED
      BY <2>1, <3>1, <3>2
  <2> QED
    BY <2>2, <2>3, <2>4
<1>5. Settles(V, root) => PaidBy(root, V) \in routes
  <2> HIDE DEF routes
  <2> QED
    BY <1>2, <1>3, <1>4
<1>6. Settles(V, root) => \E v \in V : v.root = root /\ v.route = PaidBy(root, V)
  BY <1>5
<1>7. ~Settles(V, root) => PaidBy(root, V) = "nobody"
  BY <1>2, <1>3
<1> QED
  BY <1>1, <1>5, <1>6, <1>7

\* Both totals of a snapshot count submissions.
LEMMA JoinCounts ==
  ASSUME NEW S \in SUBSET Submissions, IsFiniteSet(S), NEW V \in SUBSET AllSettlements
  PROVE  /\ Cardinality(Join(S, V)) = Cardinality(S)
         /\ Cardinality(Paid(Join(S, V))) = Cardinality(SettledOf(S, V))
<1>1. Join(S, V) = {RowOf(l, V) : l \in S}
  BY DEF Join, RowOf
<1>2. \A k, l \in S : RowOf(k, V) = RowOf(l, V) => k = l
  BY DEF RowOf, Submissions
<1>3. \A l \in S : RowOf(l, V).paidBy # "nobody" <=> l \in SettledOf(S, V)
  BY PaidByNames DEF RowOf, SettledOf
<1>4. Paid(Join(S, V)) = {RowOf(l, V) : l \in SettledOf(S, V)}
  BY <1>1, <1>3 DEF Paid, SettledOf
<1>5. ASSUME NEW T \in SUBSET S
      PROVE  Cardinality({RowOf(l, V) : l \in T}) = Cardinality(T)
  <2> DEFINE f == [l \in T |-> RowOf(l, V)]
  <2>1. \A l \in T : f[l] = RowOf(l, V)
    OBVIOUS
  <2>2. f \in [T -> {RowOf(l, V) : l \in T}]
    OBVIOUS
  <2> HIDE DEF f
  <2>3. f \in Injection(T, {RowOf(l, V) : l \in T})
    BY <1>2, <2>1, <2>2 DEF Injection, IsInjective
  <2>4. f \in Surjection(T, {RowOf(l, V) : l \in T})
    BY <2>1, <2>2 DEF Surjection
  <2>5. f \in Bijection(T, {RowOf(l, V) : l \in T})
    BY <2>3, <2>4 DEF Bijection
  <2>6. IsFiniteSet(T)
    BY FS_Subset
  <2> QED
    BY <2>5, <2>6, FS_Bijection DEF ExistsBijection
<1>6. SettledOf(S, V) \in SUBSET S
  BY DEF SettledOf
<1> QED
  BY <1>1, <1>4, <1>5, <1>6

\* Two snapshots tell the same of every measurement exactly when they show the
\* same submissions and the same of these as settled.
LEMMA StandingOfJoin ==
  ASSUME NEW S \in SUBSET Submissions, NEW V \in SUBSET AllSettlements
  PROVE  Standing(Join(S, V)) =
           {[registry |-> l.registry, root |-> l.root, paid |-> l \in SettledOf(S, V)] : l \in S}
<1>1. Join(S, V) = {RowOf(l, V) : l \in S}
  BY DEF Join, RowOf
<1>2. \A l \in S : /\ RowOf(l, V).registry = l.registry /\ RowOf(l, V).root = l.root
                   /\ (RowOf(l, V).paidBy # "nobody") = (l \in SettledOf(S, V))
  BY PaidByNames DEF RowOf, SettledOf
<1>3. Standing(Join(S, V)) =
        {[registry |-> RowOf(l, V).registry, root |-> RowOf(l, V).root,
          paid |-> RowOf(l, V).paidBy # "nobody"] : l \in S}
  BY <1>1 DEF Standing
<1> QED
  BY <1>2, <1>3

LEMMA SameStanding ==
  ASSUME NEW S \in SUBSET Submissions, NEW V \in SUBSET AllSettlements,
         NEW T \in SUBSET Submissions, NEW W \in SUBSET AllSettlements,
         Standing(Join(S, V)) = Standing(Join(T, W))
  PROVE  S = T /\ SettledOf(S, V) = SettledOf(T, W)
<1> DEFINE A(l) == [registry |-> l.registry, root |-> l.root, paid |-> l \in SettledOf(S, V)]
           B(l) == [registry |-> l.registry, root |-> l.root, paid |-> l \in SettledOf(T, W)]
<1>1. {A(l) : l \in S} = {B(l) : l \in T}
  BY StandingOfJoin
<1>2. \A k, l \in Submissions : A(k) = B(l) =>
        k = l /\ (k \in SettledOf(S, V) <=> l \in SettledOf(T, W))
  BY DEF Submissions
<1> HIDE DEF A, B
<1>3. \A k \in S : \E l \in T : A(k) = B(l)
  BY <1>1
<1>4. \A l \in T : \E k \in S : A(k) = B(l)
  BY <1>1
<1> QED
  BY <1>2, <1>3, <1>4 DEF SettledOf

\* Where every deploy block is recorded a scan begins there, at any height.
LEMMA StartRecorded ==
  ASSUME Recorded, NEW contract \in Registry \cup Route, NEW g, NEW h
  PROVE  /\ contract # "retired" => Start(contract, g) = Start(contract, h)
         /\ RouteStart(contract, g) = RouteStart(contract, h)
         /\ ScanStart(g) = ScanStart(h)
BY DEF Recorded, Registry, Route, Start, RouteStart, ScanStart

\* What a scan at some height reaches, a later one does as well.
LEMMA ReachGrows ==
  ASSUME SnapshotInv, Recorded
  PROVE  /\ SubmissionsInReach(asked) \subseteq SubmissionsInReach(head)
         /\ InReach(asked) \subseteq InReach(head)
<1>1. \A x, n : x \in n .. asked => x \in n .. head
  BY DEF SnapshotInv
<1>2. \A l \in submitted : Start(l.registry, asked) = Start(l.registry, head)
  BY StartRecorded DEF SnapshotInv, Submissions, Registry
<1>3. \A v \in verified : RouteStart(v.route, asked) = RouteStart(v.route, head)
  BY StartRecorded DEF SnapshotInv, AllSettlements
<1> QED
  BY <1>1, <1>2, <1>3 DEF SubmissionsInReach, InReach

\* SnapshotInv is inductive.
LEMMA InitSnapshotInv == ReadInit => SnapshotInv
BY FS_EmptySet DEF ReadInit, SnapshotInv

LEMMA FinishReadSound ==
  ASSUME SnapshotInv, NEW S \in SUBSET submitted, NEW V \in SUBSET verified, FinishRead(S, V)
  PROVE  SnapshotInv'
<1>1. cache' = cache \/ cache' = Join(S, V)
  BY DEF FinishRead, ReconcileSnapshot
<1>2. UNCHANGED <<deployment, head, asked, submitted, verified>>
  BY DEF FinishRead, chains, heights
<1>3. Recorded' => scannedFrom' = ScanStart(0)'
  <2>1. scannedFrom' = ScanStart(asked)
    BY DEF FinishRead
  <2>2. (Recorded' <=> Recorded) /\ ScanStart(0)' = ScanStart(0)
    BY <1>2 DEF Recorded, ScanStart, Start, DeployBlock
  <2>3. Recorded => ScanStart(asked) = ScanStart(0)
    BY StartRecorded DEF Registry
  <2> QED
    BY <2>1, <2>2, <2>3
<1> QED
  BY <1>1, <1>2, <1>3 DEF SnapshotInv

LEMMA ReadStutter ==
  ASSUME SnapshotInv, UNCHANGED <<deployment, submitted, verified, cache, scannedFrom>>,
         head' \in {head, head + 1}, asked' \in {asked, head}
  PROVE  SnapshotInv'
<1>1. Recorded' = Recorded /\ ScanStart(0)' = ScanStart(0)
  BY DEF Recorded, ScanStart, Start, DeployBlock
<1>2. head' \in Nat /\ asked' \in Nat /\ asked' <= head'
  BY DEF SnapshotInv
<1> QED
  BY <1>1, <1>2 DEF SnapshotInv

\* What a step may do to the chains' logs and to the snapshot.
LEMMA ReadSteps ==
  ASSUME [ReadNext]_readVars
  PROVE  \/ \E registry \in deployment.registries, root \in deployment.roots : Register(registry, root)
         \/ \E route \in deployment.routes, root \in deployment.roots : Settle(route, root)
         \/ \E S \in SUBSET SubmissionsInReach(asked), V \in SUBSET InReach(asked) : FinishRead(S, V)
         \/ /\ UNCHANGED <<deployment, submitted, verified, cache, scannedFrom>>
            /\ head' \in {head, head + 1} /\ asked' \in {asked, head}
<1> USE DEF readVars, chains, heights, reader
<1>1. CASE ChainStep
  BY <1>1 DEF ChainStep, NewBlocks
<1>2. CASE ReaderStep
  BY <1>2 DEF ReaderStep, StartRead, CompleteRead, LossyRead, FailRead, Expire
<1>3. CASE StatsStep \/ ClaimStep \/ PanelStep
  BY <1>3 DEF StatsStep, ComputeStats, ExpireStats, ClaimStep, ClaimDirectly, Withdraw,
              PanelStep, FetchRewards, ClickClaim
<1> QED
  BY <1>1, <1>2, <1>3 DEF ReadNext

LEMMA NextSnapshotInv == SnapshotInv /\ [ReadNext]_readVars => SnapshotInv'
<1> SUFFICES ASSUME SnapshotInv, [ReadNext]_readVars
             PROVE  SnapshotInv'
  OBVIOUS
<1>1. ASSUME NEW registry \in deployment.registries, NEW root \in deployment.roots,
             Register(registry, root)
      PROVE  SnapshotInv'
  <2>1. /\ submitted' = submitted \cup {[registry |-> registry, root |-> root]}
        /\ UNCHANGED <<deployment, head, asked, verified, cache, scannedFrom>>
    BY <1>1 DEF Register, reader
  <2>2. [registry |-> registry, root |-> root] \in Submissions
    BY ReadAssumption DEF ReadAssumption, SnapshotInv, Submissions
  <2>3. IsFiniteSet(submitted')
    BY <2>1, FS_AddElement DEF SnapshotInv
  <2>4. Recorded' = Recorded /\ ScanStart(0)' = ScanStart(0)
    BY <2>1 DEF Recorded, ScanStart, Start, DeployBlock
  <2> QED
    BY <2>1, <2>2, <2>3, <2>4 DEF SnapshotInv
<1>2. ASSUME NEW route \in deployment.routes, NEW root \in deployment.roots, Settle(route, root)
      PROVE  SnapshotInv'
  <2>1. /\ verified' = verified \cup {[route |-> route, root |-> root]}
        /\ UNCHANGED <<deployment, head, asked, submitted, cache, scannedFrom>>
    BY <1>2 DEF Settle, Settlements, reader
  <2>2. [route |-> route, root |-> root] \in AllSettlements
    BY ReadAssumption DEF ReadAssumption, SnapshotInv, AllSettlements
  <2>3. Recorded' = Recorded /\ ScanStart(0)' = ScanStart(0)
    BY <2>1 DEF Recorded, ScanStart, Start, DeployBlock
  <2> QED
    BY <2>1, <2>2, <2>3 DEF SnapshotInv
<1>3. CASE \E S \in SUBSET SubmissionsInReach(asked), V \in SUBSET InReach(asked) : FinishRead(S, V)
  BY <1>3, FinishReadSound DEF SubmissionsInReach, InReach
<1> QED
  BY <1>1, <1>2, <1>3, ReadSteps, ReadStutter

---------------------------------------------------------------------------
(* Keys.                                                                   *)

\* What KeysArePaidFor says of one key, and that it is of a payment.
Earned(i) ==
  LET paid == payments[i.key.payment]
  IN /\ i.key.payment \in Sent
     /\ paid.status = "paid"
     /\ paid.from = i.to /\ paid.to = "pool"
     /\ paid.value >= i.price
     /\ i.key.expiry \in paid.minedAt + i.days .. i.at + i.days

BuyInv ==
  /\ market \in Markets /\ clock \in Nat /\ price \in Nat /\ days \in Nat /\ account \in Buyer
  /\ terms \in Nat \cup {NoTerms}
  /\ payments \in [Payment -> Transfers \cup {NoPayment}]
  /\ \A p \in Sent : payments[p].minedAt <= clock
  /\ stage.kind = "paying" => terms \in Nat
  /\ stage.kind \in {"signing", "redeeming", "confirming"} => stage.payment \in Sent
  /\ \A i \in issued : Earned(i)
  /\ stored = NoKey \/ \E i \in issued : i.key = stored

\* What the page is doing, by how its stage is built.
LEMMA Stages ==
  /\ Idle.kind = "idle"
  /\ \A p : Failed(p).kind = "error"
  /\ \A kind, p, by, signer, polls :
       LET at == At(kind, p, by, signer, polls) IN at.kind = kind /\ at.payment = p
<1>1. ASSUME NEW p PROVE Failed(p).kind = "error"
  <2> DEFINE i == [kind |-> "idle", payment |-> NoPayment, by |-> NoOne, signer |-> NoOne, polls |-> 0]
  <2>1. DOMAIN i = {"kind", "payment", "by", "signer", "polls"}
    OBVIOUS
  <2>2. Failed(p) = [[i EXCEPT !["kind"] = "error"] EXCEPT !["payment"] = p]
    BY DEF Failed, Idle
  <2> HIDE DEF i
  <2> QED
    BY <2>1, <2>2
<1> QED
  BY <1>1 DEF Idle, At

\* Steps that touch neither the payments nor the keys.
LEMMA BuyStutter ==
  ASSUME BuyInv, UNCHANGED <<market, payments, issued>>, stored' \in {stored, NoKey},
         clock' \in Nat, clock' >= clock, price' \in Nat, days' \in Nat, account' \in Buyer,
         terms' \in Nat \cup {NoTerms},
         stage'.kind = "paying" => terms' \in Nat,
         stage'.kind \in {"signing", "redeeming", "confirming"} => stage'.payment \in Sent
  PROVE  BuyInv'
<1>1. Sent' = Sent
  BY DEF Sent
<1>2. \A p \in Sent' : payments'[p].minedAt <= clock'
  <2>1. \A p \in Sent : payments[p].minedAt \in Nat
    BY DEF BuyInv, Sent, Transfers
  <2> QED
    BY <1>1, <2>1 DEF BuyInv
<1>3. \A i \in issued' : Earned(i)'
  BY <1>1 DEF BuyInv, Earned
<1> QED
  BY <1>1, <1>2, <1>3 DEF BuyInv

\* A new transfer starts unmined.
LEMMA TransferSound ==
  ASSUME BuyInv, NEW p \in Payment, NEW to \in {"pool", "elsewhere"}, NEW value \in Nat,
         Transfer(p, to, value),
         UNCHANGED <<market, clock, price, days, issued, account, terms, stored>>,
         stage'.kind = "paying" => terms \in Nat,
         stage'.kind \in {"signing", "redeeming", "confirming"} => stage'.payment \in Sent \cup {p}
  PROVE  BuyInv'
<1> DEFINE new == [from |-> account, to |-> to, value |-> value, status |-> "pending", minedAt |-> 0]
<1>1. new \in Transfers /\ new.minedAt = 0
  BY DEF BuyInv, Transfers
<1> HIDE DEF new
<1>2. payments[p] = NoPayment /\ payments' = [payments EXCEPT ![p] = new]
  BY DEF Transfer, new
<1>3. payments' \in [Payment -> Transfers \cup {NoPayment}]
  BY <1>1, <1>2 DEF BuyInv
<1>4. Sent' = Sent \cup {p} /\ p \notin Sent
  BY <1>1, <1>2, BuyAssumption DEF BuyInv, Sent
<1>5. \A q \in Sent : payments'[q] = payments[q]
  BY <1>2, <1>4 DEF BuyInv, Sent
<1>6. \A q \in Sent' : payments'[q].minedAt <= clock'
  BY <1>1, <1>2, <1>4, <1>5 DEF BuyInv
<1>7. \A i \in issued' : Earned(i)'
  BY <1>4, <1>5 DEF BuyInv, Earned
<1> QED
  BY <1>3, <1>4, <1>6, <1>7 DEF BuyInv

\* A payment that gets into a block backed no key before.
LEMMA MineSound ==
  ASSUME BuyInv, NEW p \in Payment, NEW status \in {"paid", "reverted"}, Mine(p, status)
  PROVE  BuyInv'
<1>1. /\ p \in Sent /\ payments[p].status = "pending"
      /\ payments' = [payments EXCEPT ![p].status = status, ![p].minedAt = clock]
      /\ UNCHANGED <<market, clock, price, days, account, terms, stage, stored, issued>>
  BY DEF Mine, serverVars, walletVars, pageVars
<1>2. payments[p] \in Transfers
  BY <1>1 DEF BuyInv, Sent
<1>3. payments'[p] \in Transfers /\ payments'[p].minedAt = clock
  BY <1>1, <1>2 DEF BuyInv, Transfers
<1>4. \A q \in Payment \ {p} : payments'[q] = payments[q]
  BY <1>1 DEF BuyInv
<1>5. payments' \in [Payment -> Transfers \cup {NoPayment}]
  BY <1>1, <1>3 DEF BuyInv
<1>6. Sent' = Sent
  BY <1>1, <1>3, <1>4, BuyAssumption DEF Sent
<1>7. \A q \in Sent' : payments'[q].minedAt <= clock'
  BY <1>1, <1>3, <1>4, <1>6 DEF BuyInv, Sent
<1>8. ASSUME NEW i \in issued PROVE Earned(i)'
  <2>1. i.key.payment \in Sent /\ i.key.payment # p
    BY <1>1 DEF BuyInv, Earned
  <2>2. payments'[i.key.payment] = payments[i.key.payment]
    BY <1>4, <2>1 DEF Sent
  <2> QED
    BY <1>6, <2>2 DEF BuyInv, Earned
<1> QED
  BY <1>1, <1>5, <1>6, <1>7, <1>8 DEF BuyInv

\* The key handed out is earned: the server looked at who sent the payment,
\* where it went and whether it went through.
LEMMA JudgedSound ==
  ASSUME BuyInv, NEW blockRead \in BOOLEAN, Judged(blockRead)
  PROVE  BuyInv'
<1> DEFINE p == stage.payment
           key == KeyFor(p, blockRead)
           new == [key |-> key, to |-> stage.signer, at |-> clock, price |-> price, days |-> days]
<1>1. /\ stage.kind = "redeeming" /\ payments[p].status # "pending"
      /\ UNCHANGED <<market, clock, price, days, account, terms, payments>>
      /\ stage' = Failed(p) \/ stage' = Idle
      /\ \/ issued' = issued /\ stored' = stored
         \/ /\ issued' = issued \cup {new} /\ stored' = key
            /\ Refusal(p, stage.by, stage.signer) = "none"
  BY DEF Judged, walletVars
<1>2. p \in Sent /\ payments[p] \in Transfers
  BY <1>1 DEF BuyInv, Sent
<1>3. Sent' = Sent
  BY <1>1 DEF Sent
<1>4. stage'.kind \in {"error", "idle"}
  BY <1>1, Stages
<1>5. ASSUME Refusal(p, stage.by, stage.signer) = "none" PROVE Earned(new)
  <2>1. /\ payments[p].from = stage.signer /\ payments[p].to = "pool"
        /\ payments[p].status # "reverted" /\ ~(payments[p].value < price)
    BY <1>5 DEF Refusal
  <2>2. payments[p].status = "paid"
    BY <1>1, <1>2, <2>1 DEF Transfers
  <2>3. key.payment = p /\ key.expiry = PaidAt(p, blockRead) + days
    BY DEF KeyFor
  <2>4. /\ PaidAt(p, blockRead) \in Nat /\ payments[p].minedAt \in Nat /\ clock \in Nat
        /\ PaidAt(p, blockRead) >= payments[p].minedAt /\ PaidAt(p, blockRead) <= clock
    BY <1>2 DEF PaidAt, BuyInv, Transfers
  <2>5. /\ new.key = key /\ new.to = stage.signer /\ new.at = clock
        /\ new.price = price /\ new.days = days
    OBVIOUS
  <2>6. payments[p].value >= price
    BY <1>2, <2>1 DEF BuyInv, Transfers
  <2> HIDE DEF new, key
  <2>7. key.expiry \in payments[p].minedAt + days .. clock + days
    BY <2>3, <2>4 DEF BuyInv
  <2> QED
    BY <1>2, <2>1, <2>2, <2>3, <2>5, <2>6, <2>7 DEF Earned
<1>9. stored' = NoKey \/ \E i \in issued' : i.key = stored'
  <2>1. new.key = key
    OBVIOUS
  <2> HIDE DEF new, key
  <2> QED
    BY <1>1, <2>1 DEF BuyInv
<1> HIDE DEF new
<1>6. \A i \in issued' : Earned(i)
  BY <1>1, <1>5 DEF BuyInv
<1>7. \A i \in issued' : Earned(i)'
  BY <1>1, <1>3, <1>6 DEF Earned
<1> QED
  BY <1>1, <1>3, <1>4, <1>7, <1>9 DEF BuyInv

\* BuyInv is inductive.
LEMMA InitBuyInv == BuyInit => BuyInv
<1> SUFFICES ASSUME BuyInit PROVE BuyInv
  OBVIOUS
<1>1. Sent = {}
  BY DEF BuyInit, Sent
<1> QED
  BY <1>1, BuyAssumption DEF BuyInit, BuyInv, Idle

LEMMA NextBuyInv == BuyInv /\ [BuyNext]_buyVars => BuyInv'
<1> SUFFICES ASSUME BuyInv, [BuyNext]_buyVars
             PROVE  BuyInv'
  OBVIOUS
<1> USE DEF serverVars, walletVars, pageVars
<1>1. CASE OutsideStep
  <2>1. CASE Reprice \/ ChangeTerm \/ RotateSecret
    <3>1. price' \in Nat /\ days' \in Nat
      BY <2>1, BuyAssumption DEF Reprice, ChangeTerm, RotateSecret, BuyInv
    <3> QED
      BY <2>1, <3>1, BuyStutter DEF Reprice, ChangeTerm, RotateSecret, BuyInv
  <2>2. CASE Tick
    BY <2>2, BuyStutter DEF Tick, BuyInv
  <2>3. CASE \E p \in Payment : Mine(p, "paid") \/ (market.faults /\ Mine(p, "reverted"))
    BY <2>3, MineSound
  <2>4. CASE \E p \in Payment : SendElsewhere(p)
    BY <2>4, TransferSound DEF SendElsewhere, BuyInv
  <2>5. CASE (\E a \in Buyer : UseAccount(a)) \/ ChangeChain
    <3>1. account' \in Buyer
      BY <2>5, BuyAssumption DEF UseAccount, ChangeChain, BuyInv
    <3> QED
      BY <2>5, <3>1, BuyStutter DEF UseAccount, ChangeChain, BuyInv
  <2> QED
    BY <1>1, <2>1, <2>2, <2>3, <2>4, <2>5 DEF OutsideStep
<1>2. CASE PageStep
  <2>1. CASE Open \/ Buy \/ \E switched \in BOOLEAN : BuyOnOtherChain(switched)
    BY <2>1, BuyStutter, Stages DEF Open, Buy, BuyOnOtherChain, CanBuy, BuyInv
  <2>2. CASE PaymentSent \/ PaymentUnreported
    <3>1. PICK p \in Payment : Send(p) /\ \/ stage' = At("signing", p, stage.by, NoOne, 0)
                                          \/ stage' = Failed(NoPayment)
      BY <2>2 DEF PaymentSent, PaymentUnreported
    <3>2. /\ stage'.kind \in {"signing", "error"}
          /\ stage'.kind = "signing" => stage'.payment = p
      BY <3>1, Stages
    <3> QED
      BY <3>1, <3>2, TransferSound DEF Send, BuyInv
  <2>3. CASE PaymentDeclined \/ SignDeclined
    BY <2>3, BuyStutter, Stages DEF PaymentDeclined, SignDeclined, BuyInv
  <2>4. CASE \E p \in Payment : Redeem(p)
    BY <2>4, BuyStutter, Stages DEF Redeem, CanRedeem, BuyInv
  <2>5. CASE SignText \/ PollAgain
    <3>1. /\ stage'.kind = "redeeming" /\ stage'.payment \in Sent
          /\ UNCHANGED <<market, price, days, issued, clock, payments, account, terms, stored>>
      <4>1. CASE SignText
        BY <4>1 DEF SignText, BuyInv
      <4>2. CASE PollAgain
        BY <4>2 DEF PollAgain, BuyInv
      <4> QED
        BY <2>5, <4>1, <4>2
    <3> QED
      BY <3>1, BuyStutter DEF BuyInv
  <2>6. CASE Judged(TRUE)
    BY <2>6, JudgedSound
  <2>7. CASE NotFound
    BY <2>7, BuyStutter, Stages DEF NotFound, BuyInv
  <2>8. CASE Forget
    BY <2>8, BuyStutter DEF Forget, BuyInv
  <2> QED
    BY <1>2, <2>1, <2>2, <2>3, <2>4, <2>5, <2>6, <2>7, <2>8 DEF PageStep
<1>3. CASE FaultStep
  <2>1. CASE PaymentUnreported
    <3>1. PICK p \in Payment : Send(p) /\ stage' = Failed(NoPayment)
      BY <2>1 DEF PaymentUnreported
    <3>2. stage'.kind = "error"
      BY <3>1, Stages
    <3> QED
      BY <3>1, <3>2, TransferSound DEF Send, BuyInv
  <2>2. CASE Judged(FALSE)
    BY <2>2, JudgedSound
  <2>3. CASE RpcError \/ RequestLost
    <3>1. CASE RpcError
      BY <3>1, BuyStutter, Stages DEF RpcError, BuyInv
    <3>2. CASE RequestLost
      <4>1. /\ stage' = [stage EXCEPT !["kind"] = "hung"]
            /\ stage.kind = "redeeming" /\ stage.payment \in Sent
        BY <3>2 DEF RequestLost, BuyInv
      <4>2. stage'.payment \in Sent /\ stage'.kind # "paying"
        BY <4>1
      <4> QED
        BY <3>2, <4>2, BuyStutter DEF RequestLost, BuyInv
    <3> QED
      BY <2>3, <3>1, <3>2
  <2> QED
    BY <1>3, <2>1, <2>2, <2>3 DEF FaultStep
<1>4. CASE UNCHANGED buyVars
  BY <1>4, BuyStutter DEF buyVars, BuyInv
<1> QED
  BY <1>1, <1>2, <1>3, <1>4 DEF BuyNext

---------------------------------------------------------------------------
(* What was claimed is no more than what was settled.                      *)

\* The settlements of c on one route.
SettledFor(route, c) == {v \in verified : v.route = route /\ OwnerOf[v.root] = c}

ClaimsInv ==
  /\ IsFiniteSet(verified)
  /\ \A v \in verified : v.route \in deployment.routes
  /\ claimed \in [Route -> [Contributor -> Nat]]
  /\ \A route \in Route, c \in Contributor :
       claimed[route][c] <= Cardinality(SettledFor(route, c))
  /\ DOMAIN stats = Contributor

LEMMA SettledForFinite ==
  ASSUME IsFiniteSet(verified), NEW route, NEW c
  PROVE  IsFiniteSet(SettledFor(route, c)) /\ Cardinality(SettledFor(route, c)) \in Nat
BY FS_Subset, FS_CardinalityType DEF SettledFor

LEMMA InitClaimsInv == ReadInit => ClaimsInv
<1> SUFFICES ASSUME ReadInit PROVE ClaimsInv
  OBVIOUS
<1>1. \A route, c : SettledFor(route, c) = {}
  BY DEF ReadInit, SettledFor
<1>2. /\ verified = {} /\ claimed = [r \in Route |-> [c \in Contributor |-> 0]]
      /\ stats = [c \in Contributor |-> NoStats]
  BY DEF ReadInit
<1>3. \A route \in Route, c \in Contributor :
        claimed[route][c] = 0 /\ Cardinality(SettledFor(route, c)) = 0
  BY <1>1, <1>2, FS_EmptySet
<1> QED
  BY <1>2, <1>3, FS_EmptySet DEF ClaimsInv

\* A claim takes exactly what has accrued: the settlements not claimed yet.
LEMMA PayOutSound ==
  ASSUME ClaimsInv, NEW route \in Route, NEW c \in Contributor, PayOut(route, c),
         UNCHANGED <<deployment, verified, stats>>
  PROVE  ClaimsInv'
<1>1. /\ Cardinality(SettledFor(route, c)) \in Nat /\ claimed[route][c] \in Nat
      /\ claimed \in [Route -> [Contributor -> Nat]]
  BY SettledForFinite DEF ClaimsInv
<1>2. Accrued(route, c) = Cardinality(SettledFor(route, c)) - claimed[route][c]
  BY DEF Accrued, SettledFor
<1>3. claimed[route][c] + Accrued(route, c) = Cardinality(SettledFor(route, c))
  BY <1>1, <1>2
<1>4. claimed' = [claimed EXCEPT ![route][c] = Cardinality(SettledFor(route, c))]
  BY <1>3 DEF PayOut
<1>5. claimed' \in [Route -> [Contributor -> Nat]]
  BY <1>1, <1>4
<1>6. ASSUME NEW r \in Route, NEW d \in Contributor
      PROVE  claimed'[r][d] <= Cardinality(SettledFor(r, d))'
  <2>1. SettledFor(r, d)' = SettledFor(r, d)
    BY DEF SettledFor
  <2>2. CASE r = route /\ d = c
    BY <1>1, <1>4, <2>1, <2>2
  <2>3. CASE ~(r = route /\ d = c)
    <3>1. claimed'[r][d] = claimed[r][d]
      BY <1>1, <1>4, <2>3
    <3> QED
      BY <2>1, <3>1 DEF ClaimsInv
  <2> QED
    BY <2>2, <2>3
<1> QED
  BY <1>5, <1>6 DEF ClaimsInv

LEMMA NextClaimsInv == SnapshotInv /\ ClaimsInv /\ [ReadNext]_readVars => ClaimsInv'
<1> SUFFICES ASSUME SnapshotInv, ClaimsInv, [ReadNext]_readVars
             PROVE  ClaimsInv'
  OBVIOUS
<1> USE DEF readVars, chains, heights, reader
<1>1. \A r, c : UNCHANGED verified => SettledFor(r, c)' = SettledFor(r, c)
  BY DEF SettledFor
<1>2. deployment.routes \subseteq Route
  BY ReadAssumption DEF ReadAssumption, SnapshotInv
<1>3. CASE UNCHANGED <<deployment, verified, claimed>> /\ DOMAIN stats' = DOMAIN stats
  BY <1>1, <1>3 DEF ClaimsInv
<1>4. ASSUME NEW route \in deployment.routes, NEW root, Settle(route, root)
      PROVE  ClaimsInv'
  <2>1. /\ verified' = verified \cup {Settlements(route, root)}
        /\ UNCHANGED <<deployment, claimed, stats>>
    BY <1>4 DEF Settle
  <2>2. IsFiniteSet(verified')
    BY <2>1, FS_AddElement DEF ClaimsInv
  <2>3. \A v \in verified' : v.route \in deployment'.routes
    BY <2>1 DEF ClaimsInv, Settlements
  <2>4. ASSUME NEW r \in Route, NEW c \in Contributor
        PROVE  claimed'[r][c] <= Cardinality(SettledFor(r, c))'
    <3>1. SettledFor(r, c) \subseteq SettledFor(r, c)' /\ IsFiniteSet(SettledFor(r, c)')
      BY <2>1, <2>2, FS_Subset DEF SettledFor
    <3>2. Cardinality(SettledFor(r, c)) <= Cardinality(SettledFor(r, c)')
      BY <3>1, FS_Subset
    <3>3. /\ Cardinality(SettledFor(r, c)) \in Nat /\ Cardinality(SettledFor(r, c)') \in Nat
          /\ claimed[r][c] \in Nat /\ claimed[r][c] <= Cardinality(SettledFor(r, c))
      BY <3>1, FS_CardinalityType, SettledForFinite DEF ClaimsInv
    <3> QED
      BY <2>1, <3>2, <3>3
  <2> QED
    BY <2>1, <2>2, <2>3, <2>4 DEF ClaimsInv
<1>5. CASE ChainStep
  BY <1>3, <1>4, <1>5 DEF ChainStep, NewBlocks, Register
<1>6. CASE ReaderStep
  BY <1>3, <1>6 DEF ReaderStep, StartRead, CompleteRead, LossyRead, FinishRead, FailRead, Expire
<1>7. CASE StatsStep
  BY <1>3, <1>7 DEF StatsStep, ComputeStats, ExpireStats
<1>8. CASE ClaimStep
  <2>1. CASE \E route \in deployment.routes, c \in Contributor : ClaimDirectly(route, c)
    BY <1>2, <2>1, PayOutSound DEF ClaimDirectly
  <2> QED
    BY <1>3, <1>8, <2>1 DEF ClaimStep, Withdraw
<1>9. CASE PanelStep
  <2>1. ASSUME NEW c \in deployment.people, NEW route \in Configured, ClickClaim(route, c)
        PROVE  ClaimsInv'
    BY <1>2, <2>1, PayOutSound, ReadAssumption DEF ReadAssumption, SnapshotInv, Configured, ClickClaim
  <2> QED
    BY <1>3, <1>9, <2>1 DEF PanelStep, FetchRewards
<1> QED
  BY <1>3, <1>5, <1>6, <1>7, <1>8, <1>9 DEF ReadNext
---------------------------------------------------------------------------
(* The rows served, and those saved.                                       *)

\* Every row of a snapshot is a registered measurement, and one shown as paid
\* was paid by the route it names.
LEMMA SnapshotTrue ==
  ASSUME SnapshotInv, NEW r \in Rows
  PROVE  TrueRow(r)
<1>1. cache # NoSnapshot /\ r \in cache
  BY DEF Rows
<1>2. PICK S \in SUBSET submitted, V \in SUBSET verified : cache = Join(S, V)
  BY <1>1 DEF SnapshotInv
<1>3. PICK l \in S : /\ r.registry = l.registry /\ r.root = l.root
                     /\ r.paidBy = PaidBy(l.root, V)
  BY <1>1, <1>2 DEF Join
<1>4. l \in Submissions /\ V \in SUBSET AllSettlements
  BY DEF SnapshotInv
<1>5. [registry |-> r.registry, root |-> r.root] \in submitted
  BY <1>3, <1>4 DEF Submissions
<1>6. ASSUME r.paidBy # "nobody"
      PROVE  Settlements(r.paidBy, r.root) \in verified
  <2>1. PICK v \in V : v.root = r.root /\ v.route = r.paidBy
    BY <1>3, <1>4, <1>6, PaidByNames
  <2>2. v = [route |-> r.paidBy, root |-> r.root]
    BY <1>4, <2>1 DEF AllSettlements
  <2> QED
    BY <2>1, <2>2 DEF Settlements
<1> QED
  BY <1>5, <1>6 DEF TrueRow

\* Something saved holds true rows, and holds rows only if a key was handed out.
Backed(saved) ==
  saved # NoFile => /\ \A r \in saved.rows : TrueRow(r)
                    /\ saved.rows # {} => issued # {}

ExportInv == Backed(copy) /\ Backed(file)

\* No log and no key is ever taken back.
LEMMA BackedStays ==
  ASSUME ExportInv, UNCHANGED <<copy, file>>,
         submitted \subseteq submitted', verified \subseteq verified', issued \subseteq issued'
  PROVE  ExportInv'
BY DEF ExportInv, Backed, TrueRow

LEMMA LogsStay ==
  ASSUME [ReadNext]_readVars
  PROVE  submitted \subseteq submitted' /\ verified \subseteq verified'
BY ReadSteps DEF Register, Settle, FinishRead, chains

LEMMA KeysStay ==
  ASSUME [BuyNext]_buyVars
  PROVE  issued \subseteq issued'
<1> USE DEF serverVars
<1>1. CASE OutsideStep
  BY <1>1 DEF OutsideStep, Reprice, ChangeTerm, RotateSecret, Tick, Mine, SendElsewhere, UseAccount, ChangeChain
<1>2. CASE PageStep
  BY <1>2 DEF PageStep, Open, BuyOnOtherChain, Buy, PaymentSent, Send, PaymentDeclined, Redeem,
     SignText, SignDeclined, Judged, NotFound, PollAgain, Forget
<1>3. CASE FaultStep
  BY <1>3 DEF FaultStep, PaymentUnreported, Send, Judged, RpcError, RequestLost
<1> QED
  BY <1>1, <1>2, <1>3 DEF BuyNext, buyVars

PortalInv == SnapshotInv /\ ClaimsInv /\ BuyInv /\ ExportInv

LEMMA InitPortalInv == PortalInit => PortalInv
BY InitSnapshotInv, InitClaimsInv, InitBuyInv DEF PortalInit, PortalInv, ExportInv, Backed

\* A step of the whole is, for each part, a step of it or none.
LEMMA PortalSteps ==
  ASSUME [PortalNext]_portalVars
  PROVE  [ReadNext]_readVars /\ [BuyNext]_buyVars
BY DEF PortalNext, portalVars, Download, DownloadOffline, ChangeConnection

LEMMA NextPortalInv == PortalInv /\ [PortalNext]_portalVars => PortalInv'
<1> SUFFICES ASSUME PortalInv, [PortalNext]_portalVars
             PROVE  PortalInv'
  OBVIOUS
<1>1. [ReadNext]_readVars /\ [BuyNext]_buyVars
  BY PortalSteps
<1>2. SnapshotInv' /\ ClaimsInv' /\ BuyInv'
  BY <1>1, NextSnapshotInv, NextClaimsInv, NextBuyInv DEF PortalInv
<1>3. submitted \subseteq submitted' /\ verified \subseteq verified' /\ issued \subseteq issued'
  BY <1>1, LogsStay, KeysStay
<1>4. CASE UNCHANGED <<copy, file>>
  BY <1>2, <1>3, <1>4, BackedStays DEF PortalInv
<1>5. CASE Download
  <2>1. issued # {}
    BY <1>5 DEF Download, Admits, Accepts, PortalInv, BuyInv
  <2>2. UNCHANGED <<submitted, verified, issued>>
    BY <1>5 DEF Download, readVars, chains, buyVars, serverVars
  <2>3. Saved(AreaRows).rows = AreaRows /\ \A r \in AreaRows : TrueRow(r)
    BY SnapshotTrue DEF Saved, AreaRows, PortalInv
  <2>4. Backed(Saved(AreaRows))
    BY <2>1, <2>3 DEF Backed
  <2>5. copy' = Saved(AreaRows) /\ file' = Saved(AreaRows)
    BY <1>5 DEF Download
  <2>6. ExportInv'
    BY <2>2, <2>4, <2>5 DEF ExportInv, Backed, TrueRow
  <2> QED
    BY <1>2, <2>6 DEF PortalInv
<1>6. CASE DownloadOffline
  <2>1. UNCHANGED <<submitted, verified, issued, copy>> /\ (file' = copy \/ file' = Shell)
    BY <1>6 DEF DownloadOffline, readVars, chains, buyVars, serverVars
  <2>2. Shell.rows = {}
    BY DEF Shell
  <2>3. ExportInv'
    BY <2>1, <2>2 DEF PortalInv, ExportInv, Backed, TrueRow
  <2> QED
    BY <1>2, <2>3 DEF PortalInv
<1>7. CASE ChangeConnection
  BY <1>4, <1>7 DEF ChangeConnection, PortalInv
<1> QED
  BY <1>2, <1>3, <1>4, <1>5, <1>6, <1>7 DEF PortalNext, portalVars, exportVars, PortalInv

LEMMA PortalInvAlways == PortalSpec => []PortalInv
BY InitPortalInv, NextPortalInv, PTL DEF PortalSpec
---------------------------------------------------------------------------
(* Counting by group.                                                      *)

\* n[k] units for each k of K.
UnitsOf(K, n) == UNION {{k} \X (1 .. n[k]) : k \in K}

\* How many elements of T have the key k.
GroupSize(T, key, k) == Cardinality({t \in T : key[t] = k})

\* The groups of a finite set by some key, counted one by one, add up to the
\* set: units <<k, i>> and elements correspond one to one.
LEMMA CountByGroup ==
  ASSUME NEW T, IsFiniteSet(T), NEW K, NEW key \in [T -> K], NEW n,
         \A k \in K : n[k] = GroupSize(T, key, k)
  PROVE  Cardinality(UnitsOf(K, n)) = Cardinality(T)
<1> DEFINE Group(k) == {t \in T : key[t] = k}
           Units == UNION {{k} \X (1 .. n[k]) : k \in K}
           number(k) == CHOOSE f : f \in Bijection(1 .. n[k], Group(k))
           place(t) == CHOOSE i \in 1 .. n[key[t]] : number(key[t])[i] = t
           g == [t \in T |-> <<key[t], place(t)>>]
<1>1. \A k \in K : number(k) \in Bijection(1 .. n[k], Group(k))
  <2> TAKE k \in K
  <2>1. IsFiniteSet(Group(k)) /\ n[k] = Cardinality(Group(k))
    BY FS_Subset DEF GroupSize
  <2>2. ExistsBijection(1 .. n[k], Group(k))
    BY <2>1, FS_CardinalityType
  <2> HIDE DEF Group
  <2> QED
    BY <2>2 DEF ExistsBijection
<1> HIDE DEF number
<1>2. \A k \in K : /\ \A i \in 1 .. n[k] : number(k)[i] \in Group(k)
                   /\ \A i, j \in 1 .. n[k] : number(k)[i] = number(k)[j] => i = j
                   /\ \A t \in Group(k) : \E i \in 1 .. n[k] : number(k)[i] = t
  BY <1>1 DEF Bijection, Injection, IsInjective, Surjection
<1>3. \A t \in T : place(t) \in 1 .. n[key[t]] /\ number(key[t])[place(t)] = t
  <2> TAKE t \in T
  <2>1. \E i \in 1 .. n[key[t]] : number(key[t])[i] = t
    BY <1>2
  <2> QED
    BY <2>1
<1>4. \A t \in T, k \in K : \A i \in 1 .. n[k] : number(k)[i] = t => key[t] = k /\ place(t) = i
  <2> TAKE t \in T, k \in K
  <2> TAKE i \in 1 .. n[k]
  <2> HAVE number(k)[i] = t
  <2>1. key[t] = k
    BY <1>2
  <2> HIDE DEF place
  <2>2. place(t) \in 1 .. n[k] /\ number(k)[place(t)] = number(k)[i]
    BY <1>3, <2>1
  <2> QED
    BY <1>2, <2>1, <2>2
<1> HIDE DEF place
<1>5. \A u \in Units : \E k \in K : \E i \in 1 .. n[k] : u = <<k, i>>
  OBVIOUS
<1>6. \A k \in K : \A i \in 1 .. n[k] : <<k, i>> \in Units
  OBVIOUS
<1>7. \A t \in T : g[t] = <<key[t], place(t)>> /\ g[t] \in Units
  BY <1>3, <1>6
<1>8. g \in [T -> Units]
  BY <1>7
<1> HIDE DEF g, Units
<1>9. \A t, u \in T : g[t] = g[u] => t = u
  BY <1>3, <1>7
<1>10. \A u \in Units : \E t \in T : g[t] = u
  <2> TAKE u \in Units
  <2>1. PICK k \in K : \E i \in 1 .. n[k] : u = <<k, i>>
    BY <1>5
  <2>4. PICK i \in 1 .. n[k] : u = <<k, i>>
    BY <2>1
  <2>2. number(k)[i] \in T
    BY <1>2
  <2>3. g[number(k)[i]] = u
    BY <1>4, <1>7, <2>4, <2>2
  <2> QED
    BY <2>2, <2>3
<1>11. g \in Bijection(T, Units)
  BY <1>8, <1>9, <1>10 DEF Bijection, Injection, IsInjective, Surjection
<1>12. Cardinality(Units) = Cardinality(T)
  BY <1>11, FS_Bijection DEF ExistsBijection
<1> QED
  BY <1>12 DEF Units, UnitsOf

\* A view that counts the rows of each group agrees with the totals.
LEMMA ViewAgrees ==
  ASSUME NEW rows, IsFiniteSet(rows), NEW K, NEW key \in [rows -> K], NEW view,
         DOMAIN view = K,
         \A k \in K : view[k] = Summary({r \in rows : key[r] = k})
  PROVE  /\ SumOver(view, "submitted") = Totals(rows).submitted
         /\ SumOver(view, "settled") = Totals(rows).settled
         /\ SumOver(view, "awaiting") = Totals(rows).submitted - Totals(rows).settled
<1> DEFINE Group(k) == {r \in rows : key[r] = k}
           Unpaid == rows \ Paid(rows)
<1>1. IsFiniteSet(Paid(rows)) /\ Paid(rows) \subseteq rows /\ IsFiniteSet(Unpaid)
  BY FS_Subset DEF Paid
<1>2. Cardinality(Unpaid) = Cardinality(rows) - Cardinality(Paid(rows))
  <2>1. rows \cap Paid(rows) = Paid(rows)
    BY <1>1
  <2> QED
    BY <2>1, FS_Difference
<1>3. ASSUME NEW k \in K
      PROVE  /\ view[k]["submitted"] = Cardinality({r \in rows : key[r] = k})
             /\ view[k]["settled"] = Cardinality({r \in Paid(rows) : key[r] = k})
             /\ view[k]["awaiting"] = Cardinality({r \in Unpaid : key[r] = k})
  <2>1. IsFiniteSet(Group(k)) /\ IsFiniteSet(Paid(Group(k)))
    BY FS_Subset DEF Paid
  <2>2. Paid(Group(k)) = {r \in Paid(rows) : key[r] = k}
    BY DEF Paid
  <2>3. Group(k) \ Paid(Group(k)) = {r \in Unpaid : key[r] = k}
    BY DEF Paid
  <2>4. Group(k) \cap Paid(Group(k)) = Paid(Group(k))
    BY DEF Paid
  <2>5. Cardinality({r \in Unpaid : key[r] = k}) = Cardinality(Group(k)) - Cardinality(Paid(Group(k)))
    BY <2>1, <2>3, <2>4, FS_Difference
  <2>6. view[k] = Summary(Group(k))
    OBVIOUS
  <2> HIDE DEF Group, Unpaid
  <2>7. /\ view[k]["submitted"] = Cardinality(Group(k))
        /\ view[k]["settled"] = Cardinality(Paid(Group(k)))
        /\ view[k]["awaiting"] = Cardinality(Group(k)) - Cardinality(Paid(Group(k)))
    BY <2>6 DEF Summary
  <2> QED
    BY <2>2, <2>5, <2>7 DEF Group
<1>4. SumOver(view, "submitted") = Cardinality(rows)
  <2> DEFINE n == [k \in K |-> view[k]["submitted"]]
  <2>1. \A k \in K : n[k] = GroupSize(rows, key, k)
    BY <1>3 DEF GroupSize
  <2>2. SumOver(view, "submitted") = Cardinality(UnitsOf(K, n))
    BY DEF SumOver, UnitsOf
  <2> HIDE DEF n
  <2> QED
    BY <2>1, <2>2, CountByGroup
<1>5. SumOver(view, "settled") = Cardinality(Paid(rows))
  <2> DEFINE n == [k \in K |-> view[k]["settled"]]
             paidKey == [r \in Paid(rows) |-> key[r]]
  <2>1. \A k \in K : n[k] = Cardinality({r \in Paid(rows) : key[r] = k})
    BY <1>3
  <2>2. SumOver(view, "settled") = Cardinality(UnitsOf(K, n))
    BY DEF SumOver, UnitsOf
  <2>3. paidKey \in [Paid(rows) -> K] /\ \A r \in Paid(rows) : paidKey[r] = key[r]
    BY <1>1
  <2> HIDE DEF n, paidKey
  <2>4. \A k \in K : n[k] = GroupSize(Paid(rows), paidKey, k)
    <3> TAKE k \in K
    <3>1. {r \in Paid(rows) : paidKey[r] = k} = {r \in Paid(rows) : key[r] = k}
      BY <2>3
    <3> QED
      BY <2>1, <3>1 DEF GroupSize
  <2> QED
    BY <1>1, <2>2, <2>3, <2>4, CountByGroup
<1>6. SumOver(view, "awaiting") = Cardinality(Unpaid)
  <2> DEFINE n == [k \in K |-> view[k]["awaiting"]]
             openKey == [r \in Unpaid |-> key[r]]
  <2>1. \A k \in K : n[k] = Cardinality({r \in Unpaid : key[r] = k})
    BY <1>3
  <2>2. SumOver(view, "awaiting") = Cardinality(UnitsOf(K, n))
    BY DEF SumOver, UnitsOf
  <2>3. openKey \in [Unpaid -> K] /\ \A r \in Unpaid : openKey[r] = key[r]
    BY <1>1
  <2> HIDE DEF n, openKey, Unpaid
  <2>4. \A k \in K : n[k] = GroupSize(Unpaid, openKey, k)
    <3> TAKE k \in K
    <3>1. {r \in Unpaid : openKey[r] = k} = {r \in Unpaid : key[r] = k}
      BY <2>3
    <3> QED
      BY <2>1, <3>1 DEF GroupSize
  <2> QED
    BY <1>1, <2>2, <2>3, <2>4, CountByGroup
<1> QED
  BY <1>2, <1>4, <1>5, <1>6 DEF Totals

\* The rows of a snapshot are finitely many.
LEMMA RowsFinite ==
  ASSUME SnapshotInv
  PROVE  IsFiniteSet(Rows)
<1>1. CASE cache = NoSnapshot
  BY <1>1, FS_EmptySet DEF Rows
<1>2. CASE cache # NoSnapshot
  <2>1. PICK S \in SUBSET submitted, V \in SUBSET verified : cache = Join(S, V)
    BY <1>2 DEF SnapshotInv
  <2>2. IsFiniteSet(S)
    BY FS_Subset DEF SnapshotInv
  <2> DEFINE f == [l \in S |-> RowOf(l, V)]
  <2>3. Join(S, V) = {RowOf(l, V) : l \in S}
    BY DEF Join, RowOf
  <2>4. f \in Surjection(S, Join(S, V))
    <3>1. f \in [S -> Join(S, V)] /\ \A l \in S : f[l] = RowOf(l, V)
      BY <2>3
    <3> HIDE DEF f
    <3> QED
      BY <2>3, <3>1 DEF Surjection
  <2> HIDE DEF f
  <2> QED
    BY <1>2, <2>1, <2>2, <2>4, FS_Surjection DEF Rows
<1> QED
  BY <1>1, <1>2

\* Totals, areas and contributors tell the same story.
LEMMA ViewsTellTheSame ==
  ASSUME SnapshotInv
  PROVE  ViewsAgree
<1> DEFINE area == [r \in Rows |-> AreaOf[r.root]]
           owner == [r \in Rows |-> OwnerOf[r.root]]
<1>1. IsFiniteSet(Rows)
  BY RowsFinite
<1>2. /\ SumOver(ListAreas(Rows), "submitted") = Totals(Rows).submitted
      /\ SumOver(ListAreas(Rows), "settled") = Totals(Rows).settled
      /\ SumOver(ListAreas(Rows), "awaiting") = Totals(Rows).submitted - Totals(Rows).settled
  <2> DEFINE K == {AreaOf[r.root] : r \in Rows}
  <2>1. area \in [Rows -> K] /\ \A r \in Rows : area[r] = AreaOf[r.root]
    OBVIOUS
  <2> HIDE DEF area
  <2>2. \A k \in K : {r \in Rows : area[r] = k} = {r \in Rows : AreaOf[r.root] = k}
    BY <2>1
  <2>3. \A k \in K : ListAreas(Rows)[k] = Summary({r \in Rows : area[r] = k})
    BY <2>2 DEF ListAreas
  <2>4. DOMAIN ListAreas(Rows) = K
    BY DEF ListAreas
  <2> HIDE DEF K
  <2> QED
    BY <1>1, <2>1, <2>3, <2>4, ViewAgrees
<1>3. /\ SumOver(ListContributors(Rows), "submitted") = Totals(Rows).submitted
      /\ SumOver(ListContributors(Rows), "settled") = Totals(Rows).settled
      /\ SumOver(ListContributors(Rows), "awaiting") = Totals(Rows).submitted - Totals(Rows).settled
  <2> DEFINE K == {OwnerOf[r.root] : r \in Rows}
  <2>1. owner \in [Rows -> K] /\ \A r \in Rows : owner[r] = OwnerOf[r.root]
    OBVIOUS
  <2> HIDE DEF owner
  <2>2. \A k \in K : {r \in Rows : owner[r] = k} = {r \in Rows : OwnerOf[r.root] = k}
    BY <2>1
  <2>3. \A k \in K : ListContributors(Rows)[k] = Summary({r \in Rows : owner[r] = k})
    BY <2>2 DEF ListContributors
  <2>4. DOMAIN ListContributors(Rows) = K
    BY DEF ListContributors
  <2> HIDE DEF K
  <2> QED
    BY <1>1, <2>1, <2>3, <2>4, ViewAgrees
<1> QED
  BY <1>2, <1>3 DEF ViewsAgree
---------------------------------------------------------------------------
(* What a contributor is told.                                             *)

\* No more measurements of c are paid for in a snapshot than there are
\* settlements of c on all routes.
LEMMA EarnedBySettlements ==
  ASSUME SnapshotInv, ClaimsInv, cache # NoSnapshot, NEW c
  PROVE  LET mine == {r \in Paid(cache) : OwnerOf[r.root] = c}
         IN  /\ IsFiniteSet(mine) /\ IsFiniteSet({r.root : r \in mine})
             /\ Cardinality({r.root : r \in mine}) <= Cardinality(mine)
             /\ Cardinality({r.root : r \in mine}) <=
                  Cardinality(SettledFor("single", c)) + Cardinality(SettledFor("batch", c))
                    + Cardinality(SettledFor("retired", c))
<1> DEFINE mine == {r \in Paid(cache) : OwnerOf[r.root] = c}
           roots == {r.root : r \in mine}
           mySettlements == SettledFor("single", c) \cup SettledFor("batch", c) \cup SettledFor("retired", c)
           settledRoots == {v.root : v \in mySettlements}
<1>1. IsFiniteSet(mine)
  <2>1. mine \subseteq Rows
    BY DEF Rows, Paid
  <2> HIDE DEF mine
  <2> QED
    BY <2>1, RowsFinite, FS_Subset
<1>2. IsFiniteSet(roots) /\ Cardinality(roots) <= Cardinality(mine)
  <2> DEFINE f == [r \in mine |-> r.root]
  <2> HIDE DEF mine
  <2>1. f \in [mine -> roots] /\ \A r \in mine : f[r] = r.root
    OBVIOUS
  <2>2. f \in Surjection(mine, roots)
    <3> HIDE DEF f
    <3> QED
      BY <2>1 DEF Surjection
  <2> HIDE DEF f, roots
  <2> QED
    BY <1>1, <2>2, FS_Surjection
<1>3. /\ IsFiniteSet(mySettlements)
      /\ Cardinality(mySettlements) <=
           Cardinality(SettledFor("single", c)) + Cardinality(SettledFor("batch", c))
             + Cardinality(SettledFor("retired", c))
  <2> DEFINE A == SettledFor("single", c)
             B == SettledFor("batch", c)
             D == SettledFor("retired", c)
  <2>1. /\ IsFiniteSet(A) /\ IsFiniteSet(B) /\ IsFiniteSet(D)
        /\ Cardinality(A) \in Nat /\ Cardinality(B) \in Nat /\ Cardinality(D) \in Nat
    BY SettledForFinite DEF ClaimsInv
  <2> HIDE DEF A, B, D
  <2>2. /\ IsFiniteSet(A \cup B)
        /\ Cardinality(A \cup B) = Cardinality(A) + Cardinality(B) - Cardinality(A \cap B)
    BY <2>1, FS_Union
  <2>3. /\ IsFiniteSet((A \cup B) \cup D)
        /\ Cardinality((A \cup B) \cup D)
             = Cardinality(A \cup B) + Cardinality(D) - Cardinality((A \cup B) \cap D)
    BY <2>1, <2>2, FS_Union
  <2>4. IsFiniteSet(A \cap B) /\ IsFiniteSet((A \cup B) \cap D)
    BY <2>1, <2>2, FS_Subset
  <2>5. Cardinality(A \cap B) \in Nat /\ Cardinality((A \cup B) \cap D) \in Nat
    BY <2>4, FS_CardinalityType
  <2>6. Cardinality((A \cup B) \cup D) <= Cardinality(A) + Cardinality(B) + Cardinality(D)
    BY <2>1, <2>2, <2>3, <2>5
  <2>7. mySettlements = (A \cup B) \cup D
    BY DEF A, B, D
  <2> HIDE DEF mySettlements
  <2> QED
    BY <2>3, <2>6, <2>7 DEF A, B, D
<1>4. IsFiniteSet(settledRoots) /\ Cardinality(settledRoots) <= Cardinality(mySettlements)
  <2> DEFINE f == [v \in mySettlements |-> v.root]
  <2> HIDE DEF mySettlements
  <2>1. f \in [mySettlements -> settledRoots] /\ \A v \in mySettlements : f[v] = v.root
    OBVIOUS
  <2>2. f \in Surjection(mySettlements, settledRoots)
    <3> HIDE DEF f
    <3> QED
      BY <2>1 DEF Surjection
  <2> HIDE DEF f, settledRoots
  <2> QED
    BY <1>3, <2>2, FS_Surjection
<1>5. roots \subseteq settledRoots
  <2>1. ASSUME NEW r \in mine PROVE \E v \in mySettlements : v.root = r.root
    <3>1. TrueRow(r) /\ r.paidBy # "nobody" /\ OwnerOf[r.root] = c
      BY SnapshotTrue DEF Rows, Paid
    <3>2. Settlements(r.paidBy, r.root) \in verified
      BY <3>1 DEF TrueRow
    <3>3. r.paidBy \in Route
      BY <3>2 DEF Settlements, SnapshotInv, AllSettlements
    <3> QED
      BY <3>1, <3>2, <3>3 DEF Route, Settlements, SettledFor
  <2> HIDE DEF mine, mySettlements
  <2> QED
    BY <2>1
<1> HIDE DEF roots, settledRoots, mySettlements, mine
<1>6. Cardinality(roots) <= Cardinality(settledRoots)
  BY <1>4, <1>5, FS_Subset
<1>7. /\ Cardinality(roots) \in Nat /\ Cardinality(settledRoots) \in Nat
      /\ Cardinality(mySettlements) \in Nat
      /\ Cardinality(SettledFor("single", c)) \in Nat /\ Cardinality(SettledFor("batch", c)) \in Nat
      /\ Cardinality(SettledFor("retired", c)) \in Nat
  BY <1>2, <1>3, <1>4, FS_CardinalityType, SettledForFinite DEF ClaimsInv
<1>8. Cardinality(roots) <= Cardinality(SettledFor("single", c))
        + Cardinality(SettledFor("batch", c)) + Cardinality(SettledFor("retired", c))
  BY <1>3, <1>4, <1>6, <1>7
<1> QED
  BY <1>1, <1>2, <1>8 DEF roots, mine

\* On one route: what was settled for c is what accrued and what was claimed,
\* and nothing is settled on a route that is not deployed.
LEMMA SettledSplits ==
  ASSUME ClaimsInv, NEW route \in Route, NEW c \in Contributor
  PROVE  /\ Cardinality(SettledFor(route, c)) = Accrued(route, c) + claimed[route][c]
         /\ Accrued(route, c) \in Nat /\ claimed[route][c] \in Nat
         /\ route \notin deployment.routes => Cardinality(SettledFor(route, c)) = 0
<1>1. /\ Cardinality(SettledFor(route, c)) \in Nat /\ claimed[route][c] \in Nat
      /\ claimed[route][c] <= Cardinality(SettledFor(route, c))
  BY SettledForFinite DEF ClaimsInv
<1>2. Accrued(route, c) = Cardinality(SettledFor(route, c)) - claimed[route][c]
  BY DEF Accrued, SettledFor
<1>3. route \notin deployment.routes => SettledFor(route, c) = {}
  BY DEF ClaimsInv, SettledFor
<1> QED
  BY <1>1, <1>2, <1>3, FS_EmptySet

\* The statistics computed for c, from the snapshot and the claims.
LEMMA ComputedBounded ==
  ASSUME SnapshotInv, ClaimsInv, NEW c \in Contributor, ComputeStats(c)
  PROVE  stats'[c].unclaimed <= Unclaimed(c) + stats'[c].lost
<1>0. PICK lost \in 0 .. Losable(c) :
        LET earned == Cardinality({r \in Paid(cache) : OwnerOf[r.root] = c})
            left == ClaimedOn(ClaimSources, c) - lost
        IN stats' = [stats EXCEPT ![c] =
             [earned |-> earned, claimed |-> left, lost |-> lost,
              unclaimed |-> IF earned > left THEN earned - left ELSE 0]]
  BY DEF ComputeStats
<1> DEFINE mine == {r \in Paid(cache) : OwnerOf[r.root] = c}
           earned == Cardinality(mine)
           distinct == Cardinality({r.root : r \in mine})
           withdrawn == ClaimedOn(ClaimSources, c)
           N(r) == Cardinality(SettledFor(r, c))
           left == withdrawn - lost
           new == [earned |-> earned, claimed |-> left, lost |-> lost,
                   unclaimed |-> IF earned > left THEN earned - left ELSE 0]
<1>1. cache # NoSnapshot /\ stats' = [stats EXCEPT ![c] = new]
  BY <1>0 DEF ComputeStats
<1>2. stats'[c] = new
  <2> HIDE DEF new
  <2> QED
    BY <1>1 DEF ClaimsInv
<1>3. /\ stats'[c].unclaimed = IF earned > left THEN earned - left ELSE 0
      /\ stats'[c].lost = lost
  <2> HIDE DEF earned, left
  <2> QED
    BY <1>2
<1>4. /\ distinct <= earned /\ distinct \in Nat /\ earned \in Nat
      /\ distinct <= N("single") + N("batch") + N("retired")
  <2>1. /\ IsFiniteSet(mine) /\ IsFiniteSet({r.root : r \in mine})
        /\ distinct <= earned
        /\ distinct <= N("single") + N("batch") + N("retired")
    BY <1>1, EarnedBySettlements
  <2> HIDE DEF mine, N
  <2> QED
    BY <2>1, FS_CardinalityType
<1>5. Doubled(c) = earned - distinct
  BY DEF Doubled
<1>6. /\ "single" \in Route /\ "batch" \in Route /\ "retired" \in Route
  BY DEF Route
<1>7. ASSUME NEW r \in Route
      PROVE  /\ N(r) = Accrued(r, c) + claimed[r][c]
             /\ Accrued(r, c) \in Nat /\ claimed[r][c] \in Nat
             /\ r \notin deployment.routes => N(r) = 0
  BY SettledSplits
<1>8. Owed(c) = (IF "single" \in deployment.routes THEN Accrued("single", c) ELSE 0)
              + (IF "batch" \in deployment.routes THEN Accrued("batch", c) ELSE 0)
              + (IF "retired" \in deployment.routes THEN Accrued("retired", c) ELSE 0)
  <2> DEFINE amount == [r \in Route |-> Accrued(r, c)]
  <2>1. \A r \in Route : amount[r] = Accrued(r, c)
    OBVIOUS
  <2> HIDE DEF amount
  <2>2. Owed(c) = AcrossRoutes(deployment.routes, amount)
    BY DEF Owed, amount
  <2> QED
    BY <1>6, <2>1, <2>2 DEF AcrossRoutes
<1>9. withdrawn = (IF "single" \in deployment.routes THEN claimed["single"][c] ELSE 0)
                + (IF "batch" \in deployment.routes THEN claimed["batch"][c] ELSE 0) + 0
  <2> DEFINE amount == [r \in Route |-> claimed[r][c]]
  <2>1. \A r \in Route : amount[r] = claimed[r][c]
    OBVIOUS
  <2> HIDE DEF amount
  <2>2. withdrawn = AcrossRoutes(Configured, amount)
    BY DEF ClaimedOn, ClaimSources, amount
  <2>3. /\ "single" \in Configured <=> "single" \in deployment.routes
        /\ "batch" \in Configured <=> "batch" \in deployment.routes
        /\ "retired" \notin Configured
    BY DEF Configured
  <2> HIDE DEF withdrawn
  <2> QED
    BY <1>6, <2>1, <2>2, <2>3 DEF AcrossRoutes
<1> DEFINE accruedOn(r) == IF r \in deployment.routes THEN Accrued(r, c) ELSE 0
           claimedOn(r) == IF r \in deployment.routes THEN claimed[r][c] ELSE 0
<1>17. lost \in Nat /\ (lost <= withdrawn \/ lost = 0)
  <2>1. Losable(c) = withdrawn \/ Losable(c) = 0
    BY DEF Losable
  <2> HIDE DEF withdrawn
  <2> QED
    BY <1>0, <2>1
<1> HIDE DEF earned, distinct, withdrawn, N, mine, new
<1>10. ASSUME NEW r \in Route
       PROVE  /\ accruedOn(r) \in Nat /\ claimedOn(r) \in Nat
              /\ claimedOn(r) <= claimed[r][c] /\ N(r) = accruedOn(r) + claimedOn(r)
  BY <1>7
<1>11. /\ Owed(c) = accruedOn("single") + accruedOn("batch") + accruedOn("retired")
       /\ withdrawn = claimedOn("single") + claimedOn("batch") + 0
  BY <1>8, <1>9
<1> HIDE DEF accruedOn, claimedOn
<1>12. /\ Owed(c) \in Nat /\ withdrawn \in Nat /\ claimed["retired"][c] \in Nat
       /\ N("single") + N("batch") + N("retired") <= Owed(c) + withdrawn + claimed["retired"][c]
  BY <1>6, <1>7, <1>10, <1>11
<1>13. \A n \in Nat : distinct <= n /\ n <= Owed(c) + withdrawn + claimed["retired"][c]
         => distinct <= Owed(c) + withdrawn + claimed["retired"][c]
  BY <1>4, <1>12
<1>14. N("single") + N("batch") + N("retired") \in Nat
  BY <1>6, <1>10
<1>15. distinct <= Owed(c) + withdrawn + claimed["retired"][c]
  BY <1>4, <1>12, <1>13, <1>14
<1>16. \A e, d, w, o, x, z \in Nat : d <= e /\ d <= o + w + x /\ (z <= w \/ z = 0) =>
         (IF e > w - z THEN e - (w - z) ELSE 0) <= o + x + (e - d) + z
  OBVIOUS
<1> QED
  BY <1>3, <1>4, <1>5, <1>12, <1>15, <1>16, <1>17 DEF Unclaimed
---------------------------------------------------------------------------
(* The properties.                                                         *)

\* Whatever reads lost, keys expired and connections dropped: the rows on a
\* page or in a saved export are true, the views of them agree, and nobody
\* saved a row before a key was paid for.
THEOREM OnlyTruthServed == PortalSpec => []ServedIsTrue
<1>1. ASSUME PortalInv PROVE ServedIsTrue
  <2>1. \A r \in Rows : TrueRow(r)
    BY <1>1, SnapshotTrue DEF PortalInv
  <2>2. Backed(file)
    BY <1>1 DEF PortalInv, ExportInv
  <2> QED
    BY <1>1, <2>1, <2>2, ViewsTellTheSame DEF PortalInv, Backed, ServedIsTrue, FileRows
<1> QED
  BY <1>1, PortalInvAlways, PTL

\* A key is only ever handed to the account whose transfer reached the pool and
\* was worth the price in force, and runs for the full term in force from its
\* block, but no longer than that from the redemption, whatever is switched,
\* repeated, typed in, repriced or lost on the way.
THEOREM NoKeyUnpaid == PortalSpec => []KeysArePaidFor
<1>1. PortalInv => KeysArePaidFor
  BY DEF PortalInv, BuyInv, Earned, KeysArePaidFor
<1> QED
  BY <1>1, PortalInvAlways, PTL

\* Where every deploy block is recorded, a snapshot that shows all the chains hold
\* is never given up for one that shows less or something else, although only two
\* totals are compared.
THEOREM FullSnapshotStays == PortalSpec => TruthSticks
<1> DEFINE Kept == Recorded /\ cache # NoSnapshot /\ Standing(cache) = Truth /\ UNCHANGED chains
                     => Standing(cache') = Truth
           T == SubmissionsInReach(head)
           W == InReach(head)
<1>1. ASSUME SnapshotInv, [ReadNext]_readVars PROVE [Kept]_readVars
  <2> SUFFICES ASSUME Recorded, cache # NoSnapshot, Standing(cache) = Truth, UNCHANGED chains
               PROVE  Standing(cache') = Truth
    OBVIOUS
  <2>1. CASE cache' = cache
    BY <2>1
  <2>2. ASSUME NEW S \in SUBSET SubmissionsInReach(asked), NEW V \in SUBSET InReach(asked),
               FinishRead(S, V), cache' # cache
        PROVE  Standing(cache') = Truth
    <3>0. scannedFrom = ScanStart(asked)
      BY <1>1, StartRecorded DEF SnapshotInv, Registry
    <3>1. cache' = Join(S, V) /\ ~Shrank(cache, Join(S, V))
      BY <2>2, <3>0 DEF FinishRead, ReconcileSnapshot
    <3>2. PICK S0 \in SUBSET submitted, V0 \in SUBSET verified : cache = Join(S0, V0)
      BY <1>1 DEF SnapshotInv
    <3> HIDE DEF T, W
    <3>a. S \in SUBSET T /\ V \in SUBSET W
      BY <1>1, ReachGrows DEF T, W
    <3>b. T \in SUBSET submitted /\ W \in SUBSET verified
      BY DEF T, W, SubmissionsInReach, InReach
    <3>3. /\ T \in SUBSET Submissions /\ IsFiniteSet(T)
          /\ W \in SUBSET AllSettlements
          /\ S \in SUBSET Submissions /\ V \in SUBSET AllSettlements
          /\ S0 \in SUBSET Submissions /\ V0 \in SUBSET AllSettlements
      BY <1>1, <3>a, <3>b, FS_Subset DEF SnapshotInv
    <3>4. S0 = T /\ SettledOf(S0, V0) = SettledOf(T, W)
      BY <3>2, <3>3, SameStanding DEF Truth, T, W
    <3>5. IsFiniteSet(S) /\ IsFiniteSet(SettledOf(T, W))
      BY <3>a, <3>3, FS_Subset DEF SettledOf
    <3>6. /\ Cardinality(cache) = Cardinality(T)
          /\ Cardinality(Paid(cache)) = Cardinality(SettledOf(T, W))
      BY <3>2, <3>3, <3>4, JoinCounts
    <3>7. /\ Cardinality(Join(S, V)) = Cardinality(S)
          /\ Cardinality(Paid(Join(S, V))) = Cardinality(SettledOf(S, V))
      BY <3>3, <3>5, JoinCounts
    <3>8. SettledOf(S, V) \in SUBSET SettledOf(T, W)
      BY <3>a DEF SettledOf, Settles
    <3>9. /\ Cardinality(S) \in Nat /\ Cardinality(T) \in Nat
          /\ Cardinality(SettledOf(S, V)) \in Nat
          /\ Cardinality(SettledOf(T, W)) \in Nat
      BY <3>3, <3>5, <3>8, FS_Subset, FS_CardinalityType
    <3>10. /\ Cardinality(S) >= Cardinality(T)
           /\ Cardinality(SettledOf(S, V)) >= Cardinality(SettledOf(T, W))
      BY <3>1, <3>6, <3>7, <3>9 DEF Shrank, Totals
    <3>11. S = T
      BY <3>a, <3>3, <3>9, <3>10, FS_Subset
    <3>12. SettledOf(S, V) = SettledOf(T, W)
      BY <3>5, <3>8, <3>9, <3>10, FS_Subset
    <3>13. Standing(Join(S, V)) = Standing(Join(T, W))
      <4>1. Standing(Join(S, V)) = {[registry |-> l.registry, root |-> l.root,
                                     paid |-> l \in SettledOf(S, V)] : l \in S}
        BY <3>3, StandingOfJoin
      <4>2. Standing(Join(T, W)) =
              {[registry |-> l.registry, root |-> l.root,
                paid |-> l \in SettledOf(T, W)] : l \in T}
        BY <3>3, StandingOfJoin
      <4> QED
        BY <3>11, <3>12, <4>1, <4>2
    <3> QED
      BY <3>1, <3>13 DEF Truth, T, W
  <2>4. CASE \/ \E registry \in deployment.registries, root \in deployment.roots :
                  Register(registry, root)
             \/ \E route \in deployment.routes, root \in deployment.roots : Settle(route, root)
    BY <2>1, <2>4 DEF Register, Settle, reader
  <2> QED
    BY <1>1, <2>1, <2>2, <2>4, ReadSteps
<1> HIDE DEF Kept
<1>2. PortalInv /\ [PortalNext]_portalVars => [Kept]_readVars
  BY <1>1, PortalSteps DEF PortalInv
<1> QED
  BY <1>2, PortalInvAlways, PTL DEF PortalSpec, TruthSticks, Kept

\* Claims, withdrawals and settlements between the read of the snapshot and
\* that of the claims: no more is called unclaimed than is owed, save for what
\* a retired route paid out, for measurements registered twice, and for claims
\* that the scan for them lost.
THEOREM UnclaimedStaysBounded == PortalSpec => UnclaimedBounded
<1> DEFINE Bounded == \A c \in Contributor :
             stats[c] = NoStats /\ stats'[c] # NoStats =>
               stats'[c].unclaimed <= Unclaimed(c) + stats'[c].lost
<1>1. ASSUME PortalInv, [PortalNext]_portalVars PROVE [Bounded]_readVars
  <2> SUFFICES ASSUME NEW c \in Contributor, stats[c] = NoStats, stats'[c] # NoStats
               PROVE  stats'[c].unclaimed <= Unclaimed(c) + stats'[c].lost
    OBVIOUS
  <2>1. [ReadNext]_readVars
    BY <1>1, PortalSteps
  <2>2. PICK d \in deployment.people : ComputeStats(d) \/ ExpireStats(d)
    BY <2>1 DEF ReadNext, ChainStep, NewBlocks, Register, Settle, ReaderStep, StartRead, CompleteRead, LossyRead,
       FinishRead, FailRead, Expire, StatsStep, ClaimStep, ClaimDirectly, Withdraw, PanelStep,
       FetchRewards, ClickClaim, readVars
  <2>3. DOMAIN stats = Contributor
    BY <1>1 DEF PortalInv, ClaimsInv
  <2>4. d = c /\ ComputeStats(d)
    BY <2>2, <2>3 DEF ComputeStats, ExpireStats
  <2> QED
    BY <1>1, <2>4, ComputedBounded DEF PortalInv
<1> QED
  BY <1>1, PortalInvAlways, PTL DEF PortalSpec, UnclaimedBounded
============================================================================
