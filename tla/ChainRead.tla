------------------------------ MODULE ChainRead ------------------------------
(***************************************************************************)
(* The on-chain read model, server/signalproof/chainRead.ts: the snapshot  *)
(* that joins the registries' submissions with the settlements of every    *)
(* route, kept in memory and refreshed from RPCs that lose logs without    *)
(* saying so, and what is derived from it for one contributor.             *)
(*                                                                         *)
(* A log is the record of what it says, and the block it is in; its place  *)
(* in the block and the measured values are left out.  Both chains count   *)
(* the same blocks.  Every settlement pays one unit: the amounts are the   *)
(* settlement modules' subject.  A scan may come back with any part of the *)
(* logs (EMPTY_RETRIES makes that rarer, not impossible).                  *)
(***************************************************************************)
EXTENDS Naturals, FiniteSets

CONSTANTS
  Root,          \* measurements that may be registered
  Contributor,
  OwnerOf,       \* the contributor a measurement names
  AreaOf,        \* the cell it was made in
  Deployments,   \* the deployments considered
  MAX_LOOKBACK_BLOCKS,
  NoSnapshot,    \* nothing was read yet
  NoStats        \* no statistics are cached

Registry == {"old", "current"}              \* retired one first
Route    == {"single", "batch", "retired"}
Logs == [registry : Registry, root : Root] \cup [route : Route, root : Root]

ReadAssumption ==
  /\ OwnerOf \in [Root -> Contributor]
  /\ DOMAIN AreaOf = Root
  /\ \A d \in Deployments :
       /\ d.registries \subseteq Registry /\ d.routes \subseteq Route
       /\ d.roots \subseteq Root /\ d.people \subseteq Contributor
       /\ d.deployed \in Nat /\ d.heads \in Nat
  /\ MAX_LOOKBACK_BLOCKS \in Nat

ASSUME ReadAssumption

VARIABLES
  deployment,   \* [registries, routes, recorded, deployed, heads, roots, people, pool, uses]
  head,         \* the chains' height
  since,        \* the block each log is in
  submitted,    \* MeasurementSubmitted logs of the registries
  verified,     \* MeasurementVerified logs of the routes
  claimed,      \* RewardClaimed, summed per route and contributor
  pool,         \* balance of each route
  cache,        \* the snapshot being served
  scannedFrom,  \* where its scans began
  fresh,        \* it is younger than CACHE_TTL_MS
  inflight,     \* a read is under way, for whoever asks meanwhile
  asked,        \* the height it was started at
  lastError,    \* snapshotHealth.lastError
  stats,        \* contributorCache
  panel         \* the claim buttons a contributor's page shows enabled

heights == <<head, since>>
chains == <<heights, submitted, verified, claimed, pool>>
reader == <<cache, scannedFrom, fresh, inflight, asked, lastError>>
readVars == <<deployment, chains, reader, stats, panel>>

---------------------------------------------------------------------------
(* The chains, as the contracts leave them.                                *)

Configured == deployment.routes \ {"retired"}
RegisteredRoots == {l.root : l \in submitted}
Settlements(route, root) == [route |-> route, root |-> root]
PaidOn(root) == {l.route : l \in {v \in verified : v.root = root}}

\* rewards(contributor) of one route.
Accrued(route, c) ==
  Cardinality({v \in verified : v.route = route /\ OwnerOf[v.root] = c}) - claimed[route][c]

NewBlocks ==
  /\ head < deployment.heads
  /\ head' = head + 1
  /\ UNCHANGED <<deployment, since, submitted, verified, claimed, pool, reader, stats, panel>>

\* The block a contract was deployed in: the replaced ones came first.
DeployBlock(contract) ==
  IF contract \in {"old", "retired"} THEN 0 ELSE deployment.deployed

\* The signed text does not name the registry, so a root may be in both.
Register(registry, root) ==
  LET l == [registry |-> registry, root |-> root]
  IN /\ head >= DeployBlock(registry)
     /\ l \notin submitted
     /\ submitted' = submitted \cup {l}
     /\ since' = [since EXCEPT ![l] = head]
     /\ UNCHANGED <<deployment, head, verified, claimed, pool, reader, stats, panel>>

\* The batch route defers to its siblings; the others know of none.
Settle(route, root) ==
  /\ head >= DeployBlock(route)
  /\ root \in RegisteredRoots
  /\ route \notin PaidOn(root)
  /\ route = "batch" => PaidOn(root) = {}
  /\ verified' = verified \cup {Settlements(route, root)}
  /\ since' = [since EXCEPT ![Settlements(route, root)] = head]
  /\ UNCHANGED <<deployment, head, submitted, claimed, pool, reader, stats, panel>>

\* claim(): all that accrued on this route, or a revert.
Pays(route, c) == Accrued(route, c) > 0 /\ pool[route] >= Accrued(route, c)

PayOut(route, c) ==
  /\ claimed' = [claimed EXCEPT ![route][c] = @ + Accrued(route, c)]
  /\ pool' = [pool EXCEPT ![route] = @ - Accrued(route, c)]

\* A contributor claims without the dashboard, on any route.
ClaimDirectly(route, c) ==
  /\ Pays(route, c)
  /\ PayOut(route, c)
  /\ UNCHANGED <<deployment, heights, submitted, verified, reader, stats, panel>>

\* The owner takes what the pool holds.
Withdraw(route) ==
  /\ pool[route] > 0
  /\ pool' = [pool EXCEPT ![route] = 0]
  /\ UNCHANGED <<deployment, heights, submitted, verified, claimed, reader, stats, panel>>

---------------------------------------------------------------------------
(* The snapshot.                                                           *)

RouteOrder == [single |-> 1, batch |-> 2, retired |-> 3]

\* Mutation of PaidBy: a settlement of any root will do.
PaidByAny(root, logs) ==
  IF logs = {} THEN "nobody" ELSE (CHOOSE v \in logs : TRUE).route

\* settledByRoot: the routes are read in order and the last one is kept.
PaidBy(root, logs) ==
  LET routes == {v.route : v \in {w \in logs : w.root = root}}
  IN IF routes = {} THEN "nobody"
     ELSE CHOOSE r \in routes : \A s \in routes : RouteOrder[s] <= RouteOrder[r]

\* One row for each submission log.
Join(submissions, settlements) ==
  {[registry |-> l.registry, root |-> l.root,
    paidBy |-> PaidBy(l.root, settlements)] : l \in submissions}

Paid(rows) == {r \in rows : r.paidBy # "nobody"}

Totals(rows) ==
  [submitted    |-> Cardinality(rows),
   settled      |-> Cardinality(Paid(rows)),
   contributors |-> Cardinality({OwnerOf[r.root] : r \in rows}),
   rewardsPaid  |-> Cardinality(Paid(rows))]

\* Mutation of Shrank: only the submissions are compared.
ShrankInSubmissions(previous, next) ==
  Totals(next).submitted < Totals(previous).submitted

\* Mutation of Shrank: an answer of the same size is refused as well.
ShrankOrStood(previous, next) ==
  \/ Totals(next).submitted < Totals(previous).submitted
  \/ Totals(next).settled <= Totals(previous).settled

Shrank(previous, next) ==
  \/ Totals(next).submitted < Totals(previous).submitted
  \/ Totals(next).settled < Totals(previous).settled

\* A log cannot disappear, so a smaller answer to the same scan is a failed
\* read.  The answer to another scan cannot be compared, and is taken.
ReconcileSnapshot(previous, next, sameScan) ==
  IF previous # NoSnapshot /\ sameScan /\ Shrank(previous, next) THEN previous ELSE next

\* Every configured contract's deploy block was recorded.
Recorded == {"current", "single", "batch"} \subseteq deployment.recorded

\* startBlockFor: from the deploy block, where it was recorded, or else a
\* window behind the head.  A retired registry is listed with its block.
Start(contract, h) ==
  IF contract \in deployment.recorded \cup {"old"} THEN DeployBlock(contract)
  ELSE IF h > MAX_LOOKBACK_BLOCKS THEN h - MAX_LOOKBACK_BLOCKS ELSE 0

\* A retired route is scanned from where the single one is.
RouteStart(route, h) == Start(IF route = "retired" THEN "single" ELSE route, h)

\* scannedFromBlock: on Sepolia, from the earliest registry on.
ScanStart(h) ==
  [sepolia    |-> IF "old" \in deployment.registries THEN Start("old", h) ELSE Start("current", h),
   creditcoin |-> Start("single", h)]

\* The routes a read scans: a retired one is known from the batch route's list.
Scanned ==
  IF "batch" \in deployment.routes THEN deployment.routes ELSE Configured

\* What scans that begin at this height can find.
SubmissionsInReach(h) ==
  {l \in submitted : since[l] \in Start(l.registry, h) .. h}
InReach(h) ==
  {v \in verified : v.route \in Scanned /\ since[v] \in RouteStart(v.route, h) .. h}

\* A caller that finds no fresh snapshot, or forces a read, starts one unless
\* one is under way.  Whoever has a snapshot already is served that.
StartRead(force) ==
  /\ head >= deployment.deployed
  /\ ~inflight
  /\ force \/ cache = NoSnapshot \/ ~fresh
  /\ inflight' = TRUE /\ asked' = head
  /\ UNCHANGED <<deployment, chains, cache, scannedFrom, fresh, lastError, stats, panel>>

\* The scans answer with these logs.
FinishRead(submissions, settlements) ==
  LET snapshot == Join(submissions, settlements)
  IN /\ inflight
     /\ cache' = ReconcileSnapshot(cache, snapshot, scannedFrom = ScanStart(asked))
     /\ scannedFrom' = ScanStart(asked)
     /\ lastError' = IF cache' = snapshot THEN "none" ELSE "fewer logs than served"
     /\ fresh' = TRUE
     /\ inflight' = FALSE
     /\ UNCHANGED <<deployment, chains, asked, stats, panel>>

CompleteRead == FinishRead(SubmissionsInReach(asked), InReach(asked))

\* Some logs are missing: lost by an RPC that answers with nothing, or with a
\* part.
LossyRead ==
  \E submissions \in SUBSET SubmissionsInReach(asked), settlements \in SUBSET InReach(asked) :
    /\ <<submissions, settlements>> # <<SubmissionsInReach(asked), InReach(asked)>>
    /\ FinishRead(submissions, settlements)

\* A call of the read fails: what is served stays, for another CACHE_TTL_MS.
FailRead ==
  /\ inflight
  /\ lastError' = "failed"
  /\ fresh' = (cache # NoSnapshot)
  /\ inflight' = FALSE
  /\ UNCHANGED <<deployment, chains, cache, scannedFrom, asked, stats, panel>>

Expire ==
  /\ fresh
  /\ fresh' = FALSE
  /\ UNCHANGED <<deployment, chains, cache, scannedFrom, inflight, asked, lastError, stats, panel>>

---------------------------------------------------------------------------
(* Views of the snapshot.                                                  *)

Rows == IF cache = NoSnapshot THEN {} ELSE cache

\* Mutation of Summary: each measurement is counted once.
SummaryOfRoots(rows) ==
  [submitted |-> Cardinality({r.root : r \in rows}),
   settled   |-> Cardinality(Paid(rows)),
   awaiting  |-> Cardinality(rows) - Cardinality(Paid(rows))]

\* summarize, coverage and listContributors count the rows of one group.
Summary(rows) ==
  [submitted |-> Cardinality(rows),
   settled   |-> Cardinality(Paid(rows)),
   awaiting  |-> Cardinality(rows) - Cardinality(Paid(rows))]

ListAreas(rows) ==
  [a \in {AreaOf[r.root] : r \in rows} |-> Summary({r \in rows : AreaOf[r.root] = a})]

ListContributors(rows) ==
  [c \in {OwnerOf[r.root] : r \in rows} |-> Summary({r \in rows : OwnerOf[r.root] = c})]

---------------------------------------------------------------------------
(* One contributor: what was earned and claimed, and what can be claimed.  *)

\* Mutation of ClaimSources: the claims of the batch route are not read.
ClaimSourcesSingle == Configured \ {"batch"}

\* The routes whose RewardClaimed logs are scanned.
ClaimSources == Configured

\* The sum over some routes of an amount each route has.
AcrossRoutes(routes, amount) ==
  LET of(r) == IF r \in routes THEN amount[r] ELSE 0
  IN of("single") + of("batch") + of("retired")

ClaimedOn(routes, c) == AcrossRoutes(routes, [r \in Route |-> claimed[r][c]])

\* The rewards claimed that a scan for claims may come back without: any, as
\* in a read of the snapshot, or what lies behind the window.
Losable(c) ==
  IF "loss" \in deployment.uses \/ (~Recorded /\ head > MAX_LOOKBACK_BLOCKS)
    THEN ClaimedOn(ClaimSources, c)
    ELSE 0

\* computeContributorStats, with the snapshot served by now.  A failing scan
\* makes it an error, which is not cached.  That some claims were lost is not
\* known to the code: "lost" is kept for the property.
ComputeStats(c) ==
  /\ stats[c] = NoStats
  /\ cache # NoSnapshot
  /\ \E lost \in 0 .. Losable(c) :
       LET earned == Cardinality({r \in Paid(cache) : OwnerOf[r.root] = c})
           withdrawn == ClaimedOn(ClaimSources, c) - lost
       IN stats' = [stats EXCEPT ![c] =
            [earned |-> earned, claimed |-> withdrawn, lost |-> lost,
             unclaimed |-> IF earned > withdrawn THEN earned - withdrawn ELSE 0]]
  /\ UNCHANGED <<deployment, chains, reader, panel>>

\* CONTRIBUTOR_CACHE_TTL_MS passes.
ExpireStats(c) ==
  /\ stats[c] # NoStats
  /\ stats' = [stats EXCEPT ![c] = NoStats]
  /\ UNCHANGED <<deployment, chains, reader, panel>>

\* Mutation of Claimable: the rewards of one contract are read.
ClaimableSingle(c) == {r \in {"single"} : Pays(r, c)}

\* getRewardsFor: the routes this address can withdraw from.
Claimable(c) == {r \in Configured : Pays(r, c)}

\* The page reads the rewards, every 20 s and after a claim.
FetchRewards(c) ==
  /\ panel[c] # Claimable(c)
  /\ panel' = [panel EXCEPT ![c] = Claimable(c)]
  /\ UNCHANGED <<deployment, chains, reader, stats>>

\* A click on a route's button: the contract pays, or reverts because the page
\* is out of date.  The buttons stay as they are until the next read.
ClickClaim(route, c) ==
  /\ route \in panel[c]
  /\ Pays(route, c)
  /\ PayOut(route, c)
  /\ UNCHANGED <<deployment, heights, submitted, verified, reader, stats, panel>>

---------------------------------------------------------------------------
ReadInit ==
  /\ deployment \in Deployments
  /\ head = 0 /\ since = [l \in Logs |-> 0]
  /\ submitted = {} /\ verified = {}
  /\ claimed = [r \in Route |-> [c \in Contributor |-> 0]]
  /\ pool = [r \in Route |-> IF r \in deployment.routes THEN deployment.pool ELSE 0]
  /\ cache = NoSnapshot /\ scannedFrom = ScanStart(0)
  /\ fresh = FALSE /\ inflight = FALSE /\ asked = 0 /\ lastError = "none"
  /\ stats = [c \in Contributor |-> NoStats]
  /\ panel = [c \in Contributor |-> {}]

ChainStep ==
  \/ NewBlocks
  \/ \E registry \in deployment.registries, root \in deployment.roots : Register(registry, root)
  \/ \E route \in deployment.routes, root \in deployment.roots : Settle(route, root)

ReaderStep ==
  /\ "reader" \in deployment.uses
  /\ \/ \E force \in BOOLEAN : StartRead(force)
     \/ CompleteRead
     \/ "loss" \in deployment.uses /\ (LossyRead \/ FailRead)
     \/ Expire

StatsStep ==
  /\ "stats" \in deployment.uses
  /\ \E c \in deployment.people :
       \/ ComputeStats(c)
       \/ ExpireStats(c)

\* Contributors withdraw, and the owner of the pools does.
ClaimStep ==
  /\ "claims" \in deployment.uses
  /\ \/ \E route \in deployment.routes, c \in Contributor : ClaimDirectly(route, c)
     \/ \E route \in deployment.routes : Withdraw(route)

\* One who uses the page that shows the rewards.
PanelStep ==
  /\ "panel" \in deployment.uses
  /\ \E c \in deployment.people :
       \/ FetchRewards(c)
       \/ \E route \in Configured : ClickClaim(route, c)

ReadNext == ChainStep \/ ReaderStep \/ StatsStep \/ ClaimStep \/ PanelStep

\* Pages poll, so a stale snapshot is read again; timers run; the chains go on;
\* and an RPC that is asked again and again also answers completely again and
\* again.
ReadFairness ==
  /\ WF_readVars("reader" \in deployment.uses /\ NewBlocks)
  /\ WF_readVars("reader" \in deployment.uses /\ (StartRead(FALSE) \/ Expire))
  /\ SF_readVars("reader" \in deployment.uses /\ CompleteRead)

\* A page reads the rewards every 20 s, and a contributor uses its buttons.
ClaimFairness ==
  \A c \in Contributor :
    /\ WF_readVars("panel" \in deployment.uses /\ c \in deployment.people /\ FetchRewards(c))
    /\ WF_readVars("panel" \in deployment.uses /\ c \in deployment.people
                     /\ \E route \in Configured : ClickClaim(route, c))

ReadSpec == ReadInit /\ [][ReadNext]_readVars /\ ReadFairness /\ ClaimFairness

---------------------------------------------------------------------------
(* Properties.                                                             *)

ReadTypeOK ==
  /\ deployment \in Deployments
  /\ head \in 0 .. deployment.heads /\ asked \in 0 .. head
  /\ since \in [Logs -> 0 .. head]
  /\ scannedFrom \in [sepolia : Nat, creditcoin : Nat]
  /\ submitted \subseteq [registry : Registry, root : Root]
  /\ verified \subseteq [route : Route, root : Root]
  /\ claimed \in [Route -> [Contributor -> Nat]]
  /\ pool \in [Route -> Nat]
  /\ cache = NoSnapshot \/
       cache \subseteq [registry : Registry, root : Root, paidBy : Route \cup {"nobody"}]
  /\ fresh \in BOOLEAN
  /\ inflight \in BOOLEAN
  /\ lastError \in {"none", "failed", "fewer logs than served"}
  /\ \A c \in Contributor :
       /\ stats[c] = NoStats \/ stats[c] \in [earned : Nat, claimed : Nat, lost : Nat, unclaimed : Nat]
       /\ panel[c] \subseteq Route

\* Whatever the RPCs lose and whenever the two heads were taken, a row served
\* is a registered measurement, and a paid one was paid by the route it names.
TrueRow(r) ==
  /\ [registry |-> r.registry, root |-> r.root] \in submitted
  /\ r.paidBy # "nobody" => Settlements(r.paidBy, r.root) \in verified

\* What is registered and what of it is paid, whichever route paid, as far as
\* scans reach.
Standing(rows) == {[registry |-> r.registry, root |-> r.root,
                    paid |-> r.paidBy # "nobody"] : r \in rows}

Truth == Standing(Join(SubmissionsInReach(head), InReach(head)))

\* Where every deploy block is recorded, a snapshot that shows all the chains
\* hold is never given up for one that shows less or something else, although
\* only two totals are compared.
TruthSticks ==
  [][Recorded /\ cache # NoSnapshot /\ Standing(cache) = Truth /\ UNCHANGED chains
       => Standing(cache') = Truth]_readVars

\* Where every deploy block is recorded, reads that fail, lose logs or trade one
\* for another delay the dashboard, but once the chains are quiet it shows what
\* they hold, for good.
CatchesUp ==
  Recorded /\ "reader" \in deployment.uses
    => <>[](cache # NoSnapshot /\ Standing(cache) = Truth)

\* The sum of one field, counted unit by unit.
SumOver(summaries, field) ==
  Cardinality(UNION {{k} \X (1 .. summaries[k][field]) : k \in DOMAIN summaries})

\* The totals, the coverage by area and the list of contributors are computed
\* apart from one another, and tell the same story.
ViewsAgree ==
  \A view \in {ListAreas(Rows), ListContributors(Rows)} :
    /\ SumOver(view, "submitted") = Totals(Rows).submitted
    /\ SumOver(view, "settled") = Totals(Rows).settled
    /\ SumOver(view, "awaiting") = Totals(Rows).submitted - Totals(Rows).settled

Owed(c) == AcrossRoutes(deployment.routes, [r \in Route |-> Accrued(r, c)])

\* Rows counted more than once: a root that is in both registries.
Doubled(c) ==
  LET mine == {r \in Paid(cache) : OwnerOf[r.root] = c}
  IN Cardinality(mine) - Cardinality({r.root : r \in mine})

\* The most that can be called unclaimed when no claim is missed: what is owed,
\* and two things the code does count, rewards claimed from a retired route and
\* measurements registered twice.
Unclaimed(c) == Owed(c) + claimed["retired"][c] + Doubled(c)

\* Whatever was claimed, withdrawn and settled while the snapshot and the claims
\* were read apart, no more is called unclaimed than that and what the scan for
\* claims lost: a third exception, which the code does not know of.
UnclaimedBounded ==
  [][\A c \in Contributor :
       stats[c] = NoStats /\ stats'[c] # NoStats =>
         stats'[c].unclaimed <= Unclaimed(c) + stats'[c].lost]_readVars

\* Whoever keeps using the page is paid all that the configured routes owe,
\* each from its own balance, unless a pool runs short.
RewardsReachTheirOwner ==
  \A c \in Contributor :
    "panel" \in deployment.uses /\ c \in deployment.people
      ~> \A route \in Configured : ~Pays(route, c)
============================================================================
