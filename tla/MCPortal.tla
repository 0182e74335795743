----------------------------- MODULE MCPortal -----------------------------
(* Small instances of Portal: the chain reader and the rewards' pages in   *)
(* detail, the purchase in detail, and an export that needs all of them.   *)
EXTENDS Portal, TLC

CONSTANTS r1, r2, alice, bob, t1

Owners == (r1 :> alice) @@ (r2 :> bob)
Cells  == (r1 :> "here") @@ (r2 :> "here")

Nothing ==
  [registries |-> {}, routes |-> {}, recorded |-> {"current", "single", "batch"}, deployed |-> 0,
   heads |-> 0, roots |-> {}, people |-> {}, pool |-> 0, uses |-> {}]

\* Snapshots joined from two routes, and from two registries.
TwoRoutes ==
  [Nothing EXCEPT !.registries = {"current"}, !.routes = {"single", "batch"},
     !.roots = {r1, r2}, !.uses = {"reader", "loss"}]
TwoRegistries ==
  [TwoRoutes EXCEPT !.registries = {"old", "current"}, !.routes = {"single"}]

\* Everything was deployed anew, and old routes have settled before.
Redeployed ==
  [TwoRoutes EXCEPT !.registries = {"old", "current"}, !.routes = {"single", "batch", "retired"},
     !.deployed = 1, !.heads = 1, !.roots = {r1}]

\* No deploy block is recorded: scans begin behind a moving head.
Fallback == [TwoRoutes EXCEPT !.recorded = {}, !.heads = 2, !.roots = {r1}]

\* One contributor's statistics, with claims made meanwhile.
Statistics ==
  [Nothing EXCEPT !.registries = {"current"}, !.routes = {"single", "batch", "retired"},
     !.roots = {r1}, !.people = {alice}, !.pool = 1, !.uses = {"reader", "stats", "claims"}]
LostClaims ==
  [Statistics EXCEPT !.routes = {"single", "batch"}, !.uses = @ \cup {"loss"}]

DoubledRows ==
  [Statistics EXCEPT !.registries = {"old", "current"}, !.routes = {"single"}]

\* Two contributors claim from their pages, and others do.
ClaimPage ==
  [Nothing EXCEPT !.registries = {"current"}, !.routes = {"single", "batch"},
     !.roots = {r1, r2}, !.people = {alice, bob}, !.pool = 1, !.uses = {"panel", "claims"}]

Exports ==
  [Nothing EXCEPT !.registries = {"current"}, !.routes = {"single"}, !.roots = {r1},
     !.uses = {"reader", "exports"}]

Closed ==
  [open |-> FALSE, prices |-> {1}, terms |-> {1}, secrets |-> {1}, accounts |-> {bob},
   switches |-> FALSE, faults |-> FALSE]
Switching == [Closed EXCEPT !.open = TRUE, !.accounts = {alice, bob}, !.switches = TRUE]
Failing   == [Closed EXCEPT !.open = TRUE, !.prices = {1, 2}, !.secrets = {1, 2}, !.faults = TRUE]
Changing  == [Closed EXCEPT !.open = TRUE, !.prices = {1, 2}, !.terms = {1, 2}]
Simple    == [Closed EXCEPT !.open = TRUE]

AllDeployments ==
  {Nothing, TwoRoutes, TwoRegistries, Redeployed, Fallback, Statistics, LostClaims, DoubledRows,
   ClaimPage, Exports}
AllMarkets == {Closed, Switching, Failing, Changing, Simple}

\* The reader and the rewards without the market, the market without them, and an
\* export that meets both.
MCSituations ==
  {<<d, Closed>> : d \in AllDeployments \ {Nothing, Exports}}
    \cup {<<Nothing, m>> : m \in {Switching, Failing, Changing}}
    \cup {<<Exports, Simple>>}
============================================================================
