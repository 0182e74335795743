------------------------------- MODULE Portal -------------------------------
(***************************************************************************)
(* What a buyer gets from the two parts together: a metered export of one  *)
(* area (server/signalproof/buyerApi.ts, areas.ts, areaExport.ts), taken   *)
(* from the snapshot of ChainRead with a key of BuyerAccess, saved by the  *)
(* area's page (client/src/pages/AreaPage.tsx) through the service worker  *)
(* that answers when the browser is offline (client/public/sw.js).         *)
(*                                                                         *)
(* A run considers situations: a deployment the rows come from and a       *)
(* market the keys come from.                                              *)
(***************************************************************************)
EXTENDS ChainRead, BuyerAccess

CONSTANTS
  Situations,   \* pairs of a deployment and a market
  NoFile        \* nothing saved, nothing cached

VARIABLES
  online,       \* the browser reaches the server
  copy,         \* the export the service worker has put aside
  file          \* what the page saved last: rows, or the shell of the app

exportVars == <<online, copy, file>>
portalVars == <<readVars, buyVars, exportVars>>

Saved(rows) == [kind |-> "rows", rows |-> rows]
Shell == [kind |-> "shell", rows |-> {}]

Area == "here"

\* areaView: the rows of one cell.
AreaRows == {r \in Rows : AreaOf[r.root] = Area}

\* Mutation of Admits: the export is not behind the gate.
AdmitsAnyone == TRUE

\* requireAccess, for the key the page sends along: the one it stored.
Admits == Accepts(stored)

\* A click on the export's button, which is there once the page shows rows.
\* The service worker keeps a copy of every answer that is no error.
Download ==
  /\ online /\ Admits
  /\ AreaRows # {}
  /\ file' = Saved(AreaRows) /\ copy' = Saved(AreaRows)
  /\ UNCHANGED <<readVars, buyVars, online>>

\* Offline it answers with its copy, or with the app itself: both are no error,
\* so the page saves either.
DownloadOffline ==
  /\ ~online
  /\ AreaRows # {}
  /\ file' = IF copy # NoFile THEN copy ELSE Shell
  /\ UNCHANGED <<readVars, buyVars, online, copy>>

ChangeConnection ==
  /\ online' = ~online
  /\ UNCHANGED <<readVars, buyVars, copy, file>>

---------------------------------------------------------------------------
PortalInit ==
  /\ ReadInit /\ BuyInit
  /\ <<deployment, market>> \in Situations
  /\ online = TRUE /\ copy = NoFile /\ file = NoFile

PortalNext ==
  \/ ReadNext /\ UNCHANGED <<buyVars, exportVars>>
  \/ BuyNext /\ UNCHANGED <<readVars, exportVars>>
  \/ "exports" \in deployment.uses /\ (Download \/ DownloadOffline \/ ChangeConnection)

PortalSpec ==
  PortalInit /\ [][PortalNext]_portalVars /\ ReadFairness /\ ClaimFairness /\ BuyFairness

---------------------------------------------------------------------------
(* Properties.                                                             *)

FileRows == IF file = NoFile THEN {} ELSE file.rows

\* Whatever reads lost, keys expired and connections dropped: every row on a
\* page or in a saved export is true, the totals, the areas and the list of
\* contributors, which are computed apart, tell the same story of them, and
\* nobody saved a row before a key was paid for.
ServedIsTrue ==
  /\ \A r \in Rows \cup FileRows : TrueRow(r)
  /\ ViewsAgree
  /\ FileRows # {} => issued # {}
============================================================================
