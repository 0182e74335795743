-------------------------- MODULE MeasurementRun --------------------------
(***************************************************************************)
(* The console's tab in front of the gateway: useMeasurementRun.ts with    *)
(* AutoMeasure.tsx, useWallet.ts and measure.ts.  A run measures, asks the *)
(* wallet to sign, and sends; runs come from the button, from the          *)
(* ten-minute cycle and from the tamper demonstration, while the wallet    *)
(* switches accounts, the visitor follows a link to another route of the   *)
(* app and returns, or the tab is closed.  A run outlives the page that    *)
(* began it.  Anyone else may send what was ever signed, altered or        *)
(* spelled differently.                                                    *)
(***************************************************************************)
EXTENDS Gateway

CONSTANTS
  NoReading,
  User,           \* the account the wallet is on at first
  INTERVAL,       \* between automatic cycles
  SIGN_DEADLINE   \* how long a cycle waits for the wallet

ASSUME RunAssumption ==
  /\ INTERVAL \in Nat \ {0} /\ SIGN_DEADLINE < MAX_AGE
  /\ Nonce \subseteq Nat /\ \A c \in Configs : 1 .. c.runs \subseteq Nonce
  /\ User \in Contributor /\ Nonce \subseteq Watched
  /\ NoReading \notin Reading /\ NoOne \notin Contributor

VARIABLES
  tab,      \* what the hooks hold
  runs,     \* runTest and runTamperedDemo in progress
  started,  \* runs so far
  resends   \* submissions of others so far

tabVars == <<tab, runs, started, resends>>
runVars == <<gatewayVars, tabVars>>

TestState == {"idle", "sampling", "submitted", "attesting", "settled", "rejected"}

\* shown: status of tracked.data.  polled: a query on its way.  due: when the
\* next automatic cycle is.
Tab ==
  [testState : TestState, submittedRoot : Reading \cup {NoReading},
   shown : Status \cup {"none"}, polled : Reading \cup {NoReading},
   polledStatus : Status \cup {"none"},
   account : Contributor \cup {NoOne}, busy : BOOLEAN, due : Nat]

FreshTab ==
  [testState |-> "idle", submittedRoot |-> NoReading, shown |-> "none",
   polled |-> NoReading, polledStatus |-> "none",
   account |-> User, busy |-> FALSE, due |-> 0]

\* A run: where it is, for whom it started, what it has measured, and whether
\* the page that began it is still mounted.  Its request is served in the slot
\* of its number.
Run == [id : Nonce, kind : Kind, who : Contributor, cell : Cell,
        pc : {"measuring", "signing", "sending"}, at : Nat, mounted : BOOLEAN]

Mounted == {r \in runs : r.mounted}

RunTypeOK ==
  /\ StoreTypeOK
  /\ \A r \in Slot : requests[r] \in Request
  /\ tab \in Tab /\ runs \subseteq Run /\ started \in 0 .. config.runs
  /\ resends \in 0 .. config.resends

Init ==
  /\ GatewayInit
  /\ tab = FreshTab /\ runs = {} /\ started = 0 /\ resends = 0

---------------------------------------------------------------------------
(* Starting.                                                               *)

Starting(t) == [t EXCEPT !.testState = "sampling", !.submittedRoot = NoReading,
                         !.shown = "none"]

Begin(kind, cell, t) ==
  /\ started < config.runs
  /\ started' = started + 1
  /\ tab' = Starting(t)
  /\ runs' = runs \cup {[id |-> started + 1, kind |-> kind, who |-> tab.account,
                         cell |-> cell, pc |-> "measuring", at |-> 0, mounted |-> TRUE]}
  /\ UNCHANGED <<gatewayVars, resends>>

\* "Run valid test" and the tamper demonstration are offered when idle.
PressButton(kind, cell) ==
  /\ tab.testState = "idle" /\ tab.account # NoOne
  /\ Begin(kind, cell, tab)

\* Mutation of CycleDue: only a cycle of its own keeps the next one waiting.
CycleDueUnlessBusy ==
  "auto" \in config.kinds /\ tab.account # NoOne /\ ~tab.busy /\ now >= tab.due

CycleDue ==
  /\ "auto" \in config.kinds /\ tab.account # NoOne /\ ~tab.busy
  /\ now >= tab.due
  /\ tab.testState \notin {"sampling", "submitted"}

Cycle(cell) ==
  /\ CycleDue
  /\ Begin("auto", cell, [tab EXCEPT !.busy = TRUE, !.due = now + INTERVAL])

---------------------------------------------------------------------------
(* A run.                                                                  *)

ReadingOf(r) ==
  [who |-> r.who, cell |-> r.cell, at |-> r.at, nonce |-> r.id, value |-> "measured"]

\* The tampered payload: the throughput is changed after the root was signed.
SentPayload(r) ==
  IF r.kind = "tamper" THEN [ReadingOf(r) EXCEPT !.value = "inflated"] ELSE ReadingOf(r)


\* What run r sets in the state of its page; of a page that was unmounted,
\* nothing is left to set.
Seen(r, t) == IF r.mounted THEN t ELSE tab

Ends(r, t) ==
  /\ runs' = runs \ {r}
  /\ tab' = Seen(r, [t EXCEPT !.busy = IF r.kind = "auto" THEN FALSE ELSE @])

Moves(r, q) == runs' = (runs \ {r}) \cup {q}

\* Location, network class, latency and throughput; the browser stamps the
\* result with its own clock.
Measured(r) ==
  /\ r.pc = "measuring"
  /\ Moves(r, [r EXCEPT !.pc = "signing", !.at = now + config.skew])
  /\ UNCHANGED <<gatewayVars, tab, started, resends>>

\* No position, no latency sample, no throughput.
MeasureFails(r) ==
  /\ r.pc = "measuring"
  /\ Ends(r, [tab EXCEPT !.testState = "rejected"])
  /\ UNCHANGED <<gatewayVars, started, resends>>

\* signMeasurement: the wallet signs with the account it is on by now.  The
\* check for a switched account compares two values of one render.
WalletSigns(r) ==
  /\ r.pc = "signing" /\ tab.account # NoOne
  /\ LET sig == [signer |-> tab.account, root |-> ReadingOf(r)]
     IN /\ signed' = signed \cup {sig}
        /\ Send(r.id, [payload |-> SentPayload(r), root |-> ReadingOf(r),
                         recased |-> FALSE, sig |-> sig])
  /\ Moves(r, [r EXCEPT !.pc = "sending"])
  /\ tab' = Seen(r, [tab EXCEPT !.testState = "submitted"])
  /\ UNCHANGED <<config, now, accepted, restarts, onChain, paid, admitted, storeVars,
                 started, resends>>

WalletDeclines(r) ==
  /\ r.pc = "signing"
  /\ Ends(r, [tab EXCEPT !.testState = "rejected"])
  /\ UNCHANGED <<gatewayVars, started, resends>>

\* withDeadline: a cycle's reading that nobody signed is dropped.
NotSignedInTime(r) ==
  /\ r.pc = "signing" /\ r.kind = "auto"
  /\ now >= r.at - config.skew + SIGN_DEADLINE
  /\ Ends(r, [tab EXCEPT !.testState = "idle"])
  /\ UNCHANGED <<gatewayVars, started, resends>>

\* The mutation resolves.
SubmitAccepted(r) ==
  /\ r.pc = "sending"
  /\ requests[r.id].pc = "answered" /\ requests[r.id].answer = "accepted"
  /\ Ends(r, IF r.kind = "tamper"
             THEN [tab EXCEPT !.testState = "rejected"]
             ELSE [tab EXCEPT !.testState = "attesting", !.submittedRoot = ReadingOf(r)])
  /\ requests' = [requests EXCEPT ![r.id] = Idle]
  /\ UNCHANGED <<config, now, accepted, restarts, onChain, paid, signed, admitted, storeVars,
                 started, resends>>

\* A refusal, an error of the server, or no answer at all: the request goes on.
SubmitFails(r) ==
  /\ r.pc = "sending"
  /\ IF requests[r.id].pc = "answered"
       THEN /\ requests[r.id].answer # "accepted"
            /\ requests' = [requests EXCEPT ![r.id] = Idle]
       ELSE UNCHANGED requests
  /\ Ends(r, [tab EXCEPT !.testState = "rejected"])
  /\ UNCHANGED <<config, now, accepted, restarts, onChain, paid, signed, admitted, storeVars,
                 started, resends>>

---------------------------------------------------------------------------
(* Following: getMeasurement every 15 seconds, and what its status shows.  *)

\* Mutation of Unanswered: the query is not repeated.
NeverAsked == tab.submittedRoot # NoReading /\ tab.polled = NoReading /\ tab.shown = "none"

\* enabled, and refetchInterval.
Unanswered == tab.submittedRoot # NoReading /\ tab.polled = NoReading

Poll ==
  /\ Unanswered
  /\ handle \in {"mysql", "memory"}
  /\ LET found == GetByRoot(Worker, tab.submittedRoot, FALSE)
     IN tab' = [tab EXCEPT !.polled = tab.submittedRoot,
                           !.polledStatus =
                             IF found = {} THEN "none" ELSE (CHOOSE q \in found : TRUE).status]
  /\ UNCHANGED <<gatewayVars, runs, started, resends>>

\* Mutation of ForThis: an answer shows whatever it was asked for.
ForAny == TRUE

\* Answers are kept by the root they were asked for.
ForThis == tab.polled = tab.submittedRoot

\* Mutation of Shows: the status of a row is taken for a state of the page.
ShowsRaw(t, status) == [t EXCEPT !.shown = status, !.testState = status]

\* The effect on tracked.data.status, which runs when that changes.
Shows(t, status) ==
  [t EXCEPT !.shown = status,
            !.testState = IF status = t.shown THEN @
                          ELSE CASE status = "SETTLED" -> "settled"
                                 [] status = "REJECTED" -> "rejected"
                                 [] status = "AWAITING_ATTESTATION" -> "attesting"
                                 [] OTHER -> @]

PollAnswered ==
  /\ tab.polled # NoReading
  /\ LET t == [tab EXCEPT !.polled = NoReading, !.polledStatus = "none"]
     IN tab' = IF ForThis THEN Shows(t, tab.polledStatus) ELSE t
  /\ UNCHANGED <<gatewayVars, runs, started, resends>>

\* "Run another test" and "Reset scenario".
Reset ==
  /\ tab.testState \in {"settled", "rejected"}
  /\ tab' = [tab EXCEPT !.testState = "idle"]
  /\ UNCHANGED <<gatewayVars, runs, started, resends>>

---------------------------------------------------------------------------
(* The tab's surroundings.                                                 *)

\* The wallet switches accounts or disconnects while a run is under way, or
\* comes back.
UseAccount(who) ==
  /\ runs # {} \/ tab.account = NoOne
  /\ who # tab.account
  /\ tab' = [tab EXCEPT !.account = who]
  /\ UNCHANGED <<gatewayVars, runs, started, resends>>

\* Another mode of the console and back: AutoMeasure forgets that it is busy,
\* and reads from its log when the last logged cycle began.
Remount ==
  /\ tab' = [tab EXCEPT !.busy = FALSE, !.due = IF tab.busy THEN 0 ELSE @]
  /\ tab' # tab
  /\ UNCHANGED <<gatewayVars, runs, started, resends>>

\* Another route of the app and back: Home is mounted anew with fresh hooks,
\* while the runs begun before go on; the wallet's provider stays.
Navigate ==
  /\ tab' = [FreshTab EXCEPT !.account = tab.account,
                             !.due = IF tab.busy THEN 0 ELSE tab.due]
  /\ tab' # tab
  /\ runs' = {[r EXCEPT !.mounted = FALSE] : r \in runs}
  /\ UNCHANGED <<gatewayVars, started, resends>>

\* The tab is closed or reloaded, and the cycle's log says when one is due.
Leave ==
  /\ tab.testState # "idle"
  /\ tab' = [FreshTab EXCEPT !.due = IF tab.busy THEN 0 ELSE tab.due]
  /\ runs' = {}
  /\ UNCHANGED <<config, now, requests, accepted, restarts, onChain, paid, signed, admitted,
                 storeVars, started, resends>>

\* Another client sends what was signed: again, re-cased, or altered with
\* its root adjusted or not.
Resend(r, sig) ==
  /\ resends < config.resends
  /\ r \notin Nonce /\ requests[r] = Idle
  /\ resends' = resends + 1
  /\ LET altered == [sig.root EXCEPT !.value = "inflated"]
         Sub(payload, root, recased) ==
           [payload |-> payload, root |-> root, recased |-> recased, sig |-> sig]
     IN \/ \E recased \in BOOLEAN : Send(r, Sub(sig.root, sig.root, recased))
        \/ \E root \in {sig.root, altered} : Send(r, Sub(altered, root, FALSE))
  /\ UNCHANGED <<config, now, accepted, restarts, onChain, paid, signed, admitted, storeVars,
                 tab, runs, started>>

RunStep(r) ==
  \/ Measured(r) \/ MeasureFails(r) \/ WalletSigns(r) \/ WalletDeclines(r)
  \/ NotSignedInTime(r) \/ SubmitAccepted(r) \/ SubmitFails(r)

UserStep ==
  \/ \E kind \in config.kinds \ {"auto"}, cell \in Cell : PressButton(kind, cell)
  \/ Reset \/ Remount \/ Navigate \/ Leave
  \/ \E who \in config.accounts : UseAccount(who)

Next ==
  \/ UserStep
  \/ \E cell \in Cell : Cycle(cell)
  \/ \E r \in runs : RunStep(r)
  \/ Poll \/ PollAnswered
  \/ \E r \in Slot, sig \in signed : Resend(r, sig)
  \/ (\E r \in Slot : Serve(r)) /\ UNCHANGED tabVars
  \/ (Work \/ Operate) /\ UNCHANGED tabVars

\* The tab polls on, the server answers, and the worker works its rows.
Fairness ==
  /\ WF_runVars(Poll) /\ WF_runVars(PollAnswered)
  /\ WF_runVars((WorkerProbes \/ ProbeEnds) /\ UNCHANGED tabVars)
  /\ WF_runVars(WorkerAdvances /\ UNCHANGED tabVars)

Spec == Init /\ [][Next]_runVars /\ Fairness

---------------------------------------------------------------------------
(* Properties.                                                             *)

\* The page on screen has one run under way at most: cycles, the button and
\* the demonstration share its testState, and never run side by side, though
\* another mode makes AutoMeasure forget that a cycle is under way.  Runs of a
\* page that was unmounted do go on beside it.
SingleRun == Cardinality(Mounted) <= 1

\* "settled" on screen means that this very measurement was paid, however
\* late an answer comes and whatever was started since.
SettledShownIsPaid == tab.testState = "settled" => tab.submittedRoot \in paid

\* A measurement that MySQL holds is followed to its end, or replaced by a
\* newer run, across restarts of the server.
Followed ==
  (tab.testState = "attesting" /\ \E q \in sql : q.root = tab.submittedRoot)
    ~> tab.testState # "attesting"
============================================================================
