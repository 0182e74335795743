----------------------------- MODULE MCWorker -----------------------------
(* Small instances of ProofWorker.                                         *)
EXTENDS ProofWorker

\* The deployment the scripts make: the batch route lists the single one.
SiblingListed == {<<SingleAddr>>}

\* A gateway with a database where nothing goes wrong and nobody else settles.
Calm == [autoSettle |-> TRUE, batchConfigured |-> TRUE, batchSize |-> 2, durable |-> TRUE,
         openRoutes |-> {}, faults |-> {},
         maxCrashes |-> 0, maxStray |-> 0, lastBlock |-> 0]

\* Everything fails at times, a restart loses the rows, and others settle.
Hostile == [Calm EXCEPT !.durable = FALSE, !.openRoutes = {"single"},
                        !.faults = {"send", "wait", "read", "proof"},
                        !.maxCrashes = 1, !.maxStray = 1]

\* Nothing sent is lost; measurements go stale, and others settle.
Heard == [Calm EXCEPT !.openRoutes = {"single"}, !.faults = {"send", "proof"},
                      !.lastBlock = 1]

\* Receipts are lost and measurements go stale.
Lossy == [Calm EXCEPT !.faults = {"send", "wait", "proof"}, !.maxStray = 1,
                      !.lastBlock = 1]

\* A restart loses the rows.
Forgetful == [Calm EXCEPT !.durable = FALSE, !.maxCrashes = 1, !.maxStray = 1]

\* The nodes cannot be read at times, and a restart loses the rows.
Unread == [Forgetful EXCEPT !.faults = {"read"}]

\* Relay-only: others settle, on either route.
RelayOnly == [Calm EXCEPT !.autoSettle = FALSE, !.openRoutes = {"single", "batch"},
                          !.faults = {"send", "wait"}, !.maxCrashes = 1, !.maxStray = 1]

\* The database fails, for a moment or for longer.
Unwritten == [Calm EXCEPT !.openRoutes = {"single"}, !.faults = {"store"},
                          !.maxCrashes = 1, !.maxStray = 1]

\* A tick has room for one row, and there are two.
Narrow == [Calm EXCEPT !.batchSize = 1, !.faults = {"send", "store", "proof"},
                       !.lastBlock = 1]

SafetyGateways   == {Hostile, Heard, Unwritten}
LivenessGateways == {Lossy, Unread, RelayOnly, Unwritten, Narrow}

\* For the three disagreements: receipts get lost; a read fails; others settle.
LosesReceipts  == {[Calm EXCEPT !.faults = {"wait"}, !.maxStray = 1]}
FailsToRead    == {[Calm EXCEPT !.openRoutes = {"single"}, !.faults = {"read", "proof"}]}
SharesTheRoute == {[Calm EXCEPT !.openRoutes = {"single"}]}
===========================================================================
