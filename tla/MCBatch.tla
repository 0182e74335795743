------------------------------ MODULE MCBatch ------------------------------
(* A small instance of SignalProofBatchSettlement.                         *)
EXTENDS SignalProofBatchSettlement

CONSTANTS alice, bob, registry, lookalike, r1, r2, single, broken, proxy

L(e, r, c, t) == [emitter |-> e, root |-> r, contributor |-> c, timestamp |-> t]

\* A receipt that starts with a lookalike's log, holds the first root twice, for two
\* contributors, and then the second root; a batch may hold it twice.
MCSourceTx == {
  [ok |-> TRUE, logs |-> <<L(lookalike, r1, bob, 0), L(registry, r1, alice, 0),
                           L(registry, r1, bob, 1), L(registry, r2, alice, 1)>>]}
============================================================================
