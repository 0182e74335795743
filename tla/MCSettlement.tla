--------------------------- MODULE MCSettlement ---------------------------
(* Small instances of SignalProofSettlement.                               *)
EXTENDS SignalProofSettlement

CONSTANTS alice, bob, registry, lookalike, r1, r2

L(e, r, c, t) == [emitter |-> e, root |-> r, contributor |-> c, timestamp |-> t]

\* An honest measurement; two measurements in one transaction, the first of
\* them the same as before; the registry and a lookalike in one receipt; a
\* transaction that failed.
MCSourceTx == {
  [ok |-> TRUE, logs |-> <<L(registry, r1, alice, 0)>>],
  [ok |-> TRUE, logs |-> <<L(registry, r1, bob, 1), L(registry, r2, alice, 1)>>],
  [ok |-> TRUE, logs |-> <<L(registry, r2, bob, 0), L(lookalike, r1, bob, 0)>>],
  [ok |-> FALSE, logs |-> <<L(registry, r2, bob, 1)>>]}
============================================================================
