----------------------------- MODULE MCGateway -----------------------------
(* A small instance of MeasurementRun.                                     *)
EXTENDS MeasurementRun

MCReading ==
  [who : Contributor, cell : Cell, at : 0 .. MaxTime + MAX_SKEW + 1, nonce : Nonce,
   value : {"measured", "inflated"}]

\* Others send again what is being sent, with MySQL and with memory; the
\* wallet switches accounts, and a browser's clock is too far ahead; a cycle and
\* the button take turns in one tab, and memory overflows.
MCConfigs ==
  {[mysql |-> TRUE, skew |-> 0, kinds |-> {"button", "tamper"}, accounts |-> {},
    runs |-> 1, resends |-> 1, restarts |-> 1],
   [mysql |-> FALSE, skew |-> 0, kinds |-> {"button"}, accounts |-> {},
    runs |-> 1, resends |-> 1, restarts |-> 1],
   [mysql |-> TRUE, skew |-> MAX_SKEW + 1, kinds |-> {"auto"}, accounts |-> Contributor \cup {NoOne},
    runs |-> 1, resends |-> 0, restarts |-> 1],
   [mysql |-> FALSE, skew |-> 0, kinds |-> {"button", "auto"}, accounts |-> {},
    runs |-> 2, resends |-> 0, restarts |-> 0]}
============================================================================
