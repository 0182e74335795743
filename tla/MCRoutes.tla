----------------------------- MODULE MCRoutes -----------------------------
(* Small instances of SettlementRoutes.                                    *)
EXTENDS SettlementRoutes

\* The batch route knows of the single one, or is left without a sibling.
WithAndWithoutSibling == {<<>>, <<SingleAddr>>}
============================================================================
