--------------------------- MODULE MCIntegrationRuns ---------------------------
(* Three runs of one integration: two may wait behind one, at its message,   *)
(* for its own places or for the one place among all.                         *)
EXTENDS IntegrationRuns
=============================================================================
