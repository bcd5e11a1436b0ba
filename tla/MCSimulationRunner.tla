------------------------- MODULE MCSimulationRunner -------------------------
(* One client, or two, whose requests overlap.                             *)
EXTENDS SimulationRunner

CONSTANTS c1, c2, c3
=============================================================================
