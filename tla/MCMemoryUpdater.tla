--------------------------- MODULE MCMemoryUpdater ---------------------------
(* Two platforms, batches of three.                                          *)
EXTENDS MemoryUpdater

CONSTANTS twitter, reddit
=============================================================================
