---------------------------- MODULE MCOasisRun ----------------------------
(* OasisRun with two platforms.                                            *)
EXTENDS OasisRun
TwoPlatforms == <<"twitter", "reddit">>
=============================================================================
