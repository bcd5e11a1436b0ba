---------------------------- MODULE MCOasisSync ----------------------------
(* Two versions of the evidence, one of them under two revisions.          *)
EXTENDS OasisSync

Versions == {[evidence |-> 1, revision |-> 1], [evidence |-> 1, revision |-> 2],
             [evidence |-> 2, revision |-> 2]}
=============================================================================
