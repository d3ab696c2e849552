----------------------------- MODULE MCCloneRun ------------------------------
(* Small instances of CloneRun.                                            *)
EXTENDS CloneRun

CONSTANTS a, b
=============================================================================
