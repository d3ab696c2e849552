----------------------------- MODULE MCCloneLock -----------------------------
(* Small instances of CloneLock.                                           *)
EXTENDS CloneLock

CONSTANTS A, B, C
=============================================================================
