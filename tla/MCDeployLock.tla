---------------------------- MODULE MCDeployLock -----------------------------
(* Small instances of DeployLock; which runs break locks, lose calls, are   *)
(* killed or die differs from cfg to cfg.                                   *)
EXTENDS DeployLock

CONSTANTS A, B, C
=============================================================================
