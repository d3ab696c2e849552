------------------------------ MODULE MCRestore ------------------------------
(* A backup of the database and both kinds of files, a newer one of only the *)
(* database, and a third of which S3 holds no dump.                          *)
EXTENDS Restore, TLC

ThreeBackups == (1 :> Parts) @@ (2 :> {"database"}) @@ (3 :> Archives)
=============================================================================
