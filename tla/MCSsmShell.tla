----------------------------- MODULE MCSsmShell ------------------------------
(* Small instances of SsmShell: its constants are numbers and switches, so  *)
(* the cfg files give them directly.                                        *)
EXTENDS SsmShell
=============================================================================
