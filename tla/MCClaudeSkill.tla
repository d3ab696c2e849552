---------------------------- MODULE MCClaudeSkill ----------------------------
(* Two versions of benchops, of which the second drops a rule of the first,  *)
(* and a rule of neither.                                                    *)
EXTENDS ClaudeSkill, TLC

CONSTANTS v1, v2, shared, early, other

TwoVersions == (v1 :> {shared, early}) @@ (v2 :> {shared})
=============================================================================
