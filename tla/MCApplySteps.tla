---------------------------- MODULE MCApplySteps -----------------------------
(* Small instances of ApplySteps.                                          *)
EXTENDS ApplySteps, TLC

CONSTANTS f, g, o, b1, b2, hand, c0, c1, c2, d1, d2, L, main, side, x1, x2, u1, u2

Deploy(dev, label, base, tree, on, digest) ==
  [dev |-> dev, label |-> label, base |-> base, tree |-> tree,
   staged |-> StagedPaths(base, tree), branch |-> on, build |-> digest]
Sync(dev, base, on, digest) == Deploy(dev, NoLabel, base, Tree[base], on, digest)

Files(u, v, w) == [p \in Paths |-> CASE p = f -> u [] p = g -> v [] OTHER -> w]

(* c1 changes f, adds g and a tracked build output.                        *)
TwoTree    == c0 :> Files(b1, Absent, Absent) @@ c1 :> Files(b2, b1, b1)
TwoHistory == c0 :> {c0} @@ c1 :> {c0, c1}
TwoRequests ==
  {Deploy(d1, L, c0, Files(Absent, b1, Absent), main, x1),
   Deploy(d2, NoLabel, c1, Files(b1, Absent, b2), main, NoBuild)}

(* Deploys that leave and join branches, with drafts; c2 is on neither side *)
(* of c1.                                                                  *)
ForkTree    == TwoTree @@ c2 :> Files(Absent, b1, Absent)
ForkHistory == TwoHistory @@ c2 :> {c0, c2}
ForkRequests ==
  {Deploy(d1, NoLabel, c0, Files(Absent, b1, Absent), side, NoBuild),
   Deploy(d2, NoLabel, c1, Files(b1, Absent, b2), main, NoBuild),
   Sync(d2, c2, Detached, NoBuild)}

(* Only the build changes, and goes back.                                  *)
BuildRequests == {Sync(d1, c0, main, x1), Sync(d2, c0, main, x2)}
=============================================================================
