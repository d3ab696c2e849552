--------------------------- MODULE MCStagingServer ---------------------------
(* Small instances of StagingServer.                                       *)
EXTENDS StagingServer, TLC

CONSTANTS f, g, o, b1, b2, c0, c1, c2, s0, d1, d2, L, r1, r2, r3, main, topic, x1

Deploy(dev, label, base, tree, on, digest) ==
  [dev |-> dev, label |-> label, base |-> base, tree |-> tree,
   staged |-> StagedPaths(base, tree), branch |-> on, build |-> digest]
Sync(dev, base, on, digest) == Deploy(dev, NoLabel, base, Tree[base], on, digest)

(* One file, edited by two developers and by hand; c1 commits one edit.    *)
OneFile(v)    == f :> v
LineTree      == c0 :> OneFile(b1) @@ c1 :> OneFile(b2)
LineHistory   == c0 :> {c0} @@ c1 :> {c0, c1}
DraftRequests ==
  {Deploy(d1, L, c0, OneFile(b2), main, NoBuild),
   Deploy(d2, NoLabel, c0, OneFile(b2), main, NoBuild),     \* the same content
   Deploy(d2, NoLabel, c1, OneFile(Absent), main, NoBuild), \* delete the file
   Sync(d1, c1, main, NoBuild)}
RevertRequests ==
  {Deploy(d1, L, c0, OneFile(b2), main, NoBuild),
   Deploy(d2, L, c1, OneFile(b1), main, NoBuild)}           \* undo c1

(* A file that is not committed at c0.                                     *)
NewTree     == c0 :> OneFile(Absent) @@ c1 :> OneFile(b1)
NewRequests == {Deploy(d1, L, c0, OneFile(b1), main, NoBuild),
                Deploy(d1, L, c0, OneFile(b2), main, NoBuild)}

(* A tracked file f, an ignored file g that c1 force-adds, a tracked build *)
(* output o; c2 is on a fork; s0 is a snapshot of an old release.          *)
ForkHistory    == c0 :> {c0} @@ c1 :> {c0, c1} @@ c2 :> {c0, c2} @@ s0 :> {c0, s0}
Files(u, v, w) == f :> u @@ g :> v @@ o :> w
MixedTree      == c0 :> Files(b1, Absent, b1) @@ c1 :> Files(b1, b1, b1)
                  @@ c2 :> Files(Absent, Absent, b1) @@ s0 :> Files(b2, Absent, b1)
MixedRequests  ==
  {Deploy(d1, L, c0, Files(b2, b1, b1), main, x1),
   Deploy(d2, NoLabel, c1, Files(Absent, b1, b2), main, NoBuild),
   Sync(d2, c2, Detached, NoBuild)}
=============================================================================
