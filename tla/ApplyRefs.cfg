SPECIFICATION Spec
CONSTANTS
  f = f  g = g  o = o  b1 = b1  b2 = b2  hand = hand  c0 = c0  c1 = c1  c2 = c2  d1 = d1  d2 = d2  L = L
  main = main  side = side  x1 = x1  x2 = x2  u1 = u1  u2 = u2
  Absent = Absent  NoLabel = NoLabel  NoDraft = NoDraft
  NoCommit = NoCommit  NoBuild = NoBuild  Detached = Detached  NoRequest = NoRequest  NoPlan = NoPlan
  Blobs = {b1, b2, hand}
  Devs = {d1, d2}
  Labels = {L}
  Paths = {f, g, o}
  Outputs = {o}
  Ignored = {}
  HandFiles = {}
  HandBlobs = {hand}
  Requests <- ForkRequests
  Units = {u1}
  Builds = {x1, x2}
  Windows = {}
  Commits = {c0, c1, c2}
  Tree <- ForkTree
  Ancestors <- ForkHistory
  Branches = {main, side}
INVARIANT CommitsKept
PROPERTY AppliesAtomically
