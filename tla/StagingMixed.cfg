SPECIFICATION Spec
CONSTANTS
  f = f  g = g  o = o  b1 = b1  b2 = b2  c0 = c0  c1 = c1  c2 = c2  s0 = s0
  d1 = d1  d2 = d2  L = L  r1 = r1  r2 = r2  r3 = r3  main = main  topic = topic  x1 = x1
  Absent = Absent  NoLabel = NoLabel  NoDraft = NoDraft
  NoRun = NoRun  NoCommit = NoCommit  NoBuild = NoBuild  Detached = Detached
  NoRequest = NoRequest  NotShown = NotShown
  Blobs = {b1, b2}
  Devs = {d1, d2}
  Labels = {L}
  Paths = {f, g, o}
  Outputs = {o}
  Ignored = {g}
  Commits = {c0, c1, c2, s0}
  Snapshots = {s0}
  Tree <- MixedTree
  Ancestors <- ForkHistory
  HandFiles = {g}
  Runs = {r1, r2}
  Breakers = {}
  Forcers = {r2}
  Requests <- MixedRequests
  Branches = {main}
  Builds = {x1}
INVARIANTS CommitsKept RecordedBuildIsServed
PROPERTIES DraftsReadAsStaged RestReadsTheSame RedeployHasNothingToDo
CHECK_DEADLOCK FALSE
