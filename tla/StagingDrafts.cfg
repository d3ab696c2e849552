SPECIFICATION Spec
CONSTANTS
  f = f  g = g  o = o  b1 = b1  b2 = b2  c0 = c0  c1 = c1  c2 = c2  s0 = s0
  d1 = d1  d2 = d2  L = L  r1 = r1  r2 = r2  r3 = r3  main = main  topic = topic  x1 = x1
  Absent = Absent  NoLabel = NoLabel  NoDraft = NoDraft
  NoRun = NoRun  NoCommit = NoCommit  NoBuild = NoBuild  Detached = Detached
  NoRequest = NoRequest  NotShown = NotShown
  Blobs = {b1, b2}
  Devs = {d1, d2}
  Labels = {L}
  Paths = {f}
  Outputs = {}
  Ignored = {}
  Commits = {c0, c1}
  Snapshots = {}
  Tree <- LineTree
  Ancestors <- LineHistory
  HandFiles = {f}
  Runs = {r1, r2}
  Breakers = {r2}
  Forcers = {}
  Requests <- DraftRequests
  Branches = {main}
  Builds = {}
INVARIANT HolderOwnsIncoming
PROPERTIES AppliedAsConfirmed NothingLost OthersDraftsKept
CHECK_DEADLOCK FALSE
