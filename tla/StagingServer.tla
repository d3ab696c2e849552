---------------------------- MODULE StagingServer ----------------------------
(***************************************************************************)
(* Deploys to one app of one staging server.  Each run is one execution of *)
(* `benchops deploy` or `benchops sync` (DeployCommand.execute): it takes  *)
(* the lock with `inspect`, uploads its package, gets the plan with        *)
(* `preview`, shows it to the developer, sends `apply`, and always ends    *)
(* with `release`.  Between any two of these calls other runs go on, and   *)
(* people work on the server by hand: they edit files, stage them, commit  *)
(* them, pull.                                                             *)
(*                                                                         *)
(* Here one agent command is one step; ApplySteps opens `apply` and        *)
(* DeployLock opens the lock.                                              *)
(***************************************************************************)
EXTENDS Overlay

CONSTANTS
  HandFiles,  \* files people edit on the server
  Runs,       \* executions of deploy or sync, each with its own lock token
  Breakers,   \* the runs started with --break-lock
  Forcers,    \* the runs started with --force
  Requests,   \* what a run may ship
  Branches,   \* branch names
  Snapshots,  \* commits an old release made on servers; on no developer's side
  Ancestors,  \* Ancestors[c]: c and every commit it descends from
  Builds,     \* digests of the app's build outputs
  NoRun, NoCommit, NoBuild, Detached, NoRequest, NotShown

Request == [dev : Devs, label : Labels \cup {NoLabel}, base : Commits, tree : Contents,
            staged : SUBSET Sources, branch : Branches \cup {Detached},
            build : Builds \cup {NoBuild}]

ASSUME HandAssumption     == HandFiles \subseteq Sources
ASSUME RunsAssumption     == Breakers \subseteq Runs /\ Forcers \subseteq Runs /\ NoRun \notin Runs
ASSUME RequestsAssumption ==
  /\ Requests \subseteq Request
  /\ \A q \in Requests : q.staged = StagedPaths(q.base, q.tree) /\ q.base \notin Snapshots
ASSUME NamesAssumption    == Detached \notin Branches /\ NoCommit \notin Commits /\ NoBuild \notin Builds
ASSUME HistoryAssumption  ==
  /\ Snapshots \subseteq Commits
  /\ Ancestors \in [Commits -> SUBSET Commits]
  /\ \A c \in Commits : c \in Ancestors[c]
  /\ \A c \in Commits : \A d \in Ancestors[c] : Ancestors[d] \subseteq Ancestors[c]

VARIABLES
  srv,          \* the checkout and the ledger (Overlay's Server)
  branch,       \* the branch HEAD is on, or Detached
  heads,        \* refs/heads/*
  kept,         \* commits under refs/benchops/previous-head and branch-backup
  overwritten,  \* file contents under refs/benchops/overwritten
  lock,         \* the run whose token lock.json carries
  incoming,     \* the run whose staged commit INCOMING_REF and incoming/ hold
  record,       \* deploy.json: snapshot commit of an old layout, base, build digest
  served,       \* the build outputs on the server's disk
  ever,         \* history: every commit HEAD or a branch has pointed at
  phase, req, build, shown, outcome   \* per run: its progress on the client

serverVars == <<srv, branch, heads, kept, overwritten, record, served, ever>>
runVars    == <<phase, req, build, shown, outcome>>
vars       == <<srv, branch, heads, kept, overwritten, lock, incoming, record, served, ever,
                phase, req, build, shown, outcome>>

Phases   == {"new", "inspected", "previewed", "closing", "done", "gone"}
Outcomes == {"none", "locked", "refused", "up_to_date", "lock_lost", "staging_changed",
             "backup_failed", "applied"}
Plan     == [fingerprint : Fingerprints,
             overlaps : SUBSET Sources, absorbed : SUBSET Paths]

Tips == {heads[b] : b \in Branches} \ {NoCommit}
Reaches(c, d) == d \in Ancestors[c]    \* git merge-base --is-ancestor d c

-----------------------------------------------------------------------------
(* Work done on the server by hand                                         *)

HandWork(new) ==
  /\ srv' = new
  /\ UNCHANGED <<branch, heads, kept, overwritten, record, served, ever, lock, incoming>>
  /\ UNCHANGED runVars

Edit(p, v) == HandWork([srv EXCEPT !.disk[p] = v])                  \* a Desk save
StageEdit(p) == HandWork([srv EXCEPT !.index[p] = srv.disk[p]])     \* git add
Unstage(p) == HandWork([srv EXCEPT !.index[p] = HeadTree(srv)[p]])  \* git reset

\* HEAD moves to c by hand, with the branch it is on.
MoveHead(c, new) ==
  /\ srv' = [new EXCEPT !.head = c]
  /\ heads' = IF branch = Detached THEN heads ELSE [heads EXCEPT ![branch] = c]
  /\ ever' = ever \cup {c}
  /\ UNCHANGED <<branch, kept, overwritten, record, served, lock, incoming>>
  /\ UNCHANGED runVars

\* git commit: c is the index on top of HEAD.
HandCommit(c) ==
  /\ c # srv.head
  /\ Tree[c] = srv.index
  /\ Ancestors[c] = Ancestors[srv.head] \cup {c}
  /\ MoveHead(c, srv)

\* git pull --ff-only: git refuses when a file it would update is not clean.
Pull(c) ==
  LET moved == {p \in Paths : Tree[c][p] # HeadTree(srv)[p]}
      follow(f) == [p \in Paths |-> IF p \in moved THEN Tree[c][p] ELSE f[p]]
  IN /\ c # srv.head
     /\ Reaches(c, srv.head)
     /\ \A p \in moved : srv.index[p] = HeadTree(srv)[p] /\ srv.disk[p] = srv.index[p]
     /\ MoveHead(c, [srv EXCEPT !.disk = follow(@), !.index = follow(@)])

ByHand ==
  \/ \E p \in HandFiles : (\E v \in Content : Edit(p, v)) \/ StageEdit(p) \/ Unstage(p)
  \/ \E c \in Commits \ Snapshots : HandCommit(c) \/ Pull(c)

-----------------------------------------------------------------------------
(* One run                                                                 *)

\* check_lock: the lock exists and carries the run's token.
HoldsLock(r) == lock = r

Step(r, from, to) == phase[r] = from /\ phase' = [phase EXCEPT ![r] = to]
Report(r, what)   == outcome' = [outcome EXCEPT ![r] = what]

NothingShipped == [ship |-> FALSE, digest |-> NoBuild]
\* Nothing but the release is left to do; the client drops its plan.
Forget(r) ==
  /\ build' = [build EXCEPT ![r] = NothingShipped]
  /\ shown' = [shown EXCEPT ![r] = NotShown]

InspectLocked(r, q) ==
  /\ lock # NoRun /\ r \notin Breakers
  /\ Step(r, "new", "closing")
  /\ req' = [req EXCEPT ![r] = q]
  /\ Report(r, "locked")
  /\ UNCHANGED <<lock, incoming, build, shown>> /\ UNCHANGED serverVars

\* HEAD on a snapshot commit of an old layout goes back to the commit it was
\* made from, files untouched (git reset --mixed).
OnSnapshot == record.snapshot = srv.head
Converted  == IF OnSnapshot
              THEN [srv EXCEPT !.head = record.base, !.index = Tree[record.base]]
              ELSE srv

\* The client compares digests: an unchanged build is not shipped, and what the
\* apply will record is then the digest the server already has.
BuildPlanOfRequest(q) == [ship |-> q.build \notin {NoBuild, record.build}, digest |-> q.build]  \* mutant
BuildPlan(q) ==
  LET ship == q.build \notin {NoBuild, record.build}
  IN [ship |-> ship, digest |-> IF ship THEN q.build ELSE record.build]

\* With the lock taken, `assess` refuses a server HEAD outside the developer's
\* history unless --force, and the client decides whether the build changed.
Inspect(r, q) ==
  /\ lock = NoRun \/ r \in Breakers
  /\ lock' = r
  /\ srv' = Converted
  /\ heads' = IF branch = Detached THEN heads ELSE [heads EXCEPT ![branch] = Converted.head]
  /\ LET accepted == Reaches(q.base, Converted.head) \/ r \in Forcers
     IN /\ Step(r, "new", IF accepted THEN "inspected" ELSE "closing")
        /\ Report(r, IF accepted THEN "none" ELSE "refused")
        /\ build' = IF accepted THEN [build EXCEPT ![r] = BuildPlan(q)] ELSE build
  /\ req' = [req EXCEPT ![r] = q]
  /\ ever' = ever \cup {Converted.head}
  /\ UNCHANGED <<branch, kept, overwritten, incoming, record, served, shown>>

PreviewLost(r) ==
  /\ ~HoldsLock(r)
  /\ Step(r, "inspected", "closing")
  /\ Report(r, "lock_lost") /\ Forget(r)
  /\ UNCHANGED <<lock, incoming, req>> /\ UNCHANGED serverVars

Preview(r) ==
  /\ HoldsLock(r)
  /\ incoming' = r
  /\ LET nothing == UpToDate(srv, req[r]) /\ ~build[r].ship
     IN /\ Step(r, "inspected", IF nothing THEN "closing" ELSE "previewed")
        /\ Report(r, IF nothing THEN "up_to_date" ELSE "none")
        /\ IF nothing THEN Forget(r)
           ELSE /\ shown' = [shown EXCEPT ![r] = [fingerprint |-> Fingerprint(srv, req[r]),
                                                  overlaps    |-> Overlaps(srv, req[r]),
                                                  absorbed    |-> Absorbed(srv, req[r])]]
                /\ UNCHANGED build
  /\ UNCHANGED <<lock, req>> /\ UNCHANGED serverVars

\* The upload fails, the developer answers no, --plan-only, a hook fails.
GiveUp(r) ==
  /\ \E from \in {"inspected", "previewed"} : Step(r, from, "closing")
  /\ Report(r, "refused") /\ Forget(r)
  /\ UNCHANGED <<lock, incoming, req>> /\ UNCHANGED serverVars

\* What apply works from: the staged commit in INCOMING_REF and its own
\* arguments.  (With one command a step, the ref a holder finds is never gone:
\* HolderOwnsIncoming.)
Incoming(r) == [req[r] EXCEPT !.base = req[incoming].base, !.tree = req[incoming].tree]

ApplyRefused(r) ==
  /\ Step(r, "previewed", "closing")
  /\ \/ ~HoldsLock(r) /\ Report(r, "lock_lost")
     \/ /\ HoldsLock(r) /\ incoming # NoRun
        /\ \/ /\ Fingerprint(srv, Incoming(r)) # shown[r].fingerprint
              /\ Report(r, "staging_changed")
           \/ /\ Fingerprint(srv, Incoming(r)) = shown[r].fingerprint
              /\ BackupFails(srv, shown[r].overlaps)
              /\ Report(r, "backup_failed")
  /\ Forget(r)
  /\ UNCHANGED <<lock, incoming, req>> /\ UNCHANGED serverVars

\* Commits that would be left without a ref when HEAD and the request's branch
\* move to its base (refs previous-head and branch-backup keep them).
OrphanedHead(q) == {srv.head} \ Ancestors[q.base]     \* mutant: no branch-backup
Orphaned(q) ==
  ({srv.head} \cup IF q.branch = Detached THEN {} ELSE {heads[q.branch]} \ {NoCommit})
    \ Ancestors[q.base]

MoveBranch(q) ==
  /\ branch' = q.branch
  /\ heads' = IF q.branch = Detached THEN heads ELSE [heads EXCEPT ![q.branch] = q.base]
  /\ kept' = kept \cup Orphaned(q)
  /\ ever' = ever \cup {q.base}

Apply(r) ==
  /\ Step(r, "previewed", "closing")
  /\ HoldsLock(r) /\ incoming # NoRun
  /\ Fingerprint(srv, Incoming(r)) = shown[r].fingerprint
  /\ ~BackupFails(srv, shown[r].overlaps)
  /\ overwritten' = overwritten \cup {<<p, srv.disk[p]>> : p \in shown[r].overlaps}
  /\ srv' = Applied(srv, Incoming(r))
  /\ MoveBranch(Incoming(r))
  /\ served' = IF build[r].ship THEN req[r].build ELSE served
  /\ record' = [snapshot |-> NoCommit, base |-> Incoming(r).base, build |-> build[r].digest]
  /\ incoming' = NoRun
  /\ Report(r, "applied") /\ Forget(r)
  /\ UNCHANGED <<lock, req>>

\* A run that was refused, or whose lock was broken, leaves the holder's lock
\* and incoming state alone.
ReleaseDropsIncoming(r) ==  \* mutant: incoming state removed whoever's it is
  /\ Step(r, "closing", "done")
  /\ lock' = IF lock = r THEN NoRun ELSE lock
  /\ incoming' = NoRun
  /\ UNCHANGED <<req, build, shown, outcome>> /\ UNCHANGED serverVars
Release(r) ==
  /\ Step(r, "closing", "done")
  /\ IF lock \in {NoRun, r}
     THEN lock' = NoRun /\ incoming' = NoRun
     ELSE UNCHANGED <<lock, incoming>>
  /\ UNCHANGED <<req, build, shown, outcome>> /\ UNCHANGED serverVars

\* The client is killed or loses the connection for good: no release.
Vanish(r) ==
  /\ \E from \in {"inspected", "previewed", "closing"} : Step(r, from, "gone")
  /\ Forget(r)
  /\ UNCHANGED <<lock, incoming, req, outcome>> /\ UNCHANGED serverVars

Advance(r) ==
  \/ \E q \in Requests : InspectLocked(r, q) \/ Inspect(r, q)
  \/ PreviewLost(r) \/ Preview(r) \/ ApplyRefused(r) \/ Apply(r)
  \/ Release(r)

-----------------------------------------------------------------------------

NoRecord == [snapshot |-> NoCommit, base |-> NoCommit, build |-> NoBuild]

\* A server never deployed to, clean at some commit; or one whose HEAD an old
\* release left detached on a snapshot commit made from `base`.  The snapshot is
\* not in `ever`: inspect leaves it behind on purpose, its work on disk and its
\* commit to git's garbage collection.
InitServer ==
  \E c \in Commits, on \in Branches \cup {Detached} :
    /\ srv = [head |-> c, disk |-> Tree[c], index |-> Tree[c], ledger |-> [p \in Paths |-> NoDraft]]
    /\ branch = on
    /\ heads \in [Branches -> (Commits \ Snapshots) \cup {NoCommit}]
    /\ on # Detached => heads[on] = c
    /\ \/ c \notin Snapshots /\ record = NoRecord /\ ever = {c} \cup Tips
       \/ /\ c \in Snapshots /\ on = Detached
          /\ \E b \in Ancestors[c] \ {c} :
               /\ record = [snapshot |-> c, base |-> b, build |-> NoBuild]
               /\ ever = {b} \cup Tips

Init ==
  /\ InitServer
  /\ kept = {} /\ overwritten = {}
  /\ lock = NoRun /\ incoming = NoRun /\ served = NoBuild
  /\ phase = [r \in Runs |-> "new"]
  /\ req = [r \in Runs |-> NoRequest]
  /\ build = [r \in Runs |-> NothingShipped]
  /\ shown = [r \in Runs |-> NotShown]
  /\ outcome = [r \in Runs |-> "none"]

Next ==
  \/ ByHand
  \/ \E r \in Runs : Advance(r) \/ GiveUp(r) \/ Vanish(r)

Spec == Init /\ [][Next]_vars

-----------------------------------------------------------------------------
(* Properties                                                              *)

\* Every variable has its type; only source files have drafts, and HEAD's
\* branch points at HEAD.
ServerTypeOK ==
  /\ srv \in Server /\ Drafts(srv) \subseteq Sources
  /\ branch \in Branches \cup {Detached}
  /\ heads \in [Branches -> Commits \cup {NoCommit}]
  /\ branch # Detached => heads[branch] = srv.head
  /\ kept \subseteq Commits /\ ever \subseteq Commits
  /\ overwritten \subseteq Sources \X Content
  /\ record \in [snapshot : Snapshots \cup {NoCommit}, base : Commits \cup {NoCommit},
                 build : Builds \cup {NoBuild}]
  /\ record.snapshot # NoCommit => record.base \in Commits
  /\ served \in Builds \cup {NoBuild}

RunTypeOK ==
  /\ lock \in Runs \cup {NoRun} /\ incoming \in Runs \cup {NoRun}
  /\ phase \in [Runs -> Phases]
  /\ req \in [Runs -> Requests \cup {NoRequest}]
  /\ build \in [Runs -> [ship : BOOLEAN, digest : Builds \cup {NoBuild}]]
  /\ shown \in [Runs -> Plan \cup {NotShown}]
  /\ outcome \in [Runs -> Outcomes]
  /\ \A r \in Runs : phase[r] # "new" => req[r] \in Requests
  /\ \A r \in Runs : phase[r] = "previewed" => shown[r] \in Plan
  /\ incoming # NoRun => phase[incoming] # "new"

TypeOK == ServerTypeOK /\ RunTypeOK

\* While a run that has previewed still holds the lock, the incoming ref and
\* directory are its own: no refused, broken or finished run has replaced or
\* removed them (cmd_release's token test, cmd_preview's check_lock).
HolderOwnsIncoming ==
  \A r \in Runs : lock = r /\ phase[r] = "previewed" => incoming = r

\* What ties a shown plan to the server: it is the plan of some earlier state
\* of the checkout with the ledger as it still is, because only the holder of
\* the lock writes the ledger.
PlanFromThisLedger ==
  \A r \in Runs : lock = r /\ phase[r] = "previewed" =>
    \E h \in Commits, d, i \in Contents :
      LET s == [head |-> h, disk |-> d, index |-> i, ledger |-> srv.ledger] IN
        /\ shown[r].fingerprint = Fingerprint(s, req[r])
        /\ shown[r].overlaps = Overlaps(s, req[r])

JustApplied(r) == outcome[r] # "applied" /\ outcome'[r] = "applied"

\* What the developer confirmed is what gets applied: the files a successful
\* apply writes and the overlaps it backs up and overwrites are those the plan
\* showed, and what it writes is the run's own staged commit, whatever other
\* runs and people on the server did since the preview.
AppliedAsConfirmed ==
  [][\A r \in Runs : JustApplied(r) =>
       /\ CodePaths(srv, req[r]) = DOMAIN shown[r].fingerprint[2]
       /\ Overlaps(srv, req[r]) = shown[r].overlaps
       /\ srv' = Applied(srv, req[r])]_vars

\* The drafts the plan announced as becoming clean are the ones that do.
AbsorbedAsConfirmed ==
  [][\A r \in Runs : JustApplied(r) => Absorbed(srv, req[r]) = shown[r].absorbed]_vars

\* An apply destroys no uncommitted work: a file whose content it replaces was
\* as in HEAD, or an untouched draft of the same developer, or an overlap the
\* developer was shown and whose content is under refs/benchops/overwritten.
\* (An ignored file git does not track is no change to git status, so it is
\* outside this promise.)
NothingLost ==
  [][\A r \in Runs : JustApplied(r) =>
       \A p \in Sources :
         \/ srv'.disk[p] = srv.disk[p]
         \/ srv.disk[p] = HeadTree(srv)[p]
         \/ Intact(srv, p) /\ Mine(srv, p, req[r])
         \/ p \in shown[r].overlaps /\ <<p, srv.disk[p]>> \in overwritten'
         \/ p \in Ignored /\ srv.index[p] = Absent]_vars

\* Another developer's untouched, still uncommitted draft survives an apply
\* with its owner and label and is staged, unless the plan listed it as an
\* overlap, the run deploys exactly its content, or the new HEAD contains it.
OthersDraftsKept ==
  [][\A r \in Runs : JustApplied(r) =>
       \A p \in Drafts(srv) :
         Intact(srv, p) /\ ~Mine(srv, p, req[r]) /\ srv.disk[p] # HeadTree(srv)[p] =>
           \/ /\ srv'.ledger[p] = srv.ledger[p]
              /\ srv'.disk[p] = srv.disk[p] /\ srv'.index[p] = srv.disk[p]
           \/ p \in shown[r].overlaps
           \/ p \in Takeover(srv, req[r]) /\ srv'.disk[p] = srv.disk[p]
           \/ srv.disk[p] = HeadTree(srv')[p] /\ srv'.disk[p] = srv.disk[p]
           \/ p \in Ignored /\ srv.index[p] = Absent]_vars

\* After an apply every draft that is still as deployed reads as a change to
\* be committed: it is in the index and it differs from the new HEAD.
DraftsReadAsStaged ==
  [][\A r \in Runs : JustApplied(r) =>
       \A p \in Drafts(srv') : Intact(srv', p) =>
         srv'.index[p] = srv'.disk[p] /\ srv'.disk[p] # HeadTree(srv')[p]]_vars

\* A file outside the deploy keeps its content, and, although HEAD moves, its
\* git status: only an untouched draft may change (restaged or absorbed).
RestReadsTheSame ==
  [][\A r \in Runs : JustApplied(r) =>
       \A p \in Sources \ (CodePaths(srv, req[r]) \cup req[r].staged) :
         /\ srv'.disk[p] = srv.disk[p]
         /\ StatusCode(srv', p) = StatusCode(srv, p) \/ Intact(srv, p)]_vars

\* No commit the server has been on, or a branch of it has pointed at, becomes
\* unreachable: moving HEAD or a branch off it leaves a ref behind.
CommitsKept ==
  \A c \in ever : \E d \in {srv.head} \cup kept \cup Tips : Reaches(d, c)

\* Deploying the same thing again right after an apply has nothing to do,
\* provided every file the developer staged was in the deploy set.
RedeployHasNothingToDo ==
  [][\A r \in Runs : JustApplied(r)
                    /\ Uploaded(req[r].base, req[r].tree) \subseteq DeploySet(srv, req[r]) =>
       UpToDate(srv', req[r])]_vars

\* The record names the build that is on the server's disk, so that comparing
\* digests is enough to decide whether a build must be shipped.
RecordedBuildIsServed == served = record.build

\* README: after a deploy "every deployed file matches your staged version on
\* disk and in the index" -- said of every staged file.
StagedFilesArrive ==
  [][\A r \in Runs : JustApplied(r) =>
       \A p \in req[r].staged : srv'.disk[p] = req[r].tree[p] /\ srv'.index[p] = req[r].tree[p]]_vars

\* README: "your staged files become your drafts: recorded in the server's
\* ledger" -- each with the run's developer as owner.
StagedFilesBecomeDrafts ==
  [][\A r \in Runs : JustApplied(r) =>
       \A p \in req[r].staged : p \in Drafts(srv') /\ Mine(srv', p, req[r])]_vars

\* Overlaps are "backed up under refs/benchops/overwritten/, and only then
\* overwritten": a confirmed deploy does not fail for want of a backup.
OverlapsCanBeBackedUp == \A r \in Runs : outcome[r] # "backup_failed"

=============================================================================
