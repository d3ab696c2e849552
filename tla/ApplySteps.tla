----------------------------- MODULE ApplySteps ------------------------------
(***************************************************************************)
(* One server and the deploys to it, one after the other, with `preview`   *)
(* and `apply` opened up: every git command and file they write is a step. *)
(* The agent can die at any of them (a lost connection, a full disk, a     *)
(* failing git command, a reboot), after which the deploy is repeated or   *)
(* another one follows.  The lock is DeployLock's subject: here it keeps   *)
(* the deploys apart, but not people: they edit files while a plan is      *)
(* shown and, where Windows allows it, while a command runs.               *)
(***************************************************************************)
EXTENDS Overlay

CONSTANTS
  Requests, HandFiles,  \* as in StagingServer
  HandBlobs,            \* contents that only people on the server write
  Branches, Ancestors,
  Units,                \* the build outputs an app has
  Builds,
  Windows,              \* the commands during which people edit: "preview"
  Detached, NoCommit, NoBuild, NoRequest, NoPlan

Request == [dev : Devs, label : Labels \cup {NoLabel}, base : Commits, tree : Contents,
            staged : SUBSET Sources, branch : Branches \cup {Detached},
            build : Builds \cup {NoBuild}]

ASSUME StepsAssumption ==
  /\ HandFiles \subseteq Sources /\ HandBlobs \subseteq Blobs
  /\ Requests \subseteq Request
  /\ \A q \in Requests : q.staged = StagedPaths(q.base, q.tree)
  /\ NoCommit \notin Commits /\ Detached \notin Branches

\* Every commit is an ancestor of itself, and an ancestor's ancestors are.
ASSUME HistoryAssumption ==
  /\ Ancestors \in [Commits -> SUBSET Commits]
  /\ \A c \in Commits : c \in Ancestors[c]
  /\ \A c \in Commits : \A d \in Ancestors[c] : Ancestors[d] \subseteq Ancestors[c]

ASSUME HandAssumption ==
  /\ Absent \notin HandBlobs
  /\ \A c \in Commits, p \in Paths : Tree[c][p] \notin HandBlobs
  /\ \A q \in Requests, p \in Paths : q.tree[p] \notin HandBlobs

VARIABLES
  srv, branch, heads, kept, overwritten,  \* as in StagingServer
  record,       \* build digest in deploy.json
  served,       \* the build each output on disk comes from
  pc, req,      \* where the agent is, for which request
  shown,        \* the plan: fingerprint, overlaps, build decision
  planned,      \* in apply: the checkout `plan` classified
  memo,         \* in apply: the ledger in memory
  todo,         \* deployed files not yet written or removed on disk
  unindexed,    \* deployed files not yet written or removed in the index
  unshipped,    \* build outputs not yet replaced
  work,         \* history: what people last wrote into each file, if HandBlobs
  ever,         \* history: every commit HEAD or a branch has pointed at
  owed          \* history: what deploys of the same request, cut short since
                \* anybody else changed anything, had begun to write

repo     == <<branch, heads, kept, ever>>
build    == <<record, served, unshipped>>
memory   == <<planned, memo, todo, unindexed>>    \* of the agent, while apply runs
history  == <<work, owed>>
vars     == <<srv, repo, overwritten, build, pc, req, shown, memory, history>>

Resting  == {"idle", "asked", "up_to_date", "applied"}
Applying == {"checked", "backed_up", "writing", "refs", "ref", "switch", "ledger", "stage",
             "save", "ship", "record"}

Plan   == [overlaps : SUBSET Sources, ship : BOOLEAN, nothing : BOOLEAN,
           digest : Builds \cup {NoBuild}, fingerprint : Fingerprints \cup {<<>>}]
Ledger == [Paths -> Entry \cup {NoDraft}]

TypeOK ==
  /\ srv \in Server
  /\ branch \in Branches \cup {Detached} /\ heads \in [Branches -> Commits \cup {NoCommit}]
  /\ kept \subseteq Commits /\ ever \subseteq Commits /\ overwritten \subseteq Sources \X Content
  /\ record \in Builds \cup {NoBuild} /\ served \in [Units -> Builds \cup {NoBuild}]
  /\ pc \in Resting \cup Applying \cup {"preview"} /\ req \in Requests \cup {NoRequest}
  /\ pc # "idle" => req \in Requests
  /\ pc \in Applying \cup {"preview", "asked"} => shown \in Plan
  /\ pc \in Applying => planned \in Server /\ memo \in Ledger
  /\ pc \in {"ref", "switch"} => req.branch # Detached
  /\ pc = "switch" => heads[req.branch] # NoCommit
  /\ todo \subseteq Sources /\ unindexed \subseteq Sources /\ unshipped \subseteq Units
  /\ work \in [HandFiles -> HandBlobs \cup {Absent}] /\ owed \subseteq Sources

Code     == CodePaths(planned, req)
ToWrite  == {p \in todo : req.tree[p] # Absent}
Reaches(c, d) == d \in Ancestors[c]
Tips     == {heads[b] : b \in Branches} \ {NoCommit}

Goto(from, to) == pc = from /\ pc' = to
Index(ps, t)   == [srv EXCEPT !.index = [p \in Paths |-> IF p \in ps THEN t[p] ELSE @[p]]]

\* A command ends, or the agent dies: what it had in memory is gone.
Forget ==
  /\ shown' = NoPlan /\ planned' = NoPlan /\ memo' = NoPlan
  /\ todo' = {} /\ unindexed' = {} /\ unshipped' = {}

-----------------------------------------------------------------------------
(* inspect and preview                                                     *)

\* A new run with the lock taken and its package unpacked: preview's plan.
\* The build is shipped if its digest is not the recorded one.
PreviewPlan(q) ==
  /\ pc \in Resting \ {"asked"} /\ pc' = "preview"
  /\ req' = q
  /\ LET ship == q.build \notin {NoBuild, record} IN
       shown' = [overlaps |-> Overlaps(srv, q), ship |-> ship,
                 nothing |-> UpToDate(srv, q) /\ ~ship,
                 digest |-> IF ship THEN q.build ELSE record, fingerprint |-> <<>>]
  /\ owed' = IF q = req THEN owed ELSE {}
  /\ UNCHANGED <<srv, repo, overwritten, build, memory, work>>

\* The digest is taken last, from the files as they are by then.
PreviewFingerprint ==
  /\ Goto("preview", IF shown.nothing THEN "up_to_date" ELSE "asked")
  /\ IF shown.nothing THEN Forget
     ELSE shown' = [shown EXCEPT !.fingerprint = Fingerprint(srv, req)] /\ UNCHANGED <<memory, unshipped>>
  /\ UNCHANGED <<srv, repo, overwritten, record, served, req, history>>

\* The developer declines, or the run ends before apply.
Decline ==
  /\ Goto("asked", "idle")
  /\ Forget
  /\ UNCHANGED <<srv, repo, overwritten, record, served, req, history>>

-----------------------------------------------------------------------------
(* apply                                                                   *)

UnchangedHead(s) == s.head = shown.fingerprint[1]     \* mutant: only HEAD is compared
Unchanged(s) == Fingerprint(s, req) = shown.fingerprint

StartApply ==
  /\ pc = "asked" /\ Unchanged(srv)
  /\ pc' = "checked"
  /\ planned' = srv /\ memo' = srv.ledger
  /\ todo' = CodePaths(srv, req) /\ unindexed' = CodePaths(srv, req)
  /\ unshipped' = IF shown.ship THEN Units ELSE {}
  /\ UNCHANGED <<srv, repo, overwritten, record, served, req, shown, history>>

StagingChanged ==
  /\ pc = "asked" /\ ~Unchanged(srv)
  /\ pc' = "idle"
  /\ Forget
  /\ UNCHANGED <<srv, repo, overwritten, record, served, req, history>>

Saved(ps) == {<<p, srv.disk[p]>> : p \in ps}
Backup ==
  /\ Goto("checked", "backed_up")
  /\ ~BackupFails(srv, shown.overlaps)
  /\ overwritten' = overwritten \cup Saved(shown.overlaps)
  /\ UNCHANGED <<srv, repo, build, req, shown, memory, history>>

BackupRefused ==
  /\ Goto("checked", "idle")
  /\ BackupFails(srv, shown.overlaps)
  /\ Forget
  /\ UNCHANGED <<srv, repo, overwritten, record, served, req, history>>

\* Commits that moving off c to base leaves without a ref.
LeftBehindSwapped(c, base) ==     \* mutant: is-ancestor's arguments swapped
  {d \in {c} \ {NoCommit} : base \notin Ancestors[d]}
LeftBehind(c, base) == {c} \ ({NoCommit} \cup Ancestors[base])

\* refs/benchops/previous-head
KeepHead ==
  /\ Goto("backed_up", "writing")
  /\ kept' = kept \cup LeftBehind(planned.head, req.base)
  /\ UNCHANGED <<srv, branch, heads, ever, overwritten, build, req, shown, memory, history>>

\* git checkout writes the files and then the index.
WriteFile(p) ==
  /\ pc = "writing" /\ p \in ToWrite
  /\ srv' = [srv EXCEPT !.disk[p] = req.tree[p]]
  /\ todo' = todo \ {p}
  /\ owed' = owed \cup Code
  /\ UNCHANGED <<repo, overwritten, build, pc, req, shown, planned, memo, unindexed, work>>

IndexWritten ==
  LET written == {p \in unindexed : req.tree[p] # Absent} IN
  /\ pc = "writing" /\ ToWrite = {} /\ written # {}
  /\ srv' = Index(written, req.tree)
  /\ unindexed' = unindexed \ written
  /\ UNCHANGED <<repo, overwritten, build, pc, req, shown, planned, memo, todo, history>>

RemoveFile(p) ==
  /\ pc = "writing" /\ p \in todo
  /\ \A o \in unindexed : req.tree[o] = Absent
  /\ srv' = [srv EXCEPT !.disk[p] = Absent]
  /\ todo' = todo \ {p}
  /\ owed' = owed \cup Code
  /\ UNCHANGED <<repo, overwritten, build, pc, req, shown, planned, memo, unindexed, work>>

\* git rm --cached for the deleted files, git reset for the build outputs; the two
\* are one step here.
FilesOptional == TRUE     \* mutant: HEAD moves whether or not the files are written
FilesWritten == todo = {}
RestOfIndex == unindexed \cup OutputPaths(planned, req)
IndexRest ==
  /\ Goto("writing", "refs")
  /\ FilesWritten /\ \A o \in unindexed : req.tree[o] = Absent
  /\ srv' = Index(RestOfIndex, req.tree)
  /\ unindexed' = {}
  /\ UNCHANGED <<repo, overwritten, build, req, shown, planned, memo, todo, history>>

\* refs/benchops/branch-backup
KeepTip ==
  /\ Goto("refs", "ref")
  /\ req.branch # Detached
  /\ kept' = kept \cup LeftBehind(heads[req.branch], req.base)
  /\ UNCHANGED <<srv, branch, heads, ever, overwritten, build, req, shown, memory, history>>

\* git update-ref moves HEAD with it when HEAD is on that branch.
MoveRef ==
  /\ Goto("ref", "switch")
  /\ heads' = [heads EXCEPT ![req.branch] = req.base]
  /\ ever' = ever \cup {req.base}
  /\ srv' = IF branch = req.branch THEN [srv EXCEPT !.head = req.base] ELSE srv
  /\ UNCHANGED <<branch, kept, overwritten, build, req, shown, memory, history>>

SwitchHead ==
  /\ Goto("switch", "ledger")
  /\ branch' = req.branch
  /\ srv' = [srv EXCEPT !.head = heads[req.branch]]
  /\ UNCHANGED <<heads, kept, ever, overwritten, build, req, shown, memory, history>>

DetachHead ==
  /\ Goto("refs", "ledger")
  /\ req.branch = Detached
  /\ branch' = Detached
  /\ srv' = [srv EXCEPT !.head = req.base]
  /\ ever' = ever \cup {req.base}
  /\ UNCHANGED <<heads, kept, overwritten, build, req, shown, memory, history>>

\* The ledger in memory gets this deploy's drafts and loses the absorbed ones,
\* whose index entries follow the new HEAD.
ResetAbsorbed ==
  LET recorded == Recorded([planned EXCEPT !.ledger = memo], req)
      gone     == NowCommitted(srv.disk, recorded, req)
  IN /\ Goto("ledger", "stage")
     /\ memo' = [p \in Paths |-> IF p \in gone THEN NoDraft ELSE recorded[p]]
     /\ srv' = Index(gone, Tree[req.base])
     /\ UNCHANGED <<repo, overwritten, build, req, shown, planned, todo, unindexed, history>>

\* stage_drafts in one step: the hashes, git add -f, git rm --cached.
StageDrafts ==
  /\ Goto("stage", "save")
  /\ srv' = Index({p \in Paths : memo[p] # NoDraft /\ srv.disk[p] = memo[p].blob}, srv.disk)
  /\ UNCHANGED <<repo, overwritten, build, req, shown, memory, history>>

WriteLedger ==
  /\ Goto("save", "ship")
  /\ srv' = [srv EXCEPT !.ledger = memo]
  /\ UNCHANGED <<repo, overwritten, build, req, shown, memory, history>>

\* replace_build_outputs, one output after the other: an output is removed and
\* put in place in one step.
ReplaceOutput(u) ==
  /\ pc = "ship" /\ u \in unshipped
  /\ served' = [served EXCEPT ![u] = req.build]
  /\ unshipped' = unshipped \ {u}
  /\ UNCHANGED <<srv, repo, overwritten, record, pc, req, shown, memory, history>>

Verify ==
  /\ unshipped = {}
  /\ Goto("ship", "record") /\ Verified(planned, srv, req)
  /\ UNCHANGED <<srv, repo, overwritten, build, req, shown, memory, history>>

VerificationFailed ==
  /\ unshipped = {}
  /\ Goto("ship", "idle") /\ ~Verified(planned, srv, req)
  /\ Forget
  /\ UNCHANGED <<srv, repo, overwritten, record, served, req, history>>

Record ==
  /\ Goto("record", "applied")
  /\ record' = shown.digest
  /\ Forget
  /\ UNCHANGED <<srv, repo, overwritten, served, req, history>>

Apply ==
  \/ StartApply \/ StagingChanged \/ Backup \/ BackupRefused \/ KeepHead
  \/ \E p \in Paths : WriteFile(p) \/ RemoveFile(p)
  \/ IndexWritten \/ IndexRest \/ KeepTip \/ MoveRef \/ SwitchHead \/ DetachHead
  \/ ResetAbsorbed \/ StageDrafts \/ WriteLedger
  \/ (\E u \in Units : ReplaceOutput(u)) \/ Verify \/ VerificationFailed \/ Record

\* The agent dies; its memory is gone, what it wrote is not.
Crash ==
  /\ pc \in Applying /\ pc' = "idle"
  /\ Forget
  /\ UNCHANGED <<srv, repo, overwritten, record, served, req, history>>

-----------------------------------------------------------------------------
(* People on the server                                                    *)

HandWork(new, p) ==
  /\ pc \in Resting \cup Windows
  /\ srv' = new
  /\ owed' = {}
  /\ UNCHANGED <<repo, overwritten, build, pc, req, shown, memory>>

Edit(p, v) ==
  /\ HandWork([srv EXCEPT !.disk[p] = v], p)
  /\ work' = [work EXCEPT ![p] = v]
StageEdit(p) ==
  /\ HandWork([srv EXCEPT !.index[p] = srv.disk[p]], p)
  /\ UNCHANGED work

ByHand == \E p \in HandFiles : (\E v \in HandBlobs \cup {Absent} : Edit(p, v)) \/ StageEdit(p)

-----------------------------------------------------------------------------

Init ==
  /\ \E c \in Commits, on \in Branches \cup {Detached} :
       /\ srv = [head |-> c, disk |-> Tree[c], index |-> Tree[c], ledger |-> [p \in Paths |-> NoDraft]]
       /\ branch = on
       /\ heads \in [Branches -> Commits \cup {NoCommit}]
       /\ on # Detached => heads[on] = c
  /\ ever = {srv.head} \cup Tips
  /\ kept = {} /\ overwritten = {}
  /\ record = NoBuild /\ served = [u \in Units |-> NoBuild]
  /\ pc = "idle" /\ req = NoRequest
  /\ shown = NoPlan /\ planned = NoPlan /\ memo = NoPlan
  /\ todo = {} /\ unindexed = {} /\ unshipped = {}
  /\ work = [p \in HandFiles |-> Absent]
  /\ owed = {}

Next ==
  \/ \E q \in Requests : PreviewPlan(q)
  \/ PreviewFingerprint \/ Decline \/ Apply \/ Crash \/ ByHand

Spec == Init /\ [][Next]_vars

-----------------------------------------------------------------------------
(* Properties                                                              *)

\* Seen from outside, apply is one step from one checkout to the deployed one,
\* and a crash leaves a checkout in between (AtomicApply).
Atomic == INSTANCE AtomicApply WITH checkout <- IF pc \in Applying THEN planned ELSE srv
AppliesAtomically == Atomic!Spec

\* What somebody on the server wrote, and exists nowhere else, stays on disk
\* or goes to refs/benchops/overwritten, whichever step a crash interrupts.
WorkKept ==
  \A p \in HandFiles :
    work[p] \in HandBlobs => srv.disk[p] = work[p] \/ <<p, work[p]>> \in overwritten

\* The history stays reachable between the steps of an apply, too.
CommitsKept ==
  \A c \in ever : \E d \in {srv.head} \cup kept \cup Tips : Reaches(d, c)

\* A deploy that is repeated after crashes, with nothing else happening in
\* between, ends with everything in place that the first attempt set out to
\* write, although a later attempt's deploy set is a smaller one.
RetryRecovers ==
  pc \in {"applied", "up_to_date"} =>
    \A p \in owed : srv.disk[p] = req.tree[p] /\ srv.index[p] = req.tree[p]

\* build.py: outputs "replace the remote copy wholesale, so the HTML and the
\* hashed assets it references always come from the same build".
OutputsFromOneBuild ==
  pc \in {"applied", "up_to_date"} => \A u, w \in Units : served[u] = served[w]

\* "already up to date (... + your staged files)" is only said of files that
\* are the developer's drafts.
UpToDateIsRecorded ==
  pc = "up_to_date" => \A p \in req.staged : srv.ledger[p] # NoDraft /\ Mine(srv, p, req)

=============================================================================
