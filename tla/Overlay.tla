------------------------------- MODULE Overlay -------------------------------
(***************************************************************************)
(* The "staged overlay" of a deploy: what remote_agent.py computes from    *)
(* the server's git checkout and the incoming staged commit (`plan`), and  *)
(* what `cmd_apply` leaves behind when it succeeds.                        *)
(*                                                                         *)
(* Pure operators over two records.  A server checkout s has               *)
(*   head    the commit HEAD resolves to,                                  *)
(*   disk    what each file holds in the working tree,                     *)
(*   index   what each file holds in git's index,                          *)
(*   ledger  .git/benchops/ledger.json: the draft recorded for each file.  *)
(* An incoming request r is the staged commit (its tree and the parent     *)
(* `base`) with the arguments the client sends along (dev, label, and the  *)
(* staged paths).  A blob is only compared for equality, so contents are   *)
(* members of a small set.                                                 *)
(***************************************************************************)
EXTENDS FiniteSets

CONSTANTS
  Paths,     \* files of the app
  Outputs,   \* those under a build output (public/dist, SPA builds)
  Ignored,   \* those matched by an ignore rule of the app
  Blobs,     \* file contents
  Absent,    \* "no such file" (None in the code)
  Commits,   \* commits developers and the server exchange
  Tree,      \* Tree[c][p]: the content of p in commit c
  Devs,      \* developers, by git identity
  Labels,    \* values of --label
  NoLabel,   \* no --label given
  NoDraft    \* a file without ledger entry

Content == Blobs \cup {Absent}
Contents == [Paths -> Content]

ASSUME PathsAssumption == Outputs \subseteq Paths /\ Ignored \subseteq Paths
ASSUME TreeAssumption  == Tree \in [Commits -> Contents]
ASSUME DraftAssumption ==
  NoDraft \notin [owner : Devs, label : Labels \cup {NoLabel}, blob : Content]

Entry  == [owner : Devs, label : Labels \cup {NoLabel}, blob : Content]
Server == [head : Commits, disk : Contents, index : Contents,
           ledger : [Paths -> Entry \cup {NoDraft}]]

HeadTree(s) == Tree[s.head]
Drafts(s)   == {p \in Paths : s.ledger[p] # NoDraft}
Sources     == Paths \ Outputs

Letters      == {" ", "A", "D", "M", "?"}    \* of git status --porcelain
Fingerprints == Commits \X UNION {[D -> Content \X (Letters \X Letters)] : D \in SUBSET Sources}

-----------------------------------------------------------------------------
(* git status, as `dirty_paths` reads it                                   *)

\* One porcelain letter: how content b differs from content a.
Letter(a, b) ==
  CASE a = b      -> " "
    [] a = Absent -> "A"
    [] b = Absent -> "D"
    [] OTHER      -> "M"

Untracked(s, p) ==
  s.index[p] = Absent /\ s.disk[p] # Absent /\ p \notin Ignored

\* A file removed from the index but still on disk is listed twice (D and ??);
\* the dictionary keeps the later entry.
StatusCode(s, p) ==
  IF Untracked(s, p) THEN <<"?", "?">>
  ELSE <<Letter(HeadTree(s)[p], s.index[p]),
         IF s.index[p] = Absent THEN " " ELSE Letter(s.index[p], s.disk[p])>>

Clean == <<" ", " ">>
Dirty(s, p) == StatusCode(s, p) # Clean

-----------------------------------------------------------------------------
(* plan: classification of the deploy                                      *)

\* The developer's index against the developer's HEAD; what is not a build
\* output goes into staged_paths.  For a sync both trees are the same.
Uploaded(base, tree)    == {p \in Paths : tree[p] # Tree[base][p]}
StagedPaths(base, tree) == Uploaded(base, tree) \cap Sources

DeploySet(s, r)   == {p \in Paths : HeadTree(s)[p] # r.tree[p]}
CodePaths(s, r)   == DeploySet(s, r) \cap Sources
OutputPaths(s, r) == DeploySet(s, r) \cap Outputs

\* The draft of p is exactly as it was deployed.
Intact(s, p)  == s.ledger[p] # NoDraft /\ s.disk[p] = s.ledger[p].blob

\* The owner is an e-mail address: only the drafts of a converted old ledger,
\* which is not modelled, have a deployer (name@host) for an owner.
Mine(s, p, r) == s.ledger[p].owner = r.dev

Conflicting(s, r) == {p \in CodePaths(s, r) : Dirty(s, p) /\ s.disk[p] # r.tree[p]}
ReplacedIntact(s, r) == {p \in Conflicting(s, r) : Intact(s, p)}     \* mutant: whoever's draft
ReplacedOwn(s, r) == {p \in Conflicting(s, r) : Intact(s, p) /\ Mine(s, p, r)}
Overlaps(s, r)    == Conflicting(s, r) \ ReplacedOwn(s, r)

Takeover(s, r) ==
  {p \in (r.staged \cap Drafts(s)) \ Overlaps(s, r) : ~Mine(s, p, r)}

Absorbed(s, r) ==
  {p \in Drafts(s) \ r.staged :
     /\ Tree[r.base][p] = s.ledger[p].blob
     /\ p \in CodePaths(s, r) \/ Intact(s, p)}

Relabel(s, r) ==
  {p \in r.staged :
     /\ r.label # NoLabel
     /\ p \in Drafts(s) => s.ledger[p].label # r.label}

PendingOnDisk(s, r) == {p \in CodePaths(s, r) : s.disk[p] # r.tree[p]}     \* mutant: the index is not looked at
Pending(s, r) ==
  {p \in CodePaths(s, r) : s.disk[p] # r.tree[p] \/ s.index[p] # r.tree[p]}
OutputsPending(s, r) == {p \in OutputPaths(s, r) : s.index[p] # r.tree[p]}

UpToDate(s, r) ==
  /\ s.head = r.base
  /\ Pending(s, r) = {} /\ OutputsPending(s, r) = {}
  /\ Takeover(s, r) = {} /\ Absorbed(s, r) = {} /\ Relabel(s, r) = {}

\* The digest the developer's confirmation is tied to: HEAD, and disk and
\* status of every file the deploy writes (a hash, taken as injective).
FingerprintContent(s, r) ==   \* mutant: content only
  <<s.head, [p \in CodePaths(s, r) |-> <<s.disk[p], Clean>>]>>
FingerprintHead(s, r) ==      \* mutant: HEAD only
  <<s.head, [p \in CodePaths(s, r) |-> <<Absent, Clean>>]>>
Fingerprint(s, r) ==
  <<s.head, [p \in CodePaths(s, r) |-> <<s.disk[p], StatusCode(s, p)>>]>>

-----------------------------------------------------------------------------
(* cmd_apply: the checkout a successful apply leaves                       *)

\* backup_paths runs `git add -A -- <path>` in an index that holds HEAD: git
\* refuses a path it finds neither on disk nor in that index, and an ignored
\* file that index does not track.
BackupFails(s, over) ==
  \E p \in over : /\ HeadTree(s)[p] = Absent
                  /\ s.disk[p] = Absent \/ p \in Ignored

Written(s, r)      == [p \in Paths |-> IF p \in CodePaths(s, r) THEN r.tree[p] ELSE s.disk[p]]
WrittenIndexWhole(s, r) == r.tree     \* mutant: git read-tree of the whole staged commit
WrittenIndex(s, r) == [p \in Paths |-> IF p \in DeploySet(s, r) THEN r.tree[p] ELSE s.index[p]]

\* --label if given, else the label the draft already had.
LabelOf(s, p, r) ==
  IF r.label # NoLabel \/ s.ledger[p] = NoDraft THEN r.label ELSE s.ledger[p].label

RecordedForOwner(s, r) ==     \* mutant: a draft never changes hands
  [p \in Paths |->
     IF p \notin CodePaths(s, r) THEN s.ledger[p]
     ELSE IF p \in r.staged
          THEN [owner |-> IF s.ledger[p] = NoDraft THEN r.dev ELSE s.ledger[p].owner,
                label |-> LabelOf(s, p, r), blob |-> r.tree[p]]
          ELSE NoDraft]
Recorded(s, r) ==
  [p \in Paths |->
     IF p \notin CodePaths(s, r) THEN s.ledger[p]
     ELSE IF p \in r.staged
          THEN [owner |-> r.dev, label |-> LabelOf(s, p, r), blob |-> r.tree[p]]
          ELSE NoDraft]

\* Drafts the new HEAD contains exactly and that are still so on disk.
NowCommitted(disk, ledger, r) ==
  {p \in Paths : /\ ledger[p] # NoDraft
                 /\ ledger[p].blob = Tree[r.base][p]
                 /\ ledger[p].blob = disk[p]}

\* Absorbed drafts follow the new HEAD; then stage_drafts puts every intact
\* draft that is left back in the index.
UnstagedIndex(disk, index, ledger, gone, r) ==   \* mutant: no stage_drafts
  [p \in Paths |-> IF p \in gone THEN Tree[r.base][p] ELSE index[p]]
RestagedIndex(disk, index, ledger, gone, r) ==
  [p \in Paths |->
     IF p \in gone THEN Tree[r.base][p]
     ELSE IF ledger[p] # NoDraft /\ disk[p] = ledger[p].blob THEN disk[p]
     ELSE index[p]]

Applied(s, r) ==
  LET disk   == Written(s, r)
      ledger == Recorded(s, r)
      gone   == NowCommitted(disk, ledger, r)
  IN [head   |-> r.base,
      disk   |-> disk,
      index  |-> RestagedIndex(disk, WrittenIndex(s, r), ledger, gone, r),
      ledger |-> [p \in Paths |-> IF p \in gone THEN NoDraft ELSE ledger[p]]]

\* The last check of cmd_apply before the deploy is recorded.
Verified(s, new, r) ==
  /\ new.head = r.base
  /\ \A p \in CodePaths(s, r) : new.disk[p] = r.tree[p] /\ new.index[p] = r.tree[p]

=============================================================================
