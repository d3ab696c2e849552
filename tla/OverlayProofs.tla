---------------------------- MODULE OverlayProofs ----------------------------
(***************************************************************************)
(* What `plan` and `cmd_apply` guarantee for every checkout and every      *)
(* request, whatever the files, commits and drafts are.                    *)
(***************************************************************************)
EXTENDS Overlay, TLAPS

\* A request with the fields an overlay operator uses, of the right types.
IsRequest(r) ==
  /\ r.dev \in Devs /\ r.label \in Labels \cup {NoLabel}
  /\ r.base \in Commits /\ r.tree \in Contents
  /\ r.staged = StagedPaths(r.base, r.tree)

-----------------------------------------------------------------------------

LEMMA EntryIsNotNoDraft == \A e \in Entry : e # NoDraft
BY DraftAssumption DEF Entry

LEMMA LetterType == \A a, b : Letter(a, b) \in Letters
BY DEF Letter, Letters

LEMMA FingerprintType ==
  ASSUME NEW s \in Server, NEW q
  PROVE  Fingerprint(s, q) \in Fingerprints
<1> DEFINE D == CodePaths(s, q)
           g == [p \in D |-> <<s.disk[p], StatusCode(s, p)>>]
<1>1. D \subseteq Sources /\ D \subseteq Paths
  BY DEF CodePaths, Sources
<1>2. \A p \in D : StatusCode(s, p) \in Letters \X Letters
  <2>1. " " \in Letters /\ "?" \in Letters
    BY DEF Letters
  <2> QED BY <2>1, LetterType DEF StatusCode
<1>3. \A p \in D : s.disk[p] \in Content
  BY <1>1 DEF Server, Contents
<1>4. g \in [D -> Content \X (Letters \X Letters)]
  BY <1>2, <1>3
<1>5. [D -> Content \X (Letters \X Letters)]
        \in {[E -> Content \X (Letters \X Letters)] : E \in SUBSET Sources}
  BY <1>1
<1>6. g \in UNION {[E -> Content \X (Letters \X Letters)] : E \in SUBSET Sources}
  BY <1>4, <1>5
<1> QED BY <1>6 DEF Fingerprint, Fingerprints, Server

LEMMA OverlapsAreSources == \A s, q : Overlaps(s, q) \subseteq Sources
BY DEF Overlaps, Conflicting, CodePaths

\* The drafts a deploy records are drafts.
LEMMA RecordedType ==
  ASSUME NEW s \in Server, NEW r, IsRequest(r)
  PROVE  Recorded(s, r) \in [Paths -> Entry \cup {NoDraft}]
<1>1. \A p \in Paths : p \in r.staged =>
        [owner |-> r.dev, label |-> LabelOf(s, p, r), blob |-> r.tree[p]] \in Entry
  <2> SUFFICES ASSUME NEW p \in Paths
               PROVE  [owner |-> r.dev, label |-> LabelOf(s, p, r), blob |-> r.tree[p]] \in Entry
    OBVIOUS
  <2>1. LabelOf(s, p, r) \in Labels \cup {NoLabel}
    BY DEF LabelOf, Server, Entry, IsRequest
  <2>2. r.dev \in Devs /\ r.tree[p] \in Content
    BY DEF IsRequest, Contents
  <2> QED BY <2>1, <2>2 DEF Entry
<1> QED BY <1>1 DEF Recorded, Server

\* A checkout after an apply is a checkout, with drafts of source files only.
LEMMA AppliedType ==
  ASSUME NEW s \in Server, NEW r, IsRequest(r), Drafts(s) \subseteq Sources
  PROVE  Applied(s, r) \in Server /\ Drafts(Applied(s, r)) \subseteq Sources
<1> DEFINE disk == Written(s, r)
           ledger == Recorded(s, r)
           gone == NowCommitted(disk, ledger, r)
           index == RestagedIndex(disk, WrittenIndex(s, r), ledger, gone, r)
           left == [p \in Paths |-> IF p \in gone THEN NoDraft ELSE ledger[p]]
<1>1. disk \in Contents
  BY DEF Written, IsRequest, Contents, Server
<1>2. WrittenIndex(s, r) \in Contents
  BY DEF WrittenIndex, IsRequest, Contents, Server
<1>3. ledger \in [Paths -> Entry \cup {NoDraft}]
  BY RecordedType
<1>4. Tree[r.base] \in Contents
  BY TreeAssumption DEF IsRequest
<1>5. index \in Contents
  BY <1>1, <1>2, <1>3, <1>4 DEF RestagedIndex, Contents
<1>6. left \in [Paths -> Entry \cup {NoDraft}]
  BY <1>3
<1>7. Applied(s, r) = [head |-> r.base, disk |-> disk, index |-> index, ledger |-> left]
  BY DEF Applied
<1>8. Applied(s, r) \in Server
  BY <1>1, <1>5, <1>6, <1>7 DEF Server, IsRequest
<1>9. \A p \in Paths : left[p] # NoDraft => p \in Sources
  BY DEF Recorded, CodePaths, Drafts
<1> QED BY <1>7, <1>8, <1>9 DEF Drafts

\* The digest fixes HEAD, the files the deploy writes, and their content and
\* status (fingerprint).
LEMMA SameFingerprint ==
  ASSUME NEW s, NEW t, NEW r, Fingerprint(s, r) = Fingerprint(t, r)
  PROVE  /\ s.head = t.head
         /\ CodePaths(s, r) = CodePaths(t, r)
         /\ \A p \in CodePaths(s, r) :
              s.disk[p] = t.disk[p] /\ StatusCode(s, p) = StatusCode(t, p)
<1> DEFINE F(x) == [p \in CodePaths(x, r) |-> <<x.disk[p], StatusCode(x, p)>>]
<1>1. s.head = t.head /\ F(s) = F(t)
  BY DEF Fingerprint
<1>2. DOMAIN F(s) = CodePaths(s, r) /\ DOMAIN F(t) = CodePaths(t, r)
  OBVIOUS
<1>3. CodePaths(s, r) = CodePaths(t, r)
  BY <1>1, <1>2
<1>4. \A p \in CodePaths(s, r) : F(s)[p] = F(t)[p]
  BY <1>1
<1>5. \A p \in CodePaths(s, r) : <<s.disk[p], StatusCode(s, p)>> = <<t.disk[p], StatusCode(t, p)>>
  BY <1>3, <1>4
<1> HIDE DEF F
<1> QED BY <1>1, <1>3, <1>5

\* With the same ledger, the same digest means the same overlaps, although the
\* digest covers neither the ledger nor the staged commit's content.
LEMMA SameOverlaps ==
  ASSUME NEW s, NEW t, NEW r, Fingerprint(s, r) = Fingerprint(t, r), s.ledger = t.ledger
  PROVE  Overlaps(s, r) = Overlaps(t, r)
<1>1. CodePaths(s, r) = CodePaths(t, r)
  BY SameFingerprint
<1>2. \A p \in CodePaths(s, r) : s.disk[p] = t.disk[p] /\ StatusCode(s, p) = StatusCode(t, p)
  BY SameFingerprint
<1>3. \A p \in CodePaths(s, r) :
        /\ Dirty(s, p) <=> Dirty(t, p)
        /\ Intact(s, p) <=> Intact(t, p)
        /\ Mine(s, p, r) <=> Mine(t, p, r)
  BY <1>2 DEF Dirty, Intact, Mine
<1>4. Conflicting(s, r) = Conflicting(t, r)
  BY <1>1, <1>2, <1>3 DEF Conflicting
<1>5. ReplacedOwn(s, r) = ReplacedOwn(t, r)
  BY <1>3, <1>4 DEF ReplacedOwn, Conflicting
<1> QED BY <1>4, <1>5 DEF Overlaps

\* The check at the end of cmd_apply ("verification failed") never fires when
\* nothing else touches the checkout while the apply runs: restaging drafts and
\* absorbing committed ones leaves every deployed path as in the staged commit.
THEOREM VerificationPasses ==
  ASSUME NEW s \in Server, NEW r, IsRequest(r), Drafts(s) \subseteq Sources
  PROVE  Verified(s, Applied(s, r), r)
<1> DEFINE new == Applied(s, r)
           ledger == Recorded(s, r)
           disk == Written(s, r)
           gone == NowCommitted(disk, ledger, r)
<1> SUFFICES ASSUME NEW p \in CodePaths(s, r)
             PROVE  new.disk[p] = r.tree[p] /\ new.index[p] = r.tree[p]
  BY DEF Verified, Applied
<1>1. p \in Paths /\ p \in DeploySet(s, r) /\ p \in Sources
  BY DEF CodePaths, Sources
<1>2. disk[p] = r.tree[p] /\ WrittenIndex(s, r)[p] = r.tree[p]
  BY <1>1 DEF Written, WrittenIndex
<1>3. p \in gone => Tree[r.base][p] = r.tree[p]
  BY <1>1, <1>2 DEF NowCommitted
<1>4. new.index[p] = IF p \in gone THEN Tree[r.base][p]
                     ELSE IF ledger[p] # NoDraft /\ disk[p] = ledger[p].blob THEN disk[p]
                     ELSE WrittenIndex(s, r)[p]
  BY <1>1 DEF Applied, RestagedIndex
<1> QED BY <1>2, <1>3, <1>4 DEF Applied

-----------------------------------------------------------------------------
(* What an apply does to the files                                         *)

\* The drafts an apply drops because the new HEAD contains them.
Gone(s, r) == NowCommitted(Written(s, r), Recorded(s, r), r)

\* What an apply leaves in HEAD and in each file, ledger entry and index entry.
LEMMA AppliedHead ==
  ASSUME NEW s, NEW r PROVE Applied(s, r).head = r.base
BY DEF Applied

LEMMA AppliedDisk ==
  ASSUME NEW s, NEW r, NEW p \in Paths
  PROVE  Applied(s, r).disk[p] = IF p \in CodePaths(s, r) THEN r.tree[p] ELSE s.disk[p]
BY DEF Applied, Written

LEMMA AppliedLedger ==
  ASSUME NEW s, NEW r, NEW p \in Paths
  PROVE  Applied(s, r).ledger[p] = IF p \in Gone(s, r) THEN NoDraft ELSE Recorded(s, r)[p]
BY DEF Applied, Gone

LEMMA AppliedIndex ==
  ASSUME NEW s, NEW r, NEW p \in Paths
  PROVE  Applied(s, r).index[p] =
           IF p \in Gone(s, r) THEN Tree[r.base][p]
           ELSE IF Recorded(s, r)[p] # NoDraft /\ Applied(s, r).disk[p] = Recorded(s, r)[p].blob
           THEN Applied(s, r).disk[p]
           ELSE IF p \in DeploySet(s, r) THEN r.tree[p] ELSE s.index[p]
BY DEF Applied, RestagedIndex, WrittenIndex, Gone

LEMMA GoneWhen ==
  ASSUME NEW s, NEW r, NEW p \in Paths
  PROVE  p \in Gone(s, r) <=> /\ Recorded(s, r)[p] # NoDraft
                             /\ Recorded(s, r)[p].blob = Tree[r.base][p]
                             /\ Recorded(s, r)[p].blob = Applied(s, r).disk[p]
BY DEF Applied, Gone, NowCommitted

LEMMA RecordedAt ==
  ASSUME NEW s, NEW r, NEW p \in Paths
  PROVE  Recorded(s, r)[p] =
           IF p \notin CodePaths(s, r) THEN s.ledger[p]
           ELSE IF p \in r.staged
                THEN [owner |-> r.dev, label |-> LabelOf(s, p, r), blob |-> r.tree[p]]
                ELSE NoDraft
BY DEF Recorded

\* After an apply, every draft that is still as deployed is in the index and
\* differs from the new HEAD: git status lists it as a change to be committed.
THEOREM DraftsStayStaged ==
  ASSUME NEW s \in Server, NEW r, IsRequest(r), NEW p \in Paths,
         Applied(s, r).ledger[p] # NoDraft, Intact(Applied(s, r), p)
  PROVE  /\ Applied(s, r).index[p] = Applied(s, r).disk[p]
         /\ Applied(s, r).disk[p] # HeadTree(Applied(s, r))[p]
<1> DEFINE new == Applied(s, r)
           rec == Recorded(s, r)
<1>1. p \notin Gone(s, r) /\ new.ledger[p] = rec[p]
  BY AppliedLedger
<1>2. rec[p] # NoDraft /\ new.disk[p] = rec[p].blob
  BY <1>1 DEF Intact
<1>3. new.index[p] = new.disk[p]
  BY <1>1, <1>2, AppliedIndex
<1>4. rec[p].blob # Tree[r.base][p]
  BY <1>1, <1>2, GoneWhen
<1> QED BY <1>2, <1>3, <1>4, AppliedHead DEF HeadTree

\* HEAD moves under the files outside the deploy without their noticing: the
\* content stays, and so does the git status unless the file is an untouched
\* draft.
THEOREM RestIsUntouched ==
  ASSUME NEW s \in Server, NEW r, IsRequest(r), NEW p \in Sources,
         p \notin CodePaths(s, r), p \notin r.staged
  PROVE  /\ Applied(s, r).disk[p] = s.disk[p]
         /\ StatusCode(Applied(s, r), p) = StatusCode(s, p) \/ Intact(s, p)
<1> DEFINE new == Applied(s, r)
<1>1. p \in Paths /\ p \notin DeploySet(s, r)
  BY DEF Sources, CodePaths
<1>2. HeadTree(s)[p] = r.tree[p] /\ r.tree[p] = Tree[r.base][p]
  BY <1>1 DEF DeploySet, IsRequest, StagedPaths, Uploaded
<1>3. new.disk[p] = s.disk[p] /\ HeadTree(new)[p] = HeadTree(s)[p]
  BY <1>1, <1>2, AppliedDisk, AppliedHead DEF HeadTree
<1>4. Recorded(s, r)[p] = s.ledger[p]
  BY <1>1, RecordedAt
<1>5. ~Intact(s, p) => p \notin Gone(s, r)
  BY <1>1, <1>3, <1>4, GoneWhen DEF Intact
<1>6. ~Intact(s, p) => new.index[p] = s.index[p]
  BY <1>1, <1>3, <1>4, <1>5, AppliedIndex DEF Intact
<1>7. ~Intact(s, p) => StatusCode(new, p) = StatusCode(s, p)
  BY <1>3, <1>6 DEF StatusCode, Untracked
<1> QED BY <1>3, <1>7

\* Git status shows a tracked or unignored file that differs from HEAD.
LEMMA DirtyWhenDifferent ==
  ASSUME NEW s, NEW p, ~(p \in Ignored /\ s.index[p] = Absent),
         s.disk[p] # HeadTree(s)[p]
  PROVE  Dirty(s, p)
<1> SUFFICES ASSUME ~Dirty(s, p) PROVE FALSE
  OBVIOUS
<1>1. StatusCode(s, p) = Clean /\ ~Untracked(s, p)
  BY DEF Dirty, StatusCode, Clean
<1>2. /\ Letter(HeadTree(s)[p], s.index[p]) = " "
      /\ s.index[p] # Absent => Letter(s.index[p], s.disk[p]) = " "
  BY <1>1 DEF StatusCode, Clean
<1>3. \A a, b : Letter(a, b) = " " => a = b
  BY DEF Letter
<1> QED BY <1>1, <1>2, <1>3 DEF Untracked

\* The overlay's promise to everybody else's work: a file whose content an
\* apply replaces was as in HEAD, or the developer's own untouched draft, or
\* one of the overlaps (or an ignored file git does not track).
THEOREM ReplacesOnlyKnownContent ==
  ASSUME NEW s \in Server, NEW r, NEW p \in Sources, Applied(s, r).disk[p] # s.disk[p]
  PROVE  \/ s.disk[p] = HeadTree(s)[p]
         \/ Intact(s, p) /\ Mine(s, p, r)
         \/ p \in Overlaps(s, r)
         \/ p \in Ignored /\ s.index[p] = Absent
<1>1. p \in Paths
  BY DEF Sources
<1>2. p \in CodePaths(s, r) /\ s.disk[p] # r.tree[p]
  BY <1>1, AppliedDisk
<1> QED BY <1>2, DirtyWhenDifferent DEF Conflicting, ReplacedOwn, Overlaps

\* What becomes of another developer's untouched draft that is not committed:
\* it stays staged, or the plan lists it as an overlap or a takeover, or the
\* new HEAD contains it.
THEOREM OthersDraftSurvives ==
  ASSUME NEW s \in Server, NEW r, IsRequest(r), Drafts(s) \subseteq Sources,
         NEW p \in Drafts(s), Intact(s, p), ~Mine(s, p, r),
         s.disk[p] # HeadTree(s)[p], ~(p \in Ignored /\ s.index[p] = Absent)
  PROVE  \/ /\ Applied(s, r).ledger[p] = s.ledger[p]
            /\ Applied(s, r).disk[p] = s.disk[p] /\ Applied(s, r).index[p] = s.disk[p]
         \/ p \in Overlaps(s, r)
         \/ p \in Takeover(s, r) /\ Applied(s, r).disk[p] = s.disk[p]
         \/ s.disk[p] = HeadTree(Applied(s, r))[p] /\ Applied(s, r).disk[p] = s.disk[p]
<1> DEFINE new == Applied(s, r)
<1>1. p \in Paths /\ p \in Sources
  BY DEF Drafts
<1>2. CASE p \in CodePaths(s, r) /\ s.disk[p] # r.tree[p]
  BY <1>2, DirtyWhenDifferent DEF Conflicting, ReplacedOwn, Overlaps
<1>3. CASE p \in CodePaths(s, r) /\ s.disk[p] = r.tree[p]
  <2>1. new.disk[p] = s.disk[p]
    BY <1>1, <1>3, AppliedDisk
  <2>2. CASE p \in r.staged
    BY <1>3, <2>1, <2>2 DEF Takeover, Overlaps, Conflicting
  <2>3. CASE p \notin r.staged
    BY <1>1, <1>3, <2>1, <2>3, AppliedHead DEF HeadTree, IsRequest, StagedPaths, Uploaded
  <2> QED BY <2>2, <2>3
<1>4. CASE p \notin CodePaths(s, r)
  <2>1. new.disk[p] = s.disk[p] /\ Recorded(s, r)[p] = s.ledger[p]
    BY <1>1, <1>4, AppliedDisk, RecordedAt
  <2>2. CASE p \in Gone(s, r)
    BY <1>1, <2>1, <2>2, GoneWhen, AppliedHead DEF HeadTree
  <2>3. CASE p \notin Gone(s, r)
    BY <1>1, <2>1, <2>3, AppliedLedger, AppliedIndex DEF Intact
  <2> QED BY <2>2, <2>3
<1> QED BY <1>2, <1>3, <1>4

\* Deploying the same thing again has nothing to do.
THEOREM RedeployIsUpToDate ==
  ASSUME NEW s \in Server, NEW r, IsRequest(r), Drafts(s) \subseteq Sources,
         Uploaded(r.base, r.tree) \subseteq DeploySet(s, r)
  PROVE  UpToDate(Applied(s, r), r)
<1> DEFINE new == Applied(s, r)
<1>1. new.head = r.base
  BY AppliedHead
<1>2. DeploySet(new, r) = Uploaded(r.base, r.tree)
  BY <1>1 DEF DeploySet, HeadTree, Uploaded
<1>3. CodePaths(new, r) = r.staged /\ r.staged \subseteq CodePaths(s, r)
  BY <1>2 DEF CodePaths, IsRequest, StagedPaths
<1>4. Pending(new, r) = {}
  BY <1>3, VerificationPasses DEF Pending, Verified
<1>5. OutputsPending(new, r) = {}
  <2> SUFFICES ASSUME NEW p \in Outputs, p \in DeploySet(s, r) PROVE new.index[p] = r.tree[p]
    BY <1>2 DEF OutputsPending, OutputPaths
  <2>1. p \in Paths /\ p \notin Sources /\ p \notin CodePaths(s, r)
    BY DEF DeploySet, Sources, CodePaths
  <2>2. Recorded(s, r)[p] = NoDraft
    BY <2>1, RecordedAt DEF Drafts
  <2> QED BY <2>1, <2>2, AppliedIndex, GoneWhen
<1>6. \A p \in r.staged : /\ new.ledger[p] # NoDraft /\ Mine(new, p, r)
                          /\ r.label # NoLabel => new.ledger[p].label = r.label
  <2> SUFFICES ASSUME NEW p \in r.staged
               PROVE  /\ new.ledger[p] # NoDraft /\ Mine(new, p, r)
                      /\ r.label # NoLabel => new.ledger[p].label = r.label
    OBVIOUS
  <2> DEFINE e == [owner |-> r.dev, label |-> LabelOf(s, p, r), blob |-> r.tree[p]]
  <2>1. p \in Paths /\ p \in CodePaths(s, r) /\ r.tree[p] # Tree[r.base][p]
    BY <1>3 DEF IsRequest, StagedPaths, Uploaded
  <2>2. Recorded(s, r)[p] = e
    BY <2>1, RecordedAt
  <2>3. e.blob = r.tree[p] /\ e.owner = r.dev /\ e.label = LabelOf(s, p, r)
    OBVIOUS
  <2>4. new.ledger[p] = e
    BY <2>1, <2>2, <2>3, GoneWhen, AppliedLedger
  <2>5. new \in Server
    BY AppliedType
  <2>6. LabelOf(s, p, r) \in Labels \cup {NoLabel}
    BY <2>1 DEF LabelOf, Server, Entry, IsRequest
  <2>7. e # NoDraft
    <3>1. e \in Entry
      BY <2>1, <2>6 DEF Entry, IsRequest, Contents
    <3> QED BY <3>1, EntryIsNotNoDraft
  <2> QED BY <2>3, <2>4, <2>7 DEF Mine, LabelOf
<1>7. Takeover(new, r) = {} /\ Relabel(new, r) = {}
  <2>1. \A p \in r.staged : p \in Drafts(new)
    BY <1>3, <1>6 DEF Drafts, CodePaths, Sources
  <2> QED BY <1>6, <2>1 DEF Takeover, Relabel
<1>8. Absorbed(new, r) = {}
  <2> SUFFICES ASSUME NEW p \in Drafts(new), Intact(new, p), Tree[r.base][p] = new.ledger[p].blob
               PROVE  FALSE
    BY <1>3 DEF Absorbed
  <2> QED BY <1>1, DraftsStayStaged DEF Drafts, Intact, HeadTree
<1> QED BY <1>1, <1>4, <1>5, <1>7, <1>8 DEF UpToDate

=============================================================================
