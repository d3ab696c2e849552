--------------------------- MODULE ApplyStepsProofs ---------------------------
(***************************************************************************)
(* Inside one apply, for any files, commits, branches and requests: what   *)
(* holds after each step, and so wherever a crash cuts the apply short.    *)
(***************************************************************************)
EXTENDS ApplySteps, OverlayProofs

LEMMA StepRequests ==
  \A q \in Requests : IsRequest(q) /\ q.branch \in Branches \cup {Detached} /\ q.build \in Builds \cup {NoBuild}
BY StepsAssumption DEF Request, IsRequest

LEMMA CodeIsSource == \A s, q : CodePaths(s, q) \subseteq Sources
BY DEF CodePaths

\* A checkout with another index.
LEMMA IndexType ==
  ASSUME srv \in Server, NEW ps, NEW t, \A p \in Paths \cap ps : t[p] \in Content
  PROVE  /\ Index(ps, t) \in Server
         /\ Index(ps, t).head = srv.head /\ Index(ps, t).disk = srv.disk
         /\ Index(ps, t).ledger = srv.ledger
         /\ \A p \in Paths : Index(ps, t).index[p] = IF p \in ps THEN t[p] ELSE srv.index[p]
<1> DEFINE ix == [p \in Paths |-> IF p \in ps THEN t[p] ELSE srv.index[p]]
<1>1. ix \in Contents
  BY DEF Server, Contents
<1>2. Index(ps, t) = [srv EXCEPT !.index = ix]
  BY DEF Index
<1>3. /\ Index(ps, t) \in Server /\ Index(ps, t).index = ix
      /\ Index(ps, t).head = srv.head /\ Index(ps, t).disk = srv.disk
      /\ Index(ps, t).ledger = srv.ledger
  <2> HIDE DEF ix
  <2> QED
    BY <1>1, <1>2 DEF Server
<1> QED
  BY <1>3

-----------------------------------------------------------------------------
(* Types                                                                   *)

LEMMA EndOfCommand ==
  ASSUME TypeOK, Forget, pc' \in Resting \ {"asked"}, req' = req, req' \in Requests,
         UNCHANGED <<srv, repo, overwritten, served, work>>,
         record' \in Builds \cup {NoBuild}, owed' = owed
  PROVE  TypeOK'
BY DEF TypeOK, Forget, repo, Resting, Applying

LEMMA StepsTypesKept == TypeOK /\ [Next]_vars => TypeOK'
<1> SUFFICES ASSUME TypeOK, [Next]_vars PROVE TypeOK'
  OBVIOUS
<1> USE DEF repo, build, memory, history
<1>1. CASE UNCHANGED vars
  BY <1>1 DEF TypeOK, vars, Resting, Applying
<1>2. ASSUME NEW q \in Requests, PreviewPlan(q) PROVE TypeOK'
  <2>1. Overlaps(srv, q) \subseteq Sources
    BY OverlapsAreSources
  <2>2. shown' \in Plan
    BY <1>2, <2>1, StepRequests DEF PreviewPlan, Plan, TypeOK
  <2>3. owed' \subseteq Sources
    BY <1>2 DEF PreviewPlan, TypeOK
  <2> QED
    BY <1>2, <2>2, <2>3 DEF PreviewPlan, TypeOK, Resting, Applying
<1>3. CASE PreviewFingerprint
  <2>1. CASE shown.nothing
    BY <1>3, <2>1, EndOfCommand DEF PreviewFingerprint, Goto, TypeOK, Resting, Applying
  <2>2. CASE ~shown.nothing
    <3>1. shown' \in Plan
      BY <1>3, <2>2, FingerprintType DEF PreviewFingerprint, Goto, Plan, TypeOK
    <3> QED
      BY <1>3, <2>2, <3>1 DEF PreviewFingerprint, Goto, TypeOK, Resting, Applying
  <2> QED
    BY <2>1, <2>2
<1>4. CASE Decline \/ StagingChanged \/ BackupRefused \/ VerificationFailed \/ Crash
  BY <1>4, EndOfCommand
     DEF Decline, StagingChanged, BackupRefused, VerificationFailed, Crash, Goto, TypeOK, Resting, Applying
<1>5. CASE Record
  <2>1. shown.digest \in Builds \cup {NoBuild}
    BY <1>5 DEF Record, Goto, TypeOK, Applying, Plan
  <2> QED
    BY <1>5, <2>1, EndOfCommand DEF Record, Goto, TypeOK, Resting, Applying
<1>6. CASE StartApply
  <2>1. CodePaths(srv, req) \subseteq Sources /\ srv.ledger \in Ledger
    BY CodeIsSource DEF TypeOK, Server, Ledger
  <2> QED
    BY <1>6, <2>1 DEF StartApply, TypeOK, Resting, Applying
<1>7. CASE Backup
  <2>1. Saved(shown.overlaps) \subseteq Sources \X Content
    BY <1>7 DEF Backup, Goto, Saved, TypeOK, Applying, Plan, Server, Contents, Sources
  <2> QED
    BY <1>7, <2>1 DEF Backup, Goto, TypeOK, Resting, Applying
<1>8. CASE KeepHead \/ KeepTip
  <2>1. req \in Requests /\ req.branch \in Branches \cup {Detached}
    BY <1>8, StepRequests DEF KeepHead, KeepTip, Goto, TypeOK
  <2>2. kept' \subseteq Commits
    BY <1>8, <2>1 DEF KeepHead, KeepTip, Goto, LeftBehind, TypeOK, Applying, Server
  <2> QED
    BY <1>8, <2>2 DEF KeepHead, KeepTip, Goto, TypeOK, Resting, Applying
<1>9. ASSUME NEW p \in Paths, WriteFile(p) \/ RemoveFile(p) PROVE TypeOK'
  <2>1. pc = "writing" /\ req \in Requests /\ req.tree[p] \in Content
    BY <1>9, StepRequests DEF WriteFile, RemoveFile, TypeOK, IsRequest, Contents
  <2>2. \E v \in Content : srv' = [srv EXCEPT !.disk[p] = v]
    BY <1>9, <2>1 DEF WriteFile, RemoveFile, Content
  <2>3. srv' \in Server
    BY <2>2 DEF TypeOK, Server, Contents
  <2>4. owed' \subseteq Sources
    BY <1>9, CodeIsSource DEF WriteFile, RemoveFile, Code, TypeOK
  <2> QED
    BY <1>9, <2>1, <2>3, <2>4 DEF WriteFile, RemoveFile, TypeOK, Resting, Applying
<1>10. CASE IndexWritten \/ IndexRest
  <2>1. pc = "writing" /\ req \in Requests /\ req.tree \in Contents
    BY <1>10, StepRequests DEF IndexWritten, IndexRest, Goto, TypeOK, IsRequest
  <2>2. \A ps : Index(ps, req.tree) \in Server
    BY <2>1, IndexType DEF TypeOK, Contents
  <2>3. \E ps : srv' = Index(ps, req.tree)
    BY <1>10 DEF IndexWritten, IndexRest
  <2> QED
    BY <1>10, <2>1, <2>2, <2>3 DEF IndexWritten, IndexRest, Goto, TypeOK, Resting, Applying
<1>11. CASE MoveRef \/ SwitchHead \/ DetachHead
  <2>1. req \in Requests /\ req.base \in Commits /\ req.branch \in Branches \cup {Detached}
    BY <1>11, StepRequests DEF MoveRef, SwitchHead, DetachHead, Goto, TypeOK, IsRequest
  <2>2. CASE MoveRef
    <3>1. srv' \in Server
      BY <2>1, <2>2 DEF MoveRef, TypeOK, Server
    <3>2. heads' \in [Branches -> Commits \cup {NoCommit}] /\ heads'[req.branch] = req.base
      BY <2>1, <2>2 DEF MoveRef, Goto, TypeOK
    <3>3. req.base # NoCommit
      BY <2>1, StepsAssumption
    <3> QED
      BY <2>1, <2>2, <3>1, <3>2, <3>3 DEF MoveRef, Goto, TypeOK, Resting, Applying
  <2>3. CASE SwitchHead
    <3>1. heads[req.branch] \in Commits
      BY <2>1, <2>3 DEF SwitchHead, Goto, TypeOK
    <3>2. srv' \in Server
      BY <2>3, <3>1 DEF SwitchHead, TypeOK, Server
    <3> QED
      BY <2>1, <2>3, <3>2 DEF SwitchHead, Goto, TypeOK, Resting, Applying
  <2>4. CASE DetachHead
    <3>1. srv' \in Server
      BY <2>1, <2>4 DEF DetachHead, TypeOK, Server
    <3> QED
      BY <2>1, <2>4, <3>1 DEF DetachHead, Goto, TypeOK, Resting, Applying
  <2> QED
    BY <1>11, <2>2, <2>3, <2>4
<1>12. CASE ResetAbsorbed
  <2> DEFINE old      == [planned EXCEPT !.ledger = memo]
             recorded == Recorded(old, req)
             gone     == NowCommitted(srv.disk, recorded, req)
  <2>1. pc = "ledger" /\ req \in Requests /\ IsRequest(req) /\ planned \in Server /\ memo \in Ledger
    BY <1>12, StepRequests DEF ResetAbsorbed, Goto, TypeOK, Applying
  <2>2. old \in Server
    BY <2>1 DEF Server, Ledger
  <2>3. recorded \in Ledger
    BY <2>1, <2>2, RecordedType DEF Ledger
  <2>4. srv' = Index(gone, Tree[req.base]) /\ memo' = [p \in Paths |-> IF p \in gone THEN NoDraft ELSE recorded[p]]
    BY <1>12 DEF ResetAbsorbed
  <2>5. Tree[req.base] \in Contents
    BY <2>1, TreeAssumption DEF IsRequest
  <2> HIDE DEF old, recorded, gone
  <2>6. srv' \in Server
    BY <2>4, <2>5, IndexType DEF TypeOK, Contents
  <2>7. memo' \in Ledger
    BY <2>3, <2>4 DEF Ledger
  <2> QED
    BY <1>12, <2>1, <2>6, <2>7 DEF ResetAbsorbed, Goto, TypeOK, Resting, Applying
<1>13. CASE StageDrafts
  <2>1. srv.disk \in Contents
    BY DEF TypeOK, Server
  <2>2. \A ps : Index(ps, srv.disk) \in Server
    BY <2>1, IndexType DEF TypeOK, Contents
  <2> QED
    BY <1>13, <2>2 DEF StageDrafts, Goto, TypeOK, Resting, Applying
<1>14. CASE WriteLedger
  <2>1. srv' \in Server
    BY <1>14 DEF WriteLedger, Goto, TypeOK, Applying, Server, Ledger
  <2> QED
    BY <1>14, <2>1 DEF WriteLedger, Goto, TypeOK, Resting, Applying
<1>15. ASSUME NEW u \in Units, ReplaceOutput(u) PROVE TypeOK'
  <2>1. req.build \in Builds \cup {NoBuild}
    BY <1>15, StepRequests DEF ReplaceOutput, TypeOK
  <2> QED
    BY <1>15, <2>1 DEF ReplaceOutput, TypeOK, Resting, Applying
<1>16. CASE Verify
  BY <1>16 DEF Verify, Goto, TypeOK, Resting, Applying
<1>17. CASE ByHand
  <2>1. PICK p \in HandFiles : (\E v \in HandBlobs \cup {Absent} : Edit(p, v)) \/ StageEdit(p)
    BY <1>17 DEF ByHand
  <2>2. p \in Paths /\ HandBlobs \cup {Absent} \subseteq Content
    BY StepsAssumption DEF Sources, Content
  <2>3. srv' \in Server
    BY <2>1, <2>2 DEF Edit, StageEdit, HandWork, TypeOK, Server, Contents
  <2>4. work' \in [HandFiles -> HandBlobs \cup {Absent}]
    BY <2>1 DEF Edit, StageEdit, TypeOK
  <2> QED
    BY <2>1, <2>3, <2>4 DEF Edit, StageEdit, HandWork, TypeOK, Resting, Applying
<1> QED
  BY <1>1, <1>2, <1>3, <1>4, <1>5, <1>6, <1>7, <1>8, <1>9, <1>10, <1>11, <1>12, <1>13, <1>14,
     <1>15, <1>16, <1>17
  DEF Next, Apply

LEMMA StepsTypesInit == Init => TypeOK
<1> SUFFICES ASSUME Init PROVE TypeOK
  OBVIOUS
<1>1. PICK c \in Commits, on \in Branches \cup {Detached} :
        /\ srv = [head |-> c, disk |-> Tree[c], index |-> Tree[c], ledger |-> [p \in Paths |-> NoDraft]]
        /\ branch = on
        /\ heads \in [Branches -> Commits \cup {NoCommit}]
        /\ on # Detached => heads[on] = c
  BY DEF Init
<1>2. srv \in Server
  BY <1>1, TreeAssumption DEF Server
<1>3. Tips \subseteq Commits
  BY <1>1 DEF Tips
<1> QED
  BY <1>1, <1>2, <1>3 DEF Init, TypeOK, Resting, Applying, Server

\* Types hold in every step, whatever people edit and wherever an apply dies.
THEOREM StepsTypes == Spec => []TypeOK
BY StepsTypesInit, StepsTypesKept, PTL DEF Spec

-----------------------------------------------------------------------------
(* How far an apply has got                                                *)

Before == {"checked", "backed_up", "writing"}      \* not all files are written
After  == {"stage", "save", "ship", "record"}      \* the ledger is known
Full   == Applied(planned, req)

\* The checkout at each step, from the one the plan classified (planned) to the
\* deployed one (Full), as long as nobody else writes to it: files, then index,
\* HEAD, the index entries of absorbed and of staged drafts, and the ledger.
Progress ==
  /\ pc \in Before =>
       /\ todo \subseteq Code /\ unindexed \subseteq Code
       /\ \A p \in todo : p \in unindexed \/ req.tree[p] = Absent
       /\ \A p \in Paths : srv.disk[p] = IF p \in Code \ todo THEN req.tree[p] ELSE planned.disk[p]
       /\ \A p \in Paths : srv.index[p] = IF p \in Code \ unindexed THEN req.tree[p] ELSE planned.index[p]
  /\ pc \in Applying \ Before => \A p \in Paths : srv.disk[p] = Full.disk[p]
  /\ pc \in {"refs", "ref", "switch", "ledger"} =>
       \A p \in Paths : srv.index[p] = WrittenIndex(planned, req)[p]
  /\ pc = "stage" =>
       \A p \in Paths : srv.index[p] = IF p \in Gone(planned, req) THEN Tree[req.base][p]
                                       ELSE WrittenIndex(planned, req)[p]
  /\ pc \in {"save", "ship", "record"} => \A p \in Paths : srv.index[p] = Full.index[p]
  /\ pc \in Before \cup {"refs", "ref"} => srv.head = planned.head
  /\ pc = "switch" => srv.head \in {planned.head, req.base} /\ heads[req.branch] = req.base
  /\ pc \in After \cup {"ledger"} => srv.head = req.base
  /\ pc \in Applying \ After => memo = planned.ledger
  /\ pc \in {"stage", "save"} => memo = Full.ledger
  /\ pc \in Applying \ {"ship", "record"} => srv.ledger = planned.ledger
  /\ pc \in {"ship", "record"} => srv.ledger = Full.ledger

\* The ledger in memory becomes the deployed one.
LEMMA MemoOfFull ==
  ASSUME TypeOK, Progress, ResetAbsorbed
  PROVE  /\ memo' = Full.ledger
         /\ srv' = Index(Gone(planned, req), Tree[req.base])
<1> DEFINE old      == [planned EXCEPT !.ledger = memo]
           recorded == Recorded(old, req)
           gone     == NowCommitted(srv.disk, recorded, req)
<1>1. pc = "ledger" /\ planned \in Server /\ memo = planned.ledger
  BY DEF ResetAbsorbed, Goto, TypeOK, Applying, Progress, After
<1>2. old = planned
  BY <1>1 DEF Server
<1>3. \A p \in Paths : srv.disk[p] = Written(planned, req)[p]
  BY <1>1 DEF Progress, Applying, Before, Full, Applied
<1>4. gone = Gone(planned, req)
  BY <1>2, <1>3 DEF NowCommitted, Gone
<1>5. memo' = [p \in Paths |-> IF p \in gone THEN NoDraft ELSE recorded[p]] /\ srv' = Index(gone, Tree[req.base])
  BY DEF ResetAbsorbed
<1>6. Full.ledger = [p \in Paths |-> IF p \in Gone(planned, req) THEN NoDraft ELSE Recorded(planned, req)[p]]
  BY DEF Full, Applied, Gone
<1> HIDE DEF gone, recorded, old
<1> QED
  BY <1>2, <1>4, <1>5, <1>6 DEF recorded

LEMMA RequestIndex ==
  ASSUME TypeOK, pc = "writing", NEW ps
  PROVE  /\ Index(ps, req.tree).head = srv.head /\ Index(ps, req.tree).disk = srv.disk
         /\ Index(ps, req.tree).ledger = srv.ledger
         /\ \A p \in Paths : Index(ps, req.tree).index[p] = IF p \in ps THEN req.tree[p] ELSE srv.index[p]
<1>1. \A p \in Paths : req.tree[p] \in Content
  BY StepRequests DEF TypeOK, IsRequest, Contents
<1> QED
  BY <1>1, IndexType DEF TypeOK

LEMMA ProgressKept ==
  ASSUME Windows \cap Applying = {}
  PROVE  TypeOK /\ Progress /\ [Next]_vars => Progress'
<1> SUFFICES ASSUME TypeOK, Progress, [Next]_vars PROVE Progress'
  OBVIOUS
<1> USE DEF repo, build, memory, history
<1>1. CASE UNCHANGED vars
  BY <1>1 DEF vars, Progress, Code, Full
<1>2. CASE pc' \notin Applying
  BY <1>2 DEF Progress, Applying, Before, After
<1>3. CASE StartApply
  <2>1. /\ pc' = "checked" /\ planned' = srv /\ srv' = srv /\ req' = req /\ memo' = srv.ledger
        /\ todo' = CodePaths(srv, req) /\ unindexed' = CodePaths(srv, req)
    BY <1>3 DEF StartApply
  <2>2. Code' = CodePaths(srv, req)
    BY <2>1 DEF Code
  <2> QED
    BY <2>1, <2>2 DEF Progress, Applying, Before, After
<1>4. CASE Backup \/ KeepHead
  BY <1>4 DEF Backup, KeepHead, Goto, Progress, Applying, Before, After, Code
<1>5. ASSUME NEW p \in Paths, WriteFile(p) \/ RemoveFile(p) PROVE Progress'
  <2>1. /\ pc = "writing" /\ pc' = pc /\ req' = req /\ planned' = planned /\ memo' = memo
        /\ unindexed' = unindexed /\ p \in todo /\ todo' = todo \ {p}
    BY <1>5 DEF WriteFile, RemoveFile, ToWrite
  <2>2. srv' = [srv EXCEPT !.disk[p] = req.tree[p]]
    <3>1. CASE WriteFile(p)
      BY <3>1 DEF WriteFile
    <3>2. CASE RemoveFile(p)
      <4>1. req.tree[p] = Absent
        BY <2>1, <3>2 DEF RemoveFile, Progress, Before
      <4> QED
        BY <3>2, <4>1 DEF RemoveFile
    <3> QED
      BY <1>5, <3>1, <3>2
  <2>3. /\ srv'.head = srv.head /\ srv'.index = srv.index /\ srv'.ledger = srv.ledger
        /\ \A o \in Paths : srv'.disk[o] = IF o = p THEN req.tree[p] ELSE srv.disk[o]
    BY <2>2 DEF TypeOK, Server, Contents
  <2>4. Code' = Code
    BY <2>1 DEF Code
  <2> QED
    BY <2>1, <2>3, <2>4 DEF Progress, Applying, Before, After
<1>6. CASE IndexWritten
  <2> DEFINE written == {p \in unindexed : req.tree[p] # Absent}
  <2>1. /\ pc = "writing" /\ pc' = pc /\ req' = req /\ planned' = planned /\ memo' = memo
        /\ todo' = todo /\ unindexed' = unindexed \ written /\ srv' = Index(written, req.tree)
        /\ \A p \in todo : req.tree[p] = Absent
    BY <1>6 DEF IndexWritten, ToWrite
  <2>2. /\ srv'.head = srv.head /\ srv'.disk = srv.disk /\ srv'.ledger = srv.ledger
        /\ \A p \in Paths : srv'.index[p] = IF p \in written THEN req.tree[p] ELSE srv.index[p]
    BY <2>1, RequestIndex
  <2>3. Code' = Code
    BY <2>1 DEF Code
  <2>4. written \subseteq unindexed
    OBVIOUS
  <2> HIDE DEF written
  <2> QED
    BY <2>1, <2>2, <2>3, <2>4 DEF Progress, Applying, Before, After
<1>7. CASE IndexRest
  <2>1. /\ pc = "writing" /\ pc' = "refs" /\ req' = req /\ planned' = planned /\ memo' = memo
        /\ srv' = Index(RestOfIndex, req.tree) /\ todo = {}
    BY <1>7 DEF IndexRest, Goto, FilesWritten
  <2>2. /\ srv'.head = srv.head /\ srv'.disk = srv.disk /\ srv'.ledger = srv.ledger
        /\ \A p \in Paths : srv'.index[p] = IF p \in RestOfIndex THEN req.tree[p] ELSE srv.index[p]
    BY <2>1, RequestIndex
  <2>3. \A p \in Paths : srv'.disk[p] = Full.disk[p]
    BY <2>1, <2>2, AppliedDisk DEF Progress, Before, Code, Full
  <2>4. \A p \in Paths : srv'.index[p] = WrittenIndex(planned, req)[p]
    <3>1. \A p \in Paths : p \in DeploySet(planned, req) <=> p \in Code \cup OutputPaths(planned, req)
      BY DEF Code, CodePaths, OutputPaths, DeploySet, Sources
    <3> QED
      BY <2>1, <2>2, <3>1 DEF Progress, Before, RestOfIndex, WrittenIndex
  <2>5. Full' = Full
    BY <2>1 DEF Full
  <2> QED
    BY <2>1, <2>2, <2>3, <2>4, <2>5 DEF Progress, Applying, Before, After
<1>8. CASE KeepTip
  BY <1>8 DEF KeepTip, Goto, Progress, Applying, Before, After, Full
<1>9. CASE MoveRef \/ SwitchHead \/ DetachHead
  <2>1. /\ req' = req /\ planned' = planned /\ memo' = memo
        /\ pc \in {"refs", "ref", "switch"} /\ pc' \in {"switch", "ledger"}
        /\ srv'.disk = srv.disk /\ srv'.index = srv.index /\ srv'.ledger = srv.ledger
    BY <1>9 DEF MoveRef, SwitchHead, DetachHead, Goto, TypeOK, Server
  <2>2. pc' = "ledger" => srv'.head = req.base
    BY <1>9 DEF MoveRef, SwitchHead, DetachHead, Goto, TypeOK, Server, Progress
  <2>3. pc' = "switch" => srv'.head \in {planned.head, req.base} /\ heads'[req.branch] = req.base
    <3> SUFFICES ASSUME pc' = "switch", MoveRef
                 PROVE  srv'.head \in {planned.head, req.base} /\ heads'[req.branch] = req.base
      BY <1>9 DEF SwitchHead, DetachHead, Goto
    <3>1. req.branch \in Branches
      BY StepRequests DEF MoveRef, Goto, TypeOK
    <3> QED
      BY <3>1 DEF MoveRef, Goto, TypeOK, Server, Progress, Before
  <2>4. Full' = Full
    BY <2>1 DEF Full
  <2> QED
    BY <2>1, <2>2, <2>3, <2>4 DEF Progress, Applying, Before, After
<1>10. CASE ResetAbsorbed
  <2>1. /\ pc = "ledger" /\ pc' = "stage" /\ req' = req /\ planned' = planned
        /\ memo' = Full.ledger /\ srv' = Index(Gone(planned, req), Tree[req.base])
    BY <1>10, MemoOfFull DEF ResetAbsorbed, Goto
  <2>2. \A p \in Paths : Tree[req.base][p] \in Content
    BY <2>1, StepRequests, TreeAssumption DEF TypeOK, IsRequest, Contents
  <2>3. /\ srv'.head = srv.head /\ srv'.disk = srv.disk /\ srv'.ledger = srv.ledger
        /\ \A p \in Paths : srv'.index[p] = IF p \in Gone(planned, req) THEN Tree[req.base][p] ELSE srv.index[p]
    BY <2>1, <2>2, IndexType DEF TypeOK
  <2>4. Full' = Full
    BY <2>1 DEF Full
  <2> QED
    BY <2>1, <2>3, <2>4 DEF Progress, Applying, Before, After
<1>11. CASE StageDrafts
  <2> DEFINE intact == {p \in Paths : memo[p] # NoDraft /\ srv.disk[p] = memo[p].blob}
  <2>1. /\ pc = "stage" /\ pc' = "save" /\ req' = req /\ planned' = planned /\ memo' = memo
        /\ srv' = Index(intact, srv.disk)
    BY <1>11 DEF StageDrafts, Goto
  <2>2. \A p \in Paths : srv.disk[p] \in Content
    BY DEF TypeOK, Server, Contents
  <2>3. /\ srv'.head = srv.head /\ srv'.disk = srv.disk /\ srv'.ledger = srv.ledger
        /\ \A p \in Paths : srv'.index[p] = IF p \in intact THEN srv.disk[p] ELSE srv.index[p]
    BY <2>1, <2>2, IndexType DEF TypeOK
  <2>4. \A p \in Paths : srv'.index[p] = Full.index[p]
    <3> SUFFICES ASSUME NEW p \in Paths PROVE srv'.index[p] = Full.index[p]
      OBVIOUS
    <3>1. /\ memo = Full.ledger /\ srv.disk[p] = Full.disk[p]
          /\ srv.index[p] = IF p \in Gone(planned, req) THEN Tree[req.base][p] ELSE WrittenIndex(planned, req)[p]
      BY <2>1 DEF Progress, Applying, Before
    <3>2. Full.ledger[p] = IF p \in Gone(planned, req) THEN NoDraft ELSE Recorded(planned, req)[p]
      BY AppliedLedger DEF Full
    <3>3. WrittenIndex(planned, req)[p] = IF p \in DeploySet(planned, req) THEN req.tree[p] ELSE planned.index[p]
      BY DEF WrittenIndex
    <3> QED
      BY <2>3, <3>1, <3>2, <3>3, AppliedIndex DEF Full
  <2>5. Full' = Full
    BY <2>1 DEF Full
  <2> QED
    BY <2>1, <2>3, <2>4, <2>5 DEF Progress, Applying, Before, After
<1>12. CASE WriteLedger
  <2>1. /\ srv'.head = srv.head /\ srv'.disk = srv.disk /\ srv'.index = srv.index /\ srv'.ledger = memo
    BY <1>12 DEF WriteLedger, TypeOK, Server
  <2>2. Full' = Full
    BY <1>12 DEF WriteLedger, Full
  <2> QED
    BY <1>12, <2>1, <2>2 DEF WriteLedger, Goto, Progress, Applying, Before, After
<1>13. ASSUME NEW u \in Units, ReplaceOutput(u) PROVE Progress'
  BY <1>13 DEF ReplaceOutput, Progress, Applying, Before, After, Full
<1>14. CASE Verify
  BY <1>14 DEF Verify, Goto, Progress, Applying, Before, After, Full
<1>15. CASE ByHand
  BY <1>2, <1>15 DEF ByHand, Edit, StageEdit, HandWork, Resting, Applying
<1>16. ASSUME NEW q \in Requests, PreviewPlan(q) PROVE Progress'
  BY <1>2, <1>16 DEF PreviewPlan, Applying
<1>17. CASE PreviewFingerprint \/ Decline \/ StagingChanged \/ BackupRefused \/ VerificationFailed \/ Record \/ Crash
  BY <1>2, <1>17 DEF PreviewFingerprint, Decline, StagingChanged, BackupRefused, VerificationFailed, Record, Crash,
                     Goto, Applying
<1> QED
  BY <1>1, <1>3, <1>4, <1>5, <1>6, <1>7, <1>8, <1>9, <1>10, <1>11, <1>12, <1>13, <1>14, <1>15, <1>16, <1>17
  DEF Next, Apply

LEMMA StepsProgress == ASSUME Windows \cap Applying = {} PROVE Spec => []Progress
<1>1. Init => Progress
  BY DEF Init, Progress, Applying, Before, After
<1> QED
  BY <1>1, ProgressKept, StepsTypes, PTL DEF Spec

-----------------------------------------------------------------------------
(* An apply implements AtomicApply                                         *)

\* AtomicApply computes what Overlay does.
LEMMA SameOverlay ==
  /\ Atomic!Content = Content /\ Atomic!Server = Server
  /\ \A s, r : Atomic!DeploySet(s, r) = DeploySet(s, r)
  /\ \A s, r : Atomic!WrittenIndex(s, r) = WrittenIndex(s, r)
  /\ \A s, r : Atomic!Applied(s, r) = Applied(s, r)
<1>1. Atomic!Content = Content /\ Atomic!Server = Server
  BY DEF Atomic!Content, Content, Atomic!Server, Server, Atomic!Contents, Contents, Atomic!Entry, Entry
<1>2. \A s, r : Atomic!DeploySet(s, r) = DeploySet(s, r)
  BY DEF Atomic!DeploySet, DeploySet, Atomic!HeadTree, HeadTree
<1>3. \A s, r : Atomic!CodePaths(s, r) = CodePaths(s, r)
  BY <1>2 DEF Atomic!CodePaths, CodePaths, Atomic!Sources, Sources
<1>4. \A s, r : Atomic!WrittenIndex(s, r) = WrittenIndex(s, r)
  BY <1>2 DEF Atomic!WrittenIndex, WrittenIndex
<1>5. \A s, r : Atomic!Written(s, r) = Written(s, r)
  BY <1>3 DEF Atomic!Written, Written
<1>6. \A s, r : Atomic!Recorded(s, r) = Recorded(s, r)
  BY <1>3 DEF Atomic!Recorded, Recorded, Atomic!LabelOf, LabelOf
<1>7. \A d, l, r : Atomic!NowCommitted(d, l, r) = NowCommitted(d, l, r)
  BY DEF Atomic!NowCommitted, NowCommitted
<1>8. \A d, i, l, g, r : Atomic!RestagedIndex(d, i, l, g, r) = RestagedIndex(d, i, l, g, r)
  BY DEF Atomic!RestagedIndex, RestagedIndex
<1>9. \A s, r : Atomic!Applied(s, r) = Applied(s, r)
  BY <1>4, <1>5, <1>6, <1>7, <1>8 DEF Atomic!Applied, Applied
<1> QED
  BY <1>1, <1>2, <1>4, <1>9

\* Once the ledger is written the checkout is the deployed one.
LEMMA FullIsReached ==
  ASSUME TypeOK, Progress, pc \in {"ship", "record"}
  PROVE  srv = Full
<1>1. Full = [head |-> req.base, disk |-> Full.disk, index |-> Full.index, ledger |-> Full.ledger]
  BY DEF Full, Applied
<1>2. srv = [head |-> srv.head, disk |-> srv.disk, index |-> srv.index, ledger |-> srv.ledger]
  BY DEF TypeOK, Server
<1>3. srv.head = req.base /\ srv.ledger = Full.ledger
  BY DEF Progress, After
<1>4. srv.disk = [p \in Paths |-> Full.disk[p]] /\ srv.index = [p \in Paths |-> Full.index[p]]
  BY DEF Progress, Applying, Before, TypeOK, Server, Contents
<1>5. Full.disk = [p \in Paths |-> Full.disk[p]] /\ Full.index = [p \in Paths |-> Full.index[p]]
  BY DEF Full, Applied, Written, RestagedIndex
<1> QED
  BY <1>1, <1>2, <1>3, <1>4, <1>5

\* Wherever an apply stops, it leaves a checkout that AtomicApply calls torn.
LEMMA StoppedIsTorn ==
  ASSUME TypeOK, Progress, pc \in Applying
  PROVE  Atomic!Torn(planned, srv, req)
<1> USE DEF Progress, Applying, Before, After
<1>1. Full.head = req.base
  BY AppliedHead DEF Full
<1>2. srv.head \in {planned.head, Full.head}
  BY <1>1
<1>3. srv.ledger \in {planned.ledger, Full.ledger}
  OBVIOUS
<1>4. ASSUME NEW p \in Paths
      PROVE  /\ srv.disk[p] \in {planned.disk[p], Full.disk[p]}
             /\ srv.index[p] \in {planned.index[p], WrittenIndex(planned, req)[p], Full.index[p]}
             /\ pc \notin Before => srv.index[p] \in {WrittenIndex(planned, req)[p], Full.index[p]}
  <2>1. p \in Code => Full.disk[p] = req.tree[p] /\ WrittenIndex(planned, req)[p] = req.tree[p]
    BY AppliedDisk DEF Full, WrittenIndex, Code, CodePaths
  <2>2. p \in Gone(planned, req) => Full.index[p] = Tree[req.base][p]
    BY AppliedIndex DEF Full
  <2>3. srv.disk[p] \in {planned.disk[p], Full.disk[p]}
    BY <2>1
  <2>4. CASE pc \in Before
    BY <2>1, <2>3, <2>4
  <2>5. CASE pc \in {"refs", "ref", "switch", "ledger", "save", "ship", "record"}
    BY <2>3, <2>5
  <2>6. CASE pc = "stage"
    BY <2>2, <2>3, <2>6
  <2> QED
    BY <2>4, <2>5, <2>6
<1>5. srv.head # planned.head =>
        /\ srv.disk = Full.disk
        /\ \A p \in DeploySet(planned, req) : srv.index[p] \in {WrittenIndex(planned, req)[p], Full.index[p]}
  <2> SUFFICES ASSUME srv.head # planned.head
               PROVE  /\ srv.disk = Full.disk
                      /\ \A p \in DeploySet(planned, req) :
                           srv.index[p] \in {WrittenIndex(planned, req)[p], Full.index[p]}
    OBVIOUS
  <2>1. pc \notin Before
    OBVIOUS
  <2>2. srv.disk = [p \in Paths |-> Full.disk[p]]
    BY <2>1 DEF TypeOK, Server, Contents
  <2>3. Full.disk = [p \in Paths |-> Full.disk[p]]
    BY DEF Full, Applied, Written
  <2>4. DeploySet(planned, req) \subseteq Paths
    BY DEF DeploySet
  <2> QED
    BY <1>4, <2>1, <2>2, <2>3, <2>4
<1>6. srv.ledger # planned.ledger => srv = Full
  BY FullIsReached
<1> QED
  BY <1>2, <1>3, <1>4, <1>5, <1>6, SameOverlay DEF Atomic!Torn, Full

\* Seen from outside an apply is one step, or torn when it is cut short, if nobody
\* edits while it runs.
THEOREM ApplyIsAtomic == ASSUME Windows \cap Applying = {} PROVE Spec => AppliesAtomically
<1> DEFINE checkout == IF pc \in Applying THEN planned ELSE srv
<1>1. Init => Atomic!Init
  <2> SUFFICES ASSUME Init PROVE Atomic!Init
    OBVIOUS
  <2>1. srv \in Server /\ pc \notin Applying
    BY StepsTypesInit DEF TypeOK, Init, Applying
  <2> QED
    BY <2>1, SameOverlay DEF Atomic!Init
<1>2. TypeOK /\ Progress /\ TypeOK' /\ [Next]_vars => [Atomic!Next]_checkout
  <2> SUFFICES ASSUME TypeOK, Progress, TypeOK', [Next]_vars, checkout' # checkout PROVE Atomic!Next
    OBVIOUS
  <2> USE DEF repo, build, memory, history
  <2>1. CASE ByHand
    <3>1. PICK p \in HandFiles : (\E v \in HandBlobs \cup {Absent} : Edit(p, v)) \/ StageEdit(p)
      BY <2>1 DEF ByHand
    <3>2. pc \notin Applying /\ pc' = pc
      BY <3>1 DEF Edit, StageEdit, HandWork, Resting, Applying
    <3>3. \/ \E v \in Content : srv' = [srv EXCEPT !.disk[p] = v]
          \/ srv' = [srv EXCEPT !.index[p] = srv.disk[p]]
      BY <3>1, StepsAssumption DEF Edit, StageEdit, HandWork, Content
    <3> QED
      BY <3>2, <3>3, SameOverlay DEF Atomic!Next, Atomic!Work
  <2>2. CASE Record
    <3>1. pc = "record" /\ pc' = "applied" /\ srv' = srv /\ req \in Requests
      BY <2>2 DEF Record, Goto, TypeOK
    <3>2. srv' = Applied(planned, req)
      BY <3>1, FullIsReached DEF Full
    <3> QED
      BY <3>1, <3>2, SameOverlay DEF Applying, Atomic!Next, Atomic!Deploy
  <2>3. CASE BackupRefused \/ VerificationFailed \/ Crash
    <3>1. pc \in Applying /\ pc' = "idle" /\ srv' = srv /\ req \in Requests
      BY <2>3 DEF BackupRefused, VerificationFailed, Crash, Goto, Applying, TypeOK
    <3>2. Atomic!Torn(planned, srv', req) /\ srv' \in Server
      BY <3>1, StoppedIsTorn DEF TypeOK
    <3> QED
      BY <3>1, <3>2, SameOverlay DEF Applying, Atomic!Next, Atomic!Tear
  <2>4. CASE StartApply
    BY <2>4 DEF StartApply, Applying
  <2>5. CASE UNCHANGED vars
    BY <2>5 DEF vars
  <2>6. CASE PreviewFingerprint \/ Decline \/ StagingChanged \/ \E q \in Requests : PreviewPlan(q)
    BY <2>6 DEF PreviewFingerprint, Decline, StagingChanged, PreviewPlan, Goto, Resting, Applying
  <2>7. CASE Backup \/ KeepHead \/ IndexWritten \/ IndexRest \/ KeepTip \/ MoveRef \/ SwitchHead \/ DetachHead
    BY <2>7 DEF Backup, KeepHead, IndexWritten, IndexRest, KeepTip, MoveRef, SwitchHead, DetachHead, Goto, Applying
  <2>8. CASE \/ ResetAbsorbed \/ StageDrafts \/ WriteLedger \/ Verify
             \/ (\E p \in Paths : WriteFile(p) \/ RemoveFile(p)) \/ (\E u \in Units : ReplaceOutput(u))
    BY <2>8 DEF ResetAbsorbed, StageDrafts, WriteLedger, Verify, WriteFile, RemoveFile, ReplaceOutput, Goto, Applying
  <2> QED
    BY <2>1, <2>2, <2>3, <2>4, <2>5, <2>6, <2>7, <2>8 DEF Next, Apply
<1> QED
  BY <1>1, <1>2, StepsTypes, StepsProgress, PTL DEF Spec, AppliesAtomically, Atomic!Spec

-----------------------------------------------------------------------------
(* No commit becomes unreachable                                           *)

LEMMA CommitReachesItself == \A c \in Commits : Reaches(c, c)
BY HistoryAssumption DEF Reaches

LEMMA ReachIsTransitive ==
  \A c \in Commits : \A d, e : Reaches(c, d) /\ Reaches(d, e) => Reaches(c, e)
BY HistoryAssumption DEF Reaches

\* Moving off c loses nothing: it is kept, or the new base contains it.
Spare(c) == c \in kept \cup {NoCommit} \/ Reaches(req.base, c)

\* HEAD is spare from the moment previous-head is written, the branch from the
\* moment branch-backup is.
ReachInv ==
  /\ CommitsKept
  /\ pc \in {"checked", "backed_up"} => srv.head = planned.head
  /\ pc \in {"writing", "refs", "ref", "switch"} => Spare(srv.head)
  /\ pc = "ref" => Spare(heads[req.branch])
  /\ pc = "switch" => heads[req.branch] = req.base

\* A step of an apply that moves HEAD or a branch off spare commits only.
LEMMA MoveKeepsCommits ==
  ASSUME TypeOK, CommitsKept, req' = req, req.base \in Commits,
         Spare(srv.head), \A d \in Tips : d \in Tips' \/ Spare(d),
         kept \subseteq kept', ever' = ever \cup {req.base},
         req.base \in {srv'.head} \cup Tips'
  PROVE  CommitsKept'
<1>1. srv.head \in Commits /\ kept \subseteq Commits /\ Tips \subseteq Commits /\ NoCommit \notin Commits
  BY StepsAssumption DEF TypeOK, Server, Tips
<1> SUFFICES ASSUME NEW c \in ever'
             PROVE  \E d \in {srv'.head} \cup kept' \cup Tips' : Reaches(d, c)
  BY DEF CommitsKept, Reaches
<1>2. CASE c = req.base
  BY <1>2, CommitReachesItself
<1>3. CASE c \in ever
  <2>1. PICK d \in {srv.head} \cup kept \cup Tips : Reaches(d, c)
    BY <1>3 DEF CommitsKept
  <2>2. d \in kept' \cup Tips' \/ Reaches(req.base, d)
    BY <1>1, <2>1 DEF Spare
  <2> QED
    BY <2>1, <2>2, ReachIsTransitive
<1> QED
  BY <1>2, <1>3

LEMMA ReachKept == TypeOK /\ ReachInv /\ [Next]_vars => ReachInv'
<1> SUFFICES ASSUME TypeOK, ReachInv, [Next]_vars PROVE ReachInv'
  OBVIOUS
<1> USE DEF repo, build, memory, history
<1>1. ASSUME UNCHANGED <<srv, heads, kept, ever>> PROVE CommitsKept'
  BY <1>1 DEF ReachInv, CommitsKept, Tips, Reaches
<1>2. ASSUME UNCHANGED <<heads, ever>>, srv'.head = srv.head, kept \subseteq kept' PROVE CommitsKept'
  <2>1. Tips' = Tips
    BY <1>2 DEF Tips
  <2> QED
    BY <1>2, <2>1 DEF ReachInv, CommitsKept, Reaches
<1>3. CASE UNCHANGED vars
  BY <1>1, <1>3 DEF vars, ReachInv, Spare, Reaches
<1>4. CASE \/ PreviewFingerprint \/ Decline \/ StagingChanged \/ BackupRefused \/ VerificationFailed
           \/ Record \/ Crash \/ \E q \in Requests : PreviewPlan(q)
  BY <1>1, <1>4 DEF PreviewFingerprint, Decline, StagingChanged, BackupRefused, VerificationFailed,
                    Record, Crash, PreviewPlan, Goto, ReachInv
<1>5. CASE StartApply \/ Backup
  BY <1>1, <1>5 DEF StartApply, Backup, Goto, ReachInv
<1>6. CASE KeepHead
  <2>1. planned.head \in Commits /\ pc = "backed_up"
    BY <1>6 DEF KeepHead, Goto, TypeOK, Applying, Server
  <2>2. Spare(srv.head)'
    BY <1>6, <2>1 DEF KeepHead, LeftBehind, Spare, Reaches, ReachInv
  <2> QED
    BY <1>2, <1>6, <2>2 DEF KeepHead, Goto, ReachInv
<1>7. CASE KeepTip
  <2>1. Spare(heads[req.branch])' /\ (Spare(srv.head) => Spare(srv.head)')
    BY <1>7 DEF KeepTip, LeftBehind, Spare, Reaches
  <2> QED
    BY <1>2, <1>7, <2>1 DEF KeepTip, Goto, ReachInv
<1>8. ASSUME NEW p \in Paths, WriteFile(p) \/ RemoveFile(p) PROVE ReachInv'
  <2>1. srv'.head = srv.head /\ UNCHANGED <<heads, ever, kept, req, pc>> /\ pc = "writing"
    BY <1>8 DEF WriteFile, RemoveFile, TypeOK, Server
  <2> QED
    BY <1>2, <2>1 DEF ReachInv, Spare, Reaches
<1>9. CASE IndexWritten \/ IndexRest \/ ResetAbsorbed \/ StageDrafts
  <2>1. srv'.head = srv.head /\ UNCHANGED <<heads, ever, kept, req>>
    BY <1>9 DEF IndexWritten, IndexRest, ResetAbsorbed, StageDrafts, Index, TypeOK, Server
  <2>2. pc' \in {"writing", "refs"} => pc = "writing"
    BY <1>9 DEF IndexWritten, IndexRest, ResetAbsorbed, StageDrafts, Goto
  <2>3. pc' \in {"writing", "refs", "stage", "save"}
    BY <1>9 DEF IndexWritten, IndexRest, ResetAbsorbed, StageDrafts, Goto
  <2> QED
    BY <1>2, <2>1, <2>2, <2>3 DEF ReachInv, Spare, Reaches
<1>10. CASE WriteLedger \/ Verify \/ \E u \in Units : ReplaceOutput(u)
  <2>1. srv'.head = srv.head /\ UNCHANGED <<heads, ever, kept>>
    BY <1>10 DEF WriteLedger, Verify, ReplaceOutput, TypeOK, Server
  <2>2. pc' \in {"ship", "record"}
    BY <1>10 DEF WriteLedger, Verify, ReplaceOutput, Goto
  <2> QED
    BY <1>2, <2>1, <2>2 DEF ReachInv
<1>11. CASE MoveRef
  <2>1. /\ pc = "ref" /\ pc' = "switch" /\ kept' = kept /\ req' = req /\ ever' = ever \cup {req.base}
        /\ req.base \in Commits /\ req.branch \in Branches
        /\ heads' = [heads EXCEPT ![req.branch] = req.base]
    BY <1>11, StepRequests DEF MoveRef, Goto, TypeOK, IsRequest
  <2>2. /\ heads'[req.branch] = req.base
        /\ \A b \in Branches \ {req.branch} : heads'[b] = heads[b]
    BY <2>1 DEF TypeOK
  <2>3. req.base \in Tips' /\ \A d \in Tips : d \in Tips' \/ d = heads[req.branch]
    BY <2>1, <2>2, StepsAssumption DEF Tips
  <2>4. Spare(srv.head) /\ Spare(heads[req.branch])
    BY <2>1 DEF ReachInv
  <2>5. CommitsKept'
    BY <2>1, <2>3, <2>4, MoveKeepsCommits DEF ReachInv
  <2>6. srv'.head \in {srv.head, req.base}
    BY <1>11 DEF MoveRef, TypeOK, Server
  <2>7. Spare(srv.head)'
    BY <2>1, <2>4, <2>6, CommitReachesItself DEF Spare, Reaches
  <2> QED
    BY <2>1, <2>2, <2>5, <2>7 DEF ReachInv
<1>12. CASE SwitchHead
  <2>1. /\ pc = "switch" /\ pc' = "ledger" /\ UNCHANGED <<kept, heads, ever, req>>
        /\ srv'.head = req.base /\ req.base \in Tips /\ Spare(srv.head) /\ req.base \in Commits
    BY <1>12, StepRequests, StepsAssumption DEF SwitchHead, Goto, TypeOK, Server, ReachInv, Tips, IsRequest
  <2>2. CommitsKept'
    <3>1. Tips' = Tips /\ srv.head \in Commits /\ NoCommit \notin Commits
      BY <2>1, StepsAssumption DEF Tips, TypeOK, Server
    <3> SUFFICES ASSUME NEW c \in ever
                 PROVE  \E d \in {req.base} \cup kept \cup Tips : Reaches(d, c)
      BY <2>1, <3>1 DEF CommitsKept, Reaches
    <3>2. PICK d \in {srv.head} \cup kept \cup Tips : Reaches(d, c)
      BY DEF ReachInv, CommitsKept
    <3> QED
      BY <2>1, <3>1, <3>2, ReachIsTransitive DEF Spare
  <2> QED
    BY <2>1, <2>2 DEF ReachInv
<1>13. CASE DetachHead
  <2>1. /\ pc = "refs" /\ pc' = "ledger" /\ UNCHANGED <<kept, heads, req>> /\ ever' = ever \cup {req.base}
        /\ srv'.head = req.base /\ Spare(srv.head) /\ req.base \in Commits
    BY <1>13, StepRequests DEF DetachHead, Goto, TypeOK, Server, ReachInv, IsRequest
  <2>2. Tips' = Tips
    BY <2>1 DEF Tips
  <2>3. CommitsKept'
    BY <2>1, <2>2, MoveKeepsCommits DEF ReachInv
  <2> QED
    BY <2>1, <2>3 DEF ReachInv
<1>14. CASE ByHand
  <2>1. srv'.head = srv.head /\ UNCHANGED <<heads, ever, kept, req, pc, planned>>
    BY <1>14 DEF ByHand, Edit, StageEdit, HandWork, TypeOK, Server
  <2> QED
    BY <1>2, <2>1 DEF ReachInv, Spare, Reaches
<1> QED
  BY <1>3, <1>4, <1>5, <1>6, <1>7, <1>8, <1>9, <1>10, <1>11, <1>12, <1>13, <1>14 DEF Next, Apply

\* Between any two steps of an apply, and after a crash, every commit that HEAD or
\* a branch was ever on can be reached from HEAD, a branch or a ref of benchops.
THEOREM HistoryIsKept == Spec => []CommitsKept
<1>1. Init => ReachInv
  <2> SUFFICES ASSUME Init PROVE ReachInv
    OBVIOUS
  <2>1. srv.head \in Commits /\ Tips \subseteq Commits /\ ever = {srv.head} \cup Tips /\ pc = "idle"
    BY StepsTypesInit DEF Init, TypeOK, Server, Tips
  <2> QED
    BY <2>1, CommitReachesItself DEF ReachInv, CommitsKept
<1>2. ReachInv => CommitsKept
  BY DEF ReachInv
<1> QED
  BY <1>1, <1>2, ReachKept, StepsTypes, PTL DEF Spec

-----------------------------------------------------------------------------
(* No work of somebody on the server is lost                               *)

NotByHand(ledger) == \A p \in Paths : ledger[p] # NoDraft => ledger[p].blob \notin HandBlobs
Lasting(p) == work[p] \in HandBlobs => <<p, work[p]>> \in overwritten

\* Work that is on disk in a file of the deploy is an overlap in the plan apply
\* goes by, because no ledger has it as a draft; once Backup is over, all work in
\* the files still to be written is in refs/benchops/overwritten.
WorkInv ==
  /\ WorkKept
  /\ NotByHand(srv.ledger)
  /\ pc \in Applying => NotByHand(memo)
  /\ pc = "preview" => shown.overlaps = Overlaps(srv, req)
  /\ pc = "asked" =>
       \E s \in Server : /\ s.ledger = srv.ledger /\ Fingerprint(s, req) = shown.fingerprint
                         /\ shown.overlaps = Overlaps(s, req)
  /\ pc = "checked" =>
       \A p \in HandFiles \cap todo : work[p] \in HandBlobs /\ srv.disk[p] = work[p] => p \in shown.overlaps
  /\ pc \in {"backed_up", "writing"} => \A p \in HandFiles \cap todo : Lasting(p)

\* A file of the deploy that somebody wrote into is an overlap.
LEMMA HandWorkOverlaps ==
  ASSUME NEW s \in Server, NEW q \in Requests, NotByHand(s.ledger),
         NEW p \in CodePaths(s, q), p \notin Ignored, s.disk[p] \in HandBlobs
  PROVE  p \in Overlaps(s, q)
<1>1. p \in Paths
  BY DEF CodePaths, DeploySet
<1>2. s.disk[p] # q.tree[p] /\ s.disk[p] # HeadTree(s)[p]
  BY <1>1, HandAssumption DEF HeadTree, Server
<1>3. Dirty(s, p)
  BY <1>2, DirtyWhenDifferent
<1>4. ~Intact(s, p)
  BY <1>1 DEF Intact, NotByHand
<1> QED
  BY <1>2, <1>3, <1>4 DEF Overlaps, Conflicting, ReplacedOwn

\* The drafts of a deploy are the developer's, and those the ledger had.
LEMMA DeploysNoHandWork ==
  ASSUME NEW s, NEW q \in Requests, NotByHand(s.ledger)
  PROVE  NotByHand(Recorded(s, q))
<1> SUFFICES ASSUME NEW p \in Paths, Recorded(s, q)[p] # NoDraft
             PROVE  Recorded(s, q)[p].blob \notin HandBlobs
  BY DEF NotByHand
<1>1. q.tree[p] \notin HandBlobs
  BY HandAssumption
<1>2. CASE Recorded(s, q)[p] = s.ledger[p]
  BY <1>2 DEF NotByHand
<1>3. CASE Recorded(s, q)[p].blob = q.tree[p]
  BY <1>1, <1>3
<1>4. \/ Recorded(s, q)[p] \in {s.ledger[p], NoDraft}
      \/ Recorded(s, q)[p] = [owner |-> q.dev, label |-> LabelOf(s, p, q), blob |-> q.tree[p]]
  BY RecordedAt
<1> QED
  BY <1>2, <1>3, <1>4

LEMMA WorkInvKept ==
  ASSUME Windows \cap {"preview", "checked", "backed_up", "writing"} = {}, HandFiles \cap Ignored = {}
  PROVE  TypeOK /\ WorkInv /\ [Next]_vars => WorkInv'
<1> SUFFICES ASSUME TypeOK, WorkInv, [Next]_vars PROVE WorkInv'
  OBVIOUS
<1> USE DEF repo, build, memory, history
<1> HandFiles \subseteq Paths
  BY StepsAssumption DEF Sources
<1>1. CASE UNCHANGED vars
  BY <1>1 DEF vars, WorkInv, WorkKept, Lasting
<1>2. ASSUME srv'.disk = srv.disk, UNCHANGED work, overwritten \subseteq overwritten' PROVE WorkKept'
  BY <1>2 DEF WorkInv, WorkKept
<1>3. ASSUME NEW q \in Requests, PreviewPlan(q) PROVE WorkInv'
  <2>1. pc' = "preview" /\ UNCHANGED <<srv, work, overwritten>>
    BY <1>3 DEF PreviewPlan
  <2>2. (shown.overlaps = Overlaps(srv, req))'
    BY <1>3 DEF PreviewPlan
  <2> QED
    BY <1>2, <2>1, <2>2 DEF WorkInv, Applying
<1>4. CASE PreviewFingerprint
  <2>1. pc = "preview" /\ pc' \in {"up_to_date", "asked"} /\ UNCHANGED <<srv, work, overwritten, req>>
    BY <1>4 DEF PreviewFingerprint, Goto
  <2>2. pc' = "asked" => /\ shown'.fingerprint = Fingerprint(srv, req)
                         /\ shown'.overlaps = Overlaps(srv, req)
    BY <1>4 DEF PreviewFingerprint, Goto, WorkInv, TypeOK, Plan
  <2>3. srv \in Server
    BY DEF TypeOK
  <2> QED
    BY <1>2, <2>1, <2>2, <2>3 DEF WorkInv, Applying
<1>5. CASE Decline \/ StagingChanged \/ BackupRefused \/ VerificationFailed \/ Record \/ Crash
  <2>1. pc' \in {"idle", "applied"} /\ UNCHANGED <<srv, work, overwritten>>
    BY <1>5 DEF Decline, StagingChanged, BackupRefused, VerificationFailed, Record, Crash, Goto
  <2> QED
    BY <1>2, <2>1 DEF WorkInv, Applying
<1>6. CASE StartApply
  <2>1. /\ pc = "asked" /\ Fingerprint(srv, req) = shown.fingerprint /\ pc' = "checked" /\ memo' = srv.ledger
        /\ todo' = CodePaths(srv, req) /\ UNCHANGED <<srv, overwritten, req, shown, work>>
        /\ req \in Requests /\ srv \in Server
    BY <1>6 DEF StartApply, Unchanged, TypeOK
  <2>2. PICK s \in Server : /\ s.ledger = srv.ledger /\ Fingerprint(s, req) = shown.fingerprint
                            /\ shown.overlaps = Overlaps(s, req)
    BY <2>1 DEF WorkInv
  <2>3. shown.overlaps = Overlaps(srv, req)
    BY <2>1, <2>2, SameOverlaps
  <2>4. \A p \in HandFiles \cap todo' : work[p] \in HandBlobs /\ srv.disk[p] = work[p] => p \in shown.overlaps
    BY <2>1, <2>3, HandWorkOverlaps DEF WorkInv
  <2> QED
    BY <1>2, <2>1, <2>4 DEF WorkInv
<1>7. CASE Backup
  <2>1. /\ pc = "checked" /\ pc' = "backed_up" /\ overwritten' = overwritten \cup Saved(shown.overlaps)
        /\ UNCHANGED <<srv, memo, todo, work>>
    BY <1>7 DEF Backup, Goto
  <2>2. \A p \in HandFiles \cap todo : Lasting(p)'
    BY <2>1 DEF WorkInv, WorkKept, Lasting, Saved
  <2> QED
    BY <1>2, <2>1, <2>2 DEF WorkInv, Applying
<1>8. CASE KeepHead
  <2>1. pc = "backed_up" /\ pc' = "writing" /\ UNCHANGED <<srv, overwritten, memo, todo, work>>
    BY <1>8 DEF KeepHead, Goto
  <2> QED
    BY <1>2, <2>1 DEF WorkInv, Applying, Lasting
<1>9. ASSUME NEW p \in Paths, WriteFile(p) \/ RemoveFile(p) PROVE WorkInv'
  <2>1. /\ pc = "writing" /\ p \in todo /\ todo' = todo \ {p} /\ srv'.ledger = srv.ledger
        /\ \A o \in Paths \ {p} : srv'.disk[o] = srv.disk[o]
        /\ UNCHANGED <<pc, overwritten, memo, work>>
    BY <1>9 DEF WriteFile, RemoveFile, ToWrite, TypeOK, Server, Contents
  <2>2. p \in HandFiles => Lasting(p)
    BY <2>1 DEF WorkInv
  <2>3. WorkKept'
    BY <2>1, <2>2 DEF WorkInv, WorkKept, Lasting
  <2> QED
    BY <2>1, <2>3 DEF WorkInv, Lasting
<1>10. CASE IndexWritten \/ IndexRest \/ StageDrafts
  <2>1. srv'.ledger = srv.ledger /\ srv'.disk = srv.disk /\ UNCHANGED <<memo, overwritten, todo, work>>
    BY <1>10 DEF IndexWritten, IndexRest, StageDrafts, Index, TypeOK, Server
  <2>2. pc \in {"writing", "stage"} /\ pc' \in {"writing", "refs", "save"} /\ (pc' = "writing" => pc = "writing")
    BY <1>10 DEF IndexWritten, IndexRest, StageDrafts, Goto
  <2> QED
    BY <1>2, <2>1, <2>2 DEF WorkInv, Applying, Lasting
<1>11. CASE KeepTip \/ MoveRef \/ SwitchHead \/ DetachHead
  <2>1. srv'.ledger = srv.ledger /\ srv'.disk = srv.disk /\ UNCHANGED <<memo, overwritten, work>>
    BY <1>11 DEF KeepTip, MoveRef, SwitchHead, DetachHead, TypeOK, Server
  <2>2. pc \in Applying /\ pc' \in {"ref", "switch", "ledger"}
    BY <1>11 DEF KeepTip, MoveRef, SwitchHead, DetachHead, Goto, Applying
  <2> QED
    BY <1>2, <2>1, <2>2 DEF WorkInv
<1>12. CASE ResetAbsorbed
  <2> DEFINE old      == [planned EXCEPT !.ledger = memo]
             recorded == Recorded(old, req)
             gone     == NowCommitted(srv.disk, recorded, req)
  <2>1. /\ pc = "ledger" /\ pc' = "stage" /\ UNCHANGED <<overwritten, work>> /\ req \in Requests
        /\ memo' = [p \in Paths |-> IF p \in gone THEN NoDraft ELSE recorded[p]]
        /\ srv'.disk = srv.disk /\ srv'.ledger = srv.ledger
    BY <1>12 DEF ResetAbsorbed, Goto, Index, TypeOK, Server
  <2>2. old.ledger = memo
    BY <2>1 DEF TypeOK, Applying, Server
  <2> HIDE DEF old
  <2>3. NotByHand(recorded)
    BY <2>1, <2>2, DeploysNoHandWork DEF WorkInv, Applying
  <2>4. NotByHand(memo')
    BY <2>1, <2>3 DEF NotByHand
  <2> QED
    BY <1>2, <2>1, <2>4 DEF WorkInv
<1>13. CASE WriteLedger
  <2>1. pc = "save" /\ pc' = "ship" /\ srv'.ledger = memo /\ srv'.disk = srv.disk
        /\ UNCHANGED <<memo, overwritten, work>>
    BY <1>13 DEF WriteLedger, Goto, TypeOK, Server
  <2> QED
    BY <1>2, <2>1 DEF WorkInv, Applying
<1>14. CASE Verify \/ \E u \in Units : ReplaceOutput(u)
  <2>1. pc = "ship" /\ pc' \in {"ship", "record"} /\ UNCHANGED <<srv, memo, overwritten, work>>
    BY <1>14 DEF Verify, ReplaceOutput, Goto
  <2> QED
    BY <1>2, <2>1 DEF WorkInv, Applying
<1>15. CASE ByHand
  <2>1. PICK p \in HandFiles : (\E v \in HandBlobs \cup {Absent} : Edit(p, v)) \/ StageEdit(p)
    BY <1>15 DEF ByHand
  <2>2. pc \notin {"preview", "checked", "backed_up", "writing"} /\ srv'.ledger = srv.ledger
        /\ UNCHANGED <<pc, req, shown, memo, overwritten>>
    BY <2>1 DEF Edit, StageEdit, HandWork, Resting, TypeOK, Server
  <2>3. \A o \in HandFiles : \/ work'[o] = work[o] /\ srv'.disk[o] = srv.disk[o]
                             \/ srv'.disk[o] = work'[o]
    BY <2>1 DEF Edit, StageEdit, HandWork, TypeOK, Server, Contents
  <2>4. WorkKept'
    BY <2>2, <2>3 DEF WorkInv, WorkKept
  <2> QED
    BY <2>2, <2>4 DEF WorkInv
<1> QED
  BY <1>1, <1>3, <1>4, <1>5, <1>6, <1>7, <1>8, <1>9, <1>10, <1>11, <1>12, <1>13, <1>14, <1>15
  DEF Next, Apply

\* What somebody wrote on the server is on disk or in refs/benchops/overwritten, at
\* every step and after a crash at any of them, if nobody edits between the plan and
\* its fingerprint nor between Backup and the last write, and no such file is ignored.
THEOREM WorkIsKept ==
  ASSUME Windows \cap {"preview", "checked", "backed_up", "writing"} = {}, HandFiles \cap Ignored = {}
  PROVE  Spec => []WorkKept
<1>1. Init => WorkInv
  <2> SUFFICES ASSUME Init PROVE WorkInv
    OBVIOUS
  <2>1. pc = "idle" /\ \A p \in HandFiles : work[p] = Absent
    BY DEF Init
  <2>2. \A p \in Paths : srv.ledger[p] = NoDraft
    BY DEF Init
  <2>3. \A p \in HandFiles : work[p] \in HandBlobs => srv.disk[p] = work[p] \/ <<p, work[p]>> \in overwritten
    BY <2>1, HandAssumption
  <2> QED
    BY <2>1, <2>2, <2>3 DEF WorkInv, WorkKept, NotByHand, Applying
<1>2. WorkInv => WorkKept
  BY DEF WorkInv
<1> QED
  BY <1>1, <1>2, WorkInvKept, StepsTypes, PTL DEF Spec

-----------------------------------------------------------------------------
(* A repeated deploy finishes what an earlier attempt began                *)

InPlace(p) == srv.disk[p] = req.tree[p] /\ srv.index[p] = req.tree[p]

\* HEAD moves last, so until then what is owed and not in place is still in the
\* deploy set of the next attempt.
RetryInv ==
  /\ RetryRecovers
  /\ pc \in {"idle", "preview", "asked"} \cup Before =>
       \A p \in owed : p \in CodePaths(srv, req) \/ InPlace(p)
  /\ pc = "preview" /\ shown.nothing => \A p \in owed : InPlace(p)
  /\ pc \in Before =>
       /\ planned.head = srv.head /\ todo \subseteq Code /\ unindexed \subseteq Code
       /\ \A p \in todo : p \in unindexed \/ req.tree[p] = Absent
       /\ \A p \in Code \ todo : srv.disk[p] = req.tree[p]
       /\ \A p \in Code \ unindexed : srv.index[p] = req.tree[p]
  /\ pc \in {"checked", "backed_up"} => todo = Code /\ unindexed = Code
  /\ pc \in Applying \ Before => \A p \in owed : InPlace(p)

LEMMA SameHeadSameCode == \A s, t, q : s.head = t.head => CodePaths(s, q) = CodePaths(t, q)
BY DEF CodePaths, DeploySet, HeadTree

LEMMA RetryInvKept ==
  ASSUME "writing" \notin Windows
  PROVE  TypeOK /\ RetryInv /\ [Next]_vars => RetryInv'
<1> SUFFICES ASSUME TypeOK, RetryInv, [Next]_vars PROVE RetryInv'
  OBVIOUS
<1> USE DEF repo, build, memory, history
<1> owed \subseteq Paths
  BY DEF TypeOK, Sources
<1>1. CASE UNCHANGED vars
  BY <1>1 DEF vars, RetryInv, RetryRecovers, InPlace, Code
<1>2. ASSUME NEW q \in Requests, PreviewPlan(q) PROVE RetryInv'
  <2>1. /\ pc' = "preview" /\ srv' = srv /\ req' = q /\ owed' = IF q = req THEN owed ELSE {}
        /\ pc \in {"idle", "up_to_date", "applied"}
        /\ shown'.nothing => Pending(srv, q) = {}
    BY <1>2 DEF PreviewPlan, Resting, UpToDate
  <2>2. \A p \in owed' : p \in CodePaths(srv, q) \/ InPlace(p)'
    BY <2>1 DEF RetryInv, RetryRecovers, InPlace
  <2>3. shown'.nothing => \A p \in owed' : InPlace(p)'
    BY <2>1, <2>2 DEF Pending, InPlace
  <2> QED
    BY <2>1, <2>2, <2>3 DEF RetryInv, RetryRecovers, Before, Applying
<1>3. CASE PreviewFingerprint
  <2>1. /\ pc = "preview" /\ pc' = (IF shown.nothing THEN "up_to_date" ELSE "asked")
        /\ UNCHANGED <<srv, req, owed>>
    BY <1>3 DEF PreviewFingerprint, Goto
  <2> QED
    BY <2>1 DEF RetryInv, RetryRecovers, InPlace, Before, Applying
<1>4. CASE Decline \/ StagingChanged \/ BackupRefused \/ VerificationFailed \/ Crash
  <2>1. pc' = "idle" /\ pc \in {"asked"} \cup Applying /\ UNCHANGED <<srv, req, owed>>
    BY <1>4 DEF Decline, StagingChanged, BackupRefused, VerificationFailed, Crash, Goto, Applying
  <2> QED
    BY <2>1 DEF RetryInv, RetryRecovers, InPlace, Before, Applying
<1>5. CASE StartApply
  <2>1. /\ pc = "asked" /\ pc' = "checked" /\ planned' = srv /\ UNCHANGED <<srv, req, owed>>
        /\ todo' = CodePaths(srv, req) /\ unindexed' = CodePaths(srv, req)
    BY <1>5 DEF StartApply
  <2>2. Code' = CodePaths(srv, req)
    BY <2>1 DEF Code
  <2> QED
    BY <2>1, <2>2 DEF RetryInv, RetryRecovers, InPlace, Before, Applying
<1>6. CASE Backup \/ KeepHead
  <2>1. /\ pc \in {"checked", "backed_up"} /\ pc' \in {"backed_up", "writing"}
        /\ UNCHANGED <<srv, req, owed, planned, todo, unindexed>>
    BY <1>6 DEF Backup, KeepHead, Goto
  <2> QED
    BY <2>1 DEF RetryInv, RetryRecovers, InPlace, Before, Applying, Code
<1>7. ASSUME NEW p \in Paths, WriteFile(p) \/ RemoveFile(p) PROVE RetryInv'
  <2>1. /\ pc = "writing" /\ p \in todo /\ todo' = todo \ {p} /\ owed' = owed \cup Code
        /\ UNCHANGED <<pc, req, planned, unindexed>>
    BY <1>7 DEF WriteFile, RemoveFile, ToWrite
  <2>2. RemoveFile(p) => req.tree[p] = Absent
    BY <2>1 DEF RemoveFile, RetryInv, Before
  <2>3. srv' = [srv EXCEPT !.disk[p] = req.tree[p]]
    BY <1>7, <2>2 DEF WriteFile, RemoveFile
  <2>4. /\ srv'.head = srv.head /\ srv'.index = srv.index
        /\ \A o \in Paths : srv'.disk[o] = IF o = p THEN req.tree[o] ELSE srv.disk[o]
    BY <2>3 DEF TypeOK, Server, Contents
  <2>5. CodePaths(srv', req) = CodePaths(srv, req) /\ Code = CodePaths(srv, req) /\ Code' = Code /\ Code \subseteq Paths
    BY <2>1, <2>4, SameHeadSameCode DEF RetryInv, Before, Code, CodePaths, Sources
  <2>6. \A o \in owed' : o \in CodePaths(srv', req) \/ InPlace(o)'
    BY <2>1, <2>4, <2>5 DEF RetryInv, Before, InPlace
  <2>7. \A o \in Code \ todo' : srv'.disk[o] = req.tree[o]
    BY <2>1, <2>4, <2>5 DEF RetryInv, Before
  <2> QED
    BY <2>1, <2>4, <2>5, <2>6, <2>7 DEF RetryInv, RetryRecovers, Before, Applying
<1>8. CASE IndexWritten
  <2> DEFINE written == {p \in unindexed : req.tree[p] # Absent}
  <2>1. /\ pc = "writing" /\ srv' = Index(written, req.tree) /\ unindexed' = unindexed \ written
        /\ \A p \in todo : req.tree[p] = Absent
        /\ UNCHANGED <<pc, req, planned, todo, owed>>
    BY <1>8 DEF IndexWritten, ToWrite
  <2>2. /\ srv'.head = srv.head /\ srv'.disk = srv.disk
        /\ \A p \in Paths : srv'.index[p] = IF p \in written THEN req.tree[p] ELSE srv.index[p]
    BY <2>1, RequestIndex
  <2>3. CodePaths(srv', req) = CodePaths(srv, req) /\ Code' = Code /\ Code \subseteq Paths
    BY <2>1, <2>2, SameHeadSameCode DEF Code, CodePaths, Sources
  <2>4. \A p \in owed : InPlace(p) => InPlace(p)'
    BY <2>1, <2>2 DEF InPlace
  <2>5. \A p \in Code \ unindexed' : srv'.index[p] = req.tree[p]
    BY <2>1, <2>2, <2>3 DEF RetryInv, Before
  <2> HIDE DEF written
  <2> QED
    BY <2>1, <2>2, <2>3, <2>4, <2>5 DEF RetryInv, RetryRecovers, Before, Applying
<1>9. CASE IndexRest
  <2>1. /\ pc = "writing" /\ pc' = "refs" /\ srv' = Index(RestOfIndex, req.tree) /\ todo = {}
        /\ UNCHANGED <<req, owed>>
    BY <1>9 DEF IndexRest, Goto, FilesWritten
  <2>2. /\ srv'.disk = srv.disk /\ unindexed \subseteq RestOfIndex
        /\ \A p \in Paths : srv'.index[p] = IF p \in RestOfIndex THEN req.tree[p] ELSE srv.index[p]
    BY <2>1, RequestIndex DEF RestOfIndex
  <2>3. Code = CodePaths(srv, req)
    BY <2>1, SameHeadSameCode DEF RetryInv, Before, Code
  <2>4. \A p \in owed : InPlace(p)'
    BY <2>1, <2>2, <2>3 DEF RetryInv, Before, InPlace
  <2> QED
    BY <2>1, <2>4 DEF RetryInv, RetryRecovers, Before, Applying
<1>10. CASE \/ KeepTip \/ MoveRef \/ SwitchHead \/ DetachHead \/ WriteLedger \/ Verify
            \/ \E u \in Units : ReplaceOutput(u)
  <2>1. /\ pc \in Applying \ Before /\ pc' \in Applying \ Before /\ UNCHANGED <<req, owed>>
        /\ srv'.disk = srv.disk /\ srv'.index = srv.index
    BY <1>10 DEF KeepTip, MoveRef, SwitchHead, DetachHead, WriteLedger, Verify, ReplaceOutput, Goto,
                 Applying, Before, TypeOK, Server
  <2> QED
    BY <2>1 DEF RetryInv, RetryRecovers, InPlace, Before, Applying
<1>11. CASE ResetAbsorbed
  <2> DEFINE recorded == Recorded([planned EXCEPT !.ledger = memo], req)
             gone     == NowCommitted(srv.disk, recorded, req)
  <2>1. pc = "ledger" /\ pc' = "stage" /\ srv' = Index(gone, Tree[req.base]) /\ UNCHANGED <<req, owed>>
    BY <1>11 DEF ResetAbsorbed, Goto
  <2>2. \A p \in gone : srv.disk[p] = Tree[req.base][p]
    BY DEF NowCommitted
  <2> HIDE DEF gone, recorded
  <2>3. Tree[req.base] \in Contents
    BY <2>1, StepRequests, TreeAssumption DEF TypeOK, IsRequest
  <2>4. /\ srv'.disk = srv.disk
        /\ \A p \in Paths : srv'.index[p] = IF p \in gone THEN Tree[req.base][p] ELSE srv.index[p]
    BY <2>1, <2>3, IndexType DEF TypeOK, Contents
  <2>5. \A p \in owed : InPlace(p)'
    BY <2>1, <2>2, <2>4 DEF RetryInv, Before, Applying, InPlace
  <2> QED
    BY <2>1, <2>5 DEF RetryInv, RetryRecovers, Before, Applying
<1>12. CASE StageDrafts
  <2> DEFINE drafts == {p \in Paths : memo[p] # NoDraft /\ srv.disk[p] = memo[p].blob}
  <2>1. pc = "stage" /\ pc' = "save" /\ srv' = Index(drafts, srv.disk) /\ UNCHANGED <<req, owed>>
    BY <1>12 DEF StageDrafts, Goto
  <2> HIDE DEF drafts
  <2>2. /\ srv'.disk = srv.disk
        /\ \A p \in Paths : srv'.index[p] = IF p \in drafts THEN srv.disk[p] ELSE srv.index[p]
    BY <2>1, IndexType DEF TypeOK, Server, Contents
  <2>3. \A p \in owed : InPlace(p)'
    BY <2>1, <2>2 DEF RetryInv, Before, Applying, InPlace
  <2> QED
    BY <2>1, <2>3 DEF RetryInv, RetryRecovers, Before, Applying
<1>13. CASE Record
  <2>1. pc = "record" /\ pc' = "applied" /\ UNCHANGED <<srv, req, owed>>
    BY <1>13 DEF Record, Goto
  <2> QED
    BY <2>1 DEF RetryInv, RetryRecovers, InPlace, Before, Applying
<1>14. CASE ByHand
  <2>1. owed' = {} /\ pc' = pc /\ pc \in Resting \cup Windows /\ UNCHANGED <<req, planned, todo, unindexed>>
        /\ srv'.head = srv.head
    BY <1>14 DEF ByHand, Edit, StageEdit, HandWork, TypeOK, Server
  <2>2. pc # "writing" /\ Code' = Code
    BY <2>1 DEF Resting, Code
  <2>3. pc \in Before => pc \in {"checked", "backed_up"}
    BY <2>2 DEF Before
  <2>4. pc \in Before => /\ planned'.head = srv'.head /\ todo' = Code' /\ unindexed' = Code'
    BY <2>1, <2>2, <2>3 DEF RetryInv
  <2> QED
    BY <2>1, <2>2, <2>3, <2>4 DEF RetryInv, RetryRecovers
<1> QED
  BY <1>1, <1>2, <1>3, <1>4, <1>5, <1>6, <1>7, <1>8, <1>9, <1>10, <1>11, <1>12, <1>13, <1>14
  DEF Next, Apply

\* However often a deploy was cut short and repeated, when it ends every file that
\* one of its attempts began to write is in place, if nobody edits during `writing`.
THEOREM RepeatedDeployRecovers == ASSUME "writing" \notin Windows PROVE Spec => []RetryRecovers
<1>1. Init => RetryInv
  BY DEF Init, RetryInv, RetryRecovers, Before, Applying
<1>2. RetryInv => RetryRecovers
  BY DEF RetryInv
<1> QED
  BY <1>1, <1>2, RetryInvKept, StepsTypes, PTL DEF Spec

=============================================================================
