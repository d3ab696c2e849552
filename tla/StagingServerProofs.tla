------------------------- MODULE StagingServerProofs -------------------------
(***************************************************************************)
(* Deploys to one staging server, for any number of runs, developers,      *)
(* files and commits: the invariants that tie a run's plan to the server   *)
(* while it holds the lock, and what every successful apply then keeps.    *)
(***************************************************************************)
EXTENDS StagingServer, OverlayProofs

LEMMA RequestsAreRequests == \A q \in Requests : IsRequest(q) /\ q.staged \subseteq Sources
BY RequestsAssumption DEF Request, IsRequest, StagedPaths

\* A plan computed from a checkout is of the type a run keeps.
LEMMA PlanType ==
  ASSUME NEW s \in Server, NEW q \in Requests
  PROVE  [fingerprint |-> Fingerprint(s, q), overlaps |-> Overlaps(s, q),
          absorbed |-> Absorbed(s, q)] \in Plan
<1>1. Overlaps(s, q) \subseteq Sources
  BY OverlapsAreSources
<1>2. Absorbed(s, q) \subseteq Paths
  BY DEF Absorbed, Drafts
<1> QED BY <1>1, <1>2, FingerprintType DEF Plan

LEMMA ConvertedType ==
  ASSUME ServerTypeOK
  PROVE  Converted \in Server /\ Converted.ledger = srv.ledger /\ Drafts(Converted) = Drafts(srv)
<1>1. CASE OnSnapshot
  <2>1. record.base \in Commits
    BY <1>1, NamesAssumption DEF OnSnapshot, ServerTypeOK, Server
  <2>2. Tree[record.base] \in Contents
    BY <2>1, TreeAssumption
  <2>3. Converted = [srv EXCEPT !.head = record.base, !.index = Tree[record.base]]
    BY <1>1 DEF Converted
  <2>4. Converted \in Server /\ Converted.ledger = srv.ledger
    BY <2>1, <2>2, <2>3 DEF ServerTypeOK, Server
  <2> QED BY <2>4 DEF Drafts
<1>2. CASE ~OnSnapshot
  BY <1>2 DEF Converted, ServerTypeOK
<1> QED BY <1>1, <1>2

-----------------------------------------------------------------------------
(* Type correctness                                                        *)

\* Work by hand keeps the server's part of the type invariant.
LEMMA HandWorkType ==
  ASSUME ServerTypeOK, NEW new \in Server, new.ledger = srv.ledger, new.head = srv.head,
         HandWork(new)
  PROVE  ServerTypeOK'
BY DEF ServerTypeOK, HandWork, Drafts

LEMMA MoveHeadType ==
  ASSUME ServerTypeOK, NEW c \in Commits, NEW new \in Server, new.ledger = srv.ledger,
         MoveHead(c, new)
  PROVE  ServerTypeOK'
<1>1. srv' \in Server /\ srv'.head = c /\ srv'.ledger = srv.ledger
  BY DEF MoveHead, Server
<1>2. Drafts(srv') = Drafts(srv)
  BY <1>1 DEF Drafts
<1>3. heads' \in [Branches -> Commits \cup {NoCommit}] /\ (branch # Detached => heads'[branch] = c)
  BY DEF MoveHead, ServerTypeOK
<1> QED BY <1>1, <1>2, <1>3 DEF MoveHead, ServerTypeOK

\* People on the server touch nothing a run keeps.
LEMMA ByHandType ==
  ASSUME ServerTypeOK, ByHand
  PROVE  ServerTypeOK' /\ UNCHANGED <<lock, incoming, runVars>> /\ srv'.ledger = srv.ledger
<1> USE DEF ServerTypeOK
<1>1. ASSUME NEW p \in HandFiles, NEW v \in Content, Edit(p, v)
      PROVE  ServerTypeOK' /\ UNCHANGED <<lock, incoming, runVars>> /\ srv'.ledger = srv.ledger
  <2> DEFINE new == [srv EXCEPT !.disk[p] = v]
  <2>1. new \in Server /\ new.ledger = srv.ledger /\ new.head = srv.head
    BY <1>1, HandAssumption DEF Server, Contents, Sources
  <2>2. HandWork(new)
    BY <1>1 DEF Edit
  <2> HIDE DEF new
  <2> QED BY <2>1, <2>2, HandWorkType DEF HandWork
<1>2. ASSUME NEW p \in HandFiles, StageEdit(p)
      PROVE  ServerTypeOK' /\ UNCHANGED <<lock, incoming, runVars>> /\ srv'.ledger = srv.ledger
  <2> DEFINE new == [srv EXCEPT !.index[p] = srv.disk[p]]
  <2>1. new \in Server /\ new.ledger = srv.ledger /\ new.head = srv.head
    BY <1>2, HandAssumption DEF Server, Contents, Sources
  <2>2. HandWork(new)
    BY <1>2 DEF StageEdit
  <2> HIDE DEF new
  <2> QED BY <2>1, <2>2, HandWorkType DEF HandWork
<1>3. ASSUME NEW p \in HandFiles, Unstage(p)
      PROVE  ServerTypeOK' /\ UNCHANGED <<lock, incoming, runVars>> /\ srv'.ledger = srv.ledger
  <2> DEFINE new == [srv EXCEPT !.index[p] = HeadTree(srv)[p]]
  <2>1. HeadTree(srv) \in Contents /\ p \in Paths
    BY <1>3, HandAssumption, TreeAssumption DEF Server, HeadTree, Sources
  <2>2. new \in Server /\ new.ledger = srv.ledger /\ new.head = srv.head
    BY <2>1 DEF Server, Contents
  <2>3. HandWork(new)
    BY <1>3 DEF Unstage
  <2> HIDE DEF new
  <2> QED BY <2>2, <2>3, HandWorkType DEF HandWork
<1>4. ASSUME NEW c \in Commits, HandCommit(c)
      PROVE  ServerTypeOK' /\ UNCHANGED <<lock, incoming, runVars>> /\ srv'.ledger = srv.ledger
  <2>1. MoveHead(c, srv)
    BY <1>4 DEF HandCommit
  <2> QED BY <2>1, MoveHeadType DEF MoveHead, Server
<1>5. ASSUME NEW c \in Commits, Pull(c)
      PROVE  ServerTypeOK' /\ UNCHANGED <<lock, incoming, runVars>> /\ srv'.ledger = srv.ledger
  <2> DEFINE moved == {p \in Paths : Tree[c][p] # HeadTree(srv)[p]}
             follow(f) == [p \in Paths |-> IF p \in moved THEN Tree[c][p] ELSE f[p]]
             new == [srv EXCEPT !.disk = follow(@), !.index = follow(@)]
  <2>1. Tree[c] \in Contents
    BY TreeAssumption
  <2>2. follow(srv.disk) \in Contents /\ follow(srv.index) \in Contents
    BY <2>1 DEF Server, Contents
  <2>3. new \in Server /\ new.ledger = srv.ledger
    BY <2>2 DEF Server
  <2>4. MoveHead(c, new)
    BY <1>5 DEF Pull
  <2> HIDE DEF new
  <2>5. srv'.ledger = srv.ledger
    BY <2>3, <2>4 DEF MoveHead, Server
  <2> QED BY <2>3, <2>4, <2>5, MoveHeadType DEF MoveHead
<1> QED BY <1>1, <1>2, <1>3, <1>4, <1>5 DEF ByHand

\* Steps of a run that leave the server alone, one lemma per action.
LEMMA InspectLockedType ==
  ASSUME TypeOK, NEW r \in Runs, NEW q \in Requests, InspectLocked(r, q)
  PROVE  TypeOK'
<1>1. ServerTypeOK'
  BY DEF TypeOK, ServerTypeOK, InspectLocked, serverVars, Drafts
<1>2. RunTypeOK'
  BY DEF TypeOK, RunTypeOK, InspectLocked, Step, Report, Phases, Outcomes
<1> QED BY <1>1, <1>2 DEF TypeOK

LEMMA InspectType ==
  ASSUME TypeOK, NEW r \in Runs, NEW q \in Requests, Inspect(r, q)
  PROVE  TypeOK'
<1>1. ServerTypeOK'
  <2>1. srv' \in Server /\ Drafts(srv') \subseteq Sources
    BY ConvertedType DEF Inspect, TypeOK, ServerTypeOK
  <2>2. Converted.head \in Commits
    BY ConvertedType DEF TypeOK, Server
  <2>3. heads' \in [Branches -> Commits \cup {NoCommit}] /\ (branch # Detached => heads'[branch] = srv'.head)
    BY <2>2 DEF Inspect, TypeOK, ServerTypeOK
  <2> QED BY <2>1, <2>2, <2>3 DEF Inspect, TypeOK, ServerTypeOK
<1>2. RunTypeOK'
  <2> DEFINE accepted == Reaches(q.base, Converted.head) \/ r \in Forcers
  <2>1. BuildPlan(q) \in [ship : BOOLEAN, digest : Builds \cup {NoBuild}]
    BY RequestsAssumption DEF TypeOK, ServerTypeOK, Request, BuildPlan
  <2>2. build' = IF accepted THEN [build EXCEPT ![r] = BuildPlan(q)] ELSE build
    BY DEF Inspect
  <2>3. build' \in [Runs -> [ship : BOOLEAN, digest : Builds \cup {NoBuild}]]
    BY <2>1, <2>2 DEF TypeOK, RunTypeOK
  <2>4. \E to \in {"inspected", "closing"} : Step(r, "new", to)
    BY DEF Inspect
  <2>5. \E what \in {"none", "refused"} : Report(r, what)
    BY DEF Inspect
  <2>6. phase' \in [Runs -> Phases] /\ phase'[r] \in {"inspected", "closing"}
        /\ \A x \in Runs : x # r => phase'[x] = phase[x]
    BY <2>4 DEF Step, TypeOK, RunTypeOK, Phases
  <2>7. outcome' \in [Runs -> Outcomes]
    BY <2>5 DEF Report, TypeOK, RunTypeOK, Outcomes
  <2>8. req' \in [Runs -> Requests \cup {NoRequest}] /\ req'[r] = q
        /\ \A x \in Runs : x # r => req'[x] = req[x]
    BY DEF Inspect, TypeOK, RunTypeOK
  <2> QED BY <2>3, <2>6, <2>7, <2>8 DEF Inspect, TypeOK, RunTypeOK
<1> QED BY <1>1, <1>2 DEF TypeOK

\* The steps that only close a run.
LEMMA ClosingType ==
  ASSUME TypeOK, NEW r \in Runs, Forget(r),
         NEW from \in Phases \ {"new"}, NEW to \in {"closing", "gone"}, Step(r, from, to),
         outcome' \in [Runs -> Outcomes], UNCHANGED <<lock, incoming, req, serverVars>>
  PROVE  TypeOK'
<1>1. ServerTypeOK'
  BY DEF TypeOK, ServerTypeOK, serverVars, Drafts
<1>2. NothingShipped \in [ship : BOOLEAN, digest : Builds \cup {NoBuild}]
  BY DEF NothingShipped
<1>3. RunTypeOK'
  BY <1>2 DEF TypeOK, RunTypeOK, Forget, Step, Phases
<1> QED BY <1>1, <1>3 DEF TypeOK

LEMMA ReportType ==
  ASSUME RunTypeOK, NEW r \in Runs, NEW what \in Outcomes, Report(r, what)
  PROVE  outcome' \in [Runs -> Outcomes]
BY DEF RunTypeOK, Report

LEMMA PreviewLostType ==
  ASSUME TypeOK, NEW r \in Runs, PreviewLost(r)
  PROVE  TypeOK'
<1>1. outcome' \in [Runs -> Outcomes]
  BY ReportType DEF PreviewLost, TypeOK, Outcomes
<1> QED BY <1>1, ClosingType DEF PreviewLost, Phases

LEMMA PreviewType ==
  ASSUME TypeOK, NEW r \in Runs, Preview(r)
  PROVE  TypeOK'
<1> DEFINE nothing == UpToDate(srv, req[r]) /\ ~build[r].ship
           plan == [fingerprint |-> Fingerprint(srv, req[r]), overlaps |-> Overlaps(srv, req[r]),
                    absorbed |-> Absorbed(srv, req[r])]
<1>1. ServerTypeOK'
  BY DEF TypeOK, ServerTypeOK, Preview, serverVars, Drafts
<1>2. phase[r] = "inspected" /\ req[r] \in Requests
  BY DEF Preview, Step, TypeOK, RunTypeOK
<1>3. plan \in Plan
  BY <1>2, PlanType DEF TypeOK, ServerTypeOK
<1>4. CASE nothing
  <2>1. Forget(r) /\ Step(r, "inspected", "closing") /\ Report(r, "up_to_date")
    BY <1>4 DEF Preview
  <2>2. NothingShipped \in [ship : BOOLEAN, digest : Builds \cup {NoBuild}]
    BY DEF NothingShipped
  <2>3. RunTypeOK'
    BY <2>1, <2>2 DEF Forget, Step, Report, Preview, TypeOK, RunTypeOK, Phases, Outcomes
  <2> QED BY <1>1, <2>3 DEF TypeOK
<1>5. CASE ~nothing
  <2>1. /\ Step(r, "inspected", "previewed") /\ Report(r, "none")
        /\ shown' = [shown EXCEPT ![r] = plan] /\ UNCHANGED build
    BY <1>5 DEF Preview
  <2> HIDE DEF plan
  <2>2. RunTypeOK'
    BY <1>2, <1>3, <2>1 DEF Step, Report, Preview, TypeOK, RunTypeOK, Phases, Outcomes
  <2> QED BY <1>1, <2>2 DEF TypeOK
<1> QED BY <1>4, <1>5

LEMMA GiveUpType ==
  ASSUME TypeOK, NEW r \in Runs, GiveUp(r)
  PROVE  TypeOK'
<1>1. outcome' \in [Runs -> Outcomes]
  BY ReportType DEF GiveUp, TypeOK, Outcomes
<1> QED BY <1>1, ClosingType DEF GiveUp, Phases

LEMMA ApplyRefusedType ==
  ASSUME TypeOK, NEW r \in Runs, ApplyRefused(r)
  PROVE  TypeOK'
<1>1. \E what \in Outcomes : Report(r, what)
  BY DEF ApplyRefused, Outcomes
<1>2. outcome' \in [Runs -> Outcomes]
  BY <1>1, ReportType DEF TypeOK
<1> QED BY <1>2, ClosingType DEF ApplyRefused, Phases

LEMMA ReleaseType ==
  ASSUME TypeOK, NEW r \in Runs, Release(r)
  PROVE  TypeOK'
<1>1. ServerTypeOK'
  BY DEF TypeOK, ServerTypeOK, Release, serverVars, Drafts
<1>2. RunTypeOK'
  BY DEF TypeOK, RunTypeOK, Release, Step, Phases
<1> QED BY <1>1, <1>2 DEF TypeOK

LEMMA VanishType ==
  ASSUME TypeOK, NEW r \in Runs, Vanish(r)
  PROVE  TypeOK'
<1>1. outcome' \in [Runs -> Outcomes]
  BY DEF Vanish, TypeOK, RunTypeOK
<1> QED BY <1>1, ClosingType DEF Vanish, Phases

\* While the holder's incoming ref is its own, apply works from its request.
LEMMA ApplyUsesOwnRequest ==
  ASSUME TypeOK, HolderOwnsIncoming, NEW r \in Runs, phase[r] = "previewed", lock = r
  PROVE  incoming = r /\ req[r] \in Requests /\ IsRequest(req[r]) /\ Incoming(r) = req[r]
<1>1. incoming = r
  BY DEF HolderOwnsIncoming
<1>2. req[r] \in Requests
  BY DEF TypeOK, RunTypeOK
<1>3. req[r] \in Request
  BY <1>2, RequestsAssumption
<1>4. [req[r] EXCEPT !.base = req[r].base, !.tree = req[r].tree] = req[r]
  BY <1>3 DEF Request
<1> QED BY <1>1, <1>2, <1>4, RequestsAreRequests DEF Incoming

LEMMA ApplyType ==
  ASSUME TypeOK, HolderOwnsIncoming, NEW r \in Runs, Apply(r)
  PROVE  TypeOK'
<1> DEFINE q == req[r]
<1>1. phase[r] = "previewed" /\ lock = r
  BY DEF Apply, Step, HoldsLock
<1>2. incoming = r /\ q \in Requests /\ IsRequest(q) /\ Incoming(r) = q
  BY <1>1, ApplyUsesOwnRequest
<1>3. q \in Request
  BY <1>2, RequestsAssumption
<1> HIDE DEF q
<1>4. srv' = Applied(srv, q) /\ MoveBranch(q)
  BY <1>2 DEF Apply
<1>5. srv' \in Server /\ Drafts(srv') \subseteq Sources
  BY <1>2, <1>4, AppliedType DEF TypeOK, ServerTypeOK
<1>6. q.base \in Commits /\ q.branch \in Branches \cup {Detached} /\ q.build \in Builds \cup {NoBuild}
  BY <1>3 DEF Request
<1>7. /\ branch' \in Branches \cup {Detached}
      /\ heads' \in [Branches -> Commits \cup {NoCommit}]
      /\ branch' # Detached => heads'[branch'] = srv'.head
  BY <1>4, <1>6, AppliedHead DEF MoveBranch, TypeOK, ServerTypeOK
<1>8. kept' \subseteq Commits
  <2>1. srv.head \in Commits
    BY DEF TypeOK, ServerTypeOK, Server
  <2>2. q.branch # Detached /\ heads[q.branch] # NoCommit => heads[q.branch] \in Commits
    BY <1>6 DEF TypeOK, ServerTypeOK
  <2> QED BY <1>4, <2>1, <2>2 DEF MoveBranch, Orphaned, TypeOK, ServerTypeOK
<1>9. ever' \subseteq Commits
  BY <1>4, <1>6 DEF MoveBranch, TypeOK, ServerTypeOK
<1>10. overwritten' \subseteq Sources \X Content
  <2>1. shown[r].overlaps \subseteq Sources
    BY <1>1 DEF TypeOK, RunTypeOK, Plan
  <2>2. \A p \in Sources : srv.disk[p] \in Content
    BY DEF TypeOK, ServerTypeOK, Server, Contents, Sources
  <2> QED BY <2>1, <2>2 DEF Apply, TypeOK, ServerTypeOK
<1>11. served' \in Builds \cup {NoBuild}
  BY <1>6 DEF Apply, q, TypeOK, ServerTypeOK
<1>12. /\ record' = [snapshot |-> NoCommit, base |-> q.base, build |-> build[r].digest]
       /\ build[r].digest \in Builds \cup {NoBuild}
  BY <1>2 DEF Apply, TypeOK, RunTypeOK
<1>13. ServerTypeOK'
  BY <1>5, <1>6, <1>7, <1>8, <1>9, <1>10, <1>11, <1>12 DEF ServerTypeOK
<1>14. outcome' \in [Runs -> Outcomes]
  BY ReportType DEF Apply, TypeOK, Outcomes
<1>15. NothingShipped \in [ship : BOOLEAN, digest : Builds \cup {NoBuild}]
  BY DEF NothingShipped
<1>16. RunTypeOK'
  BY <1>14, <1>15 DEF Apply, Forget, Step, TypeOK, RunTypeOK, Phases
<1> QED BY <1>13, <1>16 DEF TypeOK

LEMMA TypeInit == Init => TypeOK
<1> SUFFICES ASSUME Init PROVE TypeOK
  OBVIOUS
<1>1. PICK c \in Commits, on \in Branches \cup {Detached} :
        /\ srv = [head |-> c, disk |-> Tree[c], index |-> Tree[c], ledger |-> [p \in Paths |-> NoDraft]]
        /\ branch = on
        /\ heads \in [Branches -> (Commits \ Snapshots) \cup {NoCommit}]
        /\ on # Detached => heads[on] = c
        /\ \/ c \notin Snapshots /\ record = NoRecord /\ ever = {c} \cup Tips
           \/ /\ c \in Snapshots /\ on = Detached
              /\ \E b \in Ancestors[c] \ {c} :
                   /\ record = [snapshot |-> c, base |-> b, build |-> NoBuild]
                   /\ ever = {b} \cup Tips
  BY DEF Init, InitServer
<1>2. Tree[c] \in Contents
  BY TreeAssumption
<1>3. srv \in Server /\ Drafts(srv) \subseteq Sources
  BY <1>1, <1>2 DEF Server, Drafts
<1>4. Tips \subseteq Commits
  BY <1>1 DEF Tips
<1>5. Ancestors[c] \subseteq Commits
  BY HistoryAssumption
<1>6. /\ record \in [snapshot : Snapshots \cup {NoCommit}, base : Commits \cup {NoCommit},
                     build : Builds \cup {NoBuild}]
      /\ record.snapshot # NoCommit => record.base \in Commits
      /\ ever \subseteq Commits
  BY <1>1, <1>4, <1>5 DEF NoRecord
<1>7. ServerTypeOK
  BY <1>1, <1>3, <1>6 DEF ServerTypeOK, Init
<1>8. RunTypeOK
  BY DEF RunTypeOK, Init, Phases, Outcomes, NothingShipped
<1> QED BY <1>7, <1>8 DEF TypeOK

\* Every step keeps the types; apply needs the incoming ref to be the run's own.
LEMMA TypeStep ==
  ASSUME TypeOK, HolderOwnsIncoming, [Next]_vars
  PROVE  TypeOK'
<1>1. CASE ByHand
  <2>1. ServerTypeOK' /\ UNCHANGED <<lock, incoming, runVars>>
    BY <1>1, ByHandType DEF TypeOK
  <2>2. RunTypeOK'
    BY <2>1 DEF TypeOK, RunTypeOK, runVars
  <2> QED BY <2>1, <2>2 DEF TypeOK
<1>2. ASSUME NEW r \in Runs, Advance(r) PROVE TypeOK'
  BY <1>2, InspectLockedType, InspectType, PreviewLostType, PreviewType, ApplyRefusedType,
     ApplyType, ReleaseType DEF Advance
<1>3. ASSUME NEW r \in Runs, GiveUp(r) PROVE TypeOK'
  BY <1>3, GiveUpType
<1>4. ASSUME NEW r \in Runs, Vanish(r) PROVE TypeOK'
  BY <1>4, VanishType
<1>5. CASE UNCHANGED vars
  BY <1>5 DEF vars, TypeOK, ServerTypeOK, RunTypeOK, Drafts
<1> QED BY <1>1, <1>2, <1>3, <1>4, <1>5 DEF Next

-----------------------------------------------------------------------------
(* The lock, the incoming ref and the plan                                 *)

\* Only the holder of the lock replaces the incoming ref, and a run that lost
\* the lock does not remove the holder's.
LEMMA HolderStep ==
  ASSUME TypeOK, HolderOwnsIncoming, [Next]_vars
  PROVE  HolderOwnsIncoming'
<1> SUFFICES ASSUME NEW x \in Runs, lock' = x, phase'[x] = "previewed"
             PROVE  incoming' = x
  BY DEF HolderOwnsIncoming
<1> USE DEF TypeOK, RunTypeOK, HoldsLock
<1>1. CASE ByHand
  BY <1>1, ByHandType DEF HolderOwnsIncoming, runVars
<1>2. ASSUME NEW r \in Runs, NEW q \in Requests, InspectLocked(r, q) PROVE incoming' = x
  BY <1>2 DEF InspectLocked, Step, HolderOwnsIncoming
<1>3. ASSUME NEW r \in Runs, NEW q \in Requests, Inspect(r, q) PROVE incoming' = x
  BY <1>3 DEF Inspect, Step, HolderOwnsIncoming
<1>4. ASSUME NEW r \in Runs, PreviewLost(r) PROVE incoming' = x
  BY <1>4 DEF PreviewLost, Step, HolderOwnsIncoming
<1>5. ASSUME NEW r \in Runs, Preview(r) PROVE incoming' = x
  BY <1>5 DEF Preview
<1>6. ASSUME NEW r \in Runs, ApplyRefused(r) PROVE incoming' = x
  BY <1>6 DEF ApplyRefused, Step, HolderOwnsIncoming
<1>7. ASSUME NEW r \in Runs, Apply(r) PROVE incoming' = x
  BY <1>7 DEF Apply, Step, HolderOwnsIncoming
<1>8. ASSUME NEW r \in Runs, Release(r) PROVE incoming' = x
  BY <1>8, RunsAssumption DEF Release, Step, HolderOwnsIncoming
<1>9. ASSUME NEW r \in Runs, GiveUp(r) PROVE incoming' = x
  BY <1>9 DEF GiveUp, Step, HolderOwnsIncoming
<1>10. ASSUME NEW r \in Runs, Vanish(r) PROVE incoming' = x
  BY <1>10 DEF Vanish, Step, HolderOwnsIncoming
<1>11. CASE UNCHANGED vars
  BY <1>11 DEF vars, HolderOwnsIncoming
<1> QED BY <1>1, <1>2, <1>3, <1>4, <1>5, <1>6, <1>7, <1>8, <1>9, <1>10, <1>11 DEF Next, Advance

\* A state of the checkout, with the ledger as it is now, from which run r got
\* the plan it shows.
Seen(r, h, d, i) ==
  LET s == [head |-> h, disk |-> d, index |-> i, ledger |-> srv.ledger]
  IN /\ shown[r].fingerprint = Fingerprint(s, req[r])
     /\ shown[r].overlaps = Overlaps(s, req[r])

LEMMA PlanIsSeen ==
  PlanFromThisLedger <=>
    \A r \in Runs : lock = r /\ phase[r] = "previewed" =>
      \E h \in Commits, d, i \in Contents : Seen(r, h, d, i)
BY DEF PlanFromThisLedger, Seen

\* A step that keeps the ledger and what a run knows keeps its plan valid.
LEMMA SeenKept ==
  ASSUME NEW r \in Runs, srv'.ledger = srv.ledger, shown'[r] = shown[r], req'[r] = req[r],
         \E h \in Commits, d, i \in Contents : Seen(r, h, d, i)
  PROVE  \E h \in Commits, d, i \in Contents : Seen(r, h, d, i)'
BY DEF Seen

\* Only the holder of the lock writes the ledger, so the plan it was shown is
\* one for the ledger as it still is.
LEMMA PlanStep ==
  ASSUME TypeOK, PlanFromThisLedger, [Next]_vars
  PROVE  PlanFromThisLedger'
<1> SUFFICES ASSUME NEW x \in Runs, lock' = x, phase'[x] = "previewed"
             PROVE  \E h \in Commits, d, i \in Contents : Seen(x, h, d, i)'
  BY DEF PlanFromThisLedger, Seen
<1> DEFINE Same == /\ lock = x /\ phase[x] = "previewed" /\ srv'.ledger = srv.ledger
                   /\ shown'[x] = shown[x] /\ req'[x] = req[x]
<1>1. Same => \E h \in Commits, d, i \in Contents : Seen(x, h, d, i)'
  BY SeenKept, PlanIsSeen
<1> USE DEF TypeOK, RunTypeOK, HoldsLock
<1>2. CASE ByHand
  BY <1>1, <1>2, ByHandType DEF runVars
<1>3. ASSUME NEW r \in Runs, NEW q \in Requests, InspectLocked(r, q) PROVE Same
  BY <1>3 DEF InspectLocked, Step, serverVars
<1>4. ASSUME NEW r \in Runs, NEW q \in Requests, Inspect(r, q) PROVE FALSE
  BY <1>4 DEF Inspect, Step
<1>5. ASSUME NEW r \in Runs, PreviewLost(r) PROVE Same
  BY <1>5 DEF PreviewLost, Forget, Step, serverVars
<1>6. ASSUME NEW r \in Runs, Preview(r)
      PROVE  \E h \in Commits, d, i \in Contents : Seen(x, h, d, i)'
  <2>1. r = x /\ Step(x, "inspected", "previewed") /\ UNCHANGED <<srv, req>>
    BY <1>6 DEF Preview, Step, serverVars
  <2>2. shown'[x] = [fingerprint |-> Fingerprint(srv, req[x]), overlaps |-> Overlaps(srv, req[x]),
                     absorbed |-> Absorbed(srv, req[x])]
    BY <1>6, <2>1 DEF Preview, Step
  <2>3. srv \in Server
    BY DEF ServerTypeOK
  <2>4. srv = [head |-> srv.head, disk |-> srv.disk, index |-> srv.index, ledger |-> srv.ledger]
    BY <2>3 DEF Server
  <2>5. Seen(x, srv.head, srv.disk, srv.index)'
    BY <2>1, <2>2, <2>4 DEF Seen
  <2>6. srv'.head \in Commits /\ srv'.disk \in Contents /\ srv'.index \in Contents
    BY <2>1, <2>3 DEF Server
  <2> QED BY <2>1, <2>5, <2>6 DEF Seen
<1>7. ASSUME NEW r \in Runs, ApplyRefused(r) PROVE Same
  BY <1>7 DEF ApplyRefused, Forget, Step, serverVars
<1>8. ASSUME NEW r \in Runs, Apply(r) PROVE FALSE
  BY <1>8 DEF Apply, Step, HoldsLock
<1>9. ASSUME NEW r \in Runs, Release(r) PROVE Same
  BY <1>9, RunsAssumption DEF Release, Step, serverVars
<1>10. ASSUME NEW r \in Runs, GiveUp(r) PROVE Same
  BY <1>10 DEF GiveUp, Forget, Step, serverVars
<1>11. ASSUME NEW r \in Runs, Vanish(r) PROVE Same
  BY <1>11 DEF Vanish, Forget, Step, serverVars
<1>12. CASE UNCHANGED vars
  BY <1>1, <1>12 DEF vars
<1> HIDE DEF Same
<1> QED BY <1>1, <1>2, <1>3, <1>4, <1>5, <1>6, <1>7, <1>8, <1>9, <1>10, <1>11, <1>12
        DEF Next, Advance

\* The inductive invariant behind every theorem below.
Inv == TypeOK /\ HolderOwnsIncoming /\ PlanFromThisLedger

LEMMA InvHolds == Spec => []Inv
<1>1. Init => Inv
  <2> SUFFICES ASSUME Init PROVE Inv
    OBVIOUS
  <2>1. TypeOK
    BY TypeInit
  <2>2. HolderOwnsIncoming /\ PlanFromThisLedger
    BY DEF Init, HolderOwnsIncoming, PlanFromThisLedger
  <2> QED BY <2>1, <2>2 DEF Inv
<1>2. Inv /\ [Next]_vars => Inv'
  BY TypeStep, HolderStep, PlanStep DEF Inv
<1> QED BY <1>1, <1>2, PTL DEF Spec

\* Every variable of the staging server and of the runs keeps its type, and
\* only source files ever have drafts.
THEOREM TypeCorrect == Spec => []TypeOK
BY InvHolds, PTL DEF Inv

\* A run that holds the lock finds its own staged commit in the incoming ref
\* when it applies, whatever other runs do (cmd_release, cmd_preview).
THEOREM HolderKeepsIncoming == Spec => []HolderOwnsIncoming
BY InvHolds, PTL DEF Inv

\* The plan the lock's holder shows was made with the ledger as it still is.
THEOREM PlanStaysCurrent == Spec => []PlanFromThisLedger
BY InvHolds, PTL DEF Inv

-----------------------------------------------------------------------------
(* What every successful apply keeps                                       *)

\* Only apply reports a deploy.
LEMMA OnlyApplyApplies ==
  ASSUME TypeOK, [Next]_vars, NEW x \in Runs, JustApplied(x)
  PROVE  Apply(x)
<1> USE DEF TypeOK, RunTypeOK, JustApplied
<1>1. ~ByHand /\ ~UNCHANGED vars
  BY ByHandType DEF vars, runVars
<1>2. ASSUME NEW r \in Runs, NEW q \in Requests, InspectLocked(r, q) PROVE FALSE
  BY <1>2 DEF InspectLocked, Report
<1>3. ASSUME NEW r \in Runs, NEW q \in Requests, Inspect(r, q) PROVE FALSE
  BY <1>3 DEF Inspect, Report
<1>4. ASSUME NEW r \in Runs, PreviewLost(r) PROVE FALSE
  BY <1>4 DEF PreviewLost, Report
<1>5. ASSUME NEW r \in Runs, Preview(r) PROVE FALSE
  BY <1>5 DEF Preview, Report
<1>6. ASSUME NEW r \in Runs, ApplyRefused(r) PROVE FALSE
  BY <1>6 DEF ApplyRefused, Report
<1>7. ASSUME NEW r \in Runs, Apply(r) PROVE r = x
  BY <1>7 DEF Apply, Report
<1>8. ASSUME NEW r \in Runs, Release(r) \/ GiveUp(r) \/ Vanish(r) PROVE FALSE
  BY <1>8 DEF Release, GiveUp, Vanish, Report
<1> QED BY <1>1, <1>2, <1>3, <1>4, <1>5, <1>6, <1>7, <1>8 DEF Next, Advance

\* The facts every later theorem starts from: the run applies its own request,
\* to a checkout for which its plan is still exact.
LEMMA AppliedExactly ==
  ASSUME Inv, [Next]_vars, NEW x \in Runs, JustApplied(x)
  PROVE  /\ srv \in Server /\ Drafts(srv) \subseteq Sources /\ IsRequest(req[x])
         /\ srv' = Applied(srv, req[x])
         /\ CodePaths(srv, req[x]) = DOMAIN shown[x].fingerprint[2]
         /\ Overlaps(srv, req[x]) = shown[x].overlaps
         /\ \A p \in shown[x].overlaps : <<p, srv.disk[p]>> \in overwritten'
<1>1. Apply(x)
  BY OnlyApplyApplies DEF Inv
<1>2. phase[x] = "previewed" /\ lock = x
  BY <1>1 DEF Apply, Step, HoldsLock
<1>3. IsRequest(req[x]) /\ Incoming(x) = req[x]
  BY <1>2, ApplyUsesOwnRequest DEF Inv
<1>4. srv' = Applied(srv, req[x]) /\ Fingerprint(srv, req[x]) = shown[x].fingerprint
  BY <1>1, <1>3 DEF Apply
<1>5. CodePaths(srv, req[x]) = DOMAIN shown[x].fingerprint[2]
  <2> DEFINE g == [p \in CodePaths(srv, req[x]) |-> <<srv.disk[p], StatusCode(srv, p)>>]
  <2>1. shown[x].fingerprint = <<srv.head, g>>
    BY <1>4 DEF Fingerprint
  <2> HIDE DEF g
  <2>2. shown[x].fingerprint[2] = g
    BY <2>1
  <2> QED BY <2>2 DEF g
<1>6. PICK h \in Commits, d \in Contents, i \in Contents : Seen(x, h, d, i)
  BY <1>2, PlanIsSeen DEF Inv
<1>7. Overlaps(srv, req[x]) = shown[x].overlaps
  <2> DEFINE s == [head |-> h, disk |-> d, index |-> i, ledger |-> srv.ledger]
  <2>1. shown[x].fingerprint = Fingerprint(s, req[x]) /\ shown[x].overlaps = Overlaps(s, req[x])
    BY <1>6 DEF Seen
  <2>2. s.ledger = srv.ledger
    OBVIOUS
  <2> HIDE DEF s
  <2> QED BY <1>4, <2>1, <2>2, SameOverlaps
<1>8. \A p \in shown[x].overlaps : <<p, srv.disk[p]>> \in overwritten'
  BY <1>1 DEF Apply
<1> QED BY <1>3, <1>4, <1>5, <1>7, <1>8 DEF Inv, TypeOK, ServerTypeOK

\* The developer's confirmation binds the apply: it writes the files and
\* overwrites the overlaps the plan showed, from the run's own staged commit.
THEOREM ConfirmedIsApplied == Spec => AppliedAsConfirmed
<1>1. Inv /\ [Next]_vars => [\A r \in Runs : JustApplied(r) =>
        /\ CodePaths(srv, req[r]) = DOMAIN shown[r].fingerprint[2]
        /\ Overlaps(srv, req[r]) = shown[r].overlaps
        /\ srv' = Applied(srv, req[r])]_vars
  BY AppliedExactly
<1> QED BY <1>1, InvHolds, PTL DEF Spec, AppliedAsConfirmed

\* No apply destroys uncommitted work: whatever it replaces was committed, was
\* the developer's own untouched draft, or was shown as an overlap and backed
\* up first.
THEOREM NothingIsLost == Spec => NothingLost
<1>1. Inv /\ [Next]_vars => [\A r \in Runs : JustApplied(r) =>
        \A p \in Sources :
          \/ srv'.disk[p] = srv.disk[p]
          \/ srv.disk[p] = HeadTree(srv)[p]
          \/ Intact(srv, p) /\ Mine(srv, p, req[r])
          \/ p \in shown[r].overlaps /\ <<p, srv.disk[p]>> \in overwritten'
          \/ p \in Ignored /\ srv.index[p] = Absent]_vars
  BY AppliedExactly, ReplacesOnlyKnownContent
<1> QED BY <1>1, InvHolds, PTL DEF Spec, NothingLost

\* Another developer's untouched draft survives every apply, or the plan said
\* what becomes of it.
THEOREM OthersDraftsSurvive == Spec => OthersDraftsKept
<1>1. Inv /\ [Next]_vars => [\A r \in Runs : JustApplied(r) =>
        \A p \in Drafts(srv) :
          Intact(srv, p) /\ ~Mine(srv, p, req[r]) /\ srv.disk[p] # HeadTree(srv)[p] =>
            \/ /\ srv'.ledger[p] = srv.ledger[p]
               /\ srv'.disk[p] = srv.disk[p] /\ srv'.index[p] = srv.disk[p]
            \/ p \in shown[r].overlaps
            \/ p \in Takeover(srv, req[r]) /\ srv'.disk[p] = srv.disk[p]
            \/ srv.disk[p] = HeadTree(srv')[p] /\ srv'.disk[p] = srv.disk[p]
            \/ p \in Ignored /\ srv.index[p] = Absent]_vars
  BY AppliedExactly, OthersDraftSurvives
<1> QED BY <1>1, InvHolds, PTL DEF Spec, OthersDraftsKept

\* After every apply, git status lists exactly the untouched drafts' changes
\* as staged (stage_drafts).
THEOREM DraftsAreStaged == Spec => DraftsReadAsStaged
<1>1. Inv /\ [Next]_vars => [\A r \in Runs : JustApplied(r) =>
        \A p \in Drafts(srv') : Intact(srv', p) =>
          srv'.index[p] = srv'.disk[p] /\ srv'.disk[p] # HeadTree(srv')[p]]_vars
  <2> SUFFICES ASSUME Inv, [Next]_vars, NEW r \in Runs, JustApplied(r),
                      NEW p \in Drafts(srv'), Intact(srv', p)
               PROVE  srv'.index[p] = srv'.disk[p] /\ srv'.disk[p] # HeadTree(srv')[p]
    OBVIOUS
  <2>1. srv \in Server /\ IsRequest(req[r]) /\ srv' = Applied(srv, req[r])
    BY AppliedExactly
  <2>2. p \in Paths /\ srv'.ledger[p] # NoDraft
    BY DEF Drafts
  <2> QED BY <2>1, <2>2, DraftsStayStaged
<1> QED BY <1>1, InvHolds, PTL DEF Spec, DraftsReadAsStaged

\* HEAD moves under the files outside the deploy without their noticing.
THEOREM RestIsKept == Spec => RestReadsTheSame
<1>1. Inv /\ [Next]_vars => [\A r \in Runs : JustApplied(r) =>
        \A p \in Sources \ (CodePaths(srv, req[r]) \cup req[r].staged) :
          /\ srv'.disk[p] = srv.disk[p]
          /\ StatusCode(srv', p) = StatusCode(srv, p) \/ Intact(srv, p)]_vars
  BY AppliedExactly, RestIsUntouched
<1> QED BY <1>1, InvHolds, PTL DEF Spec, RestReadsTheSame

\* A deploy is idempotent: sent again at once, it finds nothing to do.
THEOREM RedeployIsIdle == Spec => RedeployHasNothingToDo
<1>1. Inv /\ [Next]_vars => [\A r \in Runs :
        JustApplied(r) /\ Uploaded(req[r].base, req[r].tree) \subseteq DeploySet(srv, req[r]) =>
          UpToDate(srv', req[r])]_vars
  BY AppliedExactly, RedeployIsUpToDate
<1> QED BY <1>1, InvHolds, PTL DEF Spec, RedeployHasNothingToDo

-----------------------------------------------------------------------------
(* Commits stay reachable                                                  *)

\* Every commit of the history is reachable from HEAD at `at`, a kept commit
\* or a branch.
Covered(at) == \A c \in ever : \E d \in {at} \cup kept \cup Tips : Reaches(d, c)

\* While HEAD is still on an old release's snapshot, the history must be
\* reachable without it: the next inspect takes HEAD off it, keeping no ref.
ReachInv ==
  /\ Covered(srv.head)
  /\ record.snapshot # NoCommit => record.base # record.snapshot
  /\ OnSnapshot => branch = Detached /\ Covered(record.base)

LEMMA ReachesTransitive ==
  ASSUME NEW a \in Commits, NEW b \in Commits, NEW c, Reaches(a, b), Reaches(b, c)
  PROVE  Reaches(a, c)
BY HistoryAssumption DEF Reaches

LEMMA ReachesItself == \A c \in Commits : Reaches(c, c)
BY HistoryAssumption DEF Reaches

LEMMA ReachInit == Init => ReachInv
<1> SUFFICES ASSUME Init PROVE ReachInv
  OBVIOUS
<1>1. PICK c \in Commits, on \in Branches \cup {Detached} :
        /\ srv = [head |-> c, disk |-> Tree[c], index |-> Tree[c], ledger |-> [p \in Paths |-> NoDraft]]
        /\ branch = on
        /\ heads \in [Branches -> (Commits \ Snapshots) \cup {NoCommit}]
        /\ \/ c \notin Snapshots /\ record = NoRecord /\ ever = {c} \cup Tips
           \/ /\ c \in Snapshots /\ on = Detached
              /\ \E b \in Ancestors[c] \ {c} :
                   /\ record = [snapshot |-> c, base |-> b, build |-> NoBuild]
                   /\ ever = {b} \cup Tips
  BY DEF Init, InitServer
<1>2. Tips \subseteq Commits
  BY <1>1 DEF Tips
<1>3. CASE c \notin Snapshots /\ record = NoRecord /\ ever = {c} \cup Tips
  <2>1. record.snapshot = NoCommit /\ ~OnSnapshot
    BY <1>1, <1>3, NamesAssumption DEF NoRecord, OnSnapshot
  <2>2. Covered(srv.head)
    BY <1>1, <1>2, <1>3, ReachesItself DEF Covered
  <2> QED BY <2>1, <2>2 DEF ReachInv
<1>4. ASSUME c \in Snapshots, on = Detached, NEW b \in Ancestors[c] \ {c},
             record = [snapshot |-> c, base |-> b, build |-> NoBuild], ever = {b} \cup Tips
      PROVE  ReachInv
  <2>1. b \in Commits /\ Reaches(c, b) /\ b # c
    BY <1>4, HistoryAssumption DEF Reaches
  <2>2. Covered(srv.head)
    BY <1>1, <1>2, <1>4, <2>1, ReachesItself DEF Covered
  <2>3. Covered(record.base)
    BY <1>2, <1>4, <2>1, ReachesItself DEF Covered
  <2> QED BY <1>1, <1>4, <2>1, <2>2, <2>3 DEF ReachInv
<1> QED BY <1>1, <1>3, <1>4

LEMMA ReachMoveHead ==
  ASSUME TypeOK, ReachInv, NEW c \in Commits \ Snapshots, NEW new, MoveHead(c, new),
         Reaches(c, srv.head), srv' \in Server
  PROVE  ReachInv'
<1>1. srv.head \in Commits /\ ever \subseteq Commits /\ kept' = kept /\ record' = record
  BY DEF TypeOK, ServerTypeOK, Server, MoveHead
<1>2. srv'.head = c
  <2>1. srv' = [new EXCEPT !.head = c]
    BY DEF MoveHead
  <2>2. DOMAIN srv' = {"head", "disk", "index", "ledger"}
    BY DEF Server
  <2> QED BY <2>1, <2>2
<1>3. \A d \in Tips : d = srv.head \/ d \in Tips'
  <2> SUFFICES ASSUME NEW b \in Branches, heads[b] # NoCommit
               PROVE  heads[b] = srv.head \/ heads[b] \in Tips'
    BY DEF Tips
  <2>1. CASE b = branch
    BY <2>1, NamesAssumption DEF TypeOK, ServerTypeOK
  <2>2. CASE b # branch
    BY <2>2 DEF MoveHead, Tips, TypeOK, ServerTypeOK
  <2> QED BY <2>1, <2>2
<1>4. Covered(srv.head)'
  <2> SUFFICES ASSUME NEW x \in ever'
               PROVE  \E d \in {c} \cup kept' \cup Tips' : Reaches(d, x)
    BY <1>2 DEF Covered
  <2>1. CASE x = c
    BY <2>1, ReachesItself
  <2>2. CASE x \in ever
    <3>1. PICK d \in {srv.head} \cup kept \cup Tips : Reaches(d, x)
      BY <2>2 DEF ReachInv, Covered
    <3>2. CASE d = srv.head
      BY <1>1, <3>1, <3>2, ReachesTransitive
    <3> QED BY <1>1, <1>3, <3>1, <3>2
  <2> QED BY <2>1, <2>2 DEF MoveHead
<1>5. ~OnSnapshot'
  BY <1>1, <1>2, NamesAssumption DEF OnSnapshot, TypeOK, ServerTypeOK
<1> QED BY <1>1, <1>4, <1>5 DEF ReachInv

LEMMA ReachByHand ==
  ASSUME TypeOK, ReachInv, ByHand
  PROVE  ReachInv'
<1>1. srv' \in Server /\ srv.head \in Commits
  BY ByHandType DEF TypeOK, ServerTypeOK, Server
<1>2. ASSUME NEW new, HandWork(new), new.head = srv.head PROVE ReachInv'
  BY <1>2 DEF HandWork, ReachInv, Covered, OnSnapshot, Tips
<1>3. ASSUME NEW p \in HandFiles, NEW v \in Content, Edit(p, v) PROVE ReachInv'
  BY <1>2, <1>3 DEF Edit, TypeOK, ServerTypeOK, Server
<1>4. ASSUME NEW p \in HandFiles, StageEdit(p) \/ Unstage(p) PROVE ReachInv'
  BY <1>2, <1>4 DEF StageEdit, Unstage, TypeOK, ServerTypeOK, Server
<1>5. ASSUME NEW c \in Commits \ Snapshots, HandCommit(c) PROVE ReachInv'
  BY <1>1, <1>5, ReachMoveHead, HistoryAssumption DEF HandCommit, Reaches
<1>6. ASSUME NEW c \in Commits \ Snapshots, Pull(c) PROVE ReachInv'
  BY <1>1, <1>6, ReachMoveHead DEF Pull
<1> QED BY <1>3, <1>4, <1>5, <1>6 DEF ByHand

\* Taking HEAD off an old snapshot loses nothing: the history never includes it.
LEMMA ReachInspect ==
  ASSUME TypeOK, ReachInv, NEW r \in Runs, NEW q \in Requests, Inspect(r, q)
  PROVE  ReachInv'
<1>1. UNCHANGED <<branch, kept, record>> /\ srv' = Converted /\ ever' = ever \cup {Converted.head}
  BY DEF Inspect
<1>2. Converted \in Server
  BY ConvertedType DEF TypeOK
<1>3. heads' = heads
  <2>1. CASE branch = Detached
    BY <2>1 DEF Inspect
  <2>2. CASE branch # Detached
    <3>1. Converted.head = heads[branch]
      BY <2>2 DEF ReachInv, Converted, TypeOK, ServerTypeOK
    <3> QED BY <2>2, <3>1 DEF Inspect, TypeOK, ServerTypeOK
  <2> QED BY <2>1, <2>2
<1>4. Covered(Converted.head)
  <2>1. CASE OnSnapshot
    <3>1. Converted.head = record.base
      BY <2>1 DEF Converted, TypeOK, ServerTypeOK, Server
    <3> QED BY <2>1, <3>1 DEF ReachInv
  <2>2. CASE ~OnSnapshot
    BY <2>2 DEF Converted, ReachInv
  <2> QED BY <2>1, <2>2
<1>5. Covered(srv.head)'
  <2>1. Tips' = Tips
    BY <1>3 DEF Tips
  <2>2. Converted.head \in Commits
    BY <1>2 DEF Server
  <2> QED BY <1>1, <1>4, <2>1, <2>2, ReachesItself DEF Covered
<1>6. ~OnSnapshot'
  <2>1. CASE OnSnapshot
    <3>1. Converted.head = record.base
      BY <2>1 DEF Converted, TypeOK, ServerTypeOK, Server
    <3>2. record.snapshot # NoCommit
      BY <2>1, NamesAssumption DEF OnSnapshot, TypeOK, ServerTypeOK, Server
    <3> QED BY <1>1, <3>1, <3>2 DEF OnSnapshot, ReachInv
  <2>2. CASE ~OnSnapshot
    BY <1>1, <2>2 DEF Converted, OnSnapshot
  <2> QED BY <2>1, <2>2
<1> QED BY <1>1, <1>5, <1>6 DEF ReachInv

\* apply keeps the commits it moves HEAD or the branch off.
LEMMA ReachApply ==
  ASSUME TypeOK, HolderOwnsIncoming, ReachInv, NEW r \in Runs, Apply(r)
  PROVE  ReachInv'
<1> DEFINE q == req[r]
<1>1. q \in Requests /\ Incoming(r) = q
  BY ApplyUsesOwnRequest DEF Apply, Step, HoldsLock
<1>2. MoveBranch(q) /\ srv' = Applied(srv, q) /\ record'.snapshot = NoCommit
  BY <1>1 DEF Apply
<1>3. q.base \in Commits /\ q.branch \in Branches \cup {Detached}
  BY <1>1, RequestsAssumption DEF Request
<1>4. srv'.head = q.base /\ srv.head \in Commits /\ kept \subseteq Commits /\ ever \subseteq Commits
  BY <1>2, AppliedHead DEF TypeOK, ServerTypeOK, Server
<1> HIDE DEF q
<1>5. srv.head \in kept' \/ Reaches(q.base, srv.head)
  BY <1>2 DEF MoveBranch, Orphaned, Reaches
<1>6. \A d \in Tips : d \in kept' \cup Tips' \/ Reaches(q.base, d)
  <2> SUFFICES ASSUME NEW b \in Branches, heads[b] # NoCommit
               PROVE  heads[b] \in kept' \cup Tips' \/ Reaches(q.base, heads[b])
    BY DEF Tips
  <2>1. CASE b = q.branch
    BY <1>2, <2>1, NamesAssumption DEF MoveBranch, Orphaned, Reaches
  <2>2. CASE b # q.branch
    <3>1. heads'[b] = heads[b]
      BY <1>2, <2>2 DEF MoveBranch, TypeOK, ServerTypeOK
    <3> QED BY <3>1 DEF Tips
  <2> QED BY <2>1, <2>2
<1>7. Covered(srv.head)'
  <2> SUFFICES ASSUME NEW x \in ever'
               PROVE  \E d \in {q.base} \cup kept' \cup Tips' : Reaches(d, x)
    BY <1>4 DEF Covered
  <2>1. CASE x = q.base
    BY <1>3, <2>1, ReachesItself
  <2>2. CASE x \in ever
    <3>1. PICK d \in {srv.head} \cup kept \cup Tips : Reaches(d, x)
      BY <2>2 DEF ReachInv, Covered
    <3>2. d \in Commits /\ kept \subseteq kept'
      BY <1>2, <1>4 DEF MoveBranch, Tips, TypeOK, ServerTypeOK
    <3>3. d \in kept' \cup Tips' \/ Reaches(q.base, d)
      BY <1>5, <1>6, <3>2
    <3> QED BY <1>3, <3>1, <3>2, <3>3, ReachesTransitive
  <2> QED BY <1>2, <2>1, <2>2 DEF MoveBranch
<1>8. ~OnSnapshot'
  BY <1>2, <1>3, <1>4, NamesAssumption DEF OnSnapshot
<1> QED BY <1>2, <1>7, <1>8 DEF ReachInv

\* No commit the server, or a branch of it, has been on becomes unreachable.
THEOREM CommitsAreKept == Spec => []CommitsKept
<1>1. Init => ReachInv
  BY ReachInit
<1>2. Inv /\ ReachInv /\ [Next]_vars => ReachInv'
  <2> SUFFICES ASSUME Inv, ReachInv, [Next]_vars PROVE ReachInv'
    OBVIOUS
  <2>1. UNCHANGED serverVars => ReachInv'
    BY DEF serverVars, ReachInv, Covered, OnSnapshot, Tips
  <2>2. CASE ByHand
    BY <2>2, ReachByHand DEF Inv
  <2>3. ASSUME NEW r \in Runs, Advance(r) PROVE ReachInv'
    BY <2>1, <2>3, ReachInspect, ReachApply
       DEF Advance, InspectLocked, PreviewLost, Preview, ApplyRefused, Release, Inv
  <2>4. ASSUME NEW r \in Runs, GiveUp(r) \/ Vanish(r) PROVE ReachInv'
    BY <2>1, <2>4 DEF GiveUp, Vanish
  <2>5. CASE UNCHANGED vars
    BY <2>1, <2>5 DEF vars, serverVars
  <2> QED BY <2>2, <2>3, <2>4, <2>5 DEF Next
<1>3. ReachInv => CommitsKept
  BY DEF ReachInv, Covered, CommitsKept
<1> QED BY <1>1, <1>2, <1>3, InvHolds, PTL DEF Spec

-----------------------------------------------------------------------------
(* The build on the server                                                 *)

\* What the holder of the lock decided about its build still fits the record:
\* it will ship the build it records, or the record already names it.
BuildInv ==
  /\ served = record.build
  /\ \A r \in Runs : lock = r /\ phase[r] \in {"inspected", "previewed"} =>
       build[r].digest = IF build[r].ship THEN req[r].build ELSE record.build

\* The record names the build on the server's disk, so a run that compares
\* digests and ships nothing leaves the right build in place.
THEOREM BuildIsRecorded == Spec => []RecordedBuildIsServed
<1>1. Init => BuildInv
  BY RunsAssumption DEF Init, InitServer, NoRecord, BuildInv
<1>2. Inv /\ BuildInv /\ [Next]_vars => BuildInv'
  <2> SUFFICES ASSUME Inv, BuildInv, [Next]_vars PROVE BuildInv'
    OBVIOUS
  <2> USE DEF Inv, TypeOK, RunTypeOK, HoldsLock
  <2>1. CASE ByHand
    <3>1. UNCHANGED <<lock, incoming, runVars>> /\ UNCHANGED <<served, record>>
      BY <2>1, ByHandType
         DEF ByHand, Edit, StageEdit, Unstage, HandWork, HandCommit, Pull, MoveHead
    <3> QED BY <3>1 DEF BuildInv, runVars
  <2>2. ASSUME NEW r \in Runs, NEW q \in Requests, InspectLocked(r, q) PROVE BuildInv'
    BY <2>2 DEF InspectLocked, Step, serverVars, BuildInv
  <2>3. ASSUME NEW r \in Runs, NEW q \in Requests, Inspect(r, q) PROVE BuildInv'
    <3>1. lock' = r /\ UNCHANGED <<served, record>> /\ req'[r] = q
      BY <2>3 DEF Inspect
    <3>2. phase'[r] = "inspected" =>
            build'[r].digest = IF build'[r].ship THEN q.build ELSE record.build
      BY <2>3 DEF Inspect, Step, BuildPlan
    <3>3. phase'[r] # "previewed"
      BY <2>3 DEF Inspect, Step
    <3> QED BY <3>1, <3>2, <3>3 DEF BuildInv
  <2>4. ASSUME NEW r \in Runs, PreviewLost(r) PROVE BuildInv'
    BY <2>4 DEF PreviewLost, Step, serverVars, Forget, BuildInv
  <2>5. ASSUME NEW r \in Runs, Preview(r) PROVE BuildInv'
    <3>1. UNCHANGED <<lock, req, served, record>> /\ phase[r] = "inspected"
      BY <2>5 DEF Preview, Step, serverVars
    <3>2. phase'[r] \in {"closing", "previewed"} /\ \A x \in Runs : x # r => phase'[x] = phase[x]
      BY <2>5 DEF Preview, Step
    <3>3. phase'[r] = "previewed" => UNCHANGED build
      BY <2>5 DEF Preview, Step
    <3>4. \A x \in Runs : x # r => build'[x] = build[x]
      BY <2>5 DEF Preview, Forget
    <3> QED BY <3>1, <3>2, <3>3, <3>4 DEF BuildInv
  <2>6. ASSUME NEW r \in Runs, ApplyRefused(r) PROVE BuildInv'
    BY <2>6 DEF ApplyRefused, Step, serverVars, Forget, BuildInv
  <2>7. ASSUME NEW r \in Runs, Apply(r) PROVE BuildInv'
    <3>1. lock = r /\ phase[r] = "previewed" /\ lock' = lock /\ req' = req
      BY <2>7 DEF Apply, Step, HoldsLock
    <3>2. served' = (IF build[r].ship THEN req[r].build ELSE served) /\ record'.build = build[r].digest
      BY <2>7 DEF Apply
    <3>3. phase'[r] = "closing"
      BY <2>7 DEF Apply, Step, HoldsLock
    <3> QED BY <3>1, <3>2, <3>3 DEF BuildInv
  <2>8. ASSUME NEW r \in Runs, Release(r) PROVE BuildInv'
    BY <2>8, RunsAssumption DEF Release, Step, serverVars, BuildInv
  <2>9. ASSUME NEW r \in Runs, GiveUp(r) PROVE BuildInv'
    BY <2>9 DEF GiveUp, Step, serverVars, Forget, BuildInv
  <2>10. ASSUME NEW r \in Runs, Vanish(r) PROVE BuildInv'
    BY <2>10 DEF Vanish, Step, serverVars, Forget, BuildInv
  <2>11. CASE UNCHANGED vars
    BY <2>11 DEF vars, BuildInv
  <2> QED BY <2>1, <2>2, <2>3, <2>4, <2>5, <2>6, <2>7, <2>8, <2>9, <2>10, <2>11
          DEF Next, Advance
<1>3. BuildInv => RecordedBuildIsServed
  BY DEF BuildInv, RecordedBuildIsServed
<1> QED BY <1>1, <1>2, <1>3, InvHolds, PTL DEF Spec

=============================================================================
