--------------------------- MODULE DeployLockProofs --------------------------
(***************************************************************************)
(* DeployLock for any number of runs.  As long as nobody breaks a lock, a  *)
(* run removes no lock but its own, even when calls are lost and commands  *)
(* die; and the commands of runs that lose no call never work on what      *)
(* deploys share at the same time.                                         *)
(***************************************************************************)
EXTENDS DeployLock, TLAPS

\* A release that goes on, having found a lock, found its own, and that is
\* still there.
OwnLockSeen ==
  /\ \A r \in Runs : job[r] \notin {"tmp", "replace"}
  /\ \A r \in Runs : rel[r] \in {"dir", "ref", "unlock"} /\ saw[r] => lock = LockOf(r)
  /\ \A r \in Runs : rel[r] = "unlock" => saw[r]

SeenInv == TypeOK /\ OwnLockSeen

-----------------------------------------------------------------------------

\* A lock says whose it is and whether it is written.
LEMMA LockFacts ==
  /\ \A r \in Runs : /\ LockOf(r) \in Locks
                      /\ Unwritten(r) \in Locks
                      /\ LockOf(r) # NoLock /\ Unwritten(r) # NoLock
  /\ \A r, s \in Runs : LockOf(r) = LockOf(s) => r = s
  /\ \A r, s \in Runs : Unwritten(r) = Unwritten(s) => r = s
  /\ \A r, s \in Runs : LockOf(r) # Unwritten(s)
<1>1. \A r \in Runs : /\ LockOf(r) \in Locks
                      /\ Unwritten(r) \in Locks
  BY DEF LockOf, Unwritten, Locks
<1>2. \A r \in Runs : LockOf(r) # NoLock /\ Unwritten(r) # NoLock
  BY <1>1, LockAssumption DEF Locks
<1>3. \A r, s \in Runs : LockOf(r) = LockOf(s) => r = s
  BY DEF LockOf
<1>4. \A r, s \in Runs : Unwritten(r) = Unwritten(s) => r = s
  BY DEF Unwritten
<1>5. \A r, s \in Runs : LockOf(r) # Unwritten(s)
  BY DEF LockOf, Unwritten
<1> QED
  BY <1>1, <1>2, <1>3, <1>4, <1>5

\* Every variable keeps its type, whoever breaks locks or loses calls.
THEOREM LockTypes == Spec => []TypeOK
<1>1. Init => TypeOK
  BY LockAssumption DEF Init, TypeOK, Ended
<1>2. TypeOK /\ [Next]_vars => TypeOK'
  <2> SUFFICES ASSUME TypeOK, [Next]_vars PROVE TypeOK'
    OBVIOUS
  <2> USE DEF TypeOK, Running, Ended, Releasing, Critical, Previews, Applies, Calls, Go, Release
  <2>1. ASSUME NEW r \in Runs, Inspect(r) PROVE TypeOK'
    <3>1. CASE Create(r) \/ Locked(r) \/ Break(r) \/ Convert(r)
      BY <3>1, LockFacts DEF Create, Locked, Break, Convert, shared
    <3>2. CASE Fill(r)
      BY <3>2, LockFacts DEF Fill
    <3>3. CASE WriteTmp(r) \/ Replace(r)
      BY <3>3, LockFacts DEF WriteTmp, Replace
    <3> QED
      BY <2>1, <3>1, <3>2, <3>3 DEF Inspect
  <2>2. ASSUME NEW r \in Runs, CheckLock(r) \/ Preview(r) PROVE TypeOK'
    BY <2>2 DEF CheckLock, Preview, Clear, Extract, Fetch, Plan, shared
  <2>3. ASSUME NEW r \in Runs, Apply(r) PROVE TypeOK'
    BY <2>3 DEF Apply, Replan, Write, Ship, Record, shared
  <2>4. ASSUME NEW r \in Runs, ReadLock(r) \/ RemoveDir(r) \/ RemoveRef(r) \/ Unlock(r) \/ DieReleasing(r) PROVE TypeOK'
    BY <2>4 DEF ReadLock, RemoveDir, RemoveRef, RefRemoved, Unlock, DieReleasing, shared
  <2>5. ASSUME NEW r \in Runs, Start(r) \/ Continue(r) PROVE TypeOK'
    BY <2>5 DEF Start, Continue, Send, shared
  <2>6. ASSUME NEW r \in Runs, Finish(r) \/ Lose(r) PROVE TypeOK'
    BY <2>6 DEF Finish, Lose, SendRelease, shared
  <2>7. ASSUME NEW r \in Runs, Close(r) \/ Kill(r) \/ Die(r) \/ LoseRelease(r) PROVE TypeOK'
    BY <2>7 DEF Close, Kill, Die, LoseRelease, shared
  <2>8. CASE UNCHANGED vars
    BY <2>8 DEF vars
  <2> QED
    BY <2>1, <2>2, <2>3, <2>4, <2>5, <2>6, <2>7, <2>8 DEF Next, Agent, Client
<1> QED
  BY <1>1, <1>2, PTL DEF Spec

\* Without --break-lock, what a release found stays true until it is done:
\* the lock is taken away only by its own run.
THEOREM SeenStays == ASSUME Breakers = {} PROVE Spec => []OwnLockSeen
<1>1. Init => OwnLockSeen
  BY DEF Init, OwnLockSeen
<1>2. TypeOK /\ OwnLockSeen /\ [Next]_vars => OwnLockSeen'
  <2> SUFFICES ASSUME TypeOK, OwnLockSeen, [Next]_vars PROVE OwnLockSeen'
    OBVIOUS
  <2> USE DEF TypeOK, OwnLockSeen, Releasing, Go, Release
  <2>1. ASSUME NEW r \in Runs, Create(r) PROVE OwnLockSeen'
    BY <2>1, LockFacts DEF Create, Free
  <2>2. ASSUME NEW r \in Runs, Fill(r) PROVE OwnLockSeen'
    BY <2>2, LockFacts DEF Fill
  <2>3. ASSUME NEW r \in Runs, Locked(r) \/ Break(r) \/ Convert(r) PROVE OwnLockSeen'
    BY <2>3 DEF Locked, Break, Convert, shared
  <2>4. ASSUME NEW r \in Runs, WriteTmp(r) \/ Replace(r) PROVE OwnLockSeen'
    BY <2>4, LockFacts DEF WriteTmp, Replace
  <2>5. ASSUME NEW r \in Runs, CheckLock(r) \/ Preview(r) PROVE OwnLockSeen'
    BY <2>5 DEF CheckLock, Preview, Clear, Extract, Fetch, Plan, shared
  <2>6. ASSUME NEW r \in Runs, Apply(r) PROVE OwnLockSeen'
    BY <2>6 DEF Apply, Replan, Write, Ship, Record, shared
  <2>7. ASSUME NEW r \in Runs, ReadLock(r) PROVE OwnLockSeen'
    BY <2>7, LockFacts DEF ReadLock, Foreign, shared
  <2>8. ASSUME NEW r \in Runs, RemoveDir(r) \/ RemoveRef(r) \/ DieReleasing(r) PROVE OwnLockSeen'
    BY <2>8 DEF RemoveDir, RemoveRef, DieReleasing, shared
  <2>9. ASSUME NEW r \in Runs, Unlock(r) PROVE OwnLockSeen'
    BY <2>9, LockFacts DEF Unlock
  <2>10. ASSUME NEW r \in Runs, Start(r) \/ Continue(r) PROVE OwnLockSeen'
    BY <2>10 DEF Start, Continue, Send, shared
  <2>11. ASSUME NEW r \in Runs, Finish(r) \/ Lose(r) PROVE OwnLockSeen'
    BY <2>11 DEF Finish, Lose, SendRelease, shared
  <2>12. ASSUME NEW r \in Runs, Close(r) \/ Kill(r) \/ Die(r) \/ LoseRelease(r) PROVE OwnLockSeen'
    BY <2>12 DEF Close, Kill, Die, LoseRelease, shared
  <2>13. CASE UNCHANGED vars
    BY <2>13 DEF vars
  <2> QED
    BY <2>1, <2>2, <2>3, <2>4, <2>5, <2>6, <2>7, <2>8, <2>9, <2>10, <2>11, <2>12, <2>13
    DEF Next, Agent, Inspect, Client
<1> QED
  BY <1>1, <1>2, LockTypes, PTL DEF Spec

\* deploy.py's comment on release: no lock but the run's own is removed, if
\* nobody breaks locks.
THEOREM OthersLocksAreKept == ASSUME Breakers = {} PROVE Spec => OnlyOwnLockRemoved
<1>1. OwnLockSeen /\ [Next]_vars =>
        [\A r \in Runs : rel[r] = "unlock" /\ rel'[r] = "ended" => lock = LockOf(r)]_vars
  BY DEF OwnLockSeen
<1> QED
  BY <1>1, SeenStays, PTL DEF Spec, OnlyOwnLockRemoved

-----------------------------------------------------------------------------

Keepers == Runs \ Droppers

\* A run that keeps its connection sends the release when its commands have
\* ended; its command between creating the lock and its end has the lock.
LockedWork ==
  /\ \A r \in Keepers : rel[r] # "idle" => job[r] \in Ended /\ client[r] \notin Calls \cup {"new"}
  /\ \A r \in Keepers : job[r] = "fill" => lock = Unwritten(r)
  /\ \A r \in Keepers : job[r] \in Critical => lock = LockOf(r)

LEMMA WorkIsLocked == ASSUME Breakers = {} PROVE Spec => []LockedWork
<1>1. Init => LockedWork
  BY DEF Init, LockedWork, Keepers, Critical, Previews, Applies
<1>2. TypeOK /\ OwnLockSeen /\ LockedWork /\ [Next]_vars => LockedWork'
  <2> SUFFICES ASSUME TypeOK, OwnLockSeen, LockedWork, [Next]_vars PROVE LockedWork'
    OBVIOUS
  <2> USE DEF TypeOK, LockedWork, Keepers, Ended, Calls, Critical, Previews, Applies, Go, Release
  <2>1. ASSUME NEW r \in Runs, Create(r) PROVE LockedWork'
    BY <2>1, LockFacts DEF Create, Free
  <2>2. ASSUME NEW r \in Runs, Fill(r) PROVE LockedWork'
    BY <2>2, LockFacts DEF Fill
  <2>3. ASSUME NEW r \in Runs, Locked(r) \/ Break(r) \/ Convert(r) PROVE LockedWork'
    BY <2>3 DEF Locked, Break, Convert, shared
  <2>4. ASSUME NEW r \in Runs, WriteTmp(r) \/ Replace(r) PROVE LockedWork'
    BY <2>4, LockFacts DEF WriteTmp, Replace, OwnLockSeen
  <2>5. ASSUME NEW r \in Runs, CheckLock(r) PROVE LockedWork'
    BY <2>5, LockFacts DEF CheckLock, Holds, shared
  <2>6. ASSUME NEW r \in Runs, Preview(r) PROVE LockedWork'
    BY <2>6 DEF Preview, Clear, Extract, Fetch, Plan, shared
  <2>7. ASSUME NEW r \in Runs, Apply(r) PROVE LockedWork'
    BY <2>7 DEF Apply, Replan, Write, Ship, Record, shared
  <2>8. ASSUME NEW r \in Runs, ReadLock(r) \/ RemoveDir(r) \/ RemoveRef(r) \/ DieReleasing(r) PROVE LockedWork'
    <3>1. /\ rel[r] # "idle" /\ UNCHANGED <<lock, client, job>>
          /\ \A s \in Runs \ {r} : rel'[s] = rel[s]
      BY <2>8 DEF ReadLock, RemoveDir, RemoveRef, DieReleasing, Releasing, shared
    <3> QED
      BY <3>1
  <2>9. ASSUME NEW r \in Runs, Unlock(r) PROVE LockedWork'
    BY <2>9, LockFacts DEF Unlock, OwnLockSeen
  <2>10. ASSUME NEW r \in Runs, Start(r) \/ Continue(r) PROVE LockedWork'
    BY <2>10 DEF Start, Continue, Send, shared
  <2>11. ASSUME NEW r \in Runs, Finish(r) \/ Lose(r) PROVE LockedWork'
    BY <2>11 DEF Finish, Lose, SendRelease, shared
  <2>12. ASSUME NEW r \in Runs, Close(r) \/ Kill(r) \/ Die(r) \/ LoseRelease(r) PROVE LockedWork'
    BY <2>12 DEF Close, Kill, Die, LoseRelease, Running, shared
  <2>13. CASE UNCHANGED vars
    BY <2>13 DEF vars
  <2> QED
    BY <2>1, <2>2, <2>3, <2>4, <2>5, <2>6, <2>7, <2>8, <2>9, <2>10, <2>11, <2>12, <2>13
    DEF Next, Agent, Inspect, Client
<1> QED
  BY <1>1, <1>2, LockTypes, SeenStays, PTL DEF Spec

\* Without --break-lock the lock is mutual exclusion between the runs that lose
\* no call, though every command checks it only once, clients are killed,
\* commands die, and others lose calls.
THEOREM LockExcludes == ASSUME Breakers = {} PROVE Spec => []OneAtATime
<1>1. LockedWork => OneAtATime
  BY LockFacts DEF LockedWork, Keepers, OneAtATime
<1> QED
  BY <1>1, WorkIsLocked, PTL

-----------------------------------------------------------------------------

\* A release that found no lock goes on, and removes what there is of the
\* incoming state.
Blind(r) == rel[r] \in {"dir", "ref"} /\ ~saw[r]

\* What is in incoming/ and in INCOMING_REF is the holder's, and stays until
\* its release has removed it; a lock, written or not, is there as long as the
\* release of its run has not ended well, and that release is not a blind one.
HolderState ==
  /\ dir # NoRun => lock = LockOf(dir) /\ rel[dir] \in {"idle", "read", "dir", "failed"}
  /\ ref # NoRun => lock = LockOf(ref) /\ rel[ref] \in {"idle", "read", "dir", "ref", "failed"}
  /\ \A r \in Runs : lock \in {LockOf(r), Unwritten(r)} =>
       rel[r] # "ended" /\ client[r] # "new" /\ job[r] # "create" /\ ~Blind(r)
  /\ \A r \in Runs : job[r] \in {"ok", "preview", "apply"} /\ rel[r] = "idle" => lock = LockOf(r)
  /\ \A r \in Runs : client[r] = "done" => rel[r] = "ended"
  /\ \A r \in Runs : client[r] = "new" => job[r] = "idle" /\ rel[r] = "idle"
  /\ \A r \in Runs : client[r] = "preview" => job[r] \in {"preview", "ok", "failed"} \cup Previews

\* If nobody breaks a lock or loses a call, the incoming state is never left
\* behind without the lock it belongs to.
LEMMA IncomingIsLocked == ASSUME Breakers = {}, Droppers = {} PROVE Spec => []HolderState
<1>1. Init => HolderState
  BY LockAssumption, LockFacts DEF Init, HolderState, Blind
<1>2. TypeOK /\ OwnLockSeen /\ LockedWork /\ HolderState /\ [Next]_vars => HolderState'
  <2> SUFFICES ASSUME TypeOK, OwnLockSeen, LockedWork, HolderState, [Next]_vars PROVE HolderState'
    OBVIOUS
  <2> USE DEF TypeOK, LockedWork, HolderState, Blind, Keepers, Ended, Calls, Critical, Previews, Applies, Go, Release
  <2>1. ASSUME NEW r \in Runs, Create(r) PROVE HolderState'
    BY <2>1, LockFacts DEF Create, Free
  <2>2. ASSUME NEW r \in Runs, Fill(r) PROVE HolderState'
    BY <2>2, LockFacts DEF Fill
  <2>3. ASSUME NEW r \in Runs, Locked(r) \/ Break(r) \/ Convert(r) PROVE HolderState'
    BY <2>3 DEF Locked, Break, Convert, shared
  <2>4. ASSUME NEW r \in Runs, WriteTmp(r) \/ Replace(r) PROVE HolderState'
    BY <2>4 DEF WriteTmp, Replace, OwnLockSeen
  <2>5. ASSUME NEW r \in Runs, CheckLock(r) PROVE HolderState'
    BY <2>5 DEF CheckLock, Holds, shared
  <2>6. ASSUME NEW r \in Runs, Clear(r) \/ Extract(r) PROVE HolderState'
    BY <2>6, LockAssumption DEF Clear, Extract
  <2>7. ASSUME NEW r \in Runs, Fetch(r) PROVE HolderState'
    <3>1. lock = LockOf(r) /\ rel[r] = "idle" /\ job[r] = "fetch"
      BY <2>7 DEF Fetch
    <3>2. dir # NoRun => dir = r
      BY <3>1, LockFacts
    <3> QED
      BY <2>7, <3>1, <3>2, LockAssumption DEF Fetch
  <2>8. ASSUME NEW r \in Runs, Plan(r) PROVE HolderState'
    BY <2>8 DEF Plan, shared
  <2>9. ASSUME NEW r \in Runs, Apply(r) PROVE HolderState'
    BY <2>9, LockAssumption DEF Apply, Replan, Write, Ship, Record, shared
  <2>10. ASSUME NEW r \in Runs, ReadLock(r) PROVE HolderState'
    <3>1. /\ rel[r] = "read" /\ UNCHANGED <<lock, tmp, dir, ref, client, job>>
          /\ rel' \in {[rel EXCEPT ![r] = "ended"], [rel EXCEPT ![r] = "dir"], [rel EXCEPT ![r] = "failed"]}
      BY <2>10 DEF ReadLock, shared
    <3>2. lock \in {LockOf(r), Unwritten(r)} => rel'[r] # "ended"
      BY <2>10, <3>1 DEF ReadLock, Foreign, Unreadable
    <3>3. lock = Unwritten(r) => rel'[r] # "dir"
      BY <2>10, <3>1, LockFacts DEF ReadLock, Foreign, Unreadable
    <3>4. /\ saw'[r] <=> lock # NoLock
          /\ \A s \in Runs \ {r} : saw'[s] = saw[s]
      BY <2>10, Zenon DEF ReadLock
    <3>5. \A s \in Runs : Blind(s)' => (s = r /\ lock = NoLock) \/ Blind(s)
      BY <3>1, <3>4
    <3> QED
      BY <3>1, <3>2, <3>3, <3>4, <3>5, LockFacts
  <2>11. ASSUME NEW r \in Runs, RemoveDir(r) PROVE HolderState'
    BY <2>11, LockFacts, LockAssumption DEF RemoveDir
  <2>12. ASSUME NEW r \in Runs, RemoveRef(r) PROVE HolderState'
    <3>1. /\ rel[r] = "ref" /\ rel' \in {[rel EXCEPT ![r] = "unlock"], [rel EXCEPT ![r] = "ended"]}
          /\ ref' = NoRun /\ UNCHANGED <<lock, tmp, dir, client, job, planned, shipped, saw>>
      BY <2>12 DEF RemoveRef, RefRemoved
    <3>2. rel'[r] = "ended" => lock \notin {LockOf(r), Unwritten(r)}
      <4>1. CASE saw[r]
        BY <2>12, <4>1 DEF RemoveRef
      <4>2. CASE ~saw[r]
        BY <3>1, <4>2
      <4> QED
        BY <4>1, <4>2
    <3>3. dir # r
      BY <3>1, LockAssumption
    <3> QED
      BY <3>1, <3>2, <3>3, LockFacts, LockAssumption
  <2>13. ASSUME NEW r \in Runs, Unlock(r) PROVE HolderState'
    BY <2>13, LockFacts DEF Unlock, OwnLockSeen
  <2>13a. ASSUME NEW r \in Runs, DieReleasing(r) PROVE HolderState'
    BY <2>13a, LockFacts DEF DieReleasing, Releasing, shared
  <2>14. ASSUME NEW r \in Runs, Start(r) \/ Continue(r) PROVE HolderState'
    BY <2>14 DEF Start, Continue, Send, shared
  <2>15. ASSUME NEW r \in Runs, Finish(r) \/ Lose(r) PROVE HolderState'
    BY <2>15 DEF Finish, Lose, SendRelease, shared
  <2>16. ASSUME NEW r \in Runs, Close(r) \/ Kill(r) \/ Die(r) \/ LoseRelease(r) PROVE HolderState'
    BY <2>16 DEF Close, Kill, Die, LoseRelease, Running, shared
  <2>17. CASE UNCHANGED vars
    BY <2>17 DEF vars
  <2> QED
    BY <2>1, <2>2, <2>3, <2>4, <2>5, <2>6, <2>7, <2>8, <2>9, <2>10, <2>11, <2>12, <2>13, <2>13a, <2>14,
       <2>15, <2>16, <2>17
    DEF Next, Agent, Inspect, Preview, Client
<1> QED
  BY <1>1, <1>2, LockTypes, SeenStays, WorkIsLocked, PTL DEF Spec

\* A run whose release is reported to have gone well leaves no lock.
DoneLeavesNoLock == \A r \in Runs : client[r] = "done" => lock = NoLock \/ lock.owner # r

\* A lock that stays is of a run that was killed or has warned the developer:
\* of any runs, whatever commands and releases die or are lost, one that ends
\* without a warning has left neither its lock nor an empty lock file.
THEOREM OnlyTheWarnedLeaveALock == ASSUME Breakers = {}, Droppers = {} PROVE Spec => []DoneLeavesNoLock
<1>1. TypeOK /\ HolderState => DoneLeavesNoLock
  <2> SUFFICES ASSUME TypeOK, HolderState, NEW r \in Runs, client[r] = "done", lock # NoLock, lock.owner = r
               PROVE  FALSE
    BY DEF DoneLeavesNoLock
  <2>1. lock \in {LockOf(r), Unwritten(r)}
    BY DEF TypeOK, Locks, LockOf, Unwritten
  <2> QED
    BY <2>1 DEF HolderState
<1> QED
  BY <1>1, LockTypes, IncomingIsLocked, PTL

\* README "The lock is always released": when every client has ended without a
\* warning, the server has neither a lock nor anybody's incoming state, for any
\* number of runs in any order, whatever commands have died.
THEOREM ReleaseIsComplete == ASSUME Breakers = {}, Droppers = {} PROVE Spec => []NothingLeft
<1>1. TypeOK /\ HolderState /\ DoneLeavesNoLock => NothingLeft
  <2> SUFFICES ASSUME TypeOK, HolderState, DoneLeavesNoLock, \A r \in Runs : client[r] = "done"
               PROVE  lock = NoLock /\ dir = NoRun /\ ref = NoRun
    BY DEF NothingLeft
  <2>1. lock = NoLock
    BY DEF DoneLeavesNoLock, TypeOK, Locks
  <2> QED
    BY <2>1, LockFacts DEF HolderState, TypeOK
<1> QED
  BY <1>1, LockTypes, IncomingIsLocked, OnlyTheWarnedLeaveALock, PTL

-----------------------------------------------------------------------------

\* None does while somebody has the lock.
Undisturbed == \A r \in Runs : Blind(r) => lock = NoLock

\* The holder's commands find what its preview has extracted and fetched.
PackageStays ==
  /\ \A r \in Runs :
       job[r] \in {"plan", "apply"} \cup Applies \/ (client[r] = "preview" /\ job[r] = "ok") =>
         dir = r /\ ref = r
  /\ \A r \in Runs : job[r] = "fetch" => dir = r
  /\ \A r \in Runs : job[r] \in {"write", "ship", "record"} => planned[r] = r
  /\ \A r \in Runs : job[r] = "record" => shipped[r] = r

LEMMA PackageKept ==
  ASSUME Breakers = {}, Droppers = {}
  PROVE  Spec /\ []Undisturbed => []PackageStays
<1>1. Init => PackageStays
  BY DEF Init, PackageStays, Applies
<1>2. TypeOK /\ OwnLockSeen /\ LockedWork /\ HolderState /\ Undisturbed /\ PackageStays /\ [Next]_vars
        => PackageStays'
  <2> SUFFICES ASSUME TypeOK, OwnLockSeen, LockedWork, HolderState, Undisturbed, PackageStays, [Next]_vars
               PROVE  PackageStays'
    OBVIOUS
  <2>0. \A r \in Runs : /\ rel[r] # "idle" => job[r] \in Ended /\ client[r] \notin Calls
                        /\ job[r] \in Critical \/ (job[r] \in {"ok", "preview", "apply"} /\ rel[r] = "idle") =>
                             lock = LockOf(r)
                        /\ client[r] = "preview" => job[r] \in {"preview", "ok", "failed"} \cup Previews
    BY DEF LockedWork, HolderState, Keepers
  <2> USE <2>0 DEF TypeOK, PackageStays, Ended, Calls, Critical, Previews, Applies, Go, Release
  <2>1. ASSUME NEW r \in Runs, Create(r) \/ Locked(r) \/ Fill(r) \/ Break(r) PROVE PackageStays'
    BY <2>1 DEF Create, Locked, Fill, Break, shared
  <2>2. ASSUME NEW r \in Runs, WriteTmp(r) \/ Replace(r) PROVE PackageStays'
    BY <2>2 DEF WriteTmp, Replace, OwnLockSeen
  <2>3. ASSUME NEW r \in Runs, Convert(r) PROVE PackageStays'
    BY <2>3 DEF Convert, shared
  <2>4. ASSUME NEW r \in Runs, CheckLock(r) PROVE PackageStays'
    BY <2>4 DEF CheckLock, Holds, shared
  <2>5. ASSUME NEW r \in Runs, Clear(r) \/ Extract(r) PROVE PackageStays'
    BY <2>5, LockFacts DEF Clear, Extract
  <2>6. ASSUME NEW r \in Runs, Fetch(r) \/ Plan(r) PROVE PackageStays'
    BY <2>6, LockFacts, LockAssumption DEF Fetch, Plan, shared
  <2>7. ASSUME NEW r \in Runs, Replan(r) \/ Write(r) \/ Ship(r) PROVE PackageStays'
    BY <2>7 DEF Replan, Write, Ship, shared
  <2>8. ASSUME NEW r \in Runs, Record(r) PROVE PackageStays'
    BY <2>8, LockFacts DEF Record
  <2>9. ASSUME NEW r \in Runs, ReadLock(r) \/ Unlock(r) \/ DieReleasing(r) PROVE PackageStays'
    BY <2>9 DEF ReadLock, Unlock, DieReleasing, shared
  <2>10. ASSUME NEW r \in Runs, RemoveDir(r) \/ RemoveRef(r) PROVE PackageStays'
    BY <2>10, LockFacts DEF RemoveDir, RemoveRef, Undisturbed, Blind, OwnLockSeen
  <2>11. ASSUME NEW r \in Runs, Start(r) \/ Continue(r) PROVE PackageStays'
    BY <2>11 DEF Start, Continue, Send, HolderState, shared
  <2>12. ASSUME NEW r \in Runs, Finish(r) \/ Lose(r) PROVE PackageStays'
    BY <2>12 DEF Finish, Lose, SendRelease, shared
  <2>13. ASSUME NEW r \in Runs, Close(r) \/ Kill(r) \/ Die(r) \/ LoseRelease(r) PROVE PackageStays'
    BY <2>13 DEF Close, Kill, Die, LoseRelease, shared
  <2>14. CASE UNCHANGED vars
    BY <2>14 DEF vars
  <2> QED
    BY <2>1, <2>2, <2>3, <2>4, <2>5, <2>6, <2>7, <2>8, <2>9, <2>10, <2>11, <2>12, <2>13, <2>14
    DEF Next, Agent, Inspect, Preview, Apply, Client
<1> QED
  BY <1>1, <1>2, LockTypes, SeenStays, WorkIsLocked, IncomingIsLocked, PTL DEF Spec

\* However many runs there are, the only thing that can come between a run
\* that holds the lock and its package is a release that found no lock: as long
\* as none is under way while another run has taken it, what a holder applies
\* and ships is its own, though clients are killed and commands die.
THEOREM OnlyBlindReleasesHarm ==
  ASSUME Breakers = {}, Droppers = {}
  PROVE  Spec /\ []Undisturbed => []IncomingIsHolders
<1>1. PackageStays => IncomingIsHolders
  BY DEF PackageStays, IncomingIsHolders, Applies
<1> QED
  BY <1>1, PackageKept, PTL

Passed(r) == client[r] # "new" /\ job[r] # "create"

\* Of two runs, a release of one that finds no lock comes after the other has
\* had it.
OthersPassed ==
  \A r \in Runs :
    (job[r] = "failed" /\ rel[r] = "idle") \/ rel[r] = "read" \/ Blind(r) =>
      lock = LockOf(r) \/ \A s \in Runs \ {r} : Passed(s)

LEMMA PairUndisturbed ==
  ASSUME Breakers = {}, Droppers = {}, Mortal = {},
         \A q, r, s \in Runs : q = r \/ r = s \/ q = s
  PROVE  Spec => [](OthersPassed /\ Undisturbed)
<1>1. Init => OthersPassed /\ Undisturbed
  BY DEF Init, OthersPassed, Undisturbed, Blind
<1>2. TypeOK /\ OwnLockSeen /\ LockedWork /\ HolderState /\ OthersPassed /\ Undisturbed /\ [Next]_vars
        => OthersPassed' /\ Undisturbed'
  <2> SUFFICES ASSUME TypeOK, OwnLockSeen, LockedWork, HolderState, OthersPassed, Undisturbed, [Next]_vars
               PROVE  OthersPassed' /\ Undisturbed'
    OBVIOUS
  <2>0. \A r \in Runs : /\ rel[r] # "idle" => job[r] \in Ended /\ client[r] \notin Calls \cup {"new"}
                        /\ job[r] \in Critical \/ (job[r] \in {"ok", "preview", "apply"} /\ rel[r] = "idle") =>
                             lock = LockOf(r)
                        /\ job[r] = "fill" => lock = Unwritten(r)
                        /\ Blind(r) => lock # LockOf(r)
    BY DEF LockedWork, HolderState, Keepers
  <2> USE <2>0 DEF TypeOK, OthersPassed, Undisturbed, Passed, Blind, Ended, Calls, Critical, Previews, Applies,
                   Go, Release
  <2>1. ASSUME NEW r \in Runs, Create(r) PROVE OthersPassed' /\ Undisturbed'
    BY <2>1, LockFacts DEF Create, Free
  <2>2. ASSUME NEW r \in Runs, Fill(r) PROVE OthersPassed' /\ Undisturbed'
    BY <2>2, LockFacts DEF Fill
  <2>3. ASSUME NEW r \in Runs, Locked(r) PROVE OthersPassed' /\ Undisturbed'
    <3>1. PICK q \in Runs : lock \in {LockOf(q), Unwritten(q)}
      <4>1. PICK q \in Runs, w \in BOOLEAN : lock = [owner |-> q, written |-> w]
        BY <2>3 DEF Locked, Free, Locks
      <4> QED
        BY <4>1 DEF LockOf, Unwritten
    <3>2. q # r /\ Passed(q)
      BY <2>3, <3>1 DEF Locked, HolderState
    <3>3. \A s \in Runs \ {r} : s = q
      BY <3>2
    <3> QED
      BY <2>3, <3>2, <3>3 DEF Locked, shared
  <2>4. ASSUME NEW r \in Runs, Break(r) \/ Convert(r) PROVE OthersPassed' /\ Undisturbed'
    BY <2>4 DEF Break, Convert, shared
  <2>5. ASSUME NEW r \in Runs, WriteTmp(r) \/ Replace(r) PROVE OthersPassed' /\ Undisturbed'
    BY <2>5 DEF WriteTmp, Replace, OwnLockSeen
  <2>6. ASSUME NEW r \in Runs, CheckLock(r) PROVE OthersPassed' /\ Undisturbed'
    BY <2>6 DEF CheckLock, Holds, shared
  <2>7. ASSUME NEW r \in Runs, Preview(r) PROVE OthersPassed' /\ Undisturbed'
    BY <2>7 DEF Preview, Clear, Extract, Fetch, Plan, shared
  <2>8. ASSUME NEW r \in Runs, Apply(r) PROVE OthersPassed' /\ Undisturbed'
    BY <2>8 DEF Apply, Replan, Write, Ship, Record, shared
  <2>9. ASSUME NEW r \in Runs, ReadLock(r) PROVE OthersPassed' /\ Undisturbed'
    <3>1. /\ rel[r] = "read" /\ UNCHANGED <<lock, client, job>>
          /\ rel'[r] # "read"
          /\ \A s \in Runs \ {r} : rel'[s] = rel[s] /\ saw'[s] = saw[s]
      BY <2>9 DEF ReadLock, shared
    <3>2. saw'[r] <=> lock # NoLock
      BY <2>9, Zenon DEF ReadLock
    <3> QED
      BY <3>1, <3>2, LockFacts
  <2>10. ASSUME NEW r \in Runs, RemoveDir(r) \/ RemoveRef(r) \/ DieReleasing(r) PROVE OthersPassed' /\ Undisturbed'
    BY <2>10 DEF RemoveDir, RemoveRef, DieReleasing, Releasing, shared
  <2>11. ASSUME NEW r \in Runs, Unlock(r) PROVE OthersPassed' /\ Undisturbed'
    BY <2>11, LockFacts DEF Unlock, OwnLockSeen
  <2>12. ASSUME NEW r \in Runs, Start(r) \/ Continue(r) PROVE OthersPassed' /\ Undisturbed'
    BY <2>12 DEF Start, Continue, Send, shared
  <2>13. ASSUME NEW r \in Runs, Finish(r) \/ Lose(r) PROVE OthersPassed' /\ Undisturbed'
    BY <2>13 DEF Finish, Lose, SendRelease, shared
  <2>14. ASSUME NEW r \in Runs, Close(r) \/ Kill(r) \/ Die(r) \/ LoseRelease(r) PROVE OthersPassed' /\ Undisturbed'
    BY <2>14 DEF Close, Kill, Die, LoseRelease, shared
  <2>15. CASE UNCHANGED vars
    BY <2>15 DEF vars
  <2> QED
    BY <2>1, <2>2, <2>3, <2>4, <2>5, <2>6, <2>7, <2>8, <2>9, <2>10, <2>11, <2>12, <2>13, <2>14, <2>15
    DEF Next, Agent, Inspect, Client
<1> QED
  BY <1>1, <1>2, LockTypes, SeenStays, WorkIsLocked, IncomingIsLocked, PTL DEF Spec

\* remote_agent.py: a refused deploy "must leave it alone": of two runs,
\* neither touches the package of the other while it holds the lock.
THEOREM PairKeepsIncoming ==
  ASSUME Breakers = {}, Droppers = {}, Mortal = {},
         \A q, r, s \in Runs : q = r \/ r = s \/ q = s
  PROVE  Spec => []IncomingIsHolders
<1> QED
  BY PairUndisturbed, OnlyBlindReleasesHarm, PTL

=============================================================================
