----------------------------- MODULE CloneProofs -----------------------------
(***************************************************************************)
(* benchops clone.  CloneLock, for any number of runs: the lock file is    *)
(* exclusive, but for a run whose file was removed by another that went by *)
(* what it had read before; it takes three runs for that.  No file is left *)
(* but by a run that was killed or could not write it.                     *)
(* CloneRun, the work the lock covers, for any finite number of            *)
(* repositories, threads, slots, retries and presses of Ctrl+C.            *)
(***************************************************************************)
EXTENDS CloneLock, CloneRun, FiniteSetTheorems, TLAPS

-----------------------------------------------------------------------------
(* CloneLock                                                               *)

Holding == {"created", "cloning", "leaving"}

\* A run in the part of its life that the lock covers owns the file or was
\* robbed of it, and a run about to take one over has read of a run that is over.
LockInv ==
  /\ \A r \in Runs : pc[r] \in Holding => owner = r \/ r \in robbed
  /\ \A r \in Runs : pc[r] = "stale" => r \in Probing /\ seen[r] \in Runs /\ pc[seen[r]] \in Over

\* A run that has not got the lock has not created the file that is there, nor
\* the one it has read; as long as there are two runs, nobody is robbed.
PairInv ==
  /\ robbed = {}
  /\ \A r \in Runs : pc[r] \in {"try", "found", "read", "stale"} => owner # r /\ seen[r] # r

\* Types hold whatever runs are killed and whoever takes over.
THEOREM CloneLockTypes == LockSpec => []LockTypeOK
<1>1. LockInit => LockTypeOK
  <2>1. LockInit => written \in BOOLEAN
    BY DEF LockInit
  <2>2. LockInit => /\ owner \in Runs \cup {NoRun}
                /\ pc \in [Runs -> {"try", "found", "read", "stale", "created", "cloning", "leaving"} \cup Over]
                /\ seen \in [Runs -> Runs \cup {NoRun}] /\ robbed \subseteq Runs
                /\ left \in [Runs -> 0 .. 2]
                /\ \A r \in Runs : left[r] > 0
    BY DEF LockInit
  <2> QED
    BY <2>1, <2>2 DEF LockTypeOK
<1>2. LockTypeOK /\ [LockNext]_lockVars => LockTypeOK'
  <2> SUFFICES ASSUME LockTypeOK, [LockNext]_lockVars PROVE LockTypeOK'
    OBVIOUS
  <2>1. CASE UNCHANGED lockVars
    BY <2>1 DEF lockVars, LockTypeOK
  <2>2. ASSUME NEW r \in Runs, Create(r) \/ Exists(r) \/ Probe(r)
        PROVE  LockTypeOK'
    BY <2>2 DEF LockTypeOK, Create, Exists, Probe, Goto, Over
  <2>3. ASSUME NEW r \in Runs, TakeOver(r)
        PROVE  LockTypeOK'
    <3>1. /\ left[r] \in 1 .. 2 /\ owner' = NoRun
          /\ left' = [left EXCEPT ![r] = @ - 1]
          /\ pc' = [pc EXCEPT ![r] = IF left[r] > 1 THEN "try" ELSE "refused"]
      BY <2>3 DEF LockTypeOK, TakeOver, Remove, Goto
    <3>2. left' \in [Runs -> 0 .. 2] /\ (left[r] > 1 => left'[r] > 0)
      BY <3>1 DEF LockTypeOK
    <3>3. /\ pc' \in [Runs -> {"try", "found", "read", "stale", "created", "cloning", "leaving"} \cup Over]
          /\ \A s \in Runs : pc'[s] \in {"try", "found", "read", "stale"} => left'[s] > 0
      BY <3>1, <3>2 DEF LockTypeOK, Over
    <3>4. /\ written' \in BOOLEAN /\ robbed' \subseteq Runs
          /\ seen' \in [Runs -> Runs \cup {NoRun}]
      BY <2>3 DEF LockTypeOK, TakeOver, Remove
    <3> QED
      BY <3>1, <3>2, <3>3, <3>4 DEF LockTypeOK
  <2>4. ASSUME NEW r \in Runs, Write(r)
        PROVE  LockTypeOK'
    <3>1. written' \in BOOLEAN
      BY <2>4 DEF Write
    <3>2. /\ owner' = owner /\ left' = left /\ seen' = seen /\ robbed' = robbed
          /\ pc[r] = "created" /\ pc' = [pc EXCEPT ![r] = "cloning"]
      BY <2>4 DEF Write, Goto
    <3> QED
      BY <3>1, <3>2 DEF LockTypeOK, Over
  <2>5. ASSUME NEW r \in Runs, WriteFails(r) \/ Leave(r) \/ Unlink(r) \/ KillRun(r)
        PROVE  LockTypeOK'
    BY <2>5 DEF LockTypeOK, WriteFails, Leave, Unlink, Remove, KillRun, Goto, Over
  <2>6. ASSUME NEW r \in Runs, Read(r)
        PROVE  LockTypeOK'
    <3>1. seen' \in [Runs -> Runs \cup {NoRun}]
      BY <2>6 DEF LockTypeOK, Read
    <3>2. /\ owner' = owner /\ written' = written /\ left' = left /\ robbed' = robbed
          /\ pc[r] = "found" /\ pc' = [pc EXCEPT ![r] = "read"]
      BY <2>6 DEF Read, Goto
    <3> QED
      BY <3>1, <3>2 DEF LockTypeOK, Over
  <2> QED
    BY <2>1, <2>2, <2>3, <2>4, <2>5, <2>6 DEF LockNext
<1> QED
  BY <1>1, <1>2, PTL DEF LockSpec

\* A run that clones has the lock file unless it was robbed of it, for any number
\* of runs, of kills and of takers: the steps of LockInv.
LEMMA LockInvStep == LockTypeOK /\ LockInv /\ [LockNext]_lockVars => LockInv'
<1> SUFFICES ASSUME LockTypeOK, LockInv, [LockNext]_lockVars PROVE LockInv'
  OBVIOUS
<1> USE DEF LockTypeOK, LockInv, Holding, Goto, Over
<1>1. CASE UNCHANGED lockVars
  BY <1>1 DEF lockVars
<1>2. ASSUME NEW r \in Runs, Create(r) PROVE LockInv'
  BY <1>2, RunsAssumption DEF Create
<1>3. ASSUME NEW r \in Runs, Exists(r) PROVE LockInv'
  BY <1>3 DEF Exists
<1>4. ASSUME NEW r \in Runs, Read(r) PROVE LockInv'
  BY <1>4 DEF Read
<1>5. ASSUME NEW r \in Runs, Probe(r) PROVE LockInv'
  BY <1>5 DEF Probe, Stale
<1>6. ASSUME NEW r \in Runs, TakeOver(r) PROVE LockInv'
  <2>1. seen[r] \in Runs /\ pc[seen[r]] \notin Holding
    BY <1>6 DEF TakeOver
  <2>2. \A s \in Runs : pc[s] \in Holding => s \in robbed'
    BY <1>6, <2>1, RunsAssumption DEF TakeOver, Remove
  <2> QED
    BY <1>6, <2>2 DEF TakeOver
<1>7. ASSUME NEW r \in Runs, Write(r) \/ WriteFails(r) PROVE LockInv'
  BY <1>7 DEF Write, WriteFails
<1>8. ASSUME NEW r \in Runs, Leave(r) PROVE LockInv'
  BY <1>8 DEF Leave, Owns
<1>9. ASSUME NEW r \in Runs, Unlink(r) PROVE LockInv'
  BY <1>9, RunsAssumption DEF Unlink, Remove
<1>10. ASSUME NEW r \in Runs, KillRun(r) PROVE LockInv'
  BY <1>10 DEF KillRun
<1> QED
  BY <1>1, <1>2, <1>3, <1>4, <1>5, <1>6, <1>7, <1>8, <1>9, <1>10 DEF LockNext

\* Two runs clone into one directory at once only if one was robbed of its lock
\* file, for any number of runs, whatever is killed and whoever takes over.
THEOREM CloneLockExcludes == LockSpec => []OneWriter
<1>1. LockInit => LockInv
  BY DEF LockInit, LockInv, Holding
<1>2. LockInv => OneWriter
  BY DEF LockInv, OneWriter, Holding
<1> QED
  BY <1>1, <1>2, LockInvStep, CloneLockTypes, PTL DEF LockSpec

\* Nobody is robbed, so that no two runs ever clone into one directory at once,
\* as long as there are two of them, or none can tell that a process is dead.
THEOREM TwoClonesExclude ==
  ASSUME Probing = {} \/ \A r, s, t \in Runs : r = s \/ s = t \/ r = t
  PROVE  LockSpec => [](\A r, s \in Runs : pc[r] = "cloning" /\ pc[s] = "cloning" => r = s)
<1>1. LockInit => LockInv /\ PairInv
  BY RunsAssumption DEF LockInit, LockInv, PairInv, Holding
<1>2. LockTypeOK /\ LockInv /\ PairInv /\ [LockNext]_lockVars => PairInv'
  <2> SUFFICES ASSUME LockTypeOK, LockInv, PairInv, [LockNext]_lockVars PROVE PairInv'
    OBVIOUS
  <2> USE DEF LockTypeOK, LockInv, PairInv, Holding, Goto, Over
  <2>1. CASE UNCHANGED lockVars
    BY <2>1 DEF lockVars
  <2>2. ASSUME NEW r \in Runs, Create(r) \/ Exists(r) \/ Probe(r) PROVE PairInv'
    BY <2>2 DEF Create, Exists, Probe
  <2>3. ASSUME NEW r \in Runs, Read(r) PROVE PairInv'
    BY <2>3, RunsAssumption DEF Read
  <2>4. ASSUME NEW r \in Runs, TakeOver(r) PROVE PairInv'
    <3>1. r \in Probing /\ seen[r] \in Runs \ {r} /\ owner # r
      BY <2>4 DEF TakeOver
    <3>2. owner \in {seen[r], NoRun}
      BY <3>1
    <3> QED
      BY <2>4, <3>2, RunsAssumption DEF TakeOver, Remove
  <2>5. ASSUME NEW r \in Runs, Write(r) \/ WriteFails(r) \/ Leave(r) \/ KillRun(r) PROVE PairInv'
    BY <2>5 DEF Write, WriteFails, Leave, KillRun
  <2>6. ASSUME NEW r \in Runs, Unlink(r) PROVE PairInv'
    BY <2>6, RunsAssumption DEF Unlink, Remove
  <2> QED
    BY <2>1, <2>2, <2>3, <2>4, <2>5, <2>6 DEF LockNext
<1>3. LockInv /\ PairInv => \A r, s \in Runs : pc[r] = "cloning" /\ pc[s] = "cloning" => r = s
  BY DEF LockInv, PairInv, Holding
<1> QED
  BY <1>1, <1>2, <1>3, LockInvStep, CloneLockTypes, PTL DEF LockSpec

-----------------------------------------------------------------------------

\* Whose lock file is there has it under way: it is writing it, has written it
\* and clones, is dead, or could not write it.
FileInv ==
  owner # NoRun =>
    \/ pc[owner] \in {"created", "dead"}
    \/ pc[owner] \in {"cloning", "leaving"} /\ written
    \/ pc[owner] = "refused" /\ owner \in Full

\* When all is over, a lock file that is still there is of a run that was
\* killed or could not write it: for any number of runs, also when several
\* take over the file of a dead one and remove each other's.
THEOREM CloneLockGoes == LockSpec => []NothingLeft
<1>1. LockInit => FileInv
  BY DEF LockInit, FileInv
<1>2. LockTypeOK /\ FileInv /\ [LockNext]_lockVars => FileInv'
  <2> SUFFICES ASSUME LockTypeOK, FileInv, [LockNext]_lockVars PROVE FileInv'
    OBVIOUS
  <2> USE DEF LockTypeOK, FileInv, Goto, Over
  <2>1. CASE UNCHANGED lockVars
    BY <2>1 DEF lockVars
  <2>2. ASSUME NEW r \in Runs, Create(r) \/ TakeOver(r) \/ Unlink(r) PROVE FileInv'
    BY <2>2 DEF Create, TakeOver, Unlink, Remove
  <2>3. ASSUME NEW r \in Runs, Exists(r) \/ Read(r) \/ Probe(r) PROVE FileInv'
    BY <2>3 DEF Exists, Read, Probe
  <2>4. ASSUME NEW r \in Runs, Write(r) \/ WriteFails(r) PROVE FileInv'
    BY <2>4 DEF Write, WriteFails
  <2>5. ASSUME NEW r \in Runs, Leave(r) PROVE FileInv'
    BY <2>5 DEF Leave, Owns
  <2>6. ASSUME NEW r \in Runs, KillRun(r) PROVE FileInv'
    BY <2>6 DEF KillRun
  <2> QED
    BY <2>1, <2>2, <2>3, <2>4, <2>5, <2>6 DEF LockNext
<1>3. LockTypeOK /\ FileInv => NothingLeft
  BY DEF LockTypeOK, FileInv, NothingLeft, Over
<1> QED
  BY <1>1, <1>2, <1>3, CloneLockTypes, PTL DEF LockSpec

-----------------------------------------------------------------------------
(* CloneRun: what each worker leaves and reports                           *)

\* What may be left to run of an attempt: the head is the command at work.
SetCmds      == <<"set">>
UpdateQueues == {UpdateCmds, <<"status", "upstream", "before", "merge", "after">>,
                 <<"upstream", "before", "merge", "after">>, <<"before", "merge", "after">>,
                 <<"merge", "after">>, <<"after">>}
Queues == {CloneCmds, HelperCmds, SetCmds} \cup UpdateQueues

InGit   == {"git", "started", "waiting"}
AtGit   == {"started", "waiting"}
Placing == {"place", "rmdir", "rename"}
Gits    == {"none", "running", "ok", "denied", "transient"}

\* The variables as functions of the repositories.
Types ==
  /\ folder \in [Repos -> {"missing", "empty", "foreign", "part", "whole"}]
  /\ helper \in [Repos -> {"none", "reset", "set"}]
  /\ tmp \in [Repos -> {"none", "part", "whole"}]
  /\ record \in (SUBSET Repos) \cup {NoRecord}
  /\ main \in {"idle", "planned", "submitting", "collecting", "interrupted", "terminating",
               "draining", "unwinding", "closing", "leaving", "unsaved"}
  /\ presses \in 0 .. MaxPresses /\ cancel \in BOOLEAN
  /\ action \in [Repos -> Planned \cup {"none", "skip", "no_access", "conflict", "error"}]
  /\ outcome \in [Repos -> Outcomes]
  /\ step \in [Repos -> Steps] /\ cmd \in [Repos -> Queues \cup {<<>>}]
  /\ tries \in [Repos -> Nat]
  /\ git \in [Repos -> Gits]

\* A worker has commands left to run just while it is at git, and a git process
\* between its start and the look at its exit code.
GitInv(r) ==
  /\ step[r] \in InGit <=> cmd[r] # <<>>
  /\ step[r] \in AtGit <=> git[r] # "none"

\* A temporary folder is there while git clones into it and until it is placed:
\* the whole of it once git has ended well.
TmpInv(r) ==
  /\ step[r] \in Placing => tmp[r] = "whole"
  /\ step[r] \in AtGit /\ cmd[r] = CloneCmds => tmp[r] = IF git[r] = "ok" THEN "whole" ELSE "part"
  /\ tmp[r] # "none" => step[r] \in Placing \/ (step[r] \in AtGit /\ cmd[r] = CloneCmds)

\* "cloned" is the result of a finished item whose folder is whole and has its
\* helper, which is set up in the folder once it is there.
ResultInv(r) ==
  /\ folder[r] # "part"
  /\ outcome[r] = "cloned" =>
       step[r] = "finished" /\ folder[r] = "whole" /\ (r \in Helped => helper[r] = "set")
  /\ step[r] \in InGit /\ cmd[r] \in {HelperCmds, SetCmds} => folder[r] = "whole"
  /\ step[r] \in AtGit /\ cmd[r] = SetCmds /\ git[r] = "ok" => helper[r] = "set"

\* Only an attempt that failed is made again, and only Retries times.
TriesInv(r) ==
  /\ step[r] \in Ended \cup {"planned", "queued", "slot"} => tries[r] = 0
  /\ step[r] = "attempt" => tries[r] <= Retries
  /\ tries[r] <= Retries + 1

RepoInv(r) == GitInv(r) /\ TmpInv(r) /\ ResultInv(r) /\ TriesInv(r)

WorkInv == Types /\ \A r \in Repos : RepoInv(r)

-----------------------------------------------------------------------------
(* The queues of commands                                                  *)

LEMMA QueueHeads ==
  /\ Head(CloneCmds) = "clone" /\ Tail(CloneCmds) = <<>>
  /\ Head(HelperCmds) = "reset" /\ Tail(HelperCmds) = SetCmds
  /\ Head(SetCmds) = "set"
  /\ Head(UpdateCmds) = "fetch"
  /\ \A q \in UpdateQueues : Head(q) \in {"fetch", "status", "upstream", "before", "merge", "after"}
  /\ \A q \in UpdateQueues : Head(q) # "after" => Tail(q) \in UpdateQueues
  /\ <<>> \notin Queues
<1>1. /\ Head(CloneCmds) = "clone" /\ Tail(CloneCmds) = <<>>
      /\ Head(HelperCmds) = "reset" /\ Tail(HelperCmds) = SetCmds
      /\ Head(SetCmds) = "set"
      /\ Head(UpdateCmds) = "fetch"
  BY DEF CloneCmds, HelperCmds, SetCmds, UpdateCmds
<1>2. \A q \in UpdateQueues : Head(q) \in {"fetch", "status", "upstream", "before", "merge", "after"}
  BY DEF UpdateQueues, UpdateCmds
<1>3. \A q \in UpdateQueues : Head(q) # "after" => Tail(q) \in UpdateQueues
  <2>1. Tail(UpdateCmds) = <<"status", "upstream", "before", "merge", "after">>
    BY DEF UpdateCmds
  <2>2. Tail(<<"status", "upstream", "before", "merge", "after">>) = <<"upstream", "before", "merge", "after">>
    OBVIOUS
  <2>3. Tail(<<"upstream", "before", "merge", "after">>) = <<"before", "merge", "after">>
    OBVIOUS
  <2>4. Tail(<<"before", "merge", "after">>) = <<"merge", "after">>
    OBVIOUS
  <2>5. Tail(<<"merge", "after">>) = <<"after">>
    OBVIOUS
  <2>6. Head(<<"after">>) = "after"
    OBVIOUS
  <2> HIDE DEF UpdateCmds
  <2> QED
    BY <2>1, <2>2, <2>3, <2>4, <2>5, <2>6, Zenon DEF UpdateQueues
<1>4. <<>> \notin Queues
  BY DEF Queues, CloneCmds, HelperCmds, SetCmds, UpdateQueues, UpdateCmds
<1> QED
  BY <1>1, <1>2, <1>3, <1>4
\* The queues are told apart by their heads.
LEMMA QueueKinds ==
  /\ CloneCmds \notin {HelperCmds, SetCmds} \cup UpdateQueues
  /\ HelperCmds \notin {SetCmds} \cup UpdateQueues
  /\ SetCmds \notin UpdateQueues
  /\ \A q \in Queues : q # <<>>
BY QueueHeads

\* What a command that ended well is followed by.
LEMMA AfterSuccess ==
  ASSUME NEW r \in Repos, cmd[r] \in Queues, Succeeded(r)
  PROVE  \/ cmd[r] = CloneCmds /\ Tail(cmd[r]) = <<>> /\ GoesOn(r, "place") /\ UNCHANGED outcome
         \/ cmd[r] = HelperCmds /\ Tail(cmd[r]) = SetCmds /\ GoesOn(r, "git") /\ UNCHANGED outcome
         \/ cmd[r] = SetCmds /\ Finish(r, "waiting", "cloned")
         \/ cmd[r] \in UpdateQueues /\ Finish(r, "waiting", outcome[r])
         \/ cmd[r] \in UpdateQueues /\ Tail(cmd[r]) \in UpdateQueues /\ GoesOn(r, "git")
<1>1. CASE cmd[r] = CloneCmds
  BY <1>1, QueueHeads DEF Succeeded, GoesOn
<1>2. CASE cmd[r] = HelperCmds
  BY <1>2, QueueHeads DEF Succeeded, GoesOn
<1>3. CASE cmd[r] = SetCmds
  BY <1>3, QueueHeads DEF Succeeded
<1>4. CASE cmd[r] \in UpdateQueues
  <2>1. Head(cmd[r]) \in {"fetch", "status", "upstream", "before", "merge", "after"}
    BY <1>4, QueueHeads
  <2>2. \/ Head(cmd[r]) # "after" /\ GoesOn(r, "git")
        \/ Finish(r, "waiting", outcome[r])
    BY <2>1 DEF Succeeded
  <2> QED
    BY <1>4, <2>2, QueueHeads
<1> QED
  BY <1>1, <1>2, <1>3, <1>4 DEF Queues

\* A command that failed ends an update, or leaves the attempt.
LEMMA AfterFailure ==
  ASSUME NEW r \in Repos, cmd[r] \in Queues, NEW from, NEW how, Failed(r, from, how)
  PROVE  /\ UNCHANGED <<folder, helper>>
         /\ \/ cmd[r] \in UpdateQueues /\ Finish(r, from, outcome[r]) /\ UNCHANGED tmp
            \/ /\ WorkerGoes(r, from, how) /\ UNCHANGED <<outcome, tries>>
               /\ cmd' = [cmd EXCEPT ![r] = <<>>] /\ tmp' = [tmp EXCEPT ![r] = "none"]
<1>1. Head(cmd[r]) \in Lenient => cmd[r] \in UpdateQueues
  BY QueueHeads DEF Queues, Lenient
<1> QED
  BY <1>1 DEF Failed

\* A signal ends some of the git processes that run.
LEMMA SignalsEndGit ==
  ASSUME NEW hit, CutShort(hit)
  PROVE  /\ git' \in [Repos -> Gits]
         /\ \A r \in Repos : git'[r] = git[r] \/ (git[r] = "running" /\ git'[r] \in {"denied", "transient"})
BY DEF CutShort, Failing, Gits

-----------------------------------------------------------------------------
(* The work of one repository                                              *)

\* A step changes no worker but r's, and nothing of the main thread.
Thread(r) ==
  /\ UNCHANGED <<record, main, presses, cancel, action>>
  /\ outcome' \in [Repos -> Outcomes] /\ step' \in [Repos -> Steps]
  /\ cmd' \in [Repos -> Queues \cup {<<>>}] /\ tries' \in [Repos -> Nat]
  /\ \A s \in Repos \ {r} :
       outcome'[s] = outcome[s] /\ step'[s] = step[s] /\ cmd'[s] = cmd[s] /\ tries'[s] = tries[s]

\* Nor any folder or git process but r's.
Disk(r) ==
  /\ folder' \in [Repos -> {"missing", "empty", "foreign", "part", "whole"}]
  /\ helper' \in [Repos -> {"none", "reset", "set"}]
  /\ tmp' \in [Repos -> {"none", "part", "whole"}]
  /\ git' \in [Repos -> Gits]
  /\ \A s \in Repos \ {r} :
       folder'[s] = folder[s] /\ helper'[s] = helper[s] /\ tmp'[s] = tmp[s] /\ git'[s] = git[s]

LEMMA RestKept ==
  ASSUME WorkInv, NEW r \in Repos, Thread(r), Disk(r), RepoInv(r)'
  PROVE  WorkInv'
<1>1. ASSUME NEW s \in Repos \ {r} PROVE RepoInv(s)'
  <2>1. RepoInv(s)
    BY DEF WorkInv
  <2>2. /\ folder'[s] = folder[s] /\ helper'[s] = helper[s] /\ tmp'[s] = tmp[s] /\ git'[s] = git[s]
        /\ outcome'[s] = outcome[s] /\ step'[s] = step[s] /\ cmd'[s] = cmd[s] /\ tries'[s] = tries[s]
    BY DEF Thread, Disk
  <2> QED
    BY <2>1, <2>2 DEF RepoInv, GitInv, TmpInv, ResultInv, TriesInv
<1>2. Types'
  BY DEF WorkInv, Types, Thread, Disk
<1> QED
  BY <1>1, <1>2 DEF WorkInv

LEMMA DiskKept ==
  ASSUME Types, UNCHANGED <<folder, helper, tmp, git>>, NEW r \in Repos
  PROVE  Disk(r)
BY DEF Types, Disk

\* A worker goes from one step to the next.
LEMMA Goes ==
  ASSUME Types, NEW r \in Repos, NEW from, NEW to \in Steps, WorkerGoes(r, from, to),
         outcome' \in [Repos -> Outcomes], cmd' \in [Repos -> Queues \cup {<<>>}], tries' \in [Repos -> Nat],
         \A s \in Repos \ {r} : outcome'[s] = outcome[s] /\ cmd'[s] = cmd[s] /\ tries'[s] = tries[s]
  PROVE  Thread(r) /\ step[r] = from /\ step'[r] = to
BY DEF WorkerGoes, Thread, Types

LEMMA JustGoes ==
  ASSUME Types, NEW r \in Repos, NEW from, NEW to \in Steps, WorkerGoes(r, from, to),
         UNCHANGED <<outcome, cmd, tries>>
  PROVE  Thread(r) /\ step[r] = from /\ step'[r] = to
BY Goes DEF Types

\* A worker is through with its item: nothing of it is left, in memory or in
\* its temporary folder.
LEMMA FinishKeeps ==
  ASSUME WorkInv, NEW r \in Repos, NEW from, NEW what \in Outcomes, Finish(r, from, what),
         Disk(r), git'[r] = "none", tmp'[r] = "none", folder'[r] # "part",
         what = "cloned" => folder'[r] = "whole" /\ (r \in Helped => helper'[r] = "set")
  PROVE  Thread(r) /\ WorkInv'
<1>1. /\ outcome' = [outcome EXCEPT ![r] = what] /\ cmd' = [cmd EXCEPT ![r] = <<>>]
      /\ tries' = [tries EXCEPT ![r] = 0] /\ WorkerGoes(r, from, "finished")
  BY DEF Finish
<1>2. /\ outcome' \in [Repos -> Outcomes] /\ cmd' \in [Repos -> Queues \cup {<<>>}] /\ tries' \in [Repos -> Nat]
      /\ \A s \in Repos \ {r} : outcome'[s] = outcome[s] /\ cmd'[s] = cmd[s] /\ tries'[s] = tries[s]
      /\ outcome'[r] = what /\ cmd'[r] = <<>> /\ tries'[r] = 0
  BY <1>1 DEF WorkInv, Types
<1>3. Thread(r) /\ step'[r] = "finished"
  <2>1. Types /\ "finished" \in Steps
    BY DEF WorkInv, Steps, Ended
  <2> QED
    BY <1>1, <1>2, <2>1, Goes
<1>4. RepoInv(r)'
  BY <1>2, <1>3, BoundsAssumption
  DEF RepoInv, GitInv, TmpInv, ResultInv, TriesInv, InGit, AtGit, Placing, Ended
<1> QED
  BY <1>3, <1>4, RestKept

LEMMA AttemptsKeep ==
  ASSUME WorkInv, NEW r \in Repos, Take(r) \/ Acquire(r) \/ Attempt(r)
  PROVE  Thread(r) /\ WorkInv'
<1> USE DEF InGit, AtGit, Placing, Ended, Steps
<1>0. Types /\ RepoInv(r) /\ Retries \in Nat
  BY BoundsAssumption DEF WorkInv
<1>1. Disk(r) /\ UNCHANGED <<folder, helper, tmp, git>>
  BY <1>0, DiskKept DEF Take, Acquire, Attempt, disk
<1>2. CASE Take(r)
  <2>1. Thread(r) /\ step[r] = "queued" /\ step'[r] = "slot" /\ UNCHANGED <<outcome, cmd, tries>>
    BY <1>0, <1>2, JustGoes DEF Take
  <2>2. RepoInv(r)'
    BY <1>0, <1>1, <2>1 DEF RepoInv, GitInv, TmpInv, ResultInv, TriesInv
  <2> QED
    BY <1>1, <2>1, <2>2, RestKept
<1>3. CASE Acquire(r)
  <2>1. Thread(r) /\ step[r] = "slot" /\ step'[r] = "attempt" /\ UNCHANGED <<outcome, cmd, tries>>
    BY <1>0, <1>3, JustGoes DEF Acquire
  <2>2. RepoInv(r)'
    BY <1>0, <1>1, <2>1 DEF RepoInv, GitInv, TmpInv, ResultInv, TriesInv
  <2> QED
    BY <1>1, <2>1, <2>2, RestKept
<1>4. CASE Attempt(r) /\ cancel
  <2>1. Finish(r, "attempt", "cancelled") /\ step[r] = "attempt"
    BY <1>4 DEF Attempt, Finish, WorkerGoes
  <2>2. git[r] = "none" /\ tmp[r] = "none" /\ folder[r] # "part"
    BY <1>0, <2>1 DEF RepoInv, GitInv, TmpInv, ResultInv
  <2> QED
    BY <1>1, <2>1, <2>2, FinishKeeps DEF Outcomes, Failures
<1>5. CASE Attempt(r) /\ ~cancel
  <2>1. PICK q \in {CloneCmds, UpdateCmds} : cmd' = [cmd EXCEPT ![r] = q]
    BY <1>5 DEF Attempt
  <2>2. /\ q \in Queues /\ q \notin {<<>>, HelperCmds, SetCmds}
        /\ WorkerGoes(r, "attempt", "git") /\ UNCHANGED outcome
        /\ tries' = [tries EXCEPT ![r] = @ + 1]
    BY <1>5, QueueKinds DEF Attempt, Queues, UpdateQueues
  <2>3. /\ outcome' \in [Repos -> Outcomes] /\ cmd' \in [Repos -> Queues \cup {<<>>}] /\ tries' \in [Repos -> Nat]
        /\ \A s \in Repos \ {r} : outcome'[s] = outcome[s] /\ cmd'[s] = cmd[s] /\ tries'[s] = tries[s]
        /\ cmd'[r] = q /\ tries'[r] = tries[r] + 1 /\ tries[r] \in Nat /\ outcome'[r] = outcome[r]
    BY <1>0, <2>1, <2>2 DEF Types
  <2>4. Thread(r) /\ step[r] = "attempt" /\ step'[r] = "git"
    BY <1>0, <2>2, <2>3, Goes
  <2>5. RepoInv(r)'
    BY <1>0, <1>1, <2>2, <2>3, <2>4 DEF RepoInv, GitInv, TmpInv, ResultInv, TriesInv
  <2> QED
    BY <1>1, <2>4, <2>5, RestKept
<1> QED
  BY <1>2, <1>3, <1>4, <1>5

LEMMA FailuresKeep ==
  ASSUME WorkInv, NEW r \in Repos, NEW from \in InGit, NEW how \in {"denied", "transient"},
         step[r] = from, Failed(r, from, how),
         git' \in [Repos -> Gits], git'[r] = "none", \A s \in Repos \ {r} : git'[s] = git[s]
  PROVE  Thread(r) /\ WorkInv'
<1>0. Types /\ RepoInv(r) /\ Retries \in Nat
  BY BoundsAssumption DEF WorkInv
<1>1. cmd[r] \in Queues /\ outcome[r] \in Outcomes
  BY <1>0 DEF Types, RepoInv, GitInv
<1>2. folder[r] # "part" /\ outcome[r] # "cloned" /\ tries[r] <= Retries + 1
  BY <1>0 DEF RepoInv, ResultInv, TriesInv, InGit
<1>3. CASE cmd[r] \in UpdateQueues /\ Finish(r, from, outcome[r]) /\ UNCHANGED <<folder, helper, tmp>>
  <2>1. tmp[r] = "none"
    BY <1>0, <1>3, QueueKinds DEF RepoInv, TmpInv, InGit, Placing
  <2>2. Disk(r)
    BY <1>0, <1>3 DEF Types, Disk
  <2> QED
    BY <1>1, <1>2, <1>3, <2>1, <2>2, FinishKeeps
<1>4. CASE /\ WorkerGoes(r, from, how) /\ UNCHANGED <<outcome, tries, folder, helper>>
           /\ cmd' = [cmd EXCEPT ![r] = <<>>] /\ tmp' = [tmp EXCEPT ![r] = "none"]
  <2>1. /\ outcome' \in [Repos -> Outcomes] /\ cmd' \in [Repos -> Queues \cup {<<>>}] /\ tries' \in [Repos -> Nat]
        /\ \A s \in Repos \ {r} : outcome'[s] = outcome[s] /\ cmd'[s] = cmd[s] /\ tries'[s] = tries[s]
        /\ cmd'[r] = <<>> /\ outcome'[r] = outcome[r] /\ tries'[r] = tries[r]
    BY <1>0, <1>4 DEF Types
  <2>2. how \in Steps
    BY DEF Steps
  <2>3. Thread(r) /\ step'[r] = how
    BY <1>0, <1>4, <2>1, <2>2, Goes
  <2>4. Disk(r) /\ tmp'[r] = "none" /\ folder'[r] = folder[r]
    BY <1>0, <1>4 DEF Types, Disk
  <2>5. RepoInv(r)'
    BY <1>2, <2>1, <2>3, <2>4 DEF RepoInv, GitInv, TmpInv, ResultInv, TriesInv, InGit, AtGit, Placing, Ended
  <2> QED
    BY <2>3, <2>4, <2>5, RestKept
<1> QED
  BY <1>1, <1>3, <1>4, AfterFailure

LEMMA GitKeeps ==
  ASSUME WorkInv, NEW r \in Repos, StartGit(r) \/ Register(r)
  PROVE  Thread(r) /\ WorkInv'
<1> USE DEF InGit, AtGit, Placing
<1>0. Types /\ RepoInv(r) /\ Retries \in Nat
  BY BoundsAssumption DEF WorkInv
<1>1. CASE Register(r)
  <2>1. Disk(r) /\ UNCHANGED <<folder, helper, tmp, git>>
    BY <1>0, <1>1, DiskKept DEF Register, disk
  <2>2. Thread(r) /\ step[r] = "started" /\ step'[r] = "waiting" /\ UNCHANGED <<outcome, cmd, tries>>
    BY <1>0, <1>1, JustGoes DEF Register, Steps
  <2>3. RepoInv(r)'
    BY <1>0, <2>1, <2>2 DEF RepoInv, GitInv, TmpInv, ResultInv, TriesInv, Ended
  <2> QED
    BY <2>1, <2>2, <2>3, RestKept
<1>2. CASE StartGit(r) /\ cancel
  <2>1. step[r] = "git" /\ Failed(r, "git", "denied") /\ UNCHANGED git
    BY <1>2 DEF StartGit
  <2>2. git[r] = "none"
    BY <1>0, <2>1 DEF RepoInv, GitInv, Types, Gits
  <2> QED
    BY <1>0, <2>1, <2>2, FailuresKeep DEF Types
<1>3. CASE StartGit(r) /\ ~cancel
  <2>1. /\ step[r] = "git" /\ WorkerGoes(r, "git", "started")
        /\ git' = [git EXCEPT ![r] = "running"]
        /\ tmp' = IF Head(cmd[r]) = "clone" THEN [tmp EXCEPT ![r] = "part"] ELSE tmp
        /\ UNCHANGED <<outcome, cmd, tries, folder, helper>>
    BY <1>3 DEF StartGit
  <2>2. cmd[r] \in Queues /\ tmp[r] = "none"
    BY <1>0, <2>1 DEF Types, RepoInv, GitInv, TmpInv
  <2>3. Head(cmd[r]) = "clone" <=> cmd[r] = CloneCmds
    BY <2>2, QueueHeads DEF Queues
  <2>4. Thread(r) /\ step'[r] = "started"
    BY <1>0, <2>1, JustGoes DEF Steps
  <2>5. Disk(r) /\ git'[r] = "running" /\ tmp'[r] = IF cmd[r] = CloneCmds THEN "part" ELSE "none"
    BY <1>0, <2>1, <2>2, <2>3 DEF Types, Disk, Gits
  <2>6. RepoInv(r)'
    BY <1>0, <2>1, <2>2, <2>4, <2>5 DEF RepoInv, GitInv, TmpInv, ResultInv, TriesInv, Ended
  <2> QED
    BY <2>4, <2>5, <2>6, RestKept
<1> QED
  BY <1>1, <1>2, <1>3

\* git ends in one way or another; only a clone that ended well is whole, and
\* only an entry whose command ended well is there.
LEMMA GitEndKeeps ==
  ASSUME WorkInv, NEW r \in Repos, GitEnds(r)
  PROVE  Thread(r) /\ WorkInv'
<1> USE DEF InGit, AtGit, Placing
<1>0. Types /\ RepoInv(r)
  BY DEF WorkInv
<1>1. git[r] = "running" /\ UNCHANGED <<folder, record, main, presses, cancel, action, outcome, step, cmd, tries>>
  BY DEF GitEnds
<1>2. step[r] \in AtGit /\ cmd[r] \in Queues
  BY <1>0, <1>1 DEF Types, RepoInv, GitInv
<1>3. PICK how \in {"ok", "denied", "transient"} :
        /\ git' = [git EXCEPT ![r] = how]
        /\ tmp' = IF how = "ok" /\ Head(cmd[r]) = "clone" THEN [tmp EXCEPT ![r] = "whole"] ELSE tmp
        /\ helper' = IF how = "ok" /\ Head(cmd[r]) \in {"reset", "set"}
                     THEN [helper EXCEPT ![r] = Head(cmd[r])] ELSE helper
  BY DEF GitEnds, Failing
<1>4. /\ Head(cmd[r]) = "clone" <=> cmd[r] = CloneCmds
      /\ Head(cmd[r]) \in {"reset", "set"} => cmd[r] \in {HelperCmds, SetCmds}
      /\ cmd[r] = SetCmds => Head(cmd[r]) = "set"
  BY <1>2, QueueHeads DEF Queues
<1>5. Thread(r)
  BY <1>0, <1>1 DEF Types, Thread
<1>6. /\ Disk(r) /\ git'[r] = how
      /\ tmp'[r] = IF how = "ok" /\ cmd[r] = CloneCmds THEN "whole" ELSE tmp[r]
      /\ how = "ok" /\ cmd[r] = SetCmds => helper'[r] = "set"
  <2>1. git' \in [Repos -> Gits] /\ git'[r] = how /\ \A s \in Repos \ {r} : git'[s] = git[s]
    BY <1>0, <1>3 DEF Types, Gits
  <2>2. /\ tmp' \in [Repos -> {"none", "part", "whole"}] /\ \A s \in Repos \ {r} : tmp'[s] = tmp[s]
        /\ tmp'[r] = IF how = "ok" /\ cmd[r] = CloneCmds THEN "whole" ELSE tmp[r]
    BY <1>0, <1>3, <1>4 DEF Types
  <2>3. /\ helper' \in [Repos -> {"none", "reset", "set"}] /\ \A s \in Repos \ {r} : helper'[s] = helper[s]
        /\ how = "ok" /\ cmd[r] = SetCmds => helper'[r] = "set"
    BY <1>0, <1>3, <1>4 DEF Types
  <2> QED
    BY <1>0, <1>1, <2>1, <2>2, <2>3 DEF Types, Disk
<1>7. outcome[r] # "cloned"
  BY <1>0, <1>2 DEF RepoInv, ResultInv
<1>8. RepoInv(r)'
  BY <1>0, <1>1, <1>2, <1>6, <1>7 DEF RepoInv, GitInv, TmpInv, ResultInv, TriesInv
<1> QED
  BY <1>5, <1>6, <1>8, RestKept

LEMMA ExitKeeps ==
  ASSUME WorkInv, NEW r \in Repos, Communicated(r)
  PROVE  Thread(r) /\ WorkInv'
<1> USE DEF InGit, AtGit, Placing
<1>0. Types /\ RepoInv(r) /\ Retries \in Nat
  BY BoundsAssumption DEF WorkInv
<1>1. /\ step[r] = "waiting" /\ git[r] # "running"
      /\ git' = [git EXCEPT ![r] = "none"]
  BY DEF Communicated
<1>2. /\ cmd[r] \in Queues /\ outcome[r] \in Outcomes /\ outcome[r] # "cloned" /\ folder[r] # "part"
      /\ git[r] \in {"ok", "denied", "transient"}
  BY <1>0, <1>1 DEF Types, RepoInv, GitInv, ResultInv, Gits
<1>3. git' \in [Repos -> Gits] /\ git'[r] = "none" /\ \A s \in Repos \ {r} : git'[s] = git[s]
  BY <1>0, <1>1 DEF Types, Gits
<1>4. CASE ~ExitOk(r)
  <2>1. PICK how \in {"denied", "transient"} : Failed(r, "waiting", how)
    BY <1>2, <1>4 DEF Communicated, ExitOk
  <2> QED
    BY <1>1, <1>3, <2>1, FailuresKeep
<1>5. CASE ExitOk(r)
  <2>1. Succeeded(r) /\ UNCHANGED <<folder, helper, tmp>> /\ git[r] = "ok"
    BY <1>5 DEF Communicated, ExitOk, disk
  <2>2. Disk(r)
    BY <1>0, <1>3, <2>1 DEF Types, Disk
  <2>3. cmd[r] # CloneCmds => tmp[r] = "none"
    BY <1>0, <1>1 DEF RepoInv, TmpInv
  <2>4. CASE cmd[r] = SetCmds /\ Finish(r, "waiting", "cloned")
    <3>1. tmp[r] = "none" /\ folder[r] = "whole" /\ helper[r] = "set"
      BY <1>0, <1>1, <2>1, <2>3, <2>4, QueueKinds DEF RepoInv, ResultInv
    <3> QED
      BY <1>3, <2>1, <2>2, <2>4, <3>1, FinishKeeps DEF Outcomes
  <2>5. CASE cmd[r] \in UpdateQueues /\ Finish(r, "waiting", outcome[r])
    BY <1>2, <1>3, <2>1, <2>2, <2>3, <2>5, FinishKeeps, QueueKinds
  <2>6. ASSUME NEW to \in {"place", "git"}, GoesOn(r, to),
               \/ cmd[r] = CloneCmds /\ Tail(cmd[r]) = <<>> /\ to = "place"
               \/ cmd[r] = HelperCmds /\ Tail(cmd[r]) = SetCmds /\ to = "git"
               \/ cmd[r] \in UpdateQueues /\ Tail(cmd[r]) \in UpdateQueues /\ to = "git"
        PROVE  Thread(r) /\ WorkInv'
    <3>1. /\ WorkerGoes(r, "waiting", to) /\ tries' = tries
          /\ cmd' = [cmd EXCEPT ![r] = Tail(cmd[r])]
          /\ outcome' = [outcome EXCEPT ![r] = "updated"] \/ outcome' = outcome
      BY <1>0, <2>6 DEF GoesOn, Types
    <3>2. Tail(cmd[r]) \in Queues \cup {<<>>}
      BY <2>6 DEF Queues
    <3>3. /\ outcome' \in [Repos -> Outcomes] /\ cmd' \in [Repos -> Queues \cup {<<>>}] /\ tries' \in [Repos -> Nat]
          /\ \A s \in Repos \ {r} : outcome'[s] = outcome[s] /\ cmd'[s] = cmd[s] /\ tries'[s] = tries[s]
          /\ cmd'[r] = Tail(cmd[r]) /\ outcome'[r] # "cloned" /\ tries'[r] = tries[r]
      BY <1>0, <1>2, <3>1, <3>2 DEF Types, Outcomes
    <3>4. to \in Steps
      BY DEF Steps
    <3>5. Thread(r) /\ step'[r] = to
      BY <1>0, <3>1, <3>3, <3>4, Goes
    <3>6. /\ cmd[r] = CloneCmds => cmd'[r] = <<>> /\ to = "place" /\ tmp[r] = "whole"
          /\ cmd[r] # CloneCmds => cmd'[r] # <<>> /\ to = "git"
          /\ cmd'[r] \in {HelperCmds, SetCmds} => folder[r] = "whole"
      <4>1. cmd[r] = CloneCmds => tmp[r] = "whole"
        BY <1>0, <1>1, <2>1 DEF RepoInv, TmpInv
      <4>2. cmd[r] = HelperCmds => folder[r] = "whole"
        BY <1>0, <1>1 DEF RepoInv, ResultInv
      <4> QED
        BY <2>6, <3>3, <4>1, <4>2, QueueKinds DEF Queues
    <3>7. RepoInv(r)'
      BY <1>0, <1>1, <1>3, <2>1, <2>3, <3>3, <3>5, <3>6
      DEF RepoInv, GitInv, TmpInv, ResultInv, TriesInv, Ended
    <3> QED
      BY <2>2, <3>5, <3>7, RestKept
  <2> QED
    BY <1>2, <2>1, <2>4, <2>5, <2>6, AfterSuccess
<1> QED
  BY <1>4, <1>5

LEMMA ResultsKeep ==
  ASSUME WorkInv, NEW r \in Repos, NEW from, NEW what \in Outcomes, Result(r, from, what),
         UNCHANGED <<helper, git>>, git[r] = "none",
         folder' \in [Repos -> {"missing", "empty", "foreign", "part", "whole"}], folder'[r] # "part",
         \A s \in Repos \ {r} : folder'[s] = folder[s],
         what = "cloned" => folder'[r] = "whole" /\ r \notin Helped
  PROVE  Thread(r) /\ WorkInv'
<1>1. Finish(r, from, what) /\ tmp' = [tmp EXCEPT ![r] = "none"]
  BY DEF Result
<1>2. Disk(r) /\ tmp'[r] = "none"
  BY <1>1 DEF WorkInv, Types, Disk
<1> QED
  BY <1>1, <1>2, FinishKeeps

\* The clone is put in place, or the item ends with the temporary folder gone.
LEMMA PlacingKeeps ==
  ASSUME WorkInv, NEW r \in Repos, Place(r) \/ Rmdir(r) \/ Rename(r)
  PROVE  Thread(r) /\ WorkInv'
<1> USE DEF InGit, AtGit, Placing
<1>0. Types /\ RepoInv(r)
  BY DEF WorkInv
<1>1. step[r] \in Placing /\ UNCHANGED <<helper, git>>
  BY DEF Place, Rmdir, Rename, Result, Finish, WorkerGoes
<1>2. /\ git[r] = "none" /\ tmp[r] = "whole" /\ outcome[r] # "cloned" /\ folder[r] # "part" /\ cmd[r] = <<>>
      /\ tries[r] <= Retries + 1
  BY <1>0, <1>1 DEF RepoInv, GitInv, TmpInv, ResultInv, TriesInv, Types, Gits
<1>3. "conflict" \in Outcomes /\ "failed" \in Outcomes /\ "cloned" \in Outcomes
  BY DEF Outcomes, Failures
<1>4. ASSUME Result(r, step[r], "conflict") \/ Result(r, step[r], "failed"), UNCHANGED folder
      PROVE  Thread(r) /\ WorkInv'
  BY <1>0, <1>1, <1>2, <1>3, <1>4, ResultsKeep DEF Types
<1>5. ASSUME NEW to \in Placing, WorkerGoes(r, step[r], to), UNCHANGED <<outcome, cmd, tries, tmp>>,
             folder' = folder \/ folder' = [folder EXCEPT ![r] = "missing"]
      PROVE  Thread(r) /\ WorkInv'
  <2>1. Thread(r) /\ step'[r] = to
    BY <1>0, <1>5, JustGoes DEF Steps
  <2>2. Disk(r) /\ folder'[r] # "part"
    BY <1>0, <1>1, <1>2, <1>5 DEF Types, Disk
  <2>3. RepoInv(r)'
    BY <1>1, <1>2, <1>5, <2>1, <2>2, QueueKinds DEF RepoInv, GitInv, TmpInv, ResultInv, TriesInv, Ended
  <2> QED
    BY <2>1, <2>2, <2>3, RestKept
<1>6. CASE Place(r)
  BY <1>4, <1>5, <1>6 DEF Place, Result, Finish, WorkerGoes
<1>7. CASE Rmdir(r)
  BY <1>4, <1>5, <1>7 DEF Rmdir, Result, Finish, WorkerGoes
<1>8. CASE Rename(r) /\ folder[r] \notin {"missing", "empty"}
  BY <1>4, <1>8 DEF Rename, Result, Finish, WorkerGoes
<1>9. CASE Rename(r) /\ folder[r] \in {"missing", "empty"}
  <2>1. folder' = [folder EXCEPT ![r] = "whole"]
    BY <1>2, <1>9 DEF Rename
  <2>2. /\ folder' \in [Repos -> {"missing", "empty", "foreign", "part", "whole"}]
        /\ folder'[r] = "whole" /\ \A s \in Repos \ {r} : folder'[s] = folder[s]
    BY <1>0, <2>1 DEF Types
  <2>3. CASE r \notin Helped
    BY <1>1, <1>2, <1>3, <1>9, <2>2, <2>3, ResultsKeep DEF Rename
  <2>4. CASE r \in Helped
    <3>1. /\ WorkerGoes(r, "rename", "git") /\ UNCHANGED <<outcome, tries>>
          /\ cmd' = [cmd EXCEPT ![r] = HelperCmds] /\ tmp' = [tmp EXCEPT ![r] = "none"]
      BY <1>9, <2>4 DEF Rename
    <3>2. /\ outcome' \in [Repos -> Outcomes] /\ cmd' \in [Repos -> Queues \cup {<<>>}] /\ tries' \in [Repos -> Nat]
          /\ \A s \in Repos \ {r} : outcome'[s] = outcome[s] /\ cmd'[s] = cmd[s] /\ tries'[s] = tries[s]
          /\ cmd'[r] = HelperCmds /\ outcome'[r] = outcome[r] /\ tries'[r] = tries[r]
      BY <1>0, <3>1 DEF Types, Queues
    <3>3. Thread(r) /\ step'[r] = "git"
      BY <1>0, <3>1, <3>2, Goes DEF Steps
    <3>4. Disk(r) /\ tmp'[r] = "none"
      BY <1>0, <1>1, <2>2, <3>1 DEF Types, Disk
    <3>5. RepoInv(r)'
      BY <1>1, <1>2, <2>2, <3>2, <3>3, <3>4, QueueKinds
      DEF RepoInv, GitInv, TmpInv, ResultInv, TriesInv, Ended, Queues
    <3> QED
      BY <3>3, <3>4, <3>5, RestKept
  <2> QED
    BY <2>3, <2>4
<1> QED
  BY <1>6, <1>7, <1>8, <1>9 DEF Place, Rmdir, Rename

LEMMA RetriesKeep ==
  ASSUME WorkInv, NEW r \in Repos, Caught(r)
  PROVE  Thread(r) /\ WorkInv'
<1> USE DEF InGit, AtGit, Placing
<1>0. Types /\ RepoInv(r)
  BY DEF WorkInv
<1>1. UNCHANGED <<folder, helper, tmp, git>> /\ Disk(r)
  BY <1>0, DiskKept DEF Caught, disk
<1>2. PICK how \in {"denied", "transient"} :
        \/ Finish(r, how, "cancelled") \/ Finish(r, how, "failed")
        \/ WorkerGoes(r, how, "attempt") /\ Again(r) /\ UNCHANGED <<outcome, cmd, tries>>
  BY DEF Caught
<1>3. step[r] = how
  BY <1>2 DEF Finish, WorkerGoes
<1>4. git[r] = "none" /\ tmp[r] = "none" /\ outcome[r] # "cloned" /\ folder[r] # "part" /\ cmd[r] = <<>>
  BY <1>0, <1>3 DEF RepoInv, GitInv, TmpInv, ResultInv, Types, Gits
<1>5. CASE Finish(r, how, "cancelled") \/ Finish(r, how, "failed")
  <2>1. "cancelled" \in Outcomes /\ "failed" \in Outcomes
    BY DEF Outcomes, Failures
  <2> QED
    BY <1>1, <1>4, <1>5, <2>1, FinishKeeps
<1>6. CASE WorkerGoes(r, how, "attempt") /\ Again(r) /\ UNCHANGED <<outcome, cmd, tries>>
  <2>1. Thread(r) /\ step'[r] = "attempt"
    BY <1>0, <1>6, JustGoes DEF Steps
  <2>2. RepoInv(r)'
    BY <1>0, <1>1, <1>4, <1>6, <2>1 DEF RepoInv, GitInv, TmpInv, ResultInv, TriesInv, Again, Ended
  <2> QED
    BY <1>1, <2>1, <2>2, RestKept
<1> QED
  BY <1>2, <1>5, <1>6

LEMMA WorkersKeep ==
  ASSUME WorkInv, NEW r \in Repos, Worker(r) \/ GitEnds(r)
  PROVE  Thread(r) /\ WorkInv'
BY AttemptsKeep, GitKeeps, GitEndKeeps, ExitKeeps, PlacingKeeps, RetriesKeep DEF Worker

\* A thread has work only while its item is neither waiting to be submitted
\* nor over.
LEMMA WorkersWork ==
  ASSUME WorkInv, NEW r \in Repos, Worker(r) \/ GitEnds(r)
  PROVE  step[r] \notin Ended \cup {"planned"}
<1>1. CASE GitEnds(r)
  BY <1>1 DEF GitEnds, WorkInv, RepoInv, GitInv, AtGit, Ended
<1>2. CASE Worker(r)
  <2>1. CASE Take(r) \/ Acquire(r) \/ Attempt(r) \/ StartGit(r) \/ Register(r) \/ Communicated(r)
    BY <2>1 DEF Take, Acquire, Attempt, StartGit, Register, Communicated, Finish, WorkerGoes, Ended
  <2>2. CASE Place(r) \/ Rmdir(r) \/ Rename(r) \/ Caught(r)
    BY <2>2 DEF Place, Rmdir, Rename, Caught, Result, Finish, WorkerGoes, Ended
  <2> QED
    BY <1>2, <2>1, <2>2 DEF Worker
<1> QED
  BY <1>1, <1>2

-----------------------------------------------------------------------------
(* The main thread, and who else there is                                  *)

\* Before the confirmation no thread has work.
Resting ==
  /\ main = "idle" => \A r \in Repos : step[r] = "idle"
  /\ main = "planned" => \A r \in Repos : step[r] \in {"idle", "planned"}

\* A repository nothing is done for.
AtRest(r) == step[r] \in Ended \cup {"planned"}

LEMMA RestIsEmpty ==
  ASSUME WorkInv, NEW r \in Repos, AtRest(r)
  PROVE  git[r] = "none" /\ tmp[r] = "none" /\ cmd[r] = <<>> /\ tries[r] = 0
BY DEF WorkInv, AtRest, RepoInv, GitInv, TmpInv, TriesInv, Types, Gits, InGit, AtGit, Placing, Ended

\* The process ends: nothing goes on, and the folders are as they were.
LEMMA EndKeeps ==
  ASSUME WorkInv, ProcessOver, UNCHANGED <<folder, helper>>, record' \in {record, NoRecord},
         tmp' \in [Repos -> {"none"}], git' \in [Repos -> {"none"}]
  PROVE  WorkInv' /\ Resting'
<1> USE DEF InGit, AtGit, Placing, Ended
<1>1. /\ main' = "idle" /\ presses' = 0 /\ cancel' = FALSE
      /\ action' = Nothing("none") /\ outcome' = Nothing("none") /\ step' = Nothing("idle")
      /\ cmd' = Nothing(<<>>) /\ tries' = Nothing(0)
  BY DEF ProcessOver
<1>2. Types'
  <2>1. /\ action' \in [Repos -> Planned \cup {"none", "skip", "no_access", "conflict", "error"}]
        /\ outcome' \in [Repos -> Outcomes] /\ step' \in [Repos -> Steps]
        /\ cmd' \in [Repos -> Queues \cup {<<>>}] /\ tries' \in [Repos -> Nat]
    BY <1>1 DEF Nothing, Outcomes, Steps
  <2>2. tmp' \in [Repos -> {"none", "part", "whole"}] /\ git' \in [Repos -> Gits]
    BY DEF Gits
  <2>3. main' = "idle" /\ presses' \in 0 .. MaxPresses
    BY <1>1, BoundsAssumption
  <2>4. cancel' \in BOOLEAN
    BY <1>1
  <2> QED
    BY <2>1, <2>2, <2>3, <2>4 DEF WorkInv, Types
<1>3. ASSUME NEW r \in Repos PROVE RepoInv(r)'
  <2>1. /\ outcome'[r] = "none" /\ step'[r] = "idle" /\ cmd'[r] = <<>> /\ tries'[r] = 0
        /\ tmp'[r] = "none" /\ git'[r] = "none" /\ folder'[r] # "part"
    BY <1>1 DEF Nothing, WorkInv, RepoInv, ResultInv
  <2> QED
    BY <2>1, BoundsAssumption DEF RepoInv, GitInv, TmpInv, ResultInv, TriesInv
<1>4. Resting'
  BY <1>1 DEF Resting, Nothing
<1> QED
  BY <1>2, <1>3, <1>4 DEF WorkInv

\* Decline and Exit come when nothing goes on; a kill may come at any time.
LEMMA EndsKeep ==
  ASSUME WorkInv, Resting, Decline \/ Exit \/ Kill
  PROVE  WorkInv' /\ Resting'
<1>1. CASE Kill
  BY <1>1, EndKeeps DEF Kill, Nothing
<1>2. CASE Decline \/ Exit
  <2>1. \A r \in Repos : AtRest(r)
    BY <1>2 DEF Decline, Exit, Busy, Resting, AtRest, Ended
  <2>2. \A r \in Repos : git[r] = "none" /\ tmp[r] = "none"
    BY <2>1, RestIsEmpty
  <2>3. ProcessOver /\ UNCHANGED <<folder, helper, record, tmp, git>>
    BY <1>2 DEF Decline, Exit, disk
  <2>4. git' \in [Repos -> {"none"}] /\ tmp' \in [Repos -> {"none"}]
    BY <2>2, <2>3 DEF WorkInv, Types
  <2> QED
    BY <2>3, <2>4, EndKeeps
<1> QED
  BY <1>1, <1>2

LEMMA PlanKeeps ==
  ASSUME WorkInv, Resting, NEW chosen \in SUBSET Repos, NEW retry \in BOOLEAN, NEW update \in BOOLEAN,
         Plan(chosen, retry, update)
  PROVE  WorkInv' /\ Resting'
<1> USE DEF InGit, AtGit, Placing, Ended
<1>1. PICK acts \in [Repos -> Planned \cup {"none", "skip", "no_access", "conflict", "error"}] :
        /\ action' = acts
        /\ outcome' = [r \in Repos |-> OutcomeOf(acts[r])]
        /\ step' = [r \in Repos |-> IF acts[r] \in Planned THEN "planned" ELSE "idle"]
  BY DEF Plan
<1>2. /\ main = "idle" /\ main' = "planned"
      /\ UNCHANGED <<folder, helper, tmp, record, presses, cancel, cmd, tries, git>>
  BY DEF Plan, disk
<1>3. \A a \in Planned \cup {"none", "skip", "no_access", "conflict", "error"} :
        OutcomeOf(a) \in Outcomes \ {"cloned"}
  BY DEF OutcomeOf, Outcomes, Failures, Planned
<1>4. Types'
  <2>1. outcome' \in [Repos -> Outcomes]
    BY <1>1, <1>3
  <2>2. step' \in [Repos -> Steps]
    BY <1>1 DEF Steps
  <2> QED
    BY <1>1, <1>2, <2>1, <2>2 DEF WorkInv, Types
<1>5. ASSUME NEW r \in Repos PROVE RepoInv(r)'
  <2>1. git[r] = "none" /\ tmp[r] = "none" /\ cmd[r] = <<>> /\ tries[r] = 0
    BY <1>2, RestIsEmpty DEF Resting, AtRest
  <2>2. outcome'[r] # "cloned" /\ step'[r] \in {"idle", "planned"}
    BY <1>1, <1>3
  <2>3. folder[r] # "part"
    BY DEF WorkInv, RepoInv, ResultInv
  <2> QED
    BY <1>2, <2>1, <2>2, <2>3, BoundsAssumption DEF RepoInv, GitInv, TmpInv, ResultInv, TriesInv
<1>6. Resting'
  BY <1>1, <1>2 DEF Resting
<1> QED
  BY <1>4, <1>5, <1>6 DEF WorkInv

\* The main thread changes only what stage it is at, submits an item, drops
\* what is queued, or gives those without a result one.
LEMMA MainKeeps ==
  ASSUME WorkInv, Resting,
         Confirm \/ (\E r \in Repos : Submit(r)) \/ Collected \/ Unwound \/ SetCancel \/ Terminate \/ Drained \/ Save \/ SaveFails
  PROVE  WorkInv' /\ Resting'
<1> USE DEF InGit, AtGit, Placing, Ended
<1>0. Types /\ \A r \in Repos : RepoInv(r)
  BY DEF WorkInv
<1>1. CASE Confirm \/ Collected \/ Unwound \/ SetCancel \/ Save \/ SaveFails
  <2>1. /\ UNCHANGED <<folder, helper, tmp, action, outcome, step, cmd, tries, git, presses>>
        /\ main' \in {"submitting", "closing", "terminating", "leaving", "unsaved"} /\ cancel' \in BOOLEAN
        /\ record' \in (SUBSET Repos) \cup {NoRecord}
    BY <1>0, <1>1 DEF Confirm, Collected, Unwound, SetCancel, Save, SaveFails, MainGoes, disk, work, Types
  <2>2. Types' /\ Resting'
    BY <1>0, <2>1 DEF Types, Resting
  <2>3. \A r \in Repos : RepoInv(r)'
    BY <1>0, <2>1 DEF RepoInv, GitInv, TmpInv, ResultInv, TriesInv
  <2> QED
    BY <2>2, <2>3 DEF WorkInv
<1>2. ASSUME NEW q \in Repos, Submit(q) PROVE WorkInv' /\ Resting'
  <2>1. /\ UNCHANGED <<folder, helper, tmp, record, presses, cancel, action, outcome, cmd, tries, git>>
        /\ main' \in {"submitting", "collecting"} /\ step[q] = "planned" /\ step' = [step EXCEPT ![q] = "queued"]
    BY <1>2 DEF Submit, disk
  <2>2. Types' /\ Resting'
    BY <1>0, <2>1 DEF Types, Resting, Steps
  <2>3. ASSUME NEW r \in Repos PROVE RepoInv(r)'
    <3>1. RepoInv(r) /\ (step'[r] = step[r] \/ (step[r] = "planned" /\ step'[r] = "queued"))
      BY <1>0, <2>1 DEF Types
    <3> QED
      BY <2>1, <3>1 DEF RepoInv, GitInv, TmpInv, ResultInv, TriesInv
  <2> QED
    BY <2>2, <2>3 DEF WorkInv
<1>3. CASE Terminate
  <2>1. /\ UNCHANGED <<folder, helper, tmp, record, presses, cancel, action, outcome, cmd, tries>>
        /\ main' = "draining" /\ step' = [r \in Repos |-> IF step[r] = "queued" THEN "dropped" ELSE step[r]]
        /\ CutShort({r \in Repos : step[r] = "waiting"})
    BY <1>3 DEF Terminate, MainGoes, disk
  <2>2. /\ git' \in [Repos -> Gits]
        /\ \A r \in Repos : git'[r] = git[r] \/ (git[r] = "running" /\ git'[r] \in {"denied", "transient"})
    BY <2>1, SignalsEndGit
  <2>3. Types' /\ Resting'
    BY <1>0, <2>1, <2>2 DEF Types, Resting, Steps
  <2>4. ASSUME NEW r \in Repos PROVE RepoInv(r)'
    <3>1. /\ RepoInv(r) /\ (step'[r] = step[r] \/ (step[r] = "queued" /\ step'[r] = "dropped"))
          /\ git'[r] = git[r] \/ (git[r] = "running" /\ git'[r] \in {"denied", "transient"})
      BY <1>0, <2>1, <2>2
    <3> QED
      BY <2>1, <3>1 DEF RepoInv, GitInv, TmpInv, ResultInv, TriesInv
  <2> QED
    BY <2>3, <2>4 DEF WorkInv
<1>4. CASE Drained
  <2>1. /\ UNCHANGED <<folder, helper, tmp, record, presses, cancel, action, step, cmd, tries, git>>
        /\ main' = "closing"
        /\ outcome' = [r \in Repos |-> IF action[r] \in Planned THEN Drop(outcome[r]) ELSE outcome[r]]
    BY <1>4 DEF Drained, MainGoes, disk
  <2>2. ASSUME NEW r \in Repos PROVE outcome'[r] \in {outcome[r], "cancelled"}
    BY <2>1 DEF Drop
  <2>3. outcome' \in [Repos -> Outcomes]
    BY <1>0, <2>1 DEF Types, Outcomes, Failures, Drop
  <2>4. Types' /\ Resting'
    BY <1>0, <2>1, <2>3 DEF Types, Resting
  <2>5. ASSUME NEW r \in Repos PROVE RepoInv(r)'
    BY <1>0, <2>1, <2>2 DEF RepoInv, GitInv, TmpInv, ResultInv, TriesInv
  <2> QED
    BY <2>4, <2>5 DEF WorkInv
<1> QED
  BY <1>1, <1>2, <1>3, <1>4

LEMMA PressKeeps ==
  ASSUME WorkInv, Resting, Press
  PROVE  WorkInv' /\ Resting'
<1> USE DEF InGit, AtGit, Placing
<1>0. Types /\ \A r \in Repos : RepoInv(r)
  BY DEF WorkInv
<1>1. /\ UNCHANGED <<folder, helper, tmp, record, cancel, action, outcome, step, cmd, tries>>
      /\ presses < MaxPresses /\ presses' = presses + 1
      /\ main' \in {"interrupted", "unwinding", "closing"}
  BY DEF Press, disk
<1>2. /\ git' \in [Repos -> Gits]
      /\ \A r \in Repos : git'[r] = git[r] \/ (git[r] = "running" /\ git'[r] \in {"denied", "transient"})
  BY <1>0, SignalsEndGit DEF Press, Types
<1>3. Types' /\ Resting'
  BY <1>0, <1>1, <1>2, BoundsAssumption DEF Types, Resting
<1>4. ASSUME NEW r \in Repos PROVE RepoInv(r)'
  BY <1>0, <1>1, <1>2 DEF RepoInv, GitInv, TmpInv, ResultInv, TriesInv
<1> QED
  BY <1>3, <1>4 DEF WorkInv

\* Others touch only folders that hold nothing, and what is not ours.
LEMMA PeopleKeep ==
  ASSUME WorkInv, Resting, NEW q \in Repos, Appear(q) \/ TidyUp(q)
  PROVE  WorkInv' /\ Resting'
<1>0. Types /\ \A r \in Repos : RepoInv(r)
  BY DEF WorkInv
<1>1. /\ UNCHANGED <<helper, tmp, record, main, presses, cancel, action, outcome, step, cmd, tries, git>>
      /\ folder[q] \in {"missing", "empty", "foreign"}
      /\ \E new \in {"missing", "empty", "foreign"} : folder' = [folder EXCEPT ![q] = new]
  BY DEF Appear, TidyUp, Elsewhere, work
<1>2. Types' /\ Resting'
  BY <1>0, <1>1 DEF Types, Resting
<1>3. ASSUME NEW r \in Repos PROVE RepoInv(r)'
  <2>1. folder'[r] = folder[r] \/ (folder[r] # "whole" /\ folder'[r] # "part")
    BY <1>0, <1>1 DEF Types
  <2> QED
    BY <1>0, <1>1, <2>1 DEF RepoInv, GitInv, TmpInv, ResultInv, TriesInv
<1> QED
  BY <1>2, <1>3 DEF WorkInv

\* WorkInv is inductive, whatever stages Ctrl+C comes at.
LEMMA WorkStates == Spec => [](WorkInv /\ Resting)
<1>1. Init => WorkInv /\ Resting
  <2> SUFFICES ASSUME Init PROVE WorkInv /\ Resting
    OBVIOUS
  <2>1. Types
    <3>1. /\ action \in [Repos -> Planned \cup {"none", "skip", "no_access", "conflict", "error"}]
          /\ outcome \in [Repos -> Outcomes] /\ step \in [Repos -> Steps]
          /\ cmd \in [Repos -> Queues \cup {<<>>}] /\ tries \in [Repos -> Nat]
      BY DEF Init, Nothing, Outcomes, Steps, Ended
    <3>2. /\ tmp \in [Repos -> {"none", "part", "whole"}] /\ git \in [Repos -> Gits]
          /\ helper \in [Repos -> {"none", "reset", "set"}]
          /\ folder \in [Repos -> {"missing", "empty", "foreign", "part", "whole"}]
      BY DEF Init, Nothing, Gits
    <3>3. main = "idle" /\ presses \in 0 .. MaxPresses /\ record \in (SUBSET Repos) \cup {NoRecord}
      BY BoundsAssumption DEF Init
    <3>4. cancel \in BOOLEAN
      BY DEF Init
    <3> QED
      BY <3>1, <3>2, <3>3, <3>4 DEF Types
  <2>2. ASSUME NEW r \in Repos PROVE RepoInv(r)
    <3>1. /\ outcome[r] = "none" /\ step[r] = "idle" /\ cmd[r] = <<>> /\ tries[r] = 0
          /\ tmp[r] = "none" /\ git[r] = "none" /\ folder[r] # "part"
      BY DEF Init, Nothing
    <3> QED
      BY <3>1, BoundsAssumption
      DEF RepoInv, GitInv, TmpInv, ResultInv, TriesInv, InGit, AtGit, Placing, Ended
  <2> QED
    BY <2>1, <2>2 DEF WorkInv, Resting, Init, Nothing
<1>2. WorkInv /\ Resting /\ [Next]_vars => WorkInv' /\ Resting'
  <2> SUFFICES ASSUME WorkInv, Resting, [Next]_vars PROVE WorkInv' /\ Resting'
    OBVIOUS
  <2>1. ASSUME NEW chosen \in SUBSET Repos, NEW retry \in BOOLEAN, NEW update \in BOOLEAN,
               Plan(chosen, retry, update)
        PROVE  WorkInv' /\ Resting'
    BY <2>1, PlanKeeps
  <2>2. CASE Confirm \/ Decline \/ Main \/ Press \/ Kill
    BY <2>2, EndsKeep, MainKeeps, PressKeeps DEF Main
  <2>3. ASSUME NEW r \in Repos, Worker(r) \/ GitEnds(r) PROVE WorkInv' /\ Resting'
    <3>1. Thread(r) /\ WorkInv' /\ step[r] \notin Ended \cup {"planned"}
      BY <2>3, WorkersKeep, WorkersWork
    <3> QED
      BY <3>1 DEF Thread, Resting, Ended
  <2>4. ASSUME NEW r \in Repos, Appear(r) \/ TidyUp(r) PROVE WorkInv' /\ Resting'
    BY <2>4, PeopleKeep
  <2>5. CASE UNCHANGED vars
    <3>1. UNCHANGED <<folder, helper, tmp, record, main, presses, cancel, action, outcome, step, cmd, tries, git>>
      BY <2>5 DEF vars
    <3> QED
      BY <3>1 DEF WorkInv, Types, Resting, RepoInv, GitInv, TmpInv, ResultInv, TriesInv
  <2> QED
    BY <2>1, <2>2, <2>3, <2>4, <2>5 DEF Next
<1> QED
  BY <1>1, <1>2, PTL DEF Spec

\* Module docstring: "an interrupted or failed clone never leaves a half-written
\* folder behind", and what is reported as cloned is there with its helper:
\* wherever Ctrl+C comes, any number of times, and whatever is killed.
THEOREM OnlyWholeClones == Spec => []WholeClones
<1>1. WorkInv => WholeClones
  BY DEF WorkInv, RepoInv, ResultInv, WholeClones
<1> QED
  BY <1>1, WorkStates, PTL

\* A folder that holds something is never replaced or removed: by the steps
\* themselves, whatever came between the check and the rename.
THEOREM FoldersAreKept == Spec => FoldersKept
<1>1. Types /\ [Next]_vars =>
        [main # "idle" => \A r \in Repos : folder[r] \in {"foreign", "whole"} => folder'[r] = folder[r]]_vars
  <2> SUFFICES ASSUME Types, Next, main # "idle", NEW r \in Repos, folder[r] \in {"foreign", "whole"}
               PROVE  folder'[r] = folder[r]
    BY DEF vars
  <2>1. CASE \/ \E chosen \in SUBSET Repos, retry, update \in BOOLEAN : Plan(chosen, retry, update)
             \/ Confirm \/ Decline \/ Main \/ Press \/ Kill
    BY <2>1 DEF Plan, Confirm, Decline, Main, Submit, Collected, Unwound, SetCancel, Terminate, Drained, Save, SaveFails, Exit,
                MainGoes, Press, Kill, disk
  <2>2. ASSUME NEW q \in Repos, Appear(q) \/ TidyUp(q) PROVE folder'[r] = folder[r]
    BY <2>2 DEF Appear, TidyUp, Types
  <2>3. ASSUME NEW q \in Repos,
               \/ GitEnds(q) \/ Take(q) \/ Acquire(q) \/ Attempt(q) \/ StartGit(q) \/ Register(q)
               \/ Place(q) \/ Caught(q)
        PROVE  folder'[r] = folder[r]
    BY <2>3 DEF GitEnds, Take, Acquire, Attempt, StartGit, Failed, Register, Place, Caught, disk
  <2>4. ASSUME NEW q \in Repos, Communicated(q) PROVE folder'[r] = folder[r]
    BY <2>4 DEF Communicated, Failed, disk
  <2>5. ASSUME NEW q \in Repos, Rmdir(q) PROVE folder'[r] = folder[r]
    BY <2>5 DEF Rmdir, Removable, Types
  <2>6. ASSUME NEW q \in Repos, Rename(q) PROVE folder'[r] = folder[r]
    BY <2>6 DEF Rename, Types
  <2> QED
    BY <2>1, <2>2, <2>3, <2>4, <2>5, <2>6 DEF Next, Worker
<1>2. WorkInv => Types
  BY DEF WorkInv
<1> QED
  BY <1>1, <1>2, WorkStates, PTL DEF Spec, FoldersKept

-----------------------------------------------------------------------------
(* The lock and the record                                                 *)

\* The lock is released, and the record written, when every thread is through.
Through == main \in {"closing", "leaving", "unsaved"} => \A r \in Repos : step[r] \in Ended

\* No future is left out, and pool.shutdown is not left by Ctrl+C.
Waits == PressAt \cap {"submitting", "unwinding"} = {}

LEMMA AllThrough == ASSUME Waits PROVE Spec => []Through
<1>1. Init => Through
  BY DEF Init, Through
<1>2. WorkInv /\ Resting /\ Through /\ [Next]_vars => Through'
  <2> SUFFICES ASSUME WorkInv, Resting, Through, [Next]_vars PROVE Through'
    OBVIOUS
  <2> USE DEF Through
  <2>0. Types
    BY DEF WorkInv
  <2>1. CASE \/ \E chosen \in SUBSET Repos, retry, update \in BOOLEAN : Plan(chosen, retry, update)
             \/ Decline \/ Exit \/ Kill
    BY <2>1 DEF Plan, Decline, Exit, Kill, ProcessOver
  <2>2. CASE Confirm
    BY <2>2 DEF Confirm, Resting, work, Ended
  <2>3. ASSUME NEW r \in Repos, Submit(r) PROVE Through'
    BY <2>3 DEF Submit
  <2>4. CASE Collected \/ Unwound \/ Drained
    BY <2>4 DEF Collected, Unwound, Waited, Drained, MainGoes, work
  <2>5. CASE SetCancel \/ Terminate
    BY <2>5 DEF SetCancel, Terminate, MainGoes
  <2>6. CASE Save \/ SaveFails
    BY <2>6 DEF Save, SaveFails, work
  <2>7. CASE Press
    BY <2>7, PressAssumption DEF Press, Waits
  <2>8. ASSUME NEW r \in Repos, Worker(r) \/ GitEnds(r) PROVE Through'
    BY <2>8, WorkersKeep, WorkersWork DEF Thread
  <2>9. ASSUME NEW r \in Repos, Appear(r) \/ TidyUp(r) PROVE Through'
    BY <2>9 DEF Appear, TidyUp, Elsewhere, work
  <2>10. CASE UNCHANGED vars
    BY <2>10 DEF vars
  <2> QED
    BY <2>1, <2>2, <2>3, <2>4, <2>5, <2>6, <2>7, <2>8, <2>9, <2>10 DEF Next, Main
<1> QED
  BY <1>1, <1>2, WorkStates, PTL DEF Spec

\* Once the lock of the directory is released no thread and no git process is
\* at work and no temporary folder is left: however often Ctrl+C is pressed,
\* unless it comes before all futures are submitted or in the last wait.
THEOREM LockCovers == ASSUME Waits PROVE Spec => []LockCoversWork
<1>1. WorkInv /\ Resting /\ Through => LockCoversWork
  <2> SUFFICES ASSUME WorkInv, Resting, Through, main \in {"idle", "planned", "leaving", "unsaved"}, NEW r \in Repos
               PROVE  ~Busy(r) /\ git[r] = "none" /\ tmp[r] = "none"
    BY DEF LockCoversWork
  <2>1. AtRest(r)
    BY DEF Resting, Through, AtRest, Ended
  <2> QED
    BY <2>1, RestIsEmpty DEF AtRest, Busy, Ended
<1> QED
  BY <1>1, WorkStates, AllThrough, PTL

\* An item to be cloned has no result or one that says how it ended.
Item(r) ==
  action[r] = "clone" =>
    /\ outcome[r] \in {"none", "cloned"} \cup Failures
    /\ step[r] = "finished" => outcome[r] # "none"
    /\ step[r] # "idle"
    /\ step[r] \in InGit => cmd[r] \notin UpdateQueues

\* What is not there is known to be missing when the threads are through, and
\* then on record.
Told(r) ==
  action[r] = "clone" /\ presses <= 1 /\ folder[r] # "whole" =>
    /\ main = "closing" => outcome[r] \in Failures
    /\ main = "leaving" => r \in record

\* The first Ctrl+C drops what is queued, a second one leaves the handler.
Pressed ==
  /\ main = "unwinding" => presses > 1
  /\ main \in {"interrupted", "terminating", "draining"} => presses > 0
  /\ main \in {"submitting", "collecting", "interrupted", "terminating"} =>
       \A r \in Repos : step[r] # "dropped"

ReportInv == Pressed /\ \A r \in Repos : Item(r) /\ Told(r)

LEMMA ItemsReported ==
  ASSUME WorkInv, NEW r \in Repos, Worker(r) \/ GitEnds(r), Item(r)
  PROVE  Item(r)'
<1> USE DEF InGit, AtGit, Placing
<1>0. Types /\ RepoInv(r) /\ Thread(r) /\ action'[r] = action[r]
  BY WorkersKeep DEF WorkInv, Thread
<1> SUFFICES ASSUME action[r] = "clone" PROVE Item(r)'
  BY <1>0 DEF Item
<1>1. ASSUME NEW from, NEW what \in {"cloned"} \cup Failures, Finish(r, from, what) PROVE Item(r)'
  <2>1. outcome'[r] = what /\ step'[r] = "finished"
    BY <1>0, <1>1 DEF Finish, WorkerGoes, Types
  <2> QED
    BY <2>1 DEF Item, Failures
<1>2. ASSUME NEW from, NEW to \in Steps \ (Ended \cup InGit), WorkerGoes(r, from, to), outcome'[r] = outcome[r]
      PROVE  Item(r)'
  <2>1. step'[r] = to
    BY <1>0, <1>2 DEF WorkerGoes, Types
  <2> QED
    BY <1>2, <2>1 DEF Item, Ended
<1>3. ASSUME NEW from, NEW to \in InGit, WorkerGoes(r, from, to), outcome'[r] = outcome[r],
             cmd'[r] \notin UpdateQueues
      PROVE  Item(r)'
  <2>1. step'[r] = to
    BY <1>0, <1>3 DEF WorkerGoes, Types
  <2> QED
    BY <1>3, <2>1 DEF Item
<1>4. ASSUME NEW from \in InGit, NEW how \in {"denied", "transient"}, step[r] = from, Failed(r, from, how)
      PROVE  Item(r)'
  <2>1. cmd[r] \in Queues /\ cmd[r] \notin UpdateQueues
    BY <1>0, <1>4 DEF Types, RepoInv, GitInv, Item
  <2>2. WorkerGoes(r, from, how) /\ UNCHANGED outcome
    BY <2>1, <1>4, AfterFailure
  <2> QED
    BY <1>2, <2>2 DEF Steps, Ended
<1>5. CASE Take(r) \/ Acquire(r)
  <2>1. \E from, to \in {"queued", "slot", "attempt"} : to # "queued" /\ WorkerGoes(r, from, to) /\ UNCHANGED outcome
    BY <1>5 DEF Take, Acquire
  <2> QED
    BY <1>2, <2>1 DEF Steps, Ended
<1>6. CASE Attempt(r)
  <2>1. CASE cancel
    BY <1>1, <1>6, <2>1 DEF Attempt, Failures
  <2>2. CASE ~cancel
    <3>1. WorkerGoes(r, "attempt", "git") /\ cmd' = [cmd EXCEPT ![r] = CloneCmds] /\ UNCHANGED outcome
      BY <1>6, <2>2 DEF Attempt
    <3>2. cmd'[r] \notin UpdateQueues
      BY <1>0, <3>1, QueueKinds DEF Types
    <3> QED
      BY <1>3, <3>1, <3>2
  <2> QED
    BY <2>1, <2>2
<1>7. CASE StartGit(r)
  <2>1. step[r] = "git"
    BY <1>7 DEF StartGit
  <2>2. CASE cancel
    BY <1>4, <1>7, <2>1, <2>2 DEF StartGit
  <2>3. CASE ~cancel
    BY <1>3, <1>7, <2>1, <2>3 DEF StartGit, Item
  <2> QED
    BY <2>2, <2>3
<1>8. CASE Register(r)
  <2>1. WorkerGoes(r, "started", "waiting") /\ UNCHANGED <<outcome, cmd>> /\ step[r] = "started"
    BY <1>8 DEF Register, WorkerGoes
  <2> QED
    BY <1>3, <2>1 DEF Item
<1>9. CASE GitEnds(r)
  BY <1>9 DEF GitEnds, Item
<1>10. CASE Communicated(r)
  <2>1. step[r] = "waiting" /\ git[r] # "running" /\ git[r] \in Gits /\ git[r] # "none"
    BY <1>0, <1>10 DEF Communicated, RepoInv, GitInv, Types
  <2>2. cmd[r] \in Queues /\ cmd[r] \notin UpdateQueues
    BY <1>0, <2>1 DEF Types, RepoInv, GitInv, Item
  <2>3. CASE ~ExitOk(r)
    <3>1. PICK how \in {"denied", "transient"} : Failed(r, "waiting", how)
      BY <1>10, <2>1, <2>3 DEF Communicated, ExitOk, Gits
    <3> QED
      BY <1>4, <2>1, <3>1
  <2>4. CASE ExitOk(r)
    <3>1. Succeeded(r)
      BY <1>10, <2>4 DEF Communicated
    <3>2. \/ GoesOn(r, "place") /\ UNCHANGED outcome
          \/ GoesOn(r, "git") /\ Tail(cmd[r]) = SetCmds /\ UNCHANGED outcome
          \/ Finish(r, "waiting", "cloned")
      BY <2>2, <3>1, AfterSuccess
    <3>3. CASE GoesOn(r, "place") /\ UNCHANGED outcome
      BY <1>2, <3>3 DEF GoesOn, Steps, Ended
    <3>4. CASE GoesOn(r, "git") /\ Tail(cmd[r]) = SetCmds /\ UNCHANGED outcome
      <4>1. WorkerGoes(r, "waiting", "git") /\ cmd'[r] = SetCmds
        BY <1>0, <3>4 DEF GoesOn, Types
      <4> QED
        BY <1>3, <3>4, <4>1, QueueKinds
    <3> QED
      BY <1>1, <3>2, <3>3, <3>4
  <2> QED
    BY <2>3, <2>4
<1>11. CASE Place(r) \/ Rmdir(r)
  <2>1. \/ \E from \in Placing, what \in {"conflict", "failed"} : Finish(r, from, what)
        \/ \E from, to \in Placing : WorkerGoes(r, from, to) /\ UNCHANGED outcome
    BY <1>11 DEF Place, Rmdir, Result
  <2> QED
    BY <1>1, <1>2, <2>1 DEF Failures, Steps, Ended
<1>12. CASE Rename(r)
  <2>1. \/ \E what \in {"conflict", "cloned"} : Finish(r, "rename", what)
        \/ WorkerGoes(r, "rename", "git") /\ cmd' = [cmd EXCEPT ![r] = HelperCmds] /\ UNCHANGED outcome
    BY <1>12 DEF Rename, Result
  <2>2. CASE WorkerGoes(r, "rename", "git") /\ cmd' = [cmd EXCEPT ![r] = HelperCmds] /\ UNCHANGED outcome
    <3>1. cmd'[r] = HelperCmds
      BY <1>0, <2>2 DEF Types
    <3> QED
      BY <1>3, <2>2, <3>1, QueueKinds
  <2> QED
    BY <1>1, <2>1, <2>2 DEF Failures
<1>13. CASE Caught(r)
  <2>1. \E from \in {"denied", "transient"} :
          \/ \E what \in {"cancelled", "failed"} : Finish(r, from, what)
          \/ WorkerGoes(r, from, "attempt") /\ UNCHANGED outcome
    BY <1>13 DEF Caught
  <2> QED
    BY <1>1, <1>2, <2>1 DEF Failures, Steps, Ended
<1> QED
  BY <1>5, <1>6, <1>7, <1>8, <1>9, <1>10, <1>11, <1>12, <1>13 DEF Worker

LEMMA AllReported == ASSUME Waits PROVE Spec => []ReportInv
<1>1. Init => ReportInv
  BY DEF Init, ReportInv, Pressed, Item, Told, Nothing
<1>2. WorkInv /\ Resting /\ Through /\ ReportInv /\ [Next]_vars => ReportInv'
  <2> SUFFICES ASSUME WorkInv, Resting, Through, ReportInv, [Next]_vars PROVE ReportInv'
    OBVIOUS
  <2>0. /\ Types /\ presses \in Nat /\ Pressed
        /\ \A r \in Repos : Item(r) /\ Told(r) /\ RepoInv(r)
    BY BoundsAssumption DEF WorkInv, Types, ReportInv
  <2>1. CASE Decline \/ Exit \/ Kill
    BY <2>1 DEF Decline, Exit, Kill, ProcessOver, Nothing, ReportInv, Pressed, Item, Told
  <2>2. ASSUME NEW chosen \in SUBSET Repos, NEW retry \in BOOLEAN, NEW update \in BOOLEAN,
               Plan(chosen, retry, update)
        PROVE  ReportInv'
    <3>1. main' = "planned" /\ Pressed'
      BY <2>2 DEF Plan, Pressed
    <3>2. ASSUME NEW r \in Repos, action'[r] = "clone" PROVE outcome'[r] = "none" /\ step'[r] = "planned"
      BY <2>2, <3>2 DEF Plan, OutcomeOf, Planned
    <3> QED
      BY <3>1, <3>2 DEF ReportInv, Item, Told, InGit
  <2>3. CASE Confirm
    <3>1. /\ main = "planned" /\ main' \in {"submitting", "closing"}
          /\ main' = "closing" => \A r \in Repos : step[r] # "planned"
          /\ UNCHANGED <<folder, record, presses, action, outcome, step, cmd>>
      BY <2>3 DEF Confirm, work, disk
    <3>2. Pressed'
      BY <3>1 DEF Resting, Pressed
    <3>3. ASSUME NEW r \in Repos PROVE Item(r)' /\ Told(r)'
      BY <2>0, <3>1 DEF Resting, Item, Told
    <3> QED
      BY <3>2, <3>3 DEF ReportInv
  <2>4. ASSUME NEW q \in Repos, Submit(q) PROVE ReportInv'
    <3>1. /\ main = "submitting" /\ main' \in {"submitting", "collecting"}
          /\ UNCHANGED <<folder, record, presses, action, outcome, cmd>>
          /\ \A r \in Repos : step'[r] = step[r] \/ step'[r] = "queued"
      BY <2>0, <2>4 DEF Submit, disk, Types
    <3>2. Pressed'
      BY <2>0, <3>1 DEF Pressed
    <3>3. ASSUME NEW r \in Repos PROVE Item(r)' /\ Told(r)'
      BY <2>0, <3>1 DEF Item, Told, InGit
    <3> QED
      BY <3>2, <3>3 DEF ReportInv
  <2>5. CASE Collected \/ Unwound
    <3>1. /\ main \in {"collecting", "unwinding"} /\ main' = "closing"
          /\ main = "collecting" => \A r \in Repos : step[r] \in Ended
          /\ UNCHANGED <<folder, record, presses, action, outcome, step, cmd>>
      BY <2>5 DEF Collected, Unwound, MainGoes, work, disk
    <3>2. Pressed'
      BY <3>1 DEF Pressed
    <3>3. ASSUME NEW r \in Repos PROVE Item(r)' /\ Told(r)'
      <4>1. outcome[r] = "cloned" => folder[r] = "whole"
        BY <2>0 DEF RepoInv, ResultInv
      <4>2. main = "unwinding" => ~(presses <= 1)
        BY <2>0 DEF Pressed
      <4> QED
        BY <2>0, <3>1, <4>1, <4>2 DEF Item, Told, Pressed, Ended
    <3> QED
      BY <3>2, <3>3 DEF ReportInv
  <2>6. CASE SetCancel
    <3>1. /\ main = "interrupted" /\ main' = "terminating"
          /\ UNCHANGED <<folder, record, presses, action, outcome, step, cmd>>
      BY <2>6 DEF SetCancel, MainGoes, work, disk
    <3> QED
      BY <2>0, <3>1 DEF ReportInv, Pressed, Item, Told
  <2>7. CASE Terminate
    <3>1. /\ main = "terminating" /\ main' = "draining"
          /\ UNCHANGED <<folder, record, presses, action, outcome, cmd>>
          /\ \A r \in Repos : step'[r] = step[r] \/ step'[r] = "dropped"
      BY <2>0, <2>7 DEF Terminate, MainGoes, disk
    <3>2. Pressed'
      BY <2>0, <3>1 DEF Pressed
    <3>3. ASSUME NEW r \in Repos PROVE Item(r)' /\ Told(r)'
      BY <2>0, <3>1 DEF Item, Told, InGit
    <3> QED
      BY <3>2, <3>3 DEF ReportInv
  <2>8. CASE Drained
    <3>1. /\ main' = "closing"
          /\ UNCHANGED <<folder, record, presses, action, step, cmd>>
          /\ \A r \in Repos : outcome'[r] = IF action[r] \in Planned THEN Drop(outcome[r]) ELSE outcome[r]
      BY <2>8 DEF Drained, MainGoes, disk
    <3>2. Pressed'
      BY <3>1 DEF Pressed
    <3>3. ASSUME NEW r \in Repos PROVE Item(r)' /\ Told(r)'
      <4>1. outcome[r] = "cloned" => folder[r] = "whole"
        BY <2>0 DEF RepoInv, ResultInv
      <4>2. action[r] = "clone" => outcome'[r] = IF outcome[r] = "none" THEN "cancelled" ELSE outcome[r]
        BY <3>1 DEF Planned, Drop
      <4> QED
        BY <2>0, <3>1, <4>1, <4>2 DEF Item, Told, Failures
    <3> QED
      BY <3>2, <3>3 DEF ReportInv
  <2>9. CASE Save
    <3>1. /\ main = "closing" /\ main' = "leaving" /\ record' = {r \in Repos : outcome[r] \in Failures}
          /\ UNCHANGED <<folder, presses, action, outcome, step, cmd>>
      BY <2>9 DEF Save, work, disk
    <3> QED
      BY <2>0, <3>1 DEF ReportInv, Pressed, Item, Told
  <2>10. CASE Press
    <3>1. /\ main' \in {"interrupted", "unwinding"} /\ presses' = presses + 1
          /\ main' = "interrupted" => main = "collecting"
          /\ main' = "unwinding" => main \in {"interrupted", "terminating", "draining"}
          /\ UNCHANGED <<folder, record, action, outcome, step, cmd>>
      BY <2>10, PressAssumption DEF Press, Waits, disk
    <3>2. Pressed'
      BY <2>0, <3>1 DEF Pressed
    <3>3. ASSUME NEW r \in Repos PROVE Item(r)' /\ Told(r)'
      BY <2>0, <3>1 DEF Item, Told
    <3> QED
      BY <3>2, <3>3 DEF ReportInv
  <2>11. ASSUME NEW q \in Repos, Worker(q) \/ GitEnds(q) PROVE ReportInv'
    <3>1. Thread(q) /\ Item(q)' /\ main \notin {"closing", "leaving"} /\ step'[q] # "dropped"
      <4>1. step[q] \notin Ended
        BY <2>11, WorkersWork DEF Ended
      <4>2. Thread(q) /\ Item(q)'
        BY <2>0, <2>11, WorkersKeep, ItemsReported
      <4>3. step'[q] # "dropped"
        <5>1. CASE GitEnds(q)
          BY <4>1, <5>1 DEF GitEnds, Ended
        <5>2. CASE Take(q) \/ Acquire(q) \/ Attempt(q) \/ StartGit(q) \/ Register(q) \/ Caught(q)
          BY <2>0, <4>1, <5>2 DEF Take, Acquire, Attempt, StartGit, Failed, Register, Caught, Finish, WorkerGoes, Types
        <5>3. CASE Communicated(q)
          <6>1. CASE Succeeded(q)
            <7>1. \/ GoesOn(q, "place") \/ GoesOn(q, "git")
                  \/ Finish(q, "waiting", outcome[q]) \/ Finish(q, "waiting", "cloned")
              BY <6>1 DEF Succeeded
            <7> QED
              BY <2>0, <7>1 DEF GoesOn, Finish, WorkerGoes, Types
          <6>2. ASSUME NEW how \in Gits, Failed(q, "waiting", how) PROVE step'[q] # "dropped"
            BY <2>0, <6>2 DEF Failed, Finish, WorkerGoes, Types, Gits
          <6> QED
            BY <2>0, <5>3, <6>1, <6>2 DEF Communicated, Types, Gits
        <5>4. CASE Place(q) \/ Rmdir(q) \/ Rename(q)
          BY <2>0, <4>1, <5>4 DEF Place, Rmdir, Rename, Result, Finish, WorkerGoes, Types
        <5> QED
          BY <2>11, <5>1, <5>2, <5>3, <5>4 DEF Worker
      <4> QED
        BY <4>1, <4>2, <4>3 DEF Through
    <3>2. Pressed'
      BY <2>0, <3>1 DEF Pressed, Thread
    <3>3. ASSUME NEW r \in Repos PROVE Item(r)' /\ Told(r)'
      <4>1. Told(r)'
        BY <3>1 DEF Thread, Told
      <4>2. CASE r # q
        BY <2>0, <3>1, <4>1, <4>2 DEF Thread, Item
      <4> QED
        BY <3>1, <4>1, <4>2
    <3> QED
      BY <3>2, <3>3 DEF ReportInv
  <2>12. ASSUME NEW q \in Repos, Appear(q) \/ TidyUp(q) PROVE ReportInv'
    <3>1. /\ UNCHANGED <<main, record, presses, action, outcome, step, cmd>>
          /\ \A r \in Repos : folder'[r] # "whole" => folder[r] # "whole"
      BY <2>0, <2>12 DEF Appear, TidyUp, Elsewhere, work, Types
    <3> QED
      BY <2>0, <3>1 DEF ReportInv, Pressed, Item, Told
  <2>13. CASE UNCHANGED vars
    BY <2>0, <2>13 DEF vars, ReportInv, Pressed, Item, Told
  <2>14. CASE SaveFails
    <3>1. /\ main = "closing" /\ main' = "unsaved"
          /\ UNCHANGED <<folder, presses, action, outcome, step, cmd>>
      BY <2>14 DEF SaveFails, work, disk
    <3> QED
      BY <2>0, <3>1 DEF ReportInv, Pressed, Item, Told
  <2> QED
    BY <2>1, <2>2, <2>3, <2>4, <2>5, <2>6, <2>7, <2>8, <2>9, <2>10, <2>11, <2>12, <2>13, <2>14 DEF Next, Main
<1> QED
  BY <1>1, <1>2, WorkStates, AllThrough, PTL DEF Spec

\* --retry-failed finds on record every repository that was to be cloned and is
\* not there, also after a Ctrl+C that comes once all futures are submitted,
\* whether the repository failed, waited in the queue or was running then.
THEOREM RecordIsComplete == ASSUME Waits PROVE Spec => []RecordTells
<1>1. ReportInv => RecordTells
  BY DEF ReportInv, Told, RecordTells
<1> QED
  BY <1>1, AllReported, PTL

-----------------------------------------------------------------------------
(* The pool and the host's slots                                           *)

BusyOnes    == {r \in Repos : Busy(r)}
SlottedOnes == {r \in Repos : Slotted(r)}

PoolInv == Cardinality(BusyOnes) <= Jobs /\ Cardinality(SlottedOnes) <= Slots

\* A set of repositories that grows by at most one stays within a bound it had
\* not reached.
LEMMA BoundKept ==
  ASSUME NEW S \in SUBSET Repos, NEW T \in SUBSET Repos, NEW r \in Repos, NEW Most \in Nat,
         Cardinality(S) <= Most,
         T \subseteq S \/ (T \subseteq S \cup {r} /\ Cardinality(S) < Most)
  PROVE  Cardinality(T) <= Most
<1>1. IsFiniteSet(S) /\ Cardinality(S) \in Nat
  BY ReposAssumption, FS_Subset, FS_CardinalityType
<1>2. CASE T \subseteq S
  <2>1. Cardinality(T) \in Nat /\ Cardinality(T) <= Cardinality(S)
    BY <1>1, <1>2, FS_Subset, FS_CardinalityType
  <2> QED
    BY <1>1, <2>1
<1>3. CASE T \subseteq S \cup {r} /\ Cardinality(S) < Most
  <2>1. /\ IsFiniteSet(S \cup {r}) /\ Cardinality(S \cup {r}) \in Nat
        /\ Cardinality(S \cup {r}) <= Cardinality(S) + 1
    <3>1. /\ IsFiniteSet(S \cup {r})
          /\ Cardinality(S \cup {r}) = IF r \in S THEN Cardinality(S) ELSE Cardinality(S) + 1
      BY <1>1, FS_AddElement
    <3> QED
      BY <1>1, <3>1
  <2>2. Cardinality(T) \in Nat /\ Cardinality(T) <= Cardinality(S \cup {r})
    BY <1>3, <2>1, FS_Subset, FS_CardinalityType
  <2> QED
    BY <1>1, <1>3, <2>1, <2>2
<1> QED
  BY <1>2, <1>3

\* The pool has no more than `jobs` threads at work, and a host no more than its
\* slots, also while Ctrl+C empties the queue.
THEOREM PoolIsBounded == Spec => []PoolInv
<1>1. Init => PoolInv
  <2> SUFFICES ASSUME Init PROVE PoolInv
    OBVIOUS
  <2>1. BusyOnes = {} /\ SlottedOnes = {}
    BY DEF Init, Nothing, BusyOnes, SlottedOnes, Busy, Slotted, Ended
  <2> QED
    BY <2>1, FS_EmptySet, BoundsAssumption DEF PoolInv
<1>2. WorkInv /\ Resting /\ PoolInv /\ [Next]_vars => PoolInv'
  <2> SUFFICES ASSUME WorkInv, Resting, PoolInv, [Next]_vars PROVE PoolInv'
    OBVIOUS
  <2>0. /\ BusyOnes \in SUBSET Repos /\ SlottedOnes \in SUBSET Repos
        /\ BusyOnes' \in SUBSET Repos /\ SlottedOnes' \in SUBSET Repos
        /\ Jobs \in Nat /\ Slots \in Nat /\ Types
    BY BoundsAssumption DEF BusyOnes, SlottedOnes, WorkInv
  <2>1. ASSUME BusyOnes' \subseteq BusyOnes, SlottedOnes' \subseteq SlottedOnes PROVE PoolInv'
    <3>1. CASE Repos = {}
      BY <2>0, <2>1, <3>1, FS_EmptySet DEF PoolInv
    <3>2. CASE Repos # {}
      <4>1. PICK r \in Repos : TRUE
        BY <3>2
      <4>2. Cardinality(BusyOnes)' <= Jobs
        BY <2>0, <2>1, <4>1, BoundKept DEF PoolInv
      <4>3. Cardinality(SlottedOnes)' <= Slots
        BY <2>0, <2>1, <4>1, BoundKept DEF PoolInv
      <4> QED
        BY <4>2, <4>3 DEF PoolInv
    <3> QED
      BY <3>1, <3>2
  <2>2. ASSUME \A r \in Repos : \/ step'[r] = step[r]
                               \/ step'[r] \in Ended \cup {"planned", "queued"}
        PROVE  PoolInv'
    BY <2>1, <2>2 DEF BusyOnes, SlottedOnes, Busy, Slotted
  <2>3. CASE Decline \/ Exit \/ Kill
    BY <2>2, <2>3 DEF Decline, Exit, Kill, ProcessOver, Nothing, Ended
  <2>4. ASSUME NEW chosen \in SUBSET Repos, NEW retry \in BOOLEAN, NEW update \in BOOLEAN,
               Plan(chosen, retry, update)
        PROVE  PoolInv'
    BY <2>2, <2>4 DEF Plan, Ended
  <2>5. CASE Confirm \/ Collected \/ Unwound \/ SetCancel \/ Drained \/ Save \/ SaveFails \/ Press
    BY <2>2, <2>5 DEF Confirm, Collected, Unwound, SetCancel, Drained, Save, SaveFails, Press, MainGoes, work
  <2>6. ASSUME NEW r \in Repos, Submit(r) PROVE PoolInv'
    BY <2>0, <2>2, <2>6 DEF Submit, Types
  <2>7. CASE Terminate
    BY <2>2, <2>7 DEF Terminate, Ended
  <2>8. ASSUME NEW r \in Repos, Worker(r) \/ GitEnds(r) PROVE PoolInv'
    <3>1. Thread(r)
      BY <2>8, WorkersKeep
    <3>2. CASE Take(r)
      <4>1. step[r] = "queued" /\ step'[r] = "slot" /\ Cardinality(BusyOnes) < Jobs
        BY <2>0, <3>2 DEF Take, WorkerGoes, BusyOnes, Types
      <4>2. BusyOnes' \subseteq BusyOnes \cup {r} /\ SlottedOnes' \subseteq SlottedOnes
        BY <3>1, <4>1 DEF Thread, BusyOnes, SlottedOnes, Busy, Slotted
      <4>3. Cardinality(BusyOnes)' <= Jobs
        BY <2>0, <4>1, <4>2, BoundKept DEF PoolInv
      <4>4. Cardinality(SlottedOnes)' <= Slots
        BY <2>0, <4>2, BoundKept DEF PoolInv
      <4> QED
        BY <4>3, <4>4 DEF PoolInv
    <3>3. CASE Acquire(r)
      <4>1. step[r] = "slot" /\ step'[r] = "attempt" /\ Cardinality(SlottedOnes) < Slots
        BY <2>0, <3>3 DEF Acquire, WorkerGoes, SlottedOnes, Types
      <4>2. BusyOnes' \subseteq BusyOnes /\ SlottedOnes' \subseteq SlottedOnes \cup {r}
        BY <3>1, <4>1 DEF Thread, BusyOnes, SlottedOnes, Busy, Slotted, Ended
      <4>3. Cardinality(BusyOnes)' <= Jobs
        BY <2>0, <4>2, BoundKept DEF PoolInv
      <4>4. Cardinality(SlottedOnes)' <= Slots
        BY <2>0, <4>1, <4>2, BoundKept DEF PoolInv
      <4> QED
        BY <4>3, <4>4 DEF PoolInv
    <3>4. CASE ~Take(r) /\ ~Acquire(r)
      <4>1. step[r] \notin {"queued", "slot"}
        <5>1. CASE GitEnds(r)
          BY <5>1 DEF GitEnds, WorkInv, RepoInv, GitInv, AtGit
        <5>2. CASE Worker(r)
          BY <3>4, <5>2
          DEF Worker, Attempt, StartGit, Register, Communicated, Place, Rmdir, Rename, Result, Caught, Finish,
              WorkerGoes
        <5> QED
          BY <2>8, <5>1, <5>2
      <4>2. step[r] \notin Ended \cup {"planned"}
        BY <2>8, WorkersWork
      <4> QED
        BY <2>1, <3>1, <4>1, <4>2 DEF Thread, BusyOnes, SlottedOnes, Busy, Slotted
    <3> QED
      BY <3>2, <3>3, <3>4
  <2>9. ASSUME NEW r \in Repos, Appear(r) \/ TidyUp(r) PROVE PoolInv'
    BY <2>2, <2>9 DEF Appear, TidyUp, Elsewhere, work
  <2>10. CASE UNCHANGED vars
    BY <2>2, <2>10 DEF vars
  <2> QED
    BY <2>3, <2>4, <2>5, <2>6, <2>7, <2>8, <2>9, <2>10 DEF Next, Main
<1> QED
  BY <1>1, <1>2, WorkStates, PTL DEF Spec

\* Types, the bound on retries and the one on git operations of a host.
THEOREM CloneRunTypes == Spec => []TypeOK
<1>1. WorkInv /\ PoolInv => TypeOK
  <2> SUFFICES ASSUME WorkInv, PoolInv PROVE TypeOK
    OBVIOUS
  <2>1. tries \in [Repos -> 0 .. Retries + 1]
    BY BoundsAssumption DEF WorkInv, Types, RepoInv, TriesInv
  <2>2. Cardinality({r \in Repos : Slotted(r)}) <= Slots
    BY DEF PoolInv, SlottedOnes
  <2> QED
    BY <2>1, <2>2 DEF WorkInv, Types, TypeOK, Gits
<1> QED
  BY <1>1, WorkStates, PoolIsBounded, PTL
=============================================================================
