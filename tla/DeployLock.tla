----------------------------- MODULE DeployLock ------------------------------
(***************************************************************************)
(* The deploy lock of one app, file by file.  Each agent command is a      *)
(* process of its own on the server; it checks the lock once, then works   *)
(* on what all deploys share: .git/benchops/incoming/, INCOMING_REF and    *)
(* the checkout.  The client sends one command after the other and always  *)
(* ends with `release`; it may lose a call (the connection drops while the *)
(* command runs on) or be killed, and a command may die half way (a full   *)
(* disk, an exception, a reboot).  A release may be lost or die in every   *)
(* run: the client then ends with a warning.                               *)
(*                                                                         *)
(* StagingServer has each command as one step; what that leaves out is     *)
(* here.                                                                   *)
(***************************************************************************)
CONSTANTS
  Runs,
  Breakers,   \* the runs started with --break-lock
  Careful,    \* whether --break-lock is only used on a stale lock
  Droppers,   \* the runs that may lose inspect, preview or apply to a dropped connection
  Killed,     \* the runs whose client may be killed
  Mortal,     \* the runs whose inspect, preview or apply may die half way
  NoRun, NoLock

ASSUME LockAssumption ==
  /\ Breakers \cup Droppers \cup Killed \cup Mortal \subseteq Runs
  /\ Careful \in BOOLEAN
  /\ NoRun \notin Runs
  /\ NoLock \notin [owner : Runs, written : BOOLEAN]

VARIABLES
  lock,     \* lock.json: NoLock, or whose it is and whether its text is written
  tmp,      \* lock.json.tmp: the run whose lock it holds
  dir,      \* incoming/: the run whose package it holds
  ref,      \* INCOMING_REF: the run whose staged commit it is
  client,   \* per run: the call its client waits for
  job,      \* per run: where its inspect, preview or apply command is
  planned,  \* per run: whose commit its apply works with
  shipped,  \* per run: whose package its apply took build outputs from
  rel,      \* per run: where its release command is
  saw       \* per run: whether release found a lock it may remove

shared == <<lock, tmp, dir, ref>>
vars   == <<lock, tmp, dir, ref, client, job, planned, shipped, rel, saw>>

Calls    == {"inspect", "preview", "apply"}
Previews == {"clear", "extract", "fetch", "plan"}
Applies  == {"replan", "write", "ship", "record"}
Critical == {"convert"} \cup Previews \cup Applies    \* a command working on shared state
Running  == {"create", "fill", "tmp", "replace", "preview", "apply"} \cup Critical
Ended    == {"idle", "ok", "failed"}
Releasing == {"read", "dir", "ref", "unlock"}         \* a release command at work

Locks         == [owner : Runs, written : BOOLEAN]
LockOf(r)     == [owner |-> r, written |-> TRUE]
Unwritten(r)  == [owner |-> r, written |-> FALSE]
Holds(r)    == lock = LockOf(r)
Go(r, from, to) == job[r] = from /\ job' = [job EXCEPT ![r] = to]

-----------------------------------------------------------------------------
(* inspect                                                                 *)

\* os.open with O_EXCL creates the file; its text comes later.
FreeIfUnwritten == IF lock = NoLock THEN TRUE ELSE ~lock.written     \* mutant: an empty lock file counts as none
Free == lock = NoLock
Create(r) ==
  /\ Free
  /\ Go(r, "create", "fill")
  /\ lock' = Unwritten(r)
  /\ UNCHANGED <<tmp, dir, ref, client, planned, shipped, rel, saw>>

Locked(r) ==
  /\ ~Free /\ r \notin Breakers
  /\ Go(r, "create", "failed")
  /\ UNCHANGED <<shared, client, planned, shipped, rel, saw>>

\* The open file may no longer be the one at that path.
Fill(r) ==
  /\ Go(r, "fill", "convert")
  /\ lock' = IF lock = Unwritten(r) THEN LockOf(r) ELSE lock
  /\ UNCHANGED <<tmp, dir, ref, client, planned, shipped, rel, saw>>

\* --break-lock: write_json to lock.json.tmp, the same for everyone.
Break(r) ==
  /\ ~Free /\ r \in Breakers
  /\ Go(r, "create", "tmp")
  /\ UNCHANGED <<shared, client, planned, shipped, rel, saw>>

WriteTmp(r) ==
  /\ Go(r, "tmp", "replace")
  /\ tmp' = r
  /\ UNCHANGED <<lock, dir, ref, client, planned, shipped, rel, saw>>

Replace(r) ==
  /\ Go(r, "replace", IF tmp = NoRun THEN "failed" ELSE "convert")
  /\ IF tmp = NoRun THEN UNCHANGED <<lock, tmp>>
     ELSE lock' = LockOf(tmp) /\ tmp' = NoRun
  /\ UNCHANGED <<dir, ref, client, planned, shipped, rel, saw>>

\* The exclude block, and HEAD back from a snapshot commit.
Convert(r) ==
  /\ Go(r, "convert", "ok")
  /\ UNCHANGED <<shared, client, planned, shipped, rel, saw>>

-----------------------------------------------------------------------------
(* preview                                                                 *)

CheckLock(r) ==
  /\ \E c \in {"preview", "apply"} :
       Go(r, c, IF ~Holds(r) THEN "failed" ELSE IF c = "preview" THEN "clear" ELSE "replan")
  /\ UNCHANGED <<shared, client, planned, shipped, rel, saw>>

Clear(r) ==
  /\ Go(r, "clear", "extract")
  /\ dir' = NoRun
  /\ UNCHANGED <<lock, tmp, ref, client, planned, shipped, rel, saw>>

Extract(r) ==
  /\ Go(r, "extract", "fetch")
  /\ dir' = r
  /\ UNCHANGED <<lock, tmp, ref, client, planned, shipped, rel, saw>>

\* meta.json and the bundle are read from the directory.
Fetch(r) ==
  /\ Go(r, "fetch", IF dir = NoRun THEN "failed" ELSE "plan")
  /\ ref' = IF dir = NoRun THEN ref ELSE dir
  /\ UNCHANGED <<lock, tmp, dir, client, planned, shipped, rel, saw>>

Plan(r) ==
  /\ Go(r, "plan", IF ref = NoRun THEN "failed" ELSE "ok")
  /\ UNCHANGED <<shared, client, planned, shipped, rel, saw>>

-----------------------------------------------------------------------------
(* apply                                                                   *)

\* plan again; the fingerprint may have changed.
Replan(r) ==
  /\ \/ ref # NoRun /\ Go(r, "replan", "write")
     \/ Go(r, "replan", "failed")
  /\ planned' = [planned EXCEPT ![r] = ref]
  /\ UNCHANGED <<shared, client, shipped, rel, saw>>

\* Backups, files, index, refs and ledger (ApplySteps).
Write(r) ==
  /\ Go(r, "write", "ship")
  /\ UNCHANGED <<shared, client, planned, shipped, rel, saw>>

\* Without meta.json no build output is replaced, and apply goes on.
Ship(r) ==
  /\ Go(r, "ship", "record")
  /\ shipped' = [shipped EXCEPT ![r] = dir]
  /\ UNCHANGED <<shared, client, planned, rel, saw>>

Record(r) ==
  /\ Go(r, "record", "ok")
  /\ ref' = NoRun
  /\ UNCHANGED <<lock, tmp, dir, client, planned, shipped, rel, saw>>

-----------------------------------------------------------------------------
(* release                                                                 *)

Release(r, from, to) == rel[r] = from /\ rel' = [rel EXCEPT ![r] = to]

\* A lock that is another run's ends the command; one whose text is not written
\* cannot be read, and the command fails.
ForeignNever(r) == FALSE          \* mutant: no token test
ForeignAlways(r) == lock # NoLock \* mutant: any lock is left alone
Foreign(r) == lock # NoLock /\ lock # LockOf(r)
Unreadable == lock \in {Unwritten(q) : q \in Runs}
ReadLock(r) ==
  /\ Release(r, "read", IF Unreadable THEN "failed" ELSE IF Foreign(r) THEN "ended" ELSE "dir")
  /\ saw' = [saw EXCEPT ![r] = lock # NoLock]
  /\ UNCHANGED <<shared, client, job, planned, shipped>>

RemoveDir(r) ==
  /\ Release(r, "dir", "ref")
  /\ dir' = NoRun
  /\ UNCHANGED <<lock, tmp, ref, client, job, planned, shipped, saw>>

RefKept == ref           \* mutant: release leaves INCOMING_REF
RefRemoved == NoRun
RemoveRef(r) ==
  /\ Release(r, "ref", IF saw[r] THEN "unlock" ELSE "ended")
  /\ ref' = RefRemoved
  /\ UNCHANGED <<lock, tmp, dir, client, job, planned, shipped, saw>>

Unlock(r) ==
  /\ Release(r, "unlock", "ended")
  /\ lock' = NoLock
  /\ UNCHANGED <<tmp, dir, ref, client, job, planned, shipped, saw>>

\* It dies anywhere, or never reaches the server.
DieReleasing(r) ==
  /\ \E at \in Releasing : Release(r, at, "failed")
  /\ UNCHANGED <<shared, client, job, planned, shipped, saw>>

-----------------------------------------------------------------------------
(* The client                                                              *)

\* Nobody works under the lock any more.
Stale ==
  /\ lock # NoLock /\ client[lock.owner] \in {"warned", "gone"}
  /\ job[lock.owner] \in Ended /\ rel[lock.owner] \notin Releasing

Send(r, call) ==
  /\ client' = [client EXCEPT ![r] = call]
  /\ job' = [job EXCEPT ![r] = IF call = "inspect" THEN "create" ELSE call]
  /\ UNCHANGED <<shared, planned, shipped, rel, saw>>

Start(r) ==
  /\ client[r] = "new"
  /\ (r \in Breakers /\ Careful) => Stale
  /\ Send(r, "inspect")

Continue(r) ==
  /\ job[r] = "ok"
  /\ \/ client[r] = "inspect" /\ Send(r, "preview")
     \/ client[r] = "preview" /\ Send(r, "apply")

SendRelease(r) ==
  /\ client' = [client EXCEPT ![r] = "release"]
  /\ rel' = [rel EXCEPT ![r] = "read"]
  /\ UNCHANGED <<shared, job, planned, shipped, saw>>

\* After apply, an error, or anything that ends a run early.
Finish(r) ==
  /\ client[r] \in Calls /\ job[r] \in {"ok", "failed"}
  /\ SendRelease(r)

\* The connection drops; release goes over a new one.
Lose(r) ==
  /\ r \in Droppers
  /\ client[r] \in Calls /\ job[r] \in Running
  /\ SendRelease(r)

\* "could not release the deploy lock" when the command failed
Close(r) ==
  /\ client[r] = "release" /\ rel[r] \in {"ended", "failed"}
  /\ client' = [client EXCEPT ![r] = IF rel[r] = "ended" THEN "done" ELSE "warned"]
  /\ UNCHANGED <<shared, job, planned, shipped, rel, saw>>

\* or when its answer is lost, whatever it still does.
LoseRelease(r) ==
  /\ client[r] = "release"
  /\ client' = [client EXCEPT ![r] = "warned"]
  /\ UNCHANGED <<shared, job, planned, shipped, rel, saw>>

Kill(r) ==
  /\ r \in Killed
  /\ client[r] \in Calls \cup {"release"}
  /\ client' = [client EXCEPT ![r] = "gone"]
  /\ UNCHANGED <<shared, job, planned, shipped, rel, saw>>

Die(r) ==
  /\ r \in Mortal
  /\ job[r] \in Running
  /\ job' = [job EXCEPT ![r] = "failed"]
  /\ UNCHANGED <<shared, client, planned, shipped, rel, saw>>

-----------------------------------------------------------------------------

Init ==
  /\ lock = NoLock /\ tmp = NoRun /\ dir = NoRun /\ ref = NoRun
  /\ client = [r \in Runs |-> "new"]
  /\ job = [r \in Runs |-> "idle"]
  /\ planned = [r \in Runs |-> NoRun] /\ shipped = [r \in Runs |-> NoRun]
  /\ rel = [r \in Runs |-> "idle"]
  /\ saw = [r \in Runs |-> FALSE]

Inspect(r) == Create(r) \/ Locked(r) \/ Fill(r) \/ Break(r) \/ WriteTmp(r) \/ Replace(r) \/ Convert(r)
Preview(r) == Clear(r) \/ Extract(r) \/ Fetch(r) \/ Plan(r)
Apply(r)   == Replan(r) \/ Write(r) \/ Ship(r) \/ Record(r)
Agent(r)   == \/ Inspect(r) \/ CheckLock(r) \/ Preview(r) \/ Apply(r)
              \/ ReadLock(r) \/ RemoveDir(r) \/ RemoveRef(r) \/ Unlock(r)
Client(r)  == Continue(r) \/ Finish(r) \/ Close(r)

Next == \E r \in Runs : \/ Agent(r) \/ Start(r) \/ Client(r) \/ Kill(r)
                       \/ Lose(r) \/ LoseRelease(r) \/ Die(r) \/ DieReleasing(r)

Spec == Init /\ [][Next]_vars

\* The server runs the commands it has started until they end or die; a client
\* that lives goes on, and notices when its connection is gone.
FairSpec == Spec /\ \A r \in Runs : WF_vars(Agent(r)) /\ WF_vars(Client(r))

-----------------------------------------------------------------------------
(* Properties                                                              *)

TypeOK ==
  /\ lock \in Locks \cup {NoLock}
  /\ tmp \in Runs \cup {NoRun} /\ dir \in Runs \cup {NoRun} /\ ref \in Runs \cup {NoRun}
  /\ client \in [Runs -> Calls \cup {"new", "release", "done", "warned", "gone"}]
  /\ job \in [Runs -> Running \cup Ended]
  /\ planned \in [Runs -> Runs \cup {NoRun}] /\ shipped \in [Runs -> Runs \cup {NoRun}]
  /\ rel \in [Runs -> Releasing \cup {"idle", "ended", "failed"}]
  /\ saw \in [Runs -> BOOLEAN]

\* The lock does its work: two commands never work on the checkout, the
\* incoming directory and the incoming ref at the same time, if their clients
\* keep the connection.
OneAtATime ==
  \A r, s \in Runs \ Droppers : job[r] \in Critical /\ job[s] \in Critical => r = s

\* deploy.py: release "only removes the lock if it carries our token, so a lock
\* held by someone else's deploy is never released by this one".
OnlyOwnLockRemoved ==
  [][\A r \in Runs : rel[r] = "unlock" /\ rel'[r] = "ended" => lock = LockOf(r)]_vars

\* remote_agent.py: the incoming state of the deploy that holds the lock is
\* theirs, and others "must leave it alone": what it applies is its own commit
\* and what it ships is its own build.
IncomingIsHolders ==
  \A r \in Runs : lock = LockOf(r) /\ job[r] \in Applies =>
    /\ dir = r
    /\ job[r] # "replan" => planned[r] = r
    /\ job[r] = "record" => shipped[r] = r

\* README: "The lock is always released" -- when every client has ended without
\* the warning that it could not, the server has neither a lock nor anybody's
\* incoming state, whatever has died on the way; provided no call was lost, as
\* what runs on without its client may put something there again.
NothingLeft ==
  (\A r \in Runs : client[r] = "done") => lock = NoLock /\ dir = NoRun /\ ref = NoRun

\* A lock file goes away, or to another run, unless its client was killed or
\* has warned the developer that it could not release it; for a run that loses
\* no call before the release.
LockFreed ==
  \A r \in Runs \ Droppers :
    (lock # NoLock /\ lock.owner = r) ~>
      (lock = NoLock \/ lock.owner # r \/ client[r] \in {"warned", "gone"})

=============================================================================
