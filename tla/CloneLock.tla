------------------------------ MODULE CloneLock ------------------------------
(***************************************************************************)
(* The lock file of `benchops clone` (CloneLock in clone.py), file         *)
(* operation by file operation.  It is created with O_EXCL and written     *)
(* afterwards; a run that finds one reads it, then asks whether the        *)
(* process it read of is alive, then removes the file that is there if     *)
(* not.  A run may be killed anywhere, and ends between any two of these.  *)
(***************************************************************************)
EXTENDS Naturals

CONSTANTS
  Runs,     \* executions of benchops clone into one directory
  Probing,  \* those that can tell a lock's process is dead: POSIX, same host
  Killed,   \* those that may be killed
  Full,     \* those that cannot write the lock file they have created
  NoRun     \* owner of no file

ASSUME RunsAssumption ==
  /\ Probing \subseteq Runs /\ Killed \subseteq Runs /\ Full \subseteq Runs
  /\ NoRun \notin Runs

VARIABLES
  owner,    \* the run that created the lock file; NoRun when there is none
  written,  \* whether the file has its text
  pc,       \* where each run is in __enter__, the clone, __exit__
  left,     \* attempts each run has left (for _ in range(2))
  seen,     \* the run named in the file that each run has read; NoRun for none
  robbed    \* history: the runs whose file was removed by a run that took it for
            \* another's, having looked at what was there before

lockVars == <<owner, written, pc, left, seen, robbed>>

Over == {"refused", "done", "dead"}
Goto(r, from, to) == pc[r] = from /\ pc' = [pc EXCEPT ![r] = to]

LockInit ==
  /\ owner = NoRun /\ written = FALSE
  /\ pc = [r \in Runs |-> "try"] /\ left = [r \in Runs |-> 2]
  /\ seen = [r \in Runs |-> NoRun] /\ robbed = {}

Create(r) ==
  /\ owner = NoRun
  /\ Goto(r, "try", "created")
  /\ owner' = r /\ written' = FALSE
  /\ UNCHANGED <<left, seen, robbed>>

Exists(r) ==
  /\ owner # NoRun
  /\ Goto(r, "try", "found")
  /\ UNCHANGED <<owner, written, left, seen, robbed>>

\* _info: a file without its text, or gone since, names no process.
Read(r) ==
  /\ Goto(r, "found", "read")
  /\ seen' = [seen EXCEPT ![r] = IF written THEN owner ELSE NoRun]
  /\ UNCHANGED <<owner, written, left, robbed>>

\* _is_stale: no process has the number that was read.  A run that is through
\* may still be on its way out, and the number of one that is gone may be in
\* use again: then the answer is no.
StaleDenied(r) == r \in Probing /\ seen[r] # NoRun    \* mutant: PermissionError is True
Stale(r) == r \in Probing /\ seen[r] # NoRun /\ pc[seen[r]] \in Over

Probe(r) ==
  /\ \/ Stale(r) /\ Goto(r, "read", "stale")
     \/ Goto(r, "read", "refused")
  /\ UNCHANGED <<owner, written, left, seen, robbed>>

\* The file that is there now goes, whoever's it is.
Remove(thought) ==
  /\ owner' = NoRun /\ written' = FALSE
  /\ robbed' = robbed \cup ({owner} \ {thought, NoRun})

TakeOver(r) ==
  /\ Goto(r, "stale", IF left[r] > 1 THEN "try" ELSE "refused")
  /\ left' = [left EXCEPT ![r] = @ - 1]
  /\ Remove(seen[r])
  /\ UNCHANGED seen

\* A file that was removed meanwhile is written all the same, unseen.
Write(r) ==
  /\ Goto(r, "created", "cloning")
  /\ written' = (written \/ owner = r)
  /\ UNCHANGED <<owner, left, seen, robbed>>

WriteFails(r) ==
  /\ r \in Full
  /\ Goto(r, "created", "refused")
  /\ UNCHANGED <<owner, written, left, seen, robbed>>

\* __exit__ reads the token, then removes the file.
OwnsNothing(r) == FALSE    \* mutant: the file is left
Owns(r) == owner = r /\ written

Leave(r) ==
  /\ Goto(r, "cloning", IF Owns(r) THEN "leaving" ELSE "done")
  /\ UNCHANGED <<owner, written, left, seen, robbed>>

Unlink(r) ==
  /\ Goto(r, "leaving", "done")
  /\ Remove(r)
  /\ UNCHANGED <<left, seen>>

KillRun(r) ==
  /\ r \in Killed /\ pc[r] \notin Over
  /\ pc' = [pc EXCEPT ![r] = "dead"]
  /\ UNCHANGED <<owner, written, left, seen, robbed>>

LockNext ==
  \E r \in Runs :
    \/ Create(r) \/ Exists(r) \/ Read(r) \/ Probe(r) \/ TakeOver(r) \/ Write(r)
    \/ WriteFails(r) \/ Leave(r) \/ Unlink(r) \/ KillRun(r)

LockSpec == LockInit /\ [][LockNext]_lockVars

-----------------------------------------------------------------------------
(* Properties                                                              *)

\* Types; a run that still looks at the file has an attempt left.
LockTypeOK ==
  /\ owner \in Runs \cup {NoRun} /\ written \in BOOLEAN
  /\ pc \in [Runs -> {"try", "found", "read", "stale", "created", "cloning", "leaving"} \cup Over]
  /\ seen \in [Runs -> Runs \cup {NoRun}] /\ robbed \subseteq Runs
  /\ left \in [Runs -> 0 .. 2]
  /\ \A r \in Runs : pc[r] \in {"try", "found", "read", "stale"} => left[r] > 0

\* Two runs clone into the same directory at once only if one of them lost its
\* lock file to a run that went by what it had read before that file was there
\* (CloneLock, "an exclusive lock file in the target directory", between reading
\* and removing a stale one).  Nothing else lets two in: no kill, no file that
\* is not yet written, no end of a run while another looks at its lock.
OneWriter ==
  \A r, s \in Runs : pc[r] = "cloning" /\ pc[s] = "cloning" =>
    r = s \/ r \in robbed \/ s \in robbed

\* When all is over a lock file is there only if its run was killed or could
\* not write it, so that a later clone is blocked by nothing else.
NothingLeft ==
  (\A r \in Runs : pc[r] \in Over) /\ owner # NoRun => pc[owner] = "dead" \/ owner \in Full

=============================================================================
