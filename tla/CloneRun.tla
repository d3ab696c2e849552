------------------------------ MODULE CloneRun -------------------------------
(***************************************************************************)
(* Executions of `benchops clone` of one project into one directory, one   *)
(* after the other (CloneLock models why): the plan, the worker threads    *)
(* that run git, Ctrl+C in the main thread, and the record from which      *)
(* --retry-failed takes what to do again.  Meanwhile other programs create *)
(* folders in the directory.                                               *)
(*                                                                         *)
(* A git command is three steps: start it, register it for Ctrl+C, and     *)
(* read its exit code when it has ended.                                   *)
(***************************************************************************)
EXTENDS Naturals, Sequences, FiniteSets

CONSTANTS
  Repos,       \* the repositories of the project; each has its folder
  Helped,      \* those cloned with a credential helper
  Jobs,        \* worker threads
  Slots,       \* git operations at once on the host (min of Jobs and 8)
  Retries,     \* bound on RETRIES
  PressAt,     \* stages of the main thread at which Ctrl+C may come
  MaxPresses,  \* bound on Ctrl+C in one execution
  NoRecord     \* no execution has been recorded

ASSUME ReposAssumption == IsFiniteSet(Repos) /\ Helped \subseteq Repos
ASSUME BoundsAssumption ==
  Jobs \in Nat \ {0} /\ Slots \in Nat \ {0} /\ Retries \in Nat /\ MaxPresses \in Nat
ASSUME PressAssumption ==
  PressAt \subseteq {"submitting", "collecting", "interrupted", "terminating", "draining", "unwinding"}

VARIABLES
  folder,   \* each target: missing, empty, foreign, or a clone: part or whole
  helper,   \* its credential.helper entries: none, reset, set
  tmp,      \* each worker's temporary folder: none, part, whole
  record,   \* the repositories the last record lists as failed
  main,     \* stage of the main thread
  presses,  \* Ctrl+C in this execution
  cancel,   \* the _cancel event
  action, outcome,   \* of the plan's items
  step, cmd, tries,  \* each worker: where it is, its git command, attempts made
  git                \* each worker's git: none, running, ended ok, denied, transient

disk == <<folder, helper, tmp>>
work == <<action, outcome, step, cmd, tries, git>>
vars == <<folder, helper, tmp, record, main, presses, cancel,
          action, outcome, step, cmd, tries, git>>

Failures == {"conflict", "failed", "cancelled"}    \* FAILED_OUTCOMES
Outcomes == Failures \cup {"none", "cloned", "updated", "skipped", "no_access"}
Planned  == {"clone", "update"}                    \* actions with work to do
Ended    == {"idle", "dropped", "finished"}
Steps    == Ended \cup {"planned", "queued", "slot", "attempt", "git", "started", "waiting",
                        "place", "rmdir", "rename", "denied", "transient"}

Nothing(v) == [r \in Repos |-> v]

Busy(r) == step[r] \notin Ended \cup {"planned", "queued"}   \* has a worker thread
Slotted(r) == Busy(r) /\ step[r] # "slot"

\* The process is over: what it knew is gone.
ProcessOver ==
  /\ main' = "idle" /\ presses' = 0 /\ cancel' = FALSE
  /\ action' = Nothing("none") /\ outcome' = Nothing("none")
  /\ step' = Nothing("idle") /\ cmd' = Nothing(<<>>) /\ tries' = Nothing(0)

-----------------------------------------------------------------------------
(* The plan                                                                *)

\* _check: the folder first, then the access on the host, then git ls-remote;
\* the host may answer no or not at all.
ActionsOf(r, update) ==
  CASE folder[r] = "foreign"            -> {"conflict"}
    [] folder[r] \in {"part", "whole"}  -> {IF update THEN "update" ELSE "skip"}
    [] OTHER                            -> {"clone", "skip", "no_access", "error"}

\* What execute() reports of an item without work.
OutcomeOf(a) ==
  CASE a = "skip" -> "skipped" [] a = "no_access" -> "no_access"
    [] a = "conflict" -> "conflict" [] a = "error" -> "failed" [] OTHER -> "none"

\* --retry-failed takes the failures of the last record; --only and --skip
\* leave `chosen`.
Selection(chosen, retry) == IF retry THEN chosen \cap record ELSE chosen

Plan(chosen, retry, update) ==
  /\ main = "idle"
  /\ retry => record # NoRecord
  /\ Selection(chosen, retry) # {}
  /\ \E acts \in [Repos -> Planned \cup {"none", "skip", "no_access", "conflict", "error"}] :
       /\ \A r \in Repos : acts[r] \in IF r \in Selection(chosen, retry)
                                       THEN ActionsOf(r, update) ELSE {"none"}
       /\ action' = acts
       /\ outcome' = [r \in Repos |-> OutcomeOf(acts[r])]
       /\ step' = [r \in Repos |-> IF acts[r] \in Planned THEN "planned" ELSE "idle"]
  /\ main' = "planned"
  /\ UNCHANGED <<record, presses, cancel, cmd, tries, git>> /\ UNCHANGED disk

\* Declined, or --dry-run.
Decline ==
  /\ main = "planned"
  /\ ProcessOver
  /\ UNCHANGED <<record, git>> /\ UNCHANGED disk

\* Without work the record is saved at once; with work the lock is taken.
Confirm ==
  /\ main = "planned"
  /\ main' = IF \E r \in Repos : step[r] = "planned" THEN "submitting" ELSE "closing"
  /\ UNCHANGED <<record, presses, cancel>> /\ UNCHANGED work /\ UNCHANGED disk

-----------------------------------------------------------------------------
(* git                                                                     *)

\* The commands of _clone (up to the rename), _install_helper and _update.
CloneCmds  == <<"clone">>
HelperCmds == <<"reset", "set">>
UpdateCmds == <<"fetch", "status", "upstream", "before", "merge", "after">>

\* How a command fails: only what is said of the network is worth another try.
Failing(r) == IF Head(cmd[r]) \in {"clone", "fetch"} THEN {"denied", "transient"} ELSE {"denied"}

\* A signal ends the git processes of `hit`.
CutShort(hit) ==
  git' \in [Repos -> {"none", "running", "ok", "denied", "transient"}]
  /\ \A r \in Repos : IF r \in hit /\ git[r] = "running" THEN git'[r] \in Failing(r)
                                                        ELSE git'[r] = git[r]

-----------------------------------------------------------------------------
(* The main thread                                                         *)

Submit(r) ==
  /\ main = "submitting" /\ step[r] = "planned"
  /\ step' = [step EXCEPT ![r] = "queued"]
  /\ main' = IF \E s \in Repos \ {r} : step[s] = "planned" THEN main ELSE "collecting"
  /\ UNCHANGED <<record, presses, cancel, action, outcome, cmd, tries, git>> /\ UNCHANGED disk

MainGoes(from, to) ==
  /\ main = from /\ main' = to
  /\ UNCHANGED <<record, presses>> /\ UNCHANGED disk

\* as_completed has yielded every future.
Collected ==
  /\ \A r \in Repos : step[r] \in Ended
  /\ MainGoes("collecting", "closing")
  /\ UNCHANGED cancel /\ UNCHANGED work

\* `finally`, after the handler was left: pool.shutdown(wait=True).
NotWaited == TRUE    \* mutant: wait=False
Waited == \A r \in Repos : step[r] \in Ended
Unwound ==
  /\ Waited
  /\ MainGoes("unwinding", "closing")
  /\ UNCHANGED cancel /\ UNCHANGED work

\* _stop_running: the event first, then SIGTERM to the registered processes,
\* which ends them if they have not ended yet; then pool.shutdown drops what is
\* queued.
SetCancel ==
  /\ MainGoes("interrupted", "terminating")
  /\ cancel' = TRUE
  /\ UNCHANGED work

Terminate ==
  /\ MainGoes("terminating", "draining")
  /\ step' = [r \in Repos |-> IF step[r] = "queued" THEN "dropped" ELSE step[r]]
  /\ CutShort({r \in Repos : step[r] = "waiting"})
  /\ UNCHANGED <<cancel, action, outcome, cmd, tries>>

\* Items that were never started are cancelled, too.
DropNone(o) == o     \* mutant: dropped items keep no outcome
Drop(o)     == IF o = "none" THEN "cancelled" ELSE o
Drained ==
  /\ \A r \in Repos : step[r] \in Ended
  /\ MainGoes("draining", "closing")
  /\ outcome' = [r \in Repos |-> IF action[r] \in Planned THEN Drop(outcome[r]) ELSE outcome[r]]
  /\ UNCHANGED <<cancel, action, step, cmd, tries, git>>

\* The lock, if it was taken, is released, and the record written.
Save ==
  /\ main = "closing" /\ main' = "leaving"
  /\ record' = {r \in Repos : outcome[r] \in Failures}
  /\ UNCHANGED <<presses, cancel>> /\ UNCHANGED work /\ UNCHANGED disk

\* _save_run only warns if it cannot: the old record stays, or what cannot be
\* read, which is no record to --retry-failed.
SaveFails ==
  /\ main = "closing" /\ main' = "unsaved"
  /\ record' \in {record, NoRecord}
  /\ UNCHANGED <<presses, cancel>> /\ UNCHANGED work /\ UNCHANGED disk

\* The interpreter waits for its threads before it exits.
Exit ==
  /\ main \in {"leaving", "unsaved"}
  /\ \A r \in Repos : step[r] # "queued" /\ ~Busy(r)
  /\ ProcessOver
  /\ UNCHANGED <<record, git>> /\ UNCHANGED disk

Main == \/ \E r \in Repos : Submit(r)
        \/ Collected \/ Unwound \/ SetCancel \/ Terminate \/ Drained \/ Save \/ SaveFails
        \/ Exit

\* Ctrl+C in the terminal: the main thread gets KeyboardInterrupt, and the git
\* processes of the group get SIGINT, unless only benchops was signalled.  The
\* handler of _run waits; a second one skips the rest of the handler, a third
\* leaves the wait of `finally`.
Press ==
  /\ main \in PressAt /\ presses < MaxPresses
  /\ presses' = presses + 1
  /\ main' = CASE main = "collecting" -> "interrupted"
               [] main \in {"interrupted", "terminating", "draining"} -> "unwinding"
               [] OTHER -> "closing"     \* submitting, unwinding
  /\ \/ UNCHANGED git
     \/ CutShort(Repos)
  /\ UNCHANGED <<record, cancel, action, outcome, step, cmd, tries>> /\ UNCHANGED disk

-----------------------------------------------------------------------------
(* The worker threads                                                      *)

WorkerGoes(r, from, to) ==
  /\ step[r] = from /\ step' = [step EXCEPT ![r] = to]
  /\ UNCHANGED <<record, main, presses, cancel, action>>

\* The item has its result and its thread is free.
Finish(r, from, what) ==
  /\ WorkerGoes(r, from, "finished")
  /\ outcome' = [outcome EXCEPT ![r] = what]
  /\ cmd' = [cmd EXCEPT ![r] = <<>>] /\ tries' = [tries EXCEPT ![r] = 0]

Take(r) ==
  /\ Cardinality({s \in Repos : Busy(s)}) < Jobs
  /\ WorkerGoes(r, "queued", "slot")
  /\ UNCHANGED <<outcome, cmd, tries, git>> /\ UNCHANGED disk

Acquire(r) ==
  /\ Cardinality({s \in Repos : Slotted(s)}) < Slots
  /\ WorkerGoes(r, "slot", "attempt")
  /\ UNCHANGED <<outcome, cmd, tries, git>> /\ UNCHANGED disk

Attempt(r) ==
  /\ IF cancel THEN Finish(r, "attempt", "cancelled")
     ELSE /\ WorkerGoes(r, "attempt", "git")
          /\ cmd' = [cmd EXCEPT ![r] = IF action[r] = "clone" THEN CloneCmds ELSE UpdateCmds]
          /\ tries' = [tries EXCEPT ![r] = @ + 1]
          /\ UNCHANGED outcome
  /\ UNCHANGED git /\ UNCHANGED disk

\* A git command has failed with `how`.  _update goes on without an upstream or
\* a merge, its result already set; anything else is a GitFailed that leaves
\* through `finally`, which removes the temporary folder.
Lenient == {"upstream", "merge"}
Failed(r, from, how) ==
  /\ IF Head(cmd[r]) \in Lenient
     THEN Finish(r, from, outcome[r]) /\ UNCHANGED tmp
     ELSE /\ WorkerGoes(r, from, how)
          /\ cmd' = [cmd EXCEPT ![r] = <<>>] /\ tmp' = [tmp EXCEPT ![r] = "none"]
          /\ UNCHANGED <<outcome, tries>>
  /\ UNCHANGED <<folder, helper>>

\* _git: not started once cancelled.
StartGit(r) ==
  /\ step[r] = "git"
  /\ IF cancel THEN Failed(r, "git", "denied") /\ UNCHANGED git
     ELSE /\ WorkerGoes(r, "git", "started")
          /\ git' = [git EXCEPT ![r] = "running"]
          /\ tmp' = IF Head(cmd[r]) = "clone" THEN [tmp EXCEPT ![r] = "part"] ELSE tmp
          /\ UNCHANGED <<outcome, cmd, tries, folder, helper>>

Register(r) ==
  /\ WorkerGoes(r, "started", "waiting")
  /\ UNCHANGED <<outcome, cmd, tries, git>> /\ UNCHANGED disk

\* git ends by itself; a clone is whole only then.
GitEnds(r) ==
  /\ git[r] = "running"
  /\ \E how \in {"ok"} \cup Failing(r) :
       /\ git' = [git EXCEPT ![r] = how]
       /\ tmp' = IF how = "ok" /\ Head(cmd[r]) = "clone" THEN [tmp EXCEPT ![r] = "whole"] ELSE tmp
       /\ helper' = IF how = "ok" /\ Head(cmd[r]) \in {"reset", "set"}
                    THEN [helper EXCEPT ![r] = Head(cmd[r])] ELSE helper
  /\ UNCHANGED <<folder, record, main, presses, cancel, action, outcome, step, cmd, tries>>

\* What follows a command: the rename after the clone, the next command (an
\* update is reported as soon as it has fetched), or the end; local changes
\* end an update before its merge.
GoesOn(r, to) ==
  /\ WorkerGoes(r, "waiting", to)
  /\ cmd' = [cmd EXCEPT ![r] = Tail(@)]
  /\ outcome' = IF Head(cmd[r]) = "fetch" THEN [outcome EXCEPT ![r] = "updated"] ELSE outcome
  /\ UNCHANGED tries

Succeeded(r) ==
  CASE Head(cmd[r]) = "clone"  -> GoesOn(r, "place")
    [] Head(cmd[r]) = "status" -> GoesOn(r, "git") \/ Finish(r, "waiting", outcome[r])
    [] Head(cmd[r]) = "set"    -> Finish(r, "waiting", "cloned")
    [] Head(cmd[r]) = "after"  -> Finish(r, "waiting", outcome[r])
    [] OTHER                   -> GoesOn(r, "git")

AnyExit(r) == TRUE    \* mutant: the exit code is not looked at
ExitOk(r) == git[r] = "ok"
Communicated(r) ==
  /\ step[r] = "waiting" /\ git[r] # "running"
  /\ git' = [git EXCEPT ![r] = "none"]
  /\ IF ExitOk(r) THEN Succeeded(r) /\ UNCHANGED disk
     ELSE Failed(r, "waiting", IF cancel THEN "denied" ELSE git[r])

\* _clone leaves the attempt with a result: no temporary folder stays.
Result(r, from, what) ==
  /\ Finish(r, from, what)
  /\ tmp' = [tmp EXCEPT ![r] = "none"]

\* The target is looked at again before the rename.
Place(r) ==
  /\ IF folder[r] \in {"missing", "empty"}
     THEN /\ WorkerGoes(r, "place", IF folder[r] = "empty" THEN "rmdir" ELSE "rename")
          /\ UNCHANGED <<outcome, cmd, tries, tmp>>
     ELSE Result(r, "place", "conflict")
  /\ UNCHANGED <<folder, helper, git>>

\* rmdir refuses a folder that is no longer empty or has gone: an OSError.
RemovableAll(r) == folder[r] # "missing"   \* mutant: rmtree
Removable(r) == folder[r] = "empty"
Rmdir(r) ==
  /\ IF Removable(r)
     THEN /\ WorkerGoes(r, "rmdir", "rename")
          /\ folder' = [folder EXCEPT ![r] = "missing"]
          /\ UNCHANGED <<outcome, cmd, tries, tmp>>
     ELSE Result(r, "rmdir", "failed") /\ UNCHANGED folder
  /\ UNCHANGED <<helper, git>>

\* os.rename replaces an empty directory and nothing else.
Rename(r) ==
  /\ IF folder[r] \notin {"missing", "empty"}
     THEN Result(r, "rename", "conflict") /\ UNCHANGED folder
     ELSE /\ folder' = [folder EXCEPT ![r] = tmp[r]]
          /\ IF r \in Helped
             THEN /\ WorkerGoes(r, "rename", "git")
                  /\ cmd' = [cmd EXCEPT ![r] = HelperCmds]
                  /\ tmp' = [tmp EXCEPT ![r] = "none"]
                  /\ UNCHANGED <<outcome, tries>>
             ELSE Result(r, "rename", "cloned")
  /\ UNCHANGED <<helper, git>>

\* The except clause of _process; `tries` counts the attempts made.
Again(r) == tries[r] <= Retries
Caught(r) ==
  /\ \E how \in {"denied", "transient"} :
       IF cancel THEN Finish(r, how, "cancelled")
       ELSE IF how = "transient" /\ Again(r)    \* after the back-off
       THEN WorkerGoes(r, how, "attempt") /\ UNCHANGED <<outcome, cmd, tries>>
       ELSE Finish(r, how, "failed")
  /\ UNCHANGED git /\ UNCHANGED disk

Worker(r) ==
  \/ Take(r) \/ Acquire(r) \/ Attempt(r) \/ StartGit(r) \/ Register(r) \/ Communicated(r)
  \/ Place(r) \/ Rmdir(r) \/ Rename(r) \/ Caught(r)

-----------------------------------------------------------------------------
(* Other programs, and people                                              *)

Elsewhere == UNCHANGED <<helper, tmp, record, main, presses, cancel>> /\ UNCHANGED work

\* Something appears at a target, or an empty folder goes away.
Appear(r) ==
  /\ main # "idle"
  /\ \/ folder[r] = "missing" /\ folder' = [folder EXCEPT ![r] = "empty"]
     \/ folder[r] = "empty" /\ folder' = [folder EXCEPT ![r] = "missing"]
     \/ folder[r] \in {"missing", "empty"} /\ folder' = [folder EXCEPT ![r] = "foreign"]
  /\ Elsewhere

\* The developer moves it out of the way.
TidyUp(r) ==
  /\ main = "idle" /\ folder[r] = "foreign"
  /\ folder' = [folder EXCEPT ![r] = "missing"]
  /\ Elsewhere

\* The process is killed.  Its temporary folders stay under names that are not
\* used again; a record that is just being written is cut.
Kill ==
  /\ main # "idle"
  /\ ProcessOver
  /\ git' = Nothing("none") /\ tmp' = Nothing("none")
  /\ record' \in IF main = "closing" THEN {record, NoRecord} ELSE {record}
  /\ UNCHANGED <<folder, helper>>

Init ==
  /\ folder \in [Repos -> {"missing", "empty", "foreign"}]
  /\ helper = Nothing("none") /\ tmp = Nothing("none")
  /\ record = NoRecord /\ main = "idle" /\ presses = 0 /\ cancel = FALSE
  /\ action = Nothing("none") /\ outcome = Nothing("none")
  /\ step = Nothing("idle") /\ cmd = Nothing(<<>>) /\ tries = Nothing(0) /\ git = Nothing("none")

Next ==
  \/ \E chosen \in SUBSET Repos, retry, update \in BOOLEAN : Plan(chosen, retry, update)
  \/ Confirm \/ Decline \/ Main \/ Press
  \/ \E r \in Repos : Worker(r) \/ GitEnds(r) \/ Appear(r) \/ TidyUp(r)
  \/ Kill

Spec == Init /\ [][Next]_vars

-----------------------------------------------------------------------------
(* Properties                                                              *)

\* Types; a repository is tried at most Retries times again, and only as many
\* git operations as there are slots go on at once.
TypeOK ==
  /\ folder \in [Repos -> {"missing", "empty", "foreign", "part", "whole"}]
  /\ helper \in [Repos -> {"none", "reset", "set"}]
  /\ tmp \in [Repos -> {"none", "part", "whole"}]
  /\ record \in (SUBSET Repos) \cup {NoRecord}
  /\ main \in {"idle", "planned", "submitting", "collecting", "interrupted", "terminating",
               "draining", "unwinding", "closing", "leaving", "unsaved"}
  /\ presses \in 0 .. MaxPresses /\ cancel \in BOOLEAN
  /\ action \in [Repos -> Planned \cup {"none", "skip", "no_access", "conflict", "error"}]
  /\ outcome \in [Repos -> Outcomes]
  /\ step \in [Repos -> Steps]
  /\ tries \in [Repos -> 0 .. Retries + 1]
  /\ git \in [Repos -> {"none", "running", "ok", "denied", "transient"}]
  /\ Cardinality({r \in Repos : Slotted(r)}) <= Slots

\* A target never holds half a clone, whatever is killed, interrupted or tried
\* again (module docstring: "an interrupted or failed clone never leaves a
\* half-written folder behind"), and what is reported as cloned is there with
\* the credential helper it needs.
WholeClones ==
  \A r \in Repos :
    /\ folder[r] # "part"
    /\ outcome[r] = "cloned" => folder[r] = "whole" /\ (r \in Helped => helper[r] = "set")

\* A folder that holds something is never replaced or removed, though it may
\* appear at any time between the plan and the rename (_clone).
FoldersKept ==
  [][main # "idle" => \A r \in Repos :
       folder[r] \in {"foreign", "whole"} => folder'[r] = folder[r]]_vars

\* The record tells --retry-failed everything that is left to do: a repository
\* that was to be cloned and is not there is listed, whether it failed, waited
\* in the queue when Ctrl+C came, or was running then; unless the command has
\* said that it could not save the record.
RecordTells ==
  main = "leaving" /\ presses <= 1 =>
    \A r \in Repos : action[r] = "clone" /\ folder[r] # "whole" => r \in record

\* No thread and no git process is at work, and no temporary folder is left,
\* once the lock of the directory is released, even after a second Ctrl+C.
LockCoversWork ==
  main \in {"idle", "planned", "leaving", "unsaved"} =>
    \A r \in Repos : ~Busy(r) /\ git[r] = "none" /\ tmp[r] = "none"

\* "Run git, registered so Ctrl+C can stop it" (_git): none runs on once the
\* registered ones have been terminated.
CtrlCStopsGit == main = "draining" => \A r \in Repos : git[r] # "running"

\* README: "--retry-failed redoes only those" that failed: a failure is on
\* record until the repository is planned again, whatever --only selects.
FailuresRemembered ==
  [][\A r \in Repos : record # NoRecord /\ r \in record /\ r \notin record' => action[r] # "none"]_vars

\* "The empty entry resets helpers inherited from global config"
\* (_install_helper), and BenchOps' own follows it: no clone is left without any.
HelpersSet == main \in {"leaving", "unsaved"} => \A r \in Repos : helper[r] # "reset"

=============================================================================
