------------------------------- MODULE Restore -------------------------------
(***************************************************************************)
(* benchops restore: replaces a site, or creates one, from a backup in S3, *)
(* on the local bench or on a server.  The steps run on the target one at  *)
(* a time, the client waiting for each; a step may outlive its wait when   *)
(* Ctrl+C or a lost connection ends it.  Other people change the site at   *)
(* any time.  SsmSession is the connection the steps run over.             *)
(***************************************************************************)
EXTENDS SsmSession, Naturals, FiniteSetsExt

CONSTANTS
  Archives,    \* file archives a backup can hold: public and private files
  Stamps,      \* when backups were taken
  Bucket,      \* Bucket[stamp]: the parts S3 holds of that backup
  MaxOthers,   \* bound on the changes other people make to the site
  Absent       \* no such site

Parts    == {"database"} \cup Archives
\* What a part of the site holds; "half": a step that failed left it in between.
Contents == {"old", "theirs", "new", "half", "backup"}
Sites    == {Absent} \cup [Parts -> Contents]

ASSUME RestoreAssumption ==
  /\ "database" \notin Archives /\ Stamps \subseteq Nat /\ IsFiniteSet(Stamps)
  /\ Bucket \in [Stamps -> SUBSET Parts]
  /\ MaxOthers \in Nat /\ Absent \notin [Parts -> Contents]

VARIABLES
  opt,       \* --new-site, a safety backup is wanted, --files
  chosen,    \* stamp of the backup
  stage,     \* the step the client waits for
  site,
  saved,     \* per part, what the safety backup holds of it
  work,      \* work dir: it exists, curl.conf in it, and what there is of each part
  stray,     \* a step that goes on without the client
  told,      \* what the developer was told last
  byhand,    \* told to delete the work dir by hand
  others,    \* changes other people have made
  since      \* history: one of them after the last step that looked at the site

target == <<site, saved, work>>
outside == <<others, since>>
vars   == <<connection, stopped, opt, chosen, stage, target, stray, told, byhand, outside>>

Jobs   == {"inspect", "mktemp", "put", "fetch", "verify", "backup", "newsite", "restore", "hook", "cleanup"}
Stages == {"connect", "ask", "leave", "done"} \cup Jobs
\* A new site has nothing to save.
Options == {o \in [new : BOOLEAN, safety : BOOLEAN, files : BOOLEAN] : o.new => ~o.safety}

NoWork == [dir |-> FALSE, conf |-> FALSE, got |-> [p \in Parts |-> "none"]]

\* BackupSet.files
Wanted == Bucket[chosen] \cap (IF opt.files THEN Parts ELSE {"database"})

TypeOK ==
  /\ LinkTypeOK /\ stopped \subseteq Links \cup Errors \cup Stages
  /\ opt \in Options
  /\ chosen \in Stamps /\ "database" \in Wanted /\ stage \in Stages /\ site \in Sites
  /\ saved \in [Parts -> Contents \cup {"nothing"}]
  /\ work \in [dir : BOOLEAN, conf : BOOLEAN, got : [Parts -> {"none", "cut", "corrupt", "whole"}]]
  /\ stray \in Jobs \cup {"none"} /\ byhand \in BOOLEAN
  /\ told \in {"", "aborted", "no connection", "lost", "failed", "in safety backup", "hook failed",
               "restored", "interrupted"}
  /\ others \in 0..MaxOthers /\ since \in BOOLEAN

-----------------------------------------------------------------------------
(* The backup                                                              *)

\* select_backup: the newest set with a database among those --at names.
Restorable(at) == {t \in at : "database" \in Bucket[t]}

\* A dump is unpacked to be checked; nothing else tells a corrupt archive.
Fetched == [Wanted -> {"none", "cut", "whole"}]
           \cup {[got EXCEPT !["database"] = "corrupt"] : got \in [Wanted -> {"none", "cut", "whole"}]}
Got(got) == [p \in Parts |-> IF p \in Wanted THEN got[p] ELSE "none"]

\* curl goes through the list and exits with the status of the last transfer;
\* boto3 raises for any.
Arrives(got) == IF kind = "local" THEN \A p \in Wanted : got[p] \in {"whole", "corrupt"}
                ELSE \E p \in Wanted : got[p] \in {"whole", "corrupt"} /\ (p = "database" => Wanted = {p})

-----------------------------------------------------------------------------
(* What the steps do on the target                                         *)

\* _check_sizes and gzip -t
SizesUnchecked == work.got["database"] \notin {"none", "cut", "corrupt"}    \* mutant: as gzip finds them
Verified       == \A p \in Wanted : work.got[p] = "whole"

DatabaseOnly == {"database"}    \* mutant: a safety backup without --with-files
Backed       == IF opt.files THEN Parts ELSE {"database"}

\* bench takes what there is of an archive.
Restored == [p \in Parts |-> IF p \notin Wanted THEN site[p] ELSE IF work.got[p] = "whole" THEN "backup" ELSE "half"]

Works(step) ==
  CASE step = "mktemp"  -> work' = [work EXCEPT !.dir = TRUE] /\ UNCHANGED <<site, saved, since>>
    [] step = "put"     -> work' = [work EXCEPT !.conf = TRUE] /\ UNCHANGED <<site, saved, since>>
    [] step = "fetch"   -> /\ \E got \in Fetched : Arrives(got) /\ work' = [work EXCEPT !.conf = FALSE, !.got = Got(got)]
                           /\ UNCHANGED <<site, saved, since>>
    [] step = "verify"  -> Verified /\ UNCHANGED <<target, since>>
    [] step = "backup"  -> /\ site # Absent /\ saved' = [p \in Parts |-> IF p \in Backed THEN site[p] ELSE "nothing"]
                           /\ since' = FALSE /\ UNCHANGED <<site, work>>
    [] step = "newsite" -> /\ site = Absent /\ site' = [p \in Parts |-> "new"]
                           /\ since' = FALSE /\ UNCHANGED <<saved, work>>
    [] step = "restore" -> site # Absent /\ site' = Restored /\ UNCHANGED <<saved, work, since>>
    [] OTHER            -> UNCHANGED <<target, since>>

\* A step that fails, or is ended, part of the way; what it has fetched is of
\* no use to any other.
Breaks(step) ==
  CASE step = "put"     -> \E conf \in BOOLEAN : work' = [work EXCEPT !.conf = conf] /\ UNCHANGED <<site, saved, since>>
    [] step = "fetch"   -> work' = [work EXCEPT !.conf = FALSE] /\ UNCHANGED <<site, saved, since>>
    [] step = "newsite" -> /\ site' \in {site} \cup (IF site = Absent THEN {[p \in Parts |-> "half"]} ELSE {})
                           /\ UNCHANGED <<saved, work, since>>
    [] step = "restore" -> /\ \/ UNCHANGED site
                              \/ site # Absent /\ \E through, begun \in SUBSET Wanted :
                                   site' = [p \in Parts |-> IF p \in through THEN "backup"
                                                            ELSE IF p \in begun THEN "half" ELSE site[p]]
                           /\ UNCHANGED <<saved, work, since>>
    [] OTHER            -> UNCHANGED <<target, since>>

-----------------------------------------------------------------------------
(* The client                                                              *)

Reachable == HasSession => plugin = "running"

Moves(from, to) == stage = from /\ stage' = to
Quietly == UNCHANGED <<connection, stopped, opt, chosen, stray, byhand, others>>

AtOnce       == "leave"    \* mutant: downloads are removed only after the last step
AfterFailure == IF stage \in {"inspect", "mktemp", "cleanup"} THEN "leave" ELSE "cleanup"
After == CASE stage = "inspect" -> "ask"
           [] stage = "mktemp"  -> IF kind = "local" THEN "fetch" ELSE "put"
           [] stage = "put"     -> "fetch"
           [] stage = "fetch"   -> "verify"
           [] stage = "verify"  -> IF opt.safety THEN "backup" ELSE IF opt.new THEN "newsite" ELSE "restore"
           [] stage \in {"backup", "newsite"} -> "restore"
           [] stage = "restore" -> "hook"
           [] stage = "hook"    -> "cleanup"

Connected ==
  /\ Moves("connect", "inspect") /\ link = "open"
  /\ Quietly /\ UNCHANGED <<target, told, since>>

NotConnected ==
  /\ Moves("connect", "done") /\ link = "closed"
  /\ told' = IF told = "" THEN "no connection" ELSE told
  /\ Quietly /\ UNCHANGED <<target, since>>

\* _check
Checked == opt.new = (site = Absent)

\* RestoreAborted: the bench has problems, or the site is there or is not, or
\* it is not confirmed.
Abort ==
  /\ stage \in {"inspect", "ask"} /\ stage' = "leave" /\ told' = "aborted"
  /\ Quietly /\ UNCHANGED <<target, since>>

\* With --yes too.
Confirm ==
  /\ Moves("ask", "mktemp")
  /\ Quietly /\ UNCHANGED <<target, told, since>>

\* No hook is a hook that works.
StepDone ==
  /\ stage \in Jobs \ {"cleanup"} /\ Reachable
  /\ stage = "inspect" => Checked
  /\ Works(stage) /\ stage' = After
  /\ told' = IF stage = "hook" THEN "restored" ELSE told
  /\ Quietly

StepFails ==
  /\ stage \in Jobs \ {"cleanup"} /\ Reachable
  /\ Breaks(stage) /\ stage' = AfterFailure
  /\ told' = CASE stage = "hook"                  -> "hook failed"
               [] stage = "restore" /\ opt.safety -> "in safety backup"
               [] OTHER                           -> "failed"
  /\ Quietly

\* make_workdir: mktemp has made the directory, and something else is printed
\* with its name, or instead of it.
NameRefused ==
  /\ kind # "local" /\ Moves("mktemp", "leave") /\ Reachable
  /\ Works(stage)
  /\ told' = "failed" /\ stopped' = stopped \cup {stage}
  /\ UNCHANGED <<connection, opt, chosen, stray, byhand, others>>

\* rmtree ignores what it cannot remove: what a step still writes.
CleanUp ==
  /\ Moves("cleanup", "leave") /\ Reachable
  /\ work' = NoWork \/ (kind = "local" /\ stray # "none" /\ UNCHANGED work)
  /\ Quietly /\ UNCHANGED <<site, saved, told, since>>

\* A shell given up whose plugin will not go is an error of another kind.
CleanUpFails ==
  /\ Moves("cleanup", "leave") /\ kind # "local"
  /\ \/ byhand' = TRUE /\ UNCHANGED <<connection, stopped, told>>
     \/ /\ kind = "ssm" /\ Hung /\ told' = "failed" /\ stopped' = stopped \cup {stage}
        /\ UNCHANGED <<kind, link, said, log, late, byhand>>
  /\ UNCHANGED <<opt, chosen, target, stray, outside>>

Leave ==
  /\ stage = "leave" /\ StartClosing
  /\ UNCHANGED <<stopped, opt, chosen, stage, target, stray, told, byhand, outside>>

Left ==
  /\ Moves("leave", "done") /\ link = "closed"
  /\ Quietly /\ UNCHANGED <<target, told, since>>

-----------------------------------------------------------------------------
(* Lost connections, Ctrl+C, steps left alone, other people                *)

\* A shell is given up, SSH connects anew for the cleanup.
Dropped == IF kind = "ssm" THEN /\ Hung \/ (plugin' = PluginEnded /\ session' \in SessionEnded)
                                /\ UNCHANGED <<kind, link, said, log, late>>
           ELSE UNCHANGED connection

LeftAlone == stray' \in {stage, "none"}

Lost ==
  /\ kind # "local" /\ stage \in Jobs \ {"cleanup"} /\ Dropped /\ LeftAlone
  /\ stage' = AfterFailure /\ told' = "lost" /\ stopped' = stopped \cup {stage}
  /\ UNCHANGED <<opt, chosen, target, byhand, outside>>

Interrupted ==
  /\ stage \in Jobs /\ stage' = AfterFailure
  /\ told' = "interrupted" /\ stopped' = stopped \cup {stage}
  /\ UNCHANGED <<opt, chosen, byhand, others>>

\* Ctrl+C reaches the command, through a shell or on the local bench, and the
\* client sees it end.
InterruptStep ==
  /\ kind \in {"local", "ssm"} /\ stage # "cleanup"
  /\ Works(stage) \/ Breaks(stage)
  /\ Interrupted /\ UNCHANGED <<connection, stray>>

\* A second Ctrl+C in a shell; LocalRunner does not wait for its child; SSH
\* waits on, except while it connects or copies.
AbandonStep ==
  /\ \/ kind = "ssm" /\ stage # "cleanup"
     \/ kind = "local" /\ stage \in {"backup", "newsite", "restore", "hook"}
     \/ kind \in {"ssh", "ssm-ssh"} /\ stage \in {"inspect", "put"}
  /\ Dropped /\ LeftAlone
  /\ Interrupted /\ UNCHANGED <<target, since>>

\* SSH only while it connects anew.
InterruptCleanUp ==
  /\ stage = "cleanup" /\ (kind \in {"ssh", "ssm-ssh"} => stopped # {})
  /\ work' \in {work, NoWork} /\ Dropped
  /\ Interrupted /\ UNCHANGED <<site, saved, stray, since>>

InterruptPrompt ==
  /\ Moves("ask", "leave") /\ told' = "interrupted"
  /\ Quietly /\ UNCHANGED <<target, since>>

InterruptConnection ==
  /\ stage \in {"connect", "leave"} /\ InterruptLink /\ told' = "interrupted"
  /\ UNCHANGED <<opt, chosen, stage, target, stray, byhand, outside>>

\* Errors of open or close; one in close is all that is told.
LinkError ==
  /\ stage \in {"connect", "leave"} /\ NotClosed
  /\ told' = IF stage = "leave" THEN "failed" ELSE told
  /\ UNCHANGED <<opt, chosen, stage, target, stray, byhand, outside>>

StrayEnds ==
  /\ stray # "none" /\ stray' = "none"
  /\ IF stray \in {"put", "fetch"} /\ ~work.dir THEN UNCHANGED <<target, since>>
     ELSE Works(stray) \/ Breaks(stray)
  /\ UNCHANGED <<connection, stopped, opt, chosen, stage, told, byhand, others>>

\* They create the site, drop it or write to it, until it is restored.
OthersChange ==
  /\ others < MaxOthers /\ others' = others + 1 /\ since' = TRUE
  /\ stage \notin {"hook", "cleanup", "leave", "done"}
  /\ site' \in {Absent, [p \in Parts |-> "theirs"]} \ {site}
  /\ UNCHANGED <<connection, stopped, opt, chosen, stage, saved, work, stray, told, byhand>>

-----------------------------------------------------------------------------

Init ==
  /\ LinkInit /\ stopped = {}
  /\ opt \in Options
  /\ \E at \in SUBSET Stamps : Restorable(at) # {} /\ chosen = Max(Restorable(at))
  /\ stage = "connect" /\ site \in {Absent, [p \in Parts |-> "old"]}
  /\ saved = [p \in Parts |-> "nothing"] /\ work = NoWork
  /\ stray = "none" /\ told = "" /\ byhand = FALSE
  /\ others = 0 /\ since = FALSE

Connecting ==
  /\ stage \in {"connect", "leave"} /\ Client
  /\ UNCHANGED <<stopped, opt, chosen, stage, target, stray, told, byhand, outside>>

Surroundings(A) == A /\ UNCHANGED <<stopped, opt, chosen, stage, target, stray, told, byhand, outside>>

\* What depends on benchops alone: it also notices a plugin that has died.
Unreached == plugin = "dead" /\ (Lost \/ CleanUpFails)
Own  == Connecting \/ LinkError \/ Connected \/ NotConnected \/ Leave \/ Left \/ Unreached
Next == Own \/ Abort \/ Confirm \/ StepDone \/ StepFails \/ NameRefused \/ CleanUp \/ CleanUpFails \/ Lost
        \/ InterruptStep \/ AbandonStep \/ InterruptCleanUp \/ InterruptPrompt \/ InterruptConnection
        \/ StrayEnds \/ OthersChange \/ Surroundings(Environment)

\* benchops runs on and clocks tick.  Nobody has to answer the prompt, no step
\* on the target has to end, and nothing has to be heard of a lost connection:
\* no step has a timeout.
Fairness == WF_vars(Own) /\ WF_vars(Surroundings(DeadlinePasses))

Spec == Init /\ [][Next]_vars /\ Fairness

-----------------------------------------------------------------------------
(* Properties                                                              *)

\* "Take a safety backup of the site being replaced": nothing of somebody's is
\* ever replaced that the safety backup does not hold, unless it was asked not
\* to take one or somebody has changed the site since; with --new-site, nothing
\* of somebody's is replaced at all.
ReplacedIsSaved == [][\A p \in Parts :
  /\ Absent \notin {site, site'} /\ site[p] \in {"old", "theirs"}
  /\ site'[p] \in {"new", "half", "backup"}
  => since \/ (~opt.new /\ (opt.safety => saved[p] = site[p]))]_vars

\* What the developer is told is so: "Restored" and "a hook failed" mean every
\* part of the backup is in the site; "nothing was changed" that nothing was;
\* and "the safety backup is in" that it holds what was replaced.
TellsTruth == stage = "done" =>
  /\ told \in {"restored", "hook failed"} => site # Absent /\ \A p \in Wanted : site[p] = "backup"
  /\ told \in {"aborted", "no connection"} => site = Absent \/ \A p \in Parts : site[p] \in {"old", "theirs"}
  /\ told = "in safety backup" =>
       site = Absent \/ \A p \in Parts : site[p] \in {"half", "backup"} => saved[p] \in {"old", "theirs"}

\* Whatever way the command ends: the downloads and the presigned URLs are
\* removed, or the developer is told to remove them, and of the connection no
\* more is left than LinkGone says.  The directory stays when the client has not
\* learnt its name (Ctrl+C or a lost connection in mktemp, or a name it refuses),
\* when the removal is interrupted or its shell hangs, and locally when Ctrl+C
\* leaves a step that is writing to it.
NothingLeft == LinkGone /\ (stage = "done" =>
  \/ ~work.dir \/ byhand
  \/ stopped \cap {"mktemp", "cleanup"} # {}
  \/ kind = "local" /\ stopped # {})

\* benchops never hangs over a connection of its own: whether the plugin never
\* announces itself, dies at any moment or will not go, the command ends, or it
\* waits for the prompt or for one step of a target it is still connected to.
CommandEnds ==
  \/ <>(stage = "done")
  \/ <>[](stage = "ask")
  \/ <>[](stage \in Jobs /\ plugin # "dead")
=============================================================================
