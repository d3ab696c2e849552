----------------------------- MODULE ClaudeSkill -----------------------------
(***************************************************************************)
(* benchops skill: the copy of the Claude Code skill and the permission    *)
(* rules benchops merges into the developer's settings.json.  A file of    *)
(* its own records which rules it has added.  The developer edits both the *)
(* skill and the settings at any time, also while benchops is between      *)
(* reading and writing them, and benchops can be stopped anywhere.         *)
(***************************************************************************)
EXTENDS Naturals

CONSTANTS
  Rules,       \* permission rules: kind and text
  Versions,    \* of benchops
  RULES,       \* RULES[v]: the rules version v installs
  MaxEdits,    \* bound on what the developer does
  NoSkill, NoCommand

Skills   == [by : Versions \cup {"hand"}, edited : BOOLEAN, link : BOOLEAN]
Commands == [do : {"install", "uninstall"}, force : BOOLEAN, permissions : BOOLEAN]
Steps    == {"skill", "rules", "backup", "settings", "record"}

ASSUME SkillAssumption ==
  /\ RULES \in [Versions -> SUBSET Rules] /\ MaxEdits \in Nat
  /\ NoSkill \notin Skills /\ NoCommand \notin Commands

VARIABLES
  version,     \* the version of benchops on the machine
  skill,       \* SKILL.md
  settings,    \* the permission rules in settings.json, and whether it can be read
  saved,       \* the rules in settings.json.benchops-backup
  owned,       \* claude-permissions.json: the rules benchops has added
  cmd, at,     \* the command that runs and its next step
  seen,        \* the skill it has inspected
  read,        \* rules and record as it has read them, and which were hers
  hers,        \* history: rules in the settings that the developer wrote
  again,       \* history: rules she wrote while benchops counted them as its own
  edited,      \* history: rules she changed since the command read the settings
  late,        \* history: and since it copied them
  unrecorded,  \* history: rules added by a command stopped before it recorded them,
               \* and those on a record that could no longer be read
  edits

files   == <<skill, settings, saved, owned>>
history == <<hers, again, edited, late, unrecorded, edits>>
vars    == <<version, files, cmd, at, seen, read, history>>

TypeOK ==
  /\ version \in Versions /\ skill \in Skills \cup {NoSkill}
  /\ settings \in [valid : BOOLEAN, rules : SUBSET Rules]
  /\ saved \subseteq Rules /\ owned \subseteq Rules
  /\ cmd \in Commands \cup {NoCommand} /\ at \in Steps \cup {"idle"}
  /\ seen \in Skills \cup {NoSkill} /\ read \in [rules : SUBSET Rules, owned : SUBSET Rules, hers : SUBSET Rules]
  /\ hers \subseteq settings.rules /\ again \subseteq Rules
  /\ edited \subseteq Rules /\ late \subseteq edited
  /\ unrecorded \subseteq Rules /\ edits \in 0..MaxEdits

-----------------------------------------------------------------------------
(* _apply                                                                  *)

Wants == IF cmd.do = "install" THEN RULES[version] ELSE {}

\* benchops's rules that are out of date go, the missing ones come.
Drop     == (read.owned \ Wants) \cap read.rules
NewRules == (read.rules \ Drop) \cup Wants

ClaimsAll(rs)  == Wants         \* mutant: rules that were there count as added
AddedNow(rs)   == Wants \ rs    \* mutant: what was added before is forgotten
NowOwned(rs)   == Wants \cap (read.owned \cup (Wants \ rs))

\* benchops has recorded r as its own, has read that it has, or is to record it.
Counted(r) == r \in owned \cup read.owned \/ (at \in {"backup", "settings", "record"} /\ r \in Wants \ read.rules)

NothingRead == [rules |-> {}, owned |-> {}, hers |-> {}]

-----------------------------------------------------------------------------
(* Commands                                                                *)

Goto(from, to) == /\ at = from /\ at' = to
                  /\ cmd' = IF to = "idle" THEN NoCommand ELSE cmd

\* _refusal
Foreign(s) == s # NoSkill /\ (s.link \/ s.by = "hand" \/ s.edited)

\* inspect_installed
Begin == \E c \in Commands :
  /\ at = "idle" /\ (c.do = "uninstall" => c.permissions)
  /\ Foreign(skill) => c.force
  /\ cmd' = c /\ at' = "skill" /\ seen' = skill
  /\ UNCHANGED <<version, files, read, history>>

\* uninstall goes on without a skill or the link it has seen, but not without a
\* file that it has seen.
Missing == cmd.do = "uninstall" /\ seen # NoSkill /\ ~seen.link /\ skill = NoSkill

\* A link is removed, what it points at stays, and so does what has taken its
\* place.
WriteSkill ==
  /\ Goto("skill", IF ~cmd.permissions \/ Missing THEN "idle" ELSE "rules")
  /\ skill' = CASE cmd.do = "install" -> [by |-> version, edited |-> FALSE, link |-> FALSE]
                [] seen = NoSkill     -> skill
                [] skill # NoSkill /\ seen.link /\ ~skill.link -> skill
                [] OTHER              -> NoSkill
  /\ seen' = NoSkill
  /\ UNCHANGED <<version, settings, saved, owned, read, history>>

ReadRules ==
  /\ settings.valid
  /\ read' = [rules |-> settings.rules, owned |-> owned, hers |-> hers]
  /\ edited' = {} /\ late' = {}
  /\ Goto("rules", IF (cmd.do = "install" /\ ~(Wants \subseteq settings.rules))
                      \/ (owned \ Wants) \cap settings.rules # {} THEN "backup" ELSE "record")
  /\ UNCHANGED <<version, files, seen, hers, again, unrecorded, edits>>

\* SettingsError: "it was left unchanged".
Unreadable ==
  /\ ~settings.valid /\ Goto("rules", "idle")
  /\ UNCHANGED <<version, files, seen, read, history>>

BackupOfRead == read.rules         \* mutant: the backup is what was read
Backup       == settings.rules

CopySettings ==
  /\ Goto("backup", "settings")
  /\ saved' = Backup /\ late' = {}
  /\ UNCHANGED <<version, skill, settings, owned, seen, read, hers, again, edited, unrecorded, edits>>

WriteSettings ==
  /\ Goto("settings", "record")
  /\ settings' = [valid |-> TRUE, rules |-> NewRules]
  /\ hers' = (hers \cup read.hers) \cap NewRules
  /\ UNCHANGED <<version, skill, saved, owned, seen, read, again, edited, late, unrecorded, edits>>

WriteRecord ==
  /\ Goto("record", "idle")
  /\ owned' = NowOwned(read.rules)
  /\ read' = NothingRead /\ edited' = {} /\ late' = {}
  /\ UNCHANGED <<version, skill, settings, saved, seen, hers, again, unrecorded, edits>>

Stop ==
  /\ at # "idle" /\ Goto(at, "idle")
  /\ unrecorded' = IF at = "record" THEN unrecorded \cup (Wants \ read.rules) ELSE unrecorded
  /\ seen' = NoSkill /\ read' = NothingRead /\ edited' = {} /\ late' = {}
  /\ UNCHANGED <<version, files, hers, again, edits>>

-----------------------------------------------------------------------------
(* The developer                                                           *)

Edit == edits < MaxEdits /\ edits' = edits + 1 /\ UNCHANGED <<cmd, at, seen, read, owned, saved>>

WriteRule(r) ==
  /\ Edit /\ settings.valid /\ r \notin settings.rules
  /\ settings' = [settings EXCEPT !.rules = @ \cup {r}]
  /\ hers' = hers \cup {r} /\ edited' = edited \cup {r} /\ late' = late \cup {r}
  /\ again' = IF Counted(r) THEN again \cup {r} ELSE again
  /\ UNCHANGED <<version, skill, unrecorded>>

DeleteRule(r) ==
  /\ Edit /\ settings.valid /\ r \in settings.rules
  /\ settings' = [settings EXCEPT !.rules = @ \ {r}]
  /\ hers' = hers \ {r} /\ edited' = edited \cup {r} /\ late' = late \cup {r}
  /\ UNCHANGED <<version, skill, again, unrecorded>>

BreakOrMend ==
  /\ Edit /\ settings' = [settings EXCEPT !.valid = ~@]
  /\ UNCHANGED <<version, skill, hers, again, edited, late, unrecorded>>

ChangeSkill ==
  /\ Edit
  /\ skill' \in {NoSkill} \cup [by : {"hand"}, edited : {FALSE}, link : BOOLEAN]
                \cup (IF skill = NoSkill THEN {} ELSE {[skill EXCEPT !.edited = TRUE]})
  /\ UNCHANGED <<version, settings, hers, again, edited, late, unrecorded>>

\* A record that cannot be read counts for an empty one, and is written over.
LoseRecord ==
  /\ edits < MaxEdits /\ edits' = edits + 1
  /\ owned' = {} /\ unrecorded' = unrecorded \cup owned
  /\ UNCHANGED <<version, skill, settings, saved, cmd, at, seen, read, hers, again, edited, late>>

Upgrade ==
  /\ at = "idle" /\ Edit /\ version' \in Versions \ {version}
  /\ UNCHANGED <<skill, settings, hers, again, edited, late, unrecorded>>

-----------------------------------------------------------------------------

Init ==
  /\ version \in Versions /\ skill = NoSkill
  /\ settings \in [valid : {TRUE}, rules : SUBSET Rules]
  /\ saved = {} /\ owned = {} /\ cmd = NoCommand /\ at = "idle"
  /\ seen = NoSkill /\ read = NothingRead
  /\ hers = settings.rules /\ again = {} /\ edited = {} /\ late = {} /\ unrecorded = {} /\ edits = 0

Next ==
  \/ Begin \/ WriteSkill \/ ReadRules \/ Unreadable \/ CopySettings \/ WriteSettings \/ WriteRecord
  \/ Stop
  \/ BreakOrMend \/ ChangeSkill \/ LoseRecord \/ Upgrade
  \/ \E r \in Rules : WriteRule(r) \/ DeleteRule(r)

Spec == Init /\ [][Next]_vars

-----------------------------------------------------------------------------
(* Properties                                                              *)

\* "Rules a developer wrote are never changed or removed, even when they are
\* identical to one of ours", over any installs, upgrades and uninstalls; but
\* for a rule she writes while benchops counts it as its own, and one she writes
\* while the command is at work.  A skill that is not an untouched copy goes only
\* with --force, but for what was done to it after it was inspected.
DevelopersWorkKept == [][at # "idle" /\ at' # at =>
  /\ hers \ settings'.rules \subseteq again \cup edited
  /\ Foreign(skill) /\ skill' # skill => cmd.force \/ skill # seen]_vars

\* "Previous settings saved as": what the command overwrites of the developer's
\* changes is in the backup, but for what she writes between the copy and the
\* replacement.
LostIsInBackup == [][at = "settings" /\ at' = "record" =>
  hers \ settings'.rules \subseteq saved \cup late]_vars

\* "The merge ... removes rules it added itself": once a command has written the
\* settings, they hold the developer's rules and those this version wants, none
\* (an uninstall) or its own (an upgrade); nothing is left of any earlier version
\* but for what a command added that was stopped before it could record it, and
\* what was on a record that has become unreadable.
OnlyWantedLeft == at = "record" =>
  settings.rules \ hers \subseteq Wants \cup unrecorded
=============================================================================
