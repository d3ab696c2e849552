-------------------------- MODULE ClaudeSkillProofs --------------------------
(***************************************************************************)
(* For any rules, versions and number of edits: what the installer of the  *)
(* Claude Code skill leaves of the developer's rules and of benchops'.     *)
(***************************************************************************)
EXTENDS ClaudeSkill, TLAPS

Merging == {"backup", "settings", "record"}

\* What the command that merges is to record as added.
Pending == IF at \in Merging THEN Wants \ read.rules ELSE {}

-----------------------------------------------------------------------------

\* Types hold whatever the developer does to the files.
THEOREM ClaudeTypes == Spec => []TypeOK
<1>1. Init => TypeOK
  <2> SUFFICES ASSUME Init PROVE TypeOK
    OBVIOUS
  <2>1. settings \in [valid : BOOLEAN, rules : SUBSET Rules] /\ hers \subseteq settings.rules
    BY DEF Init
  <2>2. read \in [rules : SUBSET Rules, owned : SUBSET Rules, hers : SUBSET Rules]
    BY DEF Init, NothingRead
  <2> QED
    BY <2>1, <2>2, SkillAssumption DEF Init, TypeOK
<1>2. TypeOK /\ [Next]_vars => TypeOK'
  <2> SUFFICES ASSUME TypeOK, [Next]_vars PROVE TypeOK'
    OBVIOUS
  <2> USE DEF TypeOK
  <2>0. Wants \subseteq Rules
    BY SkillAssumption DEF Wants
  <2>1. CASE UNCHANGED vars
    BY <2>1 DEF vars, files, history
  <2>2. CASE Begin
    BY <2>2 DEF Begin, files, history, Steps
  <2>3. CASE WriteSkill
    <3>1. skill' \in Skills \cup {NoSkill}
      BY <2>3 DEF WriteSkill, Skills
    <3> QED
      BY <2>3, <3>1 DEF WriteSkill, Goto, history, Steps
  <2>4. CASE ReadRules
    BY <2>4 DEF ReadRules, Goto, files, Steps
  <2>5. CASE Unreadable
    BY <2>5 DEF Unreadable, Goto, files, history, Steps
  <2>6. CASE CopySettings
    BY <2>6 DEF CopySettings, Backup, Goto, Steps
  <2>7. CASE WriteSettings
    BY <2>0, <2>7 DEF WriteSettings, NewRules, Drop, Goto, Steps
  <2>8. CASE WriteRecord
    BY <2>0, <2>8 DEF WriteRecord, NowOwned, NothingRead, Goto, Steps
  <2>9. CASE Stop
    BY <2>0, <2>9 DEF Stop, NothingRead, Goto, files, Steps
  <2>10. CASE BreakOrMend
    <3>1. settings' \in [valid : BOOLEAN, rules : SUBSET Rules] /\ settings'.rules = settings.rules
      BY <2>10 DEF BreakOrMend
    <3> QED
      BY <2>10, <3>1, SkillAssumption DEF BreakOrMend, Edit
  <2>11. CASE ChangeSkill
    <3>1. skill' \in Skills \cup {NoSkill}
      BY <2>11 DEF ChangeSkill, Skills
    <3> QED
      BY <2>11, <3>1, SkillAssumption DEF ChangeSkill, Edit
  <2>12. CASE Upgrade
    BY <2>12, SkillAssumption DEF Upgrade, Edit
  <2>13. ASSUME NEW r \in Rules, WriteRule(r)
         PROVE  TypeOK'
    BY <2>13, SkillAssumption DEF WriteRule, Edit
  <2>14. ASSUME NEW r \in Rules, DeleteRule(r)
         PROVE  TypeOK'
    BY <2>14, SkillAssumption DEF DeleteRule, Edit
  <2>15. CASE LoseRecord
    BY <2>15, SkillAssumption DEF LoseRecord
  <2> QED
    BY <2>1, <2>2, <2>3, <2>4, <2>5, <2>6, <2>7, <2>8, <2>9, <2>10, <2>11, <2>12, <2>13, <2>14, <2>15
    DEF Next
<1> QED
  BY <1>1, <1>2, PTL DEF Spec

-----------------------------------------------------------------------------
(* What is benchops'                                                       *)

\* A rule that is not the developer's is on record, is about to be, or a
\* command that added it was stopped, or the record lost.  While a command
\* merges, the record is what it read or lost, and so is what it read then.
OursKnown ==
  /\ settings.rules \ hers \subseteq owned \cup unrecorded \cup (IF at = "record" THEN Pending ELSE {})
  /\ at \in Merging => /\ owned \subseteq read.owned /\ read.owned \subseteq owned \cup unrecorded
                       /\ read.rules \ read.hers \subseteq owned \cup unrecorded
  /\ OnlyWantedLeft

LEMMA OursStayKnown == Spec => []OursKnown
<1>1. Init => OursKnown
  BY DEF Init, OursKnown, OnlyWantedLeft, Merging, Pending
<1>2. TypeOK /\ OursKnown /\ [Next]_vars => OursKnown'
  <2> SUFFICES ASSUME TypeOK, OursKnown, [Next]_vars PROVE OursKnown'
    OBVIOUS
  <2> USE DEF OursKnown, OnlyWantedLeft, Merging, Pending
  <2>1. CASE UNCHANGED vars
    BY <2>1 DEF vars, files, history, Wants
  <2>2. CASE Begin
    BY <2>2 DEF Begin, files, history
  <2>3. CASE WriteSkill
    BY <2>3 DEF WriteSkill, Goto, history
  <2>4. CASE ReadRules
    <3>1. /\ at = "rules" /\ cmd' = cmd /\ Wants' = Wants
          /\ settings' = settings /\ owned' = owned /\ hers' = hers /\ unrecorded' = unrecorded
          /\ read'.rules = settings.rules /\ read'.owned = owned /\ read'.hers = hers
      BY <2>4 DEF ReadRules, Goto, files, Wants
    <3>2. settings.rules \ hers \subseteq owned \cup unrecorded
      BY <3>1
    <3>3. at' = "record" => (owned \ Wants) \cap settings.rules = {}
      BY <2>4 DEF ReadRules, Goto
    <3> QED
      BY <3>1, <3>2, <3>3
  <2>5. CASE Unreadable
    BY <2>5 DEF Unreadable, Goto, files, history
  <2>6. CASE CopySettings
    BY <2>6 DEF CopySettings, Goto, Wants
  <2>7. CASE WriteSettings
    <3>1. /\ at = "settings" /\ at' = "record" /\ Wants' = Wants
          /\ settings'.rules = NewRules /\ hers' = (hers \cup read.hers) \cap NewRules
          /\ owned' = owned /\ unrecorded' = unrecorded /\ read' = read
      BY <2>7 DEF WriteSettings, Goto, Wants
    <3>2. settings'.rules \ hers' \subseteq (read.rules \ (read.hers \cup Drop)) \cup (Wants \ read.hers)
      BY <3>1 DEF NewRules
    <3>3. read.rules \ (read.hers \cup Drop) \subseteq Wants \cup unrecorded
      BY <3>1 DEF Drop
    <3> QED
      BY <3>1, <3>2, <3>3
  <2>8. CASE WriteRecord
    <3>1. owned' = Wants \cap (read.owned \cup Pending)
      BY <2>8 DEF WriteRecord, NowOwned, Goto
    <3> QED
      BY <2>8, <3>1 DEF WriteRecord, Goto
  <2>9. CASE Stop
    <3>1. /\ at' = "idle" /\ settings' = settings /\ hers' = hers /\ owned' = owned
          /\ unrecorded \subseteq unrecorded' /\ (at = "record" => Pending \subseteq unrecorded')
      BY <2>9 DEF Stop, Goto, files
    <3>2. at # "record" => settings.rules \ hers \subseteq owned \cup unrecorded
      OBVIOUS
    <3> QED
      BY <3>1, <3>2
  <2>10. CASE BreakOrMend
    <3>1. settings'.rules = settings.rules
      BY <2>10 DEF BreakOrMend, TypeOK
    <3> QED
      BY <2>10, <3>1 DEF BreakOrMend, Edit, Wants
  <2>11. CASE ChangeSkill
    BY <2>11 DEF ChangeSkill, Edit, Wants
  <2>12. CASE Upgrade
    BY <2>12 DEF Upgrade, Edit
  <2>13. ASSUME NEW r \in Rules, WriteRule(r)
         PROVE  OursKnown'
    <3>1. settings'.rules = settings.rules \cup {r}
      BY <2>13 DEF WriteRule, TypeOK
    <3> QED
      BY <2>13, <3>1 DEF WriteRule, Edit, Wants
  <2>14. ASSUME NEW r \in Rules, DeleteRule(r)
         PROVE  OursKnown'
    <3>1. settings'.rules = settings.rules \ {r}
      BY <2>14 DEF DeleteRule, TypeOK
    <3> QED
      BY <2>14, <3>1 DEF DeleteRule, Edit, Wants
  <2>15. CASE LoseRecord
    BY <2>15 DEF LoseRecord, Wants
  <2> QED
    BY <2>1, <2>2, <2>3, <2>4, <2>5, <2>6, <2>7, <2>8, <2>9, <2>10, <2>11, <2>12, <2>13, <2>14, <2>15
    DEF Next
<1> QED
  BY <1>1, <1>2, ClaudeTypes, PTL DEF Spec

\* The merge removes the rules benchops added itself: what a command leaves is
\* the developer's, wanted, or of a command stopped before it recorded it.
THEOREM UnwantedRulesGo == Spec => []OnlyWantedLeft
<1>1. OursKnown => OnlyWantedLeft
  BY DEF OursKnown
<1> QED
  BY <1>1, OursStayKnown, PTL

-----------------------------------------------------------------------------
(* What is the developer's                                                 *)

\* Of her rules, benchops counts only those as its own that she wrote when it
\* did so already.  What a command has not read she has edited since, and what
\* it has not copied she has written since.
HersKnown ==
  /\ hers \cap (owned \cup Pending) \subseteq again
  /\ at \in Merging => /\ owned \subseteq read.owned /\ read.hers \subseteq read.rules
                       /\ (hers \cup read.hers) \cap read.owned \subseteq again
  /\ at \in {"backup", "settings"} => settings.rules \subseteq read.rules \cup edited
  /\ at = "settings" => hers \subseteq saved \cup late
  /\ at = "skill" /\ Foreign(seen) => cmd.force

LEMMA HersStayKnown == Spec => []HersKnown
<1>1. Init => HersKnown
  BY DEF Init, HersKnown, Merging, Pending
<1>2. TypeOK /\ HersKnown /\ [Next]_vars => HersKnown'
  <2> SUFFICES ASSUME TypeOK, HersKnown, [Next]_vars PROVE HersKnown'
    OBVIOUS
  <2> USE DEF HersKnown, Merging, Pending
  <2>1. CASE UNCHANGED vars
    BY <2>1 DEF vars, files, history, Wants, Foreign
  <2>2. CASE Begin
    BY <2>2 DEF Begin, files, history, Foreign
  <2>3. CASE WriteSkill
    BY <2>3 DEF WriteSkill, Goto, history
  <2>4. CASE ReadRules
    <3>1. /\ at = "rules" /\ at' \in {"backup", "record"} /\ Wants' = Wants
          /\ settings' = settings /\ owned' = owned /\ hers' = hers /\ again' = again
          /\ read'.rules = settings.rules /\ read'.owned = owned /\ read'.hers = hers
      BY <2>4 DEF ReadRules, Goto, files, Wants
    <3>2. hers \subseteq settings.rules
      BY DEF TypeOK
    <3> QED
      BY <3>1, <3>2
  <2>5. CASE Unreadable
    BY <2>5 DEF Unreadable, Goto, files, history
  <2>6. CASE CopySettings
    <3>1. hers' \subseteq saved'
      BY <2>6 DEF CopySettings, Backup, TypeOK
    <3> QED
      BY <2>6, <3>1 DEF CopySettings, Goto, Wants
  <2>7. CASE WriteSettings
    <3>1. /\ at = "settings" /\ at' = "record" /\ Wants' = Wants
          /\ hers' \subseteq hers \cup read.hers
          /\ owned' = owned /\ again' = again /\ read' = read
      BY <2>7 DEF WriteSettings, Goto, Wants
    <3> QED
      BY <3>1
  <2>8. CASE WriteRecord
    <3>1. owned' \subseteq read.owned \cup Pending
      BY <2>8 DEF WriteRecord, NowOwned, Goto
    <3> QED
      BY <2>8, <3>1 DEF WriteRecord, Goto
  <2>9. CASE Stop
    BY <2>9 DEF Stop, Goto, files
  <2>10. CASE BreakOrMend
    <3>1. settings'.rules = settings.rules
      BY <2>10 DEF BreakOrMend, TypeOK
    <3> QED
      BY <2>10, <3>1 DEF BreakOrMend, Edit, Wants, Foreign
  <2>11. CASE ChangeSkill
    BY <2>11 DEF ChangeSkill, Edit, Wants, Foreign
  <2>12. CASE Upgrade
    BY <2>12 DEF Upgrade, Edit
  <2>13. ASSUME NEW r \in Rules, WriteRule(r)
         PROVE  HersKnown'
    <3>1. /\ settings'.rules = settings.rules \cup {r}
          /\ hers' = hers \cup {r} /\ edited' = edited \cup {r} /\ late' = late \cup {r}
          /\ at' = at /\ cmd' = cmd /\ seen' = seen /\ read' = read
          /\ owned' = owned /\ saved' = saved /\ Wants' = Wants
      BY <2>13 DEF WriteRule, Edit, Wants, TypeOK
    <3>2. again \subseteq again' /\ (r \in owned \cup read.owned \cup Pending => r \in again')
      BY <2>13 DEF WriteRule, Counted
    <3> QED
      BY <3>1, <3>2 DEF Foreign
  <2>14. ASSUME NEW r \in Rules, DeleteRule(r)
         PROVE  HersKnown'
    <3>1. settings'.rules = settings.rules \ {r}
      BY <2>14 DEF DeleteRule, TypeOK
    <3> QED
      BY <2>14, <3>1 DEF DeleteRule, Edit, Wants, Foreign
  <2>15. CASE LoseRecord
    BY <2>15 DEF LoseRecord, Wants, Foreign
  <2> QED
    BY <2>1, <2>2, <2>3, <2>4, <2>5, <2>6, <2>7, <2>8, <2>9, <2>10, <2>11, <2>12, <2>13, <2>14, <2>15
    DEF Next
<1> QED
  BY <1>1, <1>2, ClaudeTypes, PTL DEF Spec

\* Only the merge writes rules, and only the first step the skill.
LEMMA WritingSteps ==
  ASSUME [Next]_vars, at # "idle", at' # at
  PROVE  /\ settings' # settings => WriteSettings
         /\ skill' # skill => WriteSkill
<1>1. CASE UNCHANGED vars
  BY <1>1 DEF vars
<1>2. CASE Next
  BY <1>2 DEF Next, Begin, WriteSkill, ReadRules, Unreadable, CopySettings, WriteRecord, WriteSettings,
              Stop, BreakOrMend, ChangeSkill, LoseRecord, Upgrade, WriteRule, DeleteRule, Edit, files
<1> QED
  BY <1>1, <1>2

\* "Rules a developer wrote are never changed or removed": the merge removes none
\* but those she wrote while benchops counted them as its own or while it was at
\* work, and her own skill goes only with --force.
THEOREM DevelopersRulesStay == Spec => DevelopersWorkKept
<1>1. TypeOK /\ HersKnown /\ [Next]_vars =>
        [at # "idle" /\ at' # at =>
           /\ hers \ settings'.rules \subseteq again \cup edited
           /\ Foreign(skill) /\ skill' # skill => cmd.force \/ skill # seen]_vars
  <2> SUFFICES ASSUME TypeOK, HersKnown, [Next]_vars, at # "idle", at' # at
               PROVE  /\ hers \ settings'.rules \subseteq again \cup edited
                      /\ Foreign(skill) /\ skill' # skill => cmd.force \/ skill # seen
    OBVIOUS
  <2>1. hers \subseteq settings.rules
    BY DEF TypeOK
  <2>2. CASE WriteSettings
    <3>1. at = "settings" /\ settings'.rules = NewRules
      BY <2>2 DEF WriteSettings, Goto
    <3>2. hers \cap Drop \subseteq again
      BY <3>1 DEF HersKnown, Merging, Drop
    <3>3. hers \subseteq read.rules \cup edited
      BY <2>1, <3>1 DEF HersKnown
    <3> QED
      BY <2>2, <3>1, <3>2, <3>3 DEF NewRules, WriteSettings
  <2>3. CASE WriteSkill
    BY <2>1, <2>3 DEF WriteSkill, Goto, HersKnown
  <2>4. CASE settings' = settings /\ skill' = skill
    BY <2>1, <2>4
  <2> QED
    BY <2>2, <2>3, <2>4, WritingSteps
<1> QED
  BY <1>1, ClaudeTypes, HersStayKnown, PTL DEF Spec, DevelopersWorkKept

\* "Previous settings saved as": whatever of hers the merge overwrites is in the
\* backup, but for what she writes between the copy and the replacement.
THEOREM OverwrittenIsSaved == Spec => LostIsInBackup
<1>1. HersKnown /\ [Next]_vars =>
        [at = "settings" /\ at' = "record" => hers \ settings'.rules \subseteq saved \cup late]_vars
  BY DEF HersKnown
<1> QED
  BY <1>1, HersStayKnown, PTL DEF Spec, LostIsInBackup

=============================================================================
