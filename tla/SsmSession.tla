----------------------------- MODULE SsmSession ------------------------------
(***************************************************************************)
(* How a command reaches a bench and lets go of it: the local machine, SSH *)
(* (connected on first use), a Session Manager shell ("ssm") or SSH through*)
(* a Session Manager port forward ("ssm-ssh").  The latter two hold an AWS *)
(* session, a plugin process outside the terminal's process group and, for *)
(* the forward, a log file in which the plugin says when it is ready.      *)
(***************************************************************************)
CONSTANT Kinds       \* the connection types of the instance

ASSUME KindsAssumption == Kinds \subseteq {"local", "ssh", "ssm", "ssm-ssh"}

VARIABLES
  kind,      \* connection type
  link,      \* where the client is in open and close
  session,   \* the AWS session; "orphan": left to its idle timeout
  plugin,    \* session-manager-plugin; "killed": it has not gone yet
  said,      \* it has announced itself, or the shell has answered the probe
  log,       \* the tunnel's log file exists
  late,      \* the deadline of open has passed
  stopped    \* history: where Ctrl+C or a lost connection has stopped the client, and
             \* the errors that open or close does not clean up after

connection == <<kind, link, session, plugin, said, log, late>>

HasSession == kind \in {"ssm", "ssm-ssh"}
Links  == {"new", "started", "logged", "waiting", "open", "closing", "ending", "closed"}
Errors == {"unheard", "no log", "hung"}

LinkTypeOK ==
  /\ kind \in Kinds /\ link \in Links
  /\ session \in {"none", "active", "orphan"}
  /\ plugin \in {"none", "running", "killed", "dead"}
  /\ said \in BOOLEAN /\ log \in BOOLEAN /\ late \in BOOLEAN

LinkInit ==
  /\ kind \in Kinds /\ link = "new" /\ session = "none" /\ plugin = "none"
  /\ said = FALSE /\ log = FALSE /\ late = FALSE

Link(from, to) == link = from /\ link' = to

-----------------------------------------------------------------------------
(* open                                                                    *)

ConnectDirect ==
  /\ ~HasSession /\ Link("new", "open")
  /\ UNCHANGED <<kind, session, plugin, said, log, late>>

StartSession ==
  /\ HasSession /\ Link("new", "started")
  /\ session' = "active"
  /\ UNCHANGED <<kind, plugin, said, log, late>>

\* No plugin, no credentials, or AWS refuses.
StartRefused ==
  /\ HasSession /\ Link("new", "closed")
  /\ UNCHANGED <<kind, session, plugin, said, log, late>>

\* AWS starts the session, and its answer does not arrive.
Unheard ==
  /\ HasSession /\ Link("new", "closed")
  /\ session' = "active" /\ stopped' = stopped \cup {"unheard"}
  /\ UNCHANGED <<kind, plugin, said, log, late>>

MakeLog ==
  /\ kind = "ssm-ssh" /\ Link("started", "logged")
  /\ log' = TRUE
  /\ UNCHANGED <<kind, session, plugin, said, late>>

\* mkstemp fails, and open does not close.
NoLog ==
  /\ kind = "ssm-ssh" /\ Link("started", "closed")
  /\ stopped' = stopped \cup {"no log"}
  /\ UNCHANGED <<kind, session, plugin, said, log, late>>

Launching == link = (IF kind = "ssm-ssh" THEN "logged" ELSE "started")

Launch ==
  /\ Launching /\ link' = "waiting"
  /\ plugin' = "running"
  /\ UNCHANGED <<kind, session, said, log, late>>

LaunchFails ==
  /\ Launching /\ link' = "closing"
  /\ UNCHANGED <<kind, session, plugin, said, log, late>>

\* The tunnel looks at the clock, then for the announcement, then at the
\* process; the shell waits for its answer until a probe goes unanswered after
\* the deadline.
Opens ==
  /\ said /\ (kind = "ssm-ssh" => ~late)
  /\ Link("waiting", "open")
  /\ UNCHANGED <<kind, session, plugin, said, log, late>>

\* Also a shell whose user may not use sudo, or that stops answering.
NoAnswer == plugin = "dead" /\ ~said     \* mutant: no deadline
Hopeless == IF kind = "ssm" THEN said \/ late \/ plugin = "dead"
            ELSE late \/ (plugin = "dead" /\ ~said)

GivesUp ==
  /\ Hopeless
  /\ Link("waiting", "closing")
  /\ UNCHANGED <<kind, session, plugin, said, log, late>>

-----------------------------------------------------------------------------
(* close                                                                   *)

StartClosing ==
  /\ Link("open", IF HasSession THEN "closing" ELSE "closed")
  /\ UNCHANGED <<kind, session, plugin, said, log, late>>

\* terminate, five seconds, kill, five seconds
PluginLives  == plugin \in {"running", "killed"}
PluginEnded  == IF PluginLives THEN "dead" ELSE plugin
SessionEnded == IF session = "active" THEN {"none", "orphan"} ELSE {session}

EndPlugin ==
  /\ Link("closing", "ending")
  /\ plugin' = PluginEnded
  /\ UNCHANGED <<kind, session, said, log, late>>

\* It is not gone five seconds after the kill: end_session ends here.
Hung == PluginLives /\ plugin' = "killed" /\ UNCHANGED session

Hangs ==
  /\ Link("closing", "closed") /\ Hung
  /\ stopped' = stopped \cup {"hung"}
  /\ UNCHANGED <<kind, said, log, late>>

EndSession ==
  /\ Link("ending", "closed")
  /\ session' \in SessionEnded /\ log' = FALSE
  /\ UNCHANGED <<kind, plugin, said, late>>

-----------------------------------------------------------------------------
(* The plugin, the clock, Ctrl+C                                           *)

Announce ==
  /\ plugin = "running" /\ ~said
  /\ said' = TRUE
  /\ UNCHANGED <<kind, link, session, plugin, log, late>>

PluginDies ==
  /\ PluginLives
  /\ plugin' = "dead"
  /\ UNCHANGED <<kind, link, session, said, log, late>>

DeadlinePasses ==
  /\ link = "waiting" /\ ~late
  /\ late' = TRUE
  /\ UNCHANGED <<kind, link, session, plugin, said, log>>

\* Only the shell's open closes after a Ctrl+C; the tunnel's does after its own
\* errors.  What the call it comes in does may be done; in closing, what is left
\* to close stays.
InterruptLink ==
  /\ link \notin {"open", "closed"}
  /\ link' = IF link = "waiting" /\ kind = "ssm" THEN "closing" ELSE "closed"
  /\ session' \in {session} \cup (IF link = "new" /\ HasSession THEN {"active"}
                                 ELSE IF link = "ending" THEN SessionEnded ELSE {})
  /\ plugin' \in {plugin} \cup (IF Launching THEN {"running"} ELSE {})
  /\ log' \in {log} \cup (IF link = "started" /\ kind = "ssm-ssh" THEN {TRUE} ELSE {})
  /\ stopped' = stopped \cup {link}
  /\ UNCHANGED <<kind, said, late>>

Client == ConnectDirect \/ StartSession \/ StartRefused \/ MakeLog \/ Launch \/ LaunchFails \/ Opens \/ GivesUp
          \/ EndPlugin \/ EndSession
NotClosed   == Unheard \/ NoLog \/ Hangs
Environment == Announce \/ PluginDies \/ DeadlinePasses

\* What may be left.
CutShort    == \/ stopped \cap {"started", "logged", "closing"} # {}
               \/ "waiting" \in stopped /\ kind = "ssm-ssh"
SessionLeft == CutShort \/ stopped \cap ({"new", "ending"} \cup Errors) # {}
LogLeft     == CutShort \/ stopped \cap {"ending", "hung"} # {}

\* Whatever way a command lets go of the bench, the plugin, the AWS session and
\* the log file are gone, but for what these leave:
\*   - Ctrl+C from the start of the session to the tunnel's being ready, in a
\*     shell only to the launch of the plugin, and Ctrl+C in the closing;
\*   - the session, when AWS has started it unheard, or the tunnel cannot make
\*     its log file;
\*   - session and log, when the plugin has not gone five seconds after its kill.
LinkGone == link = "closed" =>
  /\ plugin = "running"  => CutShort
  /\ session = "active" => SessionLeft
  /\ log                => LogLeft
=============================================================================
