------------------------------- MODULE SsmShell ------------------------------
(***************************************************************************)
(* Commands over one Session Manager shell session (SsmShellRunner): the   *)
(* client types a helper call and its payload into a terminal and waits    *)
(* for markers in what the terminal prints.  The terminal handles Ctrl+C   *)
(* out of band: the signal goes to whatever runs in the foreground, and    *)
(* input not yet read is thrown away.  Ctrl+C may be pressed at any        *)
(* moment, also between two lines of the client.                           *)
(*                                                                         *)
(* Commands are numbered in the order they are sent; the number stands for *)
(* the nonce.                                                              *)
(***************************************************************************)
EXTENDS Naturals, Sequences

CONSTANTS
  MaxCommands,   \* bound: commands sent over the session
  MaxPresses,    \* bound: times Ctrl+C is pressed
  Stubborn,      \* the commands that may ignore SIGINT
  NoTemp,        \* those for which mktemp may fail on the server
  Lossy,         \* those during which Ctrl+C may come just after a marker is consumed
  Drops          \* whether the session may end by itself

ASSUME ShellAssumption ==
  /\ MaxCommands \in Nat /\ MaxPresses \in Nat
  /\ Stubborn \cup NoTemp \cup Lossy \subseteq 1 .. MaxCommands
  /\ Drops \in BOOLEAN

VARIABLES
  client,       \* where the runner is: between commands or in one
  n,            \* the command it last started
  interactive,  \* whether that is an interactive run
  interrupted,  \* self._interrupted
  sent,         \* self._interrupt_sent
  alive,        \* the plugin process and its session
  wire,         \* typed, on its way to the server
  tty,          \* the terminal's input queue
  shell,        \* what the remote shell does, for which command
  out,          \* the session output the client has not consumed
  presses,      \* history: times Ctrl+C was pressed
  pressed,      \* history: commands during which it was
  hit,          \* history: commands that got a SIGINT
  cut,          \* history: commands whose payload a SIGINT cut short
  results       \* history: how each command ended for the caller

remote    == <<tty, shell>>
history   == <<presses, pressed, hit, cut, results>>
shellVars == <<client, n, interactive, interrupted, sent, alive, wire, tty, shell, out, history>>

Commands == 1 .. MaxCommands
Line(c)    == [kind |-> "line", of |-> c]
Payload(c) == [kind |-> "payload", of |-> c]
CtrlC      == [kind |-> "ctrl_c", of |-> 0]
Mark(k, c) == [kind |-> k, of |-> c]     \* R_<nonce>, X_<nonce>, E_<nonce>

InCommand == client \in {"sending", "receiving", "received", "executing"}
Idle      == [at |-> "idle", of |-> 0]

-----------------------------------------------------------------------------
(* The remote shell                                                        *)

\* A typed line reaches the terminal.
Deliver ==
  /\ wire # <<>> /\ Head(wire) # CtrlC
  /\ wire' = Tail(wire) /\ tty' = Append(tty, Head(wire))
  /\ UNCHANGED <<client, n, interactive, interrupted, sent, alive, shell, out, history>>

\* Ctrl+C reaches it.  The helpers' shell traps SIGINT; what they run does not.
DeliverCtrlC ==
  /\ wire # <<>> /\ Head(wire) = CtrlC
  /\ wire' = Tail(wire) /\ tty' = <<>>
  /\ \/ /\ shell.at = "idle"
        /\ UNCHANGED <<shell, out, hit, cut>>
     \/ /\ shell.at = "recv"
        /\ cut' = cut \cup {shell.of}
        /\ shell' = Idle /\ out' = Append(out, Mark("X", shell.of))
        /\ UNCHANGED hit
     \/ /\ shell.at = "exec"
        /\ hit' = hit \cup {shell.of}
        /\ \/ /\ shell' = Idle /\ out' = Append(out, Mark("E", shell.of))
           \/ /\ shell.of \in Stubborn
              /\ UNCHANGED <<shell, out>>
        /\ UNCHANGED cut
  /\ UNCHANGED <<client, n, interactive, interrupted, sent, alive, presses, pressed, results>>

\* __bo_run, __bo_capture, __bo_put: a temporary file first.
ReadLine ==
  /\ shell = Idle /\ tty # <<>> /\ Head(tty).kind = "line"
  /\ tty' = Tail(tty)
  /\ \/ shell' = [at |-> "recv", of |-> Head(tty).of]
     \/ Head(tty).of \in NoTemp /\ UNCHANGED shell     \* `mktemp || return`
  /\ UNCHANGED <<client, n, interactive, interrupted, sent, alive, wire, out, history>>

\* Payload nobody receives is typed into the shell.
ReadStray ==
  /\ shell = Idle /\ tty # <<>> /\ Head(tty).kind = "payload"
  /\ tty' = Tail(tty)
  /\ UNCHANGED <<client, n, interactive, interrupted, sent, alive, wire, shell, out, history>>

\* __bo_recv, then __bo_exec.
Receive ==
  /\ shell.at = "recv" /\ tty # <<>> /\ Head(tty) = Payload(shell.of)
  /\ tty' = Tail(tty)
  /\ shell' = [shell EXCEPT !.at = "exec"]
  /\ out' = Append(out, Mark("R", shell.of))
  /\ UNCHANGED <<client, n, interactive, interrupted, sent, alive, wire, history>>

Complete ==
  /\ shell.at = "exec"
  /\ shell' = Idle
  /\ out' = Append(out, Mark("E", shell.of))
  /\ UNCHANGED <<client, n, interactive, interrupted, sent, alive, wire, tty, history>>

\* What happens by itself; a command may run for ever.
Prompt == alive /\ (Deliver \/ DeliverCtrlC \/ ReadLine \/ ReadStray \/ Receive)
Remote == Prompt \/ (alive /\ Complete)

-----------------------------------------------------------------------------
(* The runner                                                              *)

Result(what) == results' = [results EXCEPT ![n] = what]

\* _abandon: the terminal is in no known state, so the session is ended.
Abandon(what) ==
  /\ client' = "ready" /\ alive' = FALSE
  /\ Result(what)
  /\ wire' = <<>> /\ tty' = <<>> /\ shell' = Idle
  /\ UNCHANGED <<n, interactive, interrupted, sent, out>>

\* _start forgets the Ctrl+C of the command before.
FlagKept == interrupted     \* mutant: it does not
FlagReset == FALSE

\* run, capture, put
Begin(inter) ==
  /\ client = "ready" /\ n < MaxCommands
  /\ client' = "sending" /\ n' = n + 1
  /\ interactive' = inter
  /\ interrupted' = FlagReset /\ sent' = FALSE
  /\ UNCHANGED <<alive, wire, remote, out, history>>

\* _send refuses a dead session.
SendCommand ==
  /\ client = "sending" /\ alive
  /\ wire' = wire \o <<Line(n), Payload(n)>>
  /\ client' = "receiving"
  /\ UNCHANGED <<n, interactive, interrupted, sent, alive, remote, out, history>>

SendFails ==
  /\ client = "sending" /\ ~alive
  /\ Abandon("error")
  /\ UNCHANGED <<presses, pressed, hit, cut>>

\* _wait consumes everything up to the end of the match.
Printed(k, i) == i \in DOMAIN out /\ out[i] = Mark(k, n)
Consume(i)    == out' = SubSeq(out, i + 1, Len(out))

Awaited == IF client = "executing" THEN {Mark("E", n)} ELSE {Mark("R", n), Mark("X", n)}

GetReceived(i) ==
  /\ client = "receiving" /\ Printed("R", i) /\ Consume(i)
  /\ client' = "received"
  /\ UNCHANGED <<n, interactive, interrupted, sent, alive, wire, remote, history>>

GetRefused(i) ==
  /\ client = "receiving" /\ Printed("X", i)
  /\ Abandon("error")
  /\ UNCHANGED <<presses, pressed, hit, cut>>

\* Mutant: a Ctrl+C pressed while the payload was on its way is forgotten.
RunningForgets ==
  /\ client = "received"
  /\ client' = "executing"
  /\ UNCHANGED <<n, interactive, interrupted, sent, alive, wire, remote, out, history>>

\* Ctrl+C pressed earlier is forwarded now that the payload is in.
Running ==
  /\ client = "received"
  /\ client' = "executing"
  /\ sent' = interrupted
  /\ wire' = IF interrupted THEN Append(wire, CtrlC) ELSE wire
  /\ UNCHANGED <<n, interactive, interrupted, alive, remote, out, history>>

\* _finish: a command ended by Ctrl+C is a KeyboardInterrupt, unless Ctrl+C is
\* how one leaves it.
Unreported == IF interactive THEN "left" ELSE "ok"     \* mutant
Ending == IF interactive THEN "left" ELSE IF interrupted THEN "interrupted" ELSE "ok"

GetDone(i) ==
  /\ client = "executing" /\ Printed("E", i) /\ Consume(i)
  /\ client' = "ready"
  /\ Result(Ending)
  /\ UNCHANGED <<n, interactive, interrupted, sent, alive, wire, remote, presses, pressed, hit, cut>>

\* Mutant: _wait does not look at the end of file.
GetNothingLate ==
  /\ client = "executing" /\ ~alive
  /\ \A i \in DOMAIN out : out[i] \notin Awaited
  /\ Abandon("error")
  /\ UNCHANGED <<presses, pressed, hit, cut>>

\* End of file, and the marker it waits for is not in the buffer.
GetNothing ==
  /\ client \in {"receiving", "executing"} /\ ~alive
  /\ \A i \in DOMAIN out : out[i] \notin Awaited
  /\ Abandon("error")
  /\ UNCHANGED <<presses, pressed, hit, cut>>

Runner ==
  \/ SendCommand \/ SendFails \/ Running \/ GetNothing
  \/ \E i \in DOMAIN out : GetReceived(i) \/ GetRefused(i) \/ GetDone(i)

-----------------------------------------------------------------------------
(* Ctrl+C                                                                  *)

Press ==
  /\ InCommand /\ presses < MaxPresses
  /\ presses' = presses + 1 /\ pressed' = pressed \cup {n}

\* _on_interrupt, in _wait and in _run's loop.
ForwardsAlways == TRUE     \* mutant: forwarded before the payload is received, too
Forwards == client = "executing"
OnInterrupt ==
  /\ ~(client = "executing" /\ sent)
  /\ interrupted' = TRUE
  /\ sent' = (sent \/ Forwards)
  /\ wire' = IF Forwards THEN Append(wire, CtrlC) ELSE wire
  /\ UNCHANGED <<client, n, interactive, alive, remote, hit, cut, results>>

PressWaiting ==
  /\ Press /\ client \in {"receiving", "executing"}
  /\ OnInterrupt
  /\ UNCHANGED out

\* A second one gives up; so does one outside the waiting loops.
PressAgain ==
  /\ Press
  /\ \/ client \in {"sending", "received"}
     \/ client = "executing" /\ sent
  /\ Abandon("abandoned")
  /\ UNCHANGED <<hit, cut>>

\* After the marker was deleted from the buffer and before it is returned.
PressLoses(i) ==
  /\ n \in Lossy
  /\ Press
  /\ \/ client = "receiving" /\ Printed("R", i)
     \/ client = "executing" /\ Printed("E", i)
  /\ Consume(i)
  /\ OnInterrupt

CtrlCPressed == PressWaiting \/ PressAgain \/ \E i \in DOMAIN out : PressLoses(i)

Drop ==
  /\ Drops /\ alive
  /\ alive' = FALSE
  /\ wire' = <<>> /\ tty' = <<>> /\ shell' = Idle
  /\ UNCHANGED <<client, n, interactive, interrupted, sent, out, history>>

-----------------------------------------------------------------------------

ShellInit ==
  /\ client = "ready" /\ n = 0 /\ interactive = FALSE
  /\ interrupted = FALSE /\ sent = FALSE
  /\ alive = TRUE /\ wire = <<>> /\ tty = <<>> /\ shell = Idle /\ out = <<>>
  /\ presses = 0 /\ pressed = {} /\ hit = {} /\ cut = {}
  /\ results = [c \in Commands |-> "none"]

ShellNext == Remote \/ Runner \/ CtrlCPressed \/ Drop \/ \E inter \in BOOLEAN : Begin(inter)

ShellSpec == ShellInit /\ [][ShellNext]_shellVars

\* The terminal, the shell and the runner go on; a command need not end and
\* nobody has to press anything.
FairSpec == ShellSpec /\ WF_shellVars(Prompt) /\ WF_shellVars(Runner)

-----------------------------------------------------------------------------
(* Properties                                                              *)

Items == [kind : {"line", "payload", "ctrl_c"}, of : 0 .. MaxCommands]
Marks == [kind : {"R", "X", "E"}, of : Commands]

\* Types; and what was forwarded was pressed (ssm_shell.py:267-270, 306-308).
ShellTypeOK ==
  /\ sent => interrupted
  /\ client \in {"ready", "sending", "receiving", "received", "executing"}
  /\ n \in 0 .. MaxCommands
  /\ interactive \in BOOLEAN /\ interrupted \in BOOLEAN /\ sent \in BOOLEAN /\ alive \in BOOLEAN
  /\ wire \in Seq(Items) /\ tty \in Seq(Items) /\ out \in Seq(Marks)
  /\ shell \in [at : {"idle", "recv", "exec"}, of : 0 .. MaxCommands]
  /\ presses \in 0 .. MaxPresses
  /\ pressed \subseteq Commands /\ hit \subseteq Commands /\ cut \subseteq Commands
  /\ results \in [Commands -> {"none", "ok", "left", "interrupted", "error", "abandoned"}]

\* ssm_shell.py: Ctrl+C is forwarded "never while its payload is still being
\* received, which a stray SIGINT would cut short" -- neither the payload of the
\* command it was pressed for nor that of the next one.
PayloadNeverCut == cut = {}

\* ssm_shell.py:298: a SIGINT meant for one command never stops the next.
InterruptsOwnCommand == hit \subseteq pressed

\* _finish: a non-interactive command that Ctrl+C was pressed during is never
\* reported as having gone well, and an undisturbed one never as interrupted.
InterruptIsReported ==
  \A c \in Commands :
    /\ results[c] \in {"interrupted", "abandoned"} => c \in pressed
    /\ results[c] = "ok" => c \notin pressed

\* _abandon: once a command is given up on, nothing more is typed into that terminal:
\* what the shell works on is the last command of a session in a known state.
ShellInStep ==
  shell.at # "idle" => shell.of = n /\ InCommand

\* Ctrl+C ends the command, one way or another, if the command obeys SIGINT
\* and nothing is lost on the way.
InterruptEnds ==
  \A c \in Commands \ (Stubborn \cup NoTemp \cup Lossy) :
    (n = c /\ interrupted /\ InCommand) ~> ~(n = c /\ InCommand)

\* The runner does not wait for ever for its payload to be received, if there
\* is room for a temporary file.
CallAnswered ==
  \A c \in Commands \ (NoTemp \cup Lossy) :
    (n = c /\ client = "receiving") ~> ~(n = c /\ client = "receiving")

\* ssm_shell.py: "X_<n>  payload could not be received" -- every helper call
\* is answered, by R or by X.
EveryCallAnswered ==
  \A c \in Commands : (n = c /\ client = "receiving") ~> ~(n = c /\ client = "receiving")

=============================================================================
