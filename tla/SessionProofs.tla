------------------------------ MODULE SessionProofs ------------------------------
(***************************************************************************)
(* What benchops does over a connection.  SsmShell: Ctrl+C over one shell  *)
(* session, for any number of commands and presses.  Restore: a restore    *)
(* over any kind of connection, for any backups, archives and changes by   *)
(* others: what is replaced is saved, what is said is true, and what was   *)
(* opened is closed.                                                       *)
(***************************************************************************)
EXTENDS SsmShell, Restore, SequenceTheorems, FiniteSetTheorems, WellFoundedInduction, TLAPS

-----------------------------------------------------------------------------
(* SsmShell: where the client, the terminal's two directions and the shell *)
(* can be relative to each other                                           *)

Shown    == {out[i] : i \in DOMAIN out}     \* marks the client has not consumed
Runs(c)  == [at |-> "exec", of |-> c]
Takes(c) == [at |-> "recv", of |-> c]

\* The call and its payload are on their way: nothing follows them, and only a
\* Ctrl+C for the command before, which has ended, can be ahead of them.
Arriving ==
  \/ tty = <<>> /\ wire \in {<<Line(n), Payload(n)>>, <<CtrlC, Line(n), Payload(n)>>} /\ shell = Idle
  \/ tty = <<Line(n)>> /\ wire = <<Payload(n)>> /\ shell = Idle
  \/ tty = <<Line(n), Payload(n)>> /\ wire = <<>> /\ shell = Idle
  \/ tty = <<>> /\ wire = <<Payload(n)>> /\ shell \in {Idle, Takes(n)}
  \/ tty = <<Payload(n)>> /\ wire = <<>> /\ shell \in {Idle, Takes(n)}
Arrived == tty = <<>> /\ wire = <<>> /\ shell \in {Idle, Runs(n)}

\* What is under way at each place the client can be.
Channel ==
  /\ client \in {"ready", "sending"} => tty = <<>> /\ wire \in {<<>>, <<CtrlC>>} /\ shell = Idle
  /\ client = "receiving" => Arriving \/ Arrived
  /\ client = "received" => Arrived
  /\ client = "executing" =>
       /\ tty = <<>> /\ shell \in {Idle, Runs(n)}
       /\ wire = <<>> \/ (wire = <<CtrlC>> /\ sent)

\* What the marks that were printed tell about the other side.
Output ==
  /\ \A m \in Shown : m.of \in 1 .. n
  /\ client = "sending" => \A m \in Shown : m.of # n
  /\ client = "receiving" /\ Mark("R", n) \in Shown => Arrived
  /\ client = "receiving" /\ Mark("E", n) \in Shown => Arrived
  /\ Mark("E", n) \in Shown => shell = Idle

\* What the runner knows of the presses.
Reports ==
  /\ pressed \subseteq 1 .. n
  /\ InCommand => n > 0 /\ (interrupted <=> n \in pressed)
  /\ \A c \in Commands : c > n \/ (c = n /\ InCommand) => results[c] = "none"

ShellInv == PayloadNeverCut /\ InterruptsOwnCommand /\ InterruptIsReported /\ Channel /\ Output /\ Reports

-----------------------------------------------------------------------------
(* Sequences of the terminal                                               *)

LEMMA ItemKinds ==
  \A c, d : /\ Line(c) # Payload(d) /\ Line(c) # CtrlC /\ Payload(c) # CtrlC
            /\ (Line(c).kind = "line" /\ Payload(c).kind = "payload" /\ CtrlC.kind = "ctrl_c")
            /\ Line(c).of = c /\ Payload(c).of = c /\ Runs(c) # Takes(d) /\ Runs(c) # Idle /\ Takes(c) # Idle
            /\ Runs(c).at = "exec" /\ Takes(c).at = "recv" /\ Idle.at = "idle"
            /\ Runs(c).of = c /\ Takes(c).of = c
            /\ Mark("R", c) # Mark("E", d) /\ Mark("X", c) # Mark("R", d) /\ Mark("X", c) # Mark("E", d)
            /\ Mark("R", c).of = c /\ Mark("E", c).of = c /\ Mark("X", c).of = c
BY DEF Line, Payload, CtrlC, Runs, Takes, Idle, Mark

LEMMA ItemsOfTerminal ==
  ASSUME n \in 0 .. MaxCommands
  PROVE  CtrlC \in Items /\ Line(n) \in Items /\ Payload(n) \in Items
BY ShellAssumption DEF CtrlC, Line, Payload, Items

LEMMA MarksOfShell ==
  ASSUME NEW c \in Commands
  PROVE  Mark("R", c) \in Marks /\ Mark("X", c) \in Marks /\ Mark("E", c) \in Marks
BY DEF Mark, Marks

LEMMA AppendShown ==
  ASSUME NEW m \in Marks, out \in Seq(Marks), out' = Append(out, m)
  PROVE  out' \in Seq(Marks) /\ Shown' = Shown \cup {m}
<1>1. out' \in Seq(Marks) /\ Len(out') = Len(out) + 1 /\ out'[Len(out) + 1] = m
      /\ \A i \in 1 .. Len(out) : out'[i] = out[i]
  BY AppendProperties
<1>2. DOMAIN out = 1 .. Len(out) /\ DOMAIN out' = 1 .. (Len(out) + 1) /\ Len(out) \in Nat
  BY <1>1
<1> QED
  BY <1>1, <1>2 DEF Shown

LEMMA ConsumeShown ==
  ASSUME out \in Seq(Marks), NEW i \in DOMAIN out, Consume(i)
  PROVE  out' \in Seq(Marks) /\ Shown' \subseteq Shown
<1>1. out' = SubSeq(out, i + 1, Len(out)) /\ i \in 1 .. Len(out) /\ Len(out) \in Nat
  BY DEF Consume
<1>2. CASE i = Len(out)
  <2>1. out' = <<>>
    BY <1>1, <1>2
  <2> QED
    BY <2>1 DEF Shown
<1>3. CASE i < Len(out)
  <2>1. /\ out' \in Seq(Marks) /\ Len(out') = Len(out) - i
        /\ \A j \in 1 .. Len(out') : out'[j] = out[i + j]
    BY <1>1, <1>3
  <2>2. DOMAIN out' = 1 .. Len(out')
    BY <2>1
  <2>3. \A j \in DOMAIN out' : out'[j] \in Shown
    BY <1>1, <2>1, <2>2 DEF Shown
  <2> QED
    BY <2>1, <2>3 DEF Shown
<1> QED
  BY <1>1, <1>2, <1>3

LEMMA ConcatPair ==
  ASSUME NEW a, NEW b, NEW c PROVE <<a>> \o <<b, c>> = <<a, b, c>>
<1> DEFINE S     == {a, b, c}
           whole == <<a>> \o <<b, c>>
<1>1. <<a>> \in Seq(S) /\ <<b, c>> \in Seq(S) /\ Len(<<a>>) = 1 /\ Len(<<b, c>>) = 2
  OBVIOUS
<1>2. whole \in Seq(S) /\ Len(whole) = 3 /\ whole[1] = a /\ whole[2] = b /\ whole[3] = c
  BY <1>1
<1>3. /\ <<a, b, c>> \in Seq(S) /\ Len(<<a, b, c>>) = 3
      /\ <<a, b, c>>[1] = a /\ <<a, b, c>>[2] = b /\ <<a, b, c>>[3] = c
  OBVIOUS
<1> HIDE DEF whole
<1>4. \A i \in 1 .. 3 : whole[i] = <<a, b, c>>[i]
  BY <1>2, <1>3
<1> QED
  BY <1>2, <1>3, <1>4, SeqEqual DEF whole

LEMMA Tuples ==
  ASSUME NEW a, NEW b, NEW c
  PROVE  /\ <<a>> # <<>> /\ <<a, b>> # <<>> /\ <<a, b, c>> # <<>>
         /\ Head(<<a>>) = a /\ Head(<<a, b>>) = a /\ Head(<<a, b, c>>) = a
         /\ Tail(<<a>>) = <<>> /\ Tail(<<a, b>>) = <<b>> /\ Tail(<<a, b, c>>) = <<b, c>>
         /\ Append(<<>>, a) = <<a>> /\ Append(<<a>>, b) = <<a, b>>
         /\ <<>> \o <<a, b>> = <<a, b>>
<1> DEFINE S == {a, b, c}
<1>1. a \in S /\ b \in S /\ c \in S
  OBVIOUS
<1>2. <<a>> # <<>> /\ <<a, b>> # <<>> /\ <<a, b, c>> # <<>>
  OBVIOUS
<1>3. Head(<<a>>) = a /\ Head(<<a, b>>) = a /\ Head(<<a, b, c>>) = a
  OBVIOUS
<1>4. Tail(<<a>>) = <<>>
  OBVIOUS
<1>5. Tail(<<a, b>>) = <<b>>
  OBVIOUS
<1>6. Tail(<<a, b, c>>) = <<b, c>>
  OBVIOUS
<1>7. Append(<<>>, a) = <<a>> /\ Append(<<a>>, b) = <<a, b>>
  <2> DEFINE pair == Append(<<a>>, b)
  <2>1. Append(<<>>, a) = <<a>>
    OBVIOUS
  <2>2. pair \in Seq(S) /\ Len(pair) = 2 /\ pair[1] = a /\ pair[2] = b
    OBVIOUS
  <2>3. <<a, b>> \in Seq(S) /\ Len(<<a, b>>) = 2 /\ <<a, b>>[1] = a /\ <<a, b>>[2] = b
    OBVIOUS
  <2> HIDE DEF pair
  <2>4. \A i \in 1 .. 2 : pair[i] = <<a, b>>[i]
    BY <2>2, <2>3
  <2> QED
    BY <2>1, <2>2, <2>3, <2>4, SeqEqual DEF pair
<1>8. <<>> \o <<a, b>> = <<a, b>>
  OBVIOUS
<1> QED
  BY <1>2, <1>3, <1>4, <1>5, <1>6, <1>7, <1>8

LEMMA TupleTypes ==
  ASSUME NEW S, NEW a \in S, NEW b \in S, NEW c \in S
  PROVE  <<>> \in Seq(S) /\ <<a>> \in Seq(S) /\ <<a, b>> \in Seq(S) /\ <<a, b, c>> \in Seq(S)
OBVIOUS

\* The sequences that occur in the wire.
LEMMA WiresOfTerminal ==
  ASSUME n \in 0 .. MaxCommands
  PROVE  /\ <<>> \in Seq(Items) /\ <<CtrlC>> \in Seq(Items)
         /\ <<Line(n), Payload(n)>> \in Seq(Items) /\ <<CtrlC, Line(n), Payload(n)>> \in Seq(Items)
         /\ <<CtrlC>> \o <<Line(n), Payload(n)>> = <<CtrlC, Line(n), Payload(n)>>
<1> DEFINE c == CtrlC
           l == Line(n)
           p == Payload(n)
<1>1. c \in Items /\ l \in Items /\ p \in Items
  BY ItemsOfTerminal
<1> HIDE DEF c, l, p
<1>2. <<>> \in Seq(Items) /\ <<c>> \in Seq(Items) /\ <<l, p>> \in Seq(Items) /\ <<c, l, p>> \in Seq(Items)
  BY <1>1, TupleTypes
<1>3. <<c>> \o <<l, p>> = <<c, l, p>>
  BY ConcatPair
<1> QED
  BY <1>2, <1>3 DEF c, l, p

-----------------------------------------------------------------------------
(* The remote shell                                                        *)

Steady == UNCHANGED <<client, n, interactive, interrupted, sent, alive, presses, pressed, results>>

\* The client notices nothing.
LEMMA ReportsKept ==
  ASSUME Reports, InterruptIsReported, Steady
  PROVE  Reports' /\ InterruptIsReported'
BY DEF Reports, InterruptIsReported, Steady, InCommand

LEMMA CommandKnown == ShellTypeOK /\ Reports /\ InCommand => n \in Commands
BY ShellAssumption DEF ShellTypeOK, Reports, Commands

\* Every step of the remote side.
LEMMA RemoteKept == ShellTypeOK /\ ShellInv /\ Remote => ShellTypeOK' /\ ShellInv'
<1> SUFFICES ASSUME ShellTypeOK, ShellInv, Remote PROVE ShellTypeOK' /\ ShellInv'
  OBVIOUS
<1> USE DEF remote, history
<1>1. Channel /\ Output /\ Reports /\ InterruptIsReported /\ cut = {} /\ hit \subseteq pressed
  BY DEF ShellInv, PayloadNeverCut, InterruptsOwnCommand
<1>2. Steady
  BY DEF Steady, Remote, Prompt, Deliver, DeliverCtrlC, ReadLine, ReadStray, Receive, Complete
<1>3. Reports' /\ InterruptIsReported'
  BY <1>1, <1>2, ReportsKept
<1>4. client \in {"ready", "sending", "receiving", "received", "executing"} /\ n \in 0 .. MaxCommands
  BY DEF ShellTypeOK
<1>5. (client = "receiving" \/ client = "executing") => n \in Commands
  BY <1>1, CommandKnown DEF InCommand
<1>6. ASSUME Channel', Output', out' \in Seq(Marks), wire' \in Seq(Items), tty' \in Seq(Items),
             shell' \in [at : {"idle", "recv", "exec"}, of : 0 .. MaxCommands],
             cut' = {}, hit' \subseteq pressed
      PROVE  ShellTypeOK' /\ ShellInv'
  <2>1. ShellTypeOK'
    BY <1>2, <1>6 DEF Steady, ShellTypeOK
  <2>2. PayloadNeverCut' /\ InterruptsOwnCommand'
    BY <1>2, <1>6 DEF PayloadNeverCut, InterruptsOwnCommand, Steady
  <2> QED
    BY <1>3, <1>6, <2>1, <2>2 DEF ShellInv
<1>7. CASE Deliver
  <2>1. wire # <<>> /\ Head(wire) # CtrlC /\ wire' = Tail(wire) /\ tty' = Append(tty, Head(wire))
        /\ UNCHANGED <<shell, out, hit, cut>>
    BY <1>7 DEF Deliver
  <2>2. client = "receiving"
    BY <1>1, <1>4, <2>1, Tuples DEF Channel, Arrived
  <2>3. Arriving
    BY <1>1, <2>1, <2>2 DEF Channel, Arrived
  <2>4. \/ tty = <<>> /\ wire = <<Line(n), Payload(n)>> /\ shell = Idle
        \/ tty = <<Line(n)>> /\ wire = <<Payload(n)>> /\ shell = Idle
        \/ tty = <<>> /\ wire = <<Payload(n)>> /\ shell \in {Idle, Takes(n)}
    BY <2>1, <2>3, Tuples DEF Arriving
  <2>5. \/ tty' = <<Line(n)>> /\ wire' = <<Payload(n)>> /\ shell = Idle
        \/ tty' = <<Line(n), Payload(n)>> /\ wire' = <<>> /\ shell = Idle
        \/ tty' = <<Payload(n)>> /\ wire' = <<>> /\ shell \in {Idle, Takes(n)}
    <3>1. CASE tty = <<>> /\ wire = <<Line(n), Payload(n)>>
      BY <2>1, <2>4, <3>1, Tuples
    <3>2. CASE tty = <<Line(n)>> /\ wire = <<Payload(n)>>
      <4>1. Head(wire) = Payload(n) /\ Tail(wire) = <<>> /\ Append(tty, Payload(n)) = <<Line(n), Payload(n)>>
        BY <3>2, Tuples
      <4>2. shell = Idle
        BY <2>4, <3>2, Tuples
      <4> QED
        BY <2>1, <4>1, <4>2
    <3>3. CASE tty = <<>> /\ wire = <<Payload(n)>>
      BY <2>1, <2>4, <3>3, Tuples
    <3> QED
      BY <2>4, <3>1, <3>2, <3>3
  <2>6. Arriving'
    BY <1>2, <2>1, <2>5 DEF Arriving, Steady, Line, Payload, CtrlC, Takes
  <2>7. Channel'
    BY <1>2, <2>2, <2>6 DEF Channel, Steady
  <2>8. ~Arrived
    BY <2>1 DEF Arrived
  <2>9. Output'
    BY <1>1, <1>2, <2>1, <2>2, <2>8 DEF Output, Shown, Steady, Mark
  <2>10. wire' \in Seq(Items) /\ tty' \in Seq(Items)
    BY <2>1 DEF ShellTypeOK
  <2> QED
    BY <1>1, <1>6, <2>1, <2>7, <2>9, <2>10 DEF ShellTypeOK
<1>8. CASE DeliverCtrlC
  <2>1. wire # <<>> /\ Head(wire) = CtrlC /\ wire' = Tail(wire) /\ tty' = <<>>
    BY <1>8 DEF DeliverCtrlC
  <2>2. client \in {"ready", "sending", "receiving", "executing"}
    BY <1>1, <1>4, <2>1 DEF Channel, Arrived
  <2>3. \/ wire = <<CtrlC>> /\ wire' = <<>>
        \/ client = "receiving" /\ wire = <<CtrlC, Line(n), Payload(n)>> /\ wire' = <<Line(n), Payload(n)>>
    <3>1. ~(wire = <<Line(n), Payload(n)>>) /\ ~(wire = <<Payload(n)>>)
      BY <2>1, ItemKinds, Tuples
    <3>2. wire = <<CtrlC>> \/ (client = "receiving" /\ wire = <<CtrlC, Line(n), Payload(n)>>)
      BY <1>1, <2>1, <2>2, <3>1 DEF Channel, Arriving, Arrived
    <3>3. Tail(<<CtrlC>>) = <<>> /\ Tail(<<CtrlC, Line(n), Payload(n)>>) = <<Line(n), Payload(n)>>
      BY Tuples
    <3> QED
      BY <2>1, <3>2, <3>3
  <2>4. shell = Idle \/ (client = "executing" /\ shell = Runs(n) /\ sent)
    <3>1. CASE client = "receiving"
      BY <1>1, <2>1, <2>3, <3>1, ItemKinds, Tuples DEF Channel, Arriving, Arrived
    <3> QED
      BY <1>1, <2>1, <2>2, <3>1 DEF Channel
  <2>5. client = "receiving" => ~Arrived /\ shell = Idle
    BY <2>1, <2>4 DEF Arrived
  <2>6. CASE shell = Idle
    <3>1. UNCHANGED <<shell, out, hit, cut>>
      BY <1>8, <2>6 DEF DeliverCtrlC, Idle
    <3>2. client = "receiving" => wire' = <<Line(n), Payload(n)>>
      BY <1>1, <2>1, <2>3, <2>5, ItemKinds, Tuples DEF Channel, Arriving
    <3>3. Channel'
      BY <1>1, <1>2, <2>1, <2>2, <2>3, <2>6, <3>1, <3>2 DEF Channel, Steady, Arriving, Line, Payload
    <3>4. Output'
      BY <1>1, <1>2, <2>5, <3>1 DEF Output, Shown, Steady, Mark
    <3> QED
      BY <1>1, <1>6, <2>1, <3>1, <3>3, <3>4 DEF ShellTypeOK
  <2>7. CASE client = "executing" /\ shell = Runs(n) /\ sent
    <3>1. n \in Commands /\ n \in pressed
      BY <1>1, <1>5, <2>7 DEF Reports, ShellTypeOK, InCommand
    <3>2. hit' = hit \cup {n} /\ cut' = cut
          /\ \/ shell' = Idle /\ out' = Append(out, Mark("E", n))
             \/ shell' = shell /\ out' = out
      BY <1>8, <2>7 DEF DeliverCtrlC, Runs
    <3>3. wire' = <<>>
      BY <2>3, <2>7
    <3>4. Channel'
      BY <1>2, <2>1, <2>7, <3>2, <3>3 DEF Channel, Steady, Runs
    <3>5. out' \in Seq(Marks) /\ (Shown' = Shown \/ (Shown' = Shown \cup {Mark("E", n)} /\ shell' = Idle))
      BY <3>1, <3>2, AppendShown, MarksOfShell DEF ShellTypeOK, Shown
    <3>6. Output'
      BY <1>1, <1>2, <2>7, <3>1, <3>2, <3>5, ItemKinds DEF Output, Steady, Mark, Commands
    <3>7. shell' \in [at : {"idle", "recv", "exec"}, of : 0 .. MaxCommands]
      BY <3>2, ShellAssumption DEF ShellTypeOK, Idle
    <3>8. wire' \in Seq(Items) /\ tty' \in Seq(Items)
      BY <2>1, <3>3, EmptySeq
    <3> QED
      BY <1>1, <1>6, <3>1, <3>2, <3>4, <3>5, <3>6, <3>7, <3>8
  <2> QED
    BY <2>4, <2>6, <2>7
<1>9. CASE ReadLine \/ ReadStray
  <2>1. tty # <<>> /\ shell = Idle /\ tty' = Tail(tty) /\ UNCHANGED <<wire, out, hit, cut>>
    BY <1>9 DEF ReadLine, ReadStray
  <2>2. client = "receiving" /\ Arriving /\ ~Arrived
    BY <1>1, <1>4, <2>1 DEF Channel, Arrived
  <2>3. ReadLine => Head(tty).kind = "line" /\ shell' \in {Idle, Takes(Head(tty).of)}
    BY <2>1 DEF ReadLine, Takes
  <2>4. ReadStray => Head(tty).kind = "payload" /\ shell' = Idle
    BY <2>1 DEF ReadStray
  <2>5. \/ tty = <<Line(n)>> /\ wire = <<Payload(n)>>
        \/ tty = <<Line(n), Payload(n)>> /\ wire = <<>>
        \/ tty = <<Payload(n)>> /\ wire = <<>>
    BY <2>1, <2>2 DEF Arriving
  <2>6. tty' \in {<<>>, <<Payload(n)>>} /\ shell' \in {Idle, Takes(n)} /\ (Arriving' \/ Arrived')
    <3>1. CASE tty = <<Line(n)>> /\ wire = <<Payload(n)>>
      <4>1. Head(tty) = Line(n) /\ tty' = <<>>
        BY <2>1, <3>1, Tuples
      <4>2. shell' \in {Idle, Takes(n)}
        BY <1>9, <2>3, <2>4, <4>1, ItemKinds
      <4> QED
        BY <1>2, <2>1, <3>1, <4>1, <4>2 DEF Arriving, Steady, Payload, Takes
    <3>2. CASE tty = <<Line(n), Payload(n)>> /\ wire = <<>>
      <4>1. Head(tty) = Line(n) /\ tty' = <<Payload(n)>>
        BY <2>1, <3>2, Tuples
      <4>2. shell' \in {Idle, Takes(n)}
        BY <1>9, <2>3, <2>4, <4>1, ItemKinds
      <4> QED
        BY <1>2, <2>1, <3>2, <4>1, <4>2 DEF Arriving, Steady, Payload, Takes
    <3>3. CASE tty = <<Payload(n)>> /\ wire = <<>>
      <4>1. Head(tty) = Payload(n) /\ tty' = <<>>
        BY <2>1, <3>3, Tuples
      <4>2. shell' = Idle
        BY <1>9, <2>3, <2>4, <4>1, ItemKinds
      <4> QED
        BY <2>1, <3>3, <4>1, <4>2 DEF Arrived
    <3> QED
      BY <2>5, <3>1, <3>2, <3>3
  <2>7. Channel'
    BY <1>2, <2>2, <2>6 DEF Channel, Steady
  <2>8. Output'
    BY <1>1, <1>2, <2>1, <2>2 DEF Output, Shown, Steady, Mark
  <2>9. shell' \in [at : {"idle", "recv", "exec"}, of : 0 .. MaxCommands]
    BY <1>4, <2>6, ShellAssumption DEF Idle, Takes
  <2>10. wire' \in Seq(Items) /\ tty' \in Seq(Items)
    BY <2>1 DEF ShellTypeOK
  <2> QED
    BY <1>1, <1>6, <2>1, <2>7, <2>8, <2>9, <2>10 DEF ShellTypeOK
<1>10. CASE Receive
  <2>1. /\ shell.at = "recv" /\ tty # <<>> /\ tty' = Tail(tty)
        /\ shell' = [shell EXCEPT !.at = "exec"] /\ out' = Append(out, Mark("R", shell.of))
        /\ UNCHANGED <<wire, hit, cut>>
    BY <1>10 DEF Receive
  <2>2. client = "receiving" /\ n \in Commands
    BY <1>1, <1>4, <1>5, <2>1 DEF Channel, Arrived
  <2>3. Arriving /\ ~Arrived
    BY <1>1, <2>1, <2>2 DEF Channel, Arrived
  <2>4. tty = <<Payload(n)>> /\ wire = <<>> /\ shell = Takes(n)
    BY <2>1, <2>3, ItemKinds DEF Arriving
  <2>5. tty' = <<>> /\ shell' = Runs(n) /\ out' = Append(out, Mark("R", n))
    BY <2>1, <2>4, Tuples DEF Takes, Runs
  <2>6. Channel'
    BY <1>2, <2>1, <2>2, <2>4, <2>5 DEF Channel, Arrived, Steady, Runs
  <2>7. out' \in Seq(Marks) /\ Shown' = Shown \cup {Mark("R", n)}
    BY <2>2, <2>5, AppendShown, MarksOfShell DEF ShellTypeOK
  <2>8. Output'
    <3>1. Arrived'
      BY <1>2, <2>1, <2>4, <2>5 DEF Arrived, Steady, Runs
    <3>2. Mark("E", n) \notin Shown
      BY <1>1, <2>2, <2>3 DEF Output
    <3>3. n \in 1 .. n
      BY <2>2, ShellAssumption DEF Commands
    <3>4. n' = n /\ client' = "receiving" /\ Mark("E", n') = Mark("E", n) /\ Mark("R", n').of = n
      BY <1>2, <2>2 DEF Steady, Mark
    <3>5. \A m \in Shown' : m.of \in 1 .. n
      BY <1>1, <2>7, <3>3, ItemKinds DEF Output
    <3>6. Mark("E", n) \notin Shown'
      BY <2>7, <3>2, ItemKinds
    <3> QED
      BY <3>1, <3>4, <3>5, <3>6 DEF Output
  <2>9. shell' \in [at : {"idle", "recv", "exec"}, of : 0 .. MaxCommands]
    BY <1>4, <2>5 DEF Runs
  <2>10. wire' \in Seq(Items) /\ tty' \in Seq(Items)
    BY <2>1, <2>5 DEF ShellTypeOK
  <2> QED
    BY <1>1, <1>6, <2>1, <2>6, <2>7, <2>8, <2>9, <2>10
<1>11. CASE Complete
  <2>1. /\ shell.at = "exec" /\ shell' = Idle /\ out' = Append(out, Mark("E", shell.of))
        /\ UNCHANGED <<wire, tty, hit, cut>>
    BY <1>11 DEF Complete
  <2>2. client \in {"receiving", "received", "executing"} /\ shell = Runs(n) /\ (client = "receiving" => Arrived)
    BY <1>1, <1>4, <2>1, ItemKinds DEF Channel, Arriving, Arrived
  <2>3. n \in Commands /\ out' = Append(out, Mark("E", n))
    BY <1>1, <2>1, <2>2, CommandKnown, ItemKinds DEF InCommand
  <2>4. Channel'
    BY <1>1, <1>2, <2>1, <2>2 DEF Channel, Arrived, Steady
  <2>5. out' \in Seq(Marks) /\ Shown' = Shown \cup {Mark("E", n)}
    BY <2>3, AppendShown, MarksOfShell DEF ShellTypeOK
  <2>6. Output'
    <3>1. client = "receiving" => Arrived'
      BY <1>2, <2>1, <2>2 DEF Arrived, Steady
    <3>2. n \in 1 .. n
      BY <2>3, ShellAssumption DEF Commands
    <3>3. n' = n /\ client' = client /\ shell' = Idle
      BY <1>2, <2>1 DEF Steady
    <3>4. \A m \in Shown' : m.of \in 1 .. n
      BY <1>1, <2>5, <3>2, ItemKinds DEF Output
    <3> QED
      BY <2>2, <3>1, <3>3, <3>4 DEF Output
  <2>7. shell' \in [at : {"idle", "recv", "exec"}, of : 0 .. MaxCommands]
    BY <2>1, ShellAssumption DEF Idle
  <2> QED
    BY <1>1, <1>6, <2>1, <2>4, <2>5, <2>6, <2>7 DEF ShellTypeOK
<1> QED
  BY <1>7, <1>8, <1>9, <1>10, <1>11 DEF Remote, Prompt

-----------------------------------------------------------------------------
(* The runner and Ctrl+C                                                   *)

\* A session that is ended leaves nothing behind.
LEMMA AbandonKept ==
  ASSUME ShellTypeOK, ShellInv, InCommand, NEW what \in {"error", "abandoned"}, Abandon(what),
         hit' = hit, cut' = cut, presses' \in 0 .. MaxPresses,
         pressed' = pressed \cup {n} \/ (pressed' = pressed /\ what = "error")
  PROVE  ShellTypeOK' /\ ShellInv'
<1>1. Channel /\ Output /\ Reports /\ InterruptIsReported /\ cut = {} /\ hit \subseteq pressed
  BY DEF ShellInv, PayloadNeverCut, InterruptsOwnCommand
<1>2. n \in Commands /\ n \in 1 .. n
  BY <1>1, CommandKnown, ShellAssumption DEF Commands
<1>3. /\ client' = "ready" /\ alive' = FALSE /\ wire' = <<>> /\ tty' = <<>> /\ shell' = Idle
      /\ UNCHANGED <<n, interactive, interrupted, sent, out>> /\ results' = [results EXCEPT ![n] = what]
  BY DEF Abandon, Result
<1>4. /\ results'[n] = what /\ \A c \in Commands \ {n} : results'[c] = results[c]
      /\ results' \in [Commands -> {"none", "ok", "left", "interrupted", "error", "abandoned"}]
  BY <1>2, <1>3 DEF ShellTypeOK
<1>5. ShellTypeOK'
  <2>1. wire' \in Seq(Items) /\ tty' \in Seq(Items)
    BY <1>3, EmptySeq
  <2>2. shell' \in [at : {"idle", "recv", "exec"}, of : 0 .. MaxCommands]
    BY <1>3, ShellAssumption DEF Idle
  <2> QED
    BY <1>2, <1>3, <1>4, <2>1, <2>2 DEF ShellTypeOK
<1>6. Channel' /\ Output'
  BY <1>1, <1>3 DEF Channel, Output, Shown, Mark
<1>7. Reports'
  <2>1. n' = n /\ ~InCommand' /\ pressed' \subseteq 1 .. n
    BY <1>1, <1>2, <1>3 DEF Reports, InCommand
  <2>2. \A c \in Commands : c > n => c # n /\ results[c] = "none"
    BY <1>1, <1>2, ShellAssumption DEF Reports, Commands
  <2> QED
    BY <1>4, <2>1, <2>2 DEF Reports
<1>8. PayloadNeverCut' /\ InterruptsOwnCommand'
  BY <1>1 DEF PayloadNeverCut, InterruptsOwnCommand
<1>9. InterruptIsReported'
  <2> SUFFICES ASSUME NEW c \in Commands
               PROVE  /\ results'[c] \in {"interrupted", "abandoned"} => c \in pressed'
                      /\ results'[c] = "ok" => c \notin pressed'
    BY DEF InterruptIsReported
  <2>1. CASE c = n
    BY <1>4, <2>1
  <2>2. CASE c # n
    BY <1>1, <1>4, <2>2 DEF InterruptIsReported
  <2> QED
    BY <2>1, <2>2
<1> QED
  BY <1>5, <1>6, <1>7, <1>8, <1>9 DEF ShellInv

LEMMA RunnerKept == ShellTypeOK /\ ShellInv /\ (Runner \/ \E inter \in BOOLEAN : Begin(inter)) => ShellTypeOK' /\ ShellInv'
<1> SUFFICES ASSUME ShellTypeOK, ShellInv, Runner \/ \E inter \in BOOLEAN : Begin(inter) PROVE ShellTypeOK' /\ ShellInv'
  OBVIOUS
<1> USE DEF remote, history
<1>1. Channel /\ Output /\ Reports /\ InterruptIsReported /\ cut = {} /\ hit \subseteq pressed
  BY DEF ShellInv, PayloadNeverCut, InterruptsOwnCommand
<1>2. InCommand => n \in Commands
  BY <1>1, CommandKnown
<1>3. ASSUME ShellTypeOK', Channel', Output', Reports', InterruptIsReported', hit' = hit, cut' = cut, pressed' = pressed
      PROVE  ShellTypeOK' /\ ShellInv'
  BY <1>1, <1>3 DEF ShellInv, PayloadNeverCut, InterruptsOwnCommand
<1>4. ASSUME SendFails \/ GetNothing \/ \E i \in DOMAIN out : GetRefused(i) PROVE ShellTypeOK' /\ ShellInv'
  <2>1. InCommand /\ Abandon("error") /\ UNCHANGED <<presses, pressed, hit, cut>>
    BY <1>4 DEF SendFails, GetNothing, GetRefused, InCommand
  <2> QED
    BY <2>1, AbandonKept DEF ShellTypeOK
<1>5. ASSUME NEW inter \in BOOLEAN, Begin(inter) PROVE ShellTypeOK' /\ ShellInv'
  <2>1. /\ client = "ready" /\ n < MaxCommands /\ client' = "sending" /\ n' = n + 1
        /\ interactive' \in BOOLEAN /\ interrupted' = FALSE /\ sent' = FALSE
        /\ UNCHANGED <<alive, wire, tty, shell, out, presses, pressed, hit, cut, results>>
    BY <1>5 DEF Begin, FlagReset
  <2>2. n \in Nat /\ MaxCommands \in Nat /\ n + 1 \in 0 .. MaxCommands /\ n + 1 \in 1 .. (n + 1)
    BY <2>1, ShellAssumption DEF ShellTypeOK
  <2>3. ShellTypeOK'
    BY <2>1, <2>2 DEF ShellTypeOK
  <2>4. Channel'
    BY <1>1, <2>1 DEF Channel
  <2>5. Output'
    <3>1. \A m \in Shown : m.of \in 1 .. (n + 1) /\ m.of # n + 1
      BY <1>1, <2>2 DEF Output
    <3>2. Shown' = Shown /\ Mark("E", n + 1).of = n + 1
      BY <2>1, ItemKinds DEF Shown
    <3>3. Mark("E", n') \notin Shown'
      BY <2>1, <3>1, <3>2
    <3> QED
      BY <2>1, <3>1, <3>2, <3>3 DEF Output
  <2>6. Reports'
    BY <1>1, <2>1, <2>2 DEF Reports, InCommand, Commands
  <2>7. InterruptIsReported'
    BY <1>1, <2>1 DEF InterruptIsReported
  <2> QED
    BY <1>3, <2>1, <2>3, <2>4, <2>5, <2>6, <2>7
<1>6. CASE SendCommand
  <2>1. /\ client = "sending" /\ client' = "receiving" /\ wire' = wire \o <<Line(n), Payload(n)>>
        /\ UNCHANGED <<n, interactive, interrupted, sent, alive, tty, shell, out, presses, pressed, hit, cut, results>>
    BY <1>6 DEF SendCommand
  <2>2. tty = <<>> /\ wire \in {<<>>, <<CtrlC>>} /\ shell = Idle
    BY <1>1, <2>1 DEF Channel
  <2>3. wire' \in {<<Line(n), Payload(n)>>, <<CtrlC, Line(n), Payload(n)>>}
    <3>1. <<>> \o <<Line(n), Payload(n)>> = <<Line(n), Payload(n)>>
      BY Tuples
    <3>2. <<CtrlC>> \o <<Line(n), Payload(n)>> = <<CtrlC, Line(n), Payload(n)>>
      BY WiresOfTerminal DEF ShellTypeOK
    <3> QED
      BY <2>1, <2>2, <3>1, <3>2
  <2>4. ShellTypeOK'
    <3>1. wire' \in Seq(Items)
      BY <2>3, WiresOfTerminal DEF ShellTypeOK
    <3> QED
      BY <2>1, <3>1 DEF ShellTypeOK
  <2>5. Channel'
    BY <2>1, <2>2, <2>3 DEF Channel, Arriving, Line, Payload
  <2>6. Output'
    <3>1. Mark("R", n) \notin Shown /\ Mark("E", n) \notin Shown
      BY <1>1, <2>1, ItemKinds DEF Output
    <3>2. Shown' = Shown /\ Mark("R", n') = Mark("R", n) /\ Mark("E", n') = Mark("E", n)
      BY <2>1 DEF Shown, Mark
    <3> QED
      BY <1>1, <2>1, <3>1, <3>2 DEF Output
  <2>7. Reports' /\ InterruptIsReported'
    BY <1>1, <2>1 DEF Reports, InCommand, InterruptIsReported
  <2> QED
    BY <1>3, <2>1, <2>4, <2>5, <2>6, <2>7
<1>7. ASSUME NEW i \in DOMAIN out, GetReceived(i) PROVE ShellTypeOK' /\ ShellInv'
  <2>1. /\ client = "receiving" /\ client' = "received" /\ out[i] = Mark("R", n) /\ Consume(i)
        /\ UNCHANGED <<n, interactive, interrupted, sent, alive, wire, tty, shell, presses, pressed, hit, cut, results>>
    BY <1>7 DEF GetReceived, Printed
  <2>2. Mark("R", n) \in Shown
    BY <2>1 DEF Shown
  <2>3. Arrived
    BY <1>1, <2>1, <2>2 DEF Output
  <2>4. out' \in Seq(Marks) /\ Shown' \subseteq Shown
    BY <2>1, ConsumeShown DEF ShellTypeOK
  <2>5. ShellTypeOK'
    BY <2>1, <2>4 DEF ShellTypeOK
  <2>6. Channel'
    BY <2>1, <2>3 DEF Channel, Arrived, Runs
  <2>7. Output'
    BY <1>1, <2>1, <2>4 DEF Output, Mark
  <2>8. Reports' /\ InterruptIsReported'
    BY <1>1, <2>1 DEF Reports, InCommand, InterruptIsReported
  <2> QED
    BY <1>3, <2>1, <2>5, <2>6, <2>7, <2>8
<1>8. CASE Running
  <2>1. /\ client = "received" /\ client' = "executing" /\ sent' = interrupted
        /\ wire' = IF interrupted THEN Append(wire, CtrlC) ELSE wire
        /\ UNCHANGED <<n, interactive, interrupted, alive, tty, shell, out, presses, pressed, hit, cut, results>>
    BY <1>8 DEF Running
  <2>2. Arrived
    BY <1>1, <2>1 DEF Channel
  <2>3. wire' = <<>> \/ (wire' = <<CtrlC>> /\ sent')
    BY <2>1, <2>2, Tuples DEF Arrived
  <2>4. ShellTypeOK'
    <3>1. wire' \in Seq(Items)
      BY <2>3, WiresOfTerminal DEF ShellTypeOK
    <3> QED
      BY <2>1, <3>1 DEF ShellTypeOK
  <2>5. Channel'
    BY <2>1, <2>2, <2>3 DEF Channel, Arrived, Runs
  <2>6. Output'
    BY <1>1, <2>1 DEF Output, Shown, Mark
  <2>7. Reports' /\ InterruptIsReported'
    BY <1>1, <2>1 DEF Reports, InCommand, InterruptIsReported
  <2> QED
    BY <1>3, <2>1, <2>4, <2>5, <2>6, <2>7
<1>9. ASSUME NEW i \in DOMAIN out, GetDone(i) PROVE ShellTypeOK' /\ ShellInv'
  <2>1. /\ client = "executing" /\ client' = "ready" /\ out[i] = Mark("E", n) /\ Consume(i)
        /\ results' = [results EXCEPT ![n] = Ending]
        /\ UNCHANGED <<n, interactive, interrupted, sent, alive, wire, tty, shell, presses, pressed, hit, cut>>
    BY <1>9 DEF GetDone, Printed, Result
  <2>2. Mark("E", n) \in Shown
    BY <2>1 DEF Shown
  <2>3. shell = Idle /\ tty = <<>> /\ wire \in {<<>>, <<CtrlC>>}
    BY <1>1, <2>1, <2>2 DEF Output, Channel
  <2>4. out' \in Seq(Marks) /\ Shown' \subseteq Shown
    BY <2>1, ConsumeShown DEF ShellTypeOK
  <2>5. n \in Commands
    BY <1>2, <2>1 DEF InCommand
  <2>6. /\ results'[n] = Ending /\ \A c \in Commands \ {n} : results'[c] = results[c]
        /\ results' \in [Commands -> {"none", "ok", "left", "interrupted", "error", "abandoned"}]
    BY <2>1, <2>5 DEF ShellTypeOK, Ending
  <2>7. ShellTypeOK'
    BY <2>1, <2>4, <2>6 DEF ShellTypeOK
  <2>8. Channel' /\ Output'
    BY <1>1, <2>1, <2>3, <2>4 DEF Channel, Output, Mark
  <2>9. Reports'
    BY <1>1, <2>1, <2>5, <2>6 DEF Reports, InCommand, Commands
  <2>10. InterruptIsReported'
    <3> SUFFICES ASSUME NEW c \in Commands
                 PROVE  /\ results'[c] \in {"interrupted", "abandoned"} => c \in pressed
                        /\ results'[c] = "ok" => c \notin pressed
      BY <2>1 DEF InterruptIsReported
    <3>1. CASE c = n
      BY <1>1, <2>1, <2>6, <3>1 DEF Reports, InCommand, Ending
    <3>2. CASE c # n
      BY <1>1, <2>6, <3>2 DEF InterruptIsReported
    <3> QED
      BY <3>1, <3>2
  <2> QED
    BY <1>3, <2>1, <2>7, <2>8, <2>9, <2>10
<1> QED
  BY <1>4, <1>5, <1>6, <1>7, <1>8, <1>9 DEF Runner

LEMMA PressKept == ShellTypeOK /\ ShellInv /\ (CtrlCPressed \/ Drop) => ShellTypeOK' /\ ShellInv'
<1> SUFFICES ASSUME ShellTypeOK, ShellInv, CtrlCPressed \/ Drop PROVE ShellTypeOK' /\ ShellInv'
  OBVIOUS
<1> USE DEF remote, history
<1>1. Channel /\ Output /\ Reports /\ InterruptIsReported /\ cut = {} /\ hit \subseteq pressed
  BY DEF ShellInv, PayloadNeverCut, InterruptsOwnCommand
<1>2. CASE PressAgain
  <2>1. InCommand /\ Abandon("abandoned") /\ hit' = hit /\ cut' = cut /\ pressed' = pressed \cup {n}
    BY <1>2 DEF PressAgain, Press
  <2>2. presses' \in 0 .. MaxPresses
    BY <1>2, ShellAssumption DEF PressAgain, Press, ShellTypeOK
  <2> QED
    BY <2>1, <2>2, AbandonKept
<1>3. CASE PressWaiting \/ \E i \in DOMAIN out : PressLoses(i)
  <2>1. /\ client \in {"receiving", "executing"} /\ InCommand /\ Press /\ OnInterrupt
        /\ out' \in Seq(Marks) /\ Shown' \subseteq Shown
    <3>1. CASE PressWaiting
      BY <3>1 DEF PressWaiting, Press, InCommand, Shown, ShellTypeOK
    <3>2. ASSUME NEW i \in DOMAIN out, PressLoses(i)
          PROVE  /\ client \in {"receiving", "executing"} /\ InCommand /\ Press /\ OnInterrupt
                 /\ out' \in Seq(Marks) /\ Shown' \subseteq Shown
      BY <3>2, ConsumeShown DEF PressLoses, Press, InCommand, ShellTypeOK
    <3> QED
      BY <1>3, <3>1, <3>2
  <2>2. /\ interrupted' = TRUE /\ pressed' = pressed \cup {n} /\ presses' = presses + 1 /\ presses < MaxPresses
        /\ UNCHANGED <<client, n, interactive, alive, tty, shell, hit, cut, results>>
    BY <2>1 DEF OnInterrupt, Press
  <2>3. n \in Commands /\ n \in 1 .. n /\ results[n] = "none"
    BY <1>1, <2>1, CommandKnown, ShellAssumption DEF Commands, Reports
  <2>4. /\ client = "receiving" => wire' = wire
        /\ client = "executing" => wire' = <<CtrlC>> /\ sent' = TRUE /\ wire = <<>>
    <3>1. CASE client = "receiving"
      BY <2>1, <3>1 DEF OnInterrupt, Forwards
    <3>2. CASE client = "executing"
      <4>1. sent = FALSE
        BY <2>1, <3>2 DEF OnInterrupt, ShellTypeOK
      <4>2. wire = <<>>
        BY <1>1, <3>2, <4>1 DEF Channel
      <4>3. Append(<<>>, CtrlC) = <<CtrlC>>
        BY Tuples
      <4> QED
        BY <2>1, <3>2, <4>2, <4>3 DEF OnInterrupt, Forwards
    <3> QED
      BY <2>1, <3>1, <3>2
  <2>5. ShellTypeOK'
    <3>1. wire' \in Seq(Items)
      BY <2>1, <2>4, WiresOfTerminal DEF ShellTypeOK
    <3>2. sent' \in BOOLEAN
      BY <2>1, <2>4 DEF OnInterrupt, Forwards, ShellTypeOK
    <3>3. presses' \in 0 .. MaxPresses
      BY <2>2, ShellAssumption DEF ShellTypeOK
    <3> QED
      BY <2>1, <2>2, <2>3, <3>1, <3>2, <3>3 DEF ShellTypeOK
  <2>6. Channel'
    BY <1>1, <2>1, <2>2, <2>4 DEF Channel, Arriving, Arrived, Line, Payload, Runs, Takes
  <2>7. Output'
    <3>1. Arrived /\ client = "receiving" => Arrived'
      BY <2>2, <2>4 DEF Arrived, Runs
    <3> QED
      BY <1>1, <2>1, <2>2, <3>1 DEF Output, Mark
  <2>8. Reports'
    BY <1>1, <2>1, <2>2, <2>3 DEF Reports, InCommand
  <2>9. InterruptIsReported'
    BY <1>1, <2>2, <2>3 DEF InterruptIsReported
  <2> QED
    BY <1>1, <2>2, <2>5, <2>6, <2>7, <2>8, <2>9 DEF ShellInv, PayloadNeverCut, InterruptsOwnCommand
<1>4. CASE Drop
  <2>1. /\ alive' = FALSE /\ wire' = <<>> /\ tty' = <<>> /\ shell' = Idle
        /\ UNCHANGED <<client, n, interactive, interrupted, sent, out, presses, pressed, hit, cut, results>>
    BY <1>4 DEF Drop
  <2>2. ShellTypeOK'
    <3>1. wire' \in Seq(Items) /\ tty' \in Seq(Items)
      BY <2>1, EmptySeq
    <3>2. shell' \in [at : {"idle", "recv", "exec"}, of : 0 .. MaxCommands]
      BY <2>1, ShellAssumption DEF Idle
    <3> QED
      BY <2>1, <3>1, <3>2 DEF ShellTypeOK
  <2>3. Arrived'
    BY <2>1 DEF Arrived
  <2>4. Channel' /\ Output'
    BY <1>1, <2>1, <2>3 DEF Channel, Output, Shown, Mark
  <2>5. Reports' /\ InterruptIsReported'
    BY <1>1, <2>1 DEF Reports, InCommand, InterruptIsReported
  <2> QED
    BY <1>1, <2>1, <2>2, <2>4, <2>5 DEF ShellInv, PayloadNeverCut, InterruptsOwnCommand
<1> QED
  BY <1>2, <1>3, <1>4 DEF CtrlCPressed

-----------------------------------------------------------------------------

LEMMA ShellInvKept == ShellTypeOK /\ ShellInv /\ [ShellNext]_shellVars => ShellTypeOK' /\ ShellInv'
<1>1. ShellTypeOK /\ ShellInv /\ UNCHANGED shellVars => ShellTypeOK' /\ ShellInv'
  BY DEF shellVars, remote, history, ShellTypeOK, ShellInv, PayloadNeverCut, InterruptsOwnCommand, InterruptIsReported,
         Channel, Arriving, Arrived, Output, Shown, Reports, InCommand, Line, Payload, Mark, Runs, Takes
<1> QED
  BY <1>1, RemoteKept, RunnerKept, PressKept DEF ShellNext

LEMMA ShellStates == ShellSpec => [](ShellTypeOK /\ ShellInv)
<1>1. ShellInit => ShellTypeOK /\ ShellInv
  <2> SUFFICES ASSUME ShellInit PROVE ShellTypeOK /\ ShellInv
    OBVIOUS
  <2>1. Shown = {}
    BY DEF ShellInit, Shown
  <2>2. ShellTypeOK
    <3>1. wire \in Seq(Items) /\ tty \in Seq(Items) /\ out \in Seq(Marks)
      BY EmptySeq DEF ShellInit
    <3>2. shell \in [at : {"idle", "recv", "exec"}, of : 0 .. MaxCommands]
      BY ShellAssumption DEF ShellInit, Idle
    <3>3. n \in 0 .. MaxCommands /\ presses \in 0 .. MaxPresses
      BY ShellAssumption DEF ShellInit
    <3> QED
      BY <3>1, <3>2, <3>3 DEF ShellInit, ShellTypeOK
  <2>3. Channel /\ Output /\ Reports
    BY <2>1 DEF ShellInit, Channel, Output, Reports, InCommand
  <2> QED
    BY <2>2, <2>3 DEF ShellInit, ShellInv, PayloadNeverCut, InterruptsOwnCommand, InterruptIsReported
<1> QED
  BY <1>1, ShellInvKept, PTL DEF ShellSpec

\* Ctrl+C is never forwarded into a payload that is being received, neither that of
\* the command it was pressed for nor the next one's, whenever it is pressed.
THEOREM PayloadsArriveWhole == ShellSpec => []PayloadNeverCut
BY ShellStates, PTL DEF ShellInv

\* A SIGINT that arrives late finds no other command than the one it was meant for.
THEOREM SignalsHitTheirCommand == ShellSpec => []InterruptsOwnCommand
BY ShellStates, PTL DEF ShellInv

\* What the caller is told of a command agrees with whether Ctrl+C was pressed in it.
THEOREM ReportsAreTrue == ShellSpec => []InterruptIsReported
BY ShellStates, PTL DEF ShellInv

\* The remote shell never works on anything but the command the client is in, although
\* commands fail, are given up on and are followed by others.
THEOREM ShellStaysInStep == ShellSpec => []ShellInStep
<1>1. ShellTypeOK /\ ShellInv => ShellInStep
  BY DEF ShellTypeOK, ShellInv, Channel, Arriving, Arrived, ShellInStep, InCommand, Idle, Runs, Takes
<1> QED
  BY <1>1, ShellStates, PTL

Gots  == [Parts -> {"none", "cut", "corrupt", "whole"}]
Dirs  == [dir : BOOLEAN, conf : BOOLEAN, got : Gots]
Saves == [Parts -> Contents \cup {"nothing"}]

-----------------------------------------------------------------------------
(* Restore: the newest backup                                              *)

LEMMA LeastOf ==
  ASSUME NEW S \in SUBSET Nat, S # {}
  PROVE  \E k \in S : \A m \in S : m >= k
<1>1. PICK k \in S : \A m \in S : ~(<<m, k>> \in OpToRel(<, Nat))
  BY NatLessThanWellFounded, WFMin
<1>2. ASSUME NEW m \in S PROVE m >= k
  <2>1. ~(m < k)
    <3>1. <<m, k>> \in Nat \X Nat /\ <<m, k>>[1] = m /\ <<m, k>>[2] = k
      OBVIOUS
    <3> QED
      BY <1>1, <3>1 DEF OpToRel
  <2> QED
    BY <2>1
<1> QED
  BY <1>2

LEMMA Bounded ==
  ASSUME NEW S \in SUBSET Nat, IsFiniteSet(S)
  PROVE  \E b \in Nat : \A x \in S : x <= b
<1> DEFINE Bound(T) == \E b \in Nat : \A x \in T : x <= b
           Sizes    == {k \in Nat : \E T \in SUBSET S : ~Bound(T) /\ Cardinality(T) = k}
<1> SUFFICES ASSUME ~Bound(S) PROVE FALSE
  OBVIOUS
<1>1. Cardinality(S) \in Sizes
  BY FS_CardinalityType
<1>2. PICK k \in Sizes : \A m \in Sizes : m >= k
  <2>1. Sizes \in SUBSET Nat /\ Sizes # {}
    BY <1>1
  <2> HIDE DEF Sizes
  <2> QED
    BY <2>1, LeastOf
<1>4. PICK T \in SUBSET S : ~Bound(T) /\ Cardinality(T) = k
  BY <1>2
<1>5. PICK x \in T : TRUE
  BY <1>4
<1>6. IsFiniteSet(T)
  BY <1>4, FS_Subset
<1>7. Cardinality(T \ {x}) = k - 1 /\ k - 1 \in Nat
  <2>1. IsFiniteSet(T \ {x}) /\ Cardinality(T \ {x}) = k - 1
    BY <1>4, <1>5, <1>6, FS_RemoveElement
  <2> QED
    BY <2>1, FS_CardinalityType
<1>8. Bound(T \ {x})
  <2>1. k - 1 \notin Sizes
    <3>1. k \in Nat /\ ~(k - 1 >= k)
      BY <1>2
    <3> HIDE DEF Sizes
    <3> QED
      BY <1>2, <3>1
  <2>2. T \ {x} \in SUBSET S
    BY <1>4
  <2> QED
    BY <1>7, <2>1, <2>2
<1>9. PICK b \in Nat : \A y \in T \ {x} : y <= b
  BY <1>8
<1>10. \A y \in T : y <= (IF x <= b THEN b ELSE x)
  BY <1>4, <1>5, <1>9
<1>11. (IF x <= b THEN b ELSE x) \in Nat
  BY <1>5, <1>9
<1> QED
  BY <1>4, <1>10, <1>11

LEMMA MaxOfFinite ==
  ASSUME NEW S \in SUBSET Nat, IsFiniteSet(S), S # {}
  PROVE  Max(S) \in S
<1> DEFINE Over == {b \in Nat : \A x \in S : x <= b}
<1>1. Over # {} /\ Over \subseteq Nat
  BY Bounded
<1>2. PICK b \in Over : \A c \in Over : c >= b
  <2> HIDE DEF Over
  <2> QED
    BY <1>1, LeastOf
<1>3. S \subseteq Nat /\ b \in Nat
  OBVIOUS
<1>4. b \in S
  <2> SUFFICES ASSUME b \notin S PROVE FALSE
    OBVIOUS
  <2>1. \A x \in S : x <= b - 1
    BY <1>2, <1>3
  <2>2. b - 1 \in Nat
    <3>1. PICK x \in S : x <= b - 1
      BY <2>1
    <3> QED
      BY <1>3, <3>1
  <2> QED
    BY <1>2, <1>3, <2>1, <2>2
<1>5. \A x \in S : b >= x
  BY <1>2
<1> QED
  BY <1>4, <1>5 DEF Max
-----------------------------------------------------------------------------
(* What a step on the target changes                                       *)

LEMMA WantedParts == Wanted \subseteq Parts /\ (Wanted \subseteq Backed) /\ Backed \subseteq Parts
BY DEF Wanted, Backed, Parts

LEMMA WantedStays == ASSUME UNCHANGED <<opt, chosen>> PROVE Wanted' = Wanted /\ Backed' = Backed
BY DEF Wanted, Backed

LEMMA GotTypes == ASSUME NEW got \in Fetched PROVE Got(got) \in Gots
<1> DEFINE plain == [Wanted -> {"none", "cut", "whole"}]
<1>1. \A p \in Wanted : got[p] \in {"none", "cut", "corrupt", "whole"}
  <2>1. CASE got \in plain
    BY <2>1
  <2>2. CASE got \notin plain
    <3>1. PICK g \in plain : got = [g EXCEPT !["database"] = "corrupt"]
      BY <2>2 DEF Fetched
    <3> QED
      BY <3>1
  <2> QED
    BY <2>1, <2>2
<1> QED
  BY <1>1 DEF Got, Gots

LEMMA StepEffect ==
  ASSUME TypeOK, NEW step \in Jobs, Works(step) \/ Breaks(step)
  PROVE  /\ site' \in Sites /\ saved' \in Saves /\ work' \in Dirs /\ since' \in BOOLEAN
         /\ step \notin {"mktemp", "put", "fetch"} => UNCHANGED work
         /\ step # "mktemp" => work'.dir = work.dir
         /\ step \notin {"newsite", "restore"} => UNCHANGED site
         /\ step # "backup" => UNCHANGED saved
         /\ step \notin {"backup", "newsite"} => UNCHANGED since
         /\ step = "newsite" => site' = site \/ (site = Absent /\ \A p \in Parts : site'[p] \in {"new", "half"})
         /\ step = "restore" =>
              \/ site' = site
              \/ /\ site # Absent /\ site' # Absent
                 /\ \A p \in Parts : (site'[p] \in {"backup", "half"} /\ p \in Wanted) \/ site'[p] = site[p]
<1> USE DEF TypeOK, Saves, Dirs, Gots
<1>0. site \in Sites /\ saved \in Saves /\ work \in Dirs /\ since \in BOOLEAN
  OBVIOUS
<1> HIDE DEF TypeOK, Saves, Dirs, Gots
<1>1. CASE step = "mktemp"
  <2>1. work' \in {work, [work EXCEPT !.dir = TRUE]} /\ UNCHANGED <<site, saved, since>>
    BY <1>1 DEF Works, Breaks, target
  <2>2. work' \in Dirs
    BY <1>0, <2>1 DEF Dirs
  <2> QED
    BY <1>0, <1>1, <2>1, <2>2
<1>2. CASE step = "put"
  <2>1. (\E b \in BOOLEAN : work' = [work EXCEPT !.conf = b]) /\ UNCHANGED <<site, saved, since>>
    BY <1>2 DEF Works, Breaks
  <2>2. work' \in Dirs /\ work'.dir = work.dir
    BY <1>0, <2>1 DEF Dirs
  <2> QED
    BY <1>0, <1>2, <2>1, <2>2
<1>3. CASE step = "fetch"
  <2>1. /\ \/ work' = [work EXCEPT !.conf = FALSE]
           \/ \E got \in Fetched : work' = [work EXCEPT !.conf = FALSE, !.got = Got(got)]
        /\ UNCHANGED <<site, saved, since>>
    BY <1>3 DEF Works, Breaks
  <2>2. work' \in Dirs /\ work'.dir = work.dir
    <3>1. CASE work' = [work EXCEPT !.conf = FALSE]
      BY <1>0, <3>1 DEF Dirs
    <3>2. ASSUME NEW got \in Fetched, work' = [work EXCEPT !.conf = FALSE, !.got = Got(got)]
          PROVE  work' \in Dirs /\ work'.dir = work.dir
      <4>1. Got(got) \in Gots
        BY GotTypes
      <4> QED
        BY <1>0, <3>2, <4>1 DEF Dirs
    <3> QED
      BY <2>1, <3>1, <3>2
  <2> QED
    BY <1>0, <1>3, <2>1, <2>2
<1>4. CASE step = "backup"
  <2>1. CASE Works(step)
    <3>1. /\ saved' = [p \in Parts |-> IF p \in Backed THEN site[p] ELSE "nothing"]
          /\ site # Absent /\ since' = FALSE /\ UNCHANGED <<site, work>>
      BY <1>4, <2>1 DEF Works
    <3>2. saved' \in Saves
      BY <1>0, <3>1 DEF Saves, Sites
    <3> QED
      BY <1>0, <1>4, <3>1, <3>2
  <2>2. CASE Breaks(step)
    BY <1>0, <1>4, <2>2 DEF Breaks, target
  <2> QED
    BY <2>1, <2>2
<1>5. CASE step = "newsite"
  <2>1. [p \in Parts |-> "new"] \in [Parts -> Contents] /\ [p \in Parts |-> "half"] \in [Parts -> Contents]
    BY DEF Contents
  <2>2. CASE Works(step)
    BY <1>0, <1>5, <2>1, <2>2 DEF Works, Sites
  <2>3. CASE Breaks(step)
    BY <1>0, <1>5, <2>1, <2>3 DEF Breaks, Sites
  <2> QED
    BY <2>2, <2>3
<1>6. CASE step = "restore"
  <2>1. CASE Works(step)
    <3>1. site # Absent /\ site' = Restored /\ UNCHANGED <<saved, work, since>>
      BY <1>6, <2>1 DEF Works
    <3>2. site \in [Parts -> Contents] /\ Restored \in [Parts -> Contents]
      BY <1>0, <3>1 DEF Sites, Restored, Contents
    <3>3. \A p \in Parts : (Restored[p] \in {"backup", "half"} /\ p \in Wanted) \/ Restored[p] = site[p]
      BY DEF Restored
    <3> QED
      BY <1>0, <1>6, <3>1, <3>2, <3>3, RestoreAssumption DEF Sites
  <2>2. CASE Breaks(step)
    <3>1. UNCHANGED <<saved, work, since>>
      BY <1>6, <2>2 DEF Breaks
    <3>2. CASE UNCHANGED site
      BY <1>0, <1>6, <3>1, <3>2
    <3>3. CASE ~(UNCHANGED site)
      <4>1. PICK through, begun \in SUBSET Wanted :
              site' = [p \in Parts |-> IF p \in through THEN "backup" ELSE IF p \in begun THEN "half" ELSE site[p]]
        BY <1>6, <2>2, <3>3 DEF Breaks
      <4>2. site # Absent
        BY <1>6, <2>2, <3>3 DEF Breaks
      <4>3. site \in [Parts -> Contents] /\ site' \in [Parts -> Contents]
        BY <1>0, <4>1, <4>2 DEF Sites, Contents
      <4> QED
        BY <1>0, <1>6, <3>1, <4>1, <4>2, <4>3, RestoreAssumption DEF Sites
    <3> QED
      BY <3>2, <3>3
  <2> QED
    BY <2>1, <2>2
<1>7. CASE step \notin {"mktemp", "put", "fetch", "backup", "newsite", "restore"}
  BY <1>0, <1>7 DEF Works, Breaks, target
<1> QED
  BY <1>1, <1>2, <1>3, <1>4, <1>5, <1>6, <1>7

-----------------------------------------------------------------------------
(* Types                                                                   *)

Rest == <<stopped, opt, chosen, stage, target, stray, told, byhand, outside>>

LEMMA LinkTypes ==
  ASSUME LinkTypeOK,
         Client \/ StartClosing \/ Environment \/ InterruptLink \/ NotClosed \/ Dropped \/ UNCHANGED connection
  PROVE  LinkTypeOK' /\ kind' = kind
<1> USE DEF PluginLives, PluginEnded, SessionEnded, Hung, LinkTypeOK
<1>1. CASE Client
  <2>1. CASE ConnectDirect \/ StartSession \/ StartRefused \/ MakeLog
    BY <2>1 DEF ConnectDirect, StartSession, StartRefused, MakeLog, Link, Links
  <2>2. CASE Launch \/ LaunchFails \/ Opens \/ GivesUp
    BY <2>2 DEF Launch, LaunchFails, Opens, GivesUp, Link, Links
  <2>3. CASE EndPlugin \/ EndSession
    BY <2>3 DEF EndPlugin, EndSession, Link, Links
  <2> QED
    BY <1>1, <2>1, <2>2, <2>3 DEF Client
<1>2. CASE StartClosing \/ Environment \/ NotClosed
  BY <1>2 DEF StartClosing, Environment, Announce, PluginDies, DeadlinePasses, NotClosed, Unheard, NoLog, Hangs, Link, Links
<1>3. CASE InterruptLink
  BY <1>3 DEF InterruptLink, Links
<1>4. CASE Dropped \/ UNCHANGED connection
  BY <1>4 DEF Dropped, connection
<1> QED
  BY <1>1, <1>2, <1>3, <1>4

\* Once a shell hangs in the cleanup, it is given up.
LEMMA CleanUpDrops ==
  ASSUME TypeOK, CleanUpFails
  PROVE  /\ Dropped \/ UNCHANGED connection
         /\ stage = "cleanup" /\ stage' = "leave" /\ UNCHANGED <<kind, link, opt, chosen, target, stray, others, since>>
         /\ \/ byhand' = TRUE /\ UNCHANGED <<stopped, told>>
            \/ told' = "failed" /\ stopped' = stopped \cup {"cleanup"} /\ UNCHANGED byhand
<1>1. Dropped \/ UNCHANGED connection
  BY DEF CleanUpFails, Dropped
<1>2. UNCHANGED kind
  BY <1>1, LinkTypes DEF TypeOK
<1> QED
  BY <1>1, <1>2 DEF CleanUpFails, Moves, connection, outside

LEMMA NextStages ==
  ASSUME TypeOK, stage \in Jobs
  PROVE  AfterFailure \in {"leave", "cleanup"} /\ (stage # "cleanup" => After \in Stages)
BY DEF AfterFailure, After, Jobs, Stages

LEMMA TypesKept == TypeOK /\ [Next]_vars => TypeOK'
<1> SUFFICES ASSUME TypeOK, [Next]_vars PROVE TypeOK'
  OBVIOUS
<1> USE DEF target, outside
<1>a. Jobs \subseteq Stages /\ {"connect", "ask", "leave", "done", "inspect", "mktemp", "cleanup"} \subseteq Stages
  BY DEF Stages, Jobs
<1>b. ASSUME UNCHANGED <<opt, chosen>> PROVE Wanted' = Wanted
  BY <1>b, WantedStays
<1>1. CASE UNCHANGED vars
  BY <1>1, <1>b, LinkTypes DEF vars, TypeOK
<1>2. CASE Connecting \/ Leave \/ Surroundings(Environment)
  <2>1. LinkTypeOK' /\ UNCHANGED Rest
    BY <1>2, LinkTypes DEF Connecting, Leave, Surroundings, Rest, TypeOK
  <2> QED
    BY <2>1, <1>b DEF Rest, TypeOK
<1>3. CASE Connected \/ NotConnected \/ Left \/ Abort \/ Confirm \/ InterruptPrompt
  <2>1. /\ UNCHANGED <<connection, stopped, opt, chosen, target, stray, byhand, outside>>
        /\ stage' \in {"inspect", "done", "leave", "mktemp"} /\ told' \in {told, "no connection", "aborted", "interrupted"}
    BY <1>3 DEF Connected, NotConnected, Left, Abort, Confirm, InterruptPrompt, Moves, Quietly
  <2> QED
    BY <2>1, <1>a, <1>b, LinkTypes DEF TypeOK
<1>4. CASE StepDone \/ StepFails
  <2>1. stage \in Jobs \ {"cleanup"} /\ (Works(stage) \/ Breaks(stage)) /\ Quietly
    BY <1>4 DEF StepDone, StepFails
  <2>2. stage' \in Stages
    BY <1>4, <2>1, <1>a, NextStages DEF StepDone, StepFails
  <2>3. told' \in {told, "restored", "hook failed", "in safety backup", "failed"}
    BY <1>4 DEF StepDone, StepFails
  <2>4. site' \in Sites /\ saved' \in Saves /\ work' \in Dirs /\ since' \in BOOLEAN
    BY <2>1, StepEffect
  <2> QED
    BY <2>1, <2>2, <2>3, <2>4, <1>b, LinkTypes DEF TypeOK, Quietly, Saves, Dirs, Gots
<1>5. CASE CleanUp
  <2>1. NoWork \in Dirs
    BY DEF NoWork, Dirs, Gots
  <2>2. work' \in Dirs
    BY <1>5, <2>1 DEF CleanUp, TypeOK, Dirs, Gots
  <2> QED
    BY <1>5, <2>2, <1>a, <1>b, LinkTypes DEF CleanUp, Moves, Quietly, TypeOK, Dirs, Gots
<1>6. CASE Lost \/ AbandonStep
  <2>1. stage \in Jobs /\ Dropped /\ LeftAlone /\ stage' = AfterFailure /\ stopped' = stopped \cup {stage}
        /\ told' \in {"lost", "interrupted"} /\ UNCHANGED <<opt, chosen, target, byhand, outside>>
    BY <1>6 DEF Lost, AbandonStep, Interrupted
  <2>2. stage' \in Stages
    BY <2>1, <1>a, NextStages
  <2> QED
    BY <2>1, <2>2, <1>a, <1>b, LinkTypes DEF LeftAlone, TypeOK
<1>7. CASE InterruptStep
  <2>1. stage \in Jobs /\ (Works(stage) \/ Breaks(stage)) /\ stage' = AfterFailure
        /\ told' = "interrupted" /\ stopped' = stopped \cup {stage}
        /\ UNCHANGED <<opt, chosen, byhand, others, connection, stray>>
    BY <1>7 DEF InterruptStep, Interrupted
  <2>2. stage' \in Stages
    BY <2>1, <1>a, NextStages
  <2>3. site' \in Sites /\ saved' \in Saves /\ work' \in Dirs /\ since' \in BOOLEAN
    BY <2>1, StepEffect
  <2> QED
    BY <2>1, <2>2, <2>3, <1>a, <1>b, LinkTypes DEF TypeOK, Saves, Dirs, Gots
<1>8. CASE InterruptCleanUp
  <2>1. NoWork \in Dirs
    BY DEF NoWork, Dirs, Gots
  <2>2. work' \in Dirs /\ stage' \in Stages /\ Dropped
    BY <1>8, <2>1, <1>a, NextStages DEF InterruptCleanUp, Interrupted, TypeOK, Dirs, Gots
  <2> QED
    BY <1>8, <2>2, <1>a, <1>b, LinkTypes DEF InterruptCleanUp, Interrupted, TypeOK, Dirs, Gots
<1>9. CASE InterruptConnection \/ LinkError
  <2>1. /\ LinkTypeOK' /\ told' \in {told, "interrupted", "failed"}
        /\ UNCHANGED <<opt, chosen, stage, target, stray, byhand, outside>>
    BY <1>9, LinkTypes DEF InterruptConnection, LinkError, TypeOK
  <2>2. stopped' \subseteq stopped \cup Links \cup Errors
    BY <1>9 DEF InterruptConnection, InterruptLink, LinkError, NotClosed, Unheard, NoLog, Hangs, TypeOK, LinkTypeOK, Errors
  <2> QED
    BY <2>1, <2>2, <1>b DEF TypeOK
<1>10. CASE StrayEnds
  <2>1. stray \in Jobs /\ stray' = "none" /\ UNCHANGED <<connection, stopped, opt, chosen, stage, told, byhand, others>>
    BY <1>10 DEF StrayEnds, TypeOK
  <2>2. site' \in Sites /\ saved' \in Saves /\ work' \in Dirs /\ since' \in BOOLEAN
    BY <1>10, <2>1, StepEffect DEF StrayEnds, TypeOK, Saves, Dirs, Gots
  <2> QED
    BY <2>1, <2>2, <1>b, LinkTypes DEF TypeOK, Saves, Dirs, Gots
<1>11. CASE OthersChange
  <2>1. site' \in Sites
    BY <1>11 DEF OthersChange, Sites, Contents
  <2>2. others' \in 0 .. MaxOthers
    <3>1. MaxOthers \in Nat /\ others \in 0 .. MaxOthers
      BY RestoreAssumption DEF TypeOK
    <3>2. others < MaxOthers /\ others' = others + 1
      BY <1>11 DEF OthersChange
    <3> QED
      BY <3>1, <3>2
  <2>3. since' \in BOOLEAN /\ UNCHANGED <<connection, stopped, opt, chosen, stage, saved, work, stray, told, byhand>>
    BY <1>11 DEF OthersChange
  <2> QED
    BY <2>1, <2>2, <2>3, <1>b, LinkTypes DEF TypeOK
<1>12. CASE CleanUpFails
  BY <1>12, <1>a, <1>b, CleanUpDrops, LinkTypes DEF TypeOK
<1>13. CASE NameRefused
  <2>1. /\ stage = "mktemp" /\ Works(stage) /\ stage' = "leave" /\ told' = "failed" /\ stopped' = stopped \cup {stage}
        /\ UNCHANGED <<connection, opt, chosen, stray, byhand, others>>
    BY <1>13 DEF NameRefused, Moves
  <2>2. site' \in Sites /\ saved' \in Saves /\ work' \in Dirs /\ since' \in BOOLEAN
    BY <2>1, StepEffect DEF Jobs
  <2> QED
    BY <2>1, <2>2, <1>a, <1>b, LinkTypes DEF TypeOK, Saves, Dirs, Gots
<1> QED
  BY <1>1, <1>2, <1>3, <1>4, <1>5, <1>6, <1>7, <1>8, <1>9, <1>10, <1>11, <1>12, <1>13 DEF Next, Own, Unreached

\* Types hold for any number of backups and changes by others, and the backup
\* that is restored holds a database.
THEOREM RestoreTypes == Spec => []TypeOK
<1>1. Init => TypeOK
  <2> SUFFICES ASSUME Init PROVE TypeOK
    OBVIOUS
  <2>1. chosen \in Stamps /\ "database" \in Bucket[chosen]
    <3>1. PICK at \in SUBSET Stamps : Restorable(at) # {} /\ chosen = Max(Restorable(at))
      BY DEF Init
    <3>2. Restorable(at) \in SUBSET Stamps /\ IsFiniteSet(Restorable(at))
      BY RestoreAssumption, FS_Subset DEF Restorable
    <3>3. chosen \in Restorable(at)
      BY <3>1, <3>2, RestoreAssumption, MaxOfFinite
    <3> QED
      BY <3>3 DEF Restorable
  <2>2. "database" \in Wanted
    BY <2>1 DEF Wanted, Parts
  <2>3. site \in Sites /\ NoWork \in Dirs
    BY DEF Init, Sites, Contents, NoWork, Dirs, Gots
  <2>4. LinkTypeOK
    BY DEF Init, LinkInit, LinkTypeOK, Links
  <2>5. others \in 0 .. MaxOthers
    <3>1. MaxOthers \in Nat /\ others = 0
      BY RestoreAssumption DEF Init
    <3> QED
      BY <3>1
  <2>6. opt \in Options /\ stage \in Stages /\ stopped = {} /\ stray = "none" /\ byhand = FALSE /\ told = "" /\ since = FALSE
        /\ saved \in [Parts -> Contents \cup {"nothing"}] /\ work \in Dirs
    BY <2>3 DEF Init, Stages
  <2> QED
    BY <2>1, <2>2, <2>3, <2>4, <2>5, <2>6 DEF TypeOK, Dirs, Gots
<1> QED
  BY <1>1, TypesKept, PTL DEF Spec

-----------------------------------------------------------------------------
(* The order of steps                                                      *)

Closing == {"cleanup", "leave", "done"}

\* Only a step that was left alone goes on, after the steps of the restore; the
\* safety backup and the new site are of the restores that asked for them.
Course ==
  /\ stray # "none" => stage \in Closing /\ stray \in stopped /\ stray # "cleanup"
  /\ stage = "backup" => opt.safety
  /\ stage = "newsite" => opt.new

\* A step whose loss or interruption the client goes on from.
LeftStep ==
  /\ stage \in Jobs /\ stage' \in {"leave", "cleanup"} /\ (stage = "cleanup" => stage' = "leave")
  /\ stopped' = stopped \cup {stage} /\ UNCHANGED <<opt, chosen, byhand, others, kind>>

LEMMA LostIsLeft ==
  ASSUME TypeOK, Lost \/ AbandonStep \/ InterruptStep \/ InterruptCleanUp \/ NameRefused PROVE LeftStep
<1>1. stage \in Jobs /\ stage' = AfterFailure /\ stopped' = stopped \cup {stage} /\ UNCHANGED <<opt, chosen, byhand, others>>
  <2>1. CASE NameRefused
    BY <2>1 DEF NameRefused, Moves, AfterFailure, Jobs
  <2> QED
    BY <2>1 DEF Lost, AbandonStep, InterruptStep, InterruptCleanUp, Interrupted, outside
<1>2. Dropped \/ UNCHANGED connection
  BY DEF Lost, AbandonStep, InterruptStep, InterruptCleanUp, NameRefused
<1>3. UNCHANGED kind
  BY <1>2, LinkTypes DEF TypeOK
<1> QED
  BY <1>1, <1>3 DEF AfterFailure, LeftStep

\* Steps of the connection that leave the restore where it is.
LEMMA OnlyLink ==
  ASSUME TypeOK, Connecting \/ Leave \/ Surroundings(Environment) PROVE UNCHANGED Rest /\ UNCHANGED kind
BY LinkTypes DEF Connecting, Leave, Surroundings, Rest, TypeOK

LEMMA CourseKept == TypeOK /\ Course /\ [Next]_vars => Course'
<1> SUFFICES ASSUME TypeOK, Course, [Next]_vars PROVE Course'
  OBVIOUS
<1> USE DEF target, outside
<1>1. CASE UNCHANGED vars
  BY <1>1 DEF vars, Course
<1>2. CASE Connecting \/ Leave \/ Surroundings(Environment)
  BY <1>2, OnlyLink DEF Rest, Course
<1>3. CASE Connected \/ NotConnected \/ Left \/ Abort \/ Confirm \/ InterruptPrompt
  BY <1>3 DEF Connected, NotConnected, Left, Abort, Confirm, InterruptPrompt, Moves, Quietly, Course, Closing
<1>4. CASE StepDone
  BY <1>4 DEF StepDone, After, Quietly, Course, Closing, Jobs, TypeOK
<1>5. CASE StepFails
  BY <1>5 DEF StepFails, AfterFailure, Quietly, Course, Closing, Jobs
<1>6. CASE CleanUp \/ CleanUpFails
  BY <1>6, CleanUpDrops DEF CleanUp, Moves, Quietly, Course, Closing
<1>7. CASE Lost \/ AbandonStep
  <2>1. LeftStep /\ stray' \in {stage, "none"} /\ stage # "cleanup"
    BY <1>7, LostIsLeft DEF Lost, AbandonStep, LeftAlone
  <2> QED
    BY <2>1 DEF LeftStep, Course, Closing
<1>8. CASE InterruptStep \/ InterruptCleanUp \/ NameRefused
  <2>1. LeftStep /\ stray' = stray
    BY <1>8, LostIsLeft DEF InterruptStep, InterruptCleanUp, NameRefused
  <2> QED
    BY <2>1 DEF LeftStep, Course, Closing
<1>9. CASE InterruptConnection \/ LinkError
  <2>1. UNCHANGED <<stage, stray, opt>> /\ stopped \subseteq stopped'
    BY <1>9 DEF InterruptConnection, InterruptLink, LinkError, NotClosed, Unheard, NoLog, Hangs
  <2> QED
    BY <2>1 DEF Course
<1>10. CASE StrayEnds
  BY <1>10 DEF StrayEnds, Course
<1>11. CASE OthersChange
  BY <1>11 DEF OthersChange, Course
<1> QED
  BY <1>1, <1>2, <1>3, <1>4, <1>5, <1>6, <1>7, <1>8, <1>9, <1>10, <1>11 DEF Next, Own, Unreached

LEMMA StepsInOrder == Spec => []Course
<1>1. Init => Course
  BY DEF Init, Course
<1> QED
  BY <1>1, CourseKept, RestoreTypes, PTL DEF Spec

-----------------------------------------------------------------------------
(* What is replaced                                                        *)

Theirs == {"old", "theirs"}

\* Whatever restore replaces in the site may be replaced: it is benchops' own, it
\* is saved, no saving was wanted, or others have changed the site since.
Covered ==
  \/ since
  \/ opt.new /\ (site = Absent \/ \A p \in Parts : site[p] \notin Theirs)
  \/ ~opt.new /\ (opt.safety /\ site # Absent => \A p \in Backed : site[p] \in Theirs => saved[p] = site[p])

SavedInv == stage = "restore" \/ stray = "restore" => Covered

LEMMA SavedKept == TypeOK /\ Course /\ SavedInv /\ [Next]_vars => SavedInv'
<1> SUFFICES ASSUME TypeOK, Course, SavedInv, [Next]_vars PROVE SavedInv'
  OBVIOUS
<1> USE DEF target, outside
<1>a. ASSUME UNCHANGED <<opt, chosen, site, saved, since>> PROVE Covered' = Covered
  BY <1>a, WantedStays DEF Covered
<1>1. CASE UNCHANGED vars
  BY <1>1, <1>a DEF vars, SavedInv
<1>2. CASE Connecting \/ Leave \/ Surroundings(Environment)
  BY <1>2, <1>a, OnlyLink DEF Rest, SavedInv
<1>3. CASE Connected \/ NotConnected \/ Left \/ Abort \/ Confirm \/ InterruptPrompt \/ CleanUp \/ CleanUpFails
  <2>1. stage' # "restore" /\ UNCHANGED <<stray, opt, chosen, site, saved, since>>
    BY <1>3, CleanUpDrops DEF Connected, NotConnected, Left, Abort, Confirm, InterruptPrompt, CleanUp, Moves, Quietly
  <2> QED
    BY <2>1, <1>a DEF SavedInv
<1>4. CASE StepDone
  <2>1. stage \in Jobs \ {"cleanup"} /\ Works(stage) /\ stage' = After /\ UNCHANGED <<opt, chosen, stray>>
    BY <1>4 DEF StepDone, Quietly
  <2>2. stray = "none"
    BY <2>1 DEF Course, Closing, Jobs
  <2>3. CASE stage = "verify"
    <3>1. UNCHANGED <<site, saved, since>> /\ (stage' = "restore" => ~opt.safety /\ ~opt.new)
      BY <2>1, <2>3 DEF Works, After
    <3> QED
      BY <2>1, <2>2, <3>1 DEF SavedInv, Covered
  <2>4. CASE stage = "backup"
    <3>1. opt.safety /\ ~opt.new
      BY <2>4 DEF Course, TypeOK, Options
    <3>2. site # Absent /\ UNCHANGED site /\ saved' = [p \in Parts |-> IF p \in Backed THEN site[p] ELSE "nothing"]
      BY <2>1, <2>4 DEF Works
    <3>3. \A p \in Backed : saved'[p] = site'[p]
      BY <3>2, WantedParts
    <3> QED
      BY <2>1, <3>1, <3>3, WantedStays DEF SavedInv, Covered
  <2>5. CASE stage = "newsite"
    <3>1. opt.new /\ site' = [p \in Parts |-> "new"]
      BY <2>1, <2>5 DEF Course, Works
    <3> QED
      BY <2>1, <3>1 DEF SavedInv, Covered, Theirs
  <2>6. CASE stage \notin {"verify", "backup", "newsite"}
    <3>1. stage' # "restore"
      BY <2>1, <2>6 DEF After, Jobs
    <3> QED
      BY <2>1, <2>2, <3>1 DEF SavedInv
  <2> QED
    BY <2>3, <2>4, <2>5, <2>6
<1>5. CASE StepFails \/ InterruptStep \/ NameRefused
  <2>1. stage \in Jobs \ {"cleanup"} /\ stage' \in {"leave", "cleanup"} /\ UNCHANGED stray
    BY <1>5 DEF StepFails, AfterFailure, Quietly, InterruptStep, Interrupted, NameRefused, Moves, Jobs
  <2>2. stray = "none"
    BY <2>1 DEF Course, Closing, Jobs
  <2> QED
    BY <2>1, <2>2 DEF SavedInv
<1>6. CASE Lost \/ AbandonStep
  <2>1. LeftStep /\ stray' \in {stage, "none"} /\ UNCHANGED <<site, saved, since>>
    BY <1>6, LostIsLeft DEF Lost, AbandonStep, LeftAlone
  <2> QED
    BY <2>1, <1>a DEF LeftStep, SavedInv
<1>7. CASE InterruptCleanUp
  <2>1. LeftStep /\ UNCHANGED <<stray, site, saved, since>>
    BY <1>7, LostIsLeft DEF InterruptCleanUp
  <2> QED
    BY <2>1, <1>a DEF LeftStep, SavedInv
<1>8. CASE InterruptConnection \/ LinkError
  BY <1>8, <1>a DEF InterruptConnection, LinkError, SavedInv
<1>9. CASE StrayEnds
  BY <1>9 DEF StrayEnds, SavedInv, Course, Closing
<1>10. CASE OthersChange
  BY <1>10 DEF OthersChange, SavedInv, Covered
<1> QED
  BY <1>1, <1>2, <1>3, <1>4, <1>5, <1>6, <1>7, <1>8, <1>9, <1>10 DEF Next, Own, Unreached

LEMMA ReplacingIsCovered == Spec => []SavedInv
<1>1. Init => SavedInv
  BY DEF Init, SavedInv
<1> QED
  BY <1>1, SavedKept, RestoreTypes, StepsInOrder, PTL DEF Spec

\* README "Take a safety backup of the site being replaced": a step never replaces
\* what somebody has in the site and the safety backup has not, also one that goes
\* on alone after Ctrl+C or a lost connection.
THEOREM NothingUnsaved == Spec => ReplacedIsSaved
<1>1. TypeOK /\ Course /\ SavedInv /\ [Next]_vars =>
        [\A p \in Parts : /\ Absent \notin {site, site'} /\ site[p] \in {"old", "theirs"}
                          /\ site'[p] \in {"new", "half", "backup"}
                          => since \/ (~opt.new /\ (opt.safety => saved[p] = site[p]))]_vars
  <2> SUFFICES ASSUME TypeOK, Course, SavedInv, Next, NEW p \in Parts,
                      site # Absent, site' # Absent, site[p] \in Theirs, site'[p] \in {"new", "half", "backup"}
               PROVE  since \/ (~opt.new /\ (opt.safety => saved[p] = site[p]))
    BY DEF Theirs
  <2> USE DEF target, outside
  <2>1. site' # site
    BY DEF Theirs
  <2>2. ~OthersChange
    BY DEF OthersChange
  <2>3. PICK step \in Jobs : (Works(step) \/ Breaks(step)) /\ step \in {stage, stray}
    <3>1. ~NameRefused
      BY <2>1, StepEffect DEF NameRefused, Moves, Jobs
    <3>2. \/ StepDone \/ StepFails \/ InterruptStep
          \/ StrayEnds
      BY <2>1, <2>2, <3>1, OnlyLink, CleanUpDrops
         DEF Next, Own, Unreached, Rest, Connected, NotConnected, CleanUp, Left, Lost, Abort, Confirm, AbandonStep,
             InterruptCleanUp, InterruptPrompt, InterruptConnection, LinkError, Moves, Quietly
    <3> QED
      BY <3>2, <2>1 DEF StepDone, StepFails, InterruptStep, Interrupted, StrayEnds, TypeOK
  <2>4. step \in {"newsite", "restore"}
    BY <2>1, <2>3, StepEffect
  <2>5. step # "newsite"
    BY <2>1, <2>3, StepEffect
  <2>6. p \in Wanted /\ Covered
    <3>1. p \in Wanted
      BY <2>1, <2>3, <2>4, <2>5, StepEffect DEF Theirs
    <3> QED
      BY <3>1, <2>3, <2>4, <2>5 DEF SavedInv
  <2> QED
    BY <2>6, WantedParts DEF Covered
<1> QED
  BY <1>1, RestoreTypes, StepsInOrder, ReplacingIsCovered, PTL DEF Spec, ReplacedIsSaved

-----------------------------------------------------------------------------
(* What the developer is told                                              *)

Early     == {"connect", "inspect", "ask", "mktemp", "put", "fetch", "verify", "backup"}
Untouched == site = Absent \/ \A p \in Parts : site[p] \in Theirs
Whole     == \A p \in Wanted : work.got[p] = "whole"
BackIn    == site # Absent /\ \A p \in Wanted : site[p] = "backup"
Rescued   == site = Absent \/ \A p \in Parts : site[p] \in {"half", "backup"} => saved[p] \in Theirs

\* benchops changes the site only after the download was found whole and, if one
\* was wanted, a safety backup taken; what was said stays so.
TruthInv ==
  /\ stage \in Early => Untouched
  /\ stage \in {"backup", "newsite", "restore"} => Whole
  /\ stage = "restore" /\ opt.safety => Untouched /\ \A p \in Backed : saved[p] \in Theirs
  /\ stage = "hook" => BackIn
  /\ told \in {"restored", "hook failed"} => stage \in Closing /\ stray = "none" /\ BackIn
  /\ told \in {"aborted", "no connection"} => stage \in {"leave", "done"} /\ stray = "none" /\ Untouched
  /\ told = "in safety backup" => stage \in Closing /\ stray = "none" /\ Rescued

LEMMA TruthKept == TypeOK /\ Course /\ TruthInv /\ [Next]_vars => TruthInv'
<1> SUFFICES ASSUME TypeOK, Course, TruthInv, [Next]_vars PROVE TruthInv'
  OBVIOUS
<1> USE DEF target, outside
<1>a. ASSUME UNCHANGED <<opt, chosen, site, saved, work>>
      PROVE  UNCHANGED <<Untouched, Whole, BackIn, Rescued, Backed>>
  BY <1>a, WantedStays DEF Untouched, Whole, BackIn, Rescued
<1>b. ASSUME UNCHANGED <<opt, chosen, site, saved>>
      PROVE  UNCHANGED <<Untouched, BackIn, Rescued, Backed>>
  BY <1>b, WantedStays DEF Untouched, BackIn, Rescued
<1>1. CASE UNCHANGED vars
  BY <1>1, <1>a DEF vars, TruthInv
<1>2. CASE Connecting \/ Leave \/ Surroundings(Environment)
  BY <1>2, <1>a, OnlyLink DEF Rest, TruthInv
<1>3. CASE Connected \/ Confirm
  BY <1>3, <1>a DEF Connected, Confirm, Moves, Quietly, TruthInv, Early, Closing
<1>4. CASE NotConnected \/ Left \/ Abort \/ InterruptPrompt
  <2>1. /\ UNCHANGED <<opt, chosen, site, saved, work, stray>> /\ stage \in {"connect", "inspect", "ask", "leave"}
        /\ stage' \in {"leave", "done"}
    BY <1>4 DEF NotConnected, Left, Abort, InterruptPrompt, Moves, Quietly
  <2>2. \/ stage = "leave" /\ UNCHANGED told
        \/ stage \in Early /\ told' \in {told, "no connection", "aborted", "interrupted"}
    BY <1>4 DEF NotConnected, Left, Abort, InterruptPrompt, Moves, Early
  <2>3. stage \in Early => stray = "none" /\ Untouched
                           /\ told \notin {"restored", "hook failed", "aborted", "no connection", "in safety backup"}
    BY DEF Course, TruthInv, Early, Closing
  <2> QED
    BY <2>1, <2>2, <2>3, <1>a DEF TruthInv, Early, Closing
<1>5. CASE StepDone
  <2>1. /\ stage \in Jobs \ {"cleanup"} /\ Works(stage) /\ stage' = After /\ UNCHANGED <<opt, chosen, stray>>
        /\ told' = IF stage = "hook" THEN "restored" ELSE told
    BY <1>5 DEF StepDone, Quietly
  <2>2. stray = "none" /\ told \notin {"restored", "hook failed", "aborted", "no connection", "in safety backup"}
    BY <2>1 DEF Course, TruthInv, Closing, Jobs
  <2>3. CASE stage \in {"inspect", "mktemp", "put", "fetch"}
    <3>1. stage' \in {"ask", "fetch", "put", "verify"} /\ UNCHANGED <<site, saved>> /\ Untouched
      BY <2>1, <2>3, StepEffect DEF After, TruthInv, Early
    <3> QED
      BY <2>1, <2>2, <2>3, <3>1, <1>b DEF TruthInv, Early
  <2>4. CASE stage = "verify"
    <3>1. stage' \in {"backup", "newsite", "restore"} /\ (stage' = "restore" => ~opt.safety)
          /\ UNCHANGED <<site, saved, work>> /\ Untouched /\ Whole
      BY <2>1, <2>4 DEF After, Works, Verified, Whole, TruthInv, Early
    <3> QED
      BY <2>1, <2>2, <2>4, <3>1, <1>a DEF TruthInv, Early
  <2>5. CASE stage = "backup"
    <3>1. /\ stage' = "restore" /\ site # Absent /\ UNCHANGED <<site, work>>
          /\ saved' = [p \in Parts |-> IF p \in Backed THEN site[p] ELSE "nothing"]
      BY <2>1, <2>5 DEF After, Works
    <3>2. Untouched /\ Whole
      BY <2>5 DEF TruthInv, Early
    <3>3. \A p \in Backed : saved'[p] \in Theirs
      BY <3>1, <3>2, WantedParts DEF Untouched
    <3>4. Untouched' /\ Whole' /\ Backed' = Backed
      BY <2>1, <3>1, <3>2, WantedStays DEF Untouched, Whole
    <3> QED
      BY <2>1, <2>2, <2>5, <3>1, <3>3, <3>4 DEF TruthInv, Early
  <2>6. CASE stage = "newsite"
    <3>1. stage' = "restore" /\ UNCHANGED <<saved, work>> /\ Whole /\ ~opt.safety
      BY <2>1, <2>6 DEF After, Works, TruthInv, Course, TypeOK, Options
    <3>2. Whole'
      BY <2>1, <3>1, WantedStays DEF Whole
    <3> QED
      BY <2>1, <2>2, <2>6, <3>1, <3>2 DEF TruthInv, Early
  <2>7. CASE stage = "restore"
    <3>1. stage' = "hook" /\ site # Absent /\ site' = Restored /\ Whole
      BY <2>1, <2>7 DEF After, Works, TruthInv
    <3>2. \A p \in Wanted : site'[p] = "backup"
      BY <3>1, WantedParts DEF Restored, Whole
    <3>3. site' # Absent
      <4>1. site \in [Parts -> Contents]
        BY <3>1 DEF TypeOK, Sites
      <4>2. Restored \in [Parts -> Contents]
        BY <4>1 DEF Restored, Contents
      <4> QED
        BY <3>1, <4>2, RestoreAssumption
    <3>4. BackIn'
      BY <2>1, <3>2, <3>3, WantedStays DEF BackIn
    <3> QED
      BY <2>1, <2>2, <2>7, <3>1, <3>4 DEF TruthInv, Early
  <2>8. CASE stage = "hook"
    <3>1. stage' = "cleanup" /\ told' = "restored" /\ UNCHANGED <<site, saved, work>> /\ BackIn
      BY <2>1, <2>8 DEF After, Works, TruthInv
    <3> QED
      BY <2>1, <2>2, <3>1, <1>a DEF TruthInv, Early, Closing
  <2> QED
    BY <2>1, <2>3, <2>4, <2>5, <2>6, <2>7, <2>8 DEF Jobs
<1>6. CASE StepFails
  <2>1. /\ stage \in Jobs \ {"cleanup"} /\ Breaks(stage) /\ stage' \in {"leave", "cleanup"} /\ UNCHANGED <<opt, chosen, stray>>
        /\ told' = CASE stage = "hook" -> "hook failed"
                     [] stage = "restore" /\ opt.safety -> "in safety backup"
                     [] OTHER -> "failed"
    BY <1>6 DEF StepFails, AfterFailure, Quietly
  <2>2. stray = "none"
    BY <2>1 DEF Course, Closing, Jobs
  <2>3. CASE stage = "hook"
    <3>1. told' = "hook failed" /\ UNCHANGED <<site, saved, work>> /\ BackIn
      BY <2>1, <2>3 DEF Breaks, TruthInv
    <3> QED
      BY <2>1, <2>2, <3>1, <1>a DEF TruthInv, Early, Closing
  <2>4. CASE stage = "restore" /\ opt.safety
    <3>1. told' = "in safety backup" /\ UNCHANGED saved
      BY <2>1, <2>4, StepEffect
    <3>2. Untouched /\ \A p \in Backed : saved[p] \in Theirs
      BY <2>4 DEF TruthInv
    <3>3. \/ site' = site
          \/ /\ site # Absent
             /\ \A p \in Parts : (site'[p] \in {"backup", "half"} /\ p \in Wanted) \/ site'[p] = site[p]
      BY <2>1, <2>4, StepEffect
    <3>4. Rescued'
      BY <3>1, <3>2, <3>3, WantedParts DEF Rescued, Untouched, Theirs
    <3> QED
      BY <2>1, <2>2, <3>1, <3>4 DEF TruthInv, Early, Closing
  <2>5. CASE ~(stage = "hook") /\ ~(stage = "restore" /\ opt.safety)
    <3>1. told' = "failed"
      BY <2>1, <2>5
    <3> QED
      BY <2>1, <3>1 DEF TruthInv, Early
  <2> QED
    BY <2>3, <2>4, <2>5
<1>7. CASE CleanUp \/ CleanUpFails
  <2>1. /\ stage = "cleanup" /\ stage' = "leave" /\ UNCHANGED <<opt, chosen, site, saved, stray>>
        /\ told' \in {told, "failed"}
    BY <1>7, CleanUpDrops DEF CleanUp, Moves, Quietly
  <2> QED
    BY <2>1, <1>b DEF TruthInv, Early, Closing
<1>8. CASE Lost \/ AbandonStep \/ InterruptStep \/ InterruptCleanUp \/ NameRefused
  <2>1. stage' \in {"leave", "cleanup"} /\ told' \in {"lost", "interrupted", "failed"}
    BY <1>8, LostIsLeft DEF LeftStep, Lost, AbandonStep, InterruptStep, InterruptCleanUp, Interrupted, NameRefused
  <2> QED
    BY <2>1 DEF TruthInv, Early
<1>9. CASE InterruptConnection \/ LinkError
  <2>1. UNCHANGED <<opt, chosen, stage, site, saved, work, stray>> /\ told' \in {told, "interrupted", "failed"}
    BY <1>9 DEF InterruptConnection, LinkError
  <2> QED
    BY <2>1, <1>a DEF TruthInv
<1>10. CASE StrayEnds
  <2>1. stray # "none" /\ stage \in Closing /\ UNCHANGED <<stage, told>>
    BY <1>10 DEF StrayEnds, Course
  <2> QED
    BY <2>1 DEF TruthInv, Early, Closing
<1>11. CASE OthersChange
  <2>1. /\ UNCHANGED <<opt, chosen, stage, saved, work, stray, told>> /\ stage \notin {"hook", "cleanup", "leave", "done"}
        /\ site' \in {Absent, [p \in Parts |-> "theirs"]}
    BY <1>11 DEF OthersChange
  <2>2. Untouched' /\ UNCHANGED <<Whole, Backed>>
    BY <2>1, WantedStays DEF Untouched, Theirs, Whole
  <2> QED
    BY <2>1, <2>2 DEF TruthInv, Closing
<1> QED
  BY <1>1, <1>2, <1>3, <1>4, <1>5, <1>6, <1>7, <1>8, <1>9, <1>10, <1>11 DEF Next, Own, Unreached

\* "Restored", "nothing was changed" and "the safety backup is in": what the
\* developer is told at the end is so, whatever fails, is lost, is interrupted or
\* goes on, and whoever else changes the site.
THEOREM ReportsAreSo == Spec => []TellsTruth
<1>1. Init => TruthInv
  BY DEF Init, TruthInv, Untouched, Theirs, Early
<1>2. TruthInv => TellsTruth
  BY DEF TruthInv, TellsTruth, BackIn, Untouched, Rescued, Theirs
<1> QED
  BY <1>1, <1>2, TruthKept, RestoreTypes, StepsInOrder, PTL DEF Spec

-----------------------------------------------------------------------------
(* What is left                                                            *)

\* Only mktemp makes the directory, and it is gone once the client leaves, but
\* where NothingLeft says.
GoneInv ==
  /\ stage \in {"connect", "inspect", "ask", "mktemp"} => ~work.dir
  /\ stage \in {"leave", "done"} =>
       \/ ~work.dir \/ byhand \/ stopped \cap {"mktemp", "cleanup"} # {}
       \/ kind = "local" /\ stopped # {}

\* What the client holds at each point of open and close.
Held ==
  /\ link = "new" \/ ~HasSession => session = "none"
  /\ link \in {"new", "started", "logged"} \/ ~HasSession => plugin = "none"
  /\ link \in {"new", "started"} \/ kind # "ssm-ssh" => ~log
  /\ link \in {"started", "logged"} => HasSession
  /\ link = "logged" => kind = "ssm-ssh"
  /\ link = "ending" => plugin # "running"
  /\ LinkGone

LinkInv == Held /\ (stage \in Jobs \cup {"ask"} => link = "open")

LEMMA GoneKept == TypeOK /\ Course /\ GoneInv /\ [Next]_vars => GoneInv'
<1> SUFFICES ASSUME TypeOK, Course, GoneInv, [Next]_vars PROVE GoneInv'
  OBVIOUS
<1> USE DEF target, outside
<1>1. CASE UNCHANGED vars
  BY <1>1 DEF vars, connection, GoneInv
<1>2. CASE Connecting \/ Leave \/ Surroundings(Environment)
  BY <1>2, OnlyLink DEF Rest, GoneInv
<1>3. CASE Connected \/ NotConnected \/ Left \/ Abort \/ Confirm \/ InterruptPrompt
  BY <1>3 DEF Connected, NotConnected, Left, Abort, Confirm, InterruptPrompt, Moves, Quietly, connection, GoneInv
<1>4. CASE StepDone
  <2>1. stage \in Jobs \ {"cleanup"} /\ Works(stage) /\ stage' = After
    BY <1>4 DEF StepDone
  <2>2. stage' \notin {"connect", "inspect", "mktemp", "leave", "done"} /\ (stage' = "ask" => stage = "inspect")
    BY <2>1 DEF After, Jobs
  <2>3. stage = "inspect" => ~work'.dir
    BY <2>1 DEF Works, GoneInv
  <2> QED
    BY <2>2, <2>3 DEF GoneInv
<1>5. CASE StepFails
  <2>1. stage \in Jobs \ {"cleanup"} /\ Breaks(stage) /\ stage' = AfterFailure
    BY <1>5 DEF StepFails
  <2>2. stage' \in {"leave", "cleanup"} /\ (stage' = "leave" => ~work'.dir)
    BY <2>1 DEF AfterFailure, Breaks, GoneInv
  <2> QED
    BY <2>2 DEF GoneInv
<1>6. CASE CleanUp
  <2>1. stage' = "leave" /\ UNCHANGED <<kind, stopped, stray>>
        /\ (work' = NoWork \/ (kind = "local" /\ stray # "none"))
    BY <1>6 DEF CleanUp, Moves, Quietly, connection
  <2>2. stray # "none" => stopped # {}
    BY DEF Course
  <2> QED
    BY <2>1, <2>2 DEF GoneInv, NoWork
<1>7. CASE CleanUpFails
  BY <1>7, CleanUpDrops DEF GoneInv
<1>8. CASE Lost \/ AbandonStep \/ InterruptStep \/ InterruptCleanUp \/ NameRefused
  <2>1. LeftStep
    BY <1>8, LostIsLeft
  <2>2. stage' = "leave" => stage \in {"inspect", "mktemp", "cleanup"}
    BY <1>8 DEF Lost, AbandonStep, InterruptStep, InterruptCleanUp, Interrupted, AfterFailure, NameRefused, Moves
  <2>3. stage = "inspect" => ~work'.dir
    <3>1. stage = "inspect" => UNCHANGED work
      <4>1. CASE Lost \/ AbandonStep \/ InterruptCleanUp
        BY <4>1 DEF Lost, AbandonStep, InterruptCleanUp
      <4>2. CASE InterruptStep
        BY <4>2, <2>1, StepEffect DEF InterruptStep, LeftStep
      <4> QED
        BY <1>8, <4>1, <4>2 DEF NameRefused, Moves
    <3> QED
      BY <3>1 DEF GoneInv
  <2> QED
    BY <2>1, <2>2, <2>3 DEF LeftStep, GoneInv
<1>9. CASE InterruptConnection \/ LinkError
  <2>1. UNCHANGED <<stage, work, byhand, kind>> /\ stopped \subseteq stopped'
    BY <1>9 DEF InterruptConnection, InterruptLink, LinkError, NotClosed, Unheard, NoLog, Hangs
  <2> QED
    BY <2>1 DEF GoneInv
<1>10. CASE StrayEnds
  <2>1. /\ stray # "none" /\ stray \in Jobs /\ stage \in Closing /\ stray \in stopped
        /\ UNCHANGED <<stage, stopped, byhand, kind>>
    BY <1>10 DEF StrayEnds, Course, TypeOK, connection
  <2>2. stray = "mktemp" \/ work'.dir = work.dir
    BY <1>10, <2>1, StepEffect DEF StrayEnds
  <2> QED
    BY <2>1, <2>2 DEF GoneInv, Closing
<1>11. CASE OthersChange
  BY <1>11 DEF OthersChange, connection, GoneInv
<1> QED
  BY <1>1, <1>2, <1>3, <1>4, <1>5, <1>6, <1>7, <1>8, <1>9, <1>10, <1>11 DEF Next, Own, Unreached

LEMMA LinkKept == TypeOK /\ LinkInv /\ [Next]_vars => LinkInv'
<1> SUFFICES ASSUME TypeOK, LinkInv, [Next]_vars PROVE LinkInv'
  OBVIOUS
<1>a. Held /\ LinkTypeOK
  BY DEF LinkInv, TypeOK
<1> SUFFICES Held' /\ (stage \in Jobs \cup {"ask"} => link = "open")'
  BY DEF LinkInv
<1>b. ASSUME UNCHANGED kind, stopped \subseteq stopped'
      PROVE  (CutShort => CutShort') /\ (SessionLeft => SessionLeft') /\ (LogLeft => LogLeft')
  BY <1>b DEF CutShort, SessionLeft, LogLeft
<1> USE DEF Held, LinkGone, HasSession, PluginLives, PluginEnded, SessionEnded, Hung
<1>1. ASSUME UNCHANGED connection, stopped \subseteq stopped' PROVE Held'
  BY <1>a, <1>b, <1>1 DEF connection
<1>2. ASSUME Client, UNCHANGED stopped PROVE Held'
  <2>1. CASE ConnectDirect \/ StartSession \/ StartRefused \/ MakeLog
    BY <1>a, <1>b, <1>2, <2>1 DEF ConnectDirect, StartSession, StartRefused, MakeLog, Link
  <2>2. CASE Launch \/ LaunchFails
    BY <1>a, <1>b, <1>2, <2>2 DEF Launch, LaunchFails, Launching
  <2>3. CASE Opens \/ GivesUp \/ EndPlugin
    BY <1>a, <1>b, <1>2, <2>3 DEF Opens, GivesUp, EndPlugin, Link
  <2>4. CASE EndSession
    BY <1>a, <1>b, <1>2, <2>4 DEF EndSession, Link, LinkTypeOK
  <2> QED
    BY <1>2, <2>1, <2>2, <2>3, <2>4 DEF Client
<1>3. ASSUME StartClosing \/ Environment, UNCHANGED stopped PROVE Held'
  BY <1>a, <1>b, <1>3 DEF StartClosing, Environment, Announce, PluginDies, DeadlinePasses, Link
<1>4. ASSUME InterruptLink PROVE Held'
  <2>0. /\ link \in {"new", "started", "logged", "waiting", "closing", "ending"} /\ UNCHANGED kind
        /\ link' = IF link = "waiting" /\ kind = "ssm" THEN "closing" ELSE "closed"
        /\ stopped' = stopped \cup {link}
    BY <1>a, <1>4 DEF InterruptLink, Links, LinkTypeOK
  <2>a. link \in {"started", "logged", "closing"} \/ (link = "waiting" /\ kind = "ssm-ssh") => CutShort'
    BY <2>0 DEF CutShort
  <2>b. link = "new" => SessionLeft'
    BY <2>0 DEF SessionLeft
  <2>c. link = "ending" => SessionLeft' /\ LogLeft'
    BY <2>0 DEF SessionLeft, LogLeft
  <2>d. CutShort' => SessionLeft' /\ LogLeft'
    BY DEF SessionLeft, LogLeft
  <2>1. link' = "closed" => \/ link = "new" /\ SessionLeft'
                            \/ link = "ending" /\ SessionLeft' /\ LogLeft'
                            \/ CutShort' /\ SessionLeft' /\ LogLeft'
                            \/ link = "waiting" /\ kind \notin {"ssm", "ssm-ssh"}
    BY <2>0, <2>a, <2>b, <2>c, <2>d
  <2>2. /\ UNCHANGED kind /\ link' \in {"closing", "closed"} /\ (link' = "closing" => link = "waiting" /\ kind = "ssm")
        /\ session' = session \/ HasSession
        /\ plugin' = plugin \/ Launching
        /\ log' = log \/ (link = "started" /\ kind = "ssm-ssh")
    <3>1. /\ session' = session \/ (link = "new" /\ HasSession) \/ (link = "ending" /\ session' \in SessionEnded)
          /\ plugin' = plugin \/ Launching
          /\ log' = log \/ (link = "started" /\ kind = "ssm-ssh")
      BY <1>4 DEF InterruptLink
    <3> QED
      BY <1>a, <2>0, <3>1
  <2>3. Launching => HasSession
    BY <1>a DEF Launching
  <2>4. link \in {"new", "ending"} => UNCHANGED <<plugin, log>>
    BY <2>2 DEF Launching
  <2> QED
    BY <1>a, <2>1, <2>2, <2>3, <2>4
<1>5. ASSUME Dropped, stopped \subseteq stopped', link = "open" PROVE Held'
  BY <1>a, <1>b, <1>5 DEF Dropped, connection
<1>c. ASSUME NotClosed PROVE Held'
  <2>1. UNCHANGED kind
    BY <1>a, <1>c, LinkTypes
  <2>2. CASE Unheard
    BY <1>a, <2>2 DEF Unheard, Link, SessionLeft, Errors
  <2>3. CASE NoLog
    BY <1>a, <2>3 DEF NoLog, Link, SessionLeft, Errors
  <2>4. CASE Hangs
    <3>1. SessionLeft' /\ LogLeft'
      BY <2>4 DEF Hangs, SessionLeft, LogLeft, Errors
    <3> QED
      BY <1>a, <2>4, <3>1 DEF Hangs, Link
  <2> QED
    BY <1>c, <2>2, <2>3, <2>4 DEF NotClosed
<1> HIDE DEF Held
<1> USE DEF target, outside
<1>6. CASE UNCHANGED vars
  BY <1>1, <1>6 DEF vars, connection, LinkInv
<1>7. CASE Connecting
  BY <1>2, <1>7 DEF Connecting, Jobs
<1>8. CASE Leave \/ Surroundings(Environment)
  <2>1. UNCHANGED <<stage, stopped>> /\ (stage \in Jobs \cup {"ask"} => link' = link)
    BY <1>8 DEF Leave, Surroundings, Environment, Announce, PluginDies, DeadlinePasses, Jobs
  <2> QED
    BY <1>3, <1>8, <2>1 DEF Leave, Surroundings, LinkInv
<1>9. CASE \/ Connected \/ NotConnected \/ Left \/ Abort \/ Confirm \/ InterruptPrompt \/ StepDone \/ StepFails \/ CleanUp
           \/ StrayEnds \/ OthersChange
  <2>1. UNCHANGED <<connection, stopped>>
    BY <1>9 DEF Connected, NotConnected, Left, Abort, Confirm, InterruptPrompt, StepDone, StepFails, CleanUp,
                StrayEnds, OthersChange, Quietly
  <2>2. stage' \in Jobs \cup {"ask"} => link = "open"
    BY <1>9 DEF Connected, NotConnected, Left, Abort, Confirm, InterruptPrompt, StepDone, StepFails, CleanUp,
                StrayEnds, OthersChange, Moves, LinkInv, Jobs
  <2> QED
    BY <1>1, <2>1, <2>2 DEF connection
<1>10. CASE Lost \/ AbandonStep \/ InterruptStep \/ InterruptCleanUp \/ NameRefused \/ CleanUpFails
  <2>1. stage \in Jobs /\ link = "open"
    BY <1>10 DEF Lost, AbandonStep, InterruptStep, InterruptCleanUp, Interrupted, NameRefused, CleanUpFails, Moves, LinkInv, Jobs
  <2>2. (Dropped \/ UNCHANGED connection) /\ stopped \subseteq stopped'
    BY <1>10, CleanUpDrops DEF Lost, AbandonStep, InterruptStep, InterruptCleanUp, Interrupted, NameRefused
  <2>3. link' = link
    BY <2>2 DEF Dropped, connection
  <2> QED
    BY <1>1, <1>5, <2>1, <2>2, <2>3
<1>11. CASE InterruptConnection \/ LinkError
  BY <1>4, <1>c, <1>11 DEF InterruptConnection, LinkError, Jobs
<1> QED
  BY <1>6, <1>7, <1>8, <1>9, <1>10, <1>11 DEF Next, Own, Unreached

\* However the command ends, the downloads, the plugin, the AWS session and the
\* log are gone or the developer is told, but for what NothingLeft and LinkGone
\* say of Ctrl+C and of the errors nothing cleans up after: over every kind of
\* connection, whatever step fails, and also with steps that go on alone.
THEOREM EverythingIsCleanedUp == Spec => []NothingLeft
<1>1. Init => GoneInv /\ LinkInv
  <2> SUFFICES ASSUME Init PROVE GoneInv /\ LinkInv
    OBVIOUS
  <2>1. stage = "connect" /\ ~work.dir
    BY DEF Init, NoWork
  <2>2. link = "new" /\ session = "none" /\ plugin = "none" /\ ~log
    BY DEF Init, LinkInit
  <2> QED
    BY <2>1, <2>2 DEF GoneInv, LinkInv, Held, LinkGone, Jobs
<1>2. GoneInv /\ LinkInv => NothingLeft
  BY DEF GoneInv, LinkInv, Held, NothingLeft
<1> QED
  BY <1>1, <1>2, GoneKept, LinkKept, RestoreTypes, StepsInOrder, PTL DEF Spec
=============================================================================
