------------------------- MODULE ClientStoresProofs -------------------------
(***************************************************************************)
(* The stores of the developer's machine for any number of terminals,      *)
(* commands, servers, hosts and key pairs, with commands that are killed   *)
(* anywhere and writes of config.toml that undo each other.                *)
(***************************************************************************)
EXTENDS ClientStores, SequenceTheorems, TLAPS

-----------------------------------------------------------------------------
(* What a command makes of the file                                        *)

\* The entry of the server a command names, afterwards.
NewEntry(c, d, edited) ==
  LET old == d.servers[c.name] IN
  CASE c.do = "add"         -> [type |-> c.value, instance |-> c.to,
                                key   |-> IF Known(d, c.name) THEN old.key ELSE "no_key",
                                hooks |-> IF Known(d, c.name) THEN old.hooks ELSE <<>>]
    [] c.do = "remove"      -> NoServer
    [] c.do = "password"    -> [old EXCEPT !.key = "no_key"]
    [] c.do = "key"         -> [old EXCEPT !.key = "user"]
    [] c.do = "setup"       -> [old EXCEPT !.key = "own"]
    [] c.do = "add_hook"    -> [old EXCEPT !.hooks = Append(old.hooks, c.value)]
    [] c.do = "clear_hooks" -> [old EXCEPT !.hooks = <<>>]
    [] c.do = "edit_hooks"  -> [old EXCEPT !.hooks = edited]

\* The commands that write tables, and what they write.
Writing == {"add_entry", "set_entry", "login", "remove_entry", "logout"}
NewValue(c) == IF c.do \in {"remove_entry", "logout"} THEN NoEntry ELSE c.value
NewTables(c, d) == [d.tables EXCEPT ![c.to] = [@ EXCEPT ![c.name] = NewValue(c)]]

LEMMA CommandFacts ==
  ASSUME NEW c \in Command
  PROVE  /\ c.do \in ServerCommand => c.name \in Aliases
         /\ c.do = "add" => c.value \in Types /\ c.to \in Instances
         /\ c.do \in ServerCommand \ {"add"} => c.value \in Lines
         /\ c.do \in LocalCommand \cup ServerCommand \cup Writing
         /\ c.do \in Writing => c.name \in Names /\ c.value \in Values /\ c.to \in Tables
         /\ c.do \in TableCommand => c.to # "git_hosts"
         /\ c.do \in HostCommand => c.to = "git_hosts"
BY DEF Command, ServerCommand, LocalCommand, TableCommand, HostCommand, Writing, Tables

\* A command for a server changes its entry and nothing else.
LEMMA ServerChanged ==
  ASSUME NEW c \in Command, NEW d \in Config, NEW edited, c.do \in ServerCommand
  PROVE  Changed(c, d, edited) = [d EXCEPT !.servers = [@ EXCEPT ![c.name] = NewEntry(c, d, edited)]]
<1> USE DEF Changed, NewEntry, LocalCommand
<1>1. CASE c.do = "add"
  BY <1>1 DEF AddServer
<1>2. CASE c.do = "remove"
  BY <1>2
<1>3. CASE c.do = "password"
  BY <1>3 DEF SetKey
<1>4. CASE c.do = "key"
  BY <1>4 DEF SetKey
<1>5. CASE c.do = "setup"
  BY <1>5 DEF SetKey
<1>6. CASE c.do = "add_hook"
  BY <1>6 DEF SetHooks
<1>7. CASE c.do = "clear_hooks"
  BY <1>7 DEF SetHooks
<1>8. CASE c.do = "edit_hooks"
  BY <1>8 DEF SetHooks
<1> QED
  BY <1>1, <1>2, <1>3, <1>4, <1>5, <1>6, <1>7, <1>8 DEF ServerCommand

LEMMA TableChanged ==
  ASSUME NEW c \in Command, NEW d \in Config, NEW edited, c.do \in Writing
  PROVE  Changed(c, d, edited) = [d EXCEPT !.tables = NewTables(c, d)]
<1>1. CASE c.do \in {"remove_entry", "logout"}
  <2>1. Changed(c, d, edited) = WriteEntry(d, c, NoEntry)
    BY <1>1 DEF Changed, LocalCommand
  <2> QED
    BY <2>1, <1>1 DEF WriteEntry, NewValue, NewTables
<1>2. CASE c.do \in {"add_entry", "set_entry", "login"}
  <2>1. Changed(c, d, edited) = WriteEntry(d, c, c.value)
    BY <1>2 DEF Changed, LocalCommand
  <2> QED
    BY <2>1, <1>2 DEF WriteEntry, NewValue, NewTables
<1> QED
  BY <1>1, <1>2 DEF Writing

LEMMA LocalChanged ==
  ASSUME NEW c \in Command, NEW d \in Config, NEW edited, c.do \in LocalCommand
  PROVE  Changed(c, d, edited) = [d EXCEPT !.local = edited]
BY DEF Changed, LocalCommand

LEMMA HookAppended ==
  ASSUME NEW hs \in Hooks, NEW l \in Lines, Len(hs) < MaxHooks
  PROVE  Append(hs, l) \in Hooks
<1>1. PICK n \in 0 .. MaxHooks : hs \in [1 .. n -> Lines]
  BY DEF Hooks
<1>2. Append(hs, l) \in [1 .. n + 1 -> Lines] /\ n + 1 \in 0 .. MaxHooks
  <2>1. hs \in Seq(Lines) /\ Len(hs) = n
    BY <1>1
  <2>2. Append(hs, l) \in Seq(Lines) /\ Len(Append(hs, l)) = n + 1
    BY <2>1
  <2>3. Append(hs, l) \in [1 .. Len(Append(hs, l)) -> Lines]
    BY <2>2, LenProperties
  <2>4. n + 1 \in 0 .. MaxHooks
    BY <2>1, StoresAssumption
  <2> QED
    BY <2>2, <2>3, <2>4
<1> QED
  BY <1>2 DEF Hooks

LEMMA EmptyHooks == <<>> \in Hooks
<1>1. <<>> \in [1 .. 0 -> Lines]
  OBVIOUS
<1>2. 0 \in 0 .. MaxHooks
  BY StoresAssumption
<1> QED
  BY <1>1, <1>2 DEF Hooks

\* What a command has read and has in memory when it is about to write.
Ready(c, d, edited) ==
  /\ c.do \in ServerCommand \ {"add"} => Known(d, c.name)
  /\ c.do = "add_hook" => Len(d.servers[c.name].hooks) < MaxHooks
  /\ c.do \in LocalCommand \cup {"edit_hooks"} => edited \in Hooks

LEMMA NewEntryType ==
  ASSUME NEW c \in Command, NEW d \in Config, NEW edited, c.do \in ServerCommand, Ready(c, d, edited)
  PROVE  /\ NewEntry(c, d, edited) \in Entry \cup {NoServer}
         /\ c.do # "remove" => NewEntry(c, d, edited) \in Entry
<1> USE DEF Ready, Known
<1>1. c.name \in Aliases /\ d.servers[c.name] \in Entry \cup {NoServer}
  BY CommandFacts DEF Config
<1>2. CASE c.do = "add"
  <2> DEFINE old == d.servers[c.name]
  <2>1. (IF Known(d, c.name) THEN old.key ELSE "no_key") \in Keys
    BY <1>1 DEF Entry, Keys
  <2>2. (IF Known(d, c.name) THEN old.hooks ELSE <<>>) \in Hooks
    BY <1>1, EmptyHooks DEF Entry
  <2>3. NewEntry(c, d, edited) = [type |-> c.value, instance |-> c.to,
                                  key   |-> IF Known(d, c.name) THEN old.key ELSE "no_key",
                                  hooks |-> IF Known(d, c.name) THEN old.hooks ELSE <<>>]
    BY <1>2 DEF NewEntry
  <2>4. c.value \in Types /\ c.to \in Instances
    BY <1>2, CommandFacts
  <2> QED
    BY <2>1, <2>2, <2>3, <2>4, <1>2 DEF Entry
<1>3. CASE c.do = "remove"
  BY <1>3 DEF NewEntry
<1>4. CASE c.do \in {"password", "key", "setup"}
  <2>1. d.servers[c.name] \in Entry
    BY <1>1, <1>4 DEF ServerCommand
  <2>2. \E k \in Keys : NewEntry(c, d, edited) = [d.servers[c.name] EXCEPT !.key = k]
    BY <1>4 DEF NewEntry, Keys
  <2> QED
    BY <2>1, <2>2 DEF Entry
<1>5. CASE c.do \in {"add_hook", "clear_hooks", "edit_hooks"}
  <2>1. d.servers[c.name] \in Entry
    BY <1>1, <1>5 DEF ServerCommand
  <2>2. d.servers[c.name].hooks \in Hooks
    BY <2>1 DEF Entry
  <2>3. \E hs \in Hooks : NewEntry(c, d, edited) = [d.servers[c.name] EXCEPT !.hooks = hs]
    <3>1. CASE c.do = "add_hook"
      <4>1. Append(d.servers[c.name].hooks, c.value) \in Hooks
        BY <3>1, <2>2, HookAppended, CommandFacts DEF ServerCommand
      <4> QED
        BY <4>1, <3>1 DEF NewEntry
    <3>2. CASE c.do \in {"clear_hooks", "edit_hooks"}
      BY <3>2, EmptyHooks DEF NewEntry
    <3> QED
      BY <3>1, <3>2, <1>5
  <2> QED
    BY <2>1, <2>3 DEF Entry
<1> QED
  BY <1>2, <1>3, <1>4, <1>5 DEF ServerCommand

LEMMA ChangedType ==
  ASSUME NEW c \in Command, NEW d \in Config, NEW edited, Ready(c, d, edited)
  PROVE  Changed(c, d, edited) \in Config
<1>1. CASE c.do \in ServerCommand
  <2>1. [d.servers EXCEPT ![c.name] = NewEntry(c, d, edited)] \in [Aliases -> Entry \cup {NoServer}]
    BY <1>1, NewEntryType, CommandFacts DEF Config
  <2> QED
    BY <1>1, <2>1, ServerChanged DEF Config
<1>2. CASE c.do \in Writing
  <2>1. NewValue(c) \in Values \cup {NoEntry} /\ c.to \in Tables /\ c.name \in Names
    BY <1>2, CommandFacts DEF NewValue
  <2>2. d.tables \in [Tables -> [Names -> Values \cup {NoEntry}]]
    BY DEF Config
  <2>3. NewTables(c, d) \in [Tables -> [Names -> Values \cup {NoEntry}]]
    BY <2>1, <2>2 DEF NewTables
  <2> QED
    BY <1>2, <2>3, TableChanged DEF Config
<1>3. CASE c.do \in LocalCommand
  BY <1>3, LocalChanged DEF Config, Ready
<1> QED
  BY <1>1, <1>2, <1>3, CommandFacts

\* Where the servers and the hosts are after a command has changed the file.
LEMMA ServersAfter ==
  ASSUME NEW c \in Command, NEW d \in Config, NEW edited, NEW a \in Aliases
  PROVE  Changed(c, d, edited).servers[a] =
           IF c.do \in ServerCommand /\ c.name = a THEN NewEntry(c, d, edited) ELSE d.servers[a]
<1>1. CASE c.do \in ServerCommand
  BY <1>1, ServerChanged, CommandFacts DEF Config
<1>2. CASE c.do \in Writing
  BY <1>2, TableChanged DEF Config, Writing, ServerCommand
<1>3. CASE c.do \in LocalCommand
  BY <1>3, LocalChanged DEF Config, LocalCommand, ServerCommand
<1> QED
  BY <1>1, <1>2, <1>3, CommandFacts

LEMMA HostsAfter ==
  ASSUME NEW c \in Command, NEW d \in Config, NEW edited, NEW n \in Names
  PROVE  Changed(c, d, edited).tables["git_hosts"][n] =
           IF c.do \in HostCommand /\ c.name = n THEN NewValue(c) ELSE d.tables["git_hosts"][n]
<1>1. CASE c.do \in ServerCommand
  BY <1>1, ServerChanged DEF Config, ServerCommand, HostCommand
<1>2. CASE c.do \in LocalCommand
  BY <1>2, LocalChanged DEF Config, LocalCommand, HostCommand
<1>3. CASE c.do \in Writing
  <2>1. d.tables \in [Tables -> [Names -> Values \cup {NoEntry}]] /\ "git_hosts" \in Tables
    BY DEF Config, Tables
  <2>2. c.to \in Tables /\ c.name \in Names /\ (c.to = "git_hosts" <=> c.do \in HostCommand)
    BY <1>3, CommandFacts DEF Writing, TableCommand, HostCommand
  <2>3. Changed(c, d, edited).tables = NewTables(c, d)
    BY <1>3, TableChanged DEF Config
  <2> QED
    BY <2>1, <2>2, <2>3, <1>3 DEF NewTables, NewValue
<1> QED
  BY <1>1, <1>2, <1>3, CommandFacts

-----------------------------------------------------------------------------
(* Terminals                                                               *)

Running == [cmd : Command, at : Steps, mine : Hooks \cup Halves, read : Config]

\* The step a command is at is one of its steps, and it has in memory what the
\* steps to come use.
Fits(u) ==
  /\ u.at = "edit"   => u.cmd.do \in {"edit_hooks", "local_edit"}
  /\ u.at = "secret" => u.cmd.do = "password"
  /\ u.at = "forget" => u.cmd.do \in {"key", "remove"}
  /\ u.at = "token"  => u.cmd.do = "login"
  /\ u.at = "untoken" => u.cmd.do = "logout"
  /\ u.at \in {"private", "write_private", "public", "write_public", "send", "await"} => u.cmd.do = "setup"
  /\ u.cmd.do = "setup" => u.cmd.to \in Instances
  /\ u.at \in {"write_private", "public", "write_public"} => u.mine \in KeyPairs
  /\ u.at = "await" => u.mine \in Halves
  /\ u.at = "change" /\ u.cmd.do \in LocalCommand \cup {"edit_hooks"} => u.mine \in Hooks
  /\ u.at = "loaded" => Ready(u.cmd, u.read, u.mine)

\* It is one of the terminal's commands; setup-keys has found its instance.
Given(u, r) == \E c \in Commands[r] : u.cmd = c \/ (c.do = "setup" /\ u.cmd.do = "setup" /\ u.cmd.name = c.name)

RunOK ==
  /\ run \in [Runs -> {Prompt} \cup Running]
  /\ \A r \in Runs : run[r].at # "idle" => Fits(run[r]) /\ Given(run[r], r)
  /\ \A r \in Runs : run[r].at = "send" => files.public # NoPair

LEMMA AtWork ==
  ASSUME RunOK, NEW r \in Runs, run[r].at # "idle"
  PROVE  /\ run[r] \in Running /\ Fits(run[r]) /\ Given(run[r], r)
         /\ run[r].cmd \in Command /\ run[r].read \in Config
BY DEF RunOK, Prompt, Running

LEMMA Moved ==
  ASSUME RunOK, NEW r \in Runs, NEW u, run' = [run EXCEPT ![r] = u],
         u \in {Prompt} \cup Running, u.at # "idle" => Fits(u) /\ Given(u, r),
         files.public # NoPair => files'.public # NoPair, u.at = "send" => files'.public # NoPair
  PROVE  RunOK' /\ run'[r] = u /\ \A s \in Runs \ {r} : run'[s] = run[s]
<1>1. run' \in [Runs -> {Prompt} \cup Running] /\ run'[r] = u /\ \A s \in Runs \ {r} : run'[s] = run[s]
  BY DEF RunOK
<1>2. ASSUME NEW s \in Runs
      PROVE  /\ run'[s].at # "idle" => Fits(run'[s]) /\ Given(run'[s], s)
             /\ run'[s].at = "send" => files'.public # NoPair
  <2>1. CASE s = r
    BY <2>1, <1>1
  <2>2. CASE s # r
    BY <2>2, <1>1 DEF RunOK
  <2> QED
    BY <2>1, <2>2
<1> QED
  BY <1>1, <1>2 DEF RunOK

\* A command that goes to its next step with what it has.
LEMMA Went ==
  ASSUME RunOK, NEW r \in Runs, NEW from \in Steps \ {"idle"}, NEW to \in Steps, Goto(r, from, to),
         to \in {"idle", "change", "public", "write_public", "send", "token", "forget"},
         to # "idle" => Fits([run[r] EXCEPT !.at = to]),
         files.public # NoPair => files'.public # NoPair, to = "send" => files'.public # NoPair
  PROVE  /\ RunOK' /\ left' = left /\ run[r].at = from /\ \A s \in Runs \ {r} : run'[s] = run[s]
         /\ to = "idle" => run'[r] = Prompt
         /\ to # "idle" => run'[r] = [run[r] EXCEPT !.at = to]
<1> DEFINE u == IF to = "idle" THEN Prompt ELSE [run[r] EXCEPT !.at = to]
<1>1. run[r].at = from /\ left' = left /\ run' = [run EXCEPT ![r] = u]
  BY DEF Goto
<1>2. run[r] \in Running /\ Given(run[r], r)
  BY <1>1, AtWork
<1>3. u \in {Prompt} \cup Running
  BY <1>2 DEF Running
<1>4. to # "idle" => u.at = to /\ Given(u, r)
  BY <1>2 DEF Running, Given
<1>5. to = "idle" => u.at = "idle"
  BY DEF Prompt
<1>6. RunOK' /\ run'[r] = u /\ \A s \in Runs \ {r} : run'[s] = run[s]
  <2> HIDE DEF u
  <2>1. u.at # "idle" => Fits(u) /\ Given(u, r)
    BY <1>4, <1>5 DEF u
  <2>2. u.at = "send" => files'.public # NoPair
    BY <1>4, <1>5 DEF u
  <2> QED
    BY <1>1, <1>3, <2>1, <2>2, Moved
<1> QED
  BY <1>1, <1>6

LEMMA EmptyIsConfig == EmptyConfig \in Config
BY EmptyHooks DEF EmptyConfig, Config

\* What a command does first.
LEMMA Begun ==
  ASSUME TypeOK, RunOK, NEW r \in Runs, Begin(r)
  PROVE  RunOK' /\ run[r] = Prompt /\ run'[r] \in Running /\ \A s \in Runs \ {r} : run'[s] = run[s]
<1>1. PICK c \in Commands[r] :
        /\ run[r] = Prompt /\ Starts(c)
        /\ run' = [run EXCEPT ![r] =
             [cmd  |-> IF c.do = "setup" THEN [c EXCEPT !.to = doc.servers[c.name].instance] ELSE c,
              at   |-> First(c),
              mine |-> IF c.do = "local_add" THEN Append(doc.local, c.value) ELSE <<>>,
              read |-> EmptyConfig]]
        /\ UNCHANGED files
  BY DEF Begin, ssh
<1> DEFINE cmd  == IF c.do = "setup" THEN [c EXCEPT !.to = doc.servers[c.name].instance] ELSE c
           mine == IF c.do = "local_add" THEN Append(doc.local, c.value) ELSE <<>>
           u    == [cmd |-> cmd, at |-> First(c), mine |-> mine, read |-> EmptyConfig]
<1>2. c \in Command
  BY StoresAssumption
<1>3. cmd \in Command /\ cmd.do = c.do /\ cmd.name = c.name /\ (c.do # "setup" => cmd = c)
      /\ (c.do = "setup" => cmd.to \in Instances)
  <2>1. CASE c.do = "setup"
    <3>1. c \in [do : ServerCommand \ {"add"}, name : Aliases, value : Lines, to : Instances \cup {"entry"}]
      BY <2>1, <1>2 DEF Command, LocalCommand, TableCommand, HostCommand
    <3>2. doc.servers[c.name] \in Entry
      BY <2>1, <3>1, <1>1 DEF TypeOK, Config, Starts, Known
    <3>3. doc.servers[c.name].instance \in Instances
      BY <3>2 DEF Entry
    <3> QED
      BY <2>1, <3>1, <3>3 DEF Command
  <2>2. CASE c.do # "setup"
    BY <2>2, <1>2
  <2> QED
    BY <2>1, <2>2
<1>4. mine \in Hooks
  <2>1. CASE c.do = "local_add"
    <3>1. doc.local \in Hooks /\ Len(doc.local) < MaxHooks
      BY <2>1, <1>1 DEF TypeOK, Config, Starts
    <3>2. c.value \in Lines
      BY <2>1, <1>2 DEF Command, ServerCommand, TableCommand, HostCommand
    <3> QED
      BY <2>1, <3>1, <3>2, HookAppended
  <2>2. CASE c.do # "local_add"
    BY <2>2, EmptyHooks
  <2> QED
    BY <2>1, <2>2
<1>5. /\ First(c) \in {"secret", "private", "send", "untoken", "edit", "change"}
      /\ First(c) = "secret" => c.do = "password"
      /\ First(c) \in {"private", "send"} => c.do = "setup"
      /\ First(c) = "send" => files.public # NoPair
      /\ First(c) = "untoken" => c.do = "logout"
      /\ First(c) = "edit" => c.do \in {"edit_hooks", "local_edit"}
  <2>1. CASE c.do = "setup"
    BY <2>1 DEF First, FirstOfSetup
  <2>2. CASE c.do \in {"edit_hooks", "local_edit"}
    BY <2>2 DEF First
  <2>3. CASE c.do = "password"
    BY <2>3 DEF First
  <2>4. CASE c.do = "logout"
    BY <2>4 DEF First
  <2>5. CASE c.do \notin {"setup", "edit_hooks", "local_edit", "password", "logout"}
    BY <2>5 DEF First
  <2> QED
    BY <2>1, <2>2, <2>3, <2>4, <2>5
<1>6. u \in Running
  BY <1>3, <1>4, <1>5, EmptyIsConfig DEF Running, Steps
<1>7. Fits(u)
  <2> HIDE DEF cmd, mine
  <2> QED
    BY <1>3, <1>4, <1>5 DEF Fits
<1>8. Given(u, r)
  <2> HIDE DEF cmd, mine
  <2> QED
    BY <1>3 DEF Given
<1>9. run' = [run EXCEPT ![r] = u] /\ files' = files
  BY <1>1
<1>10. u.at = "send" => files.public # NoPair
  BY <1>5
<1> HIDE DEF u
<1>11. RunOK' /\ run'[r] = u /\ \A s \in Runs \ {r} : run'[s] = run[s]
  BY <1>6, <1>7, <1>8, <1>9, <1>10, Moved
<1> QED
  BY <1>1, <1>6, <1>11

\* With: the terminal has something new in memory.
LEMMA WentWith ==
  ASSUME RunOK, NEW r \in Runs, NEW from \in Steps \ {"idle"}, NEW to \in Steps, NEW it \in Hooks \cup Halves,
         With(r, from, to, it), Fits([run[r] EXCEPT !.at = to, !.mine = it]),
         files.public # NoPair => files'.public # NoPair, to # "send"
  PROVE  /\ RunOK' /\ left' = left /\ run[r].at = from /\ \A s \in Runs \ {r} : run'[s] = run[s]
         /\ run'[r] = [run[r] EXCEPT !.at = to, !.mine = it]
<1> DEFINE u == [run[r] EXCEPT !.at = to, !.mine = it]
<1>1. run[r].at = from /\ left' = left /\ run' = [run EXCEPT ![r] = u]
  BY DEF With
<1>2. run[r] \in Running /\ Given(run[r], r)
  BY <1>1, AtWork
<1>3. u \in Running /\ u.at = to /\ Given(u, r)
  BY <1>2 DEF Running, Given
<1>4. Fits(u)
  OBVIOUS
<1> HIDE DEF u
<1>5. RunOK' /\ run'[r] = u /\ \A s \in Runs \ {r} : run'[s] = run[s]
  BY <1>1, <1>3, <1>4, Moved
<1> QED
  BY <1>1, <1>5 DEF u

\* The names in the histories are names.
LEMMA HistoryTypes ==
  ASSUME TypeOK, RunOK, NEW r \in Runs
  PROVE  /\ Torn(r) \subseteq Aliases /\ Whole(r) \subseteq Aliases
         /\ \A c \in Config, d \in Config : Differ(c, d) \subseteq Aliases \cup Names
<1>1. run[r].at # "idle" /\ Half(r) => run[r].cmd.name \in Aliases
  BY AtWork, CommandFacts DEF Half, ServerCommand
<1> QED
  BY <1>1 DEF Torn, Whole, Differ, TypeOK

TypeInv == TypeOK /\ RunOK

LEMMA TypeStep == TypeInv /\ [Next]_vars => TypeInv'
<1> SUFFICES ASSUME TypeOK, RunOK, [Next]_vars PROVE TypeOK' /\ RunOK'
  BY DEF TypeInv
<1> USE DEF vars, ssh, keyring, history
<1>1. CASE UNCHANGED vars
  <2>1. RunOK'
    BY <1>1 DEF RunOK
  <2> QED
    BY <1>1, <2>1 DEF TypeOK
<1>2. ASSUME NEW r \in Runs, Begin(r)
      PROVE  TypeOK' /\ RunOK'
  <2>1. RunOK'
    BY <1>2, Begun
  <2>2. left' \in 0 .. MaxCommands
    BY <1>2, StoresAssumption DEF Begin, TypeOK
  <2>3. UNCHANGED <<doc, keyring, ssh, history>>
    BY <1>2 DEF Begin
  <2> QED
    BY <2>1, <2>2, <2>3 DEF TypeOK, RunOK, Running
<1>3. ASSUME NEW r \in Runs, SaveEdit(r) \/ Load(r)
      PROVE  TypeOK' /\ RunOK'
  <2>1. CASE SaveEdit(r)
    <3>1. PICK hs \in Hooks : With(r, "edit", "change", hs)
      BY <2>1 DEF SaveEdit
    <3>2. run[r].at = "edit"
      BY <3>1 DEF With
    <3>3. run[r] \in Running /\ Fits(run[r])
      BY <3>2, AtWork
    <3>4. Fits([run[r] EXCEPT !.at = "change", !.mine = hs])
      BY <3>2, <3>3 DEF Fits, Running
    <3>5. RunOK' /\ left' = left
      BY <3>1, <3>4, <2>1, WentWith DEF SaveEdit, Steps
    <3> QED
      BY <2>1, <3>5 DEF SaveEdit, TypeOK, RunOK, Running
  <2>2. CASE Load(r)
    <3> DEFINE u == [run[r] EXCEPT !.at = "loaded", !.read = doc]
    <3>1. run[r] \in Running /\ Fits(run[r]) /\ Given(run[r], r) /\ run[r].at = "change"
      BY <2>2, AtWork DEF Load
    <3>2. doc \in Config
      BY DEF TypeOK
    <3>3. u \in Running /\ Given(u, r) /\ u.at = "loaded"
      BY <3>1, <3>2 DEF Running, Given, Steps
    <3>4. Ready(run[r].cmd, doc, run[r].mine)
      BY <2>2, <3>1 DEF Load, Refused, Ready, Fits, ServerCommand
    <3>5. Fits(u)
      BY <3>1, <3>4 DEF Fits, Running
    <3>6. run' = [run EXCEPT ![r] = u] /\ UNCHANGED <<doc, left, keyring, ssh, history>>
      BY <2>2 DEF Load
    <3> HIDE DEF u
    <3>7. RunOK'
      BY <3>3, <3>5, <3>6, Moved
    <3> QED
      BY <3>6, <3>7 DEF TypeOK, RunOK, Running
  <2> QED
    BY <1>3, <2>1, <2>2
<1>4. ASSUME NEW r \in Runs, CancelEdit(r) \/ NothingToClear(r) \/ Refuse(r) \/ KeyringFails(r)
      PROVE  TypeOK' /\ RunOK'
  <2>1. \E from \in Steps \ {"idle"} : Goto(r, from, "idle")
    BY <1>4 DEF CancelEdit, NothingToClear, Refuse, KeyringFails, Steps
  <2>2. UNCHANGED <<doc, keyring, ssh, undone, stuck>> /\ torn' \in {torn, Torn(r), Whole(r)}
    BY <1>4 DEF CancelEdit, NothingToClear, Refuse, KeyringFails
  <2>3. RunOK' /\ left' = left
    BY <2>1, <2>2, Went DEF Steps
  <2> QED
    BY <2>2, <2>3, HistoryTypes DEF TypeOK, RunOK, Running
<1>5. ASSUME NEW r \in Runs, Store(r)
      PROVE  TypeOK' /\ RunOK'
  <2>1. /\ run[r].at = "loaded" /\ Goto(r, "loaded", After(run[r].cmd))
        /\ UNCHANGED <<keyring, files, authorized, sent, stuck>>
    BY <1>5 DEF Store, Goto
  <2>2. run[r] \in Running /\ Fits(run[r]) /\ run[r].cmd \in Command /\ run[r].read \in Config
    BY <2>1, AtWork
  <2>3. /\ After(run[r].cmd) \in {"forget", "token", "idle"}
        /\ After(run[r].cmd) = "forget" => run[r].cmd.do \in {"key", "remove"}
        /\ After(run[r].cmd) = "token" => run[r].cmd.do = "login"
    BY DEF After
  <2>4. After(run[r].cmd) # "idle" => Fits([run[r] EXCEPT !.at = After(run[r].cmd)])
    BY <2>2, <2>3 DEF Fits, Running
  <2>5. RunOK' /\ left' = left
    BY <2>1, <2>3, <2>4, Went DEF Steps
  <2>6. doc' \in Config
    BY <1>5, <2>1, <2>2, ChangedType DEF Store, Fits
  <2>7. torn' \subseteq Aliases /\ undone' \subseteq Aliases \cup Names
    BY <1>5, <2>2, HistoryTypes DEF Store, TypeOK
  <2>8. trusted' \subseteq Instances
    BY <1>5, <2>2 DEF Store, Fits, TypeOK
  <2> QED
    BY <2>1, <2>5, <2>6, <2>7, <2>8 DEF TypeOK, RunOK, Running
<1>6. ASSUME NEW r \in Runs, SavePassword(r) \/ DeletePassword(r)
      PROVE  TypeOK' /\ RunOK'
  <2>1. \/ Goto(r, "secret", "change") /\ secret' = secret \cup {run[r].cmd.name} /\ torn' = torn
        \/ /\ Goto(r, "forget", "idle")
           /\ secret' \in {secret, secret \ {run[r].cmd.name}} /\ torn' \in {Torn(r), Whole(r)}
    BY <1>6 DEF SavePassword, DeletePassword
  <2>2. run[r].at \in {"secret", "forget"}
    BY <2>1 DEF Goto
  <2>3. run[r] \in Running /\ Fits(run[r]) /\ run[r].cmd \in Command
    BY <2>2, AtWork
  <2>4. UNCHANGED <<doc, token, ssh, undone, stuck>>
    BY <1>6 DEF SavePassword, DeletePassword
  <2>5. run[r].at = "secret" => Fits([run[r] EXCEPT !.at = "change"]) /\ run[r].cmd.name \in Aliases
    BY <2>3, CommandFacts DEF Fits, Running, ServerCommand, LocalCommand
  <2>6. RunOK' /\ left' = left
    <3>1. CASE Goto(r, "secret", "change")
      <4>1. run[r].at = "secret"
        BY <3>1 DEF Goto
      <4> QED
        BY <3>1, <4>1, <2>4, <2>5, Went DEF Steps
    <3>2. CASE Goto(r, "forget", "idle")
      BY <3>2, <2>4, Went DEF Steps
    <3> QED
      BY <2>1, <3>1, <3>2
  <2>7. secret' \subseteq Aliases
    BY <2>1, <2>5 DEF Goto, TypeOK
  <2> QED
    BY <2>1, <2>4, <2>6, <2>7, HistoryTypes DEF TypeOK, RunOK, Running
<1>7. ASSUME NEW r \in Runs, SaveToken(r) \/ DeleteToken(r)
      PROVE  TypeOK' /\ RunOK'
  <2>1. \/ Goto(r, "token", "idle") /\ token' = token \cup {run[r].cmd.name} /\ stuck' \subseteq stuck
        \/ /\ Goto(r, "untoken", "change") /\ token' \subseteq token
           /\ stuck' \subseteq stuck \cup (token \cap {run[r].cmd.name})
    BY <1>7 DEF SaveToken, DeleteToken
  <2>2. run[r].at \in {"token", "untoken"}
    BY <2>1 DEF Goto
  <2>3. run[r] \in Running /\ Fits(run[r]) /\ run[r].cmd \in Command
    BY <2>2, AtWork
  <2>4. UNCHANGED <<doc, secret, ssh, torn, undone>>
    BY <1>7 DEF SaveToken, DeleteToken
  <2>5. /\ run[r].at = "untoken" => Fits([run[r] EXCEPT !.at = "change"])
        /\ run[r].at = "token" => run[r].cmd.name \in Names
    BY <2>3, CommandFacts DEF Fits, Running, LocalCommand, Writing
  <2>6. RunOK' /\ left' = left
    <3>1. CASE Goto(r, "untoken", "change")
      <4>1. run[r].at = "untoken"
        BY <3>1 DEF Goto
      <4> QED
        BY <3>1, <4>1, <2>4, <2>5, Went DEF Steps
    <3>2. CASE Goto(r, "token", "idle")
      BY <3>2, <2>4, Went DEF Steps
    <3> QED
      BY <2>1, <3>1, <3>2
  <2>7. token' \subseteq Names /\ stuck' \subseteq Names
    BY <2>1, <2>5 DEF Goto, TypeOK
  <2> QED
    BY <2>4, <2>6, <2>7 DEF TypeOK, RunOK, Running
<1>8. ASSUME NEW r \in Runs, CreatePrivate(r)
      PROVE  TypeOK' /\ RunOK'
  <2>1. PICK k \in Unused : With(r, "private", "write_private", k) /\ files' = [files EXCEPT !.private = TornKey]
    BY <1>8 DEF CreatePrivate
  <2>2. k \in KeyPairs /\ run[r].at = "private"
    BY <2>1 DEF Unused, With
  <2>3. run[r] \in Running /\ Fits(run[r])
    BY <2>2, AtWork
  <2>4. Fits([run[r] EXCEPT !.at = "write_private", !.mine = k])
    BY <2>2, <2>3 DEF Fits, Running
  <2>5. files' \in [private : Halves \cup {NoPair}, public : Halves \cup {NoPair}] /\ files'.public = files.public
    BY <2>1, <2>2 DEF TypeOK, Halves
  <2>6. RunOK' /\ left' = left
    BY <2>1, <2>2, <2>4, <2>5, WentWith DEF Steps, Halves
  <2> QED
    BY <1>8, <2>5, <2>6 DEF CreatePrivate, TypeOK, RunOK, Running
<1>9. ASSUME NEW r \in Runs, WritePrivate(r) \/ CreatePublic(r) \/ WritePublic(r)
      PROVE  TypeOK' /\ RunOK'
  <2>1. PICK from \in {"write_private", "public", "write_public"}, to \in {"public", "write_public", "send"} :
          /\ Goto(r, from, to)
          /\ from = "write_private" => to = "public" /\ files' = [files EXCEPT !.private = run[r].mine]
          /\ from = "public" => to = "write_public" /\ files' = [files EXCEPT !.public = TornKey]
          /\ from = "write_public" => to = "send" /\ files' = [files EXCEPT !.public = run[r].mine]
          /\ UNCHANGED <<doc, keyring, authorized, sent, trusted, history>>
    BY <1>9 DEF WritePrivate, CreatePublic, WritePublic
  <2>2. run[r].at = from
    BY <2>1 DEF Goto
  <2>3. run[r] \in Running /\ Fits(run[r])
    BY <2>2, AtWork
  <2>4. run[r].mine \in KeyPairs
    BY <2>2, <2>3 DEF Fits
  <2>5. files' \in [private : Halves \cup {NoPair}, public : Halves \cup {NoPair}]
    BY <2>1, <2>4 DEF TypeOK, Halves
  <2>6. /\ files.public # NoPair => files'.public # NoPair
        /\ to = "send" => files'.public # NoPair
    BY <2>1, <2>4, StoresAssumption DEF TypeOK, Halves
  <2>7. Fits([run[r] EXCEPT !.at = to])
    BY <2>1, <2>2, <2>3, <2>4 DEF Fits, Running
  <2>8. RunOK' /\ left' = left
    BY <2>1, <2>6, <2>7, Went DEF Steps
  <2> QED
    BY <2>1, <2>5, <2>8 DEF TypeOK, RunOK, Running
<1>10. ASSUME NEW r \in Runs, Send(r)
       PROVE  TypeOK' /\ RunOK'
  <2>1. With(r, "send", "await", files.public) /\ UNCHANGED files /\ sent' = sent \cup {<<run[r].cmd.to, files.public>>}
    BY <1>10 DEF Send
  <2>2. run[r].at = "send"
    BY <2>1 DEF With
  <2>3. run[r] \in Running /\ Fits(run[r])
    BY <2>2, AtWork
  <2>4. files.public \in Halves /\ run[r].cmd.to \in Instances
    <3>1. files.public \in Halves \cup {NoPair} /\ files.public # NoPair
      BY <2>2 DEF RunOK, TypeOK
    <3> QED
      BY <2>2, <2>3, <3>1 DEF Fits
  <2>5. Fits([run[r] EXCEPT !.at = "await", !.mine = files.public])
    BY <2>2, <2>3, <2>4 DEF Fits, Running
  <2>6. RunOK' /\ left' = left
    BY <2>1, <2>4, <2>5, WentWith DEF Steps
  <2> QED
    BY <1>10, <2>1, <2>4, <2>6 DEF Send, TypeOK, RunOK, Running
<1>11. ASSUME NEW s \in sent, Installed(s)
       PROVE  /\ authorized' \in [Instances -> SUBSET KeyPairs] /\ sent' \subseteq Instances \X Halves
              /\ UNCHANGED <<doc, keyring, files, trusted, history>>
  BY <1>11 DEF Installed, TypeOK
<1>12. ASSUME NEW r \in Runs, Provisioned(r)
       PROVE  TypeOK' /\ RunOK'
  <2>1. Goto(r, "await", "change") /\ Target(r) \in sent /\ Installed(Target(r))
    BY <1>12 DEF Provisioned
  <2>2. run[r].at = "await"
    BY <2>1 DEF Goto
  <2>3. run[r] \in Running /\ Fits(run[r])
    BY <2>2, AtWork
  <2>4. Fits([run[r] EXCEPT !.at = "change"])
    BY <2>2, <2>3 DEF Fits, Running, LocalCommand
  <2>5. RunOK' /\ left' = left
    BY <2>1, <2>4, <1>11, Went DEF Steps
  <2> QED
    BY <2>1, <1>11, <2>5 DEF TypeOK, RunOK, Running
<1>13. ASSUME NEW r \in Runs, NotProvisioned(r)
       PROVE  TypeOK' /\ RunOK'
  <2>1. /\ run[r].at \in {"send", "await"} /\ Goto(r, run[r].at, "idle") /\ sent' \subseteq sent
        /\ UNCHANGED <<doc, keyring, files, authorized, trusted, history>>
    BY <1>13 DEF NotProvisioned
  <2>2. RunOK' /\ left' = left
    BY <2>1, Went DEF Steps
  <2> QED
    BY <2>1, <2>2 DEF TypeOK, RunOK, Running
<1>14. ASSUME NEW r \in Runs, Kill(r)
       PROVE  TypeOK' /\ RunOK'
  <2>1. /\ run[r].at # "idle" /\ Goto(r, run[r].at, "idle") /\ doc' \in {doc, EmptyConfig}
        /\ undone' = undone \cup Differ(doc, doc') /\ torn' = Torn(r) /\ UNCHANGED <<keyring, ssh, stuck>>
    BY <1>14 DEF Kill
  <2>2. run[r].at \in Steps
    BY <2>1, AtWork DEF Running
  <2>3. RunOK' /\ left' = left
    BY <2>1, <2>2, Went DEF Steps
  <2>4. doc' \in Config
    BY <2>1, EmptyIsConfig DEF TypeOK
  <2>5. undone' \subseteq Aliases \cup Names /\ torn' \subseteq Aliases
    BY <2>1, <2>4, HistoryTypes DEF TypeOK
  <2> QED
    BY <2>1, <2>3, <2>4, <2>5 DEF TypeOK, RunOK, Running
<1>15. CASE RunsLate
  <2>1. UNCHANGED <<run, left>> /\ \E s \in sent : Installed(s)
    BY <1>15 DEF RunsLate
  <2>2. UNCHANGED files
    BY <2>1, <1>11
  <2>3. RunOK'
    BY <2>1, <2>2 DEF RunOK
  <2> QED
    BY <2>1, <2>3, <1>11 DEF TypeOK, RunOK, Running
<1> QED
  BY <1>1, <1>2, <1>3, <1>4, <1>5, <1>6, <1>7, <1>8, <1>9, <1>10, <1>12, <1>13, <1>14, <1>15 DEF Next

\* TypeInv holds throughout, and is a fact of every step.
LEMMA TypeInvHolds == Spec => []TypeInv
<1>1. Init => TypeInv
  <2> SUFFICES ASSUME Init PROVE TypeOK /\ RunOK
    BY DEF TypeInv
  <2>1. RunOK
    BY DEF Init, RunOK, Prompt
  <2>2. left \in 0 .. MaxCommands
    BY StoresAssumption DEF Init
  <2> QED
    BY <2>1, <2>2, EmptyIsConfig DEF Init, TypeOK
<1> QED
  BY <1>1, TypeStep, PTL DEF Spec

\* Types hold for any number of terminals, whatever they run, and whatever is
\* killed, refused, or written over.
THEOREM StoresTypes == Spec => []TypeOK
<1>1. TypeInv => TypeOK
  BY DEF TypeInv
<1> QED
  BY <1>1, TypeInvHolds, PTL

-----------------------------------------------------------------------------
(* The file                                                                *)

\* What a command writes back of the servers and hosts it does not change is
\* what the file holds, or counts as set back.
LEMMA Stored ==
  ASSUME TypeInv, NEW r \in Runs, Store(r)
  PROVE  LET c == run[r].cmd
             u == run[r]
         IN  /\ u.at = "loaded" /\ c \in Command /\ Fits(u) /\ Given(u, r) /\ Ready(c, u.read, u.mine)
             /\ u.read \in Config /\ doc' \in Config
             /\ \A a \in Aliases \ undone' :
                  /\ u.read.servers[a] = doc.servers[a]
                  /\ ~(c.do \in ServerCommand /\ c.name = a) => doc'.servers[a] = doc.servers[a]
                  /\ c.do \in ServerCommand /\ c.name = a => doc'.servers[a] = NewEntry(c, u.read, u.mine)
             /\ \A n \in Names \ undone' :
                  doc'.tables["git_hosts"][n] =
                    IF c.do \in HostCommand /\ c.name = n THEN NewValue(c) ELSE doc.tables["git_hosts"][n]
             /\ \A s \in Runs \ {r} : run'[s] = run[s]
             /\ run'[r] = IF After(c) = "idle" THEN Prompt ELSE [u EXCEPT !.at = After(c)]
<1> DEFINE c == run[r].cmd
           u == run[r]
<1>1. u.at = "loaded" /\ doc' = Changed(c, u.read, u.mine) /\ undone' = undone \cup Differ(doc, u.read)
  BY DEF Store, Goto
<1>2. RunOK /\ TypeOK /\ doc \in Config
  BY DEF TypeInv, TypeOK
<1>3. c \in Command /\ Fits(u) /\ Given(u, r) /\ u.read \in Config
  BY <1>1, <1>2, AtWork
<1>4. Ready(c, u.read, u.mine)
  BY <1>1, <1>3 DEF Fits
<1>5. doc' \in Config
  BY <1>1, <1>3, <1>4, ChangedType
<1>6. ASSUME NEW a \in Aliases \ undone'
      PROVE  /\ u.read.servers[a] = doc.servers[a]
             /\ ~(c.do \in ServerCommand /\ c.name = a) => doc'.servers[a] = doc.servers[a]
             /\ c.do \in ServerCommand /\ c.name = a => doc'.servers[a] = NewEntry(c, u.read, u.mine)
  <2>1. u.read.servers[a] = doc.servers[a]
    BY <1>1, <1>6 DEF Differ
  <2>2. doc'.servers[a] = IF c.do \in ServerCommand /\ c.name = a THEN NewEntry(c, u.read, u.mine)
                          ELSE u.read.servers[a]
    BY <1>1, <1>3, ServersAfter
  <2> QED
    BY <2>1, <2>2
<1>7. ASSUME NEW n \in Names \ undone'
      PROVE  doc'.tables["git_hosts"][n] =
               IF c.do \in HostCommand /\ c.name = n THEN NewValue(c) ELSE doc.tables["git_hosts"][n]
  <2>1. u.read.tables["git_hosts"][n] = doc.tables["git_hosts"][n]
    BY <1>1, <1>7 DEF Differ
  <2>2. doc'.tables["git_hosts"][n] = IF c.do \in HostCommand /\ c.name = n THEN NewValue(c)
                                      ELSE u.read.tables["git_hosts"][n]
    BY <1>1, <1>3, HostsAfter
  <2> QED
    BY <2>1, <2>2
<1>8. run' = [run EXCEPT ![r] = IF After(c) = "idle" THEN Prompt ELSE [u EXCEPT !.at = After(c)]]
  BY DEF Store, Goto
<1>9. run \in [Runs -> {Prompt} \cup Running]
  BY <1>2 DEF RunOK
<1> QED
  BY <1>1, <1>3, <1>4, <1>5, <1>6, <1>7, <1>8, <1>9

\* The file changes in a write only, or is emptied when one is cut short; then
\* every server and host that was there is set back.
LEMMA FileChanges ==
  ASSUME TypeInv, [Next]_vars
  PROVE  \/ UNCHANGED doc /\ undone' = undone
         \/ \E r \in Runs : Store(r)
         \/ \E r \in Runs :
              /\ Kill(r) /\ undone \subseteq undone'
              /\ \A a \in Aliases \ undone' : doc'.servers[a] = doc.servers[a]
              /\ \A n \in Names \ undone' : doc'.tables["git_hosts"][n] = doc.tables["git_hosts"][n]
              /\ doc' \in {doc, EmptyConfig}
<1>1. CASE UNCHANGED vars
  BY <1>1 DEF vars, history
<1>2. ASSUME NEW r \in Runs, Kill(r)
      PROVE  /\ undone \subseteq undone'
             /\ \A a \in Aliases \ undone' : doc'.servers[a] = doc.servers[a]
             /\ \A n \in Names \ undone' : doc'.tables["git_hosts"][n] = doc.tables["git_hosts"][n]
             /\ doc' \in {doc, EmptyConfig}
  BY <1>2 DEF Kill, Differ
<1>3. ASSUME NEW r \in Runs,
             \/ Begin(r) \/ SaveEdit(r) \/ CancelEdit(r) \/ Load(r) \/ NothingToClear(r) \/ Refuse(r)
             \/ SavePassword(r) \/ DeletePassword(r) \/ SaveToken(r) \/ DeleteToken(r) \/ KeyringFails(r)
      PROVE  UNCHANGED doc /\ undone' = undone
  BY <1>3 DEF Begin, SaveEdit, CancelEdit, Load, NothingToClear, Refuse, SavePassword, DeletePassword, SaveToken,
              DeleteToken, KeyringFails, history
<1>4. ASSUME NEW r \in Runs,
             \/ CreatePrivate(r) \/ WritePrivate(r) \/ CreatePublic(r) \/ WritePublic(r)
             \/ Send(r) \/ Provisioned(r) \/ NotProvisioned(r)
      PROVE  UNCHANGED doc /\ undone' = undone
  BY <1>4 DEF CreatePrivate, WritePrivate, CreatePublic, WritePublic, Send, Provisioned,
              NotProvisioned, Installed, history
<1>5. CASE RunsLate
  BY <1>5 DEF RunsLate, Installed, history
<1> QED
  BY <1>1, <1>2, <1>3, <1>4, <1>5 DEF Next

\* Whatever is written at the same time, a server's hooks change by a hook
\* command for it alone, for any number of servers and terminals.
THEOREM HooksAreKept == Spec => HooksKept
<1>1. TypeInv /\ [Next]_vars =>
        [\A a \in Aliases \ undone' :
           Known(doc, a) /\ Known(doc', a) /\ doc'.servers[a].hooks # doc.servers[a].hooks =>
             \E r \in Runs : /\ run[r].at = "loaded" /\ run[r].cmd.name = a
                             /\ run[r].cmd.do \in {"add_hook", "clear_hooks", "edit_hooks"}]_vars
  <2> SUFFICES ASSUME TypeInv, [Next]_vars, NEW a \in Aliases \ undone', Known(doc, a), Known(doc', a),
                      doc'.servers[a].hooks # doc.servers[a].hooks
               PROVE  \E r \in Runs : /\ run[r].at = "loaded" /\ run[r].cmd.name = a
                                      /\ run[r].cmd.do \in {"add_hook", "clear_hooks", "edit_hooks"}
    OBVIOUS
  <2>1. PICK r \in Runs : Store(r)
    BY FileChanges
  <2> DEFINE c == run[r].cmd
             u == run[r]
  <2>2. /\ u.at = "loaded" /\ c \in Command /\ u.read \in Config
        /\ c.do \in ServerCommand /\ c.name = a
        /\ doc'.servers[a] = NewEntry(c, u.read, u.mine) /\ u.read.servers[a] = doc.servers[a]
    BY <2>1, Stored
  <2>3. u.read.servers[a] \in Entry
    BY <2>2 DEF Known, Config
  <2>4. c.do # "remove"
    BY <2>2 DEF NewEntry, Known
  <2>5. c.do \notin {"add", "password", "key", "setup"}
    <3>1. CASE c.do = "add"
      BY <3>1, <2>2 DEF NewEntry, Known
    <3>2. CASE c.do \in {"password", "key", "setup"}
      BY <3>2, <2>2, <2>3 DEF NewEntry, Entry
    <3> QED
      BY <3>1, <3>2
  <2> QED
    BY <2>2, <2>4, <2>5 DEF ServerCommand
<1> QED
  BY <1>1, TypeInvHolds, PTL DEF Spec, HooksKept

-----------------------------------------------------------------------------
(* The credentials of a server                                             *)

\* r is between the keyring and the file with the credentials of a.
HalfOf(r, a) == run[r].at # "idle" /\ Half(r) /\ run[r].cmd.name = a

\* CredentialsInStep without the cases: a password in the keyring belongs to a
\* server that does not name a key of set-auth.
PasswordAlone(a) == a \in secret => Known(doc, a) /\ doc.servers[a].key # "user"

IsSettled(a) == a \notin torn \cup undone /\ \A r \in Runs : ~HalfOf(r, a)

LEMMA SettledMeans == \A a \in Aliases : Settled(a) <=> IsSettled(a)
<1> SUFFICES ASSUME NEW a \in Aliases PROVE Settled(a) <=> IsSettled(a)
  OBVIOUS
<1>1. ASSUME NEW r \in Runs
      PROVE  (run[r] # Prompt /\ Half(r) => run[r].cmd.name # a) <=> ~HalfOf(r, a)
  <2>1. Half(r) => run[r].at # "idle"
    BY DEF Half
  <2>2. run[r].at # "idle" => run[r] # Prompt
    BY DEF Prompt
  <2> QED
    BY <2>1, <2>2 DEF HalfOf
<1> QED
  BY <1>1 DEF Settled, IsSettled

LEMMA CredentialsAsOne ==
  ASSUME TypeOK
  PROVE  CredentialsInStep <=> \A a \in Aliases : IsSettled(a) => PasswordAlone(a)
<1>1. ASSUME NEW a \in Aliases
      PROVE  PasswordAlone(a) <=>
               (IF Known(doc, a) THEN ~({"password", "user"} \subseteq Logins(a)) ELSE a \notin secret)
  BY DEF PasswordAlone, Logins
<1> QED
  BY <1>1, SettledMeans DEF CredentialsInStep

\* A step by which nobody's credentials stop being half changed, without being
\* whole or torn, leaves a settled server only where there was one.
LEMMA StillSettled ==
  ASSUME NEW a \in Aliases, IsSettled(a)', a \in torn => a \in torn', undone \subseteq undone',
         \A s \in Runs : HalfOf(s, a) => HalfOf(s, a)'
  PROVE  IsSettled(a)
BY DEF IsSettled

\* What is left of a command that stops at the prompt.
LEMMA Stopped ==
  ASSUME RunOK, NEW r \in Runs, NEW from \in Steps \ {"idle"}, Goto(r, from, "idle")
  PROVE  run[r].at = from /\ run'[r] = Prompt /\ \A s \in Runs \ {r} : run'[s] = run[s]
BY DEF Goto, RunOK

Alone == \A a \in Aliases : IsSettled(a) => PasswordAlone(a)

LEMMA AloneStep == TypeInv /\ Alone /\ [Next]_vars => Alone'
<1> SUFFICES ASSUME TypeOK, RunOK, Alone, [Next]_vars, NEW a \in Aliases, IsSettled(a)'
             PROVE  PasswordAlone(a)'
  BY DEF TypeInv, Alone
<1> USE DEF vars, ssh, keyring, history
<1>a. TypeInv
  BY DEF TypeInv
<1>b. a \notin torn' \cup undone' /\ \A s \in Runs : ~HalfOf(s, a)'
  BY DEF IsSettled
\* Steps that leave the file, the keyring and the history alone.
<1>c. ASSUME UNCHANGED <<doc, secret, torn, undone>>, \A s \in Runs : HalfOf(s, a) => HalfOf(s, a)'
      PROVE  PasswordAlone(a)'
  <2>1. IsSettled(a)
    BY <1>c, StillSettled
  <2> QED
    BY <1>c, <2>1 DEF Alone, PasswordAlone, Known
\* The other terminals.
<1>d. ASSUME NEW r \in Runs, \A s \in Runs \ {r} : run'[s] = run[s], HalfOf(r, a) => HalfOf(r, a)'
      PROVE  \A s \in Runs : HalfOf(s, a) => HalfOf(s, a)'
  BY <1>d DEF HalfOf, Half
\* A command that stops half way leaves the credentials torn.
<1>e. ASSUME NEW r \in Runs, NEW from \in Steps \ {"idle"}, Goto(r, from, "idle"), torn' = Torn(r),
             undone \subseteq undone'
      PROVE  IsSettled(a)
  <2>1. run[r].at = from /\ \A s \in Runs \ {r} : run'[s] = run[s]
    BY <1>e, Stopped
  <2>2. ~HalfOf(r, a)
    BY <1>b, <1>e DEF HalfOf, Torn
  <2>3. a \in torn => a \in torn'
    BY <1>e DEF Torn
  <2> QED
    BY <2>1, <2>2, <2>3, <1>d, <1>e, StillSettled
<1>1. CASE UNCHANGED vars
  BY <1>1, <1>c DEF HalfOf, Half
<1>2. ASSUME NEW r \in Runs, Begin(r) PROVE PasswordAlone(a)'
  <2>1. run[r] = Prompt /\ \A s \in Runs \ {r} : run'[s] = run[s]
    BY <1>2, Begun
  <2>2. ~HalfOf(r, a)
    BY <2>1 DEF HalfOf, Prompt
  <2> QED
    BY <1>2, <2>1, <2>2, <1>c, <1>d DEF Begin
<1>3. ASSUME NEW r \in Runs, SaveEdit(r) \/ CancelEdit(r) PROVE PasswordAlone(a)'
  <2>1. run[r].at = "edit" /\ UNCHANGED <<doc, secret, torn, undone>> /\ \A s \in Runs \ {r} : run'[s] = run[s]
    BY <1>3 DEF SaveEdit, CancelEdit, With, Goto, RunOK
  <2>2. ~HalfOf(r, a)
    BY <2>1 DEF HalfOf, Half
  <2> QED
    BY <2>1, <2>2, <1>c, <1>d
<1>4. ASSUME NEW r \in Runs, Load(r) PROVE PasswordAlone(a)'
  <2>1. /\ run[r].at = "change" /\ UNCHANGED <<doc, secret, torn, undone>>
        /\ run' = [run EXCEPT ![r] = [@ EXCEPT !.at = "loaded", !.read = doc]]
    BY <1>4 DEF Load
  <2>2. run[r] \in Running
    BY <2>1, AtWork
  <2>3. run'[r] = [run[r] EXCEPT !.at = "loaded", !.read = doc] /\ \A s \in Runs \ {r} : run'[s] = run[s]
    BY <2>1 DEF RunOK
  <2>4. run'[r].cmd = run[r].cmd /\ run'[r].at = "loaded"
    BY <2>2, <2>3 DEF Running
  <2>5. HalfOf(r, a) => HalfOf(r, a)'
    BY <2>1, <2>4 DEF HalfOf, Half
  <2> QED
    BY <2>1, <2>3, <2>5, <1>c, <1>d
<1>5. ASSUME NEW r \in Runs, NothingToClear(r) PROVE PasswordAlone(a)'
  <2>1. /\ Goto(r, "change", "idle") /\ ~Refused(run[r].cmd) /\ Idle(run[r].cmd) /\ UNCHANGED <<doc, secret, undone>>
        /\ torn' = IF run[r].cmd.do = "password" THEN Whole(r) ELSE torn
    BY <1>5 DEF NothingToClear
  <2>2. run[r].at = "change" /\ \A s \in Runs \ {r} : run'[s] = run[s]
    BY <2>1, Stopped DEF Steps
  <2>3. run[r].cmd \in Command /\ run[r].cmd.do \in {"password", "clear_hooks"}
    BY <2>1, <2>2, AtWork DEF Idle
  <2>4. CASE run[r].cmd.do = "password" /\ run[r].cmd.name = a
    <3> DEFINE c == run[r].cmd
    <3>1. Known(doc, a) /\ c.do \in ServerCommand
      BY <2>1, <2>4 DEF Refused, ServerCommand
    <3>2. doc.servers[a] = NewEntry(c, doc, <<>>)
      BY <2>1, <2>3, <2>4, <3>1, ServersAfter DEF Idle, TypeOK
    <3>3. doc.servers[a] = [doc.servers[a] EXCEPT !.key = "no_key"] /\ doc.servers[a] \in Entry
      BY <3>1, <3>2, <2>4 DEF NewEntry, TypeOK, Config, Known
    <3>4. doc.servers[a].key = "no_key"
      BY <3>3 DEF Entry
    <3> QED
      BY <2>1, <3>1, <3>4 DEF PasswordAlone, Known
  <2>5. CASE ~(run[r].cmd.do = "password" /\ run[r].cmd.name = a)
    <3>1. ~HalfOf(r, a)
      BY <2>2, <2>3, <2>5 DEF HalfOf, Half
    <3>2. a \in torn => a \in torn'
      BY <2>1, <2>5 DEF Whole
    <3>3. IsSettled(a)
      BY <2>1, <2>2, <3>1, <3>2, <1>d, StillSettled
    <3> QED
      BY <2>1, <3>3 DEF Alone, PasswordAlone, Known
  <2> QED
    BY <2>4, <2>5
<1>6. ASSUME NEW r \in Runs, Refuse(r) \/ KeyringFails(r) PROVE PasswordAlone(a)'
  <2>1. /\ \E from \in Steps \ {"idle"} : Goto(r, from, "idle")
        /\ torn' = Torn(r) /\ UNCHANGED <<doc, secret, undone>>
    BY <1>6 DEF Refuse, KeyringFails, Steps
  <2>2. IsSettled(a)
    BY <2>1, <1>e
  <2> QED
    BY <2>1, <2>2 DEF Alone, PasswordAlone, Known
<1>7. ASSUME NEW r \in Runs, Kill(r) PROVE PasswordAlone(a)'
  <2>1. /\ run[r].at # "idle" /\ Goto(r, run[r].at, "idle") /\ doc' \in {doc, EmptyConfig}
        /\ undone' = undone \cup Differ(doc, doc') /\ torn' = Torn(r) /\ secret' = secret
    BY <1>7 DEF Kill
  <2>2. run[r].at \in Steps
    BY <2>1, AtWork DEF Running
  <2>3. IsSettled(a)
    BY <2>1, <2>2, <1>e
  <2>4. doc'.servers[a] = doc.servers[a]
    BY <2>1, <1>b DEF Differ
  <2> QED
    BY <2>1, <2>3, <2>4 DEF Alone, PasswordAlone, Known
<1>8. ASSUME NEW r \in Runs, Store(r) PROVE PasswordAlone(a)'
  <2> DEFINE c == run[r].cmd
             u == run[r]
  <2>1. /\ u.at = "loaded" /\ c \in Command /\ Fits(u) /\ Ready(c, u.read, u.mine) /\ u.read \in Config
        /\ u.read.servers[a] = doc.servers[a]
        /\ ~(c.do \in ServerCommand /\ c.name = a) => doc'.servers[a] = doc.servers[a]
        /\ c.do \in ServerCommand /\ c.name = a => doc'.servers[a] = NewEntry(c, u.read, u.mine)
        /\ \A s \in Runs \ {r} : run'[s] = run[s]
        /\ run'[r] = IF After(c) = "idle" THEN Prompt ELSE [u EXCEPT !.at = After(c)]
    BY <1>8, <1>a, <1>b, Stored
  <2>2. /\ secret' = secret /\ undone \subseteq undone'
        /\ torn' = IF c.do = "password" THEN Whole(r) ELSE torn
    BY <1>8 DEF Store
  <2>3. u \in Running
    BY <2>1, AtWork
  <2>4. ~(c.do = "password" /\ c.name = a) => IsSettled(a)
    <3> SUFFICES ASSUME ~(c.do = "password" /\ c.name = a) PROVE IsSettled(a)
      OBVIOUS
    <3>1. ~HalfOf(r, a)
      BY <2>1 DEF HalfOf, Half
    <3>2. a \in torn => a \in torn'
      BY <2>2 DEF Whole
    <3> QED
      BY <2>1, <2>2, <3>1, <3>2, <1>d, StillSettled
  <2>5. CASE ~(c.do \in ServerCommand /\ c.name = a)
    <3>1. IsSettled(a)
      BY <2>4, <2>5 DEF ServerCommand
    <3> QED
      BY <2>1, <2>2, <2>5, <3>1 DEF Alone, PasswordAlone, Known
  <2>6. CASE c.name = a /\ c.do \in {"remove", "key"}
    <3>1. run'[r] = [u EXCEPT !.at = "forget"]
      BY <2>1, <2>6 DEF After
    <3>2. HalfOf(r, a)'
      BY <3>1, <2>3, <2>6 DEF HalfOf, Half, Running
    <3> QED
      BY <3>2, <1>b
  <2>7. CASE c.name = a /\ c.do \in ServerCommand \ {"remove", "key"}
    <3>1. doc'.servers[a] \in Entry /\ Known(doc', a)
      BY <2>1, <2>7, NewEntryType, StoresAssumption DEF Known
    <3>2. CASE c.do \in {"password", "setup"}
      <4>1. u.read.servers[a] \in Entry
        BY <2>1, <2>7, <3>2 DEF Ready, Known, Config
      <4>2. doc'.servers[a].key \in {"no_key", "own"}
        BY <2>1, <2>7, <3>2, <4>1 DEF NewEntry, Entry
      <4> QED
        BY <3>1, <4>2 DEF PasswordAlone
    <3>3. CASE c.do = "add"
      <4>1. PasswordAlone(a)
        BY <2>4, <3>3 DEF Alone
      <4>2. doc'.servers[a].key = IF Known(doc, a) THEN doc.servers[a].key ELSE "no_key"
        BY <2>1, <2>7, <3>3 DEF NewEntry, Known
      <4> QED
        BY <2>2, <3>1, <4>1, <4>2 DEF PasswordAlone
    <3>4. CASE c.do \in {"add_hook", "clear_hooks", "edit_hooks"}
      <4>1. PasswordAlone(a)
        BY <2>4, <3>4 DEF Alone
      <4>2. u.read.servers[a] \in Entry
        BY <2>1, <2>7, <3>4 DEF Ready, Known, Config
      <4>3. doc'.servers[a].key = doc.servers[a].key
        BY <2>1, <2>7, <3>4, <4>2 DEF NewEntry, Entry
      <4> QED
        BY <2>2, <3>1, <4>1, <4>3 DEF PasswordAlone
    <3> QED
      BY <2>7, <3>2, <3>3, <3>4 DEF ServerCommand
  <2> QED
    BY <2>5, <2>6, <2>7
<1>9. ASSUME NEW r \in Runs, SavePassword(r) PROVE PasswordAlone(a)'
  <2>1. /\ run[r].at = "secret" /\ secret' = secret \cup {run[r].cmd.name} /\ UNCHANGED <<doc, torn, undone>>
        /\ run' = [run EXCEPT ![r] = [@ EXCEPT !.at = "change"]]
    BY <1>9 DEF SavePassword, Goto
  <2>2. run[r] \in Running /\ Fits(run[r])
    BY <2>1, AtWork
  <2>3. run'[r] = [run[r] EXCEPT !.at = "change"] /\ \A s \in Runs \ {r} : run'[s] = run[s]
    BY <2>1 DEF RunOK
  <2>4. run'[r].at = "change" /\ run'[r].cmd = run[r].cmd /\ run[r].cmd.do = "password"
    BY <2>1, <2>2, <2>3 DEF Running, Fits
  <2>5. run[r].cmd.name # a
    BY <2>4, <1>b DEF HalfOf, Half
  <2>6. IsSettled(a)
    BY <2>1, <2>3, <2>5, <1>d, StillSettled DEF HalfOf
  <2> QED
    BY <2>1, <2>5, <2>6 DEF Alone, PasswordAlone, Known
<1>10. ASSUME NEW r \in Runs, DeletePassword(r) PROVE PasswordAlone(a)'
  <2>1. /\ Goto(r, "forget", "idle") /\ UNCHANGED <<doc, undone>>
        /\ \/ secret' = secret \ {run[r].cmd.name} /\ torn' = Whole(r)
           \/ secret' = secret /\ torn' = Torn(r)
    BY <1>10 DEF DeletePassword
  <2>2. run[r].at = "forget" /\ \A s \in Runs \ {r} : run'[s] = run[s]
    BY <2>1, Stopped DEF Steps
  <2>3. CASE secret' = secret /\ torn' = Torn(r)
    <3>1. IsSettled(a)
      BY <2>1, <2>3, <1>e DEF Steps
    <3> QED
      BY <2>1, <2>3, <3>1 DEF Alone, PasswordAlone, Known
  <2>4. CASE secret' = secret \ {run[r].cmd.name} /\ torn' = Whole(r)
    <3>1. CASE run[r].cmd.name = a
      BY <2>4, <3>1 DEF PasswordAlone
    <3>2. CASE run[r].cmd.name # a
      <4>1. IsSettled(a)
        BY <2>1, <2>2, <2>4, <3>2, <1>d, StillSettled DEF HalfOf, Whole
      <4> QED
        BY <2>1, <2>4, <3>2, <4>1 DEF Alone, PasswordAlone, Known
    <3> QED
      BY <3>1, <3>2
  <2> QED
    BY <2>1, <2>3, <2>4
<1>11. ASSUME NEW r \in Runs, SaveToken(r) \/ DeleteToken(r) PROVE PasswordAlone(a)'
  <2>1. /\ run[r].at \in {"token", "untoken"} /\ UNCHANGED <<doc, secret, torn, undone>>
        /\ \A s \in Runs \ {r} : run'[s] = run[s]
    BY <1>11 DEF SaveToken, DeleteToken, Goto, RunOK
  <2>2. ~HalfOf(r, a)
    BY <2>1, AtWork DEF HalfOf, Half, Fits
  <2> QED
    BY <2>1, <2>2, <1>c, <1>d
<1>12. ASSUME NEW r \in Runs,
              \/ CreatePrivate(r) \/ WritePrivate(r) \/ CreatePublic(r) \/ WritePublic(r)
              \/ Send(r) \/ Provisioned(r) \/ NotProvisioned(r)
       PROVE  PasswordAlone(a)'
  <2>1. /\ run[r].at \in {"private", "write_private", "public", "write_public", "send", "await"}
        /\ UNCHANGED <<doc, secret, torn, undone>>
        /\ \A s \in Runs \ {r} : run'[s] = run[s]
    BY <1>12 DEF CreatePrivate, WritePrivate, CreatePublic, WritePublic, Send, Provisioned,
                 NotProvisioned, Installed, Goto, With, RunOK
  <2>2. ~HalfOf(r, a)
    BY <2>1, AtWork DEF HalfOf, Half, Fits
  <2> QED
    BY <2>1, <2>2, <1>c, <1>d
<1>13. CASE RunsLate
  BY <1>13, <1>c DEF RunsLate, Installed, HalfOf, Half
<1> QED
  BY <1>1, <1>2, <1>3, <1>4, <1>5, <1>6, <1>7, <1>8, <1>9, <1>10, <1>11, <1>12, <1>13 DEF Next

\* However set-auths and removals of any number of terminals cross each other
\* or stop, and however often: a key of set-auth and a password are never
\* combined, and no password waits for the next server of a name, but where a
\* command stopped half way or the file was set back.
THEOREM OneCredential == Spec => []CredentialsInStep
<1>1. Init => Alone
  BY DEF Init, Alone, PasswordAlone
<1>2. TypeInv /\ Alone => CredentialsInStep
  BY CredentialsAsOne DEF TypeInv, Alone
<1> QED
  BY <1>1, <1>2, AloneStep, TypeInvHolds, PTL DEF Spec

-----------------------------------------------------------------------------
(* The tokens of git hosts                                                 *)

\* Nobody logs in to a host in one terminal while logging out in another.
OneSignIn ==
  \A r, s \in Runs : \A c \in Commands[r], d \in Commands[s] :
    c.do = "login" /\ d.do = "logout" /\ c.name = d.name => r = s

Listed(n) == doc.tables["git_hosts"][n] # NoEntry

\* The entry is there when a login comes to the token, and the token is gone
\* when a logout comes to the entry, but where the keyring kept it.
EntryFirst(r) == run[r].at = "token" => run[r].cmd.name \in undone \/ Listed(run[r].cmd.name)
TokenGone(r)  == run[r].at \in {"change", "loaded"} /\ run[r].cmd.do = "logout" => run[r].cmd.name \notin token \ stuck

ListInv == TokensListed /\ \A r \in Runs : EntryFirst(r) /\ TokenGone(r)

\* Two terminals of which one logs in to a host and one logs out of it are one.
LEMMA SignInIsOne ==
  ASSUME OneSignIn, RunOK, NEW r \in Runs, NEW s \in Runs, run[r].at # "idle", run[s].at # "idle",
         run[r].cmd.do = "login", run[s].cmd.do = "logout", run[r].cmd.name = run[s].cmd.name
  PROVE  r = s
<1>1. Given(run[r], r) /\ Given(run[s], s)
  BY AtWork
<1>2. run[r].cmd \in Commands[r] /\ run[s].cmd \in Commands[s]
  BY <1>1 DEF Given
<1> QED
  BY <1>2 DEF OneSignIn

LEMMA ListStep == ASSUME OneSignIn PROVE TypeInv /\ ListInv /\ [Next]_vars => ListInv'
<1> SUFFICES ASSUME TypeOK, RunOK, ListInv, [Next]_vars PROVE ListInv'
  BY DEF TypeInv
<1> USE DEF vars, ssh, keyring, history
<1>a. TypeInv
  BY DEF TypeInv
\* Steps that leave file and tokens alone, and of one terminal that comes
\* neither to a token nor into the change of a logout.
<1>b. ASSUME UNCHANGED <<doc, token, stuck>>, undone \subseteq undone', NEW r \in Runs,
             \A s \in Runs \ {r} : run'[s] = run[s],
             run'[r].at \notin {"token", "change", "loaded"}
             \/ (run'[r].at # "token" /\ run'[r].cmd.do # "logout")
             \/ (run'[r].cmd = run[r].cmd /\ run'[r].at = "loaded" /\ run[r].at = "change")
      PROVE  ListInv'
  <2>1. TokensListed'
    BY <1>b DEF ListInv, TokensListed
  <2>2. ASSUME NEW s \in Runs
        PROVE  EntryFirst(s)' /\ TokenGone(s)'
    <3>1. CASE s = r
      BY <1>b, <3>1 DEF ListInv, EntryFirst, TokenGone
    <3>2. CASE s # r
      BY <1>b, <3>2 DEF ListInv, EntryFirst, TokenGone, Listed
    <3> QED
      BY <3>1, <3>2
  <2> QED
    BY <2>1, <2>2 DEF ListInv
<1>1. CASE UNCHANGED vars
  BY <1>1 DEF ListInv, TokensListed, EntryFirst, TokenGone, Listed
<1>2. ASSUME NEW r \in Runs, Begin(r) PROVE ListInv'
  <2>1. PICK c \in Commands[r] :
          run' = [run EXCEPT ![r] =
            [cmd  |-> IF c.do = "setup" THEN [c EXCEPT !.to = doc.servers[c.name].instance] ELSE c,
             at   |-> First(c),
             mine |-> IF c.do = "local_add" THEN Append(doc.local, c.value) ELSE <<>>,
             read |-> EmptyConfig]]
    BY <1>2 DEF Begin
  <2>2. c \in Command
    BY StoresAssumption
  <2>3. /\ run'[r].at = First(c) /\ run'[r].cmd.do = c.do
        /\ \A s \in Runs \ {r} : run'[s] = run[s]
    <3> DEFINE cmd == IF c.do = "setup" THEN [c EXCEPT !.to = doc.servers[c.name].instance] ELSE c
    <3>1. cmd.do = c.do
      BY <2>2 DEF Command
    <3> QED
      BY <2>1, <3>1 DEF RunOK
  <2>4. First(c) # "token" /\ (First(c) \in {"change", "loaded"} => c.do # "logout")
    <3>1. CASE c.do = "logout"
      BY <3>1 DEF First
    <3>2. CASE c.do = "setup"
      BY <3>2 DEF First, FirstOfSetup
    <3>3. CASE c.do = "password"
      BY <3>3 DEF First
    <3>4. CASE c.do \in {"edit_hooks", "local_edit"}
      BY <3>4 DEF First
    <3>5. CASE c.do \notin {"logout", "setup", "password", "edit_hooks", "local_edit"}
      BY <3>5 DEF First
    <3> QED
      BY <3>1, <3>2, <3>3, <3>4, <3>5
  <2>5. UNCHANGED <<doc, token, undone, stuck>>
    BY <1>2 DEF Begin
  <2> QED
    BY <2>3, <2>4, <2>5, <1>b
<1>3. ASSUME NEW r \in Runs,
             SaveEdit(r) \/ CancelEdit(r) \/ Load(r) \/ NothingToClear(r) \/ Refuse(r) \/ KeyringFails(r)
      PROVE  ListInv'
  <2>1. UNCHANGED <<doc, token, undone, stuck>>
    BY <1>3 DEF SaveEdit, CancelEdit, Load, NothingToClear, Refuse, KeyringFails
  <2>2. CASE SaveEdit(r)
    <3>1. PICK hs \in Hooks : run[r].at = "edit" /\ run' = [run EXCEPT ![r] = [@ EXCEPT !.at = "change", !.mine = hs]]
      BY <2>2 DEF SaveEdit, With
    <3>2. run[r] \in Running /\ run[r].cmd.do \in {"edit_hooks", "local_edit"}
      BY <3>1, AtWork DEF Fits
    <3>3. run'[r].at = "change" /\ run'[r].cmd = run[r].cmd /\ \A s \in Runs \ {r} : run'[s] = run[s]
      BY <3>1, <3>2 DEF RunOK, Running
    <3> QED
      BY <2>1, <3>2, <3>3, <1>b
  <2>3. CASE Load(r)
    <3>1. run[r].at = "change" /\ run' = [run EXCEPT ![r] = [@ EXCEPT !.at = "loaded", !.read = doc]]
      BY <2>3 DEF Load
    <3>2. run[r] \in Running
      BY <3>1, AtWork
    <3>3. run'[r].at = "loaded" /\ run'[r].cmd = run[r].cmd /\ \A s \in Runs \ {r} : run'[s] = run[s]
      BY <3>1, <3>2 DEF RunOK, Running
    <3> QED
      BY <2>1, <3>1, <3>3, <1>b
  <2>4. CASE CancelEdit(r) \/ NothingToClear(r) \/ Refuse(r) \/ KeyringFails(r)
    <3>1. \E from \in Steps \ {"idle"} : Goto(r, from, "idle")
      BY <2>4 DEF CancelEdit, NothingToClear, Refuse, KeyringFails, Steps
    <3>2. run'[r] = Prompt /\ \A s \in Runs \ {r} : run'[s] = run[s]
      BY <3>1, Stopped
    <3> QED
      BY <2>1, <3>2, <1>b DEF Prompt
  <2> QED
    BY <1>3, <2>2, <2>3, <2>4
<1>4. ASSUME NEW r \in Runs, Store(r) PROVE ListInv'
  <2> DEFINE c == run[r].cmd
             u == run[r]
  <2>1. /\ u.at = "loaded" /\ c \in Command
        /\ \A n \in Names \ undone' :
             doc'.tables["git_hosts"][n] =
               IF c.do \in HostCommand /\ c.name = n THEN NewValue(c) ELSE doc.tables["git_hosts"][n]
        /\ \A s \in Runs \ {r} : run'[s] = run[s]
        /\ run'[r] = IF After(c) = "idle" THEN Prompt ELSE [u EXCEPT !.at = After(c)]
    BY <1>4, <1>a, Stored
  <2>2. token' = token /\ undone \subseteq undone' /\ stuck' = stuck
    BY <1>4 DEF Store
  <2>3. c.do = "login" => NewValue(c) # NoEntry /\ c.name \in Names
    BY <2>1, CommandFacts, StoresAssumption DEF NewValue, Writing
  <2>4. u \in Running
    BY <2>1, AtWork
  \* Only a logout takes an entry away, and not while there is a token or one
  \* is about to be saved.
  <2>5. ASSUME NEW n \in Names \ undone', Listed(n), ~(c.do = "logout" /\ c.name = n)
        PROVE  Listed(n)'
    BY <2>1, <2>3, <2>5 DEF Listed, HostCommand
  <2>6. TokensListed'
    <3> SUFFICES ASSUME NEW n \in token' \ (undone' \cup stuck') PROVE Listed(n)'
      BY DEF TokensListed, Listed
    <3>1. n \in Names /\ Listed(n)
      BY <2>2 DEF TypeOK, ListInv, TokensListed, Listed
    <3>2. ~(c.do = "logout" /\ c.name = n)
      BY <2>1, <2>2 DEF ListInv, TokenGone
    <3> QED
      BY <2>5, <3>1, <3>2
  <2>7. ASSUME NEW s \in Runs PROVE EntryFirst(s)'
    <3> SUFFICES ASSUME run'[s].at = "token", run'[s].cmd.name \notin undone'
                 PROVE  Listed(run[s].cmd.name)'
      BY DEF EntryFirst
    <3>1. CASE s = r
      <4>1. c.do = "login" /\ run'[s].cmd = c
        BY <2>1, <2>4, <3>1 DEF After, Running, Prompt
      <4> QED
        BY <4>1, <2>1, <2>3 DEF Listed, HostCommand
    <3>2. CASE s # r
      <4>1. run[s] = run'[s] /\ run[s].cmd.do = "login" /\ run[s].cmd.name \in Names
        BY <2>1, <3>2, AtWork, CommandFacts DEF Fits, Writing
      <4>2. Listed(run[s].cmd.name)
        BY <4>1, <2>2 DEF ListInv, EntryFirst
      <4>3. ~(c.do = "logout" /\ c.name = run[s].cmd.name)
        BY <4>1, <2>1, <3>2, SignInIsOne
      <4>4. doc'.tables["git_hosts"][run[s].cmd.name] # NoEntry
        BY <4>1, <4>2, <4>3, <2>5 DEF Listed
      <4> QED
        BY <4>1, <4>4 DEF Listed
    <3> QED
      BY <3>1, <3>2
  <2>8. ASSUME NEW s \in Runs PROVE TokenGone(s)'
    <3> SUFFICES ASSUME run'[s].at \in {"change", "loaded"}, run'[s].cmd.do = "logout"
                 PROVE  run'[s].cmd.name \notin token' \ stuck'
      BY DEF TokenGone
    <3>1. s # r
      BY <2>1, <2>4 DEF After, Running, Prompt
    <3> QED
      BY <3>1, <2>1, <2>2 DEF ListInv, TokenGone
  <2> QED
    BY <2>6, <2>7, <2>8 DEF ListInv
<1>5. ASSUME NEW r \in Runs, Kill(r) PROVE ListInv'
  <2>1. /\ undone \subseteq undone' /\ token' = token /\ stuck' = stuck
        /\ \A n \in Names \ undone' : doc'.tables["git_hosts"][n] = doc.tables["git_hosts"][n]
    BY <1>5 DEF Kill, Differ
  <2>2. run[r].at # "idle" /\ Goto(r, run[r].at, "idle")
    BY <1>5 DEF Kill
  <2>3. run'[r] = Prompt /\ \A s \in Runs \ {r} : run'[s] = run[s]
    BY <2>2, AtWork, Stopped DEF Running
  <2>4. TokensListed'
    BY <2>1 DEF ListInv, TokensListed, TypeOK
  <2>5. ASSUME NEW s \in Runs
        PROVE  EntryFirst(s)' /\ TokenGone(s)'
    <3>1. CASE s = r
      BY <2>3, <3>1 DEF Prompt, EntryFirst, TokenGone
    <3>2. CASE s # r
      <4>1. run[s].at = "token" => run[s].cmd.name \in Names
        BY AtWork, CommandFacts DEF Fits, Writing
      <4> QED
        BY <4>1, <2>1, <2>3, <3>2 DEF ListInv, EntryFirst, TokenGone, Listed
    <3> QED
      BY <3>1, <3>2
  <2> QED
    BY <2>4, <2>5 DEF ListInv
<1>6. ASSUME NEW r \in Runs, SavePassword(r) \/ DeletePassword(r) PROVE ListInv'
  <2>1. UNCHANGED <<doc, token, undone, stuck>>
    BY <1>6 DEF SavePassword, DeletePassword
  <2>2. CASE SavePassword(r)
    <3>1. run[r].at = "secret" /\ run' = [run EXCEPT ![r] = [@ EXCEPT !.at = "change"]]
      BY <2>2 DEF SavePassword, Goto
    <3>2. run[r] \in Running /\ run[r].cmd.do = "password"
      BY <3>1, AtWork DEF Fits
    <3>3. run'[r].at = "change" /\ run'[r].cmd = run[r].cmd /\ \A s \in Runs \ {r} : run'[s] = run[s]
      BY <3>1, <3>2 DEF RunOK, Running
    <3> QED
      BY <2>1, <3>2, <3>3, <1>b
  <2>3. CASE DeletePassword(r)
    <3>1. run'[r] = Prompt /\ \A s \in Runs \ {r} : run'[s] = run[s]
      BY <2>3, Stopped DEF DeletePassword, Steps
    <3> QED
      BY <2>1, <3>1, <1>b DEF Prompt
  <2> QED
    BY <1>6, <2>2, <2>3
<1>7. ASSUME NEW r \in Runs, SaveToken(r) PROVE ListInv'
  <2>1. /\ Goto(r, "token", "idle") /\ UNCHANGED <<doc, undone>>
        /\ token' = token \cup {run[r].cmd.name} /\ stuck' = stuck \ {run[r].cmd.name}
    BY <1>7 DEF SaveToken
  <2>2. run[r].at = "token" /\ run'[r] = Prompt /\ \A s \in Runs \ {r} : run'[s] = run[s]
    BY <2>1, Stopped DEF Steps
  <2>3. run[r].cmd.do = "login"
    BY <2>2, AtWork DEF Fits
  <2>4. TokensListed'
    BY <2>1, <2>2 DEF ListInv, EntryFirst, TokensListed, Listed
  <2>5. ASSUME NEW s \in Runs
        PROVE  EntryFirst(s)' /\ TokenGone(s)'
    <3>1. CASE s = r
      BY <2>2, <3>1 DEF Prompt, EntryFirst, TokenGone
    <3>2. CASE s # r
      <4>1. run'[s] = run[s]
        BY <2>2, <3>2
      <4>2. run[s].at \in {"change", "loaded"} /\ run[s].cmd.do = "logout" => run[s].cmd.name # run[r].cmd.name
        BY <2>2, <2>3, <3>2, SignInIsOne
      <4> QED
        BY <4>1, <4>2, <2>1 DEF ListInv, EntryFirst, TokenGone, Listed
    <3> QED
      BY <3>1, <3>2
  <2> QED
    BY <2>4, <2>5 DEF ListInv
<1>8. ASSUME NEW r \in Runs, DeleteToken(r) PROVE ListInv'
  <2>1. /\ run[r].at = "untoken" /\ run' = [run EXCEPT ![r] = [@ EXCEPT !.at = "change"]]
        /\ token' \ stuck' = (token \ stuck) \ {run[r].cmd.name} /\ UNCHANGED <<doc, undone>>
    BY <1>8 DEF DeleteToken, Goto
  <2>2. run[r] \in Running
    BY <2>1, AtWork
  <2>3. run'[r].at = "change" /\ run'[r].cmd = run[r].cmd /\ \A s \in Runs \ {r} : run'[s] = run[s]
    BY <2>1, <2>2 DEF RunOK, Running
  <2>4. TokensListed'
    BY <2>1 DEF ListInv, TokensListed
  <2>5. ASSUME NEW s \in Runs
        PROVE  EntryFirst(s)' /\ TokenGone(s)'
    <3>1. CASE s = r
      BY <2>1, <2>3, <3>1 DEF EntryFirst, TokenGone
    <3>2. CASE s # r
      BY <2>1, <2>3, <3>2 DEF ListInv, EntryFirst, TokenGone, Listed
    <3> QED
      BY <3>1, <3>2
  <2> QED
    BY <2>4, <2>5 DEF ListInv
<1>9. ASSUME NEW r \in Runs,
             \/ CreatePrivate(r) \/ WritePrivate(r) \/ CreatePublic(r) \/ WritePublic(r)
             \/ Send(r) \/ Provisioned(r) \/ NotProvisioned(r)
      PROVE  ListInv'
  <2> USE DEF CreatePrivate, WritePrivate, CreatePublic, WritePublic, Send, Provisioned, NotProvisioned
  <2>1. /\ run[r].at \in {"private", "write_private", "public", "write_public", "send", "await"}
        /\ UNCHANGED <<doc, token, undone, stuck>>
    BY <1>9 DEF Installed, Goto, With
  <2>2. run[r] \in Running /\ run[r].cmd.do = "setup"
    BY <2>1, AtWork DEF Fits
  <2>3. \E it : \E to \in {"write_private", "public", "write_public", "send", "await", "change", "idle"} :
          run' = [run EXCEPT ![r] = IF to = "idle" THEN Prompt
                                    ELSE IF to \notin {"write_private", "await"} THEN [@ EXCEPT !.at = to]
                                    ELSE [@ EXCEPT !.at = to, !.mine = it]]
    <3>1. CASE CreatePrivate(r)
      BY <3>1 DEF With
    <3>2. CASE Send(r)
      BY <3>2 DEF With
    <3>3. CASE ~CreatePrivate(r) /\ ~Send(r)
      BY <1>9, <3>3 DEF Goto
    <3> QED
      BY <1>9, <3>1, <3>2, <3>3
  <2>4. /\ \A s \in Runs \ {r} : run'[s] = run[s]
        /\ run'[r] = Prompt \/ (run'[r].cmd = run[r].cmd /\ run'[r].at # "token")
    BY <2>2, <2>3 DEF RunOK, Running
  <2> QED
    BY <2>1, <2>2, <2>4, <1>b DEF Prompt
<1>10. CASE RunsLate
  BY <1>10 DEF RunsLate, Installed, ListInv, TokensListed, EntryFirst, TokenGone, Listed
<1> QED
  BY <1>1, <1>2, <1>3, <1>4, <1>5, <1>6, <1>7, <1>8, <1>9, <1>10 DEF Next

\* Wherever login and logout stop, every token is listed by `git hosts`, for
\* any number of terminals and hosts, if nobody logs in to a host in one
\* terminal while logging out of it in another; but for tokens that the keyring
\* refused to delete and hosts that were set back.
THEOREM TokensAreListed == ASSUME OneSignIn PROVE Spec => []TokensListed
<1>1. Init => ListInv
  BY DEF Init, ListInv, TokensListed, EntryFirst, TokenGone, Prompt
<1>2. ListInv => TokensListed
  BY DEF ListInv
<1> QED
  BY <1>1, <1>2, ListStep, TypeInvHolds, PTL DEF Spec

-----------------------------------------------------------------------------
(* The key pair of setup-keys                                              *)

\* One terminal runs setup-keys.
OneSetup ==
  \A r, s \in Runs : \A c \in Commands[r], d \in Commands[s] :
    c.do = "setup" /\ d.do = "setup" => r = s

Making == {"private", "write_private", "public", "write_public"}

\* A terminal in setup-keys: a pair is being made only where there was none, and
\* the instance accepts the key, if it is one, once SSM has said so.
PairInHand(r) ==
  /\ run[r].at \in Making => trusted = {}
  /\ run[r].at \in Making \ {"write_public"} => files.public = NoPair
  /\ run[r].at \in {"public", "write_public"} => files.private = run[r].mine
  /\ run[r].at = "await"  => files.public = run[r].mine
  /\ run[r].at \in {"change", "loaded"} /\ run[r].cmd.do = "setup" =>
       files.public = TornKey \/ files.public \in authorized[run[r].cmd.to]

PairInv ==
  /\ files.public # NoPair => files.private # NoPair
  /\ files.public \notin {NoPair, TornKey} => files.private = files.public
  /\ files.public # TornKey => \A i \in trusted : files.public \in authorized[i]
  /\ \A r \in Runs : PairInHand(r)

LEMMA SetupIsOne ==
  ASSUME OneSetup, RunOK, NEW r \in Runs, NEW s \in Runs, run[r].at # "idle", run[s].at # "idle",
         run[r].cmd.do = "setup", run[s].cmd.do = "setup"
  PROVE  r = s
<1>1. Given(run[r], r) /\ Given(run[s], s)
  BY AtWork
<1>2. PICK c \in Commands[r] : c.do = "setup"
  BY <1>1 DEF Given
<1>3. PICK d \in Commands[s] : d.do = "setup"
  BY <1>1 DEF Given
<1> QED
  BY <1>2, <1>3 DEF OneSetup

LEMMA PairStep == ASSUME OneSetup PROVE TypeInv /\ PairInv /\ [Next]_vars => PairInv'
<1> SUFFICES ASSUME TypeOK, RunOK, PairInv, [Next]_vars PROVE PairInv'
  BY DEF TypeInv
<1> USE DEF vars, ssh, keyring, history
<1>a. TypeInv
  BY DEF TypeInv
<1>b. ASSUME NEW s \in Runs, run[s].at \in Making \cup {"send", "await"}
      PROVE  run[s] \in Running /\ run[s].cmd.do = "setup" /\ run[s].cmd.to \in Instances
  BY <1>b, AtWork DEF Fits, Making
<1>c. ASSUME NEW s \in Runs, run[s].at # "idle", run[s].cmd.do = "setup"
      PROVE  run[s] \in Running /\ run[s].cmd.to \in Instances
  BY <1>c, AtWork DEF Fits
\* Nobody trusts a pair that is not there.
<1>e. files.public = NoPair => trusted = {}
  <2>1. NoPair # TornKey /\ \A i \in Instances : NoPair \notin authorized[i]
    BY StoresAssumption DEF TypeOK, Halves
  <2> QED
    BY <2>1 DEF PairInv, TypeOK
\* The others are not in setup-keys while one is.
<1>f. ASSUME NEW r \in Runs, run[r].at \in Making \cup {"send", "await"}, NEW s \in Runs \ {r}
      PROVE  /\ run[s].at \notin Making \cup {"send", "await"}
             /\ ~(run[s].at \in {"change", "loaded"} /\ run[s].cmd.do = "setup")
  <2>1. run[r].cmd.do = "setup" /\ run[r].at # "idle"
    BY <1>b, <1>f DEF Making
  <2>2. ~(run[s].at # "idle" /\ run[s].cmd.do = "setup")
    BY <2>1, <1>f, SetupIsOne
  <2> QED
    BY <2>2, <1>b DEF Making
\* Steps that leave the key pair and the instances alone, of a terminal that
\* is not in setup-keys afterwards.
<1>d. ASSUME UNCHANGED <<files, authorized, trusted>>, NEW r \in Runs, PairInHand(r)',
             \A s \in Runs \ {r} : run'[s] = run[s]
      PROVE  PairInv'
  <2>1. ASSUME NEW s \in Runs \ {r} PROVE PairInHand(s)'
    BY <1>d, <2>1 DEF PairInv, PairInHand
  <2> QED
    BY <1>d, <2>1 DEF PairInv
<1>1. CASE UNCHANGED vars
  BY <1>1 DEF PairInv, PairInHand
<1>2. ASSUME NEW r \in Runs, Begin(r) PROVE PairInv'
  <2>1. PICK c \in Commands[r] :
          run' = [run EXCEPT ![r] =
            [cmd  |-> IF c.do = "setup" THEN [c EXCEPT !.to = doc.servers[c.name].instance] ELSE c,
             at   |-> First(c),
             mine |-> IF c.do = "local_add" THEN Append(doc.local, c.value) ELSE <<>>,
             read |-> EmptyConfig]]
    BY <1>2 DEF Begin
  <2>2. c \in Command
    BY StoresAssumption
  <2>3. /\ run'[r].at = First(c) /\ run'[r].cmd.do = c.do
        /\ \A s \in Runs \ {r} : run'[s] = run[s]
    <3> DEFINE cmd == IF c.do = "setup" THEN [c EXCEPT !.to = doc.servers[c.name].instance] ELSE c
    <3>1. cmd.do = c.do
      BY <2>2 DEF Command
    <3> QED
      BY <2>1, <3>1 DEF RunOK
  <2>4. /\ First(c) \notin {"write_private", "public", "write_public", "await", "loaded"}
        /\ First(c) = "private" => NoPair \in {files.private, files.public}
        /\ First(c) = "change" => c.do # "setup"
    <3>1. CASE c.do = "setup"
      BY <3>1 DEF First, FirstOfSetup
    <3>2. CASE c.do = "password"
      BY <3>2 DEF First
    <3>3. CASE c.do = "logout"
      BY <3>3 DEF First
    <3>4. CASE c.do \in {"edit_hooks", "local_edit"}
      BY <3>4 DEF First
    <3>5. CASE c.do \notin {"logout", "setup", "password", "edit_hooks", "local_edit"}
      BY <3>5 DEF First
    <3> QED
      BY <3>1, <3>2, <3>3, <3>4, <3>5
  <2>5. UNCHANGED <<files, authorized, trusted>>
    BY <1>2 DEF Begin
  <2>6. PairInHand(r)'
    BY <2>3, <2>4, <2>5, <1>e DEF PairInHand, PairInv, Making
  <2> QED
    BY <2>3, <2>5, <2>6, <1>d
<1>3. ASSUME NEW r \in Runs, SaveEdit(r) \/ Load(r) \/ SavePassword(r) \/ DeleteToken(r)
      PROVE  PairInv'
  <2>1. /\ UNCHANGED <<files, authorized, trusted>> /\ run[r].at \in {"edit", "change", "secret", "untoken"}
        /\ \E it, d : \E to \in {"change", "loaded"} :
             /\ to = "loaded" => run[r].at = "change"
             /\ run' = [run EXCEPT ![r] = IF to = "loaded" THEN [@ EXCEPT !.at = to, !.read = d]
                                          ELSE IF run[r].at = "edit" THEN [@ EXCEPT !.at = to, !.mine = it]
                                          ELSE [@ EXCEPT !.at = to]]
             /\ to = "change" => run[r].at \in {"edit", "secret", "untoken"}
    <3>1. CASE SaveEdit(r)
      BY <3>1 DEF SaveEdit, With
    <3>2. CASE Load(r)
      BY <3>2 DEF Load
    <3>3. CASE SavePassword(r)
      BY <3>3 DEF SavePassword, Goto
    <3>4. CASE DeleteToken(r)
      BY <3>4 DEF DeleteToken, Goto
    <3> QED
      BY <1>3, <3>1, <3>2, <3>3, <3>4
  <2>2. run[r] \in Running /\ Fits(run[r])
    BY <2>1, AtWork
  <2>3. /\ \A s \in Runs \ {r} : run'[s] = run[s]
        /\ run'[r].cmd = run[r].cmd /\ run'[r].at \in {"change", "loaded"}
    BY <2>1, <2>2 DEF RunOK, Running
  <2>4. run[r].at # "change" => run[r].cmd.do # "setup"
    BY <2>1, <2>2 DEF Fits
  <2>5. PairInHand(r)'
    BY <2>1, <2>3, <2>4 DEF PairInHand, PairInv, Making
  <2> QED
    BY <2>1, <2>3, <2>5, <1>d
<1>4. ASSUME NEW r \in Runs,
             \/ CancelEdit(r) \/ NothingToClear(r) \/ Refuse(r) \/ KeyringFails(r) \/ DeletePassword(r)
             \/ SaveToken(r) \/ NotProvisioned(r) \/ Kill(r)
      PROVE  PairInv'
  <2>1. \E from \in Steps \ {"idle"} : Goto(r, from, "idle")
    <3>1. CASE Kill(r)
      BY <3>1, AtWork DEF Kill, Running
    <3>2. CASE ~Kill(r)
      BY <1>4, <3>2 DEF CancelEdit, NothingToClear, Refuse, KeyringFails, DeletePassword, SaveToken, NotProvisioned,
                        Steps
    <3> QED
      BY <3>1, <3>2
  <2>2. UNCHANGED <<files, authorized, trusted>>
    BY <1>4 DEF CancelEdit, NothingToClear, Refuse, KeyringFails, DeletePassword, SaveToken, NotProvisioned, Kill
  <2>3. run'[r] = Prompt /\ \A s \in Runs \ {r} : run'[s] = run[s]
    BY <2>1, Stopped
  <2>4. PairInHand(r)'
    BY <2>3 DEF PairInHand, Prompt, Making
  <2> QED
    BY <2>2, <2>3, <2>4, <1>d
<1>5. ASSUME NEW r \in Runs, Store(r) PROVE PairInv'
  <2> DEFINE c == run[r].cmd
             u == run[r]
  <2>1. /\ u.at = "loaded"
        /\ \A s \in Runs \ {r} : run'[s] = run[s]
        /\ run'[r] = IF After(c) = "idle" THEN Prompt ELSE [u EXCEPT !.at = After(c)]
    BY <1>5, <1>a, Stored
  <2>2. u \in Running
    BY <2>1, AtWork
  <2>3. UNCHANGED <<files, authorized>> /\ trusted' = IF c.do = "setup" THEN trusted \cup {c.to} ELSE trusted
    BY <1>5 DEF Store
  <2>4. run'[r].at \in {"idle", "forget", "token"}
    BY <2>1, <2>2 DEF After, Running, Prompt
  \* A pair that is being made is not made by r.
  <2>5. ASSUME NEW s \in Runs PROVE PairInHand(s)'
    <3>1. CASE s = r
      BY <2>4, <3>1 DEF PairInHand, Making
    <3>2. CASE s # r
      <4>1. run'[s] = run[s] /\ (run[s].at \in Making => trusted = {})
        BY <2>1, <3>2 DEF PairInv, PairInHand
      <4>2. run[s].at \in Making => c.do # "setup"
        BY <2>1, <3>2, <1>f
      <4>3. run'[s].at \in Making => trusted' = {}
        BY <4>1, <4>2, <2>3
      <4> QED
        BY <4>1, <4>3, <2>3 DEF PairInv, PairInHand
    <3> QED
      BY <3>1, <3>2
  <2>6. c.do = "setup" => files.public = TornKey \/ files.public \in authorized[c.to]
    BY <2>1 DEF PairInv, PairInHand
  <2> QED
    BY <2>3, <2>5, <2>6 DEF PairInv
\* The steps that make the pair.
<1>6. ASSUME NEW r \in Runs, CreatePrivate(r) PROVE PairInv'
  <2>1. PICK k \in Unused :
          /\ run[r].at = "private" /\ run' = [run EXCEPT ![r] = [@ EXCEPT !.at = "write_private", !.mine = k]]
          /\ files' = [files EXCEPT !.private = TornKey] /\ UNCHANGED <<authorized, trusted>>
    BY <1>6 DEF CreatePrivate, With
  <2>2. run[r] \in Running
    BY <2>1, <1>b DEF Making
  <2>3. run'[r].at = "write_private" /\ \A s \in Runs \ {r} : run'[s] = run[s]
    BY <2>1, <2>2 DEF RunOK, Running
  <2>4. files.public = NoPair /\ files'.public = NoPair /\ trusted = {}
    BY <2>1 DEF PairInv, PairInHand, TypeOK, Making
  <2>5. ASSUME NEW s \in Runs \ {r} PROVE PairInHand(s)'
    BY <2>1, <2>3, <1>f DEF PairInHand, Making
  <2>6. PairInHand(r)'
    BY <2>1, <2>3, <2>4 DEF PairInHand, Making
  <2> QED
    BY <2>1, <2>4, <2>5, <2>6 DEF PairInv
<1>7. ASSUME NEW r \in Runs, WritePrivate(r) \/ CreatePublic(r) \/ WritePublic(r) PROVE PairInv'
  <2>1. PICK from \in {"write_private", "public", "write_public"}, to \in {"public", "write_public", "send"} :
          /\ run[r].at = from /\ run' = [run EXCEPT ![r] = [@ EXCEPT !.at = to]]
          /\ from = "write_private" => to = "public" /\ files' = [files EXCEPT !.private = run[r].mine]
          /\ from = "public" => to = "write_public" /\ files' = [files EXCEPT !.public = TornKey]
          /\ from = "write_public" => to = "send" /\ files' = [files EXCEPT !.public = run[r].mine]
          /\ UNCHANGED <<authorized, trusted>>
    BY <1>7 DEF WritePrivate, CreatePublic, WritePublic, Goto
  <2>2. run[r] \in Running /\ Fits(run[r])
    BY <2>1, AtWork
  <2>3. /\ run'[r].at = to /\ run'[r].mine = run[r].mine /\ \A s \in Runs \ {r} : run'[s] = run[s]
    BY <2>1, <2>2 DEF RunOK, Running
  <2>4. run[r].mine \in KeyPairs /\ run[r].mine \notin {NoPair, TornKey} /\ TornKey # NoPair
    BY <2>1, <2>2, StoresAssumption DEF Fits, Halves
  <2>5. /\ trusted = {}
        /\ from # "write_public" => files.public = NoPair
        /\ from # "write_private" => files.private = run[r].mine
    BY <2>1 DEF PairInv, PairInHand, Making
  <2>6. /\ from = "write_private" => files'.public = NoPair /\ files'.private = run[r].mine
        /\ from = "public" => files'.public = TornKey /\ files'.private = run[r].mine
        /\ from = "write_public" => files'.public = run[r].mine /\ files'.private = run[r].mine
    BY <2>1, <2>5 DEF TypeOK
  <2>7. ASSUME NEW s \in Runs \ {r} PROVE PairInHand(s)'
    BY <2>1, <2>3, <1>f DEF PairInHand, Making
  <2>8. PairInHand(r)'
    BY <2>1, <2>3, <2>5, <2>6 DEF PairInHand, Making
  <2> QED
    BY <2>1, <2>4, <2>5, <2>6, <2>7, <2>8 DEF PairInv
<1>8. ASSUME NEW r \in Runs, Send(r) PROVE PairInv'
  <2>1. /\ run[r].at = "send" /\ run' = [run EXCEPT ![r] = [@ EXCEPT !.at = "await", !.mine = files.public]]
        /\ UNCHANGED <<files, authorized, trusted>>
    BY <1>8 DEF Send, With
  <2>2. run[r] \in Running
    BY <2>1, <1>b
  <2>3. run'[r].at = "await" /\ run'[r].mine = files.public /\ \A s \in Runs \ {r} : run'[s] = run[s]
    BY <2>1, <2>2 DEF RunOK, Running
  <2>4. PairInHand(r)'
    BY <2>1, <2>3 DEF PairInHand, Making
  <2> QED
    BY <2>1, <2>3, <2>4, <1>d
\* Instances come to accept more keys, never fewer.
<1>9. ASSUME NEW x \in sent, Installed(x)
      PROVE  /\ UNCHANGED <<files, trusted>>
             /\ \A i \in Instances : authorized[i] \subseteq authorized'[i]
             /\ x[2] = TornKey \/ x[2] \in authorized'[x[1]]
  BY <1>9 DEF Installed, TypeOK, Halves
<1>10. ASSUME NEW x \in sent, Installed(x), NEW s \in Runs, run'[s] = run[s]
       PROVE  PairInHand(s)'
  <2>1. UNCHANGED <<files, trusted>> /\ \A i \in Instances : authorized[i] \subseteq authorized'[i]
    BY <1>9, <1>10
  <2>2. run[s].at \in {"change", "loaded"} /\ run[s].cmd.do = "setup" => run[s].cmd.to \in Instances
    BY <1>c
  <2> QED
    BY <1>10, <2>1, <2>2 DEF PairInHand, PairInv
<1>11. ASSUME NEW r \in Runs, Provisioned(r) PROVE PairInv'
  <2>1. /\ run[r].at = "await" /\ run' = [run EXCEPT ![r] = [@ EXCEPT !.at = "change"]]
        /\ Target(r) \in sent /\ Installed(Target(r))
    BY <1>11 DEF Provisioned, Goto
  <2>2. run[r] \in Running /\ run[r].cmd.to \in Instances
    BY <2>1, <1>b
  <2>3. run'[r].at = "change" /\ run'[r].cmd = run[r].cmd /\ \A s \in Runs \ {r} : run'[s] = run[s]
    BY <2>1, <2>2 DEF RunOK, Running
  <2>4. files.public = run[r].mine
    BY <2>1 DEF PairInv, PairInHand
  <2>5. /\ UNCHANGED <<files, trusted>>
        /\ run[r].mine = TornKey \/ run[r].mine \in authorized'[run[r].cmd.to]
        /\ \A i \in Instances : authorized[i] \subseteq authorized'[i]
    BY <2>1, <1>9 DEF Target
  <2>6. PairInHand(r)'
    BY <2>3, <2>4, <2>5 DEF PairInHand, Making
  <2>7. ASSUME NEW s \in Runs \ {r} PROVE PairInHand(s)'
    BY <2>1, <2>3, <1>10
  <2> QED
    BY <2>5, <2>6, <2>7 DEF PairInv, TypeOK
<1>12. CASE RunsLate
  <2>1. PICK x \in sent : Installed(x) /\ UNCHANGED run
    BY <1>12 DEF RunsLate
  <2>2. ASSUME NEW s \in Runs PROVE PairInHand(s)'
    BY <2>1, <1>10
  <2> QED
    BY <2>1, <2>2, <1>9 DEF PairInv, TypeOK
<1> QED
  BY <1>1, <1>2, <1>3, <1>4, <1>5, <1>6, <1>7, <1>8, <1>11, <1>12 DEF Next

\* Running setup-keys again, for another server or after one that was cut
\* short anywhere, breaks no trust there is: for any number of instances, key
\* pairs and commands, if one terminal at a time runs setup-keys and none was
\* cut short between creating and writing the public key.
THEOREM TrustIsKept == ASSUME OneSetup PROVE Spec => []TrustKept
<1>1. Init => PairInv
  BY DEF Init, PairInv, PairInHand, Prompt
<1>2. TypeInv /\ PairInv => TrustKept
  <2> SUFFICES ASSUME TypeOK, PairInv, files.public # TornKey, NEW i \in trusted
               PROVE  files.private \in authorized[i]
    BY DEF TypeInv, TrustKept
  <2>1. files.public \in authorized[i] /\ NoPair \notin authorized[i]
    BY StoresAssumption DEF PairInv, TypeOK, Halves
  <2> QED
    BY <2>1 DEF PairInv
<1> QED
  BY <1>1, <1>2, PairStep, TypeInvHolds, PTL DEF Spec

=============================================================================
