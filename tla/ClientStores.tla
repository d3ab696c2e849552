---------------------------- MODULE ClientStores -----------------------------
(***************************************************************************)
(* What benchops keeps on the developer's machine, and the commands that   *)
(* change it: config.toml, the system keyring (server passwords and tokens *)
(* of git hosts) and the key pair of `auth setup-keys`, whose public half  *)
(* SSM installs on instances.  A command changes several of them one after *)
(* the other; several commands run at a time and any of them can be        *)
(* killed.  Every change of config.toml reads the whole file, changes it   *)
(* in memory and writes it back, without a lock: what another command has  *)
(* written in between is undone, and a command killed in the middle of     *)
(* the write leaves an empty file.  A half of the key pair is created and  *)
(* then written: a command that ends in between leaves that file empty.    *)
(***************************************************************************)
EXTENDS Naturals, Sequences

CONSTANTS
  Runs,          \* terminals in which the developer runs benchops
  Commands,      \* Commands[r]: the commands run in r
  Aliases, Instances,
  Names, Values, \* of git hosts, projects and backup sources
  Lines, MaxHooks,
  KeyPairs,      \* the key pairs setup-keys can come to generate
  MaxCommands,   \* bound on the commands that are run
  NoServer, NoEntry, NoPair, NoCommand,
  TornKey        \* what is in a key file that is created and not yet written

Types  == {"ssh", "ssm", "ssm-ssh"}
Keys   == {"own", "user", "no_key"}  \* private_key_path: of setup-keys, of set-auth, none
Tables == {"git_hosts", "projects", "backup_sources"}
Hooks  == UNION {[1..n -> Lines] : n \in 0..MaxHooks}
Entry  == [type : Types, instance : Instances, key : Keys, hooks : Hooks]
Config == [servers : [Aliases -> Entry \cup {NoServer}],
           tables : [Tables -> [Names -> Values \cup {NoEntry}]],
           local : Hooks]

\* A command: what it does, to which alias or name, with what, and to which
\* instance or table it belongs ("entry": to the instance of the entry).
ServerCommand == {"add", "remove", "password", "key", "setup", "add_hook", "clear_hooks", "edit_hooks"}
LocalCommand  == {"local_add", "local_clear", "local_edit"}
TableCommand  == {"add_entry", "set_entry", "remove_entry"}
HostCommand   == {"login", "logout"}
Command == [do : {"add"}, name : Aliases, value : Types, to : Instances]
           \cup [do : ServerCommand \ {"add"}, name : Aliases, value : Lines, to : Instances \cup {"entry"}]
           \cup [do : LocalCommand, name : {"local"}, value : Lines, to : {"local"}]
           \cup [do : TableCommand, name : Names, value : Values, to : Tables \ {"git_hosts"}]
           \cup [do : HostCommand, name : Names, value : Values, to : {"git_hosts"}]
Steps == {"idle", "edit", "change", "loaded", "secret", "forget", "token", "untoken",
          "private", "write_private", "public", "write_public", "send", "await"}
Halves == KeyPairs \cup {TornKey}    \* what can be in a key file that is there

ASSUME StoresAssumption ==
  /\ Commands \in [Runs -> SUBSET Command]
  /\ NoServer \notin Entry /\ NoEntry \notin Values
  /\ NoPair \notin Halves /\ TornKey \notin KeyPairs
  /\ MaxHooks \in Nat /\ MaxCommands \in Nat

VARIABLES
  doc,         \* config.toml
  secret,      \* aliases with a password in the keyring
  token,       \* git hosts with a token in the keyring
  files,       \* the key files: whose private and whose public half
  authorized,  \* per instance, the public keys it accepts
  sent,        \* commands SSM has taken and not run: <<instance, key>>
  left,        \* commands that may still be run
  run,         \* per terminal, its command, the next step and what it has in memory
  trusted,     \* history: instances of which setup-keys said they trust the key
  torn,        \* history: aliases whose credentials a command left half changed
  undone,      \* history: aliases and hosts an overlapping or torn write set back
  stuck        \* history: git hosts whose token the keyring refused to delete

keyring == <<secret, token>>
ssh     == <<files, authorized, sent, trusted>>
history == <<torn, undone, stuck>>
vars    == <<doc, keyring, ssh, left, run, history>>

EmptyConfig == [servers |-> [a \in Aliases |-> NoServer],
                tables  |-> [t \in Tables |-> [n \in Names |-> NoEntry]],
                local   |-> <<>>]

\* cmd: the command; at: its next step; mine: hooks or a key pair it has in
\* memory; read: config.toml as it has read it.
Prompt == [cmd |-> NoCommand, at |-> "idle", mine |-> <<>>, read |-> EmptyConfig]

TypeOK ==
  /\ doc \in Config
  /\ secret \subseteq Aliases /\ token \subseteq Names
  /\ files \in [private : Halves \cup {NoPair}, public : Halves \cup {NoPair}]
  /\ authorized \in [Instances -> SUBSET KeyPairs]
  /\ sent \subseteq Instances \X Halves /\ left \in 0..MaxCommands
  /\ run \in [Runs -> {Prompt} \cup
                [cmd : Command, at : Steps, mine : Hooks \cup Halves, read : Config]]
  /\ trusted \subseteq Instances /\ torn \subseteq Aliases /\ undone \subseteq Aliases \cup Names
  /\ stuck \subseteq Names

-----------------------------------------------------------------------------
(* ConfigManager: what a command makes of the file                         *)

Known(d, a) == d.servers[a] # NoServer

\* Updating a server keeps its key path and its hooks.
ForgetfulAddServer(d, c) ==     \* mutant: the entry is written anew
  [d EXCEPT !.servers[c.name] = [type |-> c.value, instance |-> c.to, key |-> "no_key", hooks |-> <<>>]]
AddServer(d, c) ==
  [d EXCEPT !.servers[c.name] =
     [type |-> c.value, instance |-> c.to,
      key   |-> IF Known(d, c.name) THEN @.key ELSE "no_key",
      hooks |-> IF Known(d, c.name) THEN @.hooks ELSE <<>>]]
SetKey(d, a, key)   == [d EXCEPT !.servers[a].key = key]
SetHooks(d, a, hs)  == [d EXCEPT !.servers[a].hooks = hs]
WriteEntry(d, c, v) == [d EXCEPT !.tables[c.to][c.name] = v]

Changed(c, d, edited) ==
  CASE c.do = "add"         -> AddServer(d, c)
    [] c.do = "remove"      -> [d EXCEPT !.servers[c.name] = NoServer]
    [] c.do = "password"    -> SetKey(d, c.name, "no_key")
    [] c.do = "key"         -> SetKey(d, c.name, "user")
    [] c.do = "setup"       -> SetKey(d, c.name, "own")
    [] c.do = "add_hook"    -> SetHooks(d, c.name, Append(d.servers[c.name].hooks, c.value))
    [] c.do = "clear_hooks" -> SetHooks(d, c.name, <<>>)
    [] c.do = "edit_hooks"  -> SetHooks(d, c.name, edited)
    [] c.do \in LocalCommand                        -> [d EXCEPT !.local = edited]
    [] c.do \in {"add_entry", "set_entry", "login"} -> WriteEntry(d, c, c.value)
    [] c.do \in {"remove_entry", "logout"}          -> WriteEntry(d, c, NoEntry)

\* ValueError: the server or the entry is not there.
Refused(c) ==
  \/ c.do \in ServerCommand \ {"add"} /\ ~Known(doc, c.name)
  \/ c.do \in {"remove_entry", "logout"} /\ doc.tables[c.to][c.name] = NoEntry

\* clear_private_key and clear_hooks write nothing when there is nothing to clear.
Idle(c) == c.do \in {"password", "clear_hooks"} /\ Changed(c, doc, <<>>) = doc

\* The servers and hosts of which two versions of the file differ.
Differ(c, d) == {a \in Aliases : c.servers[a] # d.servers[a]}
                \cup {n \in Names : c.tables["git_hosts"][n] # d.tables["git_hosts"][n]}

-----------------------------------------------------------------------------
(* Commands                                                                *)

\* The credentials of the server are half changed when r stops here.
Half(r) == \/ run[r].cmd.do = "password" /\ run[r].at \in {"change", "loaded"}
           \/ run[r].cmd.do \in {"key", "remove"} /\ run[r].at = "forget"
Torn(r)  == IF run[r].at # "idle" /\ Half(r) THEN torn \cup {run[r].cmd.name} ELSE torn
Whole(r) == torn \ {run[r].cmd.name}

Goto(r, from, to) ==
  /\ run[r].at = from /\ UNCHANGED left
  /\ run' = [run EXCEPT ![r] = IF to = "idle" THEN Prompt ELSE [@ EXCEPT !.at = to]]
With(r, from, to, it) ==
  /\ run[r].at = from /\ UNCHANGED left
  /\ run' = [run EXCEPT ![r] = [@ EXCEPT !.at = to, !.mine = it]]

\* What a command checks before its first step; MaxHooks is a bound.
Starts(c) ==
  /\ c.do \in {"password", "key", "edit_hooks"} => Known(doc, c.name)
  /\ c.do = "setup" => Known(doc, c.name) /\ doc.servers[c.name].type = "ssm-ssh"
  /\ c.do = "add_entry" => doc.tables[c.to][c.name] = NoEntry
  /\ c.do = "local_add" => Len(doc.local) < MaxHooks

\* A key pair whose two files are there is used again, whatever is in them.
AlwaysFirst == "private"        \* mutant: setup-keys always generates
FirstOfSetup == IF NoPair \in {files.private, files.public} THEN "private" ELSE "send"

TokenFirst(c) == IF c.do = "login" THEN "token" ELSE "change"    \* mutant: no entry for a token
First(c) == CASE c.do = "password"                     -> "secret"
              [] c.do = "setup"                        -> FirstOfSetup
              [] c.do = "logout"                       -> "untoken"
              [] c.do \in {"edit_hooks", "local_edit"} -> "edit"
              [] OTHER                                 -> "change"

\* setup-keys goes on with the entry as it is now; the editor shows the hooks
\* as they are now; local add-hook and clear-hooks have their list.
Begin(r) == \E c \in Commands[r] :
  /\ run[r] = Prompt /\ Starts(c)
  /\ left > 0 /\ left' = left - 1
  /\ run' = [run EXCEPT ![r] =
       [cmd  |-> IF c.do = "setup" THEN [c EXCEPT !.to = doc.servers[c.name].instance] ELSE c,
        at   |-> First(c),
        mine |-> IF c.do = "local_add" THEN Append(doc.local, c.value) ELSE <<>>,
        read |-> EmptyConfig]]
  /\ UNCHANGED <<doc, keyring, ssh, history>>

SaveEdit(r) ==
  /\ \E hs \in Hooks : With(r, "edit", "change", hs)
  /\ UNCHANGED <<doc, keyring, ssh, history>>

CancelEdit(r) ==
  /\ Goto(r, "edit", "idle")
  /\ UNCHANGED <<doc, keyring, ssh, history>>

\* _read
Load(r) ==
  /\ run[r].at = "change" /\ ~Refused(run[r].cmd) /\ ~Idle(run[r].cmd)
  /\ run[r].cmd.do = "add_hook" => Len(doc.servers[run[r].cmd.name].hooks) < MaxHooks    \* bound
  /\ run' = [run EXCEPT ![r] = [@ EXCEPT !.at = "loaded", !.read = doc]]
  /\ UNCHANGED <<doc, left, keyring, ssh, history>>

NothingToClear(r) ==
  /\ Goto(r, "change", "idle") /\ ~Refused(run[r].cmd) /\ Idle(run[r].cmd)
  /\ torn' = IF run[r].cmd.do = "password" THEN Whole(r) ELSE torn
  /\ UNCHANGED <<doc, keyring, ssh, undone, stuck>>

\* An error; a logout does not mind.
Refuse(r) ==
  /\ Goto(r, "change", "idle") /\ Refused(run[r].cmd)
  /\ torn' = Torn(r)
  /\ UNCHANGED <<doc, keyring, ssh, undone, stuck>>

\* The password goes to the keyring before the key path is cleared, and the
\* key path is set before the password is cleared.
ForgetNothing(c) == IF c.do = "login" THEN "token" ELSE "idle"    \* mutant: passwords stay
After(c) == CASE c.do \in {"key", "remove"} -> "forget"
              [] c.do = "login"             -> "token"
              [] OTHER                      -> "idle"

\* The change in memory, and TOMLFile.write.
Store(r) ==
  /\ Goto(r, "loaded", After(run[r].cmd))
  /\ doc' = Changed(run[r].cmd, run[r].read, run[r].mine)
  /\ undone' = undone \cup Differ(doc, run[r].read)
  /\ torn' = IF run[r].cmd.do = "password" THEN Whole(r) ELSE torn
  /\ trusted' = IF run[r].cmd.do = "setup" THEN trusted \cup {run[r].cmd.to} ELSE trusted
  /\ UNCHANGED <<keyring, files, authorized, sent, stuck>>

-----------------------------------------------------------------------------
(* The keyring                                                             *)

SavePassword(r) ==
  /\ Goto(r, "secret", "change")
  /\ secret' = secret \cup {run[r].cmd.name}
  /\ UNCHANGED <<doc, token, ssh, history>>

\* PasswordDeleteError passes in silence: there was nothing to delete, or the
\* keyring refused and the password or the token is still there.
DeletePassword(r) ==
  /\ Goto(r, "forget", "idle")
  /\ \/ secret' = secret \ {run[r].cmd.name} /\ torn' = Whole(r)
     \/ run[r].cmd.name \in secret /\ torn' = Torn(r) /\ UNCHANGED secret
  /\ UNCHANGED <<doc, token, ssh, undone, stuck>>

SaveToken(r) ==
  /\ Goto(r, "token", "idle")
  /\ token' = token \cup {run[r].cmd.name} /\ stuck' = stuck \ {run[r].cmd.name}
  /\ UNCHANGED <<doc, secret, ssh, torn, undone>>

DeleteToken(r) ==
  /\ Goto(r, "untoken", "change")
  /\ \/ token' = token \ {run[r].cmd.name} /\ stuck' = stuck \ {run[r].cmd.name}
     \/ run[r].cmd.name \in token /\ stuck' = stuck \cup {run[r].cmd.name} /\ UNCHANGED token
  /\ UNCHANGED <<doc, secret, ssh, torn, undone>>

\* KeyringUnavailableError: an error, or a warning after the config changed.
KeyringFails(r) ==
  /\ run[r].at \in {"secret", "forget", "token", "untoken"} /\ Goto(r, run[r].at, "idle")
  /\ torn' = Torn(r)
  /\ UNCHANGED <<doc, keyring, ssh, undone, stuck>>

-----------------------------------------------------------------------------
(* auth setup-keys                                                         *)

Target(r) == <<run[r].cmd.to, run[r].mine>>

\* A new pair is none that was ever used.
Unused == KeyPairs \ ({files.private, files.public} \cup UNION {authorized[i] : i \in Instances}
                      \cup {s[2] : s \in sent} \cup {run[r].mine : r \in Runs})

\* write_bytes opens the file, which creates or empties it, and then writes.
CreatePrivate(r) == \E k \in Unused :
  /\ With(r, "private", "write_private", k)
  /\ files' = [files EXCEPT !.private = TornKey]
  /\ UNCHANGED <<doc, keyring, authorized, sent, trusted, history>>

WritePrivate(r) ==
  /\ Goto(r, "write_private", "public")
  /\ files' = [files EXCEPT !.private = run[r].mine]
  /\ UNCHANGED <<doc, keyring, authorized, sent, trusted, history>>

CreatePublic(r) ==
  /\ Goto(r, "public", "write_public")
  /\ files' = [files EXCEPT !.public = TornKey]
  /\ UNCHANGED <<doc, keyring, authorized, sent, trusted, history>>

WritePublic(r) ==
  /\ Goto(r, "write_public", "send")
  /\ files' = [files EXCEPT !.public = run[r].mine]
  /\ UNCHANGED <<doc, keyring, authorized, sent, trusted, history>>

Send(r) ==
  /\ With(r, "send", "await", files.public)
  /\ sent' = sent \cup {<<run[r].cmd.to, files.public>>}
  /\ UNCHANGED <<doc, keyring, files, authorized, trusted, history>>

\* The script succeeds, and installs nothing, for a key that is empty.
Installed(s) ==
  /\ authorized' = [authorized EXCEPT ![s[1]] = @ \cup ({s[2]} \cap KeyPairs)]
  /\ sent' = sent \ {s}
  /\ UNCHANGED <<doc, keyring, files, trusted, history>>

\* SSM runs the script, and reports Success in time.
Provisioned(r) == Goto(r, "await", "change") /\ Target(r) \in sent /\ Installed(Target(r))

\* SendCommand is refused, the script fails, or no answer comes in time: then
\* SSM may still run it.
NotProvisioned(r) ==
  /\ run[r].at \in {"send", "await"} /\ Goto(r, run[r].at, "idle")
  /\ sent' \in {sent, sent \ {Target(r)}}
  /\ UNCHANGED <<doc, keyring, files, authorized, trusted, history>>

RunsLate == \E s \in sent : Installed(s) /\ UNCHANGED <<run, left>>

-----------------------------------------------------------------------------

\* Ctrl+C, a closed terminal or a crash between any two steps, or a disk that
\* is full: an OSError of a write.
Kill(r) ==
  /\ run[r].at # "idle" /\ Goto(r, run[r].at, "idle")
  /\ doc' \in IF run[r].at = "loaded" THEN {doc, EmptyConfig} ELSE {doc}
  /\ undone' = undone \cup Differ(doc, doc')
  /\ torn' = Torn(r)
  /\ UNCHANGED <<keyring, ssh, stuck>>

Init ==
  /\ doc = EmptyConfig
  /\ secret = {} /\ token = {}
  /\ files = [private |-> NoPair, public |-> NoPair]
  /\ authorized = [i \in Instances |-> {}] /\ sent = {}
  /\ run = [r \in Runs |-> Prompt] /\ left = MaxCommands
  /\ trusted = {} /\ torn = {} /\ undone = {} /\ stuck = {}

Next ==
  \/ \E r \in Runs :
       \/ Begin(r) \/ SaveEdit(r) \/ CancelEdit(r) \/ Load(r) \/ NothingToClear(r) \/ Refuse(r) \/ Store(r)
       \/ SavePassword(r) \/ DeletePassword(r) \/ SaveToken(r) \/ DeleteToken(r) \/ KeyringFails(r)
       \/ CreatePrivate(r) \/ WritePrivate(r) \/ CreatePublic(r) \/ WritePublic(r)
       \/ Send(r) \/ Provisioned(r) \/ NotProvisioned(r) \/ Kill(r)
  \/ RunsLate

Spec == Init /\ [][Next]_vars

-----------------------------------------------------------------------------
(* Properties                                                              *)

\* What a connection to the server logs in with: the password the keyring has
\* for the alias and the key the entry names, whatever there is of the two.
Logins(a) == (IF a \in secret THEN {"password"} ELSE {}) \cup ({doc.servers[a].key} \ {"no_key"})

Settled(a) == a \notin torn \cup undone /\ \A r \in Runs : run[r] # Prompt /\ Half(r) => run[r].cmd.name # a

\* "A server should only carry one active credential at a time": whatever
\* set-auths and removals cross each other, a key named in set-auth is never
\* combined with a password, and no password waits in the keyring for the next
\* server of that name; except where a command stopped between the keyring and
\* the file, the keyring kept a password, or the file was set back.
CredentialsInStep == \A a \in Aliases : Settled(a) =>
  IF Known(doc, a) THEN ~({"password", "user"} \subseteq Logins(a)) ELSE a \notin secret

\* "re-running setup-keys for another server doesn't invalidate trust already
\* established": every instance reported as trusting the key accepts the
\* private key on disk, wherever earlier runs of setup-keys were cut short; but
\* for the one place, between creating and writing the public key: its empty
\* file is taken for a key from then on.
TrustKept == files.public # TornKey => \A i \in trusted : files.private \in authorized[i]

\* Every stored token is listed by `git hosts`, and `git credential` knows what
\* its host runs: the entry comes before the token and goes after it, so this
\* holds wherever login and logout stop, unless the file was set back or the
\* keyring refused to delete the token, which a logout does not notice.
TokensListed == \A n \in token \ (undone \cup stuck) : doc.tables["git_hosts"][n] # NoEntry

\* "re-running `server add` ... must not silently drop" hooks: a server's hooks
\* change by a hook command for that server or with its removal, whatever else
\* is written at the same time, unless the file was set back.
HooksKept == [][\A a \in Aliases \ undone' :
  Known(doc, a) /\ Known(doc', a) /\ doc'.servers[a].hooks # doc.servers[a].hooks =>
    \E r \in Runs : /\ run[r].at = "loaded" /\ run[r].cmd.name = a
                    /\ run[r].cmd.do \in {"add_hook", "clear_hooks", "edit_hooks"}]_vars
=============================================================================
