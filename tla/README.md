# Verification of benchops

benchops is a command line with which developers deploy a Frappe app from their machine to a shared
staging server, clone repositories, restore backups, and open shells, logs and tunnels. This directory
holds TLA+ models of its core, the TLC configurations that check them, and TLAPS proofs. Paths below are
relative to `src/src/benchops/` unless they start with `src/`.

`tlc -config <Run>.cfg <Module>` repeats a run of the tables below; `tlapm <Module>.tla` checks the proofs.

## 1. The system

| Component | State it keeps | Operations | What is hard about it | Correct when |
|---|---|---|---|---|
| Deploy engine on the server (`remote_agent.py`: `plan`, `cmd_preview`, `cmd_apply`) | the app's git checkout (HEAD, working tree, index), `.git/benchops/ledger.json` (who deployed which uncommitted content: the *drafts*), `deploy.json`, refs under `refs/benchops/` | classify a staged commit against the checkout; write it; move HEAD; restage or absorb drafts; ship the build | ledger, index, disk and HEAD are updated separately; people edit the same files in between; the process can die at any command | confirmed = applied; no uncommitted work and no commit lost; drafts stay staged and owned; a torn apply can be finished |
| Deploy lock (`remote_agent.py`: `cmd_inspect`, `check_lock`, `cmd_release`) | `lock.json`, `lock.json.tmp`, `incoming/`, `INCOMING_REF` | take, break, check, release | commands of several runs interleave file operation by file operation; calls are lost; clients are killed | mutual exclusion; a run never removes another's lock or package; the lock is freed |
| Deploy and sync client (`deploy.py`) | one run: token, package, shown plan | inspect, upload, preview, ask, apply, release | time passes between plan and answer | always releases; applies only what was confirmed |
| SSM shell channel (`ssm_shell.py`) | one terminal session, output buffer, Ctrl+C flags | open, run, capture, put, close | a terminal with out-of-band signals; KeyboardInterrupt at any bytecode; the session may end | a SIGINT reaches only the command it was meant for; every call is answered |
| SSM sessions and tunnel (`ssm.py`) | plugin process, session, log file | start, wait until ready, close | deadline races; interrupted start | nothing is left running |
| Other runners (`runner.py`, `execute.py`, `logs.py`, `check.py`) | a connection | run, capture, put, close | connections drop while the command runs on | errors are reported, connections closed |
| Clone (`clone.py`, `vcs/`) | clone lock, run record, worker pool, running git processes | check, clone, update, retry, stop | threads, Ctrl+C, a stale lock taken over | no half clone is left or reported as done |
| Restore and backups (`restore.py`, `backups.py`) | working directory, site, S3 | download, safety backup, new site, restore, hooks, cleanup | one of several steps fails, or goes on when the client is gone | what is replaced is saved; what is said is true; cleaned up whatever fails; never hangs over its own connection |
| Configuration and credentials (`config.py`, `auth.py`, `awscreds.py`, `vcs/credentials.py`, the commands of `cli.py` that change them) | `config.toml`, the keyring, a key pair, the keys instances accept | add, change, remove; set-auth; setup-keys; login, logout; hooks | read-modify-write without a lock; several stores changed in turn; an answer after the deadline | one active credential; trust stays; every token is listed |
| Claude Code permissions and skill (`claude_permissions.py`, `skill.py`) | the skill, the settings file, its backup and a record of the rules added | install, uninstall | files written in turn, edited by hand at any time | uninstall removes what install added and nothing else |
| Version check, build, assets, status, command line | caches, none | read, run, print | little | plain unit tests reach them |

How they interact. `DeployCommand.execute` (`deploy.py:416-588`) takes a staged commit from the developer's
index, connects a runner, and sends the text of `remote_agent.py` to the server once per command: `inspect`
(takes the lock), the upload of a package, `preview` (fetches the package and computes the plan), the
prompt, `apply`, and in a `finally` clause `release`. The commands share state only through files on the
server. Runs of several developers and people who work in the checkout interleave with all of it.
`RestoreCommand` runs its steps one at a time over the same kind of runner, on a server or on the local bench.
The commands of one developer share the configuration and the keyring on the machine, from any number of terminals.

PROJECT.json lists every component with its status, and every hazard with the line where it bites and the
properties that would catch it; a hazard without a property has a note.

## 2. Modules

```
Overlay ──────── StagingServer ── MCStagingServer      OverlayProofs ── StagingServerProofs
   ├──────────── AtomicApply (abstract)
   └──────────── ApplySteps  ──── MCApplySteps            └─────────── ApplyStepsProofs
                                                       (ApplySteps implements AtomicApply)
DeployLock ───── MCDeployLock                          DeployLockProofs
SsmShell ─────── MCSsmShell                            SessionProofs
SsmSession ───── Restore ── MCRestore                    and for this (Restore runs over a SsmSession)
CloneLock ────── MCCloneLock                           CloneProofs
CloneRun ─────── MCCloneRun                              and for this
ClientStores ─── MCClientStores                        ClientStoresProofs
ClaudeSkill ──── MCClaudeSkill                         ClaudeSkillProofs
```

Every module of a component has one type invariant, `TypeOK` (`LinkTypeOK` in SsmSession, `LockTypeOK` in CloneLock,
`ShellTypeOK` in SsmShell); the abstract AtomicApply takes its checkout from whatever refines it and has none. The proofs
establish them all; adding one to a configuration shows it on an instance. CloneLock and SsmShell also prefix `Init`, `Next`
and `Spec`, so that one module can prove facts about two.

### Overlay: what a deploy computes
Operators on two records: a server checkout `[head, disk, index, ledger]` and a request (staged tree, base
commit, developer, label, staged paths). `StatusCode` is one line of `git status --porcelain` as
`dirty_paths` reads it; `DeploySet`, `CodePaths`, `OutputPaths`, `Overlaps`, `Takeover`, `Absorbed`,
`Relabel`, `Pending` and `UpToDate` are `plan`; `Fingerprint` is the digest the confirmation is tied to;
`Recorded`, `NowCommitted`, `RestagedIndex` and `Applied` are what `cmd_apply` leaves, `Verified` its last
check. Contents are members of a small set: the code only compares blobs. The fingerprint hash is taken
as injective.

### StagingServer: runs of deploy and sync
One agent command is one step. Each run goes new -> inspected -> previewed -> closing -> done (or gone when
its client is killed); `Inspect`, `InspectLocked`, `Preview`, `PreviewLost`, `Apply`, `ApplyRefused`,
`Release`, `GiveUp` and `Vanish` are the calls with their outcomes, `BuildPlan` the client's decision
whether to ship the build. `ByHand` are people on the server: they edit, `git add`, `git reset`, commit and
pull between any two commands. `ever` is a history variable.

### ApplySteps and AtomicApply: inside one apply
`preview` and `apply` opened up: each git command and file written is an action, and the agent may die
between any two (`Crash`). `git checkout` writes file by file and the index last, as git does. The lock is
taken for granted (one run at a time), people edit while the plan is shown and in the steps of `Windows`.
`AtomicApply` is the abstract promise: an apply goes from one checkout to `Applied` of it in one step, or,
torn, to one between the two in which HEAD moves only after all files, and the ledger only after HEAD. The
refinement maps the checkout to the one the plan classified while an apply runs, and to the real one otherwise
(property `AppliesAtomically`).

### DeployLock: the lock, file by file
Every agent command is a process; `lock` is `lock.json`, which exists before its text is written
(`os.open` with `O_EXCL`, then `write`), `tmp` the `lock.json.tmp` of `--break-lock`, `dir` and `ref` the
shared incoming state. The client may lose a call while the command runs on (`Lose`: `finally` then
reconnects and releases), may be killed, and a command may die anywhere (`Die`). In every run the release may die between any two
of its steps or never reach the server (`DieReleasing`), and its answer may be lost (`LoseRelease`): the client then ends "warned",
having printed that it could not release the lock. What apply does to the checkout is one step here.

### SsmShell: commands over a terminal
`client` is where the runner is in `_start`/`_wait`/`_run`/`_finish`, `wire` what it typed that has not
arrived, `tty` the terminal's input queue, `shell` the remote helper, `out` the output the client has not
consumed. Ctrl+C may be pressed at any moment (`PressWaiting`, `PressAgain`, `PressLoses`: between deleting a
match from the buffer and returning it). A SIGINT flushes the terminal's queue and ends a payload being
received (`X`) or the running command (`E`), which may also ignore it. The nonce is the command's number.

### CloneLock: one clone at a time
`CloneLock.__enter__` and `__exit__`, file operation by file operation: `Create` (O_EXCL), `Write`, `Exists`, `Read`,
`Probe` (is there a process of the number that was read), `TakeOver` (unlink whatever is there), `Leave` and `Unlink`. Any
run in `Killed` may die anywhere; only those in `Probing` can tell that a lock's process is gone (same host, not Windows),
be it killed or through. `robbed` is history: the runs whose file was removed by one that had read another's.

### CloneRun: the worker pool
One execution of `benchops clone` at a time (`CloneLock` says why), repeated. `main` is the stage of the main
thread: planned, submitting, collecting, and the handlers of `KeyboardInterrupt` in `_run`; `step`, `cmd`, `tries`
and `git` are each repository's worker, the git commands it has left, its attempts and its git process. A git
command is started, registered and waited for in three steps, and a clone is written to `tmp`, whole only when git
ended well, and renamed. `Appear` are other programs that create folders, `Kill` a killed process.

### SsmSession: reaching a bench and letting go of it
`link` is where the client is in `SsmTunnel.open`/`close` or `SsmShellRunner.open`/`close`; `session`, `plugin` and `log`
are what they hold. The order of the checks is the code's: the tunnel makes its log (`MakeLog`), launches the plugin, looks at the clock,
then for the announcement, then at the process (`Opens`, `GivesUp`). The plugin may announce itself, die, or do neither until the deadline
passes; Ctrl+C may come at any point, and only the shell's `open` closes on it. What `open` and `close` do not clean up after are actions
of their own (`NotClosed`): AWS starts a session and its answer is lost (`Unheard`), `mkstemp` fails outside the `try` (`NoLog`), and the plugin is
still there five seconds after its kill, so that `end_session` ends in a `TimeoutExpired` (`Hangs`; `Hung` where a shell is given up). `stopped`
remembers which, and where Ctrl+C came, and `LinkGone` says for each of plugin, session and log what may have left it. Direct
SSH and the local bench hold nothing. `Client` are the client's own steps, `Environment` the plugin and the clock.

### Restore: one restore from beginning to end
EXTENDS SsmSession, and composes it: the steps of `_restore` run while the link is open, `Leave` and `Left` are the
context manager that closes it. `stage` is the step the client waits for; `Works` and `Breaks` say what a step does to the
site, the safety backup and the work dir when it goes well or fails on the way; `After` and `AfterFailure` say what comes
next, the latter being `finally: target.cleanup`; the answer of `mktemp` that `make_workdir` refuses is `NameRefused`, before that
`try`. `LinkError` is what `open` and `close` do not clean up after. A part of the site, and of the download, has one of a few contents:
the databases and archives themselves do not matter. `Arrives` is curl, which goes through all URLs and reports the last,
or boto3; `Verified` is `_check_sizes` and the gzip test. A step may outlive its wait (`stray`: `Lost`, `AbandonStep`),
which kinds of connection allow after which Ctrl+C is in `InterruptStep`, `AbandonStep` and `InterruptCleanUp`. `OthersChange`
are people who create, drop or write to the site.

### ClientStores: what the developer's machine keeps
`doc` is `config.toml`, read whole (`Load`) and written whole (`Store`) by every command that changes it; `secret` and
`token` are the keyring, `files` the key pair, `authorized` what instances accept, `sent` what SSM has taken and not
run. A command is a record in `Commands[r]`, its steps are `at`: `First` and `After` hold the order of stores, e.g. the password
before the file in `set-auth` password, after it in `set-auth` key. `Kill` ends a command between any two
steps, be it Ctrl+C or a full disk, and in the write leaves an empty file: of `config.toml`, or, as the two halves of the key pair
are created (`CreatePrivate`, `CreatePublic`) before they are written, of a key (`TornKey`). A keyring that refuses to delete is not
told from one that has nothing to delete (`DeletePassword`, `DeleteToken`; `stuck` are the tokens that stay). `torn` and `undone` are history: whose credentials a command left half
changed, and what an overlapping or torn write has set back.

### ClaudeSkill: skill and permission rules
`ReadRules`, `CopySettings`, `WriteSettings`, `WriteRecord` are `_apply`; `Drop`, `NewRules` and `NowOwned` what it computes;
`Begin` and `WriteSkill` are `skill.install`/`uninstall` with `_refusal`. The developer writes and deletes rules, breaks and mends
the file, edits, links or removes the skill, damages the record (`LoseRecord`) and upgrades benchops between any two steps; `hers` is
history: the rules she wrote.

### Proof modules
`OverlayProofs` (facts about every checkout and request) and on it `StagingServerProofs` and `ApplyStepsProofs`;
`DeployLockProofs`; `CloneProofs` (CloneLock and CloneRun); `SessionProofs` (SsmShell and Restore); `ClientStoresProofs`;
`ClaudeSkillProofs`: section 6.

## 3. Runs

All runs pass; together they fire every action. Each property has a mutant of the code in PROJECT.json that breaks it.

| Run | Instance | Shows |
|---|---|---|
| StagingDrafts | two runs of two developers, one with `--break-lock`; one file that people also edit, `git add`, `git reset`, commit and pull | the plan confirmed is what is applied (`AppliedAsConfirmed`); uncommitted work survives (`NothingLost`); others' drafts survive (`OthersDraftsKept`); the holder finds its own incoming commit (`HolderOwnsIncoming`) |
| StagingMixed | a source file, an ignored file that is committed later, a tracked build output; forked history, a branch and a detached HEAD, `--force`, the snapshot layout of an old release | drafts read as staged (`DraftsReadAsStaged`), the rest is untouched (`RestReadsTheSame`), a repeated deploy is idle (`RedeployHasNothingToDo`), the record names the build on disk (`RecordedBuildIsServed`), no commit becomes unreachable (`CommitsKept`) |
| ApplyWork | two source files; apply dies between any two commands; people edit between applies, while refs move, while the ledger is written and while the build is shipped | uncommitted work survives or has a backup (`WorkKept`); deploying again finishes a torn apply (`RetryRecovers`) |
| ApplyRefs | two source files and a tracked output; forked history, two branches, a sync of a detached HEAD; apply dies anywhere | `CommitsKept` between the steps; an apply, torn or not, implements the abstract one (`AppliesAtomically`) |
| LockFaults | three runs: one loses calls and is killed, one breaks the lock, two have commands that die | one run at a time works on the server (`OneAtATime`, for runs that lose no call); no run removes another's lock (`OnlyOwnLockRemoved`) |
| LockPair | two runs, the client of one may be killed; fair | a refused run leaves the holder's package alone (`IncomingIsHolders`); nothing is left when both are through (`NothingLeft`); the lock is freed, or its client was killed or has warned that it could not release it (`LockFreed`) |
| ShellCtrlC | three commands, three presses of Ctrl+C at any moment; a command that ignores it, one without room for a temporary file, one whose marker is lost, dropped sessions; fair | no payload is cut (`PayloadNeverCut`); no SIGINT hits the next command (`InterruptsOwnCommand`); an interrupted command is never reported as having gone well (`InterruptIsReported`); Ctrl+C ends a command that would run for ever (`InterruptEnds`); every call is answered (`CallAnswered`) |
| CloneLocks | three runs into one directory, each of which takes over locks; two may be killed, one cannot write its lock file | two runs clone at a time only if one was robbed of its lock (`OneWriter`); no lock is left but that of a run that died or could not write it (`NothingLeft`) |
| CloneWork | two repositories, two threads, one retry; executions follow each other with `--retry-failed`, `--only`, `--update`; Ctrl+C twice while it collects results, kills, folders that appear at any time | a target never holds half a clone, and what is reported cloned is there, with its helper (`WholeClones`); a folder with something in it is never replaced (`FoldersKept`); what is left to do is on record, or the command says that it is not (`RecordTells`); nothing is at work once the lock is free (`LockCoversWork`) |
| ClientFiles | six commands in two terminals on one server of two instances, one git host, project and hook: one sets up (add, setup-keys, a key, login, logout), the other changes (a password, removal, hooks, local hooks, projects) | a password and a key named in `set-auth` are never combined, and none waits for the next server of the name (`CredentialsInStep`); an instance reported as trusting the key does, unless a public key was left empty (`TrustKept`); every token the keyring did not refuse to delete is listed (`TokensListed`); hooks change by hook commands only (`HooksKept`) |
| RestoreSite | four kinds of connection, three backups of which one has no dump, every step failing part of the way, Ctrl+C and lost connections anywhere, steps that go on, two changes by others; fair | what the developer is told is so (`TellsTruth`); nothing is replaced that is not in the safety backup (`ReplacedIsSaved`); downloads, plugin, session and log are gone, but for what named interruptions and errors leave of each (`NothingLeft`); the command never hangs over its own connection: it ends, or waits for the prompt or for one step of a target it is connected to (`CommandEnds`) |
| ClaudeRules | two versions of benchops with three rules between them, three edits by the developer at any moment, stops anywhere | her rules and her skill stay (`DevelopersWorkKept`) or are in the backup (`LostIsInBackup`); of benchops' rules only those wanted are left (`OnlyWantedLeft`) |

### Bounds, and why they are enough
* StagingServer: two runs, one file in StagingDrafts, because every property is
  about one file at a time and files interact only through HEAD, the up-to-date test and the fingerprint;
  StagingMixed has one of each kind of file for that. Two contents and Absent tell "as in HEAD", "as
  deployed" and "something else" apart. People's commits are limited to the commits of the instance.
* ApplySteps: applies follow each other without end; states are finite because contents and commits are. A
  content only people write (`hand`) makes their work recognisable.
* DeployLock: each run goes through its life once. The late release needs three runs (one that
  held, one refused, one that takes the lock next), and no known hazard needs more; the exclusion theorems hold
  for any number. Three runs are in LockFaults; the late release itself is in section 4.
* SsmShell: `MaxCommands` 3, `MaxPresses` 3: two presses give up one command, a third reaches the next
  one, and what a command leaves behind can only reach the next one.
* CloneLock: a take-over race needs a run that is over and two live ones; with two runs there is none (`TwoClonesExclude`). CloneRun: repositories meet in the pool, the
  host's slots, Ctrl+C and the record, and two are enough to have one queued or running while the other ends;
  one retry stands for two.
* ClientStores: `MaxCommands` 6 is add, set up or log in, a second command that is cut short, its repetition, and two that
  cross it; two terminals, as a lost update needs two. One alias is enough, since aliases meet only in the whole file, which
  the hooks, tables and local hooks stand for; two instances and two key pairs are what `TrustKept` compares. Instances and key
  pairs are symmetric. `MaxHooks` 1 tells no hook from a hook. `local clear-hooks` and a setting of an existing entry are not among
  the commands run: they write what an edit to an empty list and a removal and addition write.
* Restore: three stamps are a complete backup, a newer one of only the database and a newest without a dump; two archives tell
  "every" from "some". `MaxOthers` 2: one change before and one after the step that looks.
* ClaudeSkill: three rules, one in both versions, one in the old only and one in none; `MaxEdits` 3 is a rule deleted and
  written again, with an upgrade or a broken file. The kinds of rules do not meet in the code.

### Fairness
* StagingServer, ApplySteps, CloneLock, CloneRun, ClientStores and ClaudeSkill have none: they state safety only.
* DeployLock (`FairSpec`): the server's kernel runs processes it has started until they end or die; a living client reads their
  answers, or notices that its connection is gone, and goes on. A killed client stops, and nobody has to break a lock. That a
  release succeeds is not assumed: one that dies or is lost ends its client with the warning.
* SsmShell (`FairSpec`): the terminal, the wire, the shell and the runner's loop make progress; a *command need
  not end*, so `InterruptEnds` rests on Ctrl+C alone, and nobody has to press it.
* Restore: benchops' own steps go on (opening and closing, whose waits all have a timeout, and noticing that the plugin has died), and the
  clock of the readiness deadline ticks. No step on the target is assumed to end, and no lost connection to be noticed
  while the plugin, or the SSH server, seems to live: `run` and `capture` have no timeout (`runner.py:142`, `:273`, `ssm_shell.py:365`).
  Nobody has to answer the prompt or press Ctrl+C, and the plugin need never say anything: that opening ends rests on the deadline.

Deadlock is checked in the ApplySteps runs and in CloneWork, where another deploy or clone may always start. In the others every run of
the program ends after finitely many steps, so the system may stop.

## 4. What the code does not promise
The models show where the code does less than its comments or documentation say, and what it does not promise. Each of the
following is one change to a configuration above, after which TLC prints the behaviour. The first seven contradict a line of the repository:

| Code | What happens | What the repository says | How to see it |
|---|---|---|---|
| `remote_agent.py:648` | an apply that dies between two build outputs leaves a mix; the record still names the old build, a deploy of which ships nothing | `build.py:9`: "the HTML and the hashed assets it references always come from the same build" | ApplyWork with `Units = {u1, u2}`, `Requests <- BuildRequests`, `HandFiles = {f}`, `Windows = {}` and the invariant `OutputsFromOneBuild` |
| `remote_agent.py:711` | the release of a refused run reads "no lock", then wipes the package of the run that took it since; so does that of a run whose inspect died before it took the lock | `remote_agent.py:705`: "a deploy that was refused (or whose lock was broken) must leave it alone" | LockPair with `SPECIFICATION Spec`, `Runs = {A, B, C}`, `Killed = {}` and only the invariant `IncomingIsHolders`; or with `Mortal = {A}` |
| `clone.py:199`, `:201` | a run reads the lock of another, which then ends; a third takes the lock; the first finds no process, removes the lock of the third, and both clone. Nobody need be killed | `src/README.md:443`: "A lock file stops two `benchops clone` runs from writing into the same directory at once" | CloneLocks with `Probing = {B}`, `Killed = {}`, `Full = {}` and `OneWriter` without `robbed` |
| `deploy.py:587` | a release that fails, dies or is lost leaves the lock; the client only warns | `src/README.md:191`: "The lock is always released" | LockPair with only the property `LockFreed`, without "warned" |
| `auth.py:91`, `:75` | setup-keys cut short between creating and writing the public key leaves an empty file, which the next setup-keys takes for a key: it installs nothing and reports trust | `cli.py:467`: "SSH trust established for" the server | ClientFiles with `TrustKept` without its premise |
| `cli.py:466` | setup-keys names its key and leaves the password in the keyring: SSH is offered both | `cli.py:352`: "A server should only carry one active credential at a time" | ClientFiles with `CredentialsInStep` stated for `"own"` as for `"user"` |
| `claude_permissions.py:174` | a rule of benchops that the developer deletes and writes again is removed by an uninstall | `claude_permissions.py:16`: "Rules a developer wrote are never changed or removed, even when they are identical to one of ours" | ClaudeRules with `DevelopersWorkKept` without `again` |

And further:

| Code | What happens | How to see it |
|---|---|---|
| `remote_agent.py:261` | a staged file equal to the server's HEAD drops out of the deploy, and a hand edit stays in its place | StagingDrafts with `Requests <- RevertRequests` and the property `StagedFilesArrive` |
| `remote_agent.py:621` | a staged file equal to the server's HEAD gets no draft | StagingDrafts with `Requests <- RevertRequests` and the property `StagedFilesBecomeDrafts` |
| `remote_agent.py:421` | the drafts an apply absorbs need not be the ones its plan announced | StagingDrafts with the property `AbsorbedAsConfirmed` |
| `remote_agent.py:507` | an overlap that has vanished from disk cannot be backed up: every deploy of it fails | StagingDrafts with `Tree <- NewTree`, `Requests <- NewRequests`, `Breakers = {}` and the invariant `OverlapsCanBeBackedUp` |
| `remote_agent.py:447`, `:642` | an apply that dies after moving HEAD and before the ledger is "up to date" when repeated, its drafts never recorded | ApplyWork with `HandFiles = {}`, `Windows = {}` and the invariant `UpToDateIsRecorded` |
| `remote_agent.py:496` | an edit saved while `preview` runs is in the fingerprint but not in the plan: overwritten without a backup | ApplyWork with `HandFiles = {f}` and `Windows = {"preview"}` |
| `remote_agent.py:714` | a lock broken while its holder releases is removed by the old holder | LockPair with `SPECIFICATION Spec`, `Breakers = {B}`, `Careful = FALSE`, `Killed = {}` and the property `OnlyOwnLockRemoved` |
| `deploy.py:586` | a client that lost a call releases the lock under its own running command | LockFaults with `OneAtATime` stated over all of `Runs` |
| `deploy.py:586` | an inspect whose call was lost takes the lock after its client has released: it stays, and nobody was warned | LockPair with `Droppers = {A}` and only the property `LockFreed`, stated over all of `Runs` |
| `remote_agent.py:347` | an inspect that dies before it has written `lock.json` leaves a lock nobody can read, its own release included | LockPair with `Killed = {}`, `Mortal = {A}` and the invariant `(\A r \in Runs : client[r] \in {"done", "warned"}) => ~Unreadable` |
| `ssm_shell.py:66` | without room for a temporary file the helper prints no marker, and the runner waits for ever | ShellCtrlC with `NoTemp = {1, 2, 3}`, `Lossy = {}`, `Drops = FALSE` and the property `EveryCallAnswered` |
| `ssm_shell.py:283` | Ctrl+C between consuming a marker and returning it: the wait starts over for a marker that is gone | ShellCtrlC with `InterruptEnds` stated over the commands in `Lossy` |
| `clone.py:451` | git started before it is registered is not reached by `_stop_running`, if only benchops was signalled | CloneWork with the invariant `CtrlCStopsGit` |
| `clone.py:638` | the helpers are reset and the second `git config` fails: the clone stays without a helper, and the next run skips it | CloneWork with the invariant `HelpersSet` |
| `clone.py:439` | a run with `--only` replaces the record: other failures are forgotten | CloneWork with the property `FailuresRemembered` |
| `clone.py:729` | Ctrl+C before all futures are submitted: no handler of `_run` is active, and what was not cloned gets no outcome and is not on record | CloneWork with `PressAt` also holding "submitting" |
| `clone.py:747` | a third Ctrl+C leaves the wait in `finally`: the lock is released while threads work | CloneWork with `PressAt` also holding "unwinding" and `MaxPresses = 3` |
| `config.py:88` | a command's change of the file is undone by another that read it before, or the file is left empty by one killed in the write | ClientFiles with the invariant `undone = {}` |
| `cli.py:648` | a hook added while `edit-hooks` is open is overwritten when it saves | ClientFiles with `HooksKept` also asking that a hook added stays |
| `cli.py:410` | a removal that stops before the keyring leaves a password for the next server of that name | ClientFiles with `CredentialsInStep` without `torn` |
| `credentials.py:58`, `auth.py:57` | a keyring that refuses to delete is taken for one with nothing to delete: a logout says "Forgot the token", and it is there | ClientFiles with `TokensListed` without `stuck` |
| `cli.py:993` | a login that stops before the keyring leaves a host without a token, which `git hosts` shows as missing | ClientFiles with equality in `TokensListed` |
| `cli.py:993` | a logout in one terminal between the two steps of a login in another leaves a token whose host is not listed | ClientFiles with `Commands <- BothSetUp` and only the invariant `TokensListed` |
| `auth.py:76` | two terminals that run setup-keys at once make a key pair each; the later overwrites the one an instance was just told to trust | ClientFiles with `Commands <- BothSetUp` and only the invariant `TrustKept` |
| `restore.py:483` | Ctrl+C in the cleanup, or a `mktemp` whose answer is lost, leaves downloads or presigned URLs unmentioned | RestoreSite with the invariant `stage = "done" => ~work.dir \/ byhand` |
| `restore.py:484` | after a lost connection the cleanup removes the files that a restore on the server is still reading | RestoreSite with the invariant `~(stray = "restore" /\ ~work.dir)` |
| `restore.py:443` | what others write after the safety backup is lost | RestoreSite with `ReplacedIsSaved` without `since` |
| `restore.py:174` | `mktemp` prints something besides the name, as a login shell's banner would: the restore ends with "Nothing was changed", and the directory stays | RestoreSite with the invariant `stage = "done" /\ told = "failed" => ~work.dir \/ byhand` |
| `runner.py:142`, `:273` | a step that never answers is waited for without end, the cleanup too | RestoreSite with the property `stage # "ask" ~> stage \in {"ask", "done"}` |
| `ssm.py:236` | Ctrl+C while the tunnel gets ready leaves session, plugin and log file | RestoreSite with the invariant `link = "closed" /\ plugin = "running" => stopped \cap {"started", "logged", "closing"} # {}` |
| `ssm.py:223` | `mkstemp` fails after the session was started: it stays active | RestoreSite with `SessionLeft` without "no log" |
| `ssm.py:176` | a plugin that is not gone five seconds after its kill: neither the session nor the log file is removed | RestoreSite with `SessionLeft`, or `LogLeft`, without "hung" |
| `ssm.py:151` | AWS has started the session, and its answer is lost or Ctrl+C comes before it: nobody ends the session | RestoreSite with `SessionLeft` without "unheard", or without "new" |
| `claude_permissions.py:188` | a command stopped between settings and record, or a record that cannot be read (112), leaves rules that no uninstall removes | ClaudeRules with `OnlyWantedLeft` without `unrecorded` |

`Breakers` with `Careful = TRUE` break a lock only when its holder's commands are over, as the prompt tells
the developer to do; with `FALSE`, at any time.

## 5. What the models leave out
* `StagingServer` runs an agent command in one step; `ApplySteps` and `DeployLock` say what happens inside.
  Nobody rebuilds on the server by hand, and the list of build outputs is the same for every request.
* An old ledger format (`load_ledger`, 284-306) is not converted, so that no draft has a deployer (`name@host`) for its
  owner and `Mine` only compares e-mail addresses (`is_mine`, 309). An old snapshot layout is an initial state; its snapshot
  commit is not in `ever`, so `CommitsKept` does not speak of it: `inspect` (364) moves HEAD off it without a ref, and what is
  in it stays on disk.
* `INCOMING_REF` is never missing under a held lock in `StagingServer` (`HolderOwnsIncoming`); `DeployLock` has
  the case.
* Backup refs carry the time to the second: two in one second are taken to be distinct.
* An ignored file that git does not track is no change for git, so `NothingLost` excepts it.
* `git checkout` killed half way leaves `index.lock`, which somebody must remove: `ApplySteps` goes on as if
  that had been done. Three pairs of steps are one in it: `git rm --cached` of the deleted files and `git reset` of the outputs
  (`IndexRest`), the hashes, `git add` and `git rm --cached` of `stage_drafts` (`StageDrafts`), and removing an output and renaming
  the new one into its place (`ReplaceOutput`); a death between
  them leaves entries half updated, or an output missing, where the models have them as before or after. Edits between the fingerprint check and the checkout (lines 576 to 592) are overwritten:
  no program could promise otherwise, and people edit in other steps only.
* `lock.json.tmp` is written in one step; `deploy.json`'s manifests, the exclude block and `status` have no
  part in the properties.
* `SsmShell` starts with a session that is ready (`_bootstrap`), and looks at markers, not at the bytes
  between them.
* `CloneLock`: a lock whose process id is in use again is not taken over, as one whose run is on its way out (`Probe`
  may always refuse). A run on another host, or on Windows, is one outside `Probing`.
* `CloneRun`: what the hosts answer is any answer; two repositories of one folder are refused by `_preflight` and
  do not meet in the pool; all repositories share one host. Ctrl+C may or may not reach the git processes, which
  run in benchops' process group. The temporary folder of a killed run stays, under a name nobody uses again. A record that cannot
  be saved, or is cut by a kill, is the old one or none (`SaveFails`, `Kill`).
* `SsmSession`: the listing of instances and the wording of errors. What the plugin prints is one announcement; a session it
  cannot end is left to AWS's idle timeout (`orphan`). A thread that cannot be started, and what paramiko raises that is neither an
  `SSHException` nor an `OSError`, are left out.
* `Restore`: the prompt for the database's root password is the confirmation's; free disk space only warns. Names, sizes and
  presigned URLs of files are abstracted to a file being whole, cut or corrupt; an archive that is corrupt and of the right size
  cannot be told. A backup two of whose files claim to be the same part has only the first (`group_backups`).
* `ClientStores`: a command is refused or not by what the file says when it checks; prompts come before its first step. An
  unreadable keyring is a step that fails. The token a host has been given in the environment is in no store. A project or a
  backup source is one value. Removing a server leaves its public key on the instance, as the code does.
* `ClaudeSkill`: the three kinds of rules are one set, the other settings are kept by the code and left out; the record is per
  settings file, and there is one. The skill's text is its version and whether it was edited.
* Not modelled: `version.py` (a cache, fetched again when lost), `build.py` and `assets.py` (one build command and a check of
  HTML files), `status.py` (reads only), `vcs/providers.py`, `vcs/remotes.py`, `projects.py` (requests and parsing, sequential; their
  answers are inputs of `CloneRun`), `awscreds.py` (turns profiles into sessions). They keep no state between steps that a
  second actor or a failure could bring out of step; unit tests reach them.

## 6. Proofs
Every invariant and every action property the runs check is also a theorem of its specification, proved by TLAPS for
every value of the constants: any number of runs, files, commits, commands, presses of Ctrl+C, repositories, threads,
terminals, backups and changes by others. The assumptions on the constants are the named `ASSUME`s of the modules: sets of
names are disjoint, histories are transitive, trees are functions, sets of repositories and of backups are finite. What
else a theorem needs is its hypothesis, given below; section 4 has a behaviour that shows it is needed, where the code
says less than the theorem would without it.

*Overlay, for every checkout and request.* `ReplacesOnlyKnownContent`, `OthersDraftSurvives`,
`DraftsStayStaged`, `RestIsUntouched`, `VerificationPasses` (restaging and absorbing never undo a write),
`RedeployIsUpToDate`. Two lemmas carry the confirmation: `SameFingerprint` (equal fingerprints mean equal
heads, files and statuses of all written files) and `SameOverlaps` (with the ledger unchanged, equal
fingerprints mean equal overlaps).

*StagingServer.* The inductive invariant is `Inv == TypeOK /\ HolderOwnsIncoming /\ PlanFromThisLedger`.
`HolderOwnsIncoming` is needed because `apply` works from the shared `INCOMING_REF`, not from the request
it is called with; `PlanFromThisLedger` because the ledger is not in the fingerprint: only the holder of the
lock writes it, so the plan the holder shows was made with the ledger as it still is. From `Inv` and the
two lemmas follow `ConfirmedIsApplied`, and from it and the facts about `Overlay` the theorems
`NothingIsLost`, `OthersDraftsSurvive`, `DraftsAreStaged`, `RestIsKept` and `RedeployIsIdle`. `CommitsAreKept` has the
stronger invariant `ReachInv`, which adds that the record of an old layout names an ancestor whose commit
is still reachable; `BuildIsRecorded` has `BuildInv`, which adds that what a run intends to record is what
will be on disk, or what is there, as long as it holds the lock.

*ApplySteps.* `StepsTypes`. The refinement `ApplyIsAtomic` rests on `Progress`: it says at each step which files are written
and which index entries, where HEAD is and what the ledger holds, each as a part of `Applied` of the checkout that was
planned. A step then maps to a stutter, the last one to the abstract `Apply`, and a crash to `Torn`. Hypothesis: nobody edits
while the apply runs (`Windows \cap Applying = {}`), since the abstract apply has no other writer. `HistoryIsKept` (`CommitsKept`, no
hypothesis) has `ReachInv`: before HEAD or a branch moves off a commit, that commit is kept by a ref or contained in the new base
(`Spare`). `WorkIsKept` has `WorkInv`: work in a file of the deploy is an overlap in the plan apply goes by, because no ledger
has it as a draft, and is saved before the first write. Its hypotheses are that nobody edits between plan and fingerprint nor from
the check to the last write (section 4, `:496`; section 5), and that no hand-edited file is ignored. `RepeatedDeployRecovers` has
`RetryInv`: HEAD moves last, so what an earlier attempt began and is not in place is still in the next one's deploy set.

*DeployLock.* `LockTypes`; `OthersLocksAreKept`: without `--break-lock`, no run removes another's lock, whatever is lost or
dies, since what a release read is still so (`OwnLockSeen`); `LockExcludes`: commands of runs that lose no call exclude each
other, since one that works on shared state still has its lock and no release of its own is on the way (`LockedWork`).
If in addition no call is lost, `HolderState` says that `incoming/` and `INCOMING_REF` are there only under the lock of the run they
belong to, and go before it. From it: `OnlyTheWarnedLeaveALock` (a run that ended without a warning has left no lock, written or empty, whatever died),
`ReleaseIsComplete` (if all did, the server has nothing of theirs), and `OnlyBlindReleasesHarm`: a holder's package stays its own in
every behaviour in which no run takes the lock while a release that found none is under way (`Undisturbed`). For two runs of which
no inspect, preview or apply dies that is always so, which is `PairKeepsIncoming`; for three, section 4 (`:711`) has the counterexample.

*SsmShell.* `ShellInv` says, for each place the client can be, what can be in the wire, in the terminal's queue and in the shell
(`Channel`): e.g. that while the payload is on its way only a Ctrl+C for the command before can be ahead of it, and that a
SIGINT that was sent finds the shell in that command or idle. `Output` ties the marks that were printed to that, `Reports` the
presses to what the caller is told. From it `PayloadsArriveWhole`, `SignalsHitTheirCommand`, `ReportsAreTrue` and
`ShellStaysInStep`, without hypotheses.

*CloneLock.* `CloneLockTypes`; `CloneLockExcludes` (`OneWriter`, no hypothesis) has `LockInv`: a run between creating the file
and leaving owns it or was robbed of it, and a run about to remove a file has read that of a run that is over.
`TwoClonesExclude` says that nobody is robbed, and no two clone at once, with two runs, or if none takes over: a run has never
read its own file (`PairInv`). Section 4 (`clone.py:199`) shows that three runs are enough to break that. `CloneLockGoes`
(`NothingLeft`, no hypothesis) has `FileInv`: whose file is there is writing it, at work under it, dead, or could not write it,
also when takers remove each other's.

*CloneRun.* `WorkInv` says of each repository what its step tells about its git process (`GitInv`), its temporary folder (`TmpInv`), its
target and helper (`ResultInv`) and its attempts (`TriesInv`). From it `OnlyWholeClones`, `FoldersAreKept` and `CloneRunTypes`, wherever
Ctrl+C comes and whatever is killed. `PoolIsBounded`: no more threads than `--jobs`, no more git commands than slots. `LockCovers` and
`RecordIsComplete` have the hypothesis `Waits`, that Ctrl+C comes neither before all futures are submitted nor in the wait of
`finally` (section 4, `clone.py:729` and `:747`): then every item has ended when the pool is left (`Through`), and what is in the pool
is, or will be, reported (`ReportInv`).

*ClientStores.* `StoresTypes` has `TypeInv`, which adds what each command carries at each of its steps (`RunOK`): the
document it has read, its entry, its key. `HooksAreKept` and `OneCredential` have no hypothesis: the former because what is written
differs from the file as it is only in what the command changes or in what was set back, which `undone` records; the latter by
`Alone`, that a server no command is in the middle of has one credential. `TokensAreListed` has the hypothesis `OneSignIn` (no two
terminals log in to and out of the same host) and `ListInv`: the entry is there when a login comes to the token, and the token
gone, or kept by the keyring, when a logout comes to the entry. `TrustIsKept` has `OneSetup` (one terminal runs setup-keys) and
`PairInv`: a whole pair is one pair, a pair is made only where there was none and nobody was told to trust it, and an instance that is
reported accepts it, unless the public key is empty. Section 4 (`cli.py:993`, `auth.py:76`)
shows that both hypotheses are needed.

*Restore, over every kind of connection.* `RestoreTypes`; `NothingUnsaved` (`ReplacedIsSaved`): only the step `restore` and a new
site replace anything, and when `restore` begins, or goes on alone, what it may replace is benchops' own, saved, not to be saved, or
changed by others since (`SavedInv`). That needs `Course`: only a step the client has left goes on, and only after the steps of the
restore. `ReportsAreSo` (`TellsTruth`) has `TruthInv`: the site is untouched until the download was found whole and the safety backup
taken, and once something was said nobody changes what it is about. `EverythingIsCleanedUp` (`NothingLeft`) has `GoneInv`, for the work
dir, and `LinkInv`, what the client holds at each point of open and close; what may be left is named there for each of plugin, session
and log, and section 4 (`ssm.py:151`, `:176`, `:223`, `:236`, `restore.py:174`, `:483`) shows that each exception is needed.

*ClaudeSkill, for any rules, versions and number of edits.* `ClaudeTypes`, and the three properties of ClaudeRules:
`UnwantedRulesGo`, `DevelopersRulesStay`, `OverwrittenIsSaved`. They rest on two invariants. `OursKnown` says that a rule that
is not the developer's is on record, about to be (`Pending`), or of a command that was stopped or a record that was lost; and because the merge writes back
what it has read, it says so of the rules as read, too. `HersKnown` says that benchops counts a rule of hers as its own only
if it did so when she wrote it, and that what the merge has not read or copied she has changed since.

Only model-checked: liveness (`LockFreed`, `InterruptEnds`, `CallAnswered`, `CommandEnds`), which the prover does not reach;
and `OneAtATime` and `OnlyOwnLockRemoved` with a `--break-lock` that is used as the prompt tells (`Careful`, LockFaults): the
theorems about them are for runs without it. No assumption is about how many there are of anything, except the two runs of
`PairKeepsIncoming` and of `TwoClonesExclude` and the one terminal of `OneSignIn` and of `OneSetup`. The theorems
are about the models: section 5 says what those leave out.

## 7. Plan
1. *Shell output*: `_safe_prefix` over chunked output against a reference that splits the whole text, and `_bootstrap`.
2. *Deploy client details*: sync's git side with the probe of the server's head, build decision from
   changed sources, the exclude block and `status`.
3. *Proofs*: the same inductive style for the modules of 1 and 2.
