# uvctl in TLA+

A verification project for [uvctl](../src/README.md), which manages shared `uv tool` installs on a
server. It contains TLA+ modules translated from `src/src/uvctl/*.py`, TLC configurations that check
them on small instances, and theorems that TLAPS proves for every value of the constants. Line
numbers below are lines of the Python files (`suffix.py:482` is `src/src/uvctl/suffix.py`, line 482).

## 1. The system

uvctl is a set of short-lived command-line processes. There is no daemon, no lock and no shared
memory: everything two commands have in common is on disk, and every command reads it, runs a
subprocess for seconds or minutes, and then acts on what it read.

| component | source | state it keeps | operations |
|---|---|---|---|
| side-by-side installs | `suffix.py` | links in `bin_dir`, scratch trees `<tool_dir>/.suffixed/<name><suffix>` | `install`, `uninstall` |
| ledger | `ledger.py` | `ledger.json` (a list of install records), `audit.log` | `record_install`, `mark_removed`, `find_active`, `append_audit`, `emit_audit` |
| snapshots | `snapshot.py` | none; values of one command | `capture`, `diff`, `unattributed`, fingerprints |
| plain forwards | `cli.py:490-687`, `suffix.py:197-276` | none of its own: uv's environments and uv's links | `_forward_install`, `_forward_uninstall`, `_rollback_plain` |
| privileges | `escalate.py`, `cli.py:344-508` | the credentials of a process | startup drop, `run_uv`, `run_as_service_user`, `run_as_root`, system-bin gate |
| setup | `setup.py` | the service account; owners of the tree, of `bin_dir` and of `/var/lib/uvctl`; config, profile and sudoers files | `main`, `_repair` |
| configuration | `config.py` | `/etc/uvctl/config.toml` | `resolve`, `detect_mode` |
| front end | `cli.py` | none | `main`, `main_uvxg`, `_dispatch`, `run`, `link`, `verify`, `config`, `env` |
| argument parsing | `cli.py:39-73`, `cli.py:490-533`, `suffix.py:41-88` | none | `split_suffix`, routing, `extract_package_spec` |
| name validation | `validate.py` | none | `normalize_requirement_name`, `validate_suffix`, `validate_executable_name` |
| PATH text | `pathmgmt.py` | none | profile, cron and shell snippets |

**How they interact.** `main` drops root to the service user (or not) and dispatches. An install
passes the system-bin gate, reads the operating mode again, takes a snapshot of `bin_dir`, runs uv as
a subprocess, compares snapshots, checks uv's work against the parsed name, links, compares again,
and rewrites the ledger. The mode is never stored: it is *who owns `bin_dir`* at the moment of each
reading, so `setup` steers every other command. uv writes the tool environments (and, on plain
forwards, `bin_dir`) and may run package code that writes anything the service user may.

**What is hard.**

* *Interleaving*: two admins, or an admin and a cron job, run commands at the same time. The ledger is
  read and replaced without a lock, links are classified and placed in two steps, uninstall lists
  links before it runs uv and removes them afterwards.
* *Stopping half-way*: a killed process leaves a tree without record, a record without tree, links
  without either. A rerun must cope.
* *Failing subprocesses*: `ln`, `rm` and `rm -rf` as root are started without looking at their exit
  codes; in rootless mode the same failures are exceptions, some of which nobody catches.
* *Out-of-band writes* of `bin_dir`, by admins and by package code, between any two snapshots.
* *Names*: a scratch tree and a link are named by concatenation.
* *A command line shared with uv*: uvctl takes its own options out of it and tells the package without
  knowing uv's options; a wrong guess ends in a rollback of the wrong tool.
* *Setup*: root makes accounts, directories and files one system call after the other, while commands
  read them; a setup may stop anywhere, be repeated, or meet another one.
* *Privilege*: every command chooses its uid from the mode, the flags and who calls it, and the mode
  can change between runs.

**What makes each component correct.** An install that says it succeeded has linked what uv made and
has recorded exactly that. An uninstall that says so has left nothing. Neither touches what belongs
to another install or to nobody, unless `--force` says so. The ledger has one active record per
install and loses none. A command that reports no finding changed nothing else in `bin_dir`. Package
code does not run as root. The drop leaves nothing to return to. A command fails before it starts
rather than half-way. What it says is done can be looked up in the audit log. What `config.toml` names is there. A setup that says it is
complete has made one consistent site, and a second one changes nothing. uvctl never takes the value
of an option for a package.

## 2. Modules

```
Snapshot, LedgerOps --> SuffixedInstall --> InstallProperties --> MCSuffixedInstall
                 SideBySide <-- instantiated by InstallProperties
                                            --> SuffixedInstall_proofs --> SideBySide_proofs
Snapshot -------------> PlainForward -----> PlainForward_proofs
           PlainForward, Arguments -------> MCPlainForward
                MCPlainForward, Names ----> MCForward -> CommandLine_proofs
Configuration --------> Setup ------------> SetupAndCommands ----> MCSetupAndCommands
                                            --> Setup_proofs --> UsableSite_proofs --> SettledSite_proofs
                        Privilege --------> MCPrivilege
                                            --> Privilege_proofs
```

* **Snapshot** -- `diff` and `unattributed` over functions from paths to entries. Entries are whole
  values, because the seven compared fields matter only as "equal or not".
* **LedgerOps** -- what `record_install` and `mark_removed` do to the list of records. The list is a
  set: every record carries the operation that wrote it, and no reader depends on the order.
* **SuffixedInstall** -- the core: `suffix.py` with the ledger file, any number of processes.
* **InstallProperties** -- what suffixed installs promise, the refinement mapping included.
* **SideBySide** -- the abstract specification: side-by-side installs as a status per key, changed by a
  command of that key only.
* **PlainForward** -- plain `uv tool install` / `uninstall` under observation, uv itself external.
* **Arguments** -- `split_suffix`, the routing and `extract_package_spec` over tokens, next to uv's own
  reading of the line, for any choice of uv options that take a value.
* **Names** -- `validate.py` over character classes.
* **Configuration** -- where a setting comes from, and `resolve_effective`.
* **Setup** -- `setup.main` and `_repair`, one system call after the other.
* **SetupAndCommands** -- the composition: installs that read the config and the mode at their three
  places, and write to the three places setup owns, under Setup's steps.
* **Privilege** -- who runs what: the startup drop system call by system call, the dispatch, the
  gate, the uid of every child, and who can write the ledger and the audit log. `setup` is two coarse
  steps here, because only the owners matter to this module; Setup has it call by call.
* **MC...** -- constants for TLC. MCPlainForward also derives PlainForward's readings from Arguments;
  MCForward also lets TLC type every command line and every name.
* **..._proofs** -- theorems, next to the module they are about; SideBySide_proofs has those about one
  command after the other, CommandLine_proofs those about lines and names of any length.

A definition with a comment that starts "Variant" is not used by the specification: it is a wrong
form of the definition after it (a dropped guard, a lost field, a swapped criterion) and serves to
confirm that the properties notice such a mistake.

### SuffixedInstall and the code

State on disk: `bin` (paths to entries; a symlink is the scratch tree and the executable it points
to), `dirs` and `tree` (the scratch trees that exist and the tool environments in them), `ledger`.
State of a process: `pc`, its arguments `cmd`, and the Python locals by their own names: `pre` and
`post`, `execs` (`links`), `ours` (`our_links`), `state`, `copy` (the loaded ledger), `exit`. `todo`
is the rest of the loop's list. A process that ends resets its locals. `witness` is a history variable:
which operation made or found which
link; `writer` is another one: which uvctl process, if any, wrote a path of `bin_dir` last.

| actions | code |
|---|---|
| `StartInstall` | `install()` up to the first snapshot (434-458) |
| `UvInstalls`, `UvFails` | the uv subprocess and its exit code (460-471) |
| `UvRefused` | `check_uv_path` does not trust the recorded uv: install and uninstall end with exit 2 before uv starts (`escalate.py:87-124`) |
| `PostCheck` | second snapshot and its verdict (473-492) |
| `CheckName`, `Cleanup`, `CleanupFaults` | the ground-truth check and `_safe_cleanup_scratch` (302-322, 388-398, 494-501) |
| `ScanExes` | listing and validating the executables (503-508) |
| `LinkNext`, `RemoveForeign`, `PlaceSymlink`, `LinkingFaults`, `LinkingDone` | the linking loop: one action per access to `bin_dir` (510-526) |
| `FinalCheck` | third snapshot (528-536) |
| `LoadLedger`, `SaveLedger` | `record_install` / `mark_removed`: read the file, rename the new one over it |
| `StartUninstall` | `uninstall()` up to the inventory of links (578-594) |
| `UvUninstall`, `RemoveLink`, `RemoveLinkFaults`, `LinksRemoved`, `RmTree`, `RmTreeFaults` | the rest of it (596-617) |
| `Crash`, `OutOfBand` | a killed process; somebody else's write to `bin_dir` |

Names are sequences of tokens so that concatenation is concatenation: `DirOf` and `LinkName` can
collide where the code's can. A snapshot is taken in one step; entries uvctl never makes are `Files`.

**Refinement.** `Installs` maps the files to SideBySide: a key is *absent* when it has no tree, no active record and
no link into its tree, *installed* when it has a tree and a complete active record whose links are all
there and lead to an executable, and *partial* otherwise. SideBySide lets a command do anything to its
own key on the way, be stopped anywhere, and touch nothing else; it may end with success only where
its key is what was asked for. `--force` may break another install, and may not make one.

### PlainForward, Arguments, Names and the code

`bin`, `env` (uv's environments) and `audit` (which events are in which *file*) are shared; `pre`,
`code` and `cmd` belong to a process. `StartForward` runs up to the snapshot, `UvInstalls`,
`UvInstallFails` and `UvUninstalls` are uv, `Inspect` is the second snapshot with
`classify_forwarded_changes`, `Rollback` is `_rollback_plain` with its audit line.

What a command is about is a *reading*: the name that `_plain_name()` tells, and the package uv works
on. `Readings` is a constant of PlainForward; MCPlainForward computes it from Arguments, for every line
of up to three arguments that routes to a plain forward, that uv accepts and that names one package.
So the observation is checked with exactly the misreadings the parsing can make (a URL requirement is
read as `git`), and no others.

A command line is a sequence of tokens: words, options uvctl does not know, its own flags, `--suffix`
and `--from` with the value joined or as the next token, and `--`. `UvReads` is uv's reading under a
choice of which unknown options take the next token, so that a property may quantify over the choice.
A name is a sequence of character classes, those which the patterns of `validate.py` tell apart.

### Configuration, Setup, SetupAndCommands and the code

`accounts`, `owner` (of `tree`, which stands for `tool_dir`, `python_install_dir` and `cache_dir`; of
each `bin_dir`; of `ledger`, which stands for `/var/lib/uvctl`), `inside` (the owners of the entries in a
directory), `config`, `profile`, `group` and `sudoers` are on disk. `eff` holds the settings a process
works on, `admins` its `--admin-group`.

| actions | code |
|---|---|
| `Refuse`, `Start` | `require_root`, `resolve`, `resolve_effective`, the uv that is recorded (306-345); a repair looks the account up |
| `Lookup`, `UserAdd` | `_ensure_service_user` (242-264) |
| `MakeTree`, `OwnTree`, `MakeBin`, `OwnBin`, `MakeLedger`, `OwnLedger` | `_ensure_dir_owned`, `_ensure_root_dir`: `makedirs`, then `chown` (267-279, 346-365) |
| `WriteConfig`, `WriteProfile`, `AddGroup`, `WriteSudoers` | the files, each replaced by a rename (352-376, 382-393) |
| `RepairTree`, `RepairInTree`, `RepairBin`, `RepairInBin` | `_repair` on the tree and on `bin_dir`: the top, then what is in it (291-303, 340-343) |
| `Stop` | a setup that is killed or meets an `OSError` |
| `Invoke`, `Startup`, `Gate` | `main`, `_maybe_drop_privileges`, `cmd_forward` with the system-bin gate: the settings are resolved twice |
| `ReadMode`, `RunUv`, `RunUvFails`, `Link`, `WriteLedger` | `install()` and a plain install as far as settings and owners are concerned |

History variables: `settled` (the last setup ended well and nobody interfered), `alone` (processes that
nobody ran beside), `again` (setups without options on a settled site), `promised` (commands of root or
the service user, without override, that start on a settled site).

### Privilege and the code

`account`, `binDir`, `ledgerDir` and `auditLog` are what `setup` makes and who owns it; `cred` is the
real, effective and saved uid, the gid and the groups of a process. `Startup` decides on the drop,
`DropGroups`, `DropGid`, `DropUid` and `TryToRegain` are `drop_privileges_permanently` one system call
at a time, each with the kernel's condition on the caller (`DropCall`; without it the call ends in EPERM,
which nobody catches) and its other failures (`DropFails`), `Dispatch`, `Exec` and `Ln` are the other commands, `Gate`, `ReadMode`, `RunUv` and
`WriteLedger` are an install as far as privileges are concerned, `SetupTree` and `SetupLedger` are
`setup.main` (and `--repair`) up to the config file and at the ledger directory. `EmitAudit` appends if the
uid may, and may fail all the same (a full disk), which `emit_audit` swallows. History variables are `ran`
(package code, with its uid) and `ordinary` (root has not called `setup` or asked for `--as-root` so far).

## 3. Runs

### Runs that pass

| run | instance | what it shows |
|---|---|---|
| `Sequential` | one process, 2 packages that share executables, 1 suffix, 3 executables (one with a name that does not validate), a foreign file, releases that change, `--force`, `--no-verify`, 3 commands, one crash anywhere, one failing system call, one misread specification | `InstallsSideBySide`: the files implement SideBySide. `SiblingsUntouched`, `AppendOrReplace`, `InstallOkMeansLinked`, `UninstallOkMeansGone`, `RemovesOnlyOwnLinks`: the same promises where they bite, link by link and record by record. `LeftoversNeverRefuse`: no install is refused, with any exit code, because of what an earlier command left under its key. `TakenApartInOrder`: no link outlives its tree, and a record does only if an uninstall was stopped in between. Before any mishap, `VerifyQuiet`: `uvctl verify` reports nothing |
| `SystemBin` | one process, system-bin mode, 2 executables, a foreign file, one out-of-band write, one crash, one fault | `CommitIsAccounted`: the three snapshots together let an install reach the ledger only if all that differs from the first one is additions at the paths of its links, and what it wrote there itself is the link it meant. `NoForceNoOverwrite` |
| `Concurrent` | two processes, 2 packages with one executable name, one crash, fault and out-of-band write, fairness | `OneActive`: one active record per key even when updates get lost. `HonestLedger`: a record names only links its operation made or found. `NoForceNoOverwrite`: without `--force` nothing is replaced, whatever appears between the decision and the system call. `Terminates`: every command ends. `TypeOK` |
| `Forward` | one process, 2 packages that share an executable, `--no-verify`, the readings of all lines of three arguments, 3 commands, two out-of-band writes, of links into the environments as well; and every line of 4 tokens and every name of 4 characters | `NoFalseFinding`: uv's own installs, upgrades and uninstalls are never reported. `QuietMeansOwnChanges`: a command that reports nothing left `bin_dir` alone except for canonical links of its tool. `NeverMisreads`: the package uvctl names is the one uv installs, whichever options take a value. `AlwaysReads`: values that are joined never hide the package. `ForwardedVerbatim`: uv gets every token but uvctl's own. `LinksStayInside`: parts that validate make a name inside its directory. `KeysAreStable`: one project, one key. `TypeOK` |
| `CoreInvariant` | two processes, every verb and caller, setup for either mode and repair running concurrently | `CoreInvariant`: package code runs as root only with `--as-root` on a plain command. `DropComplete`: after the drop nothing of root is left. `DropGoesThrough`: each call of the drop comes while the kernel still permits it, and the drop is never found incomplete. `LogStaysWritable`: while root neither calls `setup` nor asks for `--as-root`, who can write the ledger can append to the audit log, whoever created it. `TypeOK` |
| `Setup` | two processes, `/opt/uv/bin` and `/usr/local/bin`, two service users, root, the service users and an admin as callers, an environment override, 3 setups or installs, one stop anywhere | `ConfigNamesOwnedSite`: what the config names is there at every moment, and belongs to a service user that has an account. `SetupOkMeansReady`: a setup that is done has made one site. `RerunChangesNothing`: a second one is a series of no-ops. `RepairOkMeansOwned`: a repair leaves nothing of another owner. `NoHalfWay`: no promised command runs package code and then lacks the privilege to finish. `TypeOK` |

### Runs that end in a counterexample

Each states what a document, comment or test of the repository says and finds a behaviour of the code
that differs.

| run | property | what happens |
|---|---|---|
| `LostUpdate` | `AppendOrReplace` | two installs load the ledger, both replace it, one record is gone (`ledger.py:189-197`) |
| `Aliases` | `SiblingsUntouched` | `flake-lint` with `@1` and `flake` with `-lint@1` have one scratch tree (`suffix.py:102-104`): the cleanup after the name check of one deletes the other |
| `Collision` | `LinksRecorded` | a refusal in the middle of the loop leaves the links made so far, unrecorded (`suffix.py:517`) |
| `RolledBack` | `RollbackSparesOthers` | `git+https://host/black` is read as `git`; uv's links for black are findings then, and the rollback uninstalls the tool `git`, which was there before (`cli.py:617`) |
| `UnauditedSkip` | `SkipIsAudited` | `emit_audit(..., path="plain")` names the log file, so the line goes to a file `plain` in the working directory (`cli.py:597`) |
| `Repair` | `SystemBinStaysRoots` | `setup --repair` in system-bin mode gives `/usr/local/bin` and what is in it to the service user (`setup.py:341`) |

### What the conditions of the passing properties stand for

Some properties hold only under the conditions their runs set. Each condition is there because of a
behaviour of the code that the model has too; lifting the condition shows it.

* `InstallsSideBySide` and the link-by-link properties of `Sequential` are about
  commands that run one after the other, and about names that do not alias. `LostUpdate` and `Aliases`
  show why.
* `LinksRecorded` also fails, with `Mode = "system-bin"` and `--force`, when a replacement is a
  modification that the third snapshot refuses after linking (`suffix.py:530-536`), and, with releases
  that rename their executable, when an upgrade leaves the link of the one it dropped.
* `TakenApartInOrder` has one exception. A process killed between the deletion of the tree and
  `mark_removed` (`suffix.py:617-620`) leaves an active record without a tree, and every later uninstall
  of that key is answered "no suffixed install found", exit 1 (`suffix.py:584-590`); only an install of
  the same key brings it back under uvctl's hands.
* `TakenApartInOrder` and `LeftoversNeverRefuse` are about `Undisturbed` behaviours: killed commands and
  failing system calls, but no foreign write, no misread specification, and in system-bin mode no `rm` or
  `ln` that fails unnoticed. A foreign write during an upgrade aborts it, and the cleanup
  (`suffix.py:482`) deletes the tree of the install that was there, whose record and links remain.
* `VerifyQuiet` excepts executables that a later operation linked as well: `--force` may have taken the
  name. It says nothing of targets: `verify` compares a link with its recorded target, not whether the
  target exists (`cli.py:130-138`), so a dangling link passes.
* `LeftoversNeverRefuse` names what may refuse an install after uv has succeeded: a release without scripts
  or with a name that does not validate, a tool called `bin`, a foreign file, a link into the tree of another
  key. It is about installs: an uninstall is refused after the kill described above. It is not about the
  final check of system-bin mode, which stops a `--force` that has replaced something.
* `CommitIsAccounted` asks for the entry, and not only for the path, where the command itself wrote last.
  An entry that somebody else puts at the path of one of the links, after `classify_collision` and before
  `ln -s`, makes `ln` fail, which nobody reads (`suffix.py:342`); the final check exempts it by its path
  (`snapshot.py:283-304`), and the ledger lists it as a link. The model has this behaviour, and the
  property allows it.
* `RemovesOnlyOwnLinks` is checked, and proved, for one process without foreign writes. With two, a link
  listed by an uninstall (`suffix.py:594`) can be gone and its name taken by another install while uv
  runs; the removal (612-614) takes that one.
* `HonestLedger` is checked and proved in rootless mode. In system-bin mode `ln -s` can fail on a name
  just taken, its exit code is not looked at (`suffix.py:342`), and the record lists the link. `uvctl
  link` does not look at it either (`cli.py:336`).
* `NoFalseFinding` is about one process and names that were told right. Two plain installs at once see
  each other's links as findings (`cli.py:612`) and roll back their own tools; `RolledBack` shows a name
  that was told wrong.
* `LogStaysWritable` is about sites where a service user is configured and which root leaves alone:
  `ordinary` becomes FALSE when root calls `setup` or asks for `--as-root`. Under `--as-root` in rootless mode, or in
  system-bin mode before a change to rootless, root may be the one who creates `audit.log`; the service user
  cannot append to it then. `emit_audit` swallows that, as it swallows every `OSError`
  (`ledger.py:373-376`): with a full disk root's lines are lost as well, and nothing tells.
* `DropGoesThrough` is about calls the kernel refuses for want of privilege. A call may still fail for
  another reason, and the command ends.
* `NoHalfWay` is about `promised` commands that are `alone`. Outside of that, an install may end denied
  at its links or at the ledger, after uv has run: a setup between two of its readings changes the mode
  or the service user under it (`cli.py:492`, `suffix.py:438`); `UVCTL_TOOL_BIN_DIR` changes the mode it
  detects but not who owns the ledger directory (`config.py:142`); an admin who is neither root nor the
  service user runs uv through sudo and then may not write `bin_dir`; a setup that stopped half-way, or
  a repair in system-bin mode, leaves directories whose owners disagree (`settled` is FALSE after either).
* `SetupOkMeansReady`, `RepairOkMeansOwned` and `RerunChangesNothing` are about a process that nobody ran
  beside: of two setups at once, the second may own what the first has just recorded.
  `ConfigNamesOwnedSite` holds of those as well, and therefore names an owner with an account, not the
  recorded one; where every setup asks for the same service user it is that one
  (`ConfigIsUsableByItsUser`).
* A setup for another service user owns the top directories only. Entries of the old user, and an audit
  log of the old user, stay until a repair; `RepairOkMeansOwned` says what the repair does.
* `--write-sudoers` may fail after everything else has changed (`setup.py:369`); the fragment of the old
  service user then stays. The model has it (`WriteProfile`, `WriteSudoers`), no property speaks of it.

### Bounds

`MaxOps`, `MaxRuns`: commands per behaviour. Two are an operation and its interference or its rerun,
three an install, a mishap and what follows (in `Setup`: a setup, a change of it, and an install).
`Limit`, `MaxStops`: how often each mishap happens; the properties are about what one crash, fault or
foreign write does, and the theorems lift the bound. `OutOfBands`: two foreign writes let a link be
planted and replaced. Two executables are the fewest for a loop that stops in the middle; the third of
`Sequential` is the one whose name does not validate. Two packages are the fewest for a sibling or a
misread name. `Sequential` has one suffix, because two packages with one suffix share link names and
two suffixes never do; with one package and two suffixes in its place it passes as well (0.9 million
states), and `LostUpdate` has two. Two service users and a directory of either mode are the fewest for
a setup that changes something.

`MaxTokens` is four: an option, its value, a package and one token more; a misreading needs two
candidates, a misplaced `--suffix` the token before and behind it. `Options` has two, one that may take
a value and one that may not, and `UvReads` takes every choice. Readings are taken from lines of three
arguments behind `tool install`. `MaxChars` is four: `..` with a character on each side of the point
where parts are joined. The length limit of a suffix, 32, is far beyond that and is not exercised.

`CHECK_DEADLOCK FALSE` in the runs where the bounds are used up and nobody starts a command: the system
has stopped, as it should. No symmetry is used.

Properties of one command after the other are checked in runs with one process, because they do not
hold of concurrent commands; `LostUpdate` shows that. In `Forward` the out-of-band writes stand for
the other process.

### Assumptions about the constants

Each is named in the module that declares the constants, and TLC evaluates it in the runs. Worth
knowing: the service user is not root; `bin_dir` differs from the tree and the ledger directory; a
release provides at least one executable; nothing that uvctl calls "no entry" or "no name" is a value
of the type it is missing from; two executables have two names (`NamesAssumption`); a token that uvctl or the model
gives a meaning of its own is neither one of the `Words` nor of the unknown `Options` (`ArgumentsAssumption`).

### Fairness

`FairSpec` assumes weak fairness of `Step(p)`, the steps of a command that has been started: the
operating system runs a process, and the code blocks nowhere except in subprocesses. That uv itself
ends is part of the assumption (`UvInstalls`, `UvFails`, `UvUninstall`); uvctl sets no timeout
(`escalate.py:261`). Nothing is assumed of starts, crashes and out-of-band writes.

## 4. Proofs

TLAPS proves the following for all constants that satisfy the named assumptions: any number of
processes, packages, suffixes, executables, directories, users, commands and mishaps.

**SuffixedInstall_proofs**

* `TypeCorrect`: `Spec => []TypeOK`. The invariant is inductive; it is split into locals, disk and
  bounds, with one lemma for each part and each helper (`Finish`, `Chop`, ledger operations).
* `OneActiveAlways`: `Spec => []OneActive`. Inductive because it speaks of the copies too: a stale
  copy has at most one active record per key, `RecordInstall` and `MarkRemoved` keep that, so a lost
  update cannot produce two.
* `HonestLedgerRootless`: with `Mode = "rootless"`, `Spec => []HonestLedger`. The strengthening
  `HonestInv` adds that what a process is about to record (`execs`), and every record in a
  loaded copy, is witnessed too. The assumption is needed: in system-bin mode a failed `ln -s` goes unnoticed.
* `ControlAlways`: `Spec => []ControlInv`, which relates the program counter to the locals: who is in
  the install or the uninstall branch, that every entry of `post` equals `pre` past the second
  snapshot, that a forced replacement happens only with `--force`.
* `NoForceNoOverwriteAlways`: `Spec => NoForceNoOverwrite`, an action property, from `ControlInv` and
  the guards at the system calls.
* `CommitIsAccountedAlways`: with `Mode = "system-bin"`, `Spec => CommitIsAccounted`, from
  `ControlInv`, two lemmas about the operators of Snapshot (an empty difference means equal snapshots; a
  difference that is entirely attributed consists of additions at allowed paths), and an invariant about what
  a linked path holds that the process wrote last.
* `RemovesOnlyOwnLinksForOne`: for one process and `Limit["oob"] = 0`, `Spec => RemovesOnlyOwnLinks`. The
  invariant `ListedInv` says that what is left of the list still leads into the scratch tree; only the
  process itself writes `bin_dir`, and it removes what it takes off the list.

**SideBySide_proofs** -- for one process (`OneProc`), with the hypotheses each theorem names:

* `AppendOrReplaceForOne`: `Spec => AppendOrReplace`, from `CopyIsCurrent`: between loading and saving, the
  copy equals the file.
* `TreeAlways`: `Spec => []TreeInv`. A command has the tree it works on; what it has linked and has yet
  to link are together the scripts of that tree. Nothing weaker is inductive: the loop must know that the
  rest of its list is still what uv made.
* `InstallOkMeansLinkedForOne` (`DistinctTrees`, `NobodyElse`), from `LinkedInv`: behind the loop's place,
  each link leads where it should. `OwnedInv` (only uvctl's names lead into scratch trees) makes the "skip" of
  an earlier command's link sound.
* `UninstallOkMeansGoneForOne` (`NobodyElse`), from `RemovalInv`: a link into the tree is still on the list,
  and the tree is gone by the time the ledger is read. Names may alias here.
* `TakenApartInOrderForOne` and `LeftoversNeverRefuseForOne` (`DistinctTrees`), kills and faults included.
  `NamedInv` and `PureInv`: a tree has the tools of its own package only, so that the name check never
  deletes the tree of an install that is recorded (`TreedInv`). `StandingInv`: what a link into a scratch tree
  points into is there, and has passed the name check; so the links an install meets are its own, which it
  skips, or lead into a tree of another key.
* `SiblingsUntouchedForOne` (`DistinctTrees`, no foreign writes), from `ListedInv` and `ControlInv`.
* `InstallsSideBySideForOne` (`DistinctTrees`, `NobodyElse`): the refinement of SideBySide, step by step. Each
  is a `Begin`, a `Work`, a `Finish` or a stutter, because it leaves the status of the other keys alone
  (`--force` excepted), and an end with success has made its own key what was asked for.
* `VerifyQuietForOne` (`DistinctTrees`, `DistinctLinks`), for behaviours without a mishap. `OpsInv` orders the
  operations: what a record's links lost, a later operation took, which `QuietInv` finds in `witness`.

Why the hypotheses. `OneProc`: `LostUpdate` is two processes. `DistinctTrees`, no two keys with one
scratch tree: `Aliases` is two that have. `DistinctLinks`: with a link name that two executables can
make, each with its own suffix, a later operation may take a link without being excused, as `witness`
speaks of executables. `NobodyElse`: no foreign writes, and in system-bin mode no faults, because there a
failed `ln` or `rm` goes unnoticed (`suffix.py:342`) and the command succeeds all the same. All of them
hold in the run `Sequential`.

**CommandLine_proofs** -- for lines and names of any length, any words and any unknown options

* `JoinedAlwaysRead`, `NothingMisread`: by induction from the end of the line, uv's packages behind a token
  are uvctl's candidates behind it; or, when options take values, there are none or they are the same as
  soon as at most one candidate is left. `--` needs a lemma of its own (`PositionalsOfWords`).
* `RestAlwaysForwarded`: at each token that `split_suffix` looks at, what is left of the line is the tokens
  uv should get from there on, counted. `LookedNext` follows the parity of a run of `--suffix`.
* `LinksAlwaysInside`: the parts have no forbidden character, a key begins with a small letter
  (`KeyShape`), and neither `.` nor `..` can come of joining two names that are not empty.
* `KeysAlwaysStable`: a key has no two dashes in a row (`CollapseShape`), so that collapsing it changes
  nothing (`CollapseSettled`), nor does it with one more separator beside a dash (`CollapseLongerRun`).

The induction theorems of the library cannot be used, as they take an operator. Here induction goes
over *sets* of places: `LeastNumber` (from `WFMin` and `NatLessThanWellFounded`), `Backwards` (what holds of a
place if it holds of all behind it holds everywhere), and `Recursion` (a function given by what it is
behind each place exists). Each recursive function of the model is named by its equation and then known
place by place (`PositionalsHere`, `UvReadsHere`, `SplitSuffixHere`, `CollapseHere`).

**PlainForward_proofs**

* `ForwardTypeCorrect`, and `QuietMeansOwnChangesAlways`, for any number of processes and foreign writes:
  a difference without findings consists of canonical links of the named tool.
* `NoFalseFindingForOne`: for one process. `QuietInv` says that what differs from the snapshot is uv's
  work for this package (`OwnSince`), and that nothing differs before uv has run.

**Setup_proofs, UsableSite_proofs, SettledSite_proofs** -- any number of setups and commands, which stop anywhere

* `SetupTypeCorrect`, with `SettingsInv`: a setup past its start works on a whole set of settings.
* `ConfigIsOwned`: `AllSpec => []ConfigNamesOwnedSite`. `UsableInv` adds what each setup has made ready
  on its way, directory by directory; `ReadyStays` shows that no other process can take it back.
* `ConfigIsUsableByItsUser`: with one service user that setups may ask for, the user that the config names has an
  account and may write the tree and `bin_dir` (unless that is a system directory), from `ConfigIsOwned`.
* `SetupLeavesOneSite`, `RepairOwnsAll`: action properties, from invariants that tell what a process
  that nobody ran beside has completed by each of its steps.
* `RerunIsQuiet`: `AllSpec => RerunChangesNothing`. `SettledInv`: a settled site agrees with itself
  (`Agrees`), and what runs on it is at most a repair for its own settings; `AgainOK`: each step of a
  repeated setup then writes what is there already.
* `NoHalfWayAlways`: `AllSpec => []NoHalfWay`. `PromiseOK` says where a promised command stands: it reads
  the settings and the mode of the agreeing site at each of its readings, so that they belong together,
  and the uid it runs as may write where this mode makes it write.

**Privilege_proofs**

* `PrivilegeTypeCorrect`, `CoreInvariantAlways`, `DropCompleteAlways`, `DropGoesThroughAlways`, from one inductive invariant
  `IInv`: type correctness, the two properties, and `DropInv`, which says what a process in the middle
  of the drop has given up already, and that only commands that never escalate reach `execv`. The step is proved action by action.
* `LogStaysWritableAlways`, from `LogInv`: while root leaves the site alone, it stays as the last setup made
  it, a log in a ledger directory of the service user is that user's, and no command past the startup drop is
  root's there.

**Only model-checked.** Liveness (`Terminates`), which is out of the prover's reach. The runs that
expect a violation are counterexamples, and TLC's alone. That `Readings` of the run `Forward` are
computed right from Arguments (MCPlainForward) is evaluated by TLC for lines of the run's length.

## 5. What is not modelled, and why

* **uv, sudo, pip packages.** External; uv's effect on trees and `bin_dir` is taken from how
  uvctl uses it (`UvInstalls`, `UvUninstalls`, ...). A uv that fails leaves environments and links
  as they were. A failed `uv tool install` is returned before the second snapshot (`cli.py:607`).
* **A snapshot is atomic.** `Snapshot.capture` lists a directory and then reads each entry; an entry
  that vanishes in between raises an `OSError` nobody catches. For the state on disk that is a crash at
  this point, and `Crash` covers it.
* **Fingerprints** (`snapshot.py:203-252`) guard one process's memory against itself; nothing in the
  program changes a frozen snapshot, so in the model they are no-ops.
* **Symlinked scratch trees** in `assert_deletion_safe` and `realpath` in `_is_inside`: a path stands
  for its real path.
* **Files over 64 MB** are compared by metadata only (`snapshot.py:51`); entries here are whole values.
* **Spelling.** `is_system_bin` compares strings, so `/usr/local/bin/` with a slash at its end is no
  system directory (`setup.py:94`); `render_config_toml` (`setup.py:104-135`) does not escape what it
  writes. Directories and values are model values here; a config file written by hand with empty
  strings in it is not explored.
* **An option before `tool`** makes the command an "other" forward (`cli.py:73`), which is neither gated
  nor observed, while uv installs all the same (`docs/security.rst:250-251`: "around every forwarded
  install/uninstall"). `Route` has it; no property speaks of it.
* **The audit line of a suffixed install** is one step with the ledger update in Privilege and absent
  from SuffixedInstall; a kill in between (`suffix.py:551`) leaves an operation that is recorded and not
  audited.
* **Syslog, messages, `config`, `env`, PATH text** (`pathmgmt.py`): output with no state.

## 6. Plan

Done: side-by-side installs with their ledger and snapshots and the refinement, plain forwards with
the command lines they are told by, names, configuration, setup with the commands that read what it
makes, privileges, and the theorems of section 4.

Every invariant and action property of the passing runs is stated by a theorem. What is left:

1. Snapshots that are taken entry by entry, and what their `OSError` does.
2. Concurrent commands of different keys: what remains of the promises of section 4 without `OneProc`.
3. The composition of plain forwards and suffixed installs on one `bin_dir`.
4. Flags of uvctl that stand where an option of uv expects its value (`cli.py:55`): `ForwardedVerbatim` takes
   them for uvctl's own, as the code does.
