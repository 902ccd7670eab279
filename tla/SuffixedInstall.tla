-------------------------- MODULE SuffixedInstall --------------------------
(***************************************************************************)
(* Side-by-side installs: `uvctl tool install PKG --suffix SFX' and        *)
(* `uvctl tool uninstall PKG --suffix SFX' (suffix.py), with the ledger    *)
(* file they keep (ledger.py) and the snapshots they take (snapshot.py).   *)
(*                                                                         *)
(* Every process of Procs is one uvctl invocation after another.  The      *)
(* processes share four things on disk and no lock: bin_dir, the scratch   *)
(* trees under <tool_dir>/.suffixed, what uv put in them, and the ledger.  *)
(* An action is one access to that shared state, or one decision between   *)
(* two of them; what runs in between is private to the process.            *)
(*                                                                         *)
(* Names are sequences of tokens, because the code builds the name of a    *)
(* scratch tree and the name of a link by concatenation.  A package and a  *)
(* suffix are given; an executable is a number, in the order in which      *)
(* install() sorts the names, and ExeName gives its name.                  *)
(***************************************************************************)
EXTENDS Naturals, Sequences, LedgerOps

CONSTANTS
    Procs,         \* the concurrent uvctl processes
    Packages,      \* normalized package names (sequences of tokens)
    Suffixes,      \* validated suffixes (sequences of tokens)
    Exes,          \* executables, numbered in name order
    ExeName,       \* [Exes -> sequences of tokens]
    InvalidExes,   \* those validate_executable_name rejects
    Provides,      \* [Packages -> the sets of executables a release may have]
    Files,         \* bin_dir entries that are no link into a scratch tree
    Absent,        \* no entry
    Mode,          \* "rootless" or "system-bin" (_mode)
    ForceChoices,  \* values of --force to explore
    SkipVerify,    \* values of --no-verify to explore
    MaxOps,        \* bound: commands started in one behaviour
    Limit          \* bound: how often each kind of mishap may happen

Mishaps == {"oob", "crash", "fault", "misname"}

ASSUME ConstantsAssumption ==
    /\ Packages # {} /\ Suffixes # {}
    /\ Exes \subseteq Nat /\ InvalidExes \subseteq Exes
    /\ Provides \in [Packages -> SUBSET SUBSET Exes]
    /\ Mode \in {"rootless", "system-bin"}
    /\ ForceChoices \subseteq BOOLEAN /\ SkipVerify \subseteq BOOLEAN
    /\ MaxOps \in Nat /\ Limit \in [Mishaps -> Nat]

----------------------------------------------------------------------------
(* Names and directory entries                                             *)

Keys == Packages \X Suffixes

\* scratch_paths(): "<name><suffix>", the parts run together
DirOf(key) == key[1] \o key[2]
Dirs == { DirOf(key) : key \in Keys }

\* install(): f"{exe}{suffix}"
LinkName(e, key) == ExeName[e] \o key[2]
Links == { LinkName(e, key) : e \in Exes, key \in Keys }

\* A symlink <scratch>/bin/<exe>, or anything else a path may hold.
Target(e, key) == [dir |-> DirOf(key), exe |-> e]
Symlinks == [dir : Dirs, exe : Exes]
Entries  == Symlinks \cup Files \cup {Absent}

EmptyBin == [l \in Links |-> Absent]

\* What uv keeps in a scratch tree: an environment per tool, its scripts in bin.
Tools == [pkg : Packages, exes : SUBSET Exes]

Commands == [ verb   : {"install", "uninstall"}, key : Keys, force : BOOLEAN,
              verify : BOOLEAN, op : Nat ]
NoCommand == [ verb |-> "install", key |-> CHOOSE key \in Keys : TRUE,
               force |-> FALSE, verify |-> FALSE, op |-> 0 ]

\* build_install_record(); link, target and scratch_dir follow from key and
\* execs, and op stands for the timestamp.
Records == [ op : Nat, key : Keys, execs : SUBSET Exes,
             state : {"complete", "partial"}, removed : BOOLEAN ]

INSTANCE Snapshot

\* Names are strings, cut into tokens; an executable is told by its name; what
\* Files and Absent stand for are no links into a scratch tree.
ASSUME NamesAssumption ==
    /\ Packages \subseteq Seq(STRING) /\ Suffixes \subseteq Seq(STRING)
    /\ \A e \in Exes : ExeName[e] \in Seq(STRING)
    /\ \A e, f \in Exes : ExeName[e] = ExeName[f] => e = f
    /\ (Files \cup {Absent}) \cap Symlinks = {}

----------------------------------------------------------------------------
VARIABLES
    bin,      \* bin_dir: [Links -> Entries]
    dirs,     \* the scratch trees that exist
    tree,     \* their contents: [Dirs -> SUBSET Tools]
    ledger,   \* the installs of ledger.json

    pc,       \* where a process is
    cmd,      \* its arguments
    pre,      \* its snapshots `pre' and `post'
    post,
    todo,     \* executables still to link
    execs,    \* `links': executables linked so far
    ours,     \* `our_links': links still to remove
    state,    \* STATE_COMPLETE or STATE_PARTIAL
    copy,     \* the ledger as it was loaded
    exit,     \* exit code of the last command, or the one a cleanup leads to

    started,  \* commands started so far
    left,     \* mishaps that may still happen
    witness,  \* history: <<op, e>> when op placed, or found, its link for e
    writer    \* history: [Links -> SUBSET Procs], who wrote a path last; {} if
              \* that was no uvctl command

disk   == <<bin, dirs, tree, ledger>>
locals == <<cmd, pre, post, todo, execs, ours, state, copy>>
bounds == <<started, left>>
history == <<witness, writer>>
vars   == <<disk, pc, locals, exit, bounds, history>>

PCs == { "idle", "uv", "post", "check", "scan", "link", "replace", "place",
         "final", "cleanup", "uvun", "unlink", "rmtree", "load", "save" }

\* 0, 1, 2 and 3 of the code; "died" for a process killed half-way.
ExitCodes == {"none", "ok", "failed", "error", "integrity", "died"}

TypeOK ==
    /\ bin \in [Links -> Entries]
    /\ dirs \subseteq Dirs
    /\ tree \in [Dirs -> SUBSET Tools]
    /\ ledger \subseteq Records
    /\ pc \in [Procs -> PCs]
    /\ cmd \in [Procs -> Commands]
    /\ pre \in [Procs -> [Links -> Entries]]
    /\ post \in [Procs -> [Links -> Entries]]
    /\ todo \in [Procs -> SUBSET Exes]
    /\ execs \in [Procs -> SUBSET Exes]
    /\ ours \in [Procs -> SUBSET Links]
    /\ state \in [Procs -> {"complete", "partial"}]
    /\ copy \in [Procs -> SUBSET Records]
    /\ exit \in [Procs -> ExitCodes]
    /\ started \in Nat
    /\ left \in [Mishaps -> Nat]
    /\ witness \subseteq Nat \X Exes
    /\ writer \in [Links -> SUBSET Procs]

\* bin_dir may hold foreign files before the first command; uvctl keeps nothing.
Init ==
    /\ bin \in [Links -> Files \cup {Absent}]
    /\ dirs = {} /\ tree = [d \in Dirs |-> {}]
    /\ ledger = {}
    /\ pc = [p \in Procs |-> "idle"]
    /\ cmd = [p \in Procs |-> NoCommand]
    /\ pre = [p \in Procs |-> EmptyBin] /\ post = [p \in Procs |-> EmptyBin]
    /\ todo = [p \in Procs |-> {}] /\ execs = [p \in Procs |-> {}]
    /\ ours = [p \in Procs |-> {}]
    /\ state = [p \in Procs |-> "complete"]
    /\ copy = [p \in Procs |-> {}]
    /\ exit = [p \in Procs |-> "none"]
    /\ started = 0 /\ left = Limit
    /\ witness = {} /\ writer = [l \in Links |-> {}]

----------------------------------------------------------------------------
(* Helpers                                                                 *)

Dir(p) == DirOf(cmd[p].key)

\* Variant: a link into any scratch tree counts as one into this tree.
IntoAny(v, d) == v \in Symlinks

\* islink(v) and _is_inside(v, scratch)
Into(v, d) == v \in Symlinks /\ v.dir = d

\* Variants: a foreign entry is taken for the link that is wanted; an entry
\* that is already the wanted link is not told from a foreign one; an entry is
\* replaced without asking for --force.
ForeignIsSkipped(v, d, force) ==
    IF v = Absent THEN "create"
    ELSE IF Into(v, d) \/ ~ force THEN "skip" ELSE "replace"

OwnIsForeign(v, d, force) ==
    IF v = Absent THEN "create" ELSE IF force THEN "replace" ELSE "refuse"

AlwaysReplace(v, d, force) ==
    IF v = Absent THEN "create" ELSE IF Into(v, d) THEN "skip" ELSE "replace"

\* classify_collision()
ClassifyCollision(v, d, force) ==
    CASE v = Absent                            -> "create"
      [] Into(v, d)                            -> "skip"
      [] v # Absent /\ ~ Into(v, d) /\ force   -> "replace"
      [] v # Absent /\ ~ Into(v, d) /\ ~ force -> "refuse"

\* Variants: links are matched by the name uvctl would have given them; links
\* whose target is gone are passed over.
LinksNamedLikeOurs(b, d) ==
    { l \in Links : b[l] # Absent /\ \E key \in Keys, e \in Exes :
                        DirOf(key) = d /\ l = LinkName(e, key) }

LinksThatResolve(b, d) ==
    { l \in Links : Into(b[l], d) /\ \E t \in tree[d] : b[l].exe \in t.exes }

\* links_targeting_scratch(): by target, never by name
LinksTargetingScratch(b, d) == { l \in Links : Into(b[l], d) }

\* tool_env_dirs(): a directory called "bin" is taken for the script directory
ToolEnvDirs(d) == { t.pkg : t \in tree[d] } \ {<<"bin">>}

\* What scandir(<scratch>/bin) lists.
Scripts(d) == UNION { t.exes : t \in tree[d] }

\* Variants: the key of the record lacks the suffix; the record claims every
\* script, linked or not.
RecordWithoutSuffix(p) ==
    [ op |-> cmd[p].op, key |-> cmd[p].key[1], execs |-> execs[p],
      state |-> state[p], removed |-> FALSE ]

RecordOfScripts(p) ==
    [ op |-> cmd[p].op, key |-> cmd[p].key, execs |-> Scripts(Dir(p)),
      state |-> state[p], removed |-> FALSE ]

\* The record install() builds from its locals.
NewRecord(p) ==
    [ op |-> cmd[p].op, key |-> cmd[p].key, execs |-> execs[p],
      state |-> state[p], removed |-> FALSE ]

Goto(p, label) == pc' = [pc EXCEPT ![p] = label]

\* The process ends: its locals are gone, its exit code remains.
Finish(p, code) ==
    /\ Goto(p, "idle")
    /\ exit'  = [exit EXCEPT ![p] = code]
    /\ cmd'   = [cmd EXCEPT ![p] = NoCommand]
    /\ pre'   = [pre EXCEPT ![p] = EmptyBin]
    /\ post'  = [post EXCEPT ![p] = EmptyBin]
    /\ todo'  = [todo EXCEPT ![p] = {}]
    /\ execs' = [execs EXCEPT ![p] = {}]
    /\ ours'  = [ours EXCEPT ![p] = {}]
    /\ state' = [state EXCEPT ![p] = "complete"]
    /\ copy'  = [copy EXCEPT ![p] = {}]

Spend(mishap) ==
    /\ left[mishap] > 0
    /\ left' = [left EXCEPT ![mishap] = @ - 1]

\* A recursive delete of d that stopped part of the way.
Chop(d) ==
    /\ \E kept \in SUBSET tree[d], xs \in SUBSET Exes :
          tree' = [tree EXCEPT ![d] =
                      { [t EXCEPT !.exes = @ \cap xs] : t \in kept }]
    /\ UNCHANGED dirs

\* _remove_tree() on a tree that passes assert_deletion_safe()
RemoveTree(d) ==
    /\ dirs' = dirs \ {d}
    /\ tree' = [tree EXCEPT ![d] = {}]

----------------------------------------------------------------------------
(* install()                                                               *)

\* Lines up to the snapshot `pre'.  --no-verify counts in rootless mode only,
\* and cmd_forward() refuses it in system-bin mode.
StartInstall(p) ==
    /\ pc[p] = "idle" /\ started < MaxOps
    /\ \E key \in Keys, force \in ForceChoices, skip \in SkipVerify :
          /\ ~ (skip /\ Mode = "system-bin")
          /\ cmd' = [cmd EXCEPT ![p] =
                        [ verb |-> "install", key |-> key, force |-> force,
                          verify |-> ~ (skip /\ Mode = "rootless"),
                          op |-> started + 1 ]]
          /\ pre' = IF skip /\ Mode = "rootless"
                    THEN pre ELSE [pre EXCEPT ![p] = bin]
    /\ started' = started + 1
    /\ exit' = [exit EXCEPT ![p] = "none"]
    /\ Goto(p, "uv")
    /\ UNCHANGED <<disk, post, todo, execs, ours, state, copy, left, history>>

\* `uv tool install' into the scratch tree.  On success uv has (re)made the
\* environment of the package it resolved, dropping scripts the release no
\* longer has; a misread specification makes that another package's.
UvInstalls(p) ==
    /\ pc[p] = "uv"
    /\ \E q \in Packages : \E xs \in Provides[q] :
          /\ IF q = cmd[p].key[1] THEN UNCHANGED left ELSE Spend("misname")
          /\ tree' = [tree EXCEPT ![Dir(p)] =
                        { t \in @ : t.pkg # q } \cup {[pkg |-> q, exes |-> xs]}]
    /\ dirs' = dirs \cup {Dir(p)}
    /\ Goto(p, IF cmd[p].verify THEN "post" ELSE "check")
    /\ UNCHANGED <<bin, ledger, locals, exit, started, history>>

\* uv exits non-zero: its code is returned, the scratch tree stays as it is.
UvFails(p) ==
    /\ pc[p] = "uv"
    /\ dirs' \in {dirs, dirs \cup {Dir(p)}}
    /\ Finish(p, "failed")
    /\ UNCHANGED <<bin, tree, ledger, bounds, history>>

\* check_uv_path() does not trust the recorded uv: install() and uninstall() end
\* before uv starts.
UvRefused(p) ==
    /\ pc[p] \in {"uv", "uvun"}
    /\ Finish(p, "error")
    /\ UNCHANGED <<disk, bounds, history>>

\* Any change of bin_dir while uv ran aborts the install before linking.
PostCheck(p) ==
    /\ pc[p] = "post"
    /\ IF Unattributed(Diff(pre[p], bin), {}) # {}
       THEN /\ Goto(p, "cleanup")
            /\ exit' = [exit EXCEPT ![p] = "integrity"]
            /\ UNCHANGED post
       ELSE /\ Goto(p, "check")
            /\ post' = [post EXCEPT ![p] = bin]
            /\ UNCHANGED exit
    /\ UNCHANGED <<disk, cmd, pre, todo, execs, ours, state, copy, bounds, history>>

\* assert_name_matches_ground_truth()
CheckName(p) ==
    /\ pc[p] = "check"
    /\ IF ToolEnvDirs(Dir(p)) = {cmd[p].key[1]}
       THEN Goto(p, "scan") /\ UNCHANGED exit
       ELSE Goto(p, "cleanup") /\ exit' = [exit EXCEPT ![p] = "failed"]
    /\ UNCHANGED <<disk, locals, bounds, history>>

\* _safe_cleanup_scratch() after an abort, then the pending exit code.
Cleanup(p) ==
    /\ pc[p] = "cleanup"
    /\ IF Dir(p) \in dirs THEN RemoveTree(Dir(p)) ELSE UNCHANGED <<dirs, tree>>
    /\ Finish(p, exit[p])
    /\ UNCHANGED <<bin, ledger, bounds, history>>

\* The delete stops half-way: rootless, rmtree() raises; system-bin, the exit
\* code of `rm -rf' is not looked at.
CleanupFaults(p) ==
    /\ pc[p] = "cleanup" /\ Dir(p) \in dirs
    /\ Spend("fault") /\ Chop(Dir(p))
    /\ Finish(p, IF Mode = "rootless" THEN "failed" ELSE exit[p])
    /\ UNCHANGED <<bin, ledger, started, history>>

\* No script directory: exit 1.  (An empty one goes through.)  An executable
\* name that fails validation: exit 2, the scratch tree stays.
ScanExes(p) ==
    /\ pc[p] = "scan"
    /\ LET found == Scripts(Dir(p)) IN
       \/ /\ found = {}
          /\ Finish(p, "failed")
       \/ /\ found \cap InvalidExes # {}
          /\ Finish(p, "error")
       \/ /\ found \cap InvalidExes = {} /\ Dir(p) \in dirs
          /\ Goto(p, "link")
          /\ todo' = [todo EXCEPT ![p] = found]
          /\ UNCHANGED <<cmd, pre, post, execs, ours, state, copy, exit>>
    /\ UNCHANGED <<disk, bounds, history>>

\* The linking loop takes the executables in order.
IsNext(p, e) == e \in todo[p] /\ \A f \in todo[p] : e <= f

\* Variant: the executable stays on the list.
LinkedAgain(p, e) ==
    /\ Goto(p, "link")
    /\ todo'  = todo
    /\ execs' = [execs EXCEPT ![p] = @ \cup {e}]

\* links.append(...), and on to the next executable.
Linked(p, e) ==
    /\ Goto(p, "link")
    /\ todo'  = [todo EXCEPT ![p] = @ \ {e}]
    /\ execs' = [execs EXCEPT ![p] = @ \cup {e}]

\* After the loop, by its end or by an OSError or EscalationError.
AfterLoop(p) == Goto(p, IF cmd[p].verify THEN "final" ELSE "load")

LinkingIncomplete(p) ==
    /\ AfterLoop(p)
    /\ state' = [state EXCEPT ![p] = "partial"]

\* classify_collision(); a refusal leaves install() at once.
LinkNext(p) ==
    /\ pc[p] = "link"
    /\ \E e \in Exes :
        /\ IsNext(p, e)
        /\ LET l == LinkName(e, cmd[p].key)
               decision == ClassifyCollision(bin[l], Dir(p), cmd[p].force)
           IN  \/ /\ decision = "create"
                  /\ Goto(p, "place")
                  /\ UNCHANGED <<locals, exit, witness>>
               \/ /\ decision = "replace"
                  /\ Goto(p, "replace")
                  /\ UNCHANGED <<locals, exit, witness>>
               \/ /\ decision = "skip"
                  /\ Linked(p, e)
                  /\ witness' = witness \cup {<<cmd[p].op, e>>}
                  /\ UNCHANGED <<cmd, pre, post, ours, state, copy, exit>>
               \/ /\ decision = "refuse"
                  /\ Finish(p, "error")
                  /\ UNCHANGED witness
    /\ UNCHANGED <<disk, bounds, writer>>

LinkingDone(p) ==
    /\ pc[p] = "link" /\ todo[p] = {}
    /\ AfterLoop(p)
    /\ UNCHANGED <<disk, locals, exit, bounds, history>>

\* _remove_path(): os.remove() raises when the entry is gone, `rm -f' does not.
RemoveForeign(p) ==
    /\ pc[p] = "replace"
    /\ \E e \in Exes :
        /\ IsNext(p, e)
        /\ LET l == LinkName(e, cmd[p].key) IN
           IF bin[l] = Absent /\ Mode = "rootless"
           THEN LinkingIncomplete(p) /\ UNCHANGED <<bin, writer>>
           ELSE /\ bin' = [bin EXCEPT ![l] = Absent]
                /\ writer' = [writer EXCEPT ![l] = {p}]
                /\ Goto(p, "place")
                /\ UNCHANGED state
    /\ UNCHANGED <<dirs, tree, ledger, cmd, pre, post, todo, execs, ours, copy,
                   exit, bounds, witness>>

\* _place_symlink(): os.symlink() raises when an entry has appeared; `ln -s'
\* fails as well, but run_as_root()'s exit code is not looked at.
PlaceSymlink(p) ==
    /\ pc[p] = "place"
    /\ \E e \in Exes :
        /\ IsNext(p, e)
        /\ LET l == LinkName(e, cmd[p].key) IN
           \/ /\ bin[l] = Absent
              /\ bin' = [bin EXCEPT ![l] = Target(e, cmd[p].key)]
              /\ Linked(p, e)
              /\ writer' = [writer EXCEPT ![l] = {p}]
              /\ witness' = witness \cup {<<cmd[p].op, e>>}
              /\ UNCHANGED state
           \/ /\ bin[l] # Absent /\ Mode = "rootless"
              /\ LinkingIncomplete(p)
              /\ UNCHANGED <<bin, todo, execs, history>>
           \/ /\ bin[l] # Absent /\ Mode = "system-bin"
              /\ Linked(p, e)
              /\ UNCHANGED <<bin, state, history>>
    /\ UNCHANGED <<dirs, tree, ledger, cmd, pre, post, ours, copy, exit, bounds>>

\* The system call or the helper process fails for another reason: an
\* exception ends the loop, a failed `ln' or `rm' goes unnoticed.
LinkingFaults(p) ==
    /\ pc[p] \in {"replace", "place"}
    /\ Spend("fault")
    /\ \/ /\ LinkingIncomplete(p)
          /\ UNCHANGED <<todo, execs>>
       \/ /\ Mode = "system-bin" /\ pc[p] = "replace"
          /\ Goto(p, "place")
          /\ UNCHANGED <<todo, execs, state>>
       \/ /\ Mode = "system-bin" /\ pc[p] = "place"
          /\ \E e \in Exes : IsNext(p, e) /\ Linked(p, e)
          /\ UNCHANGED state
    /\ UNCHANGED <<disk, cmd, pre, post, ours, copy, exit, started, history>>

\* What changed since `post' must be the links just made.  Rootless mode only
\* reports the rest; system-bin mode stops, with neither record nor audit line.
FinalCheck(p) ==
    /\ pc[p] = "final"
    /\ LET made == { LinkName(e, cmd[p].key) : e \in execs[p] }
           leftover == Unattributed(Diff(post[p], bin), made)
       IN  IF leftover # {} /\ Mode = "system-bin"
           THEN Finish(p, "integrity")
           ELSE Goto(p, "load") /\ UNCHANGED <<locals, exit>>
    /\ UNCHANGED <<disk, bounds, history>>

----------------------------------------------------------------------------
(* The ledger file: load_ledger(), then a transformed copy replaces it.    *)

LoadLedger(p) ==
    /\ pc[p] = "load"
    /\ copy' = [copy EXCEPT ![p] = ledger]
    /\ Goto(p, "save")
    /\ UNCHANGED <<disk, cmd, pre, post, todo, execs, ours, state, exit, bounds,
                   history>>

\* record_install() or mark_removed(), up to the rename; then the exit code.
SaveLedger(p) ==
    /\ pc[p] = "save"
    /\ \/ /\ cmd[p].verb = "install"
          /\ ledger' = RecordInstall(copy[p], NewRecord(p))
          /\ Finish(p, IF state[p] = "complete" THEN "ok" ELSE "failed")
       \/ /\ cmd[p].verb = "uninstall"
          /\ ledger' = IF Found(copy[p], cmd[p].key)
                       THEN MarkRemoved(copy[p], cmd[p].key) ELSE ledger
          /\ Finish(p, "ok")
    /\ UNCHANGED <<bin, dirs, tree, bounds, history>>

----------------------------------------------------------------------------
(* uninstall()                                                             *)

\* No scratch tree: exit 1.  Else the links into it are listed before uv runs.
StartUninstall(p) ==
    /\ pc[p] = "idle" /\ started < MaxOps
    /\ \E key \in Keys :
        IF DirOf(key) \in dirs
        THEN /\ cmd' = [cmd EXCEPT ![p] =
                          [ verb |-> "uninstall", key |-> key, force |-> FALSE,
                            verify |-> FALSE, op |-> started + 1 ]]
             /\ ours' = [ours EXCEPT ![p] = LinksTargetingScratch(bin, DirOf(key))]
             /\ exit' = [exit EXCEPT ![p] = "none"]
             /\ Goto(p, "uvun")
        ELSE /\ exit' = [exit EXCEPT ![p] = "failed"]
             /\ UNCHANGED <<pc, cmd, ours>>
    /\ started' = started + 1
    /\ UNCHANGED <<disk, pre, post, todo, execs, state, copy, left, history>>

\* `uv tool uninstall'; a failure is reported and the cleanup goes on.
UvUninstall(p) ==
    /\ pc[p] = "uvun"
    /\ tree' \in { tree,
                   [tree EXCEPT ![Dir(p)] =
                       { t \in @ : t.pkg # cmd[p].key[1] }] }
    /\ Goto(p, "unlink")
    /\ UNCHANGED <<bin, dirs, ledger, locals, exit, bounds, history>>

\* One listed link: removed if a path of that name exists, whatever it is now.
RemoveLink(p) ==
    /\ pc[p] = "unlink"
    /\ \E l \in ours[p] :
        /\ bin'  = [bin EXCEPT ![l] = Absent]
        /\ writer' = [writer EXCEPT ![l] = {p}]
        /\ ours' = [ours EXCEPT ![p] = @ \ {l}]
    /\ UNCHANGED <<dirs, tree, ledger, pc, cmd, pre, post, todo, execs, state,
                   copy, exit, bounds, witness>>

\* os.remove() raises and nothing catches it; a failed `rm -f' goes unnoticed.
RemoveLinkFaults(p) ==
    /\ pc[p] = "unlink" /\ Spend("fault")
    /\ \/ /\ Mode = "rootless" /\ ours[p] # {}
          /\ Finish(p, "failed")
       \/ /\ Mode = "system-bin"
          /\ \E l \in ours[p] : ours' = [ours EXCEPT ![p] = @ \ {l}]
          /\ UNCHANGED <<pc, cmd, pre, post, todo, execs, state, copy, exit>>
    /\ UNCHANGED <<disk, started, history>>

LinksRemoved(p) ==
    /\ pc[p] = "unlink" /\ ours[p] = {}
    /\ Goto(p, "rmtree")
    /\ UNCHANGED <<disk, locals, exit, bounds, history>>

\* assert_deletion_safe() refuses a tree that is gone; else it is deleted.
RmTree(p) ==
    /\ pc[p] = "rmtree"
    /\ IF Dir(p) \in dirs
       THEN RemoveTree(Dir(p)) /\ Goto(p, "load") /\ UNCHANGED <<locals, exit>>
       ELSE Finish(p, "error") /\ UNCHANGED <<dirs, tree>>
    /\ UNCHANGED <<bin, ledger, bounds, history>>

RmTreeFaults(p) ==
    /\ pc[p] = "rmtree" /\ Dir(p) \in dirs
    /\ Spend("fault") /\ Chop(Dir(p))
    /\ IF Mode = "rootless"
       THEN Finish(p, "failed")
       ELSE Goto(p, "load") /\ UNCHANGED <<locals, exit>>
    /\ UNCHANGED <<bin, ledger, started, history>>

----------------------------------------------------------------------------
(* The environment                                                         *)

\* The process is killed: nothing of what it did is undone, and a recursive
\* delete may have been under way.
Crash(p) ==
    /\ pc[p] # "idle" /\ Spend("crash")
    /\ \/ UNCHANGED <<dirs, tree>>
       \/ pc[p] \in {"cleanup", "rmtree"} /\ Chop(Dir(p))
    /\ Finish(p, "died")
    /\ UNCHANGED <<bin, ledger, started, history>>

\* Somebody else writes bin_dir: an admin, or code that uv runs for a package.
OutOfBand ==
    /\ Spend("oob")
    /\ \E l \in Links, v \in Entries :
          /\ v # bin[l] /\ bin' = [bin EXCEPT ![l] = v]
          /\ writer' = [writer EXCEPT ![l] = {}]
    /\ UNCHANGED <<dirs, tree, ledger, pc, locals, exit, started, witness>>

----------------------------------------------------------------------------
InstallStep(p) ==
    \/ UvInstalls(p) \/ UvFails(p) \/ PostCheck(p) \/ CheckName(p)
    \/ Cleanup(p) \/ CleanupFaults(p) \/ ScanExes(p)
    \/ LinkNext(p) \/ LinkingDone(p) \/ RemoveForeign(p) \/ PlaceSymlink(p)
    \/ LinkingFaults(p) \/ FinalCheck(p)

UninstallStep(p) ==
    \/ UvUninstall(p) \/ RemoveLink(p) \/ RemoveLinkFaults(p)
    \/ LinksRemoved(p) \/ RmTree(p) \/ RmTreeFaults(p)

LedgerStep(p) == LoadLedger(p) \/ SaveLedger(p)

Step(p) ==
    InstallStep(p) \/ UninstallStep(p) \/ UvRefused(p) \/ LedgerStep(p)
Start(p) == StartInstall(p) \/ StartUninstall(p)

Next ==
    \/ \E p \in Procs : Start(p) \/ Step(p) \/ Crash(p)
    \/ OutOfBand

Spec == Init /\ [][Next]_vars

\* A command that runs goes on running; nobody must start one.
FairSpec == Spec /\ \A p \in Procs : WF_vars(Step(p))
=============================================================================
