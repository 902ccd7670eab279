------------------------- MODULE InstallProperties -------------------------
(***************************************************************************)
(* What suffixed installs promise, as properties of SuffixedInstall.       *)
(*                                                                         *)
(* Some hold of any number of concurrent commands; some only of commands   *)
(* that run one after the other, and the README says which run shows what. *)
(***************************************************************************)
EXTENDS SuffixedInstall

Installing(p)   == cmd[p].verb = "install"
Uninstalling(p) == cmd[p].verb = "uninstall"
AllIdle         == \A p \in Procs : pc[p] = "idle"

\* The command of p ends, in this step, with this exit code.
Ends(p, code) == Step(p) /\ pc'[p] = "idle" /\ exit'[p] = code

\* verify_ledger() finds nothing wrong with a record: each link exists, is a
\* symlink and resolves to the recorded target (which need not exist).
Verified(r) ==
    \A e \in r.execs : bin[LinkName(e, r.key)] = Target(e, r.key)

\* The links of a record, and what they point to, are all there.
Intact(r) == Verified(r) /\ r.execs \subseteq Scripts(DirOf(r.key))

ActiveRecords == { r \in ledger : ~ r.removed }

----------------------------------------------------------------------------
(* Any number of processes                                                 *)

\* find_active() and verify_ledger() rely on one active record per key.  It
\* holds of the file and of every copy a process is about to write back, even
\* when updates get lost (record_install, mark_removed).
OneActivePerKey(installs) ==
    \A r, s \in installs :
        r.key = s.key /\ ~ r.removed /\ ~ s.removed => r = s

OneActive ==
    /\ OneActivePerKey(ledger)
    /\ \A p \in Procs : OneActivePerKey(copy[p])

\* Without --force an install never takes away or replaces an entry of
\* bin_dir, whatever appears there between its decision and its system call
\* (classify_collision: "never blind ln -sf").
NoForceNoOverwrite ==
    [][ \A p \in Procs :
          Step(p) /\ Installing(p) /\ ~ cmd[p].force =>
              \A l \in Links : bin'[l] # bin[l] => bin[l] = Absent ]_vars

\* A record names only links that its own operation made, or found to be its
\* own (build_install_record: "the exact executables linked").
HonestLedger ==
    \A r \in ledger : \A e \in r.execs : <<r.op, e>> \in witness

\* In system-bin mode an install goes on to the ledger only if bin_dir differs
\* from the first snapshot by additions at the paths of its own links; and what
\* it wrote there itself, and nobody wrote over, is the link it meant to make
\* (install(), the three snapshots together).  An entry that somebody else put
\* at one of these paths is not told from the link: `ln' failing goes unread
\* (_place_symlink) and the final check asks for the path only (unattributed).
CommitIsAccounted ==
    [][ \A p \in Procs :
          pc[p] = "final" /\ pc'[p] = "load" =>
              \A l \in Links : bin[l] # pre[p][l] =>
                  /\ pre[p][l] = Absent
                  /\ \E e \in execs[p] :
                        /\ l = LinkName(e, cmd[p].key)
                        /\ p \in writer[l] => bin[l] = Target(e, cmd[p].key) ]_vars

\* Every command ends, if the machine lets it run: the linking and removal
\* loops consume their lists, and no process waits for another.
Terminates == \A p \in Procs : pc[p] # "idle" ~> pc[p] = "idle"

----------------------------------------------------------------------------
(* One command after the other                                             *)

\* A command touches nothing that an active record of another key relies on,
\* unless it was told to use --force (test_install_execute.py: "sibling untouched").
SiblingsUntouched ==
    [][ \A p \in Procs :
          Step(p) /\ ~ cmd[p].force =>
              \A r \in ActiveRecords :
                  r.key # cmd[p].key /\ Intact(r) => Intact(r)' ]_vars

\* An update of the ledger keeps every record of the other keys as it is, and
\* the removed ones of its own (record_install: "append (or replace an active
\* entry with)").
AppendOrReplace ==
    [][ \A r \in ledger :
          (\A p \in Procs : pc'[p] # pc[p] => r.key # cmd[p].key \/ r.removed)
              => r \in ledger' ]_vars

\* An install that exits 0 has linked every script uv made, and the one active
\* record of its key says so.
InstallOkMeansLinked ==
    [][ \A p \in Procs :
          Ends(p, "ok") /\ Installing(p) =>
              LET key == cmd[p].key
                  all == Scripts(DirOf(key))
              IN  /\ \A e \in all : bin'[LinkName(e, key)] = Target(e, key)
                  /\ { r.execs : r \in Active(ledger', key) } = {all} ]_vars

\* An uninstall that exits 0 leaves no link into the scratch tree, no scratch
\* tree and no active record, whatever earlier commands left behind.
UninstallOkMeansGone ==
    [][ \A p \in Procs :
          Ends(p, "ok") /\ Uninstalling(p) =>
              /\ Dir(p) \notin dirs'
              /\ \A l \in Links : ~ Into(bin'[l], Dir(p))
              /\ Active(ledger', cmd[p].key) = {} ]_vars

\* An uninstall removes from bin_dir only links into its scratch tree
\* (links_targeting_scratch: matched by target, never by name).
RemovesOnlyOwnLinks ==
    [][ \A p \in Procs :
          Step(p) /\ Uninstalling(p) =>
              \A l \in Links : bin'[l] # bin[l] => Into(bin[l], Dir(p)) ]_vars

\* While nothing runs and nothing went wrong, `uvctl verify' reports no link but
\* one of an executable that a later operation linked as well: another install
\* took the name with --force, or failed after it.
VerifyQuiet ==
    AllIdle /\ left = Limit =>
        \A r \in ActiveRecords : \A e \in r.execs :
            \/ bin[LinkName(e, r.key)] = Target(e, r.key)
            \/ \E op \in (r.op + 1)..MaxOps : <<op, e>> \in witness

\* Nobody else wrote bin_dir, no specification was misread, and no failure of
\* `rm' or `ln' went unnoticed.  Commands may have been killed, and system
\* calls may have failed.
Undisturbed ==
    /\ left["oob"] = Limit["oob"] /\ left["misname"] = Limit["misname"]
    /\ Mode = "system-bin" => left["fault"] = Limit["fault"]

\* An uninstall that is past its tree, or a killed command that may have been.
PastItsTree(key) ==
    \/ left["crash"] < Limit["crash"]
    \/ \E p \in Procs : /\ Uninstalling(p) /\ cmd[p].key = key
                        /\ pc[p] \in {"load", "save"}

\* An install is taken apart in one order, wherever a command is killed: links,
\* tree, record.  No link outlives the tree it points into, so that `verify'
\* reports a record whose tree is gone; and a record outlives its tree only if
\* an uninstall was stopped between the two (uninstall(), mark_removed).
TakenApartInOrder ==
    Undisturbed =>
        /\ \A l \in Links : bin[l] \in Symlinks => bin[l].dir \in dirs
        /\ \A r \in ActiveRecords : DirOf(r.key) \in dirs \/ PastItsTree(r.key)

\* uvctl decides, after uv succeeded, not to link: exit 1, 2 or 3.
RefusesInstall(p) ==
    /\ Step(p) /\ Installing(p)
    /\ pc[p] \in {"post", "check", "scan", "link"} /\ pc'[p] \in {"cleanup", "idle"}

\* No install is refused because of what earlier commands left under its own
\* key, killed or failed half-way: not a half-deleted tree, not links, whether
\* their script is still there or not (classify_collision's "skip", the guarded
\* cleanup).  What refuses it is a release without scripts or with a name that
\* does not validate, a tool called like uv's script directory, a foreign entry,
\* or a link into the tree of another key.
\* This says nothing of an uninstall: killed between its tree and its record, it
\* is answered "no suffixed install found" ever after.  Nor of the final check of
\* system-bin mode, which stops a --force that has replaced something.
LeftoversNeverRefuse ==
    [][ \A p \in Procs : Undisturbed /\ RefusesInstall(p) =>
          LET found == Scripts(Dir(p)) IN
          \/ found = {} \/ found \cap InvalidExes # {} \/ cmd[p].key[1] = <<"bin">>
          \/ \E e \in found :
                LET v == bin[LinkName(e, cmd[p].key)] IN
                v \in Files \/ (v \in Symlinks /\ v.dir \in dirs \ {Dir(p)}) ]_vars

----------------------------------------------------------------------------
(* What installs promise to one command after the other                    *)

\* What an install is, by the files: its links, its tree and its record.
Status(key) ==
    CASE /\ DirOf(key) \notin dirs /\ Active(ledger, key) = {}
         /\ \A l \in Links : ~ Into(bin[l], DirOf(key))
                                                     -> "absent"
      [] /\ DirOf(key) \in dirs
         /\ \E r \in Active(ledger, key) : r.state = "complete" /\ Intact(r)
                                                     -> "installed"
      [] OTHER                                       -> "partial"

OnlyProc == CHOOSE p \in Procs : TRUE

Installs == INSTANCE SideBySide WITH
    status <- [key \in Keys |-> Status(key)],
    job    <- IF pc[OnlyProc] = "idle" THEN [verb |-> "none"]
              ELSE [ verb |-> cmd[OnlyProc].verb, key |-> cmd[OnlyProc].key,
                     force |-> cmd[OnlyProc].force ],
    ok     <- exit[OnlyProc] = "ok"

\* Commands keep the promise of SideBySide: success means done, and a command
\* changes what is installed under its own key only (cli.rst: "lets multiple
\* versions coexist side by side").
InstallsSideBySide == Installs!Spec

----------------------------------------------------------------------------
(* What the documentation says and the code does not do                    *)

\* "A record of what uvctl did": no link into a scratch tree outlives its
\* command without an active record that lists it.
LinksRecorded ==
    AllIdle => \A l \in Links : \A key \in Keys :
        Into(bin[l], DirOf(key)) =>
            \E r \in ActiveRecords :
                r.key = key /\ \E e \in r.execs : l = LinkName(e, key)
=============================================================================
