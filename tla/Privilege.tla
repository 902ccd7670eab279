----------------------------- MODULE Privilege -----------------------------
(***************************************************************************)
(* Who runs what: the privilege transitions of uvctl (escalate.py), the    *)
(* startup drop and the dispatch that decide on them (cli.py), and the     *)
(* ownership of the paths the operating mode is detected from (setup.py,   *)
(* config.py).                                                             *)
(*                                                                         *)
(* A process is one invocation after another.  What an install does to     *)
(* bin_dir is SuffixedInstall's subject; here a command is the uids it     *)
(* runs things under, the readings of the mode it acts on, and the two     *)
(* files it writes at its end.                                             *)
(***************************************************************************)
EXTENDS Naturals

CONSTANTS
    Procs,          \* the uvctl processes
    Callers,        \* who invokes them: a subset of Users
    Cmds,           \* commands to explore: a subset of Verbs
    AsRoot,         \* values of --as-root (UVCTL_ALLOW_ROOT) to explore
    SetupChoices,   \* what `setup' is asked for
    HasServiceUser, \* is service_user configured?
    MaxRuns         \* bound: invocations in one behaviour

Users == {"root", "svc", "admin"}

\* "config" stands for config, env and verify, "other" for what is forwarded.
Verbs == {"config", "run", "uvxg", "link", "setup", "plain", "suffixed", "other"}

Modes == {"rootless", "system-bin", "undetermined"}

ASSUME PrivilegeAssumption ==
    /\ Callers \subseteq Users /\ Cmds \subseteq Verbs
    /\ AsRoot \subseteq BOOLEAN
    /\ SetupChoices \subseteq {"rootless", "system-bin", "repair"}
    /\ HasServiceUser \in BOOLEAN /\ MaxRuns \in Nat

\* _NEVER_ESCALATE, and uvxg, which has an entry point of its own
NeverEscalate == {"config", "run", "uvxg"}

Commands == [ verb : Verbs, asRoot : BOOLEAN, run : Nat ]
NoCommand == [ verb |-> "config", asRoot |-> FALSE, run |-> 0 ]

\* Real, effective and saved uid, gid and supplementary groups of a process.
Credentials == [ ruid : Users, euid : Users, suid : Users, gid : Users,
                 groups : SUBSET Users ]
LoginOf(u) ==
    [ ruid |-> u, euid |-> u, suid |-> u, gid |-> u, groups |-> {u} ]

----------------------------------------------------------------------------
VARIABLES
    account,   \* does the service user have an account, and is uv_path recorded?
    binDir,    \* owner of bin_dir, or "missing"
    ledgerDir, \* owner of /var/lib/uvctl, or "missing"
    auditLog,  \* owner of audit.log, or "missing"

    pc,        \* where a process is
    cmd,       \* its command
    cred,      \* its credentials
    dropped,   \* did it go through drop_privileges_permanently()?
    mode,      \* the mode it goes by
    exit,      \* exit of the last command

    runs,      \* invocations so far
    ran,       \* history: package code that ran, and under which uid
    ordinary   \* history: root has neither run `setup' nor said --as-root

site    == <<account, binDir, ledgerDir, auditLog>>
proc    == <<pc, cmd, cred, dropped, mode, exit>>
history == <<ran, ordinary>>
vars    == <<site, proc, runs, history>>

PCs == { "idle", "start", "initgroups", "setgid", "setresuid", "regain",
         "dispatch", "exec", "ln", "gate", "mode", "uv", "ledger",
         "setup", "setup2" }

TypeOK ==
    /\ account \in BOOLEAN
    /\ binDir \in {"svc", "root", "missing"}
    /\ ledgerDir \in {"svc", "root", "missing"}
    /\ auditLog \in Users \cup {"missing"}
    /\ pc \in [Procs -> PCs]
    /\ cmd \in [Procs -> Commands]
    /\ cred \in [Procs -> Credentials]
    /\ dropped \in [Procs -> BOOLEAN]
    /\ mode \in [Procs -> Modes]
    /\ exit \in [Procs -> {"none", "ok", "error", "tripwire", "denied"}]
    /\ runs \in Nat
    /\ ran \subseteq [cmd : Commands, uid : Users]
    /\ ordinary \in BOOLEAN

\* Before any setup, or after a setup for one of the modes.
Init ==
    /\ \/ account = FALSE /\ binDir = "missing" /\ ledgerDir = "missing"
       \/ account = TRUE /\ binDir = "svc" /\ ledgerDir = "svc"
       \/ account = TRUE /\ binDir = "root" /\ ledgerDir = "root"
    /\ auditLog = "missing"
    /\ pc = [p \in Procs |-> "idle"]
    /\ cmd = [p \in Procs |-> NoCommand]
    /\ cred = [p \in Procs |-> LoginOf("admin")]
    /\ dropped = [p \in Procs |-> FALSE]
    /\ mode = [p \in Procs |-> "undetermined"]
    /\ exit = [p \in Procs |-> "none"]
    /\ runs = 0
    /\ ran = {} /\ ordinary = TRUE

----------------------------------------------------------------------------
(* Readings and decisions                                                  *)

\* cli._detect_mode(): path_writable_by_user() on bin_dir as it is now
DetectMode ==
    CASE ~ HasServiceUser \/ ~ account \/ binDir = "missing" -> "undetermined"
      [] HasServiceUser /\ account /\ binDir = "svc"         -> "rootless"
      [] HasServiceUser /\ account /\ binDir = "root"        -> "system-bin"

\* Variant: what cannot be determined gets a name nobody else knows.
NamedMode == IF DetectMode = "undetermined" THEN "unknown" ELSE DetectMode

\* suffix._mode(): what cannot be determined counts as rootless
SuffixMode == IF DetectMode = "undetermined" THEN "rootless" ELSE DetectMode

\* Variant: every command drops by the mode.
DropByMode(c, euid) ==
    /\ euid = "root" /\ HasServiceUser /\ c.verb # "setup"
    /\ ~ c.asRoot /\ DetectMode = "rootless"

\* Variant: only the commands that never escalate drop.
DropNeverEscalating(c, euid) ==
    /\ euid = "root" /\ HasServiceUser /\ c.verb # "setup"
    /\ c.verb \in NeverEscalate

\* _should_drop_for_command() and should_drop_privileges(); main_uvxg()
ShouldDrop(c, euid) ==
    /\ euid = "root" /\ HasServiceUser /\ c.verb # "setup"
    /\ \/ c.verb \in NeverEscalate
       \/ ~ c.asRoot /\ DetectMode = "rootless"

\* _effective_service_user(): --as-root counts for root, on the plain paths;
\* suffix.py takes cfg.service_user as it is.
WithoutServiceUser(c, euid) ==
    \/ ~ HasServiceUser
    \/ c.asRoot /\ euid = "root" /\ c.verb \in {"plain", "other"}

\* plan_privilege() and child_runs_as()
ChildRunsAs(c, euid) ==
    IF WithoutServiceUser(c, euid) THEN euid ELSE "svc"

CanWrite(uid, owner) == owner # "missing" /\ uid \in {"root", owner}

\* May uid append to the audit log, or create it?
CanAudit(uid) ==
    /\ ledgerDir # "missing"
    /\ CanWrite(uid, IF auditLog = "missing" THEN ledgerDir ELSE auditLog)

\* append_audit(): who is first creates the log.  emit_audit() swallows its
\* OSError, and root can meet one as well, of a full disk.
EmitAudit(p) ==
    \/ /\ CanAudit(cred[p].euid)
       /\ auditLog' = IF auditLog = "missing" THEN cred[p].euid ELSE auditLog
    \/ UNCHANGED auditLog

Goto(p, label) == pc' = [pc EXCEPT ![p] = label]

Finish(p, code) ==
    /\ Goto(p, "idle")
    /\ exit' = [exit EXCEPT ![p] = code]
    /\ cmd' = [cmd EXCEPT ![p] = NoCommand]
    /\ cred' = [cred EXCEPT ![p] = LoginOf("admin")]
    /\ dropped' = [dropped EXCEPT ![p] = FALSE]
    /\ mode' = [mode EXCEPT ![p] = "undetermined"]

----------------------------------------------------------------------------
(* main() and main_uvxg(): the startup drop                                *)

Intervenes(c, euid) == euid = "root" /\ (c.verb = "setup" \/ c.asRoot)

Invoke(p) ==
    /\ pc[p] = "idle" /\ runs < MaxRuns
    /\ \E verb \in Cmds, asRoot \in AsRoot :
          cmd' = [cmd EXCEPT ![p] = [verb |-> verb, asRoot |-> asRoot,
                                     run |-> runs + 1]]
    /\ \E who \in Callers :
          /\ who = "svc" => account
          /\ cred' = [cred EXCEPT ![p] = LoginOf(who)]
    /\ exit' = [exit EXCEPT ![p] = "none"]
    /\ runs' = runs + 1
    /\ ordinary' = (ordinary /\ ~ Intervenes(cmd'[p], cred'[p].euid))
    /\ Goto(p, "start")
    /\ UNCHANGED <<site, dropped, mode, ran>>

\* _maybe_drop_privileges(); getpwnam() raises when there is no account.
Startup(p) ==
    /\ pc[p] = "start"
    /\ \/ /\ ~ ShouldDrop(cmd[p], cred[p].euid)
          /\ Goto(p, "dispatch")
          /\ UNCHANGED <<cmd, cred, dropped, mode, exit>>
       \/ /\ ShouldDrop(cmd[p], cred[p].euid) /\ account
          /\ Goto(p, "initgroups")
          /\ UNCHANGED <<cmd, cred, dropped, mode, exit>>
       \/ /\ ShouldDrop(cmd[p], cred[p].euid) /\ ~ account
          /\ Finish(p, "error")
    /\ UNCHANGED <<site, runs, history>>

\* Variant: initgroups() is left out.
GroupsKept(groups) == groups

\* os.initgroups(): the groups of the service user, and no other
GroupsOfService(groups) == {"svc"}

\* Variant: the uid goes before the gid.
UidBeforeGid(call) ==
    CASE call = "initgroups" -> "setresuid"
      [] call = "setresuid"  -> "setgid"
      [] call = "setgid"     -> "regain"

\* drop_privileges_permanently(): "The call order is load-bearing"
NextCall(call) ==
    CASE call = "initgroups" -> "setgid"
      [] call = "setgid"     -> "setresuid"
      [] call = "setresuid"  -> "regain"

\* One call of the drop: what it makes of the credentials, if the kernel permits
\* it; else EPERM, a PermissionError that nobody catches.
DropCall(p, call, permitted, after) ==
    /\ pc[p] = call
    /\ IF permitted
       THEN /\ cred' = [cred EXCEPT ![p] = after]
            /\ Goto(p, NextCall(call))
            /\ UNCHANGED <<cmd, dropped, mode, exit>>
       ELSE Finish(p, "denied")
    /\ UNCHANGED <<site, runs, history>>

DropGroups(p) ==
    LET c == cred[p] IN
    DropCall(p, "initgroups", c.euid = "root",
             [c EXCEPT !.groups = GroupsOfService(@)])

DropGid(p) ==
    LET c == cred[p] IN
    DropCall(p, "setgid", c.euid = "root" \/ c.gid = "svc",
             [c EXCEPT !.gid = "svc"])

DropUid(p) ==
    LET c == cred[p] IN
    DropCall(p, "setresuid", c.euid = "root" \/ "svc" \in {c.ruid, c.euid, c.suid},
             [c EXCEPT !.ruid = "svc", !.euid = "svc", !.suid = "svc"])

\* Any of the calls may fail for another reason, an OSError too.
DropFails(p) ==
    /\ pc[p] \in {"initgroups", "setgid", "setresuid"}
    /\ Finish(p, "error")
    /\ UNCHANGED <<site, runs, history>>

\* setuid(0) must fail; should it succeed, EscalationError ends the command.
TryToRegain(p) ==
    /\ pc[p] = "regain"
    /\ IF "root" \in {cred[p].ruid, cred[p].euid, cred[p].suid}
       THEN Finish(p, "error")
       ELSE /\ dropped' = [dropped EXCEPT ![p] = TRUE]
            /\ Goto(p, "dispatch")
            /\ UNCHANGED <<cmd, cred, mode, exit>>
    /\ UNCHANGED <<site, runs, history>>

----------------------------------------------------------------------------
(* _dispatch(), cmd_forward() and the commands                             *)

NextPC(verb) ==
    CASE verb \in {"run", "uvxg"}       -> "exec"
      [] verb = "link"                  -> "ln"
      [] verb = "setup"                 -> "setup"
      [] verb \in {"plain", "suffixed"} -> "gate"
      [] verb = "other"                 -> "uv"

Dispatch(p) ==
    /\ pc[p] = "dispatch"
    /\ IF cmd[p].verb = "config"
       THEN Finish(p, "ok")
       ELSE Goto(p, NextPC(cmd[p].verb)) /\ UNCHANGED <<cmd, cred, dropped, mode, exit>>
    /\ UNCHANGED <<site, runs, history>>

\* cmd_run() and main_uvxg(): execv() the tool, or nothing to execute.
Exec(p) ==
    /\ pc[p] = "exec"
    /\ \/ /\ ran' = ran \cup {[cmd |-> cmd[p], uid |-> cred[p].euid]}
          /\ Finish(p, "ok")
       \/ /\ Finish(p, "error")
          /\ UNCHANGED ran
    /\ UNCHANGED <<site, runs, ordinary>>

\* cmd_link(): `ln -s' as the service user; that it failed, because bin_dir is
\* root's or the name is taken, is not looked at.  The drop from root raises
\* when there is no account.
Ln(p) ==
    /\ pc[p] = "ln"
    /\ LET uid == ChildRunsAs(cmd[p], cred[p].euid) IN
       Finish(p, IF ~ account /\ uid # cred[p].euid /\ cred[p].euid = "root"
                 THEN "error" ELSE "ok")
    /\ UNCHANGED <<site, runs, history>>

\* _enforce_system_bin_gate()
Refused(euid) == DetectMode = "system-bin" /\ euid # "root"

Gate(p) ==
    /\ pc[p] = "gate"
    /\ IF Refused(cred[p].euid)
       THEN EmitAudit(p) /\ Finish(p, "error")
       ELSE /\ Goto(p, IF cmd[p].verb = "suffixed" THEN "mode" ELSE "uv")
            /\ UNCHANGED <<auditLog, cmd, cred, dropped, mode, exit>>
    /\ UNCHANGED <<account, binDir, ledgerDir, runs, history>>

\* install() and uninstall() read the mode again and go by that.
ReadMode(p) ==
    /\ pc[p] = "mode"
    /\ mode' = [mode EXCEPT ![p] = SuffixMode]
    /\ Goto(p, "uv")
    /\ UNCHANGED <<site, cmd, cred, dropped, exit, runs, history>>

\* run_uv(); with --as-root there is an audit line first.  A plain command ends
\* here, a suffixed one goes on to the ledger.
RunUv(p) ==
    /\ pc[p] = "uv"
    /\ account
    /\ ran' = ran \cup {[cmd |-> cmd[p],
                         uid |-> ChildRunsAs(cmd[p], cred[p].euid)]}
    /\ IF HasServiceUser /\ WithoutServiceUser(cmd[p], cred[p].euid)
       THEN EmitAudit(p) ELSE UNCHANGED auditLog
    /\ IF cmd[p].verb = "suffixed"
       THEN Goto(p, "ledger") /\ UNCHANGED <<cmd, cred, dropped, mode, exit>>
       ELSE Finish(p, "ok")
    /\ UNCHANGED <<account, binDir, ledgerDir, runs, ordinary>>

\* check_uv_path() refuses, there is no account, sudo denies, or uv fails.
RunUvFails(p) ==
    /\ pc[p] = "uv"
    /\ IF HasServiceUser /\ WithoutServiceUser(cmd[p], cred[p].euid)
       THEN EmitAudit(p) ELSE UNCHANGED auditLog
    /\ Finish(p, "error")
    /\ UNCHANGED <<account, binDir, ledgerDir, runs, history>>

\* _assert_ledger_write_allowed(), the ledger update, and its audit line.  A
\* PermissionError of the update is caught by nobody.
WriteLedger(p) ==
    /\ pc[p] = "ledger"
    /\ LET trips  == mode[p] = "system-bin" /\ cred[p].euid # "root"
           writes == CanWrite(cred[p].euid, ledgerDir)
       IN  \/ /\ trips
              /\ Finish(p, "tripwire")
              /\ UNCHANGED auditLog
           \/ /\ ~ trips /\ ~ writes
              /\ Finish(p, "denied")
              /\ UNCHANGED auditLog
           \/ /\ ~ trips /\ writes
              /\ EmitAudit(p)
              /\ Finish(p, "ok")
    /\ UNCHANGED <<account, binDir, ledgerDir, runs, history>>

----------------------------------------------------------------------------
(* setup.main()                                                            *)

\* Everything up to bin_dir; `mode' remembers is_system_bin().  --repair gives
\* every directory, bin_dir too, to the service user and is done.
SetupTree(p) ==
    /\ pc[p] = "setup"
    /\ \/ /\ cred[p].euid # "root"
          /\ Finish(p, "error")
          /\ UNCHANGED <<account, binDir>>
       \/ /\ cred[p].euid = "root" /\ "repair" \in SetupChoices
          /\ binDir' = IF account /\ binDir # "missing" THEN "svc" ELSE binDir
          /\ Finish(p, IF account THEN "ok" ELSE "error")
          /\ UNCHANGED account
       \/ /\ cred[p].euid = "root"
          /\ account' = TRUE
          /\ \E m \in SetupChoices \ {"repair"} :
                /\ mode' = [mode EXCEPT ![p] = m]
                /\ binDir' = IF m = "system-bin" THEN "root" ELSE "svc"
          /\ Goto(p, "setup2")
          /\ UNCHANGED <<cmd, cred, dropped, exit>>
    /\ UNCHANGED <<ledgerDir, auditLog, runs, history>>

\* The ledger directory follows the mode; files in it keep their owner.
SetupLedger(p) ==
    /\ pc[p] = "setup2"
    /\ ledgerDir' = IF mode[p] = "system-bin" THEN "root" ELSE "svc"
    /\ Finish(p, "ok")
    /\ UNCHANGED <<account, binDir, auditLog, runs, history>>

----------------------------------------------------------------------------
Drop(p) ==
    \/ DropGroups(p) \/ DropGid(p) \/ DropUid(p) \/ DropFails(p) \/ TryToRegain(p)

Next == \E p \in Procs :
    \/ Invoke(p) \/ Startup(p) \/ Drop(p) \/ Dispatch(p)
    \/ Exec(p) \/ Ln(p) \/ Gate(p) \/ ReadMode(p)
    \/ RunUv(p) \/ RunUvFails(p) \/ WriteLedger(p)
    \/ SetupTree(p) \/ SetupLedger(p)

Spec == Init /\ [][Next]_vars

----------------------------------------------------------------------------
(* Properties                                                              *)

\* The core invariant: with a service user configured, package code runs as
\* uid 0 only if root asked for --as-root on a plain command (escalate.py: "the
\* uv subprocess always runs as the service user"; run and uvxg drop first).
CoreInvariant ==
    HasServiceUser =>
        \A r \in ran : r.uid = "root" =>
            r.cmd.asRoot /\ r.cmd.verb \in {"plain", "other"}

\* After the startup drop nothing of root is left: no uid to go back to, no gid
\* and no supplementary group (drop_privileges_permanently: "irrevocably").
\* Commands that never escalate are in that state, or were not root to begin
\* with, in every mode.
DropComplete ==
    \A p \in Procs :
        /\ dropped[p] => cred[p] = LoginOf("svc")
        /\ HasServiceUser /\ cmd[p].verb \in NeverEscalate
              /\ pc[p] \in {"dispatch", "exec"}
           => cred[p] \in {LoginOf("svc"), LoginOf("admin")}

\* The drop is never refused half-way, and never found to be incomplete at its
\* end: each of its calls is made while the process still may make it ("The call
\* order is load-bearing": after the uid drop it can no longer change the others).
DropGoesThrough ==
    [][ \A p \in Procs :
          /\ pc[p] \in {"initgroups", "setgid", "setresuid"} /\ pc'[p] = "idle"
                => exit'[p] # "denied"
          /\ pc[p] = "regain" /\ pc'[p] # "regain" => pc'[p] = "dispatch" ]_vars

\* Whoever creates the audit log, a command that can write the ledger can append
\* its line to it, in either mode, until root changes the mode by `setup' or asks
\* for --as-root: a `sudo uvctl' in rootless mode leaves no log of root behind
\* (main's drop before anything is written; emit_audit, which swallows OSErrors,
\* would not tell).
LogStaysWritable ==
    HasServiceUser /\ ordinary =>
        \A p \in Procs :
            pc[p] = "ledger" /\ CanWrite(cred[p].euid, ledgerDir) =>
                CanAudit(cred[p].euid)
=============================================================================
