---------------------------- MODULE PlainForward ----------------------------
(***************************************************************************)
(* Plain forwards: `uvctl tool install PKG' and `uvctl tool uninstall PKG' *)
(* without a suffix (cli.py), where uv itself links into bin_dir and uvctl *)
(* compares bin_dir before and after (suffix.py, snapshot.py).             *)
(*                                                                         *)
(* A path of bin_dir is named by the executable it is for.  What uv does   *)
(* is external: it links the executables of a release, fails or (forwarded *)
(* --force) overwrites when something else holds a name, and takes its own *)
(* links away again.                                                       *)
(***************************************************************************)
EXTENDS Naturals

CONSTANTS
    Procs,        \* the uvctl processes
    Packages,     \* packages
    Exes,         \* executables, which name paths of bin_dir
    Provides,     \* [Packages -> the sets of executables a release may have]
    Files,        \* entries of bin_dir that are no link into a tool environment
    Absent,       \* no entry
    Mode,         \* "rootless" or "system-bin"
    SkipVerify,   \* values of --no-verify to explore
    Readings,     \* what _plain_name() makes of command lines: [name, pkg], the
                  \* name it tells and the package uv works on
    Unknown,      \* no name can be told
    MaxOps,       \* bound: commands started in one behaviour
    OutOfBands    \* bound: writes to bin_dir by others

ASSUME ForwardAssumption ==
    /\ Packages # {}
    /\ Provides \in [Packages -> SUBSET ((SUBSET Exes) \ {{}})]
    /\ Mode \in {"rootless", "system-bin"}
    /\ SkipVerify \subseteq BOOLEAN
    /\ \A r \in Readings : r.pkg \in Packages
    /\ Unknown \notin Packages /\ Absent \notin [env : Packages, exe : Exes]
    /\ MaxOps \in Nat /\ OutOfBands \in Nat

INSTANCE Snapshot

\* A symlink to <tool_dir>/<env>/bin/<exe>, at whatever path.
Symlinks == [env : Packages, exe : Exes]
Entries  == Symlinks \cup Files \cup {Absent}
EmptyBin == [e \in Exes |-> Absent]

Names == { r.name : r \in Readings } \cup {Unknown}

Commands == [ verb : {"install", "uninstall"}, pkg : Packages, name : Names,
              monitor : BOOLEAN, skipped : BOOLEAN, op : Nat ]
NoCommand == [ verb |-> "install", pkg |-> CHOOSE pkg \in Packages : TRUE,
               name |-> Unknown,
               monitor |-> FALSE, skipped |-> FALSE, op |-> 0 ]

\* The files audit lines are appended to: the log, and what the plain paths
\* name instead.
AuditFiles == {"audit.log", "plain", "plain_uninstall"}

----------------------------------------------------------------------------
VARIABLES
    bin,     \* bin_dir: [Exes -> Entries]
    env,     \* the tool environments: [Packages -> SUBSET Exes], {} for none
    audit,   \* [AuditFiles -> the events in it, with their operations]
    pc, cmd,
    pre,     \* the snapshot `pre'
    code,    \* uv's exit code
    exit,    \* exit code of the last command
    started, oobs

proc == <<pc, cmd, pre, code, exit>>
vars == <<bin, env, audit, proc, started, oobs>>

ExitCodes == {"none", "ok", "failed", "integrity"}

TypeOK ==
    /\ bin \in [Exes -> Entries]
    /\ env \in [Packages -> SUBSET Exes]
    /\ audit \in [AuditFiles -> SUBSET ({"verify_skipped", "integrity_finding"} \X Nat)]
    /\ pc \in [Procs -> {"idle", "uv", "inspect", "rollback"}]
    /\ cmd \in [Procs -> Commands]
    /\ pre \in [Procs -> [Exes -> Entries]]
    /\ code \in [Procs -> {"ok", "failed"}]
    /\ exit \in [Procs -> ExitCodes]
    /\ started \in Nat /\ oobs \in Nat

Init ==
    /\ bin \in [Exes -> Files \cup {Absent}]
    /\ env = [pkg \in Packages |-> {}]
    /\ audit = [f \in AuditFiles |-> {}]
    /\ pc = [p \in Procs |-> "idle"]
    /\ cmd = [p \in Procs |-> NoCommand]
    /\ pre = [p \in Procs |-> EmptyBin]
    /\ code = [p \in Procs |-> "ok"]
    /\ exit = [p \in Procs |-> "none"]
    /\ started = 0 /\ oobs = 0

----------------------------------------------------------------------------
(* Attribution                                                             *)

\* Variant: any link into the environment will do.
PointsInside(path, v, pkg) == v \in Symlinks /\ v.env = pkg

\* _is_canonical_entrypoint(): the target is <env>/bin/<same basename>
Canonical(path, v, pkg) == v \in Symlinks /\ v.env = pkg /\ v.exe = path

\* Variant: only what is there afterwards is looked at.
AttributableAfter(c, pkg) == Canonical(c.path, c.after, pkg)

Attributable(c, pkg) ==
    Canonical(c.path, IF c.kind = "removed" THEN c.before ELSE c.after, pkg)

\* classify_forwarded_changes(changes, tool_env_dir)
Findings(changes, pkg) == { c \in changes : ~ Attributable(c, pkg) }

----------------------------------------------------------------------------
(* Helpers                                                                 *)

\* emit_audit(event, ..., path=...): `path' is the parameter that names the log
\* file, so the plain paths' field of that name sends the line elsewhere.
PlainPath(verb) == IF verb = "install" THEN "plain" ELSE "plain_uninstall"

\* Variant: the line does not tell which operation it is about.
EmitAnonymous(event, c) ==
    audit' = [audit EXCEPT ![PlainPath(c.verb)] = @ \cup {event}]

EmitAudit(event, c) ==
    audit' = [audit EXCEPT ![PlainPath(c.verb)] = @ \cup {<<event, c.op>>}]

Goto(p, label) == pc' = [pc EXCEPT ![p] = label]

Finish(p, result) ==
    /\ Goto(p, "idle")
    /\ exit' = [exit EXCEPT ![p] = result]
    /\ cmd'  = [cmd EXCEPT ![p] = NoCommand]
    /\ pre'  = [pre EXCEPT ![p] = EmptyBin]
    /\ code' = [code EXCEPT ![p] = "ok"]

\* uv takes away the tool: its environment, and its links to it.
UvRemoves(pkg) ==
    /\ env' = [env EXCEPT ![pkg] = {}]
    /\ bin' = [e \in Exes |-> IF Canonical(e, bin[e], pkg) THEN Absent ELSE bin[e]]

\* Back in uvctl with uv's exit code: look at what changed, or be done.
AfterUv(p, result) ==
    IF cmd[p].monitor
    THEN /\ Goto(p, "inspect")
         /\ code' = [code EXCEPT ![p] = result]
         /\ UNCHANGED <<cmd, pre, exit>>
    ELSE Finish(p, result)

----------------------------------------------------------------------------
(* _forward_install() and _forward_uninstall()                             *)

\* A command about a package whose name can be told is monitored.  --no-verify,
\* which cmd_forward() refuses in system-bin mode, skips that.
CommandFor(verb, reading, skip) ==
    LET known   == reading.name # Unknown
        skipped == known /\ skip /\ Mode = "rootless"
    IN  [ verb |-> verb, pkg |-> reading.pkg, name |-> reading.name,
          monitor |-> known /\ ~ skipped, skipped |-> skipped, op |-> started + 1 ]

\* Up to the snapshot.  A skipped verification is audited.
StartForward(p) ==
    /\ pc[p] = "idle" /\ started < MaxOps
    /\ \E verb \in {"install", "uninstall"}, reading \in Readings,
          skip \in SkipVerify :
          LET c == CommandFor(verb, reading, skip) IN
          /\ ~ (skip /\ Mode = "system-bin")
          /\ cmd' = [cmd EXCEPT ![p] = c]
          /\ IF c.skipped THEN EmitAudit("verify_skipped", c) ELSE UNCHANGED audit
          /\ IF c.monitor THEN pre' = [pre EXCEPT ![p] = bin] ELSE UNCHANGED pre
    /\ started' = started + 1
    /\ exit' = [exit EXCEPT ![p] = "none"]
    /\ Goto(p, "uv")
    /\ UNCHANGED <<bin, env, code, oobs>>

\* uv installs or upgrades the tool, links what the release has and clears the
\* links of what it no longer has; or finds it installed and does nothing.  A
\* name that something else holds makes it fail, or is overwritten.
UvInstalls(p) ==
    /\ pc[p] = "uv" /\ cmd[p].verb = "install"
    /\ LET pkg == cmd[p].pkg IN
       \/ /\ env[pkg] # {}
          /\ UNCHANGED <<bin, env>>
       \/ \E xs \in Provides[pkg] :
          /\ env' = [env EXCEPT ![pkg] = xs]
          /\ bin' = [e \in Exes |->
                        CASE e \in xs -> [env |-> pkg, exe |-> e]
                          [] e \notin xs /\ Canonical(e, bin[e], pkg) -> Absent
                          [] OTHER -> bin[e]]
    /\ AfterUv(p, "ok")
    /\ UNCHANGED <<audit, started, oobs>>

\* A failed `uv tool install' is returned as it is: nothing is inspected.
UvInstallFails(p) ==
    /\ pc[p] = "uv" /\ cmd[p].verb = "install"
    /\ Finish(p, "failed")
    /\ UNCHANGED <<bin, env, audit, started, oobs>>

\* A failed `uv tool uninstall' goes on to the inspection.
UvUninstalls(p) ==
    /\ pc[p] = "uv" /\ cmd[p].verb = "uninstall"
    /\ \/ /\ env[cmd[p].pkg] # {}
          /\ UvRemoves(cmd[p].pkg)
          /\ AfterUv(p, "ok")
       \/ /\ UNCHANGED <<bin, env>>
          /\ AfterUv(p, "failed")
    /\ UNCHANGED <<audit, started, oobs>>

\* The second snapshot, the comparison, and the verdict.
Inspect(p) ==
    /\ pc[p] = "inspect"
    /\ LET findings == Findings(Diff(pre[p], bin), cmd[p].name) IN
       \/ /\ findings = {}
          /\ Finish(p, code[p])
          /\ UNCHANGED audit
       \/ /\ findings # {} /\ cmd[p].verb = "uninstall"
          /\ EmitAudit("integrity_finding", cmd[p])
          /\ Finish(p, "integrity")
       \/ /\ findings # {} /\ cmd[p].verb = "install"
          /\ Goto(p, "rollback")
          /\ UNCHANGED <<audit, cmd, pre, code, exit>>
    /\ UNCHANGED <<bin, env, started, oobs>>

\* _rollback_plain(): `uv tool uninstall' of the name that was told, whether it
\* succeeds or not.
Rollback(p) ==
    /\ pc[p] = "rollback"
    /\ \/ \E pkg \in Packages :
             pkg = cmd[p].name /\ env[pkg] # {} /\ UvRemoves(pkg)
       \/ UNCHANGED <<bin, env>>
    /\ EmitAudit("integrity_finding", cmd[p])
    /\ Finish(p, "integrity")
    /\ UNCHANGED <<started, oobs>>

\* Somebody else writes bin_dir: an admin, or code that uv runs for a package.
OutOfBand ==
    /\ oobs < OutOfBands
    /\ \E e \in Exes, v \in Entries : v # bin[e] /\ bin' = [bin EXCEPT ![e] = v]
    /\ oobs' = oobs + 1
    /\ UNCHANGED <<env, audit, proc, started>>

Step(p) ==
    \/ UvInstalls(p) \/ UvInstallFails(p) \/ UvUninstalls(p)
    \/ Inspect(p) \/ Rollback(p)

Next ==
    \/ \E p \in Procs : StartForward(p) \/ Step(p)
    \/ OutOfBand

Spec == Init /\ [][Next]_vars

----------------------------------------------------------------------------
(* Properties                                                              *)

\* A finding is never uv's own doing: while nobody else writes bin_dir and one
\* command runs at a time, installs, upgrades that drop an entry point and
\* uninstalls all pass, if the package was told right
\* (classify_forwarded_changes: "upgrades legitimately clear stale entrypoints
\* of the same tool").
NoFalseFinding ==
    oobs = 0 /\ (\A r \in Readings : r.name \in {r.pkg, Unknown}) =>
        \A p \in Procs : exit[p] # "integrity"

\* A monitored command that does not report a finding leaves bin_dir as it was
\* except for canonical links of the tool it names, also when somebody planted a
\* link into the tool's environment under another name.
QuietMeansOwnChanges ==
    [][ \A p \in Procs :
          Inspect(p) /\ pc'[p] = "idle" /\ exit'[p] # "integrity" =>
              \A e \in Exes : bin[e] # pre[p][e] =>
                  \/ bin[e] = [env |-> cmd[p].name, exe |-> e]
                  \/ /\ bin[e] = Absent
                     /\ pre[p][e] = [env |-> cmd[p].name, exe |-> e] ]_vars

\* The rollback of an install takes away only what that install brought: a
\* tool that was installed before it is still installed afterwards ("rollback of
\* the tool uv just installed").
RollbackSparesOthers ==
    [][ \A p \in Procs :
          Rollback(p) => \A pkg \in Packages :
              (\E e \in Exes : pre[p][e] = [env |-> pkg, exe |-> e])
                  => env'[pkg] = env[pkg] ]_vars

\* Skipping the verification "always records a verify_skipped audit event": the
\* event of a running command that skips is in the audit log.
SkipIsAudited ==
    \A p \in Procs :
        pc[p] # "idle" /\ cmd[p].skipped =>
            <<"verify_skipped", cmd[p].op>> \in audit["audit.log"]
=============================================================================
