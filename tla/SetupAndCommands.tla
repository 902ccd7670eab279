-------------------------- MODULE SetupAndCommands --------------------------
(***************************************************************************)
(* Commands on a server that `uvctl setup' makes and changes.              *)
(*                                                                         *)
(* A command finds its settings in config.toml and its operating mode in   *)
(* who owns bin_dir, and reads both more than once: at startup, in         *)
(* cmd_forward(), and the mode again in install().  This module puts those *)
(* readings, and the three places an install writes to, under Setup's      *)
(* steps.  How the startup drop works is Privilege's subject, what an      *)
(* install does to bin_dir SuffixedInstall's.                              *)
(***************************************************************************)
EXTENDS Setup

CONSTANT Verbs \* "suffixed" and "plain", the installs to explore

ASSUME CommandsAssumption ==
    Verbs \subseteq {"suffixed", "plain"} /\ Verbs # {} /\ Envs # {}

VARIABLES
    cmd,      \* a process's command
    uid,      \* whom it runs as
    mode,     \* the mode install() goes by
    state,    \* STATE_COMPLETE or STATE_PARTIAL
    promised  \* history: commands that start on a settled site, as root or as
              \* the service user, without overrides

command == <<cmd, uid, mode, state>>
allVars == <<vars, command, promised>>

Commands == [ verb : Verbs, asRoot : BOOLEAN, env : Envs ]
Uids     == Owners \cup Callers
CommandPCs == { "startup", "gate", "mode", "uv", "link", "ledger" }

TypeOK ==
    /\ SiteOK /\ HistoryOK
    /\ pc \in [Procs -> SetupPCs \cup CommandPCs \cup {"idle"}]
    /\ eff \in [Procs -> Files]
    /\ admins \in [Procs -> Groups]
    /\ exit \in [Procs -> { "none", "ok", "failed", "error", "raised", "died",
                            "partial", "tripwire", "denied" }]
    /\ cmd \in [Procs -> Commands]
    /\ uid \in [Procs -> Uids]
    /\ mode \in [Procs -> {"rootless", "system-bin"}]
    /\ state \in [Procs -> {"complete", "partial"}]
    /\ promised \subseteq Procs

NoCommand == [ verb |-> CHOOSE v \in Verbs : TRUE, asRoot |-> FALSE,
               env |-> CHOOSE env \in Envs : TRUE ]

AllInit ==
    /\ Init
    /\ cmd = [p \in Procs |-> NoCommand]
    /\ uid = [p \in Procs |-> "root"]
    /\ mode = [p \in Procs |-> "rootless"]
    /\ state = [p \in Procs |-> "complete"]
    /\ promised = {}

----------------------------------------------------------------------------
(* Readings                                                                *)

CanWrite(who, dir) == owner[dir] # "missing" /\ who \in {"root", owner[dir]}

\* _detect_mode(): whether the service user may write bin_dir
DetectMode(s) ==
    CASE s.service_user \notin accounts \/ owner[s.bin_dir] = "missing" -> "undetermined"
      [] s.service_user \in accounts /\ owner[s.bin_dir] = s.service_user -> "rootless"
      [] OTHER -> "system-bin"

\* Variant: what cannot be determined stays so.
NamedMode(s) == DetectMode(s)

\* suffix._mode()
SuffixMode(s) == IF DetectMode(s) = "system-bin" THEN "system-bin" ELSE "rootless"

\* The settings a command resolves at this moment.
Settings(p) == Valued(Resolve(cmd[p].env, config))

CommandEnds(p, code) ==
    /\ Finish(p, code)
    /\ cmd'   = [cmd EXCEPT ![p] = NoCommand]
    /\ uid'   = [uid EXCEPT ![p] = "root"]
    /\ mode'  = [mode EXCEPT ![p] = "rootless"]
    /\ state' = [state EXCEPT ![p] = "complete"]

----------------------------------------------------------------------------
(* main() and cmd_forward()                                                *)

Invoke(p) ==
    /\ pc[p] = "idle"
    /\ Count(p)
    /\ \E who \in Callers, verb \in Verbs, asRoot \in BOOLEAN, env \in Envs :
          /\ who \in ServiceUsers => who \in accounts
          /\ asRoot => who = "root"
          /\ uid' = [uid EXCEPT ![p] = who]
          /\ cmd' = [cmd EXCEPT ![p] = [verb |-> verb, asRoot |-> asRoot, env |-> env]]
          /\ promised' = IF /\ settled /\ p \in alone' /\ env["bin_dir"] = Unset
                            /\ who \in {"root", config.service_user}
                         THEN promised \cup {p} ELSE promised \ {p}
    /\ exit' = [exit EXCEPT ![p] = "none"]
    /\ Goto(p, "startup")
    /\ UNCHANGED <<site, eff, admins, stops, settled, again, mode, state>>

\* _maybe_drop_privileges(): for the user and the mode of this moment
Startup(p) ==
    /\ pc[p] = "startup"
    /\ LET s == Settings(p) IN
       uid' = IF uid[p] = "root" /\ ~ cmd[p].asRoot /\ DetectMode(s) = "rootless"
              THEN [uid EXCEPT ![p] = s.service_user] ELSE uid
    /\ Goto(p, "gate")
    /\ UNCHANGED <<site, Running, cmd, mode, state, promised>>

\* Variant: nobody is refused.
Admitted(m, who) == FALSE

Refused(m, who) == m = "system-bin" /\ who # "root"

\* cmd_forward() resolves the settings for good, and refuses at the front door.
Gate(p) ==
    /\ pc[p] = "gate"
    /\ LET s == Settings(p) IN
       IF Refused(DetectMode(s), uid[p])
       THEN CommandEnds(p, "error")
       ELSE /\ eff' = [eff EXCEPT ![p] = s]
            /\ Goto(p, IF cmd[p].verb = "suffixed" THEN "mode" ELSE "uv")
            /\ UNCHANGED <<admins, exit, command>>
    /\ UNCHANGED <<site, bounds, history, promised>>

----------------------------------------------------------------------------
(* install(), and uv for a plain one                                       *)

ReadMode(p) ==
    /\ pc[p] = "mode"
    /\ mode' = [mode EXCEPT ![p] = SuffixMode(eff[p])]
    /\ Goto(p, "uv")
    /\ UNCHANGED <<site, Running, cmd, uid, state, promised>>

\* plan_privilege(); --as-root counts on the plain path
ChildRunsAs(p) ==
    IF cmd[p].verb = "plain" /\ cmd[p].asRoot THEN "root" ELSE eff[p].service_user

\* uv is recorded, the account is there, and uv can write the tree: it leaves
\* entries of its own there.  A plain install needs bin_dir as well.
RunUv(p) ==
    /\ pc[p] = "uv"
    /\ eff[p].uv_path # Unset
    /\ ChildRunsAs(p) \in accounts \cup {"root"}
    /\ CanWrite(ChildRunsAs(p), "tree")
    /\ inside' = [inside EXCEPT !["tree"] = @ \cup {ChildRunsAs(p)}]
    /\ \/ /\ cmd[p].verb = "suffixed"
          /\ Goto(p, "link")
          /\ UNCHANGED <<eff, admins, exit, command>>
       \/ /\ cmd[p].verb = "plain" /\ CanWrite(ChildRunsAs(p), eff[p].bin_dir)
          /\ CommandEnds(p, "ok")
    /\ UNCHANGED <<accounts, owner, config, profile, group, sudoers, bounds,
                   history, promised>>

\* check_uv_path(), sudo, or uv itself says no.
RunUvFails(p) ==
    /\ pc[p] = "uv"
    /\ CommandEnds(p, IF eff[p].uv_path = Unset THEN "error" ELSE "failed")
    /\ UNCHANGED <<site, bounds, history, promised>>

\* _place_symlink(): os.symlink() as the process, or `ln -s' as root
Link(p) ==
    /\ pc[p] = "link"
    /\ state' = IF mode[p] = "rootless" /\ ~ CanWrite(uid[p], eff[p].bin_dir)
                THEN [state EXCEPT ![p] = "partial"] ELSE state
    /\ Goto(p, "ledger")
    /\ UNCHANGED <<site, Running, cmd, uid, mode, promised>>

\* _assert_ledger_write_allowed()
Trips(p) == mode[p] = "system-bin" /\ uid[p] # "root"

\* The end of an install: the tripwire, record_install() whose
\* PermissionError nobody catches, and the exit code
WriteLedger(p) ==
    /\ pc[p] = "ledger"
    /\ CommandEnds(p, CASE Trips(p) -> "tripwire"
                        [] ~ Trips(p) /\ ~ CanWrite(uid[p], "ledger") -> "denied"
                        [] ~ Trips(p) /\ CanWrite(uid[p], "ledger") ->
                              IF state[p] = "complete" THEN "ok" ELSE "partial")
    /\ UNCHANGED <<site, bounds, history, promised>>

----------------------------------------------------------------------------
CommandStep(p) ==
    \/ Invoke(p) \/ Startup(p) \/ Gate(p) \/ ReadMode(p)
    \/ RunUv(p) \/ RunUvFails(p) \/ Link(p) \/ WriteLedger(p)

AllNext == \E p \in Procs :
    \/ SetupNext(p) /\ UNCHANGED <<command, promised>>
    \/ CommandStep(p)

AllSpec == AllInit /\ [][AllNext]_allVars

----------------------------------------------------------------------------
(* Properties                                                              *)

\* config.toml is written last of what a command needs: whatever it names is
\* there, its account, uv, and a tree and a bin_dir that are in the hands of a
\* service user with an account and not root's by accident, also when setups run
\* at once, stop anywhere, or change the service user.  Not that of the config in
\* that case: a setup for another user may have done its chown since (main).
ConfigNamesOwnedSite ==
    config # NoFile =>
        /\ config.service_user \in accounts /\ config.uv_path # Unset
        /\ owner["tree"] \in accounts
        /\ IF IsSystemBin(config.bin_dir) THEN owner[config.bin_dir] # "missing"
                                          ELSE owner[config.bin_dir] \in accounts

\* A setup that nobody ran beside and that says it is complete has made the
\* site agree with itself, whatever an earlier one left half-done: the three
\* owners, the two files and the account belong to one set of settings.
SetupOkMeansReady ==
    [][ \A p \in Procs :
          (WriteProfile(p) \/ WriteSudoers(p)) /\ exit'[p] = "ok" /\ p \in alone =>
              LET who == IF IsSystemBin(config.bin_dir) THEN "root" ELSE config.service_user
              IN  /\ config = eff[p] /\ profile' = config.bin_dir
                  /\ config.service_user \in accounts
                  /\ owner["tree"] = config.service_user
                  /\ owner[config.bin_dir] = who /\ owner["ledger"] = who ]_allVars

\* "A second run with everything already present changes nothing": a setup
\* without options on a settled site is a series of no-ops.
RerunChangesNothing ==
    [][ \A p \in again \cap alone : SetupStep(p) => UNCHANGED site ]_allVars

\* After setup, a command of root or of the service user that nobody runs beside
\* never lacks the privilege for its second half: once package code has run, the
\* links and the ledger can be written ("refused at the front door ... rather
\* than failing mid-operation").
NoHalfWay ==
    \A p \in promised \cap alone : exit[p] \notin {"partial", "tripwire", "denied"}

\* After a repair that nobody ran beside, everything in the tree and in bin_dir
\* is the service user's, root's leftovers of --as-root included.
RepairOkMeansOwned ==
    [][ \A p \in alone :
          RepairInBin(p) =>
              \A d \in {"tree", eff[p].bin_dir} :
                  /\ owner'[d] \in {"missing", eff[p].service_user}
                  /\ inside'[d] \subseteq {eff[p].service_user} ]_allVars

----------------------------------------------------------------------------
(* What the documentation says and the code does not do                    *)

\* System directories stay root's ("uvctl must not chown these to the service
\* user").
SystemBinStaysRoots == \A d \in SystemBinDirs : owner[d] = "root"
=============================================================================
