----------------------------- MODULE SideBySide -----------------------------
(***************************************************************************)
(* What `uvctl tool install/uninstall PKG --suffix SFX' promises to whoever *)
(* types one command after the other: installs live side by side.          *)
(*                                                                         *)
(* An install is absent, installed, or neither ("partial").  A command     *)
(* works on its own install, in any way and with any interruption; where   *)
(* it reports success, the install is what was asked for.  Every other     *)
(* install stays what it is, except that --force may break it.             *)
(***************************************************************************)
CONSTANT Keys     \* the installs

Jobs == [verb : {"install", "uninstall"}, key : Keys, force : BOOLEAN]
NoJob == [verb |-> "none"]

VARIABLES
    status,    \* [Keys -> {"absent", "installed", "partial"}]
    job,       \* the command that runs
    ok         \* the last command reported success

Init ==
    /\ status = [key \in Keys |-> "absent"]
    /\ job = NoJob
    /\ ok = FALSE

\* A command starts, or is turned down at once.
Begin ==
    /\ job = NoJob
    /\ job' \in Jobs \cup {NoJob}
    /\ ok' = FALSE
    /\ UNCHANGED status

SparesOthers ==
    \A key \in Keys \ {job.key} :
        \/ status'[key] = status[key]
        \/ job.force /\ status'[key] # "installed"

Work ==
    /\ job # NoJob
    /\ SparesOthers
    /\ UNCHANGED <<job, ok>>

\* Success is reported of what was asked for, and only then.
Finish ==
    /\ job # NoJob
    /\ SparesOthers
    /\ job' = NoJob
    /\ ok' \in BOOLEAN
    /\ ok' => status'[job.key] = IF job.verb = "install" THEN "installed" ELSE "absent"

Next == Begin \/ Work \/ Finish

Spec == Init /\ [][Next]_<<status, job, ok>>
=============================================================================
