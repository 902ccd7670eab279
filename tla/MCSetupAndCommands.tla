------------------------ MODULE MCSetupAndCommands ------------------------
(***************************************************************************)
(* Small instances of SetupAndCommands for TLC.                            *)
(***************************************************************************)
EXTENDS SetupAndCommands

NoFlags == [bin_dir |-> Unset, service_user |-> Unset, group |-> "none", repair |-> FALSE]

\* /usr/local/bin and another service user, the sudoers fragment, repair
MCRequests ==
    { NoFlags,
      [NoFlags EXCEPT !.bin_dir = "/usr/local/bin"],
      [NoFlags EXCEPT !.service_user = "other"],
      [NoFlags EXCEPT !.group = "valid", !.bin_dir = Empty],
      [NoFlags EXCEPT !.group = "unsafe"],
      [NoFlags EXCEPT !.repair = TRUE] }

Override(dir) == [key \in {"bin_dir"} |-> dir]
MCEnvs == {Override(Unset), Override("/usr/local/bin")}

RepairRequests == { [NoFlags EXCEPT !.bin_dir = "/usr/local/bin"],
                    [NoFlags EXCEPT !.repair = TRUE] }
NoOverride == {Override(Unset)}
=============================================================================
