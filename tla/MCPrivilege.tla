---------------------------- MODULE MCPrivilege ----------------------------
(***************************************************************************)
(* Small instances of Privilege for TLC.                                   *)
(***************************************************************************)
EXTENDS Privilege
=============================================================================
