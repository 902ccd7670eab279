----------------------------- MODULE LedgerOps -----------------------------
(***************************************************************************)
(* The install ledger as a value (ledger.py): the transformations that     *)
(* record_install and mark_removed apply to the list of install records    *)
(* between loading the file and replacing it.                              *)
(*                                                                         *)
(* The list is a set here.  A record carries the operation that wrote it   *)
(* (its timestamp), so no two records of the list are equal, and nothing   *)
(* that reads the list (find_active, verify_ledger) depends on its order:  *)
(* at most one record of a key is active.                                  *)
(***************************************************************************)

\* Variant: the record is looked up by its suffix alone.
MatchesSuffix(record, key) == record.key[2] = key[2] /\ ~ record.removed

\* _matches(record, package, suffix): keyed by (package, suffix) and active.
Matches(record, key) == record.key = key /\ ~ record.removed

\* Variant: the new record is appended, the old one stays.
AppendInstall(installs, record) == installs \cup {record}

\* record_install(record): drop the active record of the key, append the new.
RecordInstall(installs, record) ==
    { r \in installs : ~ Matches(r, record.key) } \cup {record}

\* mark_removed(package, suffix): flag every matching record; `found' tells
\* whether there was one (the file is rewritten only then).
Found(installs, key) == \E r \in installs : Matches(r, key)

\* Variant: the flag is not set.
MarkNothing(installs, key) == installs

MarkRemoved(installs, key) ==
    { IF Matches(r, key) THEN [r EXCEPT !.removed = TRUE] ELSE r :
        r \in installs }

\* The records find_active can return and verify_ledger looks at.
Active(installs, key) == { r \in installs : Matches(r, key) }
=============================================================================
