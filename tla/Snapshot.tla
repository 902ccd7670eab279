------------------------------ MODULE Snapshot ------------------------------
(***************************************************************************)
(* Directory snapshots and their comparison (snapshot.py).                 *)
(*                                                                         *)
(* A snapshot of bin_dir is a function from paths to directory entries;    *)
(* Absent is the value of a path with no entry.  Which fields an entry has *)
(* does not matter to the comparison, only whether two entries differ in   *)
(* one of the compared fields, so entries are compared as whole values.    *)
(***************************************************************************)
CONSTANT Absent

\* A difference between two snapshots at one path (class Change).
ChangeKind(b, a) ==
    CASE b = Absent /\ a # Absent -> "added"
      [] b # Absent /\ a = Absent -> "removed"
      [] OTHER                    -> "modified"

ChangeAt(before, after, path) ==
    [ path   |-> path,
      kind   |-> ChangeKind(before[path], after[path]),
      before |-> before[path],
      after  |-> after[path] ]

\* diff(before, after)
Diff(before, after) ==
    { ChangeAt(before, after, path) :
        path \in { q \in DOMAIN before : before[q] # after[q] } }

\* Variant: an allowed path is exempt whatever happened to it.
UnattributedByPath(changes, allowed) ==
    { c \in changes : c.path \notin allowed }

\* unattributed(changes, allowed_added=...): only an ADDITION at an allowed
\* path is exempt; a removal or a modification there is a finding.
Unattributed(changes, allowed) ==
    { c \in changes : ~ (c.kind = "added" /\ c.path \in allowed) }
=============================================================================
