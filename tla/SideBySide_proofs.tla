------------------------- MODULE SideBySide_proofs -------------------------
(***************************************************************************)
(* What suffixed installs promise to one command after the other, for any  *)
(* packages, suffixes, executables and releases, and any number of crashes *)
(* and other mishaps the promise is not made void by.                      *)
(*                                                                         *)
(* First the ledger file; then bin_dir and the trees.  The invariants      *)
(* follow a command from its first to its last access: TreeInv its scratch *)
(* tree and its lists, whatever happens to it; OwnedInv, LinkedInv and     *)
(* RemovalInv what it does to bin_dir, while nobody else writes there;     *)
(* NamedInv, PureInv, TreedInv and StandingInv what killed and failed      *)
(* commands leave; OpsInv and QuietInv the records, while nothing has gone *)
(* wrong.                                                                  *)
(***************************************************************************)
EXTENDS SuffixedInstall_proofs, SequenceTheorems

OneProc == \A p, q \in Procs : p = q

----------------------------------------------------------------------------
(* The ledger                                                              *)

\* What a process is about to write back is made from the current file.
CopyIsCurrent == \A p \in Procs : pc[p] = "save" => copy[p] = ledger

\* An update changes the active records of one key: record_install() leaves the
\* new one there, mark_removed() none.
LEMMA UpdatesOneKey ==
    ASSUME NEW installs \in SUBSET Records, NEW key,
           NEW r, r.key = key, ~ r.removed
    PROVE  /\ Active(RecordInstall(installs, r), key) = {r}
           /\ Active(MarkRemoved(installs, key), key) = {}
           /\ \A k : k # key =>
                  /\ Active(RecordInstall(installs, r), k) = Active(installs, k)
                  /\ Active(MarkRemoved(installs, key), k) = Active(installs, k)
<1> DEFINE mark(s) == IF Matches(s, key) THEN [s EXCEPT !.removed = TRUE] ELSE s
<1>1. MarkRemoved(installs, key) = { mark(s) : s \in installs }
  BY DEF MarkRemoved
<1>2. ASSUME NEW s \in installs
      PROVE  /\ mark(s).key = s.key
             /\ Matches(s, key) => mark(s).removed
             /\ ~ Matches(s, key) => mark(s) = s
  BY DEF Records, Matches
<1> HIDE DEF mark
<1>3. Active(RecordInstall(installs, r), key) = {r}
  BY DEF Active, RecordInstall, Matches
<1>4. Active(MarkRemoved(installs, key), key) = {}
  BY <1>1, <1>2 DEF Active, Matches
<1>5. ASSUME NEW k, k # key
      PROVE  Active(RecordInstall(installs, r), k) = Active(installs, k)
  BY <1>5 DEF Active, RecordInstall, Matches
<1>6. ASSUME NEW k, k # key
      PROVE  Active(MarkRemoved(installs, key), k) = Active(installs, k)
  <2>1. ASSUME NEW s \in installs, Matches(mark(s), k)
        PROVE  Matches(s, k) /\ mark(s) = s
    BY <1>2, <1>6, <2>1 DEF Matches
  <2>2. ASSUME NEW s \in installs, Matches(s, k)  PROVE mark(s) = s
    BY <1>2, <1>6, <2>2 DEF Matches
  <2> QED
    BY <1>1, <2>1, <2>2 DEF Active
<1> QED
  BY <1>3, <1>4, <1>5, <1>6

----------------------------------------------------------------------------
(* One process                                                             *)

\* A step of the only process loads the ledger, or leaves it outside of the
\* window between loading and saving, or touches neither.
LEMMA WindowStep ==
    ASSUME TypeOK, [Next]_vars, OneProc, NEW q \in Procs
    PROVE  \/ LoadLedger(q)
           \/ pc'[q] # "save"
           \/ UNCHANGED <<pc, copy, ledger>>
<1> USE TypeParts DEF LocalsOK, OneProc
<1>1. ASSUME NEW code, Finish(q, code)  PROVE pc'[q] # "save"
  BY <1>1 DEF Finish, Goto
<1>2. ASSUME NEW label, label # "save", Goto(q, label)  PROVE pc'[q] # "save"
  BY <1>2 DEF Goto
<1>3. CASE Start(q)
  BY <1>3, <1>2 DEF Start, StartInstall, StartUninstall, disk
<1>4. CASE InstallStep(q)
  BY <1>4, <1>1, <1>2
     DEF InstallStep, UvInstalls, UvFails, UvRefused, PostCheck, CheckName, Cleanup,
         CleanupFaults, ScanExes, LinkNext, LinkingDone, RemoveForeign,
         PlaceSymlink, LinkingFaults, FinalCheck, Linked, AfterLoop,
         LinkingIncomplete
<1>5. CASE UninstallStep(q)
  BY <1>5, <1>1, <1>2
     DEF UninstallStep, UvUninstall, RemoveLink, RemoveLinkFaults, LinksRemoved,
         RmTree, RmTreeFaults, disk
<1>6. CASE UvRefused(q) \/ SaveLedger(q) \/ Crash(q)
  BY <1>6, <1>1 DEF UvRefused, SaveLedger, Crash
<1>7. CASE OutOfBand \/ UNCHANGED vars
  BY <1>7 DEF OutOfBand, vars, disk, locals
<1> QED
  BY <1>3, <1>4, <1>5, <1>6, <1>7 DEF Next, Step, LedgerStep

LEMMA CopyStaysCurrent ==
    ASSUME TypeOK, CopyIsCurrent, [Next]_vars, OneProc
    PROVE  CopyIsCurrent'
<1> USE DEF OneProc
<1> SUFFICES ASSUME NEW q \in Procs, pc'[q] = "save"
             PROVE  copy'[q] = ledger'
  BY DEF CopyIsCurrent
<1>1. CASE LoadLedger(q)
  BY <1>1 DEF LoadLedger, disk, TypeOK
<1>2. CASE UNCHANGED <<pc, copy, ledger>>
  BY <1>2 DEF CopyIsCurrent
<1> QED
  BY <1>1, <1>2, WindowStep

----------------------------------------------------------------------------
(* The records of the others                                               *)

\* An update changes records of its own key only, and no removed one.
LEMMA OthersStay ==
    ASSUME NEW installs, NEW r \in installs, NEW key, ~ Matches(r, key)
    PROVE  /\ \A new : new.key = key => r \in RecordInstall(installs, new)
           /\ r \in MarkRemoved(installs, key)
BY DEF RecordInstall, MarkRemoved

\* For one process, whatever mishap it meets, no update loses a record of
\* another install, or one of its own that was removed.
THEOREM AppendOrReplaceForOne ==
    ASSUME OneProc
    PROVE  Spec => AppendOrReplace
<1> USE DEF OneProc
<1> DEFINE Kept == \A r \in ledger :
               (\A p \in Procs : pc'[p] # pc[p] => r.key # cmd[p].key \/ r.removed)
                   => r \in ledger'
<1>1. TypeOK /\ CopyIsCurrent /\ [Next]_vars => Kept
  <2> SUFFICES ASSUME TypeOK, CopyIsCurrent, [Next]_vars, NEW r \in ledger,
                      \A p \in Procs : pc'[p] # pc[p] => r.key # cmd[p].key \/ r.removed
               PROVE  r \in ledger'
    OBVIOUS
  <2>1. ASSUME NEW p \in Procs, SaveLedger(p)  PROVE r \in ledger'
    <3> DEFINE key == cmd[p].key
    <3>1. copy[p] = ledger
      BY <2>1 DEF SaveLedger, CopyIsCurrent
    <3>2. pc[p] = "save" /\ pc'[p] = "idle"
      BY <2>1, TypeParts DEF SaveLedger, Finish, Goto, LocalsOK
    <3>3. ~ Matches(r, key)
      BY <3>2 DEF Matches
    <3>4. CASE ledger' = RecordInstall(copy[p], NewRecord(p))
      <4>1. NewRecord(p).key = key
        BY DEF NewRecord
      <4> QED
        BY <3>1, <3>3, <3>4, <4>1, OthersStay
    <3>5. CASE ledger' = MarkRemoved(copy[p], key)
      BY <3>1, <3>3, <3>5, OthersStay
    <3>6. CASE ledger' = ledger
      BY <3>6
    <3> QED
      BY <2>1, <3>4, <3>5, <3>6 DEF SaveLedger
  <2> QED
    BY <2>1, LedgerStepOnly
<1>2. Init => CopyIsCurrent
  BY DEF Init, CopyIsCurrent
<1>3. TypeOK /\ CopyIsCurrent /\ [Next]_vars => CopyIsCurrent'
  BY CopyStaysCurrent
<1>4. Kept => [Kept]_vars
  OBVIOUS
<1>5. TypeOK /\ CopyIsCurrent /\ [Next]_vars => [Kept]_vars
  BY <1>1, <1>4
<1> QED
  BY <1>2, <1>3, <1>5, TypeCorrect, PTL DEF Spec, AppendOrReplace

----------------------------------------------------------------------------
(* Names                                                                   *)

\* No two installs share a scratch tree; no two executables share a link name.
DistinctTrees == \A j, k \in Keys : DirOf(j) = DirOf(k) => j = k
DistinctLinks ==
    \A e, f \in Exes, j, k \in Keys : LinkName(e, j) = LinkName(f, k) => e = f

\* Within one install the names of the links tell the executables apart.
LEMMA OneLinkPerExe ==
    ASSUME NEW key \in Keys, NEW e \in Exes, NEW f \in Exes,
           LinkName(e, key) = LinkName(f, key)
    PROVE  e = f
<1>1. /\ key[2] \in Seq(STRING)
      /\ ExeName[e] \in Seq(STRING) /\ ExeName[f] \in Seq(STRING)
  BY NamesAssumption DEF Keys
<1>2. ExeName[e] \o key[2] = ExeName[f] \o key[2]
  BY DEF LinkName
<1>3. \A S : \A s, t, v \in Seq(S) : s \o v = t \o v => s = t
  BY ConcatSimplifications
<1>4. ExeName[e] = ExeName[f]
  BY <1>1, <1>2, <1>3, Zenon
<1> QED
  BY <1>4, NamesAssumption

\* An entry leads into one scratch tree, or into none.
LEMMA IntoFacts ==
    ASSUME NEW e \in Exes, NEW key \in Keys, NEW d
    PROVE  /\ Target(e, key) # Absent
           /\ Into(Target(e, key), d) <=> DirOf(key) = d
           /\ ~ Into(Absent, d)
<1>1. Target(e, key) \in Symlinks /\ Target(e, key).dir = DirOf(key)
  BY NamesExist DEF Target, Symlinks
<1>2. Absent \notin Symlinks
  BY NamesAssumption
<1> QED
  BY <1>1, <1>2 DEF Into

\* uvctl is the only one to place links into scratch trees.
Owned ==
    \A l \in Links : bin[l] \in Symlinks =>
        \E e \in Exes, key \in Keys : l = LinkName(e, key) /\ bin[l] = Target(e, key)

\* What "skip" finds under the name it wants is the link it wants.
LEMMA OwnLink ==
    ASSUME DistinctTrees, Owned, NEW e \in Exes, NEW key \in Keys,
           Into(bin[LinkName(e, key)], DirOf(key))
    PROVE  bin[LinkName(e, key)] = Target(e, key)
<1> DEFINE l == LinkName(e, key)
<1>1. l \in Links /\ bin[l] \in Symlinks /\ bin[l].dir = DirOf(key)
  BY NamesExist DEF Into
<1>2. PICK f \in Exes, k \in Keys : l = LinkName(f, k) /\ bin[l] = Target(f, k)
  BY <1>1 DEF Owned
<1>3. DirOf(k) = DirOf(key)
  BY <1>1, <1>2 DEF Target
<1>4. k = key
  BY <1>3 DEF DistinctTrees
<1> QED
  BY <1>2, <1>4, OneLinkPerExe

\* The linking loop has one next executable.
LEMMA NextIsOne ==
    ASSUME TypeOK, NEW p \in Procs, NEW e \in Exes, NEW f \in Exes,
           IsNext(p, e), IsNext(p, f)
    PROVE  e = f
<1>1. e <= f /\ f <= e
  BY DEF IsNext
<1>2. e \in Nat /\ f \in Nat
  BY ConstantsAssumption
<1> QED
  BY <1>1, <1>2

----------------------------------------------------------------------------
(* One command and its scratch tree, whatever happens                      *)

LinkPCs == {"link", "replace", "place"}
TreePCs == {"post", "check", "scan", "final", "load", "save"} \cup LinkPCs

\* An install past its linking loop.
Past(p) == pc[p] \in {"final", "load", "save"} /\ Installing(p)

\* A command that needs its tree has it; the linking loop splits what uv made
\* into linked and to do; only a partial install leaves the loop early.
TreeOK(p) ==
    /\ pc[p] \in TreePCs /\ Installing(p) => Dir(p) \in dirs
    /\ pc[p] = "cleanup" => /\ Installing(p) /\ Dir(p) \in dirs
                            /\ exit[p] \in {"integrity", "failed"}
    /\ pc[p] \in UninstallPCs => Dir(p) \in dirs
    /\ pc[p] \notin LinkPCs \cup {"final", "load", "save"} =>
           execs[p] = {} /\ state[p] = "complete"
    /\ pc[p] \in LinkPCs => execs[p] \cap todo[p] = {} /\ state[p] = "complete"
    /\ pc[p] \in LinkPCs \/ Past(p) => execs[p] \cup todo[p] = Scripts(Dir(p))
    /\ Past(p) /\ state[p] = "complete" => todo[p] = {}
    /\ pc[p] # "idle" => exit[p] # "ok"

TreeInv == \A p \in Procs : TreeOK(p)

LEMMA TreeStep ==
    ASSUME TypeOK, ControlInv, TreeInv, [Next]_vars, OneProc
    PROVE  TreeInv'
<1> SUFFICES ASSUME NEW p \in Procs  PROVE TreeOK(p)'
  BY DEF TreeInv
<1> TreeOK(p) /\ Control(p) /\ \A q \in Procs : q = p
  BY DEF TreeInv, ControlInv, OneProc
<1> USE TypeParts DEF LocalsOK, LinkPCs, TreePCs, UninstallPCs, InstallPCs,
        Installing, Uninstalling
<1>1. ASSUME NEW code, Finish(p, code)  PROVE TreeOK(p)'
  BY <1>1 DEF Finish, Goto, TreeOK, Past
<1>2. CASE UNCHANGED <<dirs, tree, pc, cmd, todo, execs, state, exit>>
  BY <1>2 DEF TreeOK, Past, Dir, Scripts
<1>3. CASE StartInstall(p)
  <2>1. PICK c : cmd' = [cmd EXCEPT ![p] = c] /\ c.verb = "install"
    BY <1>3, StartInstallCommand
  <2> QED
    BY <1>3, <2>1 DEF StartInstall, Goto, TreeOK, Past
<1>4. CASE StartUninstall(p)
  BY <1>4 DEF StartUninstall, Goto, TreeOK, Past, Dir, disk
<1>5. CASE UvInstalls(p)
  BY <1>5 DEF UvInstalls, Goto, TreeOK, Past, Control, Dir, locals
<1>6. CASE PostCheck(p) \/ CheckName(p)
  BY <1>6 DEF PostCheck, CheckName, Goto, TreeOK, Past, Control, Dir, disk, locals
<1>7. CASE UvFails(p) \/ UvRefused(p) \/ Cleanup(p) \/ CleanupFaults(p) \/ SaveLedger(p) \/ Crash(p)
  BY <1>7, <1>1 DEF UvFails, UvRefused, Cleanup, CleanupFaults, SaveLedger, Crash
<1>8. CASE ScanExes(p)
  BY <1>8, <1>1 DEF ScanExes, Goto, TreeOK, Past, Control, Dir, Scripts, disk
<1>9. ASSUME pc[p] \in LinkPCs, UNCHANGED <<dirs, tree, cmd, exit>>,
             \/ /\ Goto(p, "place") \/ Goto(p, "replace")
                /\ UNCHANGED <<todo, execs, state>>
             \/ \E e \in Exes : IsNext(p, e) /\ Linked(p, e) /\ UNCHANGED state
             \/ LinkingIncomplete(p) /\ UNCHANGED <<todo, execs>>
             \/ todo[p] = {} /\ AfterLoop(p) /\ UNCHANGED <<todo, execs, state>>
      PROVE  TreeOK(p)'
  <2>1. Scripts(Dir(p))' = Scripts(Dir(p)) /\ Dir(p)' = Dir(p)
    BY <1>9 DEF Scripts, Dir
  <2>2. CASE (Goto(p, "place") \/ Goto(p, "replace")) /\ UNCHANGED <<todo, execs, state>>
    BY <1>9, <2>1, <2>2 DEF Goto, TreeOK, Past, Control
  <2>3. ASSUME NEW e \in Exes, IsNext(p, e), Linked(p, e), UNCHANGED state
        PROVE  TreeOK(p)'
    BY <1>9, <2>1, <2>3 DEF Linked, IsNext, Goto, TreeOK, Past, Control
  <2>4. CASE LinkingIncomplete(p) /\ UNCHANGED <<todo, execs>>
    BY <1>9, <2>1, <2>4 DEF LinkingIncomplete, AfterLoop, Goto, TreeOK, Past, Control
  <2>5. CASE todo[p] = {} /\ AfterLoop(p) /\ UNCHANGED <<todo, execs, state>>
    BY <1>9, <2>1, <2>5 DEF AfterLoop, Goto, TreeOK, Past, Control
  <2> QED
    BY <1>9, <2>2, <2>3, <2>4, <2>5
<1>10. CASE LinkNext(p)
  BY <1>10, <1>9, <1>1 DEF LinkNext, disk, locals
<1>11. CASE LinkingDone(p) \/ RemoveForeign(p)
  BY <1>11, <1>9 DEF LinkingDone, RemoveForeign, disk, locals
<1>12. CASE PlaceSymlink(p) \/ LinkingFaults(p)
  BY <1>12, <1>9 DEF PlaceSymlink, LinkingFaults, disk
<1>13. CASE FinalCheck(p) \/ LoadLedger(p)
  <2>1. Finish(p, "integrity") \/
            /\ (pc[p] = "final" /\ Goto(p, "load")) \/ (pc[p] = "load" /\ Goto(p, "save"))
            /\ UNCHANGED <<dirs, tree, cmd, todo, execs, state, exit>>
    BY <1>13 DEF FinalCheck, LoadLedger, disk, locals
  <2>2. ASSUME UNCHANGED <<tree, cmd>>
        PROVE  Scripts(Dir(p))' = Scripts(Dir(p)) /\ Dir(p)' = Dir(p)
    BY <2>2 DEF Scripts, Dir
  <2> QED
    BY <2>1, <2>2, <1>1 DEF Goto, TreeOK, Past, Control
<1>14. CASE UvUninstall(p) \/ LinksRemoved(p)
  BY <1>14 DEF UvUninstall, LinksRemoved, Goto, TreeOK, Past, Control, Dir, disk, locals
<1>15. CASE RemoveLink(p) \/ RemoveLinkFaults(p)
  BY <1>15, <1>1, <1>2 DEF RemoveLink, RemoveLinkFaults, disk
<1>16. CASE RmTree(p) \/ RmTreeFaults(p)
  BY <1>16, <1>1 DEF RmTree, RmTreeFaults, Goto, TreeOK, Past, Control, locals
<1>17. CASE OutOfBand \/ UNCHANGED vars
  BY <1>17, <1>2 DEF OutOfBand, vars, disk, locals
<1> QED
  BY <1>3, <1>4, <1>5, <1>6, <1>7, <1>8, <1>10, <1>11, <1>12, <1>13, <1>14,
     <1>15, <1>16, <1>17
     DEF Next, Start, Step, InstallStep, UninstallStep, LedgerStep

\* A command that runs has the scratch tree it works on, and what it has linked
\* and what it has yet to link are the scripts uv left there.
THEOREM TreeAlways ==
    ASSUME OneProc
    PROVE  Spec => []TreeInv
<1>1. Init => TreeInv
  BY DEF Init, TreeInv, TreeOK, Past, LinkPCs, TreePCs, UninstallPCs
<1>2. TypeOK /\ ControlInv /\ TreeInv /\ [Next]_vars => TreeInv'
  BY TreeStep
<1> QED
  BY <1>1, <1>2, TypeCorrect, ControlAlways, PTL DEF Spec

----------------------------------------------------------------------------
(* Mishaps                                                                 *)

\* Mishaps are spent, never refunded.
Spent == \A m \in Mishaps : left[m] <= Limit[m]

\* Nobody else wrote bin_dir, and no failed `ln' or `rm' went unnoticed.
Calm ==
    /\ left["oob"] = Limit["oob"]
    /\ Mode = "system-bin" => left["fault"] = Limit["fault"]

LEMMA SpendShows ==
    ASSUME TypeOK, Spent, NEW m \in Mishaps, Spend(m)
    PROVE  left'[m] < Limit[m] /\ \A n \in Mishaps : left'[n] <= left[n]
<1>1. left \in [Mishaps -> Nat] /\ Limit \in [Mishaps -> Nat]
  BY ConstantsAssumption DEF TypeOK
<1>2. left[m] <= Limit[m]
  BY DEF Spent
<1> QED
  BY <1>1, <1>2 DEF Spend

LEMMA LeftStep ==
    ASSUME TypeOK, Spent, [Next]_vars
    PROVE  /\ Spent'
           /\ Calm' => Calm /\ ~ OutOfBand
           /\ left' = Limit => left = Limit
           /\ \A m \in Mishaps : left'[m] = Limit[m] => left[m] = Limit[m]
<1>1. left \in [Mishaps -> Nat] /\ Limit \in [Mishaps -> Nat]
  BY ConstantsAssumption DEF TypeOK
<1>2. {"oob", "crash", "fault", "misname"} \subseteq Mishaps
  BY DEF Mishaps
<1>3. \A n \in Mishaps : left'[n] <= left[n]
  <2>1. CASE UNCHANGED left
    BY <2>1, <1>1
  <2>2. CASE \E m \in Mishaps : Spend(m)
    BY <2>2, SpendShows
  <2> QED
    BY <1>2, <2>1, <2>2
       DEF Next, vars, bounds, Start, Step, InstallStep, UninstallStep,
         LedgerStep, StartInstall, StartUninstall, UvInstalls, UvFails, UvRefused, PostCheck,
         CheckName, Cleanup, CleanupFaults, ScanExes, LinkNext, LinkingDone,
         RemoveForeign, PlaceSymlink, LinkingFaults, FinalCheck, LoadLedger,
         SaveLedger, UvUninstall, RemoveLink, RemoveLinkFaults, LinksRemoved,
         RmTree, RmTreeFaults, Crash, OutOfBand
<1>4. left' \in [Mishaps -> Nat]
  BY TypeStep DEF TypeOK
<1>5. Spent'
  BY <1>1, <1>3, <1>4 DEF Spent
<1>6. ASSUME NEW m \in Mishaps, left'[m] = Limit[m]  PROVE left[m] = Limit[m]
  BY <1>1, <1>3, <1>4, <1>6 DEF Spent
<1>7. left' = Limit => left = Limit
  BY <1>1, <1>6
<1>8. Calm' => Calm
  BY <1>2, <1>6 DEF Calm
<1>9. Calm' => ~ OutOfBand
  BY <1>1, <1>2, SpendShows DEF Calm, OutOfBand
<1> QED
  BY <1>5, <1>6, <1>7, <1>8, <1>9

\* While a behaviour is undisturbed, it was so before.
LEMMA UndisturbedStep ==
    ASSUME TypeOK, Spent, [Next]_vars, Undisturbed'
    PROVE  /\ Undisturbed /\ Calm /\ Calm'
           /\ ~ Spend("oob") /\ ~ Spend("misname")
<1>1. {"oob", "crash", "fault", "misname"} \subseteq Mishaps
  BY DEF Mishaps
<1>2. Undisturbed /\ Calm /\ Calm'
  BY <1>1, LeftStep DEF Undisturbed, Calm
<1>3. ASSUME NEW m \in Mishaps, Spend(m)  PROVE left'[m] # Limit[m]
  <2>1. left'[m] < Limit[m] /\ Limit[m] \in Nat
    BY <1>3, SpendShows, ConstantsAssumption
  <2> QED
    BY <2>1
<1> QED
  BY <1>1, <1>2, <1>3 DEF Undisturbed

LEMMA NothingWrongIsCalm == left = Limit => Calm
BY DEF Calm

\* What a failure hides in system-bin mode, it hides at the price of the calm.
LEMMA FaultShows ==
    ASSUME TypeOK, Spent, Spend("fault"), Calm'
    PROVE  Mode = "rootless"
<1>1. "fault" \in Mishaps /\ Mode \in {"rootless", "system-bin"}
  BY ConstantsAssumption DEF Mishaps
<1>2. left'["fault"] < Limit["fault"]
  BY <1>1, SpendShows
<1>3. left'["fault"] # Limit["fault"]
  BY <1>1, <1>2, TypeStep, ConstantsAssumption DEF Spend, TypeOK
<1> QED
  BY <1>1, <1>3 DEF Calm

----------------------------------------------------------------------------
(* What a command does to bin_dir, while nobody else writes there          *)

LEMMA BinStepOnly ==
    ASSUME TypeOK, [Next]_vars
    PROVE  \/ bin' = bin
           \/ OutOfBand
           \/ \E p \in Procs : RemoveForeign(p) \/ PlaceSymlink(p) \/ RemoveLink(p)
BY DEF Next, vars, disk, Start, Step, InstallStep, UninstallStep, LedgerStep,
       StartInstall, StartUninstall, UvInstalls, UvFails, UvRefused, PostCheck, CheckName,
       Cleanup, CleanupFaults, ScanExes, LinkNext, LinkingDone, LinkingFaults,
       FinalCheck, LoadLedger, SaveLedger, UvUninstall, RemoveLinkFaults,
       LinksRemoved, RmTree, RmTreeFaults, Crash

OwnedInv == Calm => Owned

LEMMA OwnedStep ==
    ASSUME TypeOK, Spent, OwnedInv, [Next]_vars
    PROVE  OwnedInv'
<1> SUFFICES ASSUME Calm'  PROVE Owned'
  BY DEF OwnedInv
<1>1. Owned /\ ~ OutOfBand
  BY LeftStep DEF OwnedInv
<1>2. bin \in [Links -> Entries] /\ Absent \notin Symlinks
  BY NamesAssumption DEF TypeOK
<1>3. CASE bin' = bin
  BY <1>1, <1>3 DEF Owned
<1>4. ASSUME NEW l, bin' = [bin EXCEPT ![l] = Absent]  PROVE Owned'
  BY <1>1, <1>2, <1>4 DEF Owned
<1>5. ASSUME NEW e \in Exes, NEW key \in Keys,
             bin' = [bin EXCEPT ![LinkName(e, key)] = Target(e, key)]
      PROVE  Owned'
  BY <1>1, <1>2, <1>5 DEF Owned
<1>6. \A p \in Procs : cmd[p].key \in Keys
  BY DirExists
<1> QED
  BY <1>1, <1>3, <1>4, <1>5, <1>6, BinStepOnly
     DEF RemoveForeign, PlaceSymlink, RemoveLink

\* The links of the executables a process has behind it are there, and the one
\* it is about to place is not.
LinkedOK(p) ==
    /\ pc[p] \in LinkPCs \/ Past(p) =>
           \A e \in execs[p] : bin[LinkName(e, cmd[p].key)] = Target(e, cmd[p].key)
    /\ pc[p] = "place" =>
           \A e \in Exes : IsNext(p, e) => bin[LinkName(e, cmd[p].key)] = Absent

LinkedInv == Calm => \A p \in Procs : LinkedOK(p)

LEMMA LinkedStep ==
    ASSUME TypeOK, ControlInv, TreeInv, Spent, OwnedInv, LinkedInv, [Next]_vars,
           OneProc, DistinctTrees
    PROVE  LinkedInv'
<1> SUFFICES ASSUME Calm', NEW p \in Procs  PROVE LinkedOK(p)'
  BY DEF LinkedInv
<1> /\ TreeOK(p) /\ Control(p) /\ \A q \in Procs : q = p
    /\ LinkedOK(p) /\ Owned /\ ~ OutOfBand /\ cmd[p].key \in Keys
  BY LeftStep, DirExists DEF TreeInv, ControlInv, OneProc, LinkedInv, OwnedInv
<1> USE TypeParts DEF LocalsOK, LinkPCs, UninstallPCs, InstallPCs, Installing,
        Uninstalling
<1> DEFINE link(e) == LinkName(e, cmd[p].key)
           want(e) == Target(e, cmd[p].key)
<1>1. ASSUME NEW code, Finish(p, code)  PROVE LinkedOK(p)'
  BY <1>1 DEF Finish, Goto, LinkedOK, Past
<1>2. CASE UNCHANGED <<bin, pc, cmd, todo, execs>>
  BY <1>2 DEF LinkedOK, Past, IsNext
<1>3. CASE Start(p)
  BY <1>3 DEF Start, StartInstall, StartUninstall, Goto, LinkedOK, Past
<1>4. CASE UvInstalls(p) \/ PostCheck(p) \/ CheckName(p)
  BY <1>4 DEF UvInstalls, PostCheck, CheckName, Goto, LinkedOK, Past
<1>5. CASE UvFails(p) \/ UvRefused(p) \/ Cleanup(p) \/ CleanupFaults(p) \/ SaveLedger(p) \/ Crash(p)
  BY <1>5, <1>1 DEF UvFails, UvRefused, Cleanup, CleanupFaults, SaveLedger, Crash
<1>6. CASE ScanExes(p)
  BY <1>6, <1>1 DEF ScanExes, Goto, LinkedOK, Past, TreeOK, disk
<1>7. ASSUME pc[p] \in LinkPCs, UNCHANGED <<bin, cmd, todo, execs>>,
             Goto(p, "replace") \/ AfterLoop(p)
      PROVE  LinkedOK(p)'
  BY <1>7 DEF LinkedOK, Past, Goto, AfterLoop
<1>8. CASE LinkNext(p)
  <2>1. PICK e \in Exes :
          /\ IsNext(p, e)
          /\ LET decision == ClassifyCollision(bin[link(e)], Dir(p), cmd[p].force)
             IN  \/ decision = "create" /\ Goto(p, "place") /\ UNCHANGED locals
                 \/ Goto(p, "replace") /\ UNCHANGED locals
                 \/ decision = "skip" /\ Linked(p, e) /\ UNCHANGED cmd
                 \/ Finish(p, "error")
    BY <1>8 DEF LinkNext
  <2>2. pc[p] = "link" /\ UNCHANGED bin
    BY <1>8 DEF LinkNext, disk
  <2>3. ASSUME ClassifyCollision(bin[link(e)], Dir(p), cmd[p].force) = "create",
               Goto(p, "place"), UNCHANGED locals
        PROVE  LinkedOK(p)'
    <3>1. bin[link(e)] = Absent
      BY <2>3 DEF ClassifyCollision
    <3>2. \A f \in Exes : IsNext(p, f) => f = e
      BY <2>1, NextIsOne
    <3> QED
      BY <2>2, <2>3, <3>1, <3>2 DEF LinkedOK, Past, Goto, locals, IsNext
  <2>4. ASSUME ClassifyCollision(bin[link(e)], Dir(p), cmd[p].force) = "skip",
               Linked(p, e), UNCHANGED cmd
        PROVE  LinkedOK(p)'
    <3>1. Into(bin[link(e)], Dir(p))
      BY <2>4 DEF ClassifyCollision
    <3>2. bin[link(e)] = want(e)
      BY <3>1, OwnLink DEF Dir
    <3> QED
      BY <2>2, <2>4, <3>2 DEF LinkedOK, Past, Linked, Goto
  <2> QED
    BY <2>1, <2>2, <2>3, <2>4, <1>1, <1>7 DEF locals
<1>9. CASE LinkingDone(p)
  BY <1>9, <1>7 DEF LinkingDone, disk, locals
<1>10. ASSUME NEW e \in Exes, IsNext(p, e), pc[p] \in LinkPCs,
              UNCHANGED <<cmd, todo, execs>>, Goto(p, "place"),
              bin' = [bin EXCEPT ![link(e)] = Absent]
       PROVE  LinkedOK(p)'
  <2>1. \A f \in Exes : IsNext(p, f) => f = e
    BY <1>10, NextIsOne
  <2>2. \A f \in execs[p] : link(f) # link(e)
    BY <1>10, OneLinkPerExe DEF TreeOK, IsNext
  <2>3. bin'[link(e)] = Absent
    BY <1>10, NamesExist DEF DiskOK
  <2> QED
    BY <1>10, <2>1, <2>2, <2>3 DEF LinkedOK, Past, Goto, IsNext, DiskOK
<1>11. CASE RemoveForeign(p)
  BY <1>11, <1>7, <1>10 DEF RemoveForeign, LinkingIncomplete
<1>12. CASE PlaceSymlink(p)
  <2>1. PICK e \in Exes :
          /\ IsNext(p, e)
          /\ \/ /\ bin' = [bin EXCEPT ![link(e)] = want(e)]
                /\ Linked(p, e)
             \/ /\ LinkingIncomplete(p)
                /\ UNCHANGED <<bin, todo, execs>>
             \/ bin[link(e)] # Absent /\ Linked(p, e)
    BY <1>12 DEF PlaceSymlink
  <2>2. bin[link(e)] = Absent /\ pc[p] = "place" /\ UNCHANGED cmd
    BY <1>12, <2>1 DEF LinkedOK, PlaceSymlink
  <2>3. CASE bin' = [bin EXCEPT ![link(e)] = want(e)] /\ Linked(p, e)
    <3>1. bin'[link(e)] = want(e)
      BY <2>3, NamesExist DEF DiskOK
    <3>2. \A f \in execs[p] : link(f) # link(e) => bin'[link(f)] = want(f)
      BY <2>2, <2>3, NamesExist DEF DiskOK, LinkedOK
    <3>3. \A f \in execs[p] : link(f) = link(e) => f = e
      BY OneLinkPerExe
    <3> QED
      BY <2>2, <2>3, <3>1, <3>2, <3>3 DEF LinkedOK, Past, Linked, Goto
  <2> QED
    BY <2>1, <2>2, <2>3, <1>7 DEF LinkingIncomplete
<1>13. CASE LinkingFaults(p)
  <2>1. Mode = "rootless"
    BY <1>13, FaultShows DEF LinkingFaults
  <2> QED
    BY <1>13, <2>1, <1>7 DEF LinkingFaults, LinkingIncomplete, disk
<1>14. CASE FinalCheck(p) \/ LoadLedger(p)
  BY <1>14, <1>1 DEF FinalCheck, LoadLedger, Goto, LinkedOK, Past, Control, disk, locals
<1>15. CASE UninstallStep(p)
  BY <1>15, <1>1
     DEF UninstallStep, UvUninstall, RemoveLink, RemoveLinkFaults, LinksRemoved,
         RmTree, RmTreeFaults, Goto, LinkedOK, Past, Control, locals, disk
<1>16. CASE UNCHANGED vars
  BY <1>16, <1>2 DEF vars, disk, locals
<1> QED
  BY <1>3, <1>4, <1>5, <1>6, <1>8, <1>9, <1>11, <1>12, <1>13, <1>14, <1>15, <1>16
     DEF Next, Step, InstallStep, LedgerStep

\* What an uninstall has listed are the links into its tree, neither more nor
\* less; then there are none, and then the tree is gone too.
RemovalOK(p) ==
    /\ pc[p] \in {"uvun", "unlink"} =>
           \A l \in Links : Into(bin[l], Dir(p)) <=> l \in ours[p]
    /\ pc[p] = "rmtree" => \A l \in Links : ~ Into(bin[l], Dir(p))
    /\ pc[p] \in {"load", "save"} /\ Uninstalling(p) =>
           Dir(p) \notin dirs /\ \A l \in Links : ~ Into(bin[l], Dir(p))

RemovalInv == Calm => \A p \in Procs : RemovalOK(p)

LEMMA RemovalStep ==
    ASSUME TypeOK, ControlInv, TreeInv, Spent, RemovalInv, [Next]_vars, OneProc
    PROVE  RemovalInv'
<1> SUFFICES ASSUME Calm', NEW p \in Procs  PROVE RemovalOK(p)'
  BY DEF RemovalInv
<1> /\ TreeOK(p) /\ Control(p) /\ \A q \in Procs : q = p
    /\ RemovalOK(p) /\ ~ OutOfBand
  BY LeftStep DEF TreeInv, ControlInv, OneProc, RemovalInv
<1> USE TypeParts DEF LocalsOK, UninstallPCs, InstallPCs, Installing, Uninstalling, Dir
<1>1. ASSUME NEW code, Finish(p, code)  PROVE RemovalOK(p)'
  BY <1>1 DEF Finish, Goto, RemovalOK
<1>2. CASE UNCHANGED <<bin, dirs, pc, cmd, ours>>
  BY <1>2 DEF RemovalOK
<1>3. CASE StartInstall(p)
  BY <1>3 DEF StartInstall, Goto, RemovalOK
<1>4. CASE StartUninstall(p)
  BY <1>4, <1>2 DEF StartUninstall, Goto, RemovalOK, LinksTargetingScratch, disk
<1>5. ASSUME NEW label \in PCs \ UninstallPCs, Goto(p, label), UNCHANGED cmd,
             cmd[p].verb = "install"
      PROVE  RemovalOK(p)'
  BY <1>5 DEF Goto, RemovalOK
<1>6. CASE InstallStep(p)
  <2>1. pc[p] \in InstallPCs \/ pc[p] = "cleanup"
    BY <1>6 DEF InstallStep, UvInstalls, UvFails, UvRefused, PostCheck, CheckName, Cleanup,
         CleanupFaults, ScanExes, LinkNext, LinkingDone, RemoveForeign,
         PlaceSymlink, LinkingFaults, FinalCheck
  <2>2. cmd[p].verb = "install"
    BY <2>1 DEF Control, TreeOK
  <2> QED
    BY <1>6, <2>2, <1>1, <1>5
       DEF InstallStep, UvInstalls, UvFails, UvRefused, PostCheck, CheckName, Cleanup,
           CleanupFaults, ScanExes, LinkNext, LinkingDone, RemoveForeign,
           PlaceSymlink, LinkingFaults, FinalCheck, Linked, LinkingIncomplete,
           AfterLoop, locals, PCs
<1>7. CASE UvUninstall(p)
  BY <1>7 DEF UvUninstall, Goto, RemovalOK, locals
<1>8. CASE RemoveLink(p)
  <2>1. Absent \notin Symlinks
    BY NamesAssumption
  <2> QED
    BY <1>8, <2>1 DEF RemoveLink, RemovalOK, Into, DiskOK
<1>9. CASE RemoveLinkFaults(p)
  <2>1. Mode = "rootless"
    BY <1>9, FaultShows DEF RemoveLinkFaults
  <2> QED
    BY <1>9, <2>1, <1>1 DEF RemoveLinkFaults
<1>10. CASE LinksRemoved(p)
  BY <1>10 DEF LinksRemoved, Goto, RemovalOK, locals, disk
<1>11. CASE RmTree(p)
  BY <1>11, <1>1 DEF RmTree, RemoveTree, Goto, RemovalOK, locals
<1>12. CASE RmTreeFaults(p)
  <2>1. Mode = "rootless"
    BY <1>12, FaultShows DEF RmTreeFaults
  <2> QED
    BY <1>12, <2>1, <1>1 DEF RmTreeFaults
<1>13. CASE LoadLedger(p)
  BY <1>13 DEF LoadLedger, Goto, RemovalOK, disk
<1>14. CASE UvRefused(p) \/ SaveLedger(p) \/ Crash(p)
  BY <1>14, <1>1 DEF UvRefused, SaveLedger, Crash
<1>15. CASE UNCHANGED vars
  BY <1>15, <1>2 DEF vars, disk, locals
<1> QED
  BY <1>3, <1>4, <1>6, <1>7, <1>8, <1>9, <1>10, <1>11, <1>12, <1>13, <1>14, <1>15
     DEF Next, Start, Step, UninstallStep, LedgerStep

----------------------------------------------------------------------------
(* Exit codes                                                              *)

\* Nobody but uvctl writes bin_dir, and no failure goes unnoticed.  (In rootless
\* mode a failed system call is an exception.)
NobodyElse ==
    /\ Limit["oob"] = 0
    /\ Mode = "system-bin" => Limit["fault"] = 0

LEMMA SpentAlways == Spec => []Spent
<1>1. Init => Spent
  BY ConstantsAssumption DEF Init, Spent
<1>2. TypeOK /\ Spent /\ [Next]_vars => Spent'
  BY LeftStep
<1> QED
  BY <1>1, <1>2, TypeCorrect, PTL DEF Spec

LEMMA NobodyElseIsCalm ==
    ASSUME TypeOK, Spent, NobodyElse
    PROVE  Calm
<1>1. "oob" \in Mishaps /\ "fault" \in Mishaps
  BY DEF Mishaps
<1> QED
  BY <1>1, ConstantsAssumption DEF TypeOK, Spent, NobodyElse, Calm

\* Only the ledger update ends with exit code 0.
LEMMA OkIsSaved ==
    ASSUME TypeOK, TreeInv, NEW p \in Procs, Ends(p, "ok")
    PROVE  SaveLedger(p)
<1> USE TypeParts DEF LocalsOK
<1>1. Step(p) /\ pc'[p] = "idle" /\ exit'[p] = "ok"
  BY DEF Ends
<1>2. ASSUME NEW code, code # "ok"  PROVE ~ Finish(p, code)
  BY <1>1, <1>2 DEF Finish
<1>3. ASSUME NEW label, label # "idle"  PROVE ~ Goto(p, label)
  BY <1>1, <1>3 DEF Goto
<1>4. pc[p] = "cleanup" => exit[p] \notin {"ok"}
  BY DEF TreeInv, TreeOK
<1>5. ~ InstallStep(p)
  BY <1>2, <1>3, <1>4
     DEF InstallStep, UvInstalls, UvFails, UvRefused, PostCheck, CheckName, Cleanup,
         CleanupFaults, ScanExes, LinkNext, LinkingDone, RemoveForeign,
         PlaceSymlink, LinkingFaults, FinalCheck, Linked, LinkingIncomplete,
         AfterLoop
<1>6. ~ UninstallStep(p)
  BY <1>1, <1>2, <1>3
     DEF UninstallStep, UvUninstall, RemoveLink, RemoveLinkFaults, LinksRemoved,
         RmTree, RmTreeFaults
<1>7. ~ LoadLedger(p) /\ ~ UvRefused(p)
  BY <1>2, <1>3 DEF LoadLedger, UvRefused
<1> QED
  BY <1>1, <1>5, <1>6, <1>7 DEF Step, LedgerStep

\* What a successful install leaves.
LEMMA SavedInstall ==
    ASSUME TypeOK, ControlInv, TreeInv, LinkedInv, Calm, NEW p \in Procs,
           SaveLedger(p), Installing(p), exit'[p] = "ok"
    PROVE  /\ state[p] = "complete" /\ execs[p] = Scripts(Dir(p))
           /\ \A e \in execs[p] : bin[LinkName(e, cmd[p].key)] = Target(e, cmd[p].key)
           /\ Active(ledger', cmd[p].key) = {NewRecord(p)}
<1> USE TypeParts DEF LocalsOK
<1>1. TreeOK(p) /\ LinkedOK(p) /\ Past(p)
  BY DEF TreeInv, LinkedInv, Past, SaveLedger
<1>2. /\ ledger' = RecordInstall(copy[p], NewRecord(p))
      /\ Finish(p, IF state[p] = "complete" THEN "ok" ELSE "failed")
  BY DEF SaveLedger, Installing
<1>3. state[p] = "complete"
  BY <1>2 DEF Finish
<1>4. execs[p] = Scripts(Dir(p))
  BY <1>1, <1>3 DEF TreeOK
<1>5. Active(ledger', cmd[p].key) = {NewRecord(p)}
  <2>1. NewRecord(p).key = cmd[p].key /\ ~ NewRecord(p).removed
    BY DEF NewRecord
  <2> QED
    BY <1>2, <2>1 DEF Active, RecordInstall, Matches
<1> QED
  BY <1>1, <1>3, <1>4, <1>5 DEF LinkedOK

\* What a successful uninstall leaves.
LEMMA SavedUninstall ==
    ASSUME TypeOK, CopyIsCurrent, RemovalInv, Calm, NEW p \in Procs,
           SaveLedger(p), Uninstalling(p)
    PROVE  /\ Dir(p) \notin dirs
           /\ \A l \in Links : ~ Into(bin[l], Dir(p))
           /\ Active(ledger', cmd[p].key) = {}
<1> USE TypeParts DEF LocalsOK
<1>1. RemovalOK(p) /\ copy[p] = ledger /\ cmd[p].key \in Keys
  BY DirExists DEF RemovalInv, CopyIsCurrent, SaveLedger
<1>2. ledger' = IF Found(copy[p], cmd[p].key)
                THEN MarkRemoved(copy[p], cmd[p].key) ELSE ledger
  BY DEF SaveLedger, Uninstalling
<1>3. Active(ledger', cmd[p].key) = {}
  <2>1. CASE Found(copy[p], cmd[p].key)
    <3>1. NewRecord(p).key = cmd[p].key /\ ~ NewRecord(p).removed
      BY DEF NewRecord
    <3>2. Active(MarkRemoved(ledger, cmd[p].key), cmd[p].key) = {}
      BY <3>1, UpdatesOneKey DEF DiskOK
    <3> QED
      BY <1>1, <1>2, <2>1, <3>2
  <2>2. CASE ~ Found(copy[p], cmd[p].key)
    BY <1>1, <1>2, <2>2 DEF Found, Active
  <2> QED
    BY <2>1, <2>2
<1> QED
  BY <1>1, <1>3 DEF RemovalOK, SaveLedger

LEMMA CopyAlways ==
    ASSUME OneProc  PROVE Spec => []CopyIsCurrent
<1>1. Init => CopyIsCurrent
  BY DEF Init, CopyIsCurrent
<1>2. TypeOK /\ CopyIsCurrent /\ [Next]_vars => CopyIsCurrent'
  BY CopyStaysCurrent DEF OneProc
<1> QED
  BY <1>1, <1>2, TypeCorrect, PTL DEF Spec

LEMMA LinkedAlways ==
    ASSUME OneProc, DistinctTrees  PROVE Spec => [](OwnedInv /\ LinkedInv)
<1>1. Init => OwnedInv /\ LinkedInv
  BY NamesAssumption
     DEF Init, OwnedInv, Owned, LinkedInv, LinkedOK, LinkPCs, Past
<1>2. TypeOK /\ ControlInv /\ TreeInv /\ Spent /\ OwnedInv /\ LinkedInv /\ [Next]_vars
          => OwnedInv' /\ LinkedInv'
  BY OwnedStep, LinkedStep
<1> QED
  BY <1>1, <1>2, TypeCorrect, ControlAlways, TreeAlways, SpentAlways, PTL DEF Spec

LEMMA RemovalAlways ==
    ASSUME OneProc  PROVE Spec => []RemovalInv
<1>1. Init => RemovalInv
  BY DEF Init, RemovalInv, RemovalOK
<1>2. TypeOK /\ ControlInv /\ TreeInv /\ Spent /\ RemovalInv /\ [Next]_vars => RemovalInv'
  BY RemovalStep
<1> QED
  BY <1>1, <1>2, TypeCorrect, ControlAlways, TreeAlways, SpentAlways, PTL DEF Spec

\* For one process whose names do not collide, an install that exits 0 has linked
\* every script, over whatever earlier commands left, killed or not.
THEOREM InstallOkMeansLinkedForOne ==
    ASSUME OneProc, DistinctTrees, NobodyElse
    PROVE  Spec => InstallOkMeansLinked
<1> DEFINE Done ==
      \A p \in Procs :
        Ends(p, "ok") /\ Installing(p) =>
          LET key == cmd[p].key
              all == Scripts(DirOf(key))
          IN  /\ \A e \in all : bin'[LinkName(e, key)] = Target(e, key)
              /\ { r.execs : r \in Active(ledger', key) } = {all}
<1>1. TypeOK /\ ControlInv /\ TreeInv /\ Spent /\ LinkedInv => Done
  <2> SUFFICES ASSUME TypeOK, ControlInv, TreeInv, Spent, LinkedInv, NEW p \in Procs,
                      Ends(p, "ok"), Installing(p)
               PROVE  LET key == cmd[p].key
                          all == Scripts(DirOf(key))
                      IN  /\ \A e \in all : bin'[LinkName(e, key)] = Target(e, key)
                          /\ { r.execs : r \in Active(ledger', key) } = {all}
    OBVIOUS
  <2>1. SaveLedger(p) /\ exit'[p] = "ok" /\ Calm
    BY OkIsSaved, NobodyElseIsCalm DEF Ends
  <2>2. bin' = bin
    BY <2>1 DEF SaveLedger
  <2>3. NewRecord(p).execs = execs[p]
    BY DEF NewRecord
  <2> QED
    BY <2>1, <2>2, <2>3, SavedInstall DEF Dir
<1> QED
  BY <1>1, TypeCorrect, ControlAlways, TreeAlways, SpentAlways, LinkedAlways, PTL
     DEF Spec, InstallOkMeansLinked

\* For one process, whatever the names are, an uninstall that exits 0 leaves no
\* link, no tree and no active record, over whatever earlier commands left.
THEOREM UninstallOkMeansGoneForOne ==
    ASSUME OneProc, NobodyElse
    PROVE  Spec => UninstallOkMeansGone
<1> DEFINE Gone ==
      \A p \in Procs :
        Ends(p, "ok") /\ Uninstalling(p) =>
          /\ Dir(p) \notin dirs'
          /\ \A l \in Links : ~ Into(bin'[l], Dir(p))
          /\ Active(ledger', cmd[p].key) = {}
<1>1. TypeOK /\ TreeInv /\ Spent /\ CopyIsCurrent /\ RemovalInv => Gone
  <2> SUFFICES ASSUME TypeOK, TreeInv, Spent, CopyIsCurrent, RemovalInv,
                      NEW p \in Procs, Ends(p, "ok"), Uninstalling(p)
               PROVE  /\ Dir(p) \notin dirs'
                      /\ \A l \in Links : ~ Into(bin'[l], Dir(p))
                      /\ Active(ledger', cmd[p].key) = {}
    OBVIOUS
  <2>1. SaveLedger(p) /\ Calm
    BY OkIsSaved, NobodyElseIsCalm
  <2>2. bin' = bin /\ dirs' = dirs
    BY <2>1 DEF SaveLedger
  <2> QED
    BY <2>1, <2>2, SavedUninstall
<1> QED
  BY <1>1, TypeCorrect, TreeAlways, SpentAlways, CopyAlways, RemovalAlways, PTL
     DEF Spec, UninstallOkMeansGone

----------------------------------------------------------------------------
(* The other installs                                                      *)

\* A command works in its own scratch tree.
LEMMA OthersTree ==
    ASSUME TypeOK, DistinctTrees, NEW p \in Procs, Start(p) \/ Step(p) \/ Crash(p),
           NEW key \in Keys, key # cmd[p].key \/ Start(p)
    PROVE  /\ tree'[DirOf(key)] = tree[DirOf(key)]
           /\ DirOf(key) \in dirs' <=> DirOf(key) \in dirs
<1> USE TypeParts DEF DiskOK
<1>1. CASE UNCHANGED <<dirs, tree>>
  BY <1>1
<1>2. ASSUME NEW new, tree' = tree \/ tree' = [tree EXCEPT ![Dir(p)] = new],
             dirs' \in {dirs, dirs \cup {Dir(p)}, dirs \ {Dir(p)}},
             key # cmd[p].key
      PROVE  /\ tree'[DirOf(key)] = tree[DirOf(key)]
             /\ DirOf(key) \in dirs' <=> DirOf(key) \in dirs
  <2>1. DirOf(key) # Dir(p)
    BY <1>2, DirExists DEF DistinctTrees, Dir
  <2>2. DirOf(key) \in Dirs
    BY DEF Dirs
  <2>3. tree'[DirOf(key)] = tree[DirOf(key)]
    BY <1>2, <2>1, <2>2
  <2> QED
    BY <1>2, <2>1, <2>3
<1>3. CASE Start(p)
  BY <1>3, <1>1 DEF Start, StartInstall, StartUninstall, disk
<1>4. CASE UvInstalls(p) /\ key # cmd[p].key
  BY <1>4, <1>2 DEF UvInstalls
<1>5. CASE UvFails(p) /\ key # cmd[p].key
  BY <1>5, <1>2 DEF UvFails
<1>6. ASSUME Chop(Dir(p)) \/ RemoveTree(Dir(p)), key # cmd[p].key
      PROVE  /\ tree'[DirOf(key)] = tree[DirOf(key)]
             /\ DirOf(key) \in dirs' <=> DirOf(key) \in dirs
  BY <1>6, <1>2 DEF Chop, RemoveTree
<1>7. CASE (Cleanup(p) \/ CleanupFaults(p) \/ RmTree(p) \/ RmTreeFaults(p) \/ Crash(p))
              /\ key # cmd[p].key
  BY <1>7, <1>1, <1>6 DEF Cleanup, CleanupFaults, RmTree, RmTreeFaults, Crash
<1>8. CASE UvUninstall(p) /\ key # cmd[p].key
  BY <1>8, <1>2 DEF UvUninstall
<1> QED
  BY <1>1, <1>3, <1>4, <1>5, <1>7, <1>8
     DEF Step, InstallStep, UninstallStep, LedgerStep, UvRefused, PostCheck, CheckName,
         ScanExes, LinkNext, LinkingDone, RemoveForeign, PlaceSymlink,
         LinkingFaults, FinalCheck, LoadLedger, SaveLedger, RemoveLink,
         RemoveLinkFaults, LinksRemoved, disk

\* It makes no link into another tree, and takes one away with --force only.
LEMMA OthersBin ==
    ASSUME TypeOK, ControlInv, ListedInv, DistinctTrees, NEW p \in Procs,
           Start(p) \/ Step(p) \/ Crash(p),
           NEW key \in Keys, key # cmd[p].key \/ Start(p), NEW l \in Links
    PROVE  /\ Into(bin'[l], DirOf(key)) => bin'[l] = bin[l]
           /\ Into(bin[l], DirOf(key)) => bin'[l] = bin[l] \/ cmd[p].force
<1> USE TypeParts DEF DiskOK
<1>1. CASE bin' = bin
  BY <1>1
<1>2. cmd[p].key \in Keys /\ Control(p) /\ Listed(p)
  BY DirExists DEF ControlInv, ListedInv
<1>3. \A v : Into(v, DirOf(key)) /\ Into(v, Dir(p)) => key = cmd[p].key
  BY <1>2 DEF DistinctTrees, Into, Dir
<1>4. CASE RemoveForeign(p)
  <2>1. cmd[p].force
    BY <1>2, <1>4 DEF Control, RemoveForeign
  <2>2. bin'[l] \in {Absent, bin[l]}
    BY <1>4 DEF RemoveForeign
  <2>3. ~ Into(Absent, DirOf(key))
    BY NamesAssumption DEF Into
  <2> QED
    BY <2>1, <2>2, <2>3
<1>5. CASE PlaceSymlink(p) /\ key # cmd[p].key
  <2>1. PICK e \in Exes :
           bin' = bin \/ /\ bin[LinkName(e, cmd[p].key)] = Absent
                         /\ bin' = [bin EXCEPT ![LinkName(e, cmd[p].key)] =
                                                   Target(e, cmd[p].key)]
    BY <1>5 DEF PlaceSymlink
  <2>2. Into(Target(e, cmd[p].key), Dir(p)) /\ ~ Into(Absent, DirOf(key))
    BY <1>2, IntoFacts DEF Dir
  <2> QED
    BY <2>1, <2>2, <1>3, <1>5
<1>6. CASE RemoveLink(p) /\ key # cmd[p].key
  <2>1. bin'[l] \in {Absent, bin[l]} /\ (bin'[l] # bin[l] => l \in ours[p])
    BY <1>6 DEF RemoveLink
  <2>2. l \in ours[p] => Into(bin[l], Dir(p))
    BY <1>2, <1>6 DEF Listed, RemoveLink
  <2>3. ~ Into(Absent, DirOf(key))
    BY NamesAssumption DEF Into
  <2> QED
    BY <2>1, <2>2, <2>3, <1>3, <1>6
<1>7. Start(p) => bin' = bin
  BY DEF Start, StartInstall, StartUninstall, disk
<1>8. \/ bin' = bin \/ RemoveForeign(p) \/ PlaceSymlink(p) \/ RemoveLink(p)
  BY DEF Start, StartInstall, StartUninstall, Step, InstallStep, UninstallStep,
       LedgerStep, UvInstalls, UvFails, UvRefused, PostCheck, CheckName, Cleanup,
       CleanupFaults, ScanExes, LinkNext, LinkingDone, LinkingFaults, FinalCheck,
       LoadLedger, SaveLedger, UvUninstall, RemoveLinkFaults, LinksRemoved,
       RmTree, RmTreeFaults, Crash, disk
<1> QED
  BY <1>1, <1>4, <1>5, <1>6, <1>7, <1>8

\* It changes records of its own key only.
LEMMA OthersRecords ==
    ASSUME TypeOK, CopyIsCurrent, NEW p \in Procs, Start(p) \/ Step(p) \/ Crash(p),
           NEW key \in Keys, key # cmd[p].key \/ Start(p)
    PROVE  Active(ledger', key) = Active(ledger, key)
<1> DEFINE own == cmd[p].key
<1>1. CASE ledger' = ledger
  BY <1>1
<1>2. CASE SaveLedger(p) /\ key # own
  <2>1. copy[p] = ledger /\ ledger \in SUBSET Records /\ own \in Keys
    BY <1>2, DirExists DEF SaveLedger, CopyIsCurrent, TypeOK
  <2>2. /\ NewRecord(p) \in Records
        /\ NewRecord(p).key = own /\ ~ NewRecord(p).removed
    BY NewRecordType, TypeParts DEF NewRecord
  <2>3. /\ Active(RecordInstall(ledger, NewRecord(p)), key) = Active(ledger, key)
        /\ Active(MarkRemoved(ledger, own), key) = Active(ledger, key)
    BY <1>2, <2>1, <2>2, UpdatesOneKey
  <2>5. ledger' \in {ledger, RecordInstall(ledger, NewRecord(p)), MarkRemoved(ledger, own)}
    BY <1>2, <2>1 DEF SaveLedger
  <2> QED
    BY <2>3, <2>5
<1>3. Start(p) => ledger' = ledger
  BY DEF Start, StartInstall, StartUninstall, disk
<1>4. ledger' = ledger \/ SaveLedger(p)
  BY DEF Start, StartInstall, StartUninstall, Step, InstallStep, UninstallStep,
       LedgerStep, UvInstalls, UvFails, UvRefused, PostCheck, CheckName, Cleanup,
       CleanupFaults, ScanExes, LinkNext, LinkingDone, RemoveForeign,
       PlaceSymlink, LinkingFaults, FinalCheck, LoadLedger, UvUninstall,
       RemoveLink, RemoveLinkFaults, LinksRemoved, RmTree, RmTreeFaults, Crash, disk
<1> QED
  BY <1>1, <1>2, <1>3, <1>4

LEMMA ListedAlways ==
    ASSUME OneProc, Limit["oob"] = 0  PROVE Spec => []ListedInv
<1>1. Init => ListedInv
  BY DEF Init, ListedInv, Listed
<1>2. TypeOK /\ ListedInv /\ [Next]_vars => ListedInv'
  BY ListedStep DEF OneProc
<1> QED
  BY <1>1, <1>2, TypeCorrect, PTL DEF Spec

\* For one process whose names do not collide, whatever fault or kill it meets: a
\* command without --force leaves intact every other install that is intact.
THEOREM SiblingsUntouchedForOne ==
    ASSUME OneProc, DistinctTrees, Limit["oob"] = 0
    PROVE  Spec => SiblingsUntouched
<1> DEFINE Untouched ==
      \A p \in Procs :
        Step(p) /\ ~ cmd[p].force =>
          \A r \in ActiveRecords : r.key # cmd[p].key /\ Intact(r) => Intact(r)'
<1>1. TypeOK /\ ControlInv /\ ListedInv => Untouched
  <2> SUFFICES ASSUME TypeOK, ControlInv, ListedInv, NEW p \in Procs, Step(p),
                      ~ cmd[p].force, NEW r \in ActiveRecords,
                      r.key # cmd[p].key, Intact(r)
               PROVE  Intact(r)'
    OBVIOUS
  <2>1. r \in Records /\ r.key \in Keys /\ r.execs \subseteq Exes
    BY DEF ActiveRecords, TypeOK, Records
  <2>2. tree'[DirOf(r.key)] = tree[DirOf(r.key)]
    BY <2>1, OthersTree
  <2>3. ASSUME NEW e \in r.execs
        PROVE  bin'[LinkName(e, r.key)] = Target(e, r.key)
    <3>1. bin[LinkName(e, r.key)] = Target(e, r.key)
      BY DEF Intact, Verified
    <3>2. Into(bin[LinkName(e, r.key)], DirOf(r.key))
      BY <2>1, <3>1, IntoFacts
    <3>3. LinkName(e, r.key) \in Links
      BY <2>1, NamesExist
    <3> QED
      BY <2>1, <3>1, <3>2, <3>3, OthersBin
  <2> QED
    BY <2>2, <2>3 DEF Intact, Verified, Scripts
<1> QED
  BY <1>1, TypeCorrect, ControlAlways, ListedAlways, PTL DEF Spec, SiblingsUntouched

----------------------------------------------------------------------------
(* The files implement SideBySide                                          *)

\* The refinement mapping.
Statuses == [key \in Keys |-> Status(key)]
Job(p) == IF pc[p] = "idle" THEN [verb |-> "none"]
          ELSE [verb |-> cmd[p].verb, key |-> cmd[p].key, force |-> cmd[p].force]

\* What the status of an install depends on.
LEMMA StatusKept ==
    ASSUME TypeOK, NEW key \in Keys, NEW force \in BOOLEAN,
           tree'[DirOf(key)] = tree[DirOf(key)],
           DirOf(key) \in dirs' <=> DirOf(key) \in dirs,
           Active(ledger', key) = Active(ledger, key),
           \A l \in Links :
               /\ Into(bin'[l], DirOf(key)) => bin'[l] = bin[l]
               /\ Into(bin[l], DirOf(key)) => bin'[l] = bin[l] \/ force
    PROVE  \/ Status(key)' = Status(key)
           \/ force /\ Status(key)' # "installed"
<1> DEFINE D == DirOf(key)
           Whole(r) == r.state = "complete" /\ Intact(r)
<1>1. ASSUME NEW r \in Active(ledger, key), NEW e \in r.execs
      PROVE  /\ LinkName(e, r.key) \in Links
             /\ Into(Target(e, r.key), D) /\ r.key = key
  <2>1. r \in Records /\ r.key = key
    BY DEF Active, Matches, TypeOK
  <2>2. e \in Exes
    BY <2>1 DEF Records
  <2> QED
    BY <2>1, <2>2, NamesExist, IntoFacts
<1>2. ASSUME NEW r \in Active(ledger, key), Whole(r)'  PROVE Whole(r)
  <2>1. r.key = key
    BY DEF Active, Matches
  <2>2. \A e \in r.execs : bin'[LinkName(e, r.key)] = Target(e, r.key)
    BY <1>2 DEF Intact, Verified
  <2>3. \A e \in r.execs : bin[LinkName(e, r.key)] = Target(e, r.key)
    BY <1>1, <2>2
  <2> QED
    BY <1>2, <2>1, <2>3 DEF Intact, Verified, Scripts
<1>3. ASSUME NEW r \in Active(ledger, key), Whole(r), ~ force  PROVE Whole(r)'
  <2>1. r.key = key
    BY DEF Active, Matches
  <2>2. \A e \in r.execs : bin[LinkName(e, r.key)] = Target(e, r.key)
    BY <1>3 DEF Intact, Verified
  <2>3. \A e \in r.execs : bin'[LinkName(e, r.key)] = Target(e, r.key)
    BY <1>1, <1>3, <2>2
  <2> QED
    BY <1>3, <2>1, <2>3 DEF Intact, Verified, Scripts
<1> DEFINE Clear == \A l \in Links : ~ Into(bin[l], D)
           Good  == \E r \in Active(ledger, key) : Whole(r)
<1>4. Status(key) = CASE D \notin dirs /\ Active(ledger, key) = {} /\ Clear -> "absent"
                      [] D \in dirs /\ Good -> "installed"
                      [] OTHER -> "partial"
  BY DEF Status
<1>5. Status(key)' = CASE D \notin dirs' /\ Active(ledger', key) = {} /\ Clear' -> "absent"
                       [] D \in dirs' /\ Good' -> "installed"
                       [] OTHER -> "partial"
  BY DEF Status
<1>6. Good' => Good
  BY <1>2
<1>7. ~ force => (Good => Good') /\ (Clear <=> Clear')
  BY <1>3
<1> HIDE DEF Good, Clear, Whole
<1> QED
  BY <1>4, <1>5, <1>6, <1>7

\* Where a command is in its life, step by step.
LEMMA LifeStep ==
    ASSUME TypeOK, TreeInv, TreeInv', NEW p \in Procs, Start(p) \/ Step(p) \/ Crash(p)
    PROVE  \/ /\ Start(p) /\ pc[p] = "idle" /\ UNCHANGED disk
              /\ exit'[p] # "ok" /\ cmd'[p] \in Commands
           \/ /\ ~ Start(p) /\ pc[p] # "idle" /\ pc'[p] # "idle" /\ cmd'[p] = cmd[p]
              /\ exit[p] # "ok" /\ exit'[p] # "ok"
           \/ /\ ~ Start(p) /\ pc[p] # "idle" /\ pc'[p] = "idle"
              /\ exit'[p] = "ok" => Ends(p, "ok")
<1> USE TypeParts DEF LocalsOK
<1>1. /\ cmd'[p] \in Commands
      /\ pc[p] # "idle" => exit[p] # "ok"
      /\ pc'[p] # "idle" => exit'[p] # "ok"
  <2>1. Next
    BY DEF Next
  <2>2. TypeOK'
    BY <2>1, TypeStep
  <2>3. TreeOK(p) /\ TreeOK(p)'
    BY DEF TreeInv
  <2> QED
    BY <2>2, <2>3 DEF TypeOK, TreeOK
<1>2. CASE Start(p)
  <2>1. exit'[p] # "ok"
    BY <1>2 DEF Start, StartInstall, StartUninstall
  <2> QED
    BY <1>1, <1>2, <2>1 DEF Start, StartInstall, StartUninstall
<1>3. ASSUME Step(p) \/ Crash(p)  PROVE pc[p] # "idle"
  BY <1>3
     DEF Step, InstallStep, UninstallStep, LedgerStep, UvInstalls, UvFails, UvRefused, PostCheck,
         CheckName, Cleanup, CleanupFaults, ScanExes, LinkNext, LinkingDone,
         RemoveForeign, PlaceSymlink, LinkingFaults, FinalCheck, LoadLedger,
         SaveLedger, UvUninstall, RemoveLink, RemoveLinkFaults, LinksRemoved,
         RmTree, RmTreeFaults, Crash
<1>4. ~ (Start(p) /\ pc[p] # "idle")
  BY DEF Start, StartInstall, StartUninstall
<1>5. CASE Crash(p)
  BY <1>3, <1>4, <1>5 DEF Crash, Finish, Goto
<1>6. CASE Step(p)
  <2>1. ASSUME NEW code, Finish(p, code)  PROVE pc'[p] = "idle"
    BY <2>1 DEF Finish, Goto
  <2>2. pc'[p] = "idle" \/ cmd' = cmd
    BY <1>6, <2>1
       DEF Step, InstallStep, UninstallStep, LedgerStep, UvInstalls, UvFails, UvRefused, PostCheck,
         CheckName, Cleanup, CleanupFaults, ScanExes, LinkNext, LinkingDone,
         RemoveForeign, PlaceSymlink, LinkingFaults, FinalCheck, LoadLedger,
         SaveLedger, UvUninstall, RemoveLink, RemoveLinkFaults, LinksRemoved,
         RmTree, RmTreeFaults, locals
  <2> QED
    BY <1>1, <1>3, <1>4, <1>6, <2>2 DEF Ends
<1> QED
  BY <1>2, <1>5, <1>6

\* Success is what was asked for.
LEMMA OkStatus ==
    ASSUME TypeOK, ControlInv, TreeInv, LinkedInv, RemovalInv, CopyIsCurrent, Calm,
           NEW p \in Procs, Ends(p, "ok"), NEW key \in Keys, key = cmd[p].key
    PROVE  Status(key)' = IF cmd[p].verb = "install" THEN "installed" ELSE "absent"
<1>1. SaveLedger(p) /\ exit'[p] = "ok" /\ UNCHANGED <<bin, dirs, tree>>
  BY OkIsSaved DEF Ends, SaveLedger
<1>2. TreeOK(p) /\ cmd[p].verb \in {"install", "uninstall"}
  BY DirExists DEF TreeInv, Commands
<1>3. CASE Installing(p)
  <2> DEFINE r == NewRecord(p)
  <2>1. /\ state[p] = "complete" /\ execs[p] = Scripts(Dir(p))
        /\ \A e \in execs[p] : bin[LinkName(e, key)] = Target(e, key)
        /\ Active(ledger', key) = {r}
    BY <1>1, <1>3, SavedInstall
  <2>2. r.key = key /\ r.execs = execs[p] /\ r.state = "complete"
    BY <2>1 DEF NewRecord
  <2>3. DirOf(key) \in dirs'
    BY <1>1, <1>2, <1>3 DEF TreeOK, SaveLedger, TreePCs, Dir
  <2> HIDE DEF r
  <2>4. \A e \in r.execs : bin'[LinkName(e, r.key)] = Target(e, r.key)
    BY <1>1, <2>1, <2>2
  <2>5. r.execs \subseteq UNION { t.exes : t \in tree'[DirOf(r.key)] }
    BY <1>1, <2>1, <2>2 DEF Scripts, Dir
  <2>6. \E s \in Active(ledger', key) :
           /\ s.state = "complete"
           /\ \A e \in s.execs : bin'[LinkName(e, s.key)] = Target(e, s.key)
           /\ s.execs \subseteq UNION { t.exes : t \in tree'[DirOf(s.key)] }
    BY <2>1, <2>2, <2>4, <2>5
  <2>7. Status(key)' = "installed"
    BY <2>3, <2>6 DEF Status, Intact, Verified, Scripts
  <2> QED
    BY <1>3, <2>7 DEF Installing
<1>4. CASE Uninstalling(p)
  <2>1. /\ Dir(p) \notin dirs'
        /\ \A l \in Links : ~ Into(bin'[l], Dir(p))
        /\ Active(ledger', key) = {}
    BY <1>1, <1>4, SavedUninstall
  <2>2. Status(key)' = "absent"
    BY <2>1 DEF Status, Dir
  <2> QED
    BY <1>4, <2>2 DEF Uninstalling
<1> QED
  BY <1>2, <1>3, <1>4 DEF Installing, Uninstalling

\* Every step is a step of SideBySide, or changes nothing of it.
LEMMA InstallStepRefines ==
    ASSUME Procs # {}, OneProc, DistinctTrees, NobodyElse,
           TypeOK, ControlInv, TreeInv, TreeInv', Spent, LinkedInv, RemovalInv,
           ListedInv, CopyIsCurrent, [Next]_vars
    PROVE  \/ Installs!Next
           \/ UNCHANGED << Statuses, Job(OnlyProc), exit[OnlyProc] = "ok" >>
<1> DEFINE p == OnlyProc
<1>1. p \in Procs /\ \A q \in Procs : q = p
  BY DEF OnlyProc, OneProc
<1> HIDE DEF p
<1>2. Calm /\ ~ OutOfBand
  BY NobodyElseIsCalm DEF ListedInv, OutOfBand, Spend
<1>3. cmd[p] \in Commands /\ cmd[p].key \in Keys
  BY <1>1, DirExists
<1>4. CASE UNCHANGED vars
  <2>1. UNCHANGED <<bin, dirs, tree, ledger, pc, cmd, exit>>
    BY <1>4 DEF vars, disk, locals
  <2>2. UNCHANGED Statuses
    BY <2>1 DEF Statuses, Status, Intact, Verified, Scripts
  <2> QED
    BY <2>1, <2>2 DEF Job
<1>5. CASE Start(p) \/ Step(p) \/ Crash(p)
  <2>1. ASSUME NEW key \in Keys, key # cmd[p].key
        PROVE  \/ Status(key)' = Status(key)
               \/ cmd[p].force /\ Status(key)' # "installed"
    <3>1. cmd[p].force \in BOOLEAN
      BY <1>3 DEF Commands
    <3> QED
      BY <1>1, <1>5, <2>1, <3>1, StatusKept, OthersTree, OthersBin, OthersRecords
  <2>2. CASE /\ Start(p) /\ pc[p] = "idle" /\ UNCHANGED disk
             /\ exit'[p] # "ok" /\ cmd'[p] \in Commands
    <3>1. Job(p) = [verb |-> "none"]
      BY <2>2 DEF Job
    <3>2. Job(p)' \in Installs!Jobs \cup {Installs!NoJob}
      BY <2>2 DEF Job, Installs!Jobs, Installs!NoJob, Commands
    <3>3. UNCHANGED Statuses
      BY <2>2 DEF disk, Statuses, Status, Intact, Verified, Scripts
    <3>4. Installs!Begin
      BY <2>2, <3>1, <3>2, <3>3 DEF Installs!Begin, Installs!NoJob, Statuses, Job, p
    <3> QED
      BY <3>4 DEF Installs!Next
  <2> DEFINE job == [verb |-> cmd[p].verb, key |-> cmd[p].key, force |-> cmd[p].force]
  <2>3. job # [verb |-> "none"]
    <3>1. job.verb # "none"
      BY <1>3 DEF Commands
    <3> QED
      BY <3>1
  <2>4. ASSUME pc[p] # "idle"  PROVE Installs!SparesOthers
    <3>1. Job(p) = job
      BY <2>4 DEF Job
    <3> QED
      BY <2>1, <2>4, <3>1 DEF Installs!SparesOthers, Statuses, Job, p
  <2>5. CASE /\ pc[p] # "idle" /\ pc'[p] # "idle" /\ cmd'[p] = cmd[p]
             /\ exit[p] # "ok" /\ exit'[p] # "ok"
    <3>1. Installs!Work
      BY <2>3, <2>4, <2>5 DEF Installs!Work, Installs!NoJob, Job, p
    <3> QED
      BY <3>1 DEF Installs!Next
  <2>6. CASE /\ pc[p] # "idle" /\ pc'[p] = "idle"
             /\ exit'[p] = "ok" => Ends(p, "ok")
    <3>1. PICK key \in Keys : key = cmd[p].key
      BY <1>3
    <3>2. exit'[p] = "ok" => Status(key)' =
              IF cmd[p].verb = "install" THEN "installed" ELSE "absent"
      BY <1>1, <1>2, <2>6, <3>1, OkStatus
    <3>3. exit'[p] = "ok" => Statuses'[key] =
              IF cmd[p].verb = "install" THEN "installed" ELSE "absent"
      BY <3>2 DEF Statuses
    <3>4. Job(p) = job /\ Job(p)' = [verb |-> "none"]
      BY <2>6 DEF Job
    <3>5. Installs!Finish
      BY <2>3, <2>4, <2>6, <3>1, <3>3, <3>4
         DEF Installs!Finish, Installs!NoJob, Job, Statuses, p
    <3> QED
      BY <3>5 DEF Installs!Next
  <2> QED
    BY <1>1, <1>5, <2>2, <2>5, <2>6, LifeStep
<1> QED
  BY <1>1, <1>2, <1>4, <1>5 DEF Next

\* For one process whose names do not collide: suffixed installs live side by
\* side.  Every behaviour of the files, killed commands and faults included, is
\* one of SideBySide.
THEOREM InstallsSideBySideForOne ==
    ASSUME Procs # {}, OneProc, DistinctTrees, NobodyElse
    PROVE  Spec => InstallsSideBySide
<1>1. Init => Installs!Init
  <2> SUFFICES ASSUME Init  PROVE Installs!Init
    OBVIOUS
  <2>1. OnlyProc \in Procs
    BY DEF OnlyProc
  <2>2. \A l \in Links, key \in Keys : ~ Into(bin[l], DirOf(key))
    BY NamesAssumption DEF Init, Into
  <2>3. \A key \in Keys : Status(key) = "absent"
    BY <2>2 DEF Init, Status, Active
  <2> QED
    BY <2>1, <2>3 DEF Init, Installs!Init, Installs!NoJob
<1>2. TypeOK /\ ControlInv /\ TreeInv /\ TreeInv' /\ Spent /\ LinkedInv /\ RemovalInv
        /\ ListedInv /\ CopyIsCurrent /\ [Next]_vars =>
          \/ Installs!Next
          \/ UNCHANGED << [key \in Keys |-> Status(key)],
                          IF pc[OnlyProc] = "idle" THEN [verb |-> "none"]
                          ELSE [ verb |-> cmd[OnlyProc].verb,
                                 key |-> cmd[OnlyProc].key,
                                 force |-> cmd[OnlyProc].force ],
                          exit[OnlyProc] = "ok" >>
  BY InstallStepRefines DEF Statuses, Job
<1>3. Limit["oob"] = 0
  BY DEF NobodyElse
<1>4. Spec => []TreeInv /\ []LinkedInv /\ []RemovalInv /\ []ListedInv /\ []CopyIsCurrent
  BY <1>3, TreeAlways, LinkedAlways, RemovalAlways, ListedAlways, CopyAlways, PTL
<1> QED
  BY <1>1, <1>2, <1>4, TypeCorrect, ControlAlways, SpentAlways, PTL
     DEF Spec, InstallsSideBySide, Installs!Spec

----------------------------------------------------------------------------
(* What killed and failed commands leave                                   *)

\* A package that is called like uv's script directory never gets past the
\* ground-truth check.
NamedPCs == {"scan", "final", "load", "save"} \cup LinkPCs
NotBin(key) == key[1] # <<"bin">>

NamedInv ==
    /\ \A r \in ActiveRecords : NotBin(r.key)
    /\ \A p \in Procs : pc[p] \in NamedPCs /\ Installing(p) => NotBin(cmd[p].key)

\* What an update makes active, in a file that is as it was loaded.
LEMMA SavedRecords ==
    ASSUME TypeOK, CopyIsCurrent, NEW p \in Procs, SaveLedger(p),
           NEW r \in ledger', ~ r.removed
    PROVE  \/ Installing(p) /\ r = NewRecord(p)
           \/ r \in ledger /\ r.key # cmd[p].key
<1>1. copy[p] = ledger /\ ledger \in SUBSET Records
  BY DEF SaveLedger, CopyIsCurrent, TypeOK
<1>2. CASE Installing(p)
  <2>1. ledger' = RecordInstall(ledger, NewRecord(p))
    BY <1>1, <1>2 DEF SaveLedger, Installing
  <2>2. NewRecord(p).key = cmd[p].key
    BY DEF NewRecord
  <2> QED
    BY <1>2, <2>1, <2>2 DEF RecordInstall, Matches
<1>3. CASE ~ Installing(p)
  <2>1. ledger' = IF Found(ledger, cmd[p].key)
                  THEN MarkRemoved(ledger, cmd[p].key) ELSE ledger
    BY <1>1, <1>3 DEF SaveLedger, Installing
  <2>2. CASE Found(ledger, cmd[p].key)
    <3>1. PICK s \in ledger :
             r = IF Matches(s, cmd[p].key) THEN [s EXCEPT !.removed = TRUE] ELSE s
      BY <2>1, <2>2 DEF MarkRemoved
    <3>2. [s EXCEPT !.removed = TRUE].removed = TRUE
      BY <1>1 DEF Records
    <3>3. r = s /\ ~ Matches(s, cmd[p].key)
      BY <3>1, <3>2
    <3> QED
      BY <3>3 DEF Matches
  <2>3. CASE ~ Found(ledger, cmd[p].key)
    BY <2>1, <2>3 DEF Found, Matches
  <2> QED
    BY <2>2, <2>3
<1> QED
  BY <1>2, <1>3

LEMMA NamedStep ==
    ASSUME TypeOK, ControlInv, CopyIsCurrent, NamedInv, [Next]_vars, OneProc
    PROVE  NamedInv'
<1> USE TypeParts DEF LocalsOK, Installing
<1>1. ASSUME NEW r \in ledger', ~ r.removed  PROVE NotBin(r.key)
  <2>1. CASE ledger' = ledger
    BY <1>1, <2>1 DEF NamedInv, ActiveRecords
  <2>2. ASSUME NEW p \in Procs, SaveLedger(p)  PROVE NotBin(r.key)
    <3>1. CASE Installing(p) /\ r = NewRecord(p)
      BY <2>2, <3>1 DEF NamedInv, NamedPCs, SaveLedger, NewRecord
    <3>2. CASE r \in ledger
      BY <1>1, <3>2 DEF NamedInv, ActiveRecords
    <3> QED
      BY <1>1, <2>2, <3>1, <3>2, SavedRecords
  <2> QED
    BY <2>1, <2>2, LedgerStepOnly
<1>2. ASSUME NEW p \in Procs
      PROVE  (pc[p] \in NamedPCs /\ Installing(p) => NotBin(cmd[p].key))'
  <2> DEFINE Ok == pc[p] \in NamedPCs /\ Installing(p) => NotBin(cmd[p].key)
  <2> Ok /\ Control(p) /\ \A q \in Procs : q = p
    BY DEF NamedInv, ControlInv, OneProc
  <2> USE DEF NamedPCs, LinkPCs
  <2>1. ASSUME NEW code, Finish(p, code)  PROVE Ok'
    BY <2>1 DEF Finish, Goto
  <2>2. ASSUME pc[p] \in NamedPCs, UNCHANGED cmd  PROVE Ok'
    BY <2>2
  <2>3. CASE Start(p) \/ UvInstalls(p) \/ PostCheck(p)
    BY <2>3 DEF Start, StartInstall, StartUninstall, UvInstalls, PostCheck, Goto
  <2>4. CASE CheckName(p)
    BY <2>4 DEF CheckName, ToolEnvDirs, NotBin, Goto, locals
  <2>5. CASE UvFails(p) \/ UvRefused(p) \/ Cleanup(p) \/ CleanupFaults(p) \/ Crash(p) \/ SaveLedger(p)
    BY <2>5, <2>1 DEF UvFails, UvRefused, Cleanup, CleanupFaults, Crash, SaveLedger
  <2>6. CASE \/ ScanExes(p) \/ LinkNext(p) \/ LinkingDone(p) \/ RemoveForeign(p)
             \/ PlaceSymlink(p) \/ LinkingFaults(p) \/ FinalCheck(p) \/ LoadLedger(p)
    BY <2>6, <2>1, <2>2
       DEF ScanExes, LinkNext, LinkingDone, RemoveForeign, PlaceSymlink,
           LinkingFaults, FinalCheck, LoadLedger, locals
  <2>7. CASE UninstallStep(p)
    BY <2>7, <2>1
       DEF UninstallStep, UvUninstall, RemoveLink, RemoveLinkFaults, LinksRemoved,
           RmTree, RmTreeFaults, Control, UninstallPCs, locals
  <2>8. CASE OutOfBand \/ UNCHANGED vars
    BY <2>8 DEF OutOfBand, vars, locals
  <2> QED
    BY <2>3, <2>4, <2>5, <2>6, <2>7, <2>8 DEF Next, Step, InstallStep, LedgerStep
<1> QED
  BY <1>1, <1>2 DEF NamedInv, ActiveRecords

\* A scratch tree holds the package it is named for, and nothing else; what an
\* install compares with is what it finds; so it never comes to a cleanup, but
\* for a package no check can confirm.
Pure == \A key \in Keys : \A t \in tree[DirOf(key)] : t.pkg = key[1]

PureOK(p) ==
    /\ pc[p] \in {"uv", "post"} /\ cmd[p].verify => pre[p] = bin
    /\ pc[p] = "post" => cmd[p].verify
    /\ pc[p] \in {"post", "check"} => \E t \in tree[Dir(p)] : t.pkg = cmd[p].key[1]
    /\ pc[p] = "cleanup" => ~ NotBin(cmd[p].key)

PureInv == Undisturbed => Pure /\ \A p \in Procs : PureOK(p)

LEMMA NothingSpent ==
    ASSUME TypeOK, Spent, left' = Limit
    PROVE  \A m \in {"oob", "crash", "fault", "misname"} : ~ Spend(m)
<1> SUFFICES ASSUME NEW m \in Mishaps, Spend(m)  PROVE FALSE
  BY DEF Mishaps
<1>1. left'[m] < Limit[m] /\ Limit[m] \in Nat
  BY SpendShows, ConstantsAssumption
<1> QED
  BY <1>1

LEMMA StartShows ==
    ASSUME TypeOK, NEW p \in Procs, StartInstall(p)
    PROVE  cmd'[p].verify => pre'[p] = bin
<1>1. cmd \in [Procs -> Commands] /\ pre \in [Procs -> [Links -> Entries]]
  BY DEF TypeOK
<1>2. PICK key \in Keys, force \in ForceChoices, skip \in SkipVerify :
         /\ cmd' = [cmd EXCEPT ![p] =
                      [ verb |-> "install", key |-> key, force |-> force,
                        verify |-> ~ (skip /\ Mode = "rootless"),
                        op |-> started + 1 ]]
         /\ pre' = IF skip /\ Mode = "rootless"
                   THEN pre ELSE [pre EXCEPT ![p] = bin]
  BY Zenon DEF StartInstall
<1>3. cmd'[p].verify = ~ (skip /\ Mode = "rootless")
  BY <1>1, <1>2
<1> QED
  BY <1>1, <1>2, <1>3

\* What uv leaves when it has installed the package that was named.
LEMMA UvMakes ==
    ASSUME TypeOK, NEW p \in Procs, UvInstalls(p), ~ Spend("misname")
    PROVE  \E xs \in SUBSET Exes :
             tree' = [tree EXCEPT ![Dir(p)] =
                        { t \in @ : t.pkg # cmd[p].key[1] }
                            \cup {[pkg |-> cmd[p].key[1], exes |-> xs]}]
<1>1. PICK q \in Packages : \E xs \in Provides[q] :
         /\ IF q = cmd[p].key[1] THEN UNCHANGED left ELSE Spend("misname")
         /\ tree' = [tree EXCEPT ![Dir(p)] =
                       { t \in @ : t.pkg # q } \cup {[pkg |-> q, exes |-> xs]}]
  BY Zenon DEF UvInstalls
<1>2. q = cmd[p].key[1]
  BY <1>1
<1>3. PICK xs \in Provides[q] :
         tree' = [tree EXCEPT ![Dir(p)] =
                    { t \in @ : t.pkg # q } \cup {[pkg |-> q, exes |-> xs]}]
  BY <1>1
<1>4. xs \in SUBSET Exes
  BY <1>3, ConstantsAssumption
<1> QED
  BY <1>2, <1>3, <1>4

LEMMA PureStep ==
    ASSUME TypeOK, ControlInv, Spent, PureInv, [Next]_vars, OneProc, DistinctTrees
    PROVE  PureInv'
<1> SUFFICES ASSUME Undisturbed'  PROVE Pure' /\ \A p \in Procs : PureOK(p)'
  BY DEF PureInv
<1>1. /\ Pure /\ \A p \in Procs : PureOK(p)
      /\ ~ Spend("oob") /\ ~ Spend("misname")
  BY UndisturbedStep DEF PureInv
<1>2. Pure'
  <2>1. CASE tree' = tree
    BY <1>1, <2>1 DEF Pure
  <2>2. ASSUME NEW p \in Procs, NEW new, tree' = [tree EXCEPT ![Dir(p)] = new],
               \A t \in new : t.pkg = cmd[p].key[1]
        PROVE  Pure'
    <3> SUFFICES ASSUME NEW key \in Keys, NEW t \in tree'[DirOf(key)]
                 PROVE  t.pkg = key[1]
      BY DEF Pure
    <3>1. cmd[p].key \in Keys /\ DirOf(key) \in Dirs /\ tree \in [Dirs -> SUBSET Tools]
      BY DirExists DEF Dirs, TypeOK
    <3>2. CASE key = cmd[p].key
      BY <2>2, <3>1, <3>2 DEF Dir
    <3>3. CASE key # cmd[p].key
      <4>1. DirOf(key) # Dir(p)
        BY <3>1, <3>3 DEF DistinctTrees, Dir
      <4> QED
        BY <1>1, <2>2, <3>1, <4>1 DEF Pure
    <3> QED
      BY <3>2, <3>3
  <2>3. ASSUME NEW p \in Procs, UvInstalls(p)  PROVE Pure'
    <3>1. PICK xs \in SUBSET Exes :
             tree' = [tree EXCEPT ![Dir(p)] =
                        { t \in @ : t.pkg # cmd[p].key[1] }
                            \cup {[pkg |-> cmd[p].key[1], exes |-> xs]}]
      BY <1>1, <2>3, UvMakes
    <3>2. \A t \in tree[Dir(p)] : t.pkg = cmd[p].key[1]
      BY <1>1, DirExists DEF Pure, Dir
    <3> QED
      BY <3>1, <3>2, <2>2
  <2>4. ASSUME NEW p \in Procs, UvUninstall(p)  PROVE Pure'
    <3> DEFINE rest == { t \in tree[Dir(p)] : t.pkg # cmd[p].key[1] }
    <3>1. \A t \in tree[Dir(p)] : t.pkg = cmd[p].key[1]
      BY <1>1, DirExists DEF Pure, Dir
    <3>2. CASE tree' = [tree EXCEPT ![Dir(p)] = rest]
      <4>1. \A t \in rest : t.pkg = cmd[p].key[1]
        BY <3>1
      <4> HIDE DEF rest
      <4> QED
        BY <3>2, <4>1, <2>2
    <3> QED
      BY <3>2, <2>1, <2>4 DEF UvUninstall
  <2>5. ASSUME NEW p \in Procs, RemoveTree(Dir(p))  PROVE Pure'
    <3> DEFINE none == {}
    <3>1. tree' = [tree EXCEPT ![Dir(p)] = none] /\ \A t \in none : t.pkg = cmd[p].key[1]
      BY <2>5 DEF RemoveTree
    <3> HIDE DEF none
    <3> QED
      BY <3>1, <2>2
  <2>6. ASSUME NEW p \in Procs, Chop(Dir(p))  PROVE Pure'
    <3>1. PICK kept \in SUBSET tree[Dir(p)], xs \in SUBSET Exes :
             tree' = [tree EXCEPT ![Dir(p)] =
                        { [t EXCEPT !.exes = @ \cap xs] : t \in kept }]
      BY <2>6 DEF Chop
    <3> DEFINE rest == { [t EXCEPT !.exes = @ \cap xs] : t \in kept }
    <3>2. ASSUME NEW t \in kept  PROVE [t EXCEPT !.exes = @ \cap xs].pkg = cmd[p].key[1]
      <4>1. t \in Tools /\ t.pkg = cmd[p].key[1]
        BY <1>1, DirExists DEF Pure, Dir, TypeOK
      <4> QED
        BY <4>1 DEF Tools
    <3>3. \A t \in rest : t.pkg = cmd[p].key[1]
      BY <3>2
    <3>4. tree' = [tree EXCEPT ![Dir(p)] = rest]
      BY <3>1
    <3> HIDE DEF rest
    <3> QED
      BY <3>3, <3>4, <2>2
  <2> QED
    BY <1>1, <2>1, <2>3, <2>4, <2>5, <2>6
       DEF Next, vars, disk, Start, Step, InstallStep, UninstallStep, LedgerStep,
           StartInstall, StartUninstall, UvFails, UvRefused, PostCheck, CheckName, Cleanup,
           CleanupFaults, ScanExes, LinkNext, LinkingDone, RemoveForeign,
           PlaceSymlink, LinkingFaults, FinalCheck, LoadLedger, SaveLedger,
           RemoveLink, RemoveLinkFaults, LinksRemoved, RmTree, RmTreeFaults, Crash,
           OutOfBand
<1>3. ASSUME NEW p \in Procs  PROVE PureOK(p)'
  <2> USE TypeParts DEF LocalsOK
  <2> /\ PureOK(p) /\ Control(p) /\ (\A q \in Procs : q = p)
      /\ cmd[p].key \in Keys /\ Dir(p) \in Dirs
    BY <1>1, DirExists DEF OneProc, ControlInv
  <2>1. ASSUME NEW code, Finish(p, code)  PROVE PureOK(p)'
    BY <2>1 DEF Finish, Goto, PureOK
  <2>2. CASE StartInstall(p)
    <3>1. cmd'[p].verify => pre'[p] = bin
      BY <2>2, StartShows
    <3>2. pc'[p] = "uv" /\ bin' = bin
      BY <2>2 DEF StartInstall, Goto, disk
    <3> QED
      BY <3>1, <3>2 DEF PureOK
  <2>3. CASE UvInstalls(p)
    <3>1. PICK xs \in SUBSET Exes :
             tree' = [tree EXCEPT ![Dir(p)] =
                        { t \in @ : t.pkg # cmd[p].key[1] }
                            \cup {[pkg |-> cmd[p].key[1], exes |-> xs]}]
      BY <1>1, <2>3, UvMakes
    <3>2. [pkg |-> cmd[p].key[1], exes |-> xs] \in tree'[Dir(p)]
      BY <3>1 DEF DiskOK
    <3>3. \E t \in tree'[Dir(p)] : t.pkg = cmd[p].key[1]
      BY <3>2
    <3> QED
      BY <2>3, <3>3 DEF UvInstalls, Goto, PureOK, Dir, locals
  <2>4. CASE PostCheck(p)
    <3>1. pre[p] = bin
      BY <2>4 DEF PureOK, PostCheck
    <3>2. Unattributed(Diff(pre[p], bin), {}) = {}
      BY <3>1 DEF Unattributed, Diff
    <3> QED
      BY <2>4, <3>2 DEF PostCheck, Goto, PureOK, Dir, disk
  <2>5. CASE CheckName(p)
    <3>1. { t.pkg : t \in tree[Dir(p)] } = {cmd[p].key[1]}
      BY <1>1, <2>5 DEF Pure, PureOK, CheckName, Dir
    <3>2. ToolEnvDirs(Dir(p)) # {cmd[p].key[1]} => ~ NotBin(cmd[p].key)
      BY <3>1 DEF ToolEnvDirs, NotBin
    <3> QED
      BY <2>5, <3>2 DEF CheckName, Goto, PureOK, locals
  <2>6. CASE \/ UvFails(p) \/ UvRefused(p) \/ Cleanup(p) \/ CleanupFaults(p)
             \/ SaveLedger(p) \/ Crash(p)
    BY <2>6, <2>1 DEF UvFails, UvRefused, Cleanup, CleanupFaults, SaveLedger, Crash
  <2>7. CASE \/ StartUninstall(p) \/ ScanExes(p) \/ LinkNext(p) \/ LinkingDone(p)
             \/ RemoveForeign(p) \/ PlaceSymlink(p) \/ FinalCheck(p) \/ LoadLedger(p)
    BY <2>7, <2>1
       DEF StartUninstall, ScanExes, LinkNext, LinkingDone, RemoveForeign,
           PlaceSymlink, FinalCheck, LoadLedger, LinkingIncomplete, AfterLoop,
           Linked, Goto, PureOK
  <2>8. CASE \/ UvUninstall(p) \/ RemoveLink(p) \/ LinksRemoved(p) \/ RmTree(p)
    BY <2>8, <2>1 DEF UvUninstall, RemoveLink, LinksRemoved, RmTree, Goto, PureOK
  <2>9. CASE LinkingFaults(p) \/ RemoveLinkFaults(p) \/ RmTreeFaults(p)
    BY <2>9, <2>1
       DEF LinkingFaults, RemoveLinkFaults, RmTreeFaults, LinkingIncomplete, AfterLoop,
           Linked, Goto, PureOK
  <2>10. CASE UNCHANGED vars
    BY <2>10 DEF vars, disk, locals, PureOK, Dir
  <2> QED
    BY <1>1, <2>2, <2>3, <2>4, <2>5, <2>6, <2>7, <2>8, <2>9, <2>10
       DEF Next, Start, Step, InstallStep, UninstallStep, LedgerStep, OutOfBand
<1> QED
  BY <1>2, <1>3

\* Until a command is killed, an active record has its tree, or its removal is
\* about to be recorded.
Leaving(p, key) ==
    pc[p] \in {"load", "save"} /\ Uninstalling(p) /\ cmd[p].key = key

TreedInv ==
    Undisturbed /\ left["crash"] = Limit["crash"] => \A r \in ActiveRecords :
        DirOf(r.key) \in dirs \/ \E p \in Procs : Leaving(p, r.key)

LEMMA TreedStep ==
    ASSUME TypeOK, ControlInv, TreeInv, Spent, CopyIsCurrent, NamedInv, PureInv,
           TreedInv, [Next]_vars, OneProc, DistinctTrees
    PROVE  TreedInv'
<1> SUFFICES ASSUME Undisturbed', left'["crash"] = Limit["crash"],
                    NEW r \in ledger', ~ r.removed
             PROVE  DirOf(r.key) \in dirs' \/ \E p \in Procs : Leaving(p, r.key)'
  BY DEF TreedInv, ActiveRecords
<1> DEFINE Held == DirOf(r.key) \in dirs' \/ \E p \in Procs : Leaving(p, r.key)'
<1> USE TypeParts DEF LocalsOK
<1>1. ~ Spend("oob") /\ ~ Spend("misname") /\ ~ Spend("crash")
  <2>1. "crash" \in Mishaps /\ Limit["crash"] \in Nat
    BY ConstantsAssumption DEF Mishaps
  <2>2. Spend("crash") => left'["crash"] < Limit["crash"]
    BY <2>1, SpendShows
  <2> QED
    BY <2>1, <2>2, UndisturbedStep
<1>2. Undisturbed /\ left["crash"] = Limit["crash"]
  <2>1. "crash" \in Mishaps
    BY DEF Mishaps
  <2> QED
    BY <2>1, LeftStep, UndisturbedStep
<1>3. ASSUME r \in ledger
      PROVE  /\ r.key \in Keys /\ NotBin(r.key)
             /\ DirOf(r.key) \in dirs \/ \E p \in Procs : Leaving(p, r.key)
  BY <1>2, <1>3 DEF NamedInv, TreedInv, ActiveRecords, DiskOK, Records
<1>4. ASSUME NEW p \in Procs, SaveLedger(p)  PROVE Held
  <2>1. CASE Installing(p) /\ r = NewRecord(p)
    <3>1. Dir(p) \in dirs
      BY <1>4, <2>1 DEF TreeInv, TreeOK, TreePCs, SaveLedger
    <3> QED
      BY <1>4, <2>1, <3>1 DEF NewRecord, Dir, SaveLedger
  <2>2. CASE r \in ledger /\ r.key # cmd[p].key
    BY <1>3, <1>4, <2>2 DEF Leaving, OneProc, SaveLedger
  <2> QED
    BY <1>4, <2>1, <2>2, SavedRecords
<1>5. ASSUME ledger' = ledger, dirs \subseteq dirs',
             \A p \in Procs : pc[p] # "save" /\ cmd'[p] = cmd[p] /\ 
                              (pc[p] = "load" => pc'[p] \in {"load", "save"})
      PROVE  Held
  BY <1>3, <1>5 DEF Leaving, Uninstalling
<1>6. ASSUME ledger' = ledger, dirs \subseteq dirs',
             \A p \in Procs : pc[p] \notin {"load", "save"}
      PROVE  Held
  BY <1>3, <1>6 DEF Leaving
<1>7. ASSUME NEW p \in Procs, Cleanup(p)  PROVE Held
  <2>1. ~ NotBin(cmd[p].key) /\ cmd[p].key \in Keys
    BY <1>2, <1>7, DirExists DEF PureInv, PureOK, Cleanup
  <2>2. r \in ledger
    BY <1>7 DEF Cleanup
  <2>3. r.key # cmd[p].key
    BY <1>3, <2>1, <2>2
  <2>4. DirOf(r.key) # Dir(p)
    BY <1>3, <2>1, <2>2, <2>3 DEF DistinctTrees, Dir
  <2>5. DirOf(r.key) \in dirs
    BY <1>3, <1>7, <2>2 DEF OneProc, Leaving, Cleanup
  <2> QED
    BY <1>7, <2>4, <2>5 DEF Cleanup, RemoveTree
<1>8. ASSUME NEW p \in Procs, RmTree(p)  PROVE Held
  <2>1. Dir(p) \in dirs /\ cmd[p].key \in Keys
    BY <1>8, DirExists DEF TreeInv, TreeOK, RmTree, UninstallPCs
  <2>2. r \in ledger /\ dirs' = dirs \ {Dir(p)} /\ pc'[p] = "load" /\ cmd' = cmd
    BY <1>8, <2>1 DEF RmTree, RemoveTree, Goto, locals
  <2>3. CASE r.key = cmd[p].key
    <3>1. Uninstalling(p)
      BY <1>8, DirExists DEF ControlInv, Control, UninstallPCs, RmTree, Installing,
           Uninstalling, Commands
    <3> QED
      BY <2>2, <2>3, <3>1 DEF Leaving, Uninstalling
  <2>4. CASE r.key # cmd[p].key
    <3>1. DirOf(r.key) # Dir(p)
      BY <1>3, <2>1, <2>2, <2>4 DEF DistinctTrees, Dir
    <3>2. DirOf(r.key) \in dirs
      BY <1>3, <1>8, <2>2 DEF OneProc, Leaving, RmTree
    <3> QED
      BY <2>2, <3>1, <3>2
  <2> QED
    BY <2>3, <2>4
<1>9. ASSUME NEW p \in Procs, LoadLedger(p)  PROVE Held
  BY <1>9, <1>5 DEF LoadLedger, Goto, disk, OneProc
<1>10. ASSUME NEW p \in Procs, Start(p)  PROVE Held
  BY <1>10, <1>6 DEF Start, StartInstall, StartUninstall, disk, OneProc
<1>11. ASSUME NEW p \in Procs,
              \/ UvInstalls(p) \/ UvFails(p) \/ UvRefused(p) \/ PostCheck(p) \/ CheckName(p)
              \/ ScanExes(p) \/ LinkNext(p) \/ LinkingDone(p) \/ RemoveForeign(p)
              \/ PlaceSymlink(p) \/ FinalCheck(p)
       PROVE  Held
  BY <1>11, <1>6
     DEF UvInstalls, UvFails, UvRefused, PostCheck, CheckName, ScanExes, LinkNext, LinkingDone,
         RemoveForeign, PlaceSymlink, FinalCheck, disk, OneProc
<1>12. ASSUME NEW p \in Procs, UvUninstall(p) \/ RemoveLink(p) \/ LinksRemoved(p)
       PROVE  Held
  BY <1>12, <1>6 DEF UvUninstall, RemoveLink, LinksRemoved, disk, OneProc
<1>13. ASSUME NEW p \in Procs,
              \/ CleanupFaults(p) \/ LinkingFaults(p)
              \/ RemoveLinkFaults(p) \/ RmTreeFaults(p)
       PROVE  Held
  BY <1>13, <1>6
     DEF CleanupFaults, LinkingFaults, RemoveLinkFaults, RmTreeFaults, Chop, disk, OneProc
<1>14. CASE UNCHANGED vars
  BY <1>14, <1>3 DEF vars, disk, locals, Leaving, Uninstalling
<1> QED
  BY <1>1, <1>4, <1>7, <1>8, <1>9, <1>10, <1>11, <1>12, <1>13, <1>14
     DEF Next, Step, InstallStep, UninstallStep, LedgerStep, Crash, OutOfBand

\* A link into a scratch tree has that tree, and the tree got past the check.
Standing(v) ==
    v \in Symlinks =>
        v.dir \in dirs /\ \A key \in Keys : DirOf(key) = v.dir => NotBin(key)

StandingInv == Undisturbed => \A l \in Links : Standing(bin[l])

\* Trees go by a cleanup or at the end of an uninstall.
LEMMA DirsStepOnly ==
    ASSUME TypeOK, [Next]_vars
    PROVE  \/ dirs \subseteq dirs'
           \/ \E p \in Procs : Cleanup(p) \/ RmTree(p)
BY DEF Next, vars, disk, Start, Step, InstallStep, UninstallStep, LedgerStep,
       StartInstall, StartUninstall, UvInstalls, UvFails, UvRefused, PostCheck,
       CheckName, CleanupFaults, ScanExes, LinkNext, LinkingDone, RemoveForeign,
       PlaceSymlink, LinkingFaults, FinalCheck, LoadLedger, SaveLedger, UvUninstall,
       RemoveLink, RemoveLinkFaults, LinksRemoved, RmTreeFaults, Crash, OutOfBand, Chop

LEMMA StandingStep ==
    ASSUME TypeOK, ControlInv, TreeInv, Spent, RemovalInv, NamedInv, PureInv,
           StandingInv, [Next]_vars, OneProc, DistinctTrees
    PROVE  StandingInv'
<1> SUFFICES ASSUME Undisturbed', NEW l \in Links  PROVE Standing(bin[l])'
  BY DEF StandingInv
<1> USE TypeParts DEF DiskOK
<1>1. Undisturbed /\ Calm /\ ~ Spend("oob") /\ Standing(bin[l])
  BY UndisturbedStep DEF StandingInv
<1>2. ASSUME NEW p \in Procs, RmTree(p)  PROVE Standing(bin[l])'
  <2>1. Dir(p) \in dirs /\ ~ Into(bin[l], Dir(p))
    BY <1>1, <1>2 DEF TreeInv, TreeOK, RemovalInv, RemovalOK, RmTree, UninstallPCs
  <2>2. dirs' = dirs \ {Dir(p)} /\ bin' = bin
    BY <1>2, <2>1 DEF RmTree, RemoveTree
  <2> QED
    BY <1>1, <2>1, <2>2 DEF Standing, Into
<1>3. ASSUME NEW p \in Procs, Cleanup(p)  PROVE Standing(bin[l])'
  <2>1. ~ NotBin(cmd[p].key) /\ cmd[p].key \in Keys
    BY <1>1, <1>3, DirExists DEF PureInv, PureOK, Cleanup
  <2>2. bin' = bin /\ dirs \ {Dir(p)} \subseteq dirs'
    BY <1>3 DEF Cleanup, RemoveTree
  <2>3. bin[l] \in Symlinks => bin[l].dir # Dir(p)
    BY <1>1, <2>1 DEF Standing, Dir
  <2> QED
    BY <1>1, <2>2, <2>3 DEF Standing
<1>4. CASE dirs \subseteq dirs' /\ bin'[l] = bin[l]
  BY <1>1, <1>4 DEF Standing
<1>5. CASE bin'[l] = Absent
  BY <1>5, NamesAssumption DEF Standing
<1>6. ASSUME NEW p \in Procs, PlaceSymlink(p)  PROVE Standing(bin[l])'
  <2>1. PICK e \in Exes :
          \/ bin' = [bin EXCEPT ![LinkName(e, cmd[p].key)] = Target(e, cmd[p].key)]
          \/ bin' = bin
    BY <1>6 DEF PlaceSymlink
  <2>2. dirs' = dirs /\ pc[p] = "place"
    BY <1>6 DEF PlaceSymlink
  <2>3. bin'[l] \in {bin[l], Target(e, cmd[p].key)}
    BY <2>1
  <2>4. Installing(p)
    BY <2>2 DEF ControlInv, Control, InstallPCs
  <2>5. Dir(p) \in dirs
    BY <2>2, <2>4 DEF TreeInv, TreeOK, TreePCs, LinkPCs
  <2>6. NotBin(cmd[p].key) /\ cmd[p].key \in Keys
    BY <2>2, <2>4, DirExists DEF NamedInv, NamedPCs, LinkPCs
  <2>7. \A key \in Keys : DirOf(key) = Dir(p) => NotBin(key)
    BY <2>6 DEF DistinctTrees, Dir
  <2>8. Target(e, cmd[p].key).dir = Dir(p)
    BY DEF Target, Dir
  <2> QED
    BY <1>1, <2>2, <2>3, <2>5, <2>7, <2>8 DEF Standing
<1>7. \/ bin'[l] = bin[l] \/ bin'[l] = Absent
      \/ \E p \in Procs : PlaceSymlink(p)
  BY <1>1, BinStepOnly DEF RemoveForeign, RemoveLink, OutOfBand
<1> QED
  BY <1>2, <1>3, <1>4, <1>5, <1>6, <1>7, DirsStepOnly


LEMMA PureAlways ==
    ASSUME OneProc, DistinctTrees
    PROVE  Spec => [](NamedInv /\ PureInv /\ TreedInv /\ StandingInv)
<1>1. Init => NamedInv /\ PureInv /\ TreedInv /\ StandingInv
  <2>1. \A key \in Keys : DirOf(key) \in Dirs
    BY DEF Dirs
  <2>2. Init => StandingInv
    BY NamesAssumption DEF Init, StandingInv, Standing
  <2> QED
    BY <2>1, <2>2 DEF Init, NamedInv, NamedPCs, LinkPCs, PureInv, PureOK, Pure, TreedInv,
         ActiveRecords
<1>2. TypeOK /\ ControlInv /\ TreeInv /\ Spent /\ CopyIsCurrent /\ RemovalInv
        /\ NamedInv /\ PureInv /\ TreedInv /\ StandingInv /\ [Next]_vars
          => NamedInv' /\ PureInv' /\ TreedInv' /\ StandingInv'
  BY NamedStep, PureStep, TreedStep, StandingStep
<1> QED
  BY <1>1, <1>2, TypeCorrect, ControlAlways, TreeAlways, SpentAlways, CopyAlways,
     RemovalAlways, PTL DEF Spec

\* For one process whose names do not collide, at every moment, commands killed
\* and system calls failed: no link outlives its tree, and no record does but one
\* whose uninstall was stopped in between.
THEOREM TakenApartInOrderForOne ==
    ASSUME OneProc, DistinctTrees
    PROVE  Spec => []TakenApartInOrder
<1>1. TypeOK /\ Spent /\ TreedInv /\ StandingInv => TakenApartInOrder
  <2> SUFFICES ASSUME TypeOK, Spent, TreedInv, StandingInv, Undisturbed
               PROVE  /\ \A l \in Links : bin[l] \in Symlinks => bin[l].dir \in dirs
                      /\ \A r \in ActiveRecords :
                            DirOf(r.key) \in dirs \/ PastItsTree(r.key)
    BY DEF TakenApartInOrder
  <2>1. CASE left["crash"] = Limit["crash"]
    BY <2>1 DEF TreedInv, StandingInv, Standing, Leaving, PastItsTree
  <2>2. CASE left["crash"] # Limit["crash"]
    <3>1. "crash" \in Mishaps
      BY DEF Mishaps
    <3>2. left["crash"] \in Nat /\ Limit["crash"] \in Nat
      BY <3>1, ConstantsAssumption DEF TypeOK
    <3>3. left["crash"] <= Limit["crash"]
      BY <3>1 DEF Spent
    <3>4. left["crash"] < Limit["crash"]
      BY <2>2, <3>2, <3>3
    <3> QED
      BY <3>4 DEF StandingInv, Standing, PastItsTree
  <2> QED
    BY <2>1, <2>2
<1> QED
  BY <1>1, PureAlways, TypeCorrect, SpentAlways, PTL

\* For one process whose names do not collide: no install is refused, with any
\* exit code, because of what killed or failed commands left under its key.
THEOREM LeftoversNeverRefuseForOne ==
    ASSUME OneProc, DistinctTrees
    PROVE  Spec => LeftoversNeverRefuse
<1> DEFINE Cause(p) ==
      LET found == Scripts(Dir(p)) IN
      \/ found = {} \/ found \cap InvalidExes # {} \/ cmd[p].key[1] = <<"bin">>
      \/ \E e \in found :
            LET v == bin[LinkName(e, cmd[p].key)] IN
            v \in Files \/ (v \in Symlinks /\ v.dir \in dirs \ {Dir(p)})
<1>1. TypeOK /\ ControlInv /\ TreeInv /\ PureInv /\ StandingInv =>
        \A p \in Procs : Undisturbed /\ RefusesInstall(p) => Cause(p)
  <2> SUFFICES ASSUME TypeOK, ControlInv, TreeInv, PureInv, StandingInv,
                      NEW p \in Procs, Undisturbed, RefusesInstall(p)
               PROVE  Cause(p)
    OBVIOUS
  <2> USE TypeParts DEF LocalsOK
  <2>1. /\ TreeOK(p) /\ PureOK(p) /\ Pure /\ cmd[p].key \in Keys
        /\ Step(p) /\ Installing(p) /\ pc'[p] \in {"cleanup", "idle"}
        /\ pc[p] \in {"post", "check", "scan", "link"}
    BY DirExists DEF TreeInv, PureInv, RefusesInstall
  <2>2. /\ ~ Goto(p, "check") /\ ~ Goto(p, "scan") /\ ~ Goto(p, "link")
        /\ ~ Goto(p, "replace") /\ ~ Goto(p, "place")
        /\ ~ Goto(p, "final") /\ ~ Goto(p, "load")
    BY <2>1 DEF Goto
  <2>3. PostCheck(p) \/ CheckName(p) \/ ScanExes(p) \/ LinkNext(p)
    <3>1. ~ LinkingDone(p)
      BY <2>2 DEF LinkingDone, AfterLoop
    <3>2. /\ ~ UvInstalls(p) /\ ~ UvFails(p) /\ ~ UvRefused(p) /\ ~ Cleanup(p)
          /\ ~ CleanupFaults(p) /\ ~ RemoveForeign(p) /\ ~ PlaceSymlink(p)
          /\ ~ LinkingFaults(p) /\ ~ FinalCheck(p)
      BY <2>1 DEF UvInstalls, UvFails, UvRefused, Cleanup, CleanupFaults, RemoveForeign,
                  PlaceSymlink, LinkingFaults, FinalCheck
    <3>3. ~ UninstallStep(p) /\ ~ LedgerStep(p)
      BY <2>1 DEF UninstallStep, LedgerStep, LoadLedger, SaveLedger, UvUninstall,
                  RemoveLink, RemoveLinkFaults, LinksRemoved, RmTree, RmTreeFaults
    <3> QED
      BY <2>1, <3>1, <3>2, <3>3 DEF Step, InstallStep
  <2>4. ~ PostCheck(p)
    <3>1. ASSUME pc[p] = "post"  PROVE Unattributed(Diff(pre[p], bin), {}) = {}
      BY <2>1, <3>1 DEF PureOK, Unattributed, Diff
    <3> QED
      BY <2>2, <3>1 DEF PostCheck
  <2>5. CASE CheckName(p)
    <3>1. { t.pkg : t \in tree[Dir(p)] } = {cmd[p].key[1]}
      BY <2>1, <2>5 DEF Pure, PureOK, CheckName, Dir
    <3>2. ToolEnvDirs(Dir(p)) # {cmd[p].key[1]}
      BY <2>2, <2>5 DEF CheckName
    <3> QED
      BY <3>1, <3>2 DEF ToolEnvDirs
  <2>6. CASE ScanExes(p)
    BY <2>2, <2>6 DEF ScanExes
  <2>7. CASE LinkNext(p)
    <3>1. PICK e \in Exes :
            /\ IsNext(p, e)
            /\ ClassifyCollision(bin[LinkName(e, cmd[p].key)], Dir(p), cmd[p].force)
                  = "refuse"
      BY <2>2, <2>7 DEF LinkNext, Linked
    <3> DEFINE v == bin[LinkName(e, cmd[p].key)]
    <3>2. e \in Scripts(Dir(p))
      BY <2>7, <2>1, <3>1 DEF TreeOK, LinkPCs, LinkNext, IsNext
    <3>3. v # Absent /\ ~ Into(v, Dir(p))
      BY <3>1 DEF ClassifyCollision
    <3>4. v \in Entries /\ Standing(v)
      BY <2>1, NamesExist DEF DiskOK, StandingInv
    <3>5. v \in Files \/ (v \in Symlinks /\ v.dir \in dirs \ {Dir(p)})
      BY <3>3, <3>4 DEF Entries, Standing, Into
    <3> QED
      BY <3>2, <3>5
  <2> QED
    BY <2>3, <2>4, <2>5, <2>6, <2>7
<1> QED
  BY <1>1, TypeCorrect, ControlAlways, TreeAlways, PureAlways, PTL
     DEF Spec, LeftoversNeverRefuse

----------------------------------------------------------------------------
(* Records, while nothing has gone wrong                                   *)

\* The command that runs is the latest one; it has not recorded anything yet.
OpsInv ==
    /\ started <= MaxOps /\ \A r \in ledger : r.op <= started
    /\ \A p \in Procs : pc[p] # "idle" =>
           cmd[p].op = started /\ \A r \in ledger : r.op < started

\* How a step counts commands.
LEMMA CommandStep ==
    ASSUME TypeOK, [Next]_vars, NEW p \in Procs, \A q \in Procs : q = p
    PROVE  \/ UNCHANGED <<cmd, started>> /\ (pc'[p] = pc[p] \/ pc[p] # "idle")
           \/ pc'[p] = "idle" /\ started' = started
           \/ /\ pc[p] = "idle" /\ started < MaxOps /\ started' = started + 1
              /\ pc'[p] # "idle" => cmd'[p].op = started'
<1> USE TypeParts DEF LocalsOK
<1> DEFINE Ok == \/ UNCHANGED <<cmd, started>> /\ (pc'[p] = pc[p] \/ pc[p] # "idle")
                 \/ pc'[p] = "idle" /\ started' = started
                 \/ /\ pc[p] = "idle" /\ started < MaxOps /\ started' = started + 1
                    /\ pc'[p] # "idle" => cmd'[p].op = started'
<1>1. ASSUME NEW code, Finish(p, code), started' = started  PROVE Ok
  BY <1>1 DEF Finish, Goto
<1>2. CASE StartInstall(p)
  BY <1>2 DEF StartInstall, Goto
<1>3. CASE StartUninstall(p)
  BY <1>3 DEF StartUninstall, Goto
<1>4. CASE InstallStep(p)
  BY <1>4, <1>1
     DEF InstallStep, UvInstalls, UvFails, UvRefused, PostCheck, CheckName, Cleanup,
         CleanupFaults, ScanExes, LinkNext, LinkingDone, RemoveForeign, PlaceSymlink,
         LinkingFaults, FinalCheck, locals, bounds
<1>5. CASE UninstallStep(p) \/ UvRefused(p) \/ LedgerStep(p) \/ Crash(p)
  BY <1>5, <1>1
     DEF UninstallStep, LedgerStep, UvUninstall, RemoveLink, RemoveLinkFaults,
         LinksRemoved, RmTree, RmTreeFaults, UvRefused, LoadLedger, SaveLedger, Crash,
         locals, bounds
<1>6. CASE OutOfBand \/ UNCHANGED vars
  BY <1>6 DEF OutOfBand, vars, locals, bounds
<1> QED
  BY <1>2, <1>3, <1>4, <1>5, <1>6 DEF Next, Start, Step

\* An update brings in no operation but the one that makes it.
LEMMA SavedOps ==
    ASSUME TypeOK, CopyIsCurrent, NEW p \in Procs, SaveLedger(p), NEW r \in ledger'
    PROVE  r.op = cmd[p].op \/ \E s \in ledger : r.op = s.op
<1>1. copy[p] = ledger /\ ledger \in SUBSET Records
  BY DEF SaveLedger, CopyIsCurrent, TypeOK
<1>2. CASE ledger' = RecordInstall(ledger, NewRecord(p))
  BY <1>2 DEF RecordInstall, NewRecord
<1>3. CASE ledger' = MarkRemoved(ledger, cmd[p].key)
  <2>1. PICK s \in ledger :
           r = IF Matches(s, cmd[p].key) THEN [s EXCEPT !.removed = TRUE] ELSE s
    BY <1>3 DEF MarkRemoved
  <2>2. [s EXCEPT !.removed = TRUE].op = s.op
    BY <1>1 DEF Records
  <2> QED
    BY <2>1, <2>2
<1> QED
  BY <1>1, <1>2, <1>3 DEF SaveLedger

LEMMA OpsStep ==
    ASSUME TypeOK, CopyIsCurrent, OpsInv, [Next]_vars, OneProc
    PROVE  OpsInv'
<1>1. started \in Nat /\ MaxOps \in Nat /\ \A r \in ledger : r.op \in Nat
  BY ConstantsAssumption DEF TypeOK, Records
<1>2. CASE UNCHANGED <<ledger, started>> /\ Procs = {}
  BY <1>2 DEF OpsInv
<1>3. ASSUME NEW p \in Procs, \A q \in Procs : q = p  PROVE OpsInv'
  <2>1. \/ UNCHANGED <<cmd, started>> /\ (pc'[p] = pc[p] \/ pc[p] # "idle")
        \/ pc'[p] = "idle" /\ started' = started
        \/ /\ pc[p] = "idle" /\ started < MaxOps /\ started' = started + 1
           /\ pc'[p] # "idle" => cmd'[p].op = started'
    BY <1>3, CommandStep
  <2>2. CASE ledger' = ledger
    BY <1>1, <1>3, <2>1, <2>2 DEF OpsInv
  <2>3. CASE SaveLedger(p)
    <3>1. pc'[p] = "idle" /\ started' = started /\ pc[p] # "idle"
      BY <2>3, TypeParts DEF SaveLedger, Finish, Goto, bounds, LocalsOK
    <3>2. \A r \in ledger' : r.op <= started
      BY <1>1, <2>3, <3>1, SavedOps DEF OpsInv
    <3> QED
      BY <1>3, <3>1, <3>2 DEF OpsInv
  <2> QED
    BY <1>3, <2>2, <2>3, LedgerStepOnly
<1>4. CASE Procs = {}
  <2>1. UNCHANGED <<ledger, started>>
    BY <1>4 DEF Next, OutOfBand, vars, disk, bounds
  <2> QED
    BY <1>2, <1>4, <2>1
<1> QED
  BY <1>3, <1>4 DEF OneProc

\* What `uvctl verify' would miss of a record, as long as a command runs: a link
\* that is just being replaced, or those of an uninstall under way.
Replacing(p, link) ==
    pc[p] = "place" /\ \E f \in Exes : IsNext(p, f) /\ LinkName(f, cmd[p].key) = link

Going(p, key) ==
    /\ pc[p] \in {"unlink", "rmtree", "load", "save"}
    /\ Uninstalling(p) /\ cmd[p].key = key

There(r, e) == bin[LinkName(e, r.key)] = Target(e, r.key)
Overtaken(r, e) == \E op \in (r.op + 1)..MaxOps : <<op, e>> \in witness
Excused(r, e) ==
    \E p \in Procs : Replacing(p, LinkName(e, r.key)) \/ Going(p, r.key)

QuietInv ==
    left = Limit =>
        \A r \in ActiveRecords : \A e \in r.execs :
            There(r, e) \/ Overtaken(r, e) \/ Excused(r, e)

LEMMA QuietStep ==
    ASSUME TypeOK, ControlInv, TreeInv, Spent, OwnedInv, LinkedInv, RemovalInv,
           CopyIsCurrent, OpsInv, QuietInv, [Next]_vars,
           OneProc, DistinctTrees, DistinctLinks
    PROVE  QuietInv'
<1> SUFFICES ASSUME left' = Limit, NEW r \in ledger', ~ r.removed, NEW e \in r.execs
             PROVE  There(r, e)' \/ Overtaken(r, e)' \/ Excused(r, e)'
  BY DEF QuietInv, ActiveRecords
<1> DEFINE Quiet == There(r, e)' \/ Overtaken(r, e)' \/ Excused(r, e)'
           name  == LinkName(e, r.key)
<1> USE TypeParts DEF LocalsOK
<1>1. \A m \in {"oob", "crash", "fault", "misname"} : ~ Spend(m)
  BY NothingSpent
<1>2. left = Limit /\ Calm
  BY LeftStep, NothingWrongIsCalm
<1>3. r \in Records /\ r.key \in Keys /\ e \in Exes /\ name \in Links /\ r.op \in Nat
  <2>1. r \in Records
    BY TypeStep DEF TypeOK
  <2>2. r.key \in Keys /\ e \in Exes /\ r.op \in Nat
    BY <2>1 DEF Records
  <2> QED
    BY <2>1, <2>2, NamesExist
<1>4. Overtaken(r, e) => Overtaken(r, e)'
  BY WitnessGrows DEF Overtaken
<1>5. ASSUME r \in ledger  PROVE There(r, e) \/ Overtaken(r, e) \/ Excused(r, e)
  BY <1>2, <1>5 DEF QuietInv, ActiveRecords
<1>6. ASSUME NEW p \in Procs, ledger' = ledger, bin' = bin,
             pc[p] \notin {"place", "unlink", "rmtree", "load", "save"}
      PROVE  Quiet
  BY <1>4, <1>5, <1>6 DEF There, Excused, Replacing, Going, OneProc
<1>7. ASSUME NEW p \in Procs, ledger' = ledger, bin' = bin, cmd' = cmd,
             pc[p] # "place",
             Uninstalling(p) => pc'[p] \in {"unlink", "rmtree", "load", "save"}
      PROVE  Quiet
  BY <1>4, <1>5, <1>7 DEF There, Excused, Replacing, Going, OneProc, Uninstalling
<1>8. ASSUME NEW p \in Procs, Start(p)  PROVE Quiet
  BY <1>8, <1>6 DEF Start, StartInstall, StartUninstall, disk, UninstallPCs
<1>9. ASSUME NEW p \in Procs,
             \/ UvInstalls(p) \/ UvFails(p) \/ UvRefused(p) \/ PostCheck(p) \/ CheckName(p)
             \/ Cleanup(p) \/ ScanExes(p) \/ LinkNext(p) \/ LinkingDone(p)
             \/ FinalCheck(p)
      PROVE  Quiet
  BY <1>9, <1>6
     DEF UvInstalls, UvFails, UvRefused, PostCheck, CheckName, Cleanup, ScanExes, LinkNext,
         LinkingDone, FinalCheck, disk, UninstallPCs
<1>10. ASSUME NEW p \in Procs, UvUninstall(p) \/ LinksRemoved(p) \/ LoadLedger(p)
       PROVE  Quiet
  BY <1>10, <1>7 DEF UvUninstall, LinksRemoved, LoadLedger, Goto, disk, locals, UninstallPCs
<1>11. ASSUME NEW p \in Procs, RmTree(p)  PROVE Quiet
  <2>1. Dir(p) \in dirs
    BY <1>11 DEF TreeInv, TreeOK, RmTree, UninstallPCs
  <2> QED
    BY <1>11, <2>1, <1>7 DEF RmTree, Goto, locals
<1>12. ASSUME NEW p \in Procs, RemoveForeign(p)  PROVE Quiet
  <2>1. ledger' = ledger /\ pc[p] = "replace" /\ cmd' = cmd /\ todo' = todo
    BY <1>12 DEF RemoveForeign
  <2>2. CASE bin' = bin
    BY <2>1, <2>2, <1>6 DEF UninstallPCs
  <2>3. CASE bin' # bin
    <3>1. PICK f \in Exes : /\ IsNext(p, f) /\ Goto(p, "place")
                            /\ bin' = [bin EXCEPT ![LinkName(f, cmd[p].key)] = Absent]
      BY <1>12, <2>3 DEF RemoveForeign
    <3>2. CASE LinkName(f, cmd[p].key) = name
      <4>1. pc'[p] = "place" /\ IsNext(p, f)'
        BY <2>1, <3>1 DEF Goto, IsNext
      <4> QED
        BY <2>1, <3>2, <4>1 DEF Excused, Replacing
    <3>3. CASE LinkName(f, cmd[p].key) # name
      <4>1. There(r, e) => There(r, e)'
        BY <1>3, <3>1, <3>3 DEF There, DiskOK
      <4>2. ~ Excused(r, e)
        BY <2>1 DEF Excused, Replacing, Going, OneProc, UninstallPCs
      <4> QED
        BY <1>4, <1>5, <2>1, <4>1, <4>2
    <3> QED
      BY <3>2, <3>3
  <2> QED
    BY <2>2, <2>3
<1>13. ASSUME NEW p \in Procs, PlaceSymlink(p)  PROVE Quiet
  <2>1. ledger' = ledger /\ pc[p] = "place" /\ cmd[p].key \in Keys
    BY <1>13, DirExists DEF PlaceSymlink
  <2>2. PICK f \in Exes :
          /\ IsNext(p, f)
          /\ bin' = [bin EXCEPT ![LinkName(f, cmd[p].key)] = Target(f, cmd[p].key)]
          /\ witness' = witness \cup {<<cmd[p].op, f>>}
    BY <1>2, <1>13, <2>1 DEF LinkedInv, LinkedOK, PlaceSymlink
  <2>3. CASE LinkName(f, cmd[p].key) = name
    <3>1. f = e
      BY <1>3, <2>1, <2>3 DEF DistinctLinks
    <3>2. cmd[p].op = started /\ r.op < started /\ started <= MaxOps
      BY <2>1 DEF OpsInv
    <3>3. cmd[p].op \in (r.op + 1)..MaxOps
      BY <1>3, <3>2, ConstantsAssumption DEF BoundsOK
    <3> QED
      BY <2>2, <3>1, <3>3 DEF Overtaken
  <2>4. CASE LinkName(f, cmd[p].key) # name
    <3>1. There(r, e) => There(r, e)'
      BY <1>3, <2>2, <2>4 DEF There, DiskOK
    <3>2. \A g \in Exes : IsNext(p, g) => g = f
      BY <2>2, NextIsOne
    <3>3. ~ Excused(r, e)
      BY <2>1, <2>4, <3>2 DEF Excused, Replacing, Going, OneProc, UninstallPCs
    <3> QED
      BY <1>4, <1>5, <2>1, <3>1, <3>3
  <2> QED
    BY <2>3, <2>4
<1>14. ASSUME NEW p \in Procs, RemoveLink(p)  PROVE Quiet
  <2>1. /\ ledger' = ledger /\ pc[p] = "unlink" /\ cmd' = cmd /\ pc' = pc
        /\ cmd[p].key \in Keys /\ Uninstalling(p)
    BY <1>14, DirExists
       DEF RemoveLink, ControlInv, Control, UninstallPCs, Installing, Uninstalling,
           Commands
  <2>2. PICK l \in ours[p] : bin' = [bin EXCEPT ![l] = Absent]
    BY <1>14 DEF RemoveLink
  <2>3. l \in Links /\ Into(bin[l], Dir(p))
    BY <1>2, <2>1, <2>2 DEF RemovalInv, RemovalOK
  <2>4. CASE r.key = cmd[p].key
    BY <2>1, <2>4 DEF Excused, Going, UninstallPCs, Uninstalling
  <2>5. CASE r.key # cmd[p].key
    <3>1. ~ Excused(r, e)
      BY <2>1, <2>5 DEF Excused, Replacing, Going, OneProc
    <3>2. There(r, e) => l # name
      BY <1>3, <2>1, <2>3, <2>5, IntoFacts DEF There, DistinctTrees, Dir
    <3>3. There(r, e) => There(r, e)'
      BY <1>3, <2>2, <3>2 DEF There, DiskOK
    <3> QED
      BY <1>4, <1>5, <2>1, <3>1, <3>3
  <2> QED
    BY <2>4, <2>5
<1>15. ASSUME NEW p \in Procs, SaveLedger(p)  PROVE Quiet
  <2>1. bin' = bin /\ pc[p] = "save"
    BY <1>15 DEF SaveLedger
  <2>2. CASE Installing(p) /\ r = NewRecord(p)
    <3>1. r.key = cmd[p].key /\ e \in execs[p]
      BY <2>2 DEF NewRecord
    <3>2. There(r, e)
      BY <1>2, <2>1, <2>2, <3>1 DEF LinkedInv, LinkedOK, Past, There
    <3> QED
      BY <2>1, <3>2 DEF There
  <2>3. CASE r \in ledger /\ r.key # cmd[p].key
    <3>1. ~ Excused(r, e)
      BY <2>1, <2>3 DEF Excused, Replacing, Going, OneProc
    <3> QED
      BY <1>4, <1>5, <2>1, <2>3, <3>1 DEF There
  <2> QED
    BY <1>15, <2>2, <2>3, SavedRecords
<1>16. CASE UNCHANGED vars
  BY <1>16, <1>4, <1>5
     DEF vars, disk, locals, There, Excused, Replacing, Going, IsNext, Uninstalling
<1> QED
  BY <1>1, <1>8, <1>9, <1>10, <1>11, <1>12, <1>13, <1>14, <1>15, <1>16
     DEF Next, Step, InstallStep, UninstallStep, LedgerStep, CleanupFaults,
         LinkingFaults, RemoveLinkFaults, RmTreeFaults, Crash, OutOfBand

LEMMA QuietAlways ==
    ASSUME OneProc, DistinctTrees, DistinctLinks
    PROVE  Spec => [](OpsInv /\ QuietInv)
<1>1. Init => OpsInv /\ QuietInv
  BY ConstantsAssumption DEF Init, OpsInv, QuietInv, ActiveRecords
<1>2. TypeOK /\ ControlInv /\ TreeInv /\ Spent /\ OwnedInv /\ LinkedInv /\ RemovalInv
        /\ CopyIsCurrent /\ OpsInv /\ QuietInv /\ [Next]_vars => OpsInv' /\ QuietInv'
  BY OpsStep, QuietStep
<1> QED
  BY <1>1, <1>2, TypeCorrect, ControlAlways, TreeAlways, SpentAlways, LinkedAlways,
     RemovalAlways, CopyAlways, PTL DEF Spec

\* For one process whose names do not collide: before any mishap, `uvctl verify'
\* misses no recorded link that a later operation did not link for itself.
THEOREM VerifyQuietForOne ==
    ASSUME OneProc, DistinctTrees, DistinctLinks
    PROVE  Spec => []VerifyQuiet
<1>1. QuietInv => VerifyQuiet
  BY DEF QuietInv, VerifyQuiet, AllIdle, There, Overtaken, Excused, Replacing, Going,
         UninstallPCs
<1> QED
  BY <1>1, QuietAlways, PTL
=============================================================================
