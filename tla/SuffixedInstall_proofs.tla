---------------------- MODULE SuffixedInstall_proofs ----------------------
(***************************************************************************)
(* Theorems about suffixed installs, for any number of processes, packages,*)
(* suffixes and executables, and any number of mishaps.                    *)
(***************************************************************************)
EXTENDS InstallProperties, TLAPS

----------------------------------------------------------------------------
(* Names and entries                                                       *)

\* The scratch tree and the links of a key are among those the module names.
LEMMA NamesExist ==
    ASSUME NEW key \in Keys, NEW e \in Exes
    PROVE  /\ DirOf(key) \in Dirs
           /\ LinkName(e, key) \in Links
           /\ Target(e, key) \in Entries
<1>1. DirOf(key) \in Dirs
  BY DEF Dirs
<1>2. LinkName(e, key) \in Links
  BY DEF Links
<1>3. Target(e, key) \in Entries
  BY <1>1 DEF Target, Symlinks, Entries
<1> QED
  BY <1>1, <1>2, <1>3

\* The scratch tree of a running command exists as a name.
LEMMA DirExists ==
    ASSUME TypeOK, NEW p \in Procs
    PROVE  cmd[p] \in Commands /\ cmd[p].key \in Keys /\ Dir(p) \in Dirs
BY DEF TypeOK, Commands, Dir, Dirs

\* The locals of a process that does not run are well-formed.
LEMMA BlankLocals ==
    NoCommand \in Commands /\ EmptyBin \in [Links -> Entries]
<1>1. Keys # {}
  <2>1. PICK pkg \in Packages, sfx \in Suffixes : TRUE
    BY ConstantsAssumption
  <2>2. <<pkg, sfx>> \in Keys
    BY <2>1 DEF Keys
  <2> QED
    BY <2>2
<1> QED
  BY <1>1 DEF NoCommand, Commands, EmptyBin, Entries

----------------------------------------------------------------------------
(* Type correctness                                                        *)

\* The part of TypeOK that is private to the processes.
LocalsOK ==
    /\ pc \in [Procs -> PCs]
    /\ cmd \in [Procs -> Commands]
    /\ pre \in [Procs -> [Links -> Entries]]
    /\ post \in [Procs -> [Links -> Entries]]
    /\ todo \in [Procs -> SUBSET Exes]
    /\ execs \in [Procs -> SUBSET Exes]
    /\ ours \in [Procs -> SUBSET Links]
    /\ state \in [Procs -> {"complete", "partial"}]
    /\ copy \in [Procs -> SUBSET Records]
    /\ exit \in [Procs -> ExitCodes]

\* The rest: what is on disk, and the counters.
DiskOK ==
    /\ bin \in [Links -> Entries]
    /\ dirs \subseteq Dirs
    /\ tree \in [Dirs -> SUBSET Tools]
    /\ ledger \subseteq Records

BoundsOK ==
    /\ started \in Nat
    /\ left \in [Mishaps -> Nat]
    /\ witness \subseteq Nat \X Exes
    /\ writer \in [Links -> SUBSET Procs]

LEMMA TypeParts == TypeOK <=> LocalsOK /\ DiskOK /\ BoundsOK
BY DEF TypeOK, LocalsOK, DiskOK, BoundsOK

\* Ending a command leaves well-formed locals.
LEMMA FinishType ==
    ASSUME LocalsOK, NEW p \in Procs, NEW code \in ExitCodes, Finish(p, code)
    PROVE  LocalsOK'
BY BlankLocals DEF LocalsOK, Finish, Goto, PCs

LEMMA GotoType ==
    ASSUME LocalsOK, NEW p \in Procs, NEW label \in PCs, Goto(p, label)
    PROVE  pc' \in [Procs -> PCs]
BY DEF LocalsOK, Goto

LEMMA SpendType ==
    ASSUME BoundsOK, NEW m \in Mishaps, Spend(m)
    PROVE  left' \in [Mishaps -> Nat]
BY DEF BoundsOK, Spend

LEMMA ChopType ==
    ASSUME DiskOK, NEW d \in Dirs, Chop(d)
    PROVE  dirs' \subseteq Dirs /\ tree' \in [Dirs -> SUBSET Tools]
<1> PICK kept \in SUBSET tree[d], xs \in SUBSET Exes :
          tree' = [tree EXCEPT ![d] =
                      { [t EXCEPT !.exes = @ \cap xs] : t \in kept }]
  BY DEF Chop
<1>1. { [t EXCEPT !.exes = @ \cap xs] : t \in kept } \in SUBSET Tools
  <2> SUFFICES ASSUME NEW t \in kept
               PROVE  [t EXCEPT !.exes = @ \cap xs] \in Tools
    OBVIOUS
  <2>1. t \in Tools
    BY DEF DiskOK
  <2> QED
    BY <2>1 DEF Tools
<1> QED
  BY <1>1 DEF DiskOK, Chop

LEMMA RemoveTreeType ==
    ASSUME DiskOK, NEW d \in Dirs, RemoveTree(d)
    PROVE  dirs' \subseteq Dirs /\ tree' \in [Dirs -> SUBSET Tools]
BY DEF DiskOK, RemoveTree

\* The ledger operations keep records records.
LEMMA LedgerOpsType ==
    ASSUME NEW installs \in SUBSET Records, NEW r \in Records, NEW key \in Keys
    PROVE  /\ RecordInstall(installs, r) \in SUBSET Records
           /\ MarkRemoved(installs, key) \in SUBSET Records
<1>1. RecordInstall(installs, r) \in SUBSET Records
  BY DEF RecordInstall
<1>2. \A s \in installs : [s EXCEPT !.removed = TRUE] \in Records
  BY DEF Records
<1> QED
  BY <1>1, <1>2 DEF MarkRemoved

LEMMA NewRecordType ==
    ASSUME LocalsOK, NEW p \in Procs
    PROVE  NewRecord(p) \in Records
BY DEF LocalsOK, NewRecord, Records, Commands

\* Every action keeps what is on disk well-formed.
LEMMA DiskStep ==
    ASSUME TypeOK, [Next]_vars
    PROVE  DiskOK'
<1> USE TypeParts
<1>1. CASE UNCHANGED disk
  BY <1>1 DEF disk, DiskOK
<1>2. ASSUME NEW p \in Procs, UvInstalls(p)  PROVE DiskOK'
  <2>1. PICK q \in Packages : \E xs \in Provides[q] :
           tree' = [tree EXCEPT ![Dir(p)] =
                     { t \in @ : t.pkg # q } \cup {[pkg |-> q, exes |-> xs]}]
    BY <1>2 DEF UvInstalls
  <2>2. PICK xs \in Provides[q] :
           tree' = [tree EXCEPT ![Dir(p)] =
                     { t \in @ : t.pkg # q } \cup {[pkg |-> q, exes |-> xs]}]
    BY <2>1
  <2>3. [pkg |-> q, exes |-> xs] \in Tools
    BY <2>1, <2>2, ConstantsAssumption DEF Tools
  <2>4. Dir(p) \in Dirs
    BY DirExists
  <2> QED
    BY <1>2, <2>2, <2>3, <2>4 DEF UvInstalls, DiskOK
<1>3. ASSUME NEW p \in Procs, UvFails(p)  PROVE DiskOK'
  BY <1>3, DirExists DEF UvFails, UvRefused, DiskOK
<1>4. ASSUME NEW p \in Procs, Cleanup(p)  PROVE DiskOK'
  BY <1>4, DirExists, RemoveTreeType DEF Cleanup, DiskOK
<1>5. ASSUME NEW p \in Procs, CleanupFaults(p)  PROVE DiskOK'
  BY <1>5, DirExists, ChopType DEF CleanupFaults, DiskOK
<1>6. ASSUME NEW p \in Procs, RemoveForeign(p)  PROVE DiskOK'
  BY <1>6 DEF RemoveForeign, DiskOK, Entries
<1>7. ASSUME NEW p \in Procs, PlaceSymlink(p)  PROVE DiskOK'
  <2>1. cmd[p].key \in Keys
    BY DirExists
  <2> QED
    BY <1>7, <2>1, NamesExist DEF PlaceSymlink, DiskOK
<1>8. ASSUME NEW p \in Procs, SaveLedger(p)  PROVE DiskOK'
  <2>1. cmd[p].key \in Keys /\ copy[p] \in SUBSET Records
    BY DirExists DEF LocalsOK
  <2> QED
    BY <1>8, <2>1, LedgerOpsType, NewRecordType DEF SaveLedger, DiskOK
<1>9. ASSUME NEW p \in Procs, UvUninstall(p)  PROVE DiskOK'
  BY <1>9, DirExists DEF UvUninstall, DiskOK
<1>10. ASSUME NEW p \in Procs, RemoveLink(p)  PROVE DiskOK'
  BY <1>10 DEF RemoveLink, DiskOK, Entries
<1>11. ASSUME NEW p \in Procs, RmTree(p)  PROVE DiskOK'
  BY <1>11, DirExists, RemoveTreeType DEF RmTree, DiskOK
<1>12. ASSUME NEW p \in Procs, RmTreeFaults(p)  PROVE DiskOK'
  BY <1>12, DirExists, ChopType DEF RmTreeFaults, DiskOK
<1>13. ASSUME NEW p \in Procs, Crash(p)  PROVE DiskOK'
  BY <1>13, DirExists, ChopType DEF Crash, DiskOK
<1>14. CASE OutOfBand
  BY <1>14 DEF OutOfBand, DiskOK
<1> QED
  BY <1>1, <1>2, <1>3, <1>4, <1>5, <1>6, <1>7, <1>8, <1>9, <1>10, <1>11,
     <1>12, <1>13, <1>14
     DEF Next, vars, Start, Step, InstallStep, UninstallStep, LedgerStep,
         StartInstall, StartUninstall, PostCheck, CheckName, ScanExes, LinkNext,
         UvRefused, LinkingDone, LinkingFaults, FinalCheck, LoadLedger, LinksRemoved,
         RemoveLinkFaults

\* Every action keeps the locals of every process well-formed.
LEMMA LocalsStep ==
    ASSUME TypeOK, [Next]_vars
    PROVE  LocalsOK'
<1> USE TypeParts
<1>1. CASE UNCHANGED <<pc, locals, exit>>
  BY <1>1 DEF locals, LocalsOK
<1>2. ASSUME NEW p \in Procs, StartInstall(p)  PROVE LocalsOK'
  <2>1. PICK key \in Keys, force \in ForceChoices, skip \in SkipVerify :
          /\ cmd' = [cmd EXCEPT ![p] =
                        [ verb |-> "install", key |-> key, force |-> force,
                          verify |-> ~ (skip /\ Mode = "rootless"),
                          op |-> started + 1 ]]
          /\ pre' = IF skip /\ Mode = "rootless"
                    THEN pre ELSE [pre EXCEPT ![p] = bin]
    BY <1>2 DEF StartInstall
  <2>2. (~ (skip /\ Mode = "rootless")) \in BOOLEAN
    OBVIOUS
  <2>3. force \in BOOLEAN /\ started + 1 \in Nat
    BY ConstantsAssumption DEF BoundsOK
  <2>4. cmd' \in [Procs -> Commands]
    BY <2>1, <2>2, <2>3 DEF LocalsOK, Commands
  <2>5. pre' \in [Procs -> [Links -> Entries]]
    BY <2>1 DEF LocalsOK, DiskOK
  <2>6. pc' \in [Procs -> PCs]
    BY <1>2 DEF StartInstall, Goto, LocalsOK, PCs
  <2> QED
    BY <1>2, <2>4, <2>5, <2>6 DEF StartInstall, LocalsOK, ExitCodes
<1>3. ASSUME NEW p \in Procs, StartUninstall(p)  PROVE LocalsOK'
  <2>1. CASE exit' = [exit EXCEPT ![p] = "failed"] /\ UNCHANGED <<pc, cmd, ours>>
    BY <1>3, <2>1 DEF StartUninstall, LocalsOK, ExitCodes
  <2>2. ASSUME NEW key \in Keys,
               cmd' = [cmd EXCEPT ![p] =
                         [ verb |-> "uninstall", key |-> key, force |-> FALSE,
                           verify |-> FALSE, op |-> started + 1 ]],
               ours' = [ours EXCEPT ![p] =
                          LinksTargetingScratch(bin, DirOf(key))],
               exit' = [exit EXCEPT ![p] = "none"],
               Goto(p, "uvun")
        PROVE  LocalsOK'
    <3>1. [ verb |-> "uninstall", key |-> key, force |-> FALSE,
            verify |-> FALSE, op |-> started + 1 ] \in Commands
      BY DEF Commands, BoundsOK
    <3>2. cmd' \in [Procs -> Commands]
      BY <2>2, <3>1 DEF LocalsOK
    <3>3. LinksTargetingScratch(bin, DirOf(key)) \in SUBSET Links
      BY DEF LinksTargetingScratch
    <3>4. ours' \in [Procs -> SUBSET Links]
      BY <2>2, <3>3 DEF LocalsOK
    <3>5. pc' \in [Procs -> PCs] /\ exit' \in [Procs -> ExitCodes]
      BY <2>2 DEF Goto, LocalsOK, PCs, ExitCodes
    <3> QED
      BY <1>3, <3>2, <3>4, <3>5 DEF StartUninstall, LocalsOK
  <2> QED
    BY <1>3, <2>1, <2>2 DEF StartUninstall
<1>4. ASSUME NEW p \in Procs, NEW code \in ExitCodes, Finish(p, code)
      PROVE  LocalsOK'
  BY <1>4, FinishType
<1>5. ASSUME NEW p \in Procs, UvInstalls(p)  PROVE LocalsOK'
  BY <1>5 DEF UvInstalls, Goto, locals, LocalsOK, PCs
<1>6. ASSUME NEW p \in Procs, UvFails(p) \/ UvRefused(p)  PROVE LocalsOK'
  BY <1>6, <1>4 DEF UvFails, UvRefused, ExitCodes
<1>7. ASSUME NEW p \in Procs, PostCheck(p)  PROVE LocalsOK'
  <2>1. \/ /\ Goto(p, "cleanup")
           /\ exit' = [exit EXCEPT ![p] = "integrity"]
           /\ UNCHANGED post
        \/ /\ Goto(p, "check")
           /\ post' = [post EXCEPT ![p] = bin]
           /\ UNCHANGED exit
    BY <1>7 DEF PostCheck
  <2>2. /\ pc' \in [Procs -> PCs]
        /\ exit' \in [Procs -> ExitCodes]
    BY <2>1 DEF Goto, LocalsOK, PCs, ExitCodes
  <2>3. post' \in [Procs -> [Links -> Entries]]
    BY <2>1 DEF LocalsOK, DiskOK
  <2> QED
    BY <1>7, <2>2, <2>3 DEF PostCheck, LocalsOK
<1>8. ASSUME NEW p \in Procs, CheckName(p)  PROVE LocalsOK'
  BY <1>8 DEF CheckName, Goto, locals, LocalsOK, PCs, ExitCodes
<1>9. ASSUME NEW p \in Procs, Cleanup(p)  PROVE LocalsOK'
  BY <1>9, <1>4 DEF Cleanup, LocalsOK
<1>10. ASSUME NEW p \in Procs, CleanupFaults(p)  PROVE LocalsOK'
  <2>1. (IF Mode = "rootless" THEN "failed" ELSE exit[p]) \in ExitCodes
    BY DEF ExitCodes, LocalsOK
  <2> QED
    BY <1>10, <2>1, <1>4 DEF CleanupFaults
<1>11. ASSUME NEW p \in Procs, ScanExes(p)  PROVE LocalsOK'
  <2>1. CASE Finish(p, "failed") \/ Finish(p, "error")
    BY <2>1, <1>4 DEF ExitCodes
  <2>2. CASE /\ Goto(p, "link")
             /\ todo' = [todo EXCEPT ![p] = Scripts(Dir(p))]
             /\ UNCHANGED <<cmd, pre, post, execs, ours, state, copy, exit>>
    <3>1. tree[Dir(p)] \subseteq Tools
      BY DirExists DEF DiskOK
    <3>2. Scripts(Dir(p)) \in SUBSET Exes
      BY <3>1 DEF Scripts, Tools
    <3> QED
      BY <2>2, <3>2 DEF Goto, LocalsOK, PCs
  <2> QED
    BY <1>11, <2>1, <2>2 DEF ScanExes
<1>12. ASSUME NEW p \in Procs, NEW e \in Exes, Linked(p, e)
       PROVE  /\ pc' \in [Procs -> PCs]
              /\ todo' \in [Procs -> SUBSET Exes]
              /\ execs' \in [Procs -> SUBSET Exes]
  BY <1>12 DEF Linked, Goto, LocalsOK, PCs
<1>13. ASSUME NEW p \in Procs, AfterLoop(p)  PROVE pc' \in [Procs -> PCs]
  BY <1>13 DEF AfterLoop, Goto, LocalsOK, PCs
<1>14. ASSUME NEW p \in Procs, LinkingIncomplete(p)
       PROVE  /\ pc' \in [Procs -> PCs]
              /\ state' \in [Procs -> {"complete", "partial"}]
  BY <1>14, <1>13 DEF LinkingIncomplete, LocalsOK
<1>15. ASSUME NEW p \in Procs, LinkNext(p)  PROVE LocalsOK'
  <2>1. CASE Finish(p, "error")
    BY <2>1, <1>4 DEF ExitCodes
  <2>2. CASE (Goto(p, "place") \/ Goto(p, "replace")) /\ UNCHANGED <<locals, exit>>
    BY <2>2 DEF Goto, locals, LocalsOK, PCs
  <2>3. ASSUME NEW e \in Exes, Linked(p, e),
               UNCHANGED <<cmd, pre, post, ours, state, copy, exit>>
        PROVE  LocalsOK'
    BY <2>3, <1>12 DEF LocalsOK
  <2> QED
    BY <1>15, <2>1, <2>2, <2>3 DEF LinkNext
<1>16. ASSUME NEW p \in Procs, LinkingDone(p)  PROVE LocalsOK'
  BY <1>16, <1>13 DEF LinkingDone, locals, LocalsOK
<1>17. ASSUME NEW p \in Procs, RemoveForeign(p)  PROVE LocalsOK'
  <2>1. pc' \in [Procs -> PCs] /\ state' \in [Procs -> {"complete", "partial"}]
    BY <1>17, <1>14 DEF RemoveForeign, Goto, LocalsOK, PCs
  <2> QED
    BY <1>17, <2>1 DEF RemoveForeign, LocalsOK
<1>18. ASSUME NEW p \in Procs, PlaceSymlink(p)  PROVE LocalsOK'
  <2>1. /\ pc' \in [Procs -> PCs]
        /\ state' \in [Procs -> {"complete", "partial"}]
        /\ todo' \in [Procs -> SUBSET Exes]
        /\ execs' \in [Procs -> SUBSET Exes]
    BY <1>18, <1>12, <1>14 DEF PlaceSymlink, LocalsOK
  <2> QED
    BY <1>18, <2>1 DEF PlaceSymlink, LocalsOK
<1>19. ASSUME NEW p \in Procs, LinkingFaults(p)  PROVE LocalsOK'
  <2>1. /\ pc' \in [Procs -> PCs]
        /\ state' \in [Procs -> {"complete", "partial"}]
        /\ todo' \in [Procs -> SUBSET Exes]
        /\ execs' \in [Procs -> SUBSET Exes]
    <3>1. CASE Goto(p, "place") /\ UNCHANGED <<todo, execs, state>>
      BY <3>1 DEF Goto, LocalsOK, PCs
    <3> QED
      BY <1>19, <1>12, <1>14, <3>1 DEF LinkingFaults, LocalsOK
  <2> QED
    BY <1>19, <2>1 DEF LinkingFaults, LocalsOK
<1>20. ASSUME NEW p \in Procs, FinalCheck(p)  PROVE LocalsOK'
  <2>1. CASE Finish(p, "integrity")
    BY <2>1, <1>4 DEF ExitCodes
  <2>2. CASE Goto(p, "load") /\ UNCHANGED <<locals, exit>>
    BY <2>2 DEF Goto, locals, LocalsOK, PCs
  <2> QED
    BY <1>20, <2>1, <2>2 DEF FinalCheck
<1>21. ASSUME NEW p \in Procs, LoadLedger(p)  PROVE LocalsOK'
  BY <1>21 DEF LoadLedger, Goto, LocalsOK, DiskOK, PCs
<1>22. ASSUME NEW p \in Procs, SaveLedger(p)  PROVE LocalsOK'
  <2>1. (IF state[p] = "complete" THEN "ok" ELSE "failed") \in ExitCodes
    BY DEF ExitCodes
  <2> QED
    BY <1>22, <2>1, <1>4 DEF SaveLedger, ExitCodes
<1>23. ASSUME NEW p \in Procs, UvUninstall(p)  PROVE LocalsOK'
  BY <1>23 DEF UvUninstall, Goto, locals, LocalsOK, PCs
<1>24. ASSUME NEW p \in Procs, RemoveLink(p)  PROVE LocalsOK'
  BY <1>24 DEF RemoveLink, LocalsOK
<1>25. ASSUME NEW p \in Procs, RemoveLinkFaults(p)  PROVE LocalsOK'
  <2>1. CASE Finish(p, "failed")
    BY <2>1, <1>4 DEF ExitCodes
  <2>2. ASSUME NEW l \in ours[p], ours' = [ours EXCEPT ![p] = @ \ {l}],
               UNCHANGED <<pc, cmd, pre, post, todo, execs, state, copy, exit>>
        PROVE  LocalsOK'
    BY <2>2 DEF LocalsOK
  <2> QED
    BY <1>25, <2>1, <2>2 DEF RemoveLinkFaults
<1>26. ASSUME NEW p \in Procs, LinksRemoved(p)  PROVE LocalsOK'
  BY <1>26 DEF LinksRemoved, Goto, locals, LocalsOK, PCs
<1>27. ASSUME NEW p \in Procs, RmTree(p) \/ RmTreeFaults(p)  PROVE LocalsOK'
  <2>1. CASE Finish(p, "error") \/ Finish(p, "failed")
    BY <2>1, <1>4 DEF ExitCodes
  <2>2. CASE Goto(p, "load") /\ UNCHANGED <<locals, exit>>
    BY <2>2 DEF Goto, locals, LocalsOK, PCs
  <2> QED
    BY <1>27, <2>1, <2>2 DEF RmTree, RmTreeFaults
<1>28. ASSUME NEW p \in Procs, Crash(p)  PROVE LocalsOK'
  BY <1>28, <1>4 DEF Crash, ExitCodes
<1>29. CASE OutOfBand \/ UNCHANGED vars
  BY <1>29, <1>1 DEF OutOfBand, vars
<1> QED
  BY <1>2, <1>3, <1>5, <1>6, <1>7, <1>8, <1>9, <1>10, <1>11, <1>15, <1>16,
     <1>17, <1>18, <1>19, <1>20, <1>21, <1>22, <1>23, <1>24, <1>25, <1>26,
     <1>27, <1>28, <1>29
     DEF Next, Start, Step, InstallStep, UninstallStep, LedgerStep

\* Every action keeps the counters and the history well-formed.
LEMMA BoundsStep ==
    ASSUME TypeOK, [Next]_vars
    PROVE  BoundsOK'
<1> USE TypeParts
<1>1. started' \in Nat
  BY DEF Next, vars, bounds, Start, Step, InstallStep, UninstallStep, LedgerStep,
         StartInstall, StartUninstall, UvInstalls, UvFails, UvRefused, PostCheck, CheckName,
         Cleanup, CleanupFaults, ScanExes, LinkNext, LinkingDone, RemoveForeign,
         PlaceSymlink, LinkingFaults, FinalCheck, LoadLedger, SaveLedger,
         UvUninstall, RemoveLink, RemoveLinkFaults, LinksRemoved, RmTree,
         RmTreeFaults, Crash, OutOfBand, BoundsOK
<1>2. left' \in [Mishaps -> Nat]
  <2>1. CASE UNCHANGED left
    BY <2>1 DEF BoundsOK
  <2>2. ASSUME NEW m \in Mishaps, Spend(m)  PROVE left' \in [Mishaps -> Nat]
    BY <2>2, SpendType
  <2>3. \A m \in {"oob", "crash", "fault", "misname"} : m \in Mishaps
    BY DEF Mishaps
  <2> QED
    BY <2>1, <2>2, <2>3
       DEF Next, vars, bounds, Start, Step, InstallStep, UninstallStep,
         LedgerStep, StartInstall, StartUninstall, UvInstalls, UvFails, UvRefused, PostCheck,
         CheckName, Cleanup, CleanupFaults, ScanExes, LinkNext, LinkingDone,
         RemoveForeign, PlaceSymlink, LinkingFaults, FinalCheck, LoadLedger,
         SaveLedger, UvUninstall, RemoveLink, RemoveLinkFaults, LinksRemoved,
         RmTree, RmTreeFaults, Crash, OutOfBand
<1>3. witness' \subseteq Nat \X Exes
  <2>1. \A p \in Procs : cmd[p].op \in Nat
    BY DEF LocalsOK, Commands
  <2> QED
    BY <2>1
       DEF Next, vars, history, Start, Step, InstallStep, UninstallStep, LedgerStep,
         StartInstall, StartUninstall, UvInstalls, UvFails, UvRefused, PostCheck, CheckName,
         Cleanup, CleanupFaults, ScanExes, LinkNext, LinkingDone, RemoveForeign,
         PlaceSymlink, LinkingFaults, FinalCheck, LoadLedger, SaveLedger,
         UvUninstall, RemoveLink, RemoveLinkFaults, LinksRemoved, RmTree,
         RmTreeFaults, Crash, OutOfBand, BoundsOK
<1>4. writer' \in [Links -> SUBSET Procs]
  BY DEF Next, vars, history, Start, Step, InstallStep, UninstallStep, LedgerStep,
         StartInstall, StartUninstall, UvInstalls, UvFails, UvRefused, PostCheck,
         CheckName, Cleanup, CleanupFaults, ScanExes, LinkNext, LinkingDone,
         RemoveForeign, PlaceSymlink, LinkingFaults, FinalCheck, LoadLedger,
         SaveLedger, UvUninstall, RemoveLink, RemoveLinkFaults, LinksRemoved,
         RmTree, RmTreeFaults, Crash, OutOfBand, BoundsOK
<1> QED
  BY <1>1, <1>2, <1>3, <1>4 DEF BoundsOK

LEMMA TypeInit == Init => TypeOK
BY BlankLocals, ConstantsAssumption
   DEF Init, TypeOK, PCs, ExitCodes, Entries, Mishaps

LEMMA TypeStep ==
    ASSUME TypeOK, [Next]_vars
    PROVE  TypeOK'
BY DiskStep, LocalsStep, BoundsStep DEF TypeOK, LocalsOK, DiskOK, BoundsOK

\* Every variable keeps its type, in every mode and with every mishap.
THEOREM TypeCorrect == Spec => []TypeOK
<1>1. Init => TypeOK
  BY TypeInit
<1>2. TypeOK /\ [Next]_vars => TypeOK'
  BY TypeStep
<1> QED
  BY <1>1, <1>2, PTL DEF Spec

----------------------------------------------------------------------------
(* The ledger: one active record per key                                   *)

\* Which actions write the ledger, and what a loaded copy can be.
LEMMA LedgerStepOnly ==
    ASSUME TypeOK, [Next]_vars
    PROVE  \/ ledger' = ledger
           \/ \E p \in Procs : SaveLedger(p)
BY DEF Next, vars, disk, Start, Step, InstallStep, UninstallStep, LedgerStep,
       StartInstall, StartUninstall, UvInstalls, UvFails, UvRefused, PostCheck, CheckName,
       Cleanup, CleanupFaults, ScanExes, LinkNext, LinkingDone, RemoveForeign,
       PlaceSymlink, LinkingFaults, FinalCheck, LoadLedger, UvUninstall,
       RemoveLink, RemoveLinkFaults, LinksRemoved, RmTree, RmTreeFaults, Crash,
       OutOfBand

LEMMA CopyStepOnly ==
    ASSUME TypeOK, [Next]_vars, NEW q \in Procs
    PROVE  copy'[q] \in {copy[q], {}, ledger}
<1> USE TypeParts DEF LocalsOK
<1>1. ASSUME NEW p \in Procs, NEW code, Finish(p, code)
      PROVE  copy'[q] \in {copy[q], {}}
  BY <1>1 DEF Finish
<1>2. CASE UNCHANGED copy
  BY <1>2
<1>3. ASSUME NEW p \in Procs, LoadLedger(p)  PROVE copy'[q] \in {copy[q], ledger}
  BY <1>3 DEF LoadLedger
<1>4. ASSUME NEW p \in Procs,
             \/ Start(p) \/ UvInstalls(p) \/ PostCheck(p) \/ CheckName(p)
             \/ LinkingDone(p) \/ RemoveForeign(p) \/ PlaceSymlink(p)
             \/ LinkingFaults(p) \/ UvUninstall(p) \/ RemoveLink(p)
             \/ LinksRemoved(p)
      PROVE  UNCHANGED copy
  BY <1>4 DEF Start, StartInstall, StartUninstall, UvInstalls, PostCheck,
       CheckName, LinkingDone, RemoveForeign, PlaceSymlink, LinkingFaults,
       UvUninstall, RemoveLink, LinksRemoved, locals
<1>5. ASSUME NEW p \in Procs,
             \/ UvFails(p) \/ UvRefused(p) \/ Cleanup(p) \/ CleanupFaults(p) \/ SaveLedger(p)
             \/ Crash(p) \/ ScanExes(p) \/ LinkNext(p) \/ FinalCheck(p)
             \/ RemoveLinkFaults(p) \/ RmTree(p) \/ RmTreeFaults(p)
      PROVE  UNCHANGED copy \/ \E code : Finish(p, code)
  BY <1>5 DEF UvFails, UvRefused, Cleanup, CleanupFaults, SaveLedger, Crash, ScanExes,
       LinkNext, FinalCheck, RemoveLinkFaults, RmTree, RmTreeFaults, locals
<1>6. CASE OutOfBand \/ UNCHANGED vars
  BY <1>6, <1>2 DEF OutOfBand, vars, locals
<1> QED
  BY <1>1, <1>2, <1>3, <1>4, <1>5, <1>6
     DEF Next, Step, InstallStep, UninstallStep, LedgerStep

\* record_install() keeps one active record per key ...
LEMMA RecordInstallKeepsOne ==
    ASSUME NEW installs, OneActivePerKey(installs), NEW record
    PROVE  OneActivePerKey(RecordInstall(installs, record))
BY DEF OneActivePerKey, RecordInstall, Matches

\* ... and so does mark_removed(): what it leaves active was there before.
LEMMA MarkRemovedKeepsOne ==
    ASSUME NEW installs \in SUBSET Records, OneActivePerKey(installs), NEW key
    PROVE  OneActivePerKey(MarkRemoved(installs, key))
<1>1. ASSUME NEW r \in MarkRemoved(installs, key), ~ r.removed
      PROVE  r \in installs
  <2>1. PICK s \in installs :
            r = IF Matches(s, key) THEN [s EXCEPT !.removed = TRUE] ELSE s
    BY DEF MarkRemoved
  <2>2. s \in Records
    OBVIOUS
  <2>3. [s EXCEPT !.removed = TRUE].removed = TRUE
    BY <2>2 DEF Records
  <2> QED
    BY <1>1, <2>1, <2>3
<1> QED
  BY <1>1 DEF OneActivePerKey

\* The file, and every copy of it, has at most one active record per key:
\* a lost update can drop a record, it can never leave two active.
THEOREM OneActiveAlways == Spec => []OneActive
<1>1. Init => OneActive
  BY DEF Init, OneActive, OneActivePerKey
<1>2. TypeOK /\ OneActive /\ [Next]_vars => OneActive'
  <2> SUFFICES ASSUME TypeOK, OneActive, [Next]_vars
               PROVE  OneActive'
    OBVIOUS
  <2>1. OneActivePerKey(ledger')
    <3>1. CASE ledger' = ledger
      BY <3>1 DEF OneActive
    <3>2. ASSUME NEW p \in Procs, SaveLedger(p)
          PROVE  OneActivePerKey(ledger')
      <4>1. copy[p] \in SUBSET Records /\ OneActivePerKey(copy[p])
        BY DEF TypeOK, OneActive
      <4>2. OneActivePerKey(RecordInstall(copy[p], NewRecord(p)))
        BY <4>1, RecordInstallKeepsOne
      <4>3. OneActivePerKey(MarkRemoved(copy[p], cmd[p].key))
        BY <4>1, MarkRemovedKeepsOne
      <4> QED
        BY <3>2, <4>2, <4>3 DEF SaveLedger, OneActive
    <3> QED
      BY <3>1, <3>2, LedgerStepOnly
  <2>2. ASSUME NEW q \in Procs  PROVE OneActivePerKey(copy'[q])
    <3>1. OneActivePerKey({})
      BY DEF OneActivePerKey
    <3> QED
      BY <3>1, CopyStepOnly DEF OneActive
  <2> QED
    BY <2>1, <2>2 DEF OneActive
<1> QED
  BY <1>1, <1>2, TypeCorrect, PTL DEF Spec

----------------------------------------------------------------------------
(* The ledger tells the truth in rootless mode                             *)

Honest(installs) == \A r \in installs : \A e \in r.execs : <<r.op, e>> \in witness

\* What a process has linked so far it has witnessed, under its operation; an
\* idle process has linked nothing, so a new operation starts with no claim.
HonestInv ==
    /\ Honest(ledger)
    /\ \A p \in Procs : Honest(copy[p])
    /\ \A p \in Procs : \A e \in execs[p] : <<cmd[p].op, e>> \in witness
    /\ \A p \in Procs : pc[p] = "idle" => execs[p] = {}

LEMMA WitnessGrows ==
    ASSUME [Next]_vars  PROVE witness \subseteq witness'
BY DEF Next, vars, history, Start, Step, InstallStep, UninstallStep, LedgerStep,
       StartInstall, StartUninstall, UvInstalls, UvFails, UvRefused, PostCheck, CheckName,
       Cleanup, CleanupFaults, ScanExes, LinkNext, LinkingDone, RemoveForeign,
       PlaceSymlink, LinkingFaults, FinalCheck, LoadLedger, SaveLedger,
       UvUninstall, RemoveLink, RemoveLinkFaults, LinksRemoved, RmTree,
       RmTreeFaults, Crash, OutOfBand

\* How one step changes what a process claims, in rootless mode.
ClaimStep(q) ==
    \/ execs'[q] = {}
    \/ execs'[q] = execs[q] /\ cmd'[q] = cmd[q] /\ pc'[q] # "idle"
    \/ execs'[q] = execs[q] /\ cmd'[q] = cmd[q] /\ pc'[q] = pc[q]
    \/ \E e \in Exes :
          /\ execs'[q] = execs[q] \cup {e} /\ cmd'[q] = cmd[q]
          /\ <<cmd[q].op, e>> \in witness' /\ pc'[q] # "idle"

LEMMA ClaimSteps ==
    ASSUME Mode = "rootless", TypeOK, HonestInv, [Next]_vars, NEW q \in Procs
    PROVE  ClaimStep(q)
<1> USE TypeParts DEF LocalsOK
<1>1. ASSUME NEW p \in Procs, NEW code, Finish(p, code)  PROVE ClaimStep(q)
  BY <1>1 DEF Finish, Goto, ClaimStep
<1>2. CASE UNCHANGED <<pc, cmd, execs>>
  BY <1>2 DEF ClaimStep
<1>3. ASSUME NEW p \in Procs, NEW label \in PCs \ {"idle"}, Goto(p, label),
             UNCHANGED <<cmd, execs>>
      PROVE  ClaimStep(q)
  BY <1>3 DEF Goto, ClaimStep
<1>4. ASSUME NEW p \in Procs, pc[p] = "idle", UNCHANGED execs,
             NEW c, cmd' = [cmd EXCEPT ![p] = c],
             NEW label \in PCs \ {"idle"}, Goto(p, label)
      PROVE  ClaimStep(q)
  BY <1>4 DEF Goto, ClaimStep, HonestInv
<1>5. ASSUME NEW p \in Procs, NEW e \in Exes, Linked(p, e), UNCHANGED cmd,
             witness' = witness \cup {<<cmd[p].op, e>>}
      PROVE  ClaimStep(q)
  BY <1>5 DEF Linked, Goto, ClaimStep
<1>6. \A label \in {"uv", "post", "check", "scan", "link", "replace", "place",
                     "final", "cleanup", "uvun", "unlink", "rmtree", "load",
                     "save"} : label \in PCs \ {"idle"}
  BY DEF PCs
<1>7. ASSUME NEW p \in Procs, AfterLoop(p), UNCHANGED <<cmd, execs>>
      PROVE  ClaimStep(q)
  BY <1>7, <1>3, <1>6 DEF AfterLoop
<1>10. ASSUME NEW p \in Procs, Start(p)  PROVE ClaimStep(q)
  BY <1>10, <1>2, <1>4, <1>6 DEF Start, StartInstall, StartUninstall
<1>11. ASSUME NEW p \in Procs, LinkNext(p)  PROVE ClaimStep(q)
  BY <1>11, <1>1, <1>3, <1>5, <1>6 DEF LinkNext, locals
<1>12. ASSUME NEW p \in Procs, PlaceSymlink(p)  PROVE ClaimStep(q)
  BY <1>12, <1>5, <1>7 DEF PlaceSymlink, LinkingIncomplete
<1>13. ASSUME NEW p \in Procs, RemoveForeign(p) \/ LinkingFaults(p)
       PROVE  ClaimStep(q)
  BY <1>13, <1>3, <1>6, <1>7 DEF RemoveForeign, LinkingFaults, LinkingIncomplete
<1>14. ASSUME NEW p \in Procs,
              \/ UvInstalls(p) \/ PostCheck(p) \/ CheckName(p)
              \/ LinkingDone(p) \/ FinalCheck(p) \/ LoadLedger(p)
              \/ UvUninstall(p) \/ LinksRemoved(p) \/ RmTree(p)
              \/ RmTreeFaults(p) \/ ScanExes(p)
       PROVE  ClaimStep(q)
  BY <1>14, <1>1, <1>3, <1>6, <1>7
     DEF UvInstalls, PostCheck, CheckName, LinkingDone, FinalCheck, LoadLedger,
         UvUninstall, LinksRemoved, RmTree, RmTreeFaults, ScanExes, locals
<1>15. ASSUME NEW p \in Procs,
              \/ UvFails(p) \/ UvRefused(p) \/ Cleanup(p) \/ CleanupFaults(p) \/ SaveLedger(p)
              \/ RemoveLink(p) \/ RemoveLinkFaults(p) \/ Crash(p)
       PROVE  ClaimStep(q)
  BY <1>15, <1>1, <1>2
     DEF UvFails, UvRefused, Cleanup, CleanupFaults, SaveLedger, RemoveLink,
         RemoveLinkFaults, Crash
<1>16. CASE OutOfBand \/ UNCHANGED vars
  BY <1>16, <1>2 DEF OutOfBand, vars, locals
<1> QED
  BY <1>10, <1>11, <1>12, <1>13, <1>14, <1>15, <1>16
     DEF Next, Step, InstallStep, UninstallStep, LedgerStep

\* In rootless mode every record, at any time, names only links that its own
\* operation placed or found in place; races, faults and crashes included.
THEOREM HonestLedgerRootless ==
    ASSUME Mode = "rootless"
    PROVE  Spec => []HonestLedger
<1>1. Init => HonestInv
  BY DEF Init, HonestInv, Honest
<1>2. TypeOK /\ HonestInv /\ [Next]_vars => HonestInv'
  <2> SUFFICES ASSUME TypeOK, HonestInv, [Next]_vars
               PROVE  HonestInv'
    OBVIOUS
  <2>1. witness \subseteq witness'
    BY WitnessGrows
  <2>2. \A q \in Procs : ClaimStep(q)
    BY ClaimSteps
  <2>3. \A p \in Procs : \A e \in execs'[p] : <<cmd'[p].op, e>> \in witness'
    BY <2>1, <2>2 DEF ClaimStep, HonestInv
  <2>4. \A p \in Procs : pc'[p] = "idle" => execs'[p] = {}
    BY <2>2 DEF ClaimStep, HonestInv
  <2>5. Honest(ledger)'
    <3>1. CASE ledger' = ledger
      BY <3>1, <2>1 DEF HonestInv, Honest
    <3>2. ASSUME NEW p \in Procs, SaveLedger(p)
          PROVE  Honest(ledger)'
      <4>1. CASE ledger' = RecordInstall(copy[p], NewRecord(p))
        <5> SUFFICES ASSUME NEW r \in ledger', NEW e \in r.execs
                     PROVE  <<r.op, e>> \in witness'
          BY DEF Honest
        <5>1. CASE r = NewRecord(p)
          BY <5>1, <2>1 DEF NewRecord, HonestInv
        <5>2. CASE r \in copy[p]
          BY <5>2, <2>1 DEF HonestInv, Honest
        <5> QED
          BY <4>1, <5>1, <5>2 DEF RecordInstall
      <4>2. CASE ledger' = MarkRemoved(copy[p], cmd[p].key)
        <5> SUFFICES ASSUME NEW r \in ledger', NEW e \in r.execs
                     PROVE  <<r.op, e>> \in witness'
          BY DEF Honest
        <5>1. PICK s \in copy[p] :
                 r = IF Matches(s, cmd[p].key)
                     THEN [s EXCEPT !.removed = TRUE] ELSE s
          BY <4>2 DEF MarkRemoved
        <5>2. s \in Records
          BY DEF TypeOK
        <5>3. r.op = s.op /\ r.execs = s.execs
          BY <5>1, <5>2 DEF Records
        <5> QED
          BY <5>3, <2>1 DEF Honest, HonestInv
      <4> QED
        BY <3>2, <4>1, <4>2, <3>1 DEF SaveLedger
    <3> QED
      BY <3>1, <3>2, LedgerStepOnly
  <2>6. ASSUME NEW q \in Procs  PROVE Honest(copy[q])'
    BY <2>1, CopyStepOnly DEF Honest, HonestInv
  <2> QED
    BY <2>3, <2>4, <2>5, <2>6 DEF HonestInv
<1>3. HonestInv => HonestLedger
  BY DEF HonestInv, Honest, HonestLedger
<1> QED
  BY <1>1, <1>2, <1>3, TypeCorrect, PTL DEF Spec

----------------------------------------------------------------------------
(* What an install may change in bin_dir                                   *)

InstallPCs   == {"uv", "post", "check", "scan", "link", "replace", "place", "final"}
UninstallPCs == {"uvun", "unlink", "rmtree"}
CheckedPCs   == {"check", "scan", "link", "replace", "place", "final"}

\* Where a process is tells which command it runs, that a replacement was asked
\* for with --force, and, in system-bin mode, that the two snapshots it took
\* before linking are the same.
Control(q) ==
    /\ pc[q] \in InstallPCs => Installing(q)
    /\ pc[q] \in UninstallPCs => ~ Installing(q)
    /\ pc[q] = "replace" => cmd[q].force
    /\ Mode = "system-bin" /\ pc[q] \in InstallPCs => cmd[q].verify
    /\ Mode = "system-bin" /\ pc[q] \in CheckedPCs => post[q] = pre[q]

ControlInv == \A q \in Procs : Control(q)

\* No difference passes the first check only if there is no difference.
LEMMA EmptyDiff ==
    ASSUME NEW b \in [Links -> Entries], NEW a \in [Links -> Entries],
           Unattributed(Diff(b, a), {}) = {}
    PROVE  a = b
<1> SUFFICES ASSUME NEW l \in Links, a[l] # b[l]  PROVE FALSE
  OBVIOUS
<1>1. ChangeAt(b, a, l) \in Diff(b, a)
  BY DEF Diff
<1>2. ChangeAt(b, a, l) \in Unattributed(Diff(b, a), {})
  BY <1>1 DEF Unattributed
<1> QED
  BY <1>2

\* A difference that passes the final check is an addition at an allowed path.
LEMMA AttributedDiff ==
    ASSUME NEW b \in [Links -> Entries], NEW a \in [Links -> Entries],
           NEW allowed, Unattributed(Diff(b, a), allowed) = {},
           NEW l \in Links, a[l] # b[l]
    PROVE  b[l] = Absent /\ l \in allowed
<1>1. ChangeAt(b, a, l) \in Diff(b, a)
  BY DEF Diff
<1>2. /\ ChangeAt(b, a, l).kind = "added"
      /\ ChangeAt(b, a, l).path \in allowed
  BY <1>1 DEF Unattributed
<1>3. l \in allowed
  BY <1>2 DEF ChangeAt
<1>4. ChangeKind(b[l], a[l]) = "added"
  BY <1>2 DEF ChangeAt
<1>5. b[l] = Absent
  BY <1>4 DEF ChangeKind
<1> QED
  BY <1>3, <1>5

\* The command an install starts with; --no-verify is void in system-bin mode.
LEMMA StartInstallCommand ==
    ASSUME NEW p \in Procs, StartInstall(p)
    PROVE  \E c : /\ cmd' = [cmd EXCEPT ![p] = c]
                  /\ c.verb = "install"
                  /\ Mode = "system-bin" => c.verify
<1>1. PICK key \in Keys, force \in ForceChoices, skip \in SkipVerify :
        /\ cmd' = [cmd EXCEPT ![p] =
                    [ verb |-> "install", key |-> key, force |-> force,
                      verify |-> ~ (skip /\ Mode = "rootless"),
                      op |-> started + 1 ]]
        /\ pre' = IF skip /\ Mode = "rootless"
                  THEN pre ELSE [pre EXCEPT ![p] = bin]
  BY DEF StartInstall
<1> DEFINE c == [ verb |-> "install", key |-> key, force |-> force,
                  verify |-> ~ (skip /\ Mode = "rootless"),
                  op |-> started + 1 ]
<1>2. c.verb = "install" /\ (Mode = "system-bin" => c.verify)
  OBVIOUS
<1> QED
  BY <1>1, <1>2

LEMMA ControlStep ==
    ASSUME TypeOK, ControlInv, [Next]_vars
    PROVE  ControlInv'
<1> SUFFICES ASSUME NEW q \in Procs  PROVE Control(q)'
  BY DEF ControlInv
<1> Control(q)
  BY DEF ControlInv
<1> USE TypeParts DEF LocalsOK, Control, Installing, InstallPCs, UninstallPCs,
        CheckedPCs
<1>1. ASSUME NEW p \in Procs, NEW code, Finish(p, code)  PROVE Control(q)'
  BY <1>1 DEF Finish, Goto
<1>2. CASE UNCHANGED <<pc, cmd, pre, post>>
  BY <1>2
<1>3. ASSUME NEW p \in Procs, NEW label, Goto(p, label),
             UNCHANGED <<cmd, pre, post>>,
             \/ label \in {"load", "save", "cleanup"}
             \/ pc[p] \in UninstallPCs /\ label \in UninstallPCs
             \/ pc[p] \in CheckedPCs /\ label \in CheckedPCs \ {"replace"}
             \/ pc[p] = "uv" /\ label = "post"
             \/ pc[p] = "link" /\ label = "replace" /\ cmd[p].force
      PROVE  Control(q)'
  BY <1>3 DEF Goto
<1>4. ASSUME NEW p \in Procs, StartInstall(p)  PROVE Control(q)'
  <2>1. PICK c : /\ cmd' = [cmd EXCEPT ![p] = c]
                 /\ c.verb = "install"
                 /\ Mode = "system-bin" => c.verify
    BY <1>4, StartInstallCommand
  <2>2. CASE q = p
    BY <1>4, <2>1, <2>2 DEF StartInstall, Goto
  <2>3. CASE q # p
    <3>1. pc'[q] = pc[q] /\ cmd'[q] = cmd[q] /\ post'[q] = post[q]
      BY <1>4, <2>1, <2>3 DEF StartInstall, Goto
    <3>2. pre'[q] = pre[q]
      BY <1>4, <2>3 DEF StartInstall
    <3> QED
      BY <3>1, <3>2
  <2> QED
    BY <2>2, <2>3
<1>5. ASSUME NEW p \in Procs, StartUninstall(p)  PROVE Control(q)'
  BY <1>5 DEF StartUninstall, Goto
<1>6. ASSUME NEW p \in Procs, UvInstalls(p)  PROVE Control(q)'
  BY <1>6 DEF UvInstalls, Goto, locals
<1>7. ASSUME NEW p \in Procs, PostCheck(p)  PROVE Control(q)'
  <2>1. CASE Unattributed(Diff(pre[p], bin), {}) # {}
    BY <1>7, <2>1, <1>3 DEF PostCheck
  <2>2. CASE Unattributed(Diff(pre[p], bin), {}) = {}
    <3>1. pre[p] = bin
      BY <2>2, EmptyDiff DEF DiskOK
    <3> QED
      BY <1>7, <2>2, <3>1 DEF PostCheck, Goto
  <2> QED
    BY <2>1, <2>2
<1>8. ASSUME NEW p \in Procs, AfterLoop(p), pc[p] \in CheckedPCs,
             UNCHANGED <<cmd, pre, post>>
      PROVE  Control(q)'
  BY <1>8, <1>3 DEF AfterLoop
<1>9. ASSUME NEW p \in Procs, LinkNext(p)  PROVE Control(q)'
  <2>1. PICK e \in Exes :
          LET decision == ClassifyCollision(bin[LinkName(e, cmd[p].key)], Dir(p),
                                            cmd[p].force)
          IN  \/ Goto(p, "place") /\ UNCHANGED <<cmd, pre, post>>
              \/ /\ decision = "replace"
                 /\ Goto(p, "replace") /\ UNCHANGED <<cmd, pre, post>>
              \/ Goto(p, "link") /\ UNCHANGED <<cmd, pre, post>>
              \/ Finish(p, "error")
    BY <1>9 DEF LinkNext, Linked, locals
  <2>2. ASSUME NEW v, NEW d, NEW force \in BOOLEAN,
               ClassifyCollision(v, d, force) = "replace"
        PROVE  force
    BY <2>2 DEF ClassifyCollision
  <2>3. cmd[p].force \in BOOLEAN
    BY DEF Commands
  <2>4. pc[p] = "link"
    BY <1>9 DEF LinkNext
  <2> QED
    BY <2>1, <2>2, <2>3, <2>4, <1>1, <1>3
<1>10. ASSUME NEW p \in Procs,
              \/ CheckName(p) \/ ScanExes(p) \/ LinkingDone(p)
              \/ RemoveForeign(p) \/ PlaceSymlink(p) \/ LinkingFaults(p)
       PROVE  Control(q)'
  BY <1>10, <1>1, <1>3, <1>8
     DEF CheckName, ScanExes, LinkingDone, RemoveForeign, PlaceSymlink,
         LinkingFaults, LinkingIncomplete, Linked, locals
<1>11. ASSUME NEW p \in Procs,
              \/ FinalCheck(p) \/ LoadLedger(p) \/ UvUninstall(p)
              \/ LinksRemoved(p) \/ RmTree(p) \/ RmTreeFaults(p)
       PROVE  Control(q)'
  BY <1>11, <1>1, <1>3
     DEF FinalCheck, LoadLedger, UvUninstall, LinksRemoved, RmTree,
         RmTreeFaults, locals
<1>12. ASSUME NEW p \in Procs,
              \/ UvFails(p) \/ UvRefused(p) \/ Cleanup(p) \/ CleanupFaults(p) \/ SaveLedger(p)
              \/ RemoveLink(p) \/ RemoveLinkFaults(p) \/ Crash(p)
       PROVE  Control(q)'
  BY <1>12, <1>1, <1>2
     DEF UvFails, UvRefused, Cleanup, CleanupFaults, SaveLedger, RemoveLink,
         RemoveLinkFaults, Crash
<1>13. CASE OutOfBand \/ UNCHANGED vars
  BY <1>13, <1>2 DEF OutOfBand, vars, locals
<1> QED
  BY <1>4, <1>5, <1>6, <1>7, <1>9, <1>10, <1>11, <1>12, <1>13
     DEF Next, Start, Step, InstallStep, UninstallStep, LedgerStep

THEOREM ControlAlways == Spec => []ControlInv
<1>1. Init => ControlInv
  BY DEF Init, ControlInv, Control, InstallPCs, UninstallPCs, CheckedPCs
<1>2. TypeOK /\ ControlInv /\ [Next]_vars => ControlInv'
  BY ControlStep
<1> QED
  BY <1>1, <1>2, TypeCorrect, PTL DEF Spec

\* Without --force an install only ever adds to bin_dir, in both modes,
\* whatever other processes, faults and out-of-band changes do meanwhile.
THEOREM NoForceNoOverwriteAlways == Spec => NoForceNoOverwrite
<1>1. TypeOK /\ ControlInv /\ [Next]_vars =>
        \A p \in Procs :
          Step(p) /\ Installing(p) /\ ~ cmd[p].force =>
              \A l \in Links : bin'[l] # bin[l] => bin[l] = Absent
  <2> SUFFICES ASSUME TypeOK, ControlInv, NEW p \in Procs, Step(p),
                      Installing(p), ~ cmd[p].force, NEW l \in Links,
                      bin'[l] # bin[l]
               PROVE  bin[l] = Absent
    OBVIOUS
  <2>1. Control(p) /\ bin \in [Links -> Entries]
    BY DEF ControlInv, TypeOK
  <2>2. ~ RemoveForeign(p) /\ ~ RemoveLink(p)
    BY <2>1 DEF Control, RemoveForeign, RemoveLink, UninstallPCs
  <2>3. PlaceSymlink(p)
    BY <2>2 DEF Step, InstallStep, UninstallStep, LedgerStep, UvInstalls, UvFails, UvRefused,
         PostCheck, CheckName, Cleanup, CleanupFaults, ScanExes, LinkNext,
         LinkingDone, LinkingFaults, FinalCheck, LoadLedger, SaveLedger,
         UvUninstall, RemoveLinkFaults, LinksRemoved, RmTree, RmTreeFaults, disk
  <2> QED
    BY <2>1, <2>3 DEF PlaceSymlink
<1> QED
  BY <1>1, TypeCorrect, ControlAlways, PTL DEF Spec, NoForceNoOverwrite

----------------------------------------------------------------------------
(* What a commit is known to have changed                                  *)

\* A path that changes has a new writer.
LEMMA WriterStep ==
    ASSUME TypeOK, [Next]_vars, NEW l \in Links
    PROVE  \/ bin'[l] = bin[l] /\ writer'[l] = writer[l]
           \/ writer'[l] = {}
           \/ \E p \in Procs : /\ writer'[l] = {p}
                               /\ RemoveForeign(p) \/ RemoveLink(p) \/ PlaceSymlink(p)
<1> USE TypeParts DEF DiskOK, BoundsOK
<1>1. CASE UNCHANGED <<bin, writer>>
  BY <1>1
<1>2. ASSUME NEW p \in Procs, RemoveForeign(p) \/ RemoveLink(p) \/ PlaceSymlink(p)
      PROVE  writer'[l] = {p} \/ (bin'[l] = bin[l] /\ writer'[l] = writer[l])
  <2>1. CASE UNCHANGED <<bin, writer>>
    BY <2>1
  <2>2. ASSUME NEW k \in Links, NEW v, bin' = [bin EXCEPT ![k] = v],
               writer' = [writer EXCEPT ![k] = {p}]
        PROVE  writer'[l] = {p} \/ (bin'[l] = bin[l] /\ writer'[l] = writer[l])
    BY <2>2
  <2>3. \A e \in Exes : LinkName(e, cmd[p].key) \in Links
    BY DirExists, NamesExist
  <2>4. ours[p] \subseteq Links
    BY DEF LocalsOK
  <2>5. CASE RemoveForeign(p)
    BY <2>5, <2>1, <2>2, <2>3 DEF RemoveForeign
  <2>6. CASE RemoveLink(p)
    BY <2>6, <2>2, <2>4 DEF RemoveLink
  <2>7. CASE PlaceSymlink(p)
    BY <2>7, <2>1, <2>2, <2>3 DEF PlaceSymlink, history
  <2> QED
    BY <1>2, <2>5, <2>6, <2>7
<1>3. CASE OutOfBand
  <2>1. PICK k \in Links, v \in Entries : /\ bin' = [bin EXCEPT ![k] = v]
                                         /\ writer' = [writer EXCEPT ![k] = {}]
    BY <1>3 DEF OutOfBand
  <2> QED
    BY <2>1
<1> QED
  BY <1>1, <1>2, <1>3
     DEF Next, vars, disk, history, Start, Step, InstallStep, UninstallStep,
         LedgerStep, StartInstall, StartUninstall, UvInstalls, UvFails, UvRefused,
         PostCheck, CheckName, Cleanup, CleanupFaults, ScanExes, LinkNext,
         LinkingDone, LinkingFaults, FinalCheck, LoadLedger, SaveLedger,
         UvUninstall, RemoveLinkFaults, LinksRemoved, RmTree, RmTreeFaults, Crash

\* How one step leaves a process that is past the first check, in system-bin
\* mode: it has just passed it, or it has linked some more.
PastCheck(q) ==
    \/ pc'[q] \notin CheckedPCs
    \/ post'[q] = bin /\ bin' = bin
    \/ /\ pc[q] \in CheckedPCs
       /\ cmd'[q] = cmd[q] /\ post'[q] = post[q] /\ execs[q] \subseteq execs'[q]

LEMMA PastCheckStep ==
    ASSUME Mode = "system-bin", TypeOK, ControlInv, [Next]_vars, NEW q \in Procs
    PROVE  PastCheck(q)
<1> USE TypeParts DEF LocalsOK, PastCheck, CheckedPCs
<1>1. ASSUME NEW p \in Procs, NEW code, Finish(p, code)  PROVE PastCheck(q)
  BY <1>1 DEF Finish, Goto
<1>2. CASE UNCHANGED <<pc, cmd, post, execs>>
  BY <1>2
<1>3. ASSUME NEW p \in Procs, NEW label \in PCs, Goto(p, label),
             UNCHANGED <<cmd, post>>,
             execs' = execs \/ \E e \in Exes : execs' = [execs EXCEPT ![p] = @ \cup {e}],
             label \notin CheckedPCs \/ pc[p] \in CheckedPCs
      PROVE  PastCheck(q)
  BY <1>3 DEF Goto
<1>4. \A label \in {"uv", "post", "check", "scan", "link", "replace", "place",
                     "final", "cleanup", "uvun", "unlink", "rmtree", "load",
                     "save"} : label \in PCs
  BY DEF PCs
<1>5. ASSUME NEW p \in Procs, AfterLoop(p), pc[p] \in CheckedPCs,
             UNCHANGED <<cmd, post, execs>>
      PROVE  PastCheck(q)
  BY <1>5, <1>3, <1>4 DEF AfterLoop
<1>6. ASSUME NEW p \in Procs, Start(p)  PROVE PastCheck(q)
  BY <1>6 DEF Start, StartInstall, StartUninstall, Goto
<1>7. ASSUME NEW p \in Procs, UvInstalls(p)  PROVE PastCheck(q)
  <2>1. cmd[p].verify
    BY <1>7 DEF ControlInv, Control, UvInstalls, InstallPCs
  <2> QED
    BY <1>7, <2>1, <1>3, <1>4 DEF UvInstalls, locals
<1>8. ASSUME NEW p \in Procs, PostCheck(p)  PROVE PastCheck(q)
  BY <1>8 DEF PostCheck, Goto, disk
<1>9. ASSUME NEW p \in Procs, NEW e \in Exes, Linked(p, e), pc[p] \in CheckedPCs,
             UNCHANGED <<cmd, post>>
      PROVE  PastCheck(q)
  BY <1>9, <1>3, <1>4 DEF Linked
<1>10. ASSUME NEW p \in Procs,
              \/ LinkNext(p) \/ LinkingDone(p) \/ RemoveForeign(p)
              \/ PlaceSymlink(p) \/ LinkingFaults(p)
       PROVE  PastCheck(q)
  BY <1>10, <1>1, <1>3, <1>4, <1>5, <1>9
     DEF LinkNext, LinkingDone, RemoveForeign, PlaceSymlink, LinkingFaults,
         LinkingIncomplete, locals
<1>11. ASSUME NEW p \in Procs,
              \/ CheckName(p) \/ ScanExes(p) \/ FinalCheck(p) \/ LoadLedger(p)
              \/ UvUninstall(p) \/ LinksRemoved(p) \/ RmTree(p) \/ RmTreeFaults(p)
       PROVE  PastCheck(q)
  BY <1>11, <1>1, <1>3, <1>4
     DEF CheckName, ScanExes, FinalCheck, LoadLedger, UvUninstall, LinksRemoved,
         RmTree, RmTreeFaults, locals
<1>12. ASSUME NEW p \in Procs,
              \/ UvFails(p) \/ UvRefused(p) \/ Cleanup(p) \/ CleanupFaults(p)
              \/ SaveLedger(p) \/ RemoveLink(p) \/ RemoveLinkFaults(p) \/ Crash(p)
       PROVE  PastCheck(q)
  BY <1>12, <1>1, <1>2
     DEF UvFails, UvRefused, Cleanup, CleanupFaults, SaveLedger, RemoveLink,
         RemoveLinkFaults, Crash
<1>13. CASE OutOfBand \/ UNCHANGED vars
  BY <1>13, <1>2 DEF OutOfBand, vars, locals
<1> QED
  BY <1>6, <1>7, <1>8, <1>10, <1>11, <1>12, <1>13
     DEF Next, Step, InstallStep, UninstallStep, LedgerStep

\* Past the first check, what a path holds is what it held then, or nothing, or
\* somebody else's, or the link that was meant for it.
Accounted(q) ==
    pc[q] \in CheckedPCs =>
        \A l \in Links :
            \/ bin[l] \in {post[q][l], Absent} \/ q \notin writer[l]
            \/ \E e \in execs[q] : /\ l = LinkName(e, cmd[q].key)
                                   /\ bin[l] = Target(e, cmd[q].key)

AccountedInv == \A q \in Procs : Accounted(q)

LEMMA AccountedStep ==
    ASSUME Mode = "system-bin", TypeOK, ControlInv, AccountedInv, [Next]_vars
    PROVE  AccountedInv'
<1> SUFFICES ASSUME NEW q \in Procs, pc'[q] \in CheckedPCs, NEW l \in Links
             PROVE  \/ bin'[l] \in {post'[q][l], Absent} \/ q \notin writer'[l]
                    \/ \E e \in execs'[q] : /\ l = LinkName(e, cmd'[q].key)
                                            /\ bin'[l] = Target(e, cmd'[q].key)
  BY DEF AccountedInv, Accounted
<1>1. PastCheck(q)
  BY PastCheckStep
<1>2. CASE post'[q] = bin /\ bin' = bin
  BY <1>2
<1>3. CASE /\ pc[q] \in CheckedPCs
           /\ cmd'[q] = cmd[q] /\ post'[q] = post[q] /\ execs[q] \subseteq execs'[q]
  <2>1. CASE bin'[l] = bin[l] /\ writer'[l] = writer[l]
    BY <1>3, <2>1 DEF AccountedInv, Accounted
  <2>2. ASSUME NEW p \in Procs, writer'[l] = {p},
               RemoveForeign(p) \/ RemoveLink(p) \/ PlaceSymlink(p),
               bin'[l] # bin[l], p = q
        PROVE  \/ bin'[l] = Absent
               \/ \E e \in execs'[q] : /\ l = LinkName(e, cmd'[q].key)
                                       /\ bin'[l] = Target(e, cmd'[q].key)
    <3>1. bin \in [Links -> Entries] /\ execs \in [Procs -> SUBSET Exes]
      BY DEF TypeOK
    <3>2. CASE RemoveForeign(p)
      BY <2>2, <3>1, <3>2 DEF RemoveForeign
    <3>3. CASE RemoveLink(p)
      BY <2>2, <3>1, <3>3 DEF RemoveLink
    <3>4. CASE PlaceSymlink(p)
      <4>1. PICK e \in Exes :
              /\ bin' = [bin EXCEPT ![LinkName(e, cmd[p].key)] = Target(e, cmd[p].key)]
              /\ Linked(p, e)
        BY <2>2, <3>4 DEF PlaceSymlink
      <4>2. e \in execs'[q] /\ l = LinkName(e, cmd[q].key)
        BY <2>2, <3>1, <4>1 DEF Linked
      <4>3. bin'[l] = Target(e, cmd[q].key)
        BY <2>2, <3>1, <4>1, <4>2
      <4> QED
        BY <1>3, <4>2, <4>3
    <3> QED
      BY <2>2, <3>2, <3>3, <3>4
  <2>3. CASE bin'[l] = bin[l] /\ writer'[l] # writer[l] /\ q \in writer'[l]
    <3>1. PICK p \in Procs :
            /\ writer'[l] = {p}
            /\ RemoveForeign(p) \/ RemoveLink(p) \/ PlaceSymlink(p)
      BY <2>3, WriterStep
    <3>2. /\ bin \in [Links -> Entries] /\ execs \in [Procs -> SUBSET Exes]
          /\ writer \in [Links -> SUBSET Procs]
      BY DEF TypeOK
    <3>3. CASE RemoveForeign(p)
      BY <2>3, <3>2, <3>3 DEF RemoveForeign
    <3>4. CASE RemoveLink(p)
      BY <2>3, <3>2, <3>4 DEF RemoveLink
    <3>5. CASE PlaceSymlink(p)
      <4>1. PICK e \in Exes :
              /\ bin' = [bin EXCEPT ![LinkName(e, cmd[p].key)] = Target(e, cmd[p].key)]
              /\ writer' = [writer EXCEPT ![LinkName(e, cmd[p].key)] = {p}]
              /\ Linked(p, e)
        BY <2>3, <3>5 DEF PlaceSymlink, history
      <4>2. l = LinkName(e, cmd[p].key) /\ p = q
        BY <2>3, <3>1, <3>2, <4>1
      <4>3. e \in execs'[q] /\ bin'[l] = Target(e, cmd[q].key)
        BY <3>2, <4>1, <4>2 DEF Linked
      <4> QED
        BY <1>3, <4>2, <4>3
    <3> QED
      BY <3>1, <3>3, <3>4, <3>5
  <2> QED
    BY <2>1, <2>2, <2>3, WriterStep
<1> QED
  BY <1>1, <1>2, <1>3 DEF PastCheck

\* In system-bin mode an install reaches the ledger only when bin_dir differs
\* from what it was before uv ran by additions at the paths of its own links;
\* what it wrote there itself, and nobody wrote over, is the link meant for the
\* path.  Any number of processes, faults, kills and foreign writes.
THEOREM CommitIsAccountedAlways ==
    ASSUME Mode = "system-bin"
    PROVE  Spec => CommitIsAccounted
<1>0. Init => AccountedInv
  BY DEF Init, AccountedInv, Accounted, CheckedPCs
<1>1. TypeOK /\ ControlInv /\ AccountedInv /\ [Next]_vars => AccountedInv'
  BY AccountedStep
<1>2. TypeOK /\ ControlInv /\ AccountedInv /\ [Next]_vars =>
        \A p \in Procs :
          pc[p] = "final" /\ pc'[p] = "load" =>
              \A l \in Links : bin[l] # pre[p][l] =>
                  /\ pre[p][l] = Absent
                  /\ \E e \in execs[p] :
                        /\ l = LinkName(e, cmd[p].key)
                        /\ p \in writer[l] => bin[l] = Target(e, cmd[p].key)
  <2> SUFFICES ASSUME TypeOK, ControlInv, AccountedInv, [Next]_vars, NEW p \in Procs,
                      pc[p] = "final", pc'[p] = "load",
                      NEW l \in Links, bin[l] # pre[p][l]
               PROVE  /\ pre[p][l] = Absent
                      /\ \E e \in execs[p] :
                            /\ l = LinkName(e, cmd[p].key)
                            /\ p \in writer[l] => bin[l] = Target(e, cmd[p].key)
    OBVIOUS
  <2> DEFINE made == { LinkName(e, cmd[p].key) : e \in execs[p] }
  <2>1. post[p] = pre[p]
    BY DEF ControlInv, Control, CheckedPCs
  <2>2. post[p] \in [Links -> Entries] /\ bin \in [Links -> Entries]
    BY DEF TypeOK
  <2>3. FinalCheck(p)
    <3>1. PICK q \in Procs : Start(q) \/ Step(q) \/ Crash(q)
      BY DEF Next, OutOfBand, vars
    <3>2. pc' = pc \/ \E label \in PCs : pc' = [pc EXCEPT ![q] = label]
      BY <3>1 DEF Start, Step, InstallStep, UninstallStep, LedgerStep, StartInstall,
           StartUninstall, UvInstalls, UvFails, UvRefused, PostCheck, CheckName, Cleanup,
           CleanupFaults, ScanExes, LinkNext, LinkingDone, RemoveForeign,
           PlaceSymlink, LinkingFaults, LinkingIncomplete, AfterLoop, Linked,
           FinalCheck, LoadLedger, SaveLedger, UvUninstall, RemoveLink,
           RemoveLinkFaults, LinksRemoved, RmTree, RmTreeFaults, Crash, Finish,
           Goto, PCs
    <3>3. q = p
      BY <3>2 DEF TypeOK
    <3>4. ~ Crash(p)
      BY DEF Crash, Finish, Goto, TypeOK
    <3> QED
      BY <3>1, <3>3, <3>4 DEF Start, Step, InstallStep, UninstallStep, LedgerStep,
           StartInstall, StartUninstall, UvInstalls, UvFails, UvRefused, PostCheck, CheckName,
           Cleanup, CleanupFaults, ScanExes, LinkNext, LinkingDone, RemoveForeign,
           PlaceSymlink, LinkingFaults, LoadLedger, SaveLedger, UvUninstall,
           RemoveLink, RemoveLinkFaults, LinksRemoved, RmTree, RmTreeFaults
  <2>4. Unattributed(Diff(post[p], bin), made) = {}
    <3>1. ~ Finish(p, "integrity")
      BY DEF Finish, Goto, TypeOK
    <3> QED
      BY <2>3, <3>1 DEF FinalCheck
  <2>5. post[p][l] = Absent /\ l \in made
    <3> HIDE DEF made
    <3> QED
      BY <2>1, <2>2, <2>4, AttributedDiff
  <2>6. pc[p] \in CheckedPCs
    BY DEF CheckedPCs
  <2>7. CASE p \in writer[l]
    <3>1. \E e \in execs[p] : /\ l = LinkName(e, cmd[p].key)
                             /\ bin[l] = Target(e, cmd[p].key)
      BY <2>1, <2>5, <2>6, <2>7 DEF AccountedInv, Accounted
    <3> QED
      BY <2>1, <2>5, <3>1
  <2>8. CASE p \notin writer[l]
    BY <2>1, <2>5, <2>8
  <2> QED
    BY <2>7, <2>8
<1> QED
  BY <1>0, <1>1, <1>2, TypeCorrect, ControlAlways, PTL DEF Spec, CommitIsAccounted

----------------------------------------------------------------------------
(* What an uninstall may change in bin_dir                                 *)

\* What is left of an uninstall's list are links into its scratch tree, while
\* nobody else writes bin_dir.
Listed(p) ==
    pc[p] \in {"uvun", "unlink"} => \A l \in ours[p] : Into(bin[l], Dir(p))

ListedInv == left["oob"] = 0 /\ \A p \in Procs : Listed(p)

LEMMA ListedStep ==
    ASSUME TypeOK, ListedInv, [Next]_vars, \A p, q \in Procs : p = q
    PROVE  ListedInv'
<1> USE TypeParts DEF LocalsOK, Listed, Dir
<1> left["oob"] = 0 /\ left \in [Mishaps -> Nat] /\ "oob" \in Mishaps
  BY DEF ListedInv, BoundsOK, Mishaps
<1>1. ~ OutOfBand
  BY DEF OutOfBand, Spend
<1>2. left'["oob"] = 0
  <2>1. ASSUME NEW m \in {"crash", "fault", "misname"}, Spend(m)  PROVE left'["oob"] = 0
    BY <2>1 DEF Spend
  <2>2. CASE UNCHANGED left
    BY <2>2
  <2> QED
    BY <1>1, <2>1, <2>2
       DEF Next, vars, bounds, disk, Start, Step, InstallStep, UninstallStep, LedgerStep,
           StartInstall, StartUninstall, UvInstalls, UvFails, UvRefused, PostCheck, CheckName,
           Cleanup, CleanupFaults, ScanExes, LinkNext, LinkingDone, RemoveForeign,
           PlaceSymlink, LinkingFaults, FinalCheck, LoadLedger, SaveLedger,
           UvUninstall, RemoveLink, RemoveLinkFaults, LinksRemoved, RmTree,
           RmTreeFaults, Crash
<1>3. ASSUME NEW p \in Procs  PROVE Listed(p)'
  <2> Listed(p)
    BY DEF ListedInv
  <2>1. ASSUME NEW code, Finish(p, code)  PROVE Listed(p)'
    BY <2>1 DEF Finish, Goto
  <2>2. ASSUME NEW label \in PCs \ {"uvun", "unlink"}, Goto(p, label)
        PROVE  Listed(p)'
    BY <2>2 DEF Goto
  <2>3. CASE UNCHANGED <<pc, ours, bin, cmd>>
    BY <2>3
  <2>4. CASE StartInstall(p)
    BY <2>4, <2>2 DEF StartInstall, PCs
  <2>5. CASE StartUninstall(p)
    BY <2>5 DEF StartUninstall, LinksTargetingScratch, Goto, disk
  <2>6. CASE InstallStep(p) \/ UvRefused(p) \/ LedgerStep(p)
    BY <2>6, <2>1, <2>2
       DEF InstallStep, LedgerStep, UvInstalls, UvFails, UvRefused, PostCheck, CheckName,
           Cleanup, CleanupFaults, ScanExes, LinkNext, LinkingDone, RemoveForeign,
           PlaceSymlink, LinkingFaults, FinalCheck, Linked, AfterLoop,
           LinkingIncomplete, LoadLedger, SaveLedger, PCs
  <2>7. CASE UvUninstall(p)
    BY <2>7 DEF UvUninstall, Goto, locals
  <2>8. CASE RemoveLink(p)
    BY <2>8 DEF RemoveLink, DiskOK
  <2>9. CASE RemoveLinkFaults(p)
    BY <2>9, <2>1 DEF RemoveLinkFaults, disk
  <2>10. CASE LinksRemoved(p) \/ RmTree(p) \/ RmTreeFaults(p)
    BY <2>10, <2>1, <2>2 DEF LinksRemoved, RmTree, RmTreeFaults, PCs
  <2>11. CASE Crash(p)
    BY <2>11, <2>1 DEF Crash
  <2>12. CASE UNCHANGED vars
    BY <2>12, <2>3 DEF vars, disk, locals
  <2> QED
    BY <1>1, <2>4, <2>5, <2>6, <2>7, <2>8, <2>9, <2>10, <2>11, <2>12
       DEF Next, Start, Step, UninstallStep
<1> QED
  BY <1>2, <1>3 DEF ListedInv

\* An uninstall that nobody runs beside takes away links into its own scratch
\* tree and nothing else, in both modes and whatever fault or kill it meets.
THEOREM RemovesOnlyOwnLinksForOne ==
    ASSUME \A p, q \in Procs : p = q, Limit["oob"] = 0
    PROVE  Spec => RemovesOnlyOwnLinks
<1>1. Init => ListedInv
  BY DEF Init, ListedInv, Listed
<1>2. TypeOK /\ ListedInv /\ [Next]_vars => ListedInv'
  BY ListedStep
<1>3. TypeOK /\ ControlInv /\ ListedInv =>
        \A p \in Procs :
          Step(p) /\ Uninstalling(p) =>
              \A l \in Links : bin'[l] # bin[l] => Into(bin[l], Dir(p))
  <2> SUFFICES ASSUME TypeOK, ControlInv, ListedInv, NEW p \in Procs, Step(p),
                      Uninstalling(p), NEW l \in Links, bin'[l] # bin[l]
               PROVE  Into(bin[l], Dir(p))
    OBVIOUS
  <2>1. Control(p) /\ Listed(p) /\ bin \in [Links -> Entries]
    BY DEF ControlInv, ListedInv, TypeOK
  <2>2. ~ RemoveForeign(p) /\ ~ PlaceSymlink(p)
    BY <2>1 DEF Control, RemoveForeign, PlaceSymlink, InstallPCs, Installing,
         Uninstalling
  <2>3. RemoveLink(p)
    BY <2>2 DEF Step, InstallStep, UninstallStep, LedgerStep, UvInstalls, UvFails, UvRefused,
         PostCheck, CheckName, Cleanup, CleanupFaults, ScanExes, LinkNext,
         LinkingDone, LinkingFaults, FinalCheck, LoadLedger, SaveLedger,
         UvUninstall, RemoveLinkFaults, LinksRemoved, RmTree, RmTreeFaults, disk
  <2> QED
    BY <2>1, <2>3 DEF RemoveLink, Listed
<1> QED
  BY <1>1, <1>2, <1>3, TypeCorrect, ControlAlways, PTL DEF Spec, RemovesOnlyOwnLinks
=============================================================================
