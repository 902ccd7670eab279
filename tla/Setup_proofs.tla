---------------------------- MODULE Setup_proofs ----------------------------
(***************************************************************************)
(* Theorems about `uvctl setup' and the commands on a server it makes, for *)
(* any number of processes, setups that stop anywhere, and any directories *)
(* and service users.                                                      *)
(***************************************************************************)
EXTENDS SetupAndCommands, TLAPS

----------------------------------------------------------------------------
(* Settings                                                                *)

\* resolve_effective() yields a whole set of settings, except for uv_path,
\* which may be unknown.
LEMMA EffectiveSettings ==
    ASSUME NEW flags \in CommandLines, NEW env \in Environments, NEW file \in Files,
           NEW uv \in UvPaths \cup {Unset}
    PROVE  LET e == ResolveEffective(flags, Resolve(env, file), uv) IN
           /\ e \in Files /\ e.bin_dir \in BinDirs /\ e.service_user \in ServiceUsers
<1> USE ConfigurationAssumption
<1> DEFINE cfg == Resolve(env, file)
           e   == ResolveEffective(flags, cfg, uv)
<1>1. cfg["bin_dir"].value \in BinDirs
  BY DEF Resolve, Pick, Keys, EnvOverrides, Setting, Environments, Files, Values,
         Defaults
<1>2. cfg["service_user"].value \in ServiceUsers
  BY DEF Resolve, Pick, Keys, EnvOverrides, Setting, Files, Values, Defaults
<1>3. cfg["uv_path"].value \in UvPaths \cup {Unset}
  BY DEF Resolve, Pick, Keys, EnvOverrides, Setting, Files, Values, Defaults
<1> HIDE DEF cfg
<1>4. e.bin_dir \in BinDirs /\ e.service_user \in ServiceUsers
      /\ e.uv_path \in UvPaths \cup {Unset}
  BY <1>1, <1>2, <1>3 DEF ResolveEffective, Overlay, CommandLines
<1>5. e \in Files
  BY <1>4 DEF ResolveEffective, Files, Keys, Values
<1> QED
  BY <1>4, <1>5 DEF cfg

\* What a command resolves is such a set as well.
LEMMA ResolvedSettings ==
    ASSUME NEW env \in Environments, NEW file \in Files
    PROVE  LET s == Valued(Resolve(env, file)) IN
           s \in Files /\ s.bin_dir \in BinDirs /\ s.service_user \in ServiceUsers
BY ConfigurationAssumption
   DEF Valued, Resolve, Pick, Keys, EnvOverrides, Setting, Environments, Files,
       Values, Defaults

LEMMA NoFileIsFile == NoFile \in Files
BY DEF NoFile, Files, Keys

----------------------------------------------------------------------------
(* Type correctness                                                        *)

Exits == { "none", "ok", "failed", "error", "raised", "died", "partial",
           "tripwire", "denied" }

\* The part of TypeOK that is private to the processes, setup's first.
SetupProcOK ==
    /\ pc \in [Procs -> SetupPCs \cup CommandPCs \cup {"idle"}]
    /\ eff \in [Procs -> Files]
    /\ admins \in [Procs -> Groups]
    /\ exit \in [Procs -> Exits]

ProcOK ==
    /\ SetupProcOK
    /\ cmd \in [Procs -> Commands]
    /\ uid \in [Procs -> Uids]
    /\ mode \in [Procs -> {"rootless", "system-bin"}]
    /\ state \in [Procs -> {"complete", "partial"}]

LEMMA TypeParts == TypeOK <=> SiteOK /\ HistoryOK /\ ProcOK /\ promised \subseteq Procs
BY DEF TypeOK, ProcOK, SetupProcOK, Exits

\* What a setup may assume of its settings, from its second step on.
Settled(e) ==
    /\ e.bin_dir \in BinDirs /\ e.service_user \in ServiceUsers
    /\ e.uv_path # Unset

SettingsInv == \A p \in Procs : pc[p] \in SetupPCs => Settled(eff[p])

LEMMA FinishType ==
    ASSUME ProcOK, NEW p \in Procs, NEW code \in Exits, Finish(p, code)
    PROVE  SetupProcOK'
BY NoFileIsFile DEF ProcOK, SetupProcOK, Exits, Finish, Goto, Groups

LEMMA GotoType ==
    ASSUME ProcOK, NEW p \in Procs, NEW label \in SetupPCs \cup CommandPCs, Goto(p, label)
    PROVE  pc' \in [Procs -> SetupPCs \cup CommandPCs \cup {"idle"}]
BY DEF ProcOK, SetupProcOK, Goto

LEMMA EndType ==
    ASSUME ProcOK, NEW p \in Procs, NEW code \in Exits, CommandEnds(p, code)
    PROVE  ProcOK'
<1>1. NoCommand \in Commands
  BY CommandsAssumption DEF NoCommand, Commands
<1>2. SetupProcOK'
  BY FinishType DEF CommandEnds
<1> QED
  BY <1>1, <1>2 DEF ProcOK, CommandEnds, Uids, Owners

LEMMA DoneSettles ==
    ASSUME NEW p \in Procs, Done(p)
    PROVE  settled' \in BOOLEAN
<1>1. settled' = (p \in alone)
  BY DEF Done
<1>2. CASE p \in alone
  BY <1>1, <1>2
<1>3. CASE p \notin alone
  BY <1>1, <1>3
<1> QED
  BY <1>2, <1>3

\* The steps of a setup past its start, as they are for the types.
LEMMA SetupStepType ==
    ASSUME TypeOK, NEW p \in Procs, SetupStep(p) \/ Stop(p) \/ Refuse(p)
    PROVE  SetupProcOK' /\ HistoryOK'
<1> USE TypeParts
<1> USE DEF Running, bounds, history, HistoryOK
<1>1. ASSUME Finish(p, "ok") \/ Finish(p, "error") \/ Finish(p, "died")
      PROVE  SetupProcOK'
  BY <1>1, FinishType DEF Exits
<1>2. ASSUME NEW label \in SetupPCs, Goto(p, label), UNCHANGED <<eff, admins, exit>>
      PROVE  SetupProcOK'
  BY <1>2, GotoType DEF ProcOK, SetupProcOK
<1>3. CASE Lookup(p) \/ UserAdd(p) \/ WriteConfig(p)
  BY <1>3, <1>1, <1>2 DEF Lookup, UserAdd, WriteConfig, SetupPCs
<1>4. CASE MakeTree(p) \/ MakeBin(p) \/ MakeLedger(p)
  BY <1>4, <1>2 DEF MakeTree, MakeBin, MakeLedger, MakeDir, SetupPCs
<1>5. CASE OwnTree(p) \/ OwnBin(p) \/ OwnLedger(p)
  BY <1>5, <1>2 DEF OwnTree, OwnBin, OwnLedger, OwnDir, SetupPCs
<1>6. CASE WriteProfile(p) \/ AddGroup(p) \/ WriteSudoers(p)
  <2>1. SetupProcOK'
    BY <1>6, <1>1, <1>2 DEF WriteProfile, AddGroup, WriteSudoers, Done, SetupPCs
  <2>2. CASE Done(p) /\ UNCHANGED bounds
    <3>1. settled' \in BOOLEAN
      BY <2>2, DoneSettles
    <3> QED
      BY <2>1, <2>2, <3>1 DEF Done
  <2>3. CASE UNCHANGED <<bounds, history>>
    BY <2>1, <2>3
  <2> QED
    BY <1>6, <2>2, <2>3 DEF WriteProfile, AddGroup, WriteSudoers
<1>7. CASE RepairTree(p) \/ RepairInTree(p) \/ RepairBin(p) \/ RepairInBin(p)
  BY <1>7, <1>1, <1>2
     DEF RepairTree, RepairInTree, RepairBin, RepairInBin, RepairDir, SetupPCs
<1>8. CASE Stop(p) \/ Refuse(p)
  BY <1>8, <1>1 DEF Stop, Refuse, Count
<1> QED
  BY <1>3, <1>4, <1>5, <1>6, <1>7, <1>8 DEF SetupStep

\* A setup starts with settings that are whole but, maybe, for the uv.
LEMMA StartEffective ==
    ASSUME TypeOK, NEW p \in Procs, Start(p)
    PROVE  \E request \in CommandLines, e \in Files, repeats \in BOOLEAN :
              /\ e.bin_dir \in BinDirs /\ e.service_user \in ServiceUsers
              /\ StartWith(p, request, e, repeats)
<1>1. PICK request \in Requests, env \in Envs, uv \in FoundUv :
         StartWith(p, request, ResolveEffective(request, Resolve(env, config), uv),
                   Repeats(request, env, uv))
  BY DEF Start
<1> DEFINE e == ResolveEffective(request, Resolve(env, config), uv)
           repeats == Repeats(request, env, uv)
<1>2. e \in Files /\ e.bin_dir \in BinDirs /\ e.service_user \in ServiceUsers
  BY EffectiveSettings, SetupAssumption DEF TypeOK, SiteOK
<1>3. request \in CommandLines
  BY SetupAssumption
<1>4. repeats \in BOOLEAN
  BY Zenon DEF Repeats
<1>5. StartWith(p, request, e, repeats)
  BY <1>1
<1> HIDE DEF e, repeats
<1> QED
  BY <1>2, <1>3, <1>4, <1>5

LEMMA StartType ==
    ASSUME TypeOK, NEW p \in Procs, Start(p)
    PROVE  SetupProcOK' /\ HistoryOK'
<1> USE TypeParts
<1>1. PICK request \in CommandLines, e \in Files, repeats \in BOOLEAN :
              StartWith(p, request, e, repeats)
  BY StartEffective
<1>2. ops' \in Nat /\ stops' \in Nat /\ alone' \subseteq Procs
  <2>1. Count(p) /\ UNCHANGED stops
    BY DEF Start
  <2> QED
    BY <2>1 DEF Count, HistoryOK
<1>3. again' \subseteq Procs
  BY <1>1 DEF StartWith, HistoryOK
<1>4. settled' \in BOOLEAN
  <2>1. CASE UNCHANGED settled
    BY <2>1 DEF HistoryOK
  <2>2. CASE e.uv_path # Unset /\ request.repair
    <3>1. settled' = (settled /\ e = config /\ ~ IsSystemBin(e.bin_dir))
      BY <1>1, <2>2, Zenon DEF StartWith
    <3>2. CASE settled /\ e = config /\ ~ IsSystemBin(e.bin_dir)
      BY <3>1, <3>2
    <3>3. CASE ~ (settled /\ e = config /\ ~ IsSystemBin(e.bin_dir))
      BY <3>1, <3>3
    <3> QED
      BY <3>2, <3>3
  <2>3. CASE e.uv_path = Unset \/ ~ request.repair
    BY <1>1, <2>1, <2>3 DEF StartWith
  <2> QED
    BY <2>2, <2>3
<1>5. SetupProcOK'
  <2>1. ASSUME Finish(p, "error") \/ Finish(p, "raised")  PROVE SetupProcOK'
    BY <2>1, FinishType DEF Exits
  <2>2. ASSUME NEW label \in {"lookup", "repair tree"}, Goto(p, label),
               eff' = [eff EXCEPT ![p] = e], exit' = [exit EXCEPT ![p] = "none"],
               admins' = admins \/ admins' = [admins EXCEPT ![p] = request.group]
        PROVE  SetupProcOK'
    BY <2>2, GotoType DEF ProcOK, SetupProcOK, Exits, SetupPCs, CommandLines
  <2> QED
    BY <1>1, <2>1, <2>2 DEF StartWith
<1> QED
  BY <1>2, <1>3, <1>4, <1>5 DEF HistoryOK

\* The steps of a command.
LEMMA CommandStepType ==
    ASSUME TypeOK, NEW p \in Procs, CommandStep(p)
    PROVE  ProcOK' /\ HistoryOK' /\ promised' \subseteq Procs
<1> USE TypeParts DEF Running, bounds, history, command, HistoryOK
<1>1. ASSUME NEW code \in Exits, CommandEnds(p, code)  PROVE ProcOK'
  BY <1>1, EndType
<1>2. ASSUME NEW label \in CommandPCs, Goto(p, label)
      PROVE  pc' \in [Procs -> SetupPCs \cup CommandPCs \cup {"idle"}]
  BY <1>2, GotoType
<1>3. Settings(p) \in Files /\ Settings(p).service_user \in ServiceUsers
  BY ResolvedSettings, SetupAssumption DEF Settings, ProcOK, Commands, SiteOK
<1>4. CASE Invoke(p)
  <2>1. pc' \in [Procs -> SetupPCs \cup CommandPCs \cup {"idle"}]
    BY <1>4, <1>2 DEF Invoke, CommandPCs
  <2>2. cmd' \in [Procs -> Commands] /\ uid' \in [Procs -> Uids]
    BY <1>4 DEF Invoke, ProcOK, Commands, Uids
  <2>3. exit' \in [Procs -> Exits]
    BY <1>4 DEF Invoke, ProcOK, SetupProcOK, Exits
  <2>4. HistoryOK' /\ promised' \subseteq Procs
    BY <1>4 DEF Invoke, Count
  <2> QED
    BY <1>4, <2>1, <2>2, <2>3, <2>4 DEF Invoke, ProcOK, SetupProcOK
<1>5. CASE Startup(p)
  BY <1>5, <1>2, <1>3 DEF Startup, ProcOK, SetupProcOK, Uids, Owners, CommandPCs
<1>6. CASE Gate(p)
  <2>1. CASE CommandEnds(p, "error")
    BY <1>6, <2>1, <1>1 DEF Gate, Exits
  <2>2. CASE /\ eff' = [eff EXCEPT ![p] = Settings(p)]
             /\ Goto(p, IF cmd[p].verb = "suffixed" THEN "mode" ELSE "uv")
             /\ UNCHANGED <<admins, exit, command>>
    BY <1>6, <2>2, <1>2, <1>3 DEF Gate, ProcOK, SetupProcOK, CommandPCs
  <2> QED
    BY <1>6, <2>1, <2>2 DEF Gate
<1>7. CASE ReadMode(p)
  BY <1>7, <1>2 DEF ReadMode, ProcOK, SetupProcOK, CommandPCs, SuffixMode
<1>8. CASE RunUv(p)
  <2>1. CASE CommandEnds(p, "ok")
    BY <1>8, <2>1, <1>1 DEF RunUv, Exits
  <2>2. CASE Goto(p, "link") /\ UNCHANGED <<eff, admins, exit, command>>
    BY <1>8, <2>2, <1>2 DEF RunUv, ProcOK, SetupProcOK, CommandPCs
  <2> QED
    BY <1>8, <2>1, <2>2 DEF RunUv
<1>9. CASE RunUvFails(p)
  BY <1>9, <1>1 DEF RunUvFails, Exits
<1>10. CASE Link(p)
  BY <1>10, <1>2 DEF Link, ProcOK, SetupProcOK, CommandPCs
<1>11. CASE WriteLedger(p)
  BY <1>11, <1>1 DEF WriteLedger, Exits, ProcOK
<1> QED
  BY <1>4, <1>5, <1>6, <1>7, <1>8, <1>9, <1>10, <1>11 DEF CommandStep

\* Which action writes what of the site: setup everything, a command only the
\* entries of the tree.
LEMMA SiteStepType ==
    ASSUME TypeOK, SettingsInv, NEW p \in Procs, SetupStep(p)
    PROVE  SiteOK'
<1> USE TypeParts DEF Running
<1>1. pc[p] \in SetupPCs
  BY DEF SetupStep, Lookup, UserAdd, MakeTree, OwnTree, MakeBin, OwnBin, WriteConfig,
         MakeLedger, OwnLedger, WriteProfile, AddGroup, WriteSudoers, RepairTree,
         RepairInTree, RepairBin, RepairInBin, MakeDir, OwnDir, RepairDir, SetupPCs
<1>2. Settled(eff[p]) /\ eff[p] \in Files
  BY <1>1 DEF SettingsInv, ProcOK, SetupProcOK
<1>3. /\ {"tree", "ledger", eff[p].bin_dir} \subseteq Dirs
      /\ {"root", eff[p].service_user, OwnerFor(eff[p])} \subseteq Owners
  BY <1>2 DEF Settled, Dirs, Owners, OwnerFor
<1>4. ASSUME NEW d \in Dirs, NEW who \in Owners \cup {"missing"},
             owner' = [owner EXCEPT ![d] = who],
             UNCHANGED <<accounts, inside, config, profile, group, sudoers>>
      PROVE  SiteOK'
  BY <1>4 DEF SiteOK
<1>5. ASSUME NEW d \in Dirs, inside' = [inside EXCEPT ![d] = {}]
                          \/ inside' = [inside EXCEPT ![d] = {eff[p].service_user}],
             UNCHANGED <<accounts, owner, config, profile, group, sudoers>>
      PROVE  SiteOK'
  BY <1>3, <1>5 DEF SiteOK
<1>6. CASE Lookup(p) \/ UserAdd(p) \/ WriteConfig(p) \/ WriteProfile(p)
           \/ AddGroup(p) \/ WriteSudoers(p)
  BY <1>2, <1>6
     DEF Lookup, UserAdd, WriteConfig, WriteProfile, AddGroup, WriteSudoers, site,
         SiteOK, Settled
<1>7. CASE MakeTree(p) \/ MakeBin(p) \/ MakeLedger(p)
  BY <1>3, <1>4, <1>7 DEF MakeTree, MakeBin, MakeLedger, MakeDir, SiteOK
<1>8. CASE OwnTree(p) \/ OwnBin(p) \/ OwnLedger(p)
  BY <1>3, <1>4, <1>8 DEF OwnTree, OwnBin, OwnLedger, OwnDir, Chowned
<1>9. CASE RepairTree(p) \/ RepairBin(p)
  BY <1>3, <1>4, <1>9 DEF RepairTree, RepairBin, RepairDir, SiteOK
<1>10. CASE RepairInTree(p) \/ RepairInBin(p)
  BY <1>3, <1>5, <1>10 DEF RepairInTree, RepairInBin, RepairInside
<1> QED
  BY <1>6, <1>7, <1>8, <1>9, <1>10 DEF SetupStep

LEMMA SiteStep ==
    ASSUME TypeOK, SettingsInv, [AllNext]_allVars
    PROVE  SiteOK'
<1> USE TypeParts
<1>1. CASE UNCHANGED site
  BY <1>1 DEF site, SiteOK
<1>2. ASSUME NEW p \in Procs, Refuse(p) \/ Start(p) \/ Stop(p)  PROVE UNCHANGED site
  BY <1>2 DEF Refuse, Start, Stop
<1>3. ASSUME NEW p \in Procs, RunUv(p)  PROVE SiteOK'
  <2>1. ChildRunsAs(p) \in Owners /\ "tree" \in Dirs
    BY <1>3 DEF RunUv, SiteOK, Owners, Dirs
  <2> QED
    BY <1>3, <2>1 DEF RunUv, SiteOK
<1>4. ASSUME NEW p \in Procs, CommandStep(p)  PROVE SiteOK'
  BY <1>1, <1>3, <1>4
     DEF CommandStep, Invoke, Startup, Gate, ReadMode, RunUvFails, Link, WriteLedger
<1>5. CASE UNCHANGED allVars
  BY <1>1, <1>5 DEF allVars, vars
<1> QED
  BY <1>1, <1>2, <1>4, <1>5, SiteStepType DEF AllNext, SetupNext

\* The settings of a setup are whole, from its start to its end.
LEMMA SettingsStep ==
    ASSUME TypeOK, SettingsInv, [AllNext]_allVars
    PROVE  SettingsInv'
<1> USE TypeParts
<1> SUFFICES ASSUME NEW q \in Procs, pc'[q] \in SetupPCs
             PROVE  Settled(eff'[q])
  BY DEF SettingsInv
<1>1. ASSUME NEW p \in Procs, NEW code, Finish(p, code)  PROVE Settled(eff'[q])
  BY <1>1 DEF Finish, Goto, SettingsInv, SetupPCs, ProcOK, SetupProcOK
<1>2. ASSUME NEW p \in Procs, NEW label, Goto(p, label), UNCHANGED eff,
             pc[p] \in SetupPCs \/ label \in CommandPCs
      PROVE  Settled(eff'[q])
  BY <1>2 DEF Goto, SettingsInv, SetupPCs, CommandPCs, ProcOK, SetupProcOK
<1>3. ASSUME NEW p \in Procs, Start(p)  PROVE Settled(eff'[q])
  <2>1. PICK request \in CommandLines, e \in Files, repeats \in BOOLEAN :
              /\ e.bin_dir \in BinDirs /\ e.service_user \in ServiceUsers
              /\ StartWith(p, request, e, repeats)
    BY <1>3, StartEffective
  <2>2. CASE Finish(p, "error") \/ Finish(p, "raised")
    BY <2>2, <1>1
  <2>3. CASE /\ e.uv_path # Unset /\ eff' = [eff EXCEPT ![p] = e]
             /\ Goto(p, "lookup") \/ Goto(p, "repair tree")
    BY <2>1, <2>3 DEF Goto, SettingsInv, Settled, ProcOK, SetupProcOK
  <2> QED
    BY <2>1, <2>2, <2>3 DEF StartWith
<1>4. ASSUME NEW p \in Procs, SetupStep(p)  PROVE Settled(eff'[q])
  BY <1>1, <1>2, <1>4
     DEF SetupStep, Lookup, UserAdd, MakeTree, OwnTree, MakeBin, OwnBin, WriteConfig,
         MakeLedger, OwnLedger, WriteProfile, AddGroup, WriteSudoers, RepairTree,
         RepairInTree, RepairBin, RepairInBin, MakeDir, OwnDir, RepairDir, Done,
         Running, SetupPCs
<1>5. ASSUME NEW p \in Procs, Refuse(p) \/ Stop(p)  PROVE Settled(eff'[q])
  BY <1>1, <1>5 DEF Refuse, Stop
<1>6. ASSUME NEW p \in Procs, CommandStep(p)  PROVE Settled(eff'[q])
  <2>1. CASE Gate(p)
    BY <1>1, <2>1 DEF Gate, CommandEnds, Goto, SettingsInv, SetupPCs, ProcOK, SetupProcOK
  <2> QED
    BY <1>1, <1>2, <1>6, <2>1
       DEF CommandStep, Invoke, Startup, ReadMode, RunUv, RunUvFails, Link,
           WriteLedger, CommandEnds, CommandPCs, Running, command
<1>7. CASE UNCHANGED allVars
  BY <1>7 DEF allVars, vars, proc, SettingsInv
<1> QED
  BY <1>3, <1>4, <1>5, <1>6, <1>7 DEF AllNext, SetupNext

LEMMA TypeStep ==
    ASSUME TypeOK, SettingsInv, [AllNext]_allVars
    PROVE  TypeOK' /\ SettingsInv'
<1>1. ASSUME NEW p \in Procs, SetupNext(p), UNCHANGED <<command, promised>>
      PROVE  ProcOK' /\ HistoryOK' /\ promised' \subseteq Procs
  <2>1. SetupProcOK' /\ HistoryOK'
    BY <1>1, SetupStepType, StartType DEF SetupNext
  <2> QED
    BY <1>1, <2>1, TypeParts DEF command, ProcOK
<1>2. ASSUME NEW p \in Procs, CommandStep(p)
      PROVE  ProcOK' /\ HistoryOK' /\ promised' \subseteq Procs
  BY <1>2, CommandStepType
<1>3. ASSUME UNCHANGED allVars
      PROVE  ProcOK' /\ HistoryOK' /\ promised' \subseteq Procs
  BY <1>3, TypeParts
     DEF allVars, vars, proc, bounds, history, command, ProcOK, SetupProcOK, HistoryOK
<1>4. ProcOK' /\ HistoryOK' /\ promised' \subseteq Procs
  BY <1>1, <1>2, <1>3 DEF AllNext
<1>5. SiteOK' /\ SettingsInv'
  BY SiteStep, SettingsStep
<1>6. TypeOK'
  BY <1>4, <1>5 DEF TypeOK, ProcOK, SetupProcOK, Exits
<1> QED
  BY <1>5, <1>6

LEMMA TypeInit == AllInit => TypeOK /\ SettingsInv
<1>1. NoCommand \in Commands
  BY CommandsAssumption DEF NoCommand, Commands
<1> SUFFICES ASSUME AllInit  PROVE TypeOK /\ SettingsInv
  OBVIOUS
<1>2. SiteOK
  <2>1. group \in BOOLEAN
    BY Zenon DEF AllInit, Init
  <2>2. inside \in [Dirs -> SUBSET Owners] /\ owner \in [Dirs -> Owners \cup {"missing"}]
    BY DEF AllInit, Init, Owners
  <2> QED
    BY <2>1, <2>2, NoFileIsFile DEF AllInit, Init, SiteOK
<1>3. HistoryOK /\ promised \subseteq Procs
  <2>1. settled \in BOOLEAN
    BY Zenon DEF AllInit, Init
  <2> QED
    BY <2>1 DEF AllInit, Init, HistoryOK
<1>5. ProcOK
  BY <1>1, NoFileIsFile
     DEF AllInit, Init, ProcOK, SetupProcOK, Exits, Groups, Uids, Owners
<1>4. SettingsInv
  BY DEF AllInit, Init, SettingsInv, SetupPCs
<1> QED
  BY <1>2, <1>3, <1>4, <1>5, TypeParts

\* Every variable keeps its type; in particular a setup that got past its start
\* has an account name, a bin_dir and a uv to record.
THEOREM SetupTypeCorrect == AllSpec => []TypeOK /\ []SettingsInv
<1>1. AllInit => TypeOK /\ SettingsInv
  BY TypeInit
<1>2. TypeOK /\ SettingsInv /\ [AllNext]_allVars => TypeOK' /\ SettingsInv'
  BY TypeStep
<1> QED
  BY <1>1, <1>2, PTL DEF AllSpec
=============================================================================
