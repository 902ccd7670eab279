------------------------ MODULE SettledSite_proofs ------------------------
(***************************************************************************)
(* What holds on a site that a setup has settled: another setup changes    *)
(* nothing, and a command that nobody runs beside has the privileges for   *)
(* all of its steps.                                                       *)
(***************************************************************************)
EXTENDS UsableSite_proofs

\* The files, the account and the owners of the directories belong to one set of
\* settings.
Agrees ==
    /\ Settled(config)
    /\ config.service_user \in accounts
    /\ owner["tree"] = config.service_user
    /\ owner[config.bin_dir] = OwnerFor(config) /\ owner["ledger"] = OwnerFor(config)
    /\ profile = config.bin_dir

RepairPCs == {"repair tree", "repair in tree", "repair bin", "repair in bin"}

----------------------------------------------------------------------------
(* Settings that are read again                                            *)

\* Without an override, what a command resolves is what is in the file.
LEMMA ReadsTheFile ==
    ASSUME NEW env \in Environments, env["bin_dir"] = Unset,
           NEW file \in Files, Settled(file)
    PROVE  Valued(Resolve(env, file)) = file
<1> USE ConfigurationAssumption
<1> DEFINE s == Valued(Resolve(env, file))
<1>1. s = [key \in Keys |-> Pick(key, env, file).value]
  BY DEF Valued, Resolve
<1>2. ASSUME NEW key \in Keys  PROVE file[key] # Unset
  BY <1>2 DEF Settled, Keys
<1>3. ASSUME NEW key \in Keys  PROVE Pick(key, env, file).value = file[key]
  <2>1. key \in EnvOverrides => env[key] = Unset
    BY DEF EnvOverrides
  <2>2. Pick(key, env, file) = Setting(file[key], "file")
    BY <1>2, <1>3, <2>1 DEF Pick
  <2> QED
    BY <2>2 DEF Setting
<1>4. file = [key \in Keys |-> file[key]]
  BY DEF Files
<1> QED
  BY <1>1, <1>3, <1>4

\* Nor do flags that are not given change anything.
LEMMA RepeatsTheFile ==
    ASSUME NEW request \in CommandLines, NEW env \in Environments,
           NEW uv \in UvPaths \cup {Unset}, NEW file \in Files, Settled(file),
           request.bin_dir = Unset, request.service_user = Unset,
           env["bin_dir"] = Unset, uv \in {Unset, file.uv_path}
    PROVE  ResolveEffective(request, Resolve(env, file), uv) = file
<1> DEFINE cfg == Resolve(env, file)
           e   == ResolveEffective(request, cfg, uv)
<1>1. ASSUME NEW key \in Keys  PROVE cfg[key].value = file[key]
  <2>1. Valued(cfg)[key] = cfg[key].value
    BY <1>1 DEF Valued
  <2> QED
    BY <1>1, <2>1, ReadsTheFile
<1>2. /\ cfg["bin_dir"].value = file.bin_dir
      /\ cfg["service_user"].value = file.service_user
      /\ cfg["uv_path"].value = file.uv_path
  BY <1>1 DEF Keys
<1> HIDE DEF cfg
<1>3. e = [bin_dir |-> file.bin_dir, service_user |-> file.service_user,
           uv_path |-> file.uv_path]
  BY <1>2 DEF ResolveEffective, Overlay
<1>4. file = [key \in Keys |-> file[key]]
  BY DEF Files
<1> QED
  BY <1>3, <1>4 DEF Keys, cfg

----------------------------------------------------------------------------
(* Steps on a site that agrees with itself                                 *)

LEMMA AgreesStays ==
    ASSUME Agrees, UNCHANGED <<accounts, owner, config, profile>>
    PROVE  Agrees'
BY DEF Agrees, Settled, OwnerFor, IsSystemBin

\* A repair for the settings in the file chowns what is owned already.
LEMMA RepairKeeps ==
    ASSUME TypeOK, Agrees, NEW p \in Procs, SetupStep(p), pc[p] \in RepairPCs,
           eff[p] = config, ~ IsSystemBin(config.bin_dir)
    PROVE  /\ UNCHANGED <<accounts, owner, config, profile>>
           /\ \/ pc'[p] = "idle"
              \/ pc'[p] \in RepairPCs /\ eff'[p] = eff[p]
<1> USE TypeParts DEF Goto, ProcOK, SetupProcOK, Running
<1>1. ASSUME NEW d \in Dirs, owner[d] = config.service_user,
             owner' = [owner EXCEPT ![d] = IF @ = "missing" THEN @ ELSE eff[p].service_user]
      PROVE  owner' = owner
  BY <1>1 DEF SiteOK
<1>2. /\ "tree" \in Dirs /\ owner["tree"] = config.service_user
      /\ config.bin_dir \in Dirs /\ owner[config.bin_dir] = config.service_user
  BY DEF Agrees, Settled, Dirs, OwnerFor
<1>3. CASE RepairTree(p)
  BY <1>1, <1>2, <1>3 DEF RepairTree, RepairDir, RepairPCs
<1>4. CASE RepairBin(p)
  BY <1>1, <1>2, <1>4 DEF RepairBin, RepairDir, RepairPCs
<1>5. CASE RepairInTree(p)
  BY <1>5 DEF RepairInTree, RepairPCs
<1>6. CASE RepairInBin(p)
  BY <1>6 DEF RepairInBin, Finish
<1>7. RepairTree(p) \/ RepairBin(p) \/ RepairInTree(p) \/ RepairInBin(p)
  BY DEF RepairPCs, SetupStep, Lookup, UserAdd, MakeTree, OwnTree, MakeBin, OwnBin,
         WriteConfig, MakeLedger, OwnLedger, WriteProfile, AddGroup, WriteSudoers,
         MakeDir, OwnDir
<1> QED
  BY <1>3, <1>4, <1>5, <1>6, <1>7

\* A setup that repeats the settled one.
AgainOK(p) ==
    pc[p] \in SetupPCs =>
        /\ Agrees /\ eff[p] = config /\ admins[p] = "none"
        /\ pc[p] \notin RepairPCs \cup {"useradd", "group", "sudoers"}

LEMMA RepeatKeeps ==
    ASSUME TypeOK, NEW p \in Procs, AgainOK(p), SetupStep(p)
    PROVE  UNCHANGED site /\ AgainOK(p)'
<1> USE TypeParts DEF Goto, ProcOK, SetupProcOK, Running
<1>1. pc[p] \in SetupPCs
  BY DEF SetupPCs, SetupStep, Lookup, UserAdd, MakeTree, OwnTree, MakeBin, OwnBin,
         WriteConfig, MakeLedger, OwnLedger, WriteProfile, AddGroup, WriteSudoers,
         RepairTree, RepairInTree, RepairBin, RepairInBin, MakeDir, OwnDir, RepairDir
<1>2. /\ Agrees /\ eff[p] = config /\ admins[p] = "none"
      /\ pc[p] \notin RepairPCs \cup {"useradd", "group", "sudoers"}
  BY <1>1 DEF AgainOK
<1>3. /\ "tree" \in Dirs /\ "ledger" \in Dirs /\ config.bin_dir \in Dirs
      /\ owner \in [Dirs -> Owners \cup {"missing"}]
  BY <1>2 DEF Agrees, Settled, Dirs, SiteOK
<1>4. ASSUME NEW d \in Dirs, NEW label, NEW next, MakeDir(p, label, d, next),
             owner[d] # "missing"
      PROVE  UNCHANGED site
  BY <1>3, <1>4 DEF MakeDir, site
<1>5. ASSUME NEW d \in Dirs, NEW label, NEW next, OwnDir(p, label, d, owner[d], next)
      PROVE  UNCHANGED site
  BY <1>3, <1>5 DEF OwnDir, Chowned, site
<1>6. \A d \in {"tree", config.bin_dir, "ledger"} : owner[d] # "missing"
  BY <1>2, SetupAssumption DEF Agrees, Settled, OwnerFor
<1>7. ASSUME UNCHANGED site, UNCHANGED <<eff, admins>>,
             pc'[p] \in {"make tree", "own tree", "make bin", "own bin", "config",
                         "make ledger", "own ledger", "profile"}
      PROVE  AgainOK(p)'
  <2>1. Agrees'
    BY <1>2, <1>7, AgreesStays DEF site
  <2> QED
    BY <1>2, <1>7, <2>1 DEF AgainOK, RepairPCs, site
<1>8. ASSUME pc'[p] = "idle"  PROVE AgainOK(p)'
  BY <1>8 DEF AgainOK, SetupPCs
<1>9. CASE Lookup(p)
  BY <1>2, <1>7, <1>9 DEF Lookup, Agrees
<1>10. CASE MakeTree(p) \/ MakeBin(p) \/ MakeLedger(p)
  <2>1. UNCHANGED site
    BY <1>2, <1>3, <1>4, <1>6, <1>10 DEF MakeTree, MakeBin, MakeLedger
  <2> QED
    BY <1>7, <1>10, <2>1 DEF MakeTree, MakeBin, MakeLedger, MakeDir
<1>11. CASE OwnTree(p) \/ OwnBin(p) \/ OwnLedger(p)
  <2>1. /\ eff[p].service_user = owner["tree"]
        /\ OwnerFor(eff[p]) = owner[config.bin_dir] /\ OwnerFor(eff[p]) = owner["ledger"]
    BY <1>2 DEF Agrees
  <2>2. UNCHANGED site
    <3> HIDE DEF Goto, ProcOK, SetupProcOK, Running
    <3>1. CASE OwnTree(p)
      BY <1>3, <1>5, <2>1, <3>1 DEF OwnTree
    <3>2. CASE OwnBin(p)
      <4>1. OwnDir(p, "own bin", config.bin_dir, owner[config.bin_dir], "config")
        BY <1>2, <2>1, <3>2 DEF OwnBin, OwnDir, Chowned
      <4> QED
        BY <1>3, <1>5, <4>1
    <3>3. CASE OwnLedger(p)
      BY <1>3, <1>5, <2>1, <3>3 DEF OwnLedger
    <3> QED
      BY <1>11, <3>1, <3>2, <3>3
  <2> QED
    BY <1>7, <1>11, <2>2 DEF OwnTree, OwnBin, OwnLedger, OwnDir
<1>12. CASE WriteConfig(p)
  <2>1. UNCHANGED site
    BY <1>2, <1>12 DEF WriteConfig, site
  <2> QED
    BY <1>7, <1>12, <2>1 DEF WriteConfig
<1>13. CASE WriteProfile(p)
  <2>1. UNCHANGED site
    BY <1>2, <1>13 DEF WriteProfile, site, Agrees
  <2>2. pc'[p] = "idle"
    BY <1>2, <1>13 DEF WriteProfile, Done, Finish
  <2> QED
    BY <1>8, <2>1, <2>2
<1>14. ~ (UserAdd(p) \/ AddGroup(p) \/ WriteSudoers(p) \/ RepairTree(p) \/ RepairInTree(p)
             \/ RepairBin(p) \/ RepairInBin(p))
  BY <1>2 DEF RepairPCs, UserAdd, AddGroup, WriteSudoers, RepairTree, RepairInTree,
              RepairBin, RepairInBin, RepairDir
<1> QED
  BY <1>9, <1>10, <1>11, <1>12, <1>13, <1>14 DEF SetupStep

\* A setup that ends well, and that nobody ran beside, leaves such a site.
LEMMA DoneAgrees ==
    ASSUME TypeOK, SettingsInv, UsableInv, AloneInv, NEW p \in alone,
           WriteProfile(p) \/ WriteSudoers(p)
    PROVE  pc'[p] = "idle" /\ exit'[p] = "ok" => Agrees'
<1>1. p \in Procs
  BY DEF TypeOK, HistoryOK
<1>2. pc[p] \in {"profile", "sudoers"} /\ UNCHANGED <<accounts, owner, config>>
  BY DEF WriteProfile, WriteSudoers
<1>3. Settled(eff[p]) /\ eff[p].service_user \in accounts /\ FarAlong(p)
  BY <1>1, <1>2 DEF AloneInv, UsableInv, OnTheWay, SettingsInv, SetupPCs
<1>4. /\ config = eff[p] /\ owner["tree"] = eff[p].service_user
      /\ owner[eff[p].bin_dir] = OwnerFor(eff[p]) /\ owner["ledger"] = OwnerFor(eff[p])
  BY <1>2, <1>3 DEF FarAlong, AfterConfig
<1>5. profile' = config.bin_dir
  BY <1>2, <1>3, <1>4 DEF FarAlong, WriteProfile, WriteSudoers
<1> QED
  BY <1>2, <1>3, <1>4, <1>5 DEF Agrees, Settled, OwnerFor, IsSystemBin

----------------------------------------------------------------------------
(* RerunChangesNothing                                                     *)

\* While the site is settled, what setup there is is a repair for its settings.
SettledInv ==
    settled =>
        /\ Agrees
        /\ \A q \in Procs : pc[q] \in SetupPCs =>
              pc[q] \in RepairPCs /\ eff[q] = config /\ ~ IsSystemBin(config.bin_dir)

AgainInv == \A p \in again \cap alone : AgainOK(p)

\* How `settled' may come about.
LEMMA SettledBefore ==
    ASSUME TypeOK, NEW p \in Procs, SetupStep(p), settled'
    PROVE  \/ settled
           \/ /\ WriteProfile(p) \/ WriteSudoers(p)
              /\ p \in alone /\ pc'[p] = "idle" /\ exit'[p] = "ok"
<1> USE DEF history, Running
<1>1. CASE WriteProfile(p) \/ WriteSudoers(p)
  BY <1>1 DEF WriteProfile, WriteSudoers, Done, Finish, Goto, TypeOK
<1>2. CASE ~ (WriteProfile(p) \/ WriteSudoers(p))
  BY <1>2
     DEF SetupStep, Lookup, UserAdd, MakeTree, OwnTree, MakeBin, OwnBin, WriteConfig,
         MakeLedger, OwnLedger, AddGroup, RepairTree, RepairInTree, RepairBin,
         RepairInBin, MakeDir, OwnDir, RepairDir
<1> QED
  BY <1>1, <1>2

\* A setup or a repair that starts leaves the site alone; on a settled site it is
\* a repeated setup, or unsettles it, or is a repair for the settings in the file.
LEMMA StartOnSettled ==
    ASSUME TypeOK, NEW p \in Procs, Start(p)
    PROVE  /\ UNCHANGED site
           /\ settled' => settled
           /\ pc'[p] \in SetupPCs /\ settled' =>
                 pc'[p] \in RepairPCs /\ eff'[p] = config /\ ~ IsSystemBin(config.bin_dir)
           /\ pc'[p] \in SetupPCs /\ p \in again' =>
                 /\ settled /\ pc'[p] = "lookup"
                 /\ Settled(config) => eff'[p] = config /\ admins'[p] = "none"
<1> USE TypeParts DEF Goto, ProcOK, SetupProcOK
<1>1. PICK request \in Requests, env \in Envs, uv \in FoundUv :
         StartWith(p, request, ResolveEffective(request, Resolve(env, config), uv),
                   Repeats(request, env, uv))
  BY DEF Start
<1> DEFINE e == ResolveEffective(request, Resolve(env, config), uv)
           repeats == Repeats(request, env, uv)
<1>2. request \in CommandLines /\ env \in Environments /\ uv \in UvPaths \cup {Unset}
      /\ config \in Files
  BY SetupAssumption DEF SiteOK
<1>3. Settled(config) /\ repeats => e = config
  BY <1>2, RepeatsTheFile DEF Repeats
<1>4. repeats => request.group = "none"
  BY DEF Repeats
<1>5. UNCHANGED site
  BY DEF Start
<1>6. StartWith(p, request, e, repeats)
  BY <1>1
<1> HIDE DEF e, repeats
<1>7. CASE e.uv_path = Unset
  <2>1. pc'[p] = "idle" /\ settled' = settled
    BY <1>6, <1>7 DEF StartWith, Finish
  <2> QED
    BY <1>5, <2>1 DEF SetupPCs
<1>8. CASE e.uv_path # Unset /\ request.repair
  <2>1. settled' = (settled /\ e = config /\ ~ IsSystemBin(e.bin_dir))
    BY <1>6, <1>8, Zenon DEF StartWith
  <2>2. pc'[p] \in {"idle", "repair tree"} /\ (pc'[p] = "repair tree" => eff'[p] = e)
        /\ p \notin again'
    BY <1>6, <1>8 DEF StartWith, Finish
  <2> QED
    BY <1>5, <2>1, <2>2 DEF RepairPCs, SetupPCs
<1>9. CASE e.uv_path # Unset /\ ~ request.repair
  <2>1. ~ settled' /\ pc'[p] = "lookup" /\ eff'[p] = e /\ admins'[p] = request.group
    BY <1>6, <1>9 DEF StartWith
  <2>2. p \in again' => settled /\ repeats
    BY <1>6, <1>9 DEF StartWith
  <2> QED
    BY <1>3, <1>4, <1>5, <2>1, <2>2
<1> QED
  BY <1>7, <1>8, <1>9

\* A step that is none of setup's steps leaves what Agrees speaks of alone.
LEMMA SiteStands ==
    ASSUME TypeOK, NEW p \in Procs, Refuse(p) \/ Start(p) \/ Stop(p) \/ CommandStep(p)
    PROVE  UNCHANGED <<accounts, owner, config, profile>>
BY CommandNotInSetup DEF Refuse, Start, Stop, site

LEMMA SettledStep ==
    ASSUME TypeOK, SettingsInv, UsableInv, AloneInv, SettledInv, [AllNext]_allVars
    PROVE  SettledInv'
<1> SUFFICES ASSUME settled'
             PROVE  (/\ Agrees
                     /\ \A q \in Procs : pc[q] \in SetupPCs =>
                           /\ pc[q] \in RepairPCs /\ eff[q] = config
                           /\ ~ IsSystemBin(config.bin_dir))'
  BY DEF SettledInv
<1>1. CASE UNCHANGED allVars
  BY <1>1, AgreesStays DEF allVars, vars, site, proc, history, SettledInv, IsSystemBin
<1>2. ASSUME NEW p \in Procs, SetupNext(p) \/ CommandStep(p), settled,
             UNCHANGED <<accounts, owner, config, profile>>,
             pc'[p] \in SetupPCs => /\ pc'[p] \in RepairPCs /\ eff'[p] = config
                                    /\ ~ IsSystemBin(config.bin_dir)
      PROVE  SettledInv'
  <2>1. Agrees'
    BY <1>2, AgreesStays DEF SettledInv
  <2>2. ASSUME NEW q \in Procs, pc'[q] \in SetupPCs
        PROVE  pc'[q] \in RepairPCs /\ eff'[q] = config /\ ~ IsSystemBin(config.bin_dir)
    <3>1. CASE q = p
      BY <1>2, <2>2, <3>1
    <3>2. CASE q # p
      BY <1>2, <2>2, <3>2, OthersStand DEF SettledInv
    <3> QED
      BY <3>1, <3>2
  <2> QED
    BY <1>2, <2>1, <2>2 DEF SettledInv, IsSystemBin
<1>3. ASSUME NEW p \in Procs, SetupStep(p)  PROVE SettledInv'
  <2>1. CASE settled
    <3>1. pc[p] \in SetupPCs
      BY <1>3
         DEF SetupPCs, SetupStep, Lookup, UserAdd, MakeTree, OwnTree, MakeBin, OwnBin,
             WriteConfig, MakeLedger, OwnLedger, WriteProfile, AddGroup, WriteSudoers,
             RepairTree, RepairInTree, RepairBin, RepairInBin, MakeDir, OwnDir, RepairDir
    <3>2. /\ Agrees /\ pc[p] \in RepairPCs /\ eff[p] = config
          /\ ~ IsSystemBin(config.bin_dir)
      BY <2>1, <3>1 DEF SettledInv
    <3>3. /\ UNCHANGED <<accounts, owner, config, profile>>
          /\ \/ pc'[p] = "idle"
             \/ pc'[p] \in RepairPCs /\ eff'[p] = eff[p]
      BY <1>3, <3>2, RepairKeeps
    <3> QED
      BY <1>2, <1>3, <2>1, <3>2, <3>3 DEF SetupNext, SetupPCs
  <2>2. CASE ~ settled
    <3>1. /\ WriteProfile(p) \/ WriteSudoers(p)
          /\ p \in alone /\ pc'[p] = "idle" /\ exit'[p] = "ok"
      BY <1>3, <2>2, SettledBefore
    <3>2. Agrees'
      BY <3>1, DoneAgrees
    <3>3. \A q \in Procs : pc'[q] = "idle"
      BY <1>3, <3>1, OthersStand DEF AloneInv, Undisturbed, SetupNext
    <3> QED
      BY <3>2, <3>3 DEF SettledInv, SetupPCs
  <2> QED
    BY <2>1, <2>2
<1>4. ASSUME NEW p \in Procs, Start(p)  PROVE SettledInv'
  BY <1>2, <1>4, StartOnSettled DEF SetupNext, site
<1>5. ASSUME NEW p \in Procs, Refuse(p) \/ Stop(p)  PROVE SettledInv'
  <2>1. pc'[p] = "idle" /\ settled' = settled
    BY <1>5, TypeParts DEF Refuse, Stop, Finish, Goto, ProcOK, SetupProcOK, history
  <2> QED
    BY <1>2, <1>5, <2>1, SiteStands DEF SetupNext, SetupPCs
<1>6. ASSUME NEW p \in Procs, CommandStep(p)  PROVE SettledInv'
  <2>1. settled' = settled
    BY <1>6 DEF CommandStep, Invoke, Startup, Gate, ReadMode, RunUv, RunUvFails, Link,
                WriteLedger, Running, history
  <2> QED
    BY <1>2, <1>6, <2>1, SiteStands, CommandNotInSetup
<1> QED
  BY <1>1, <1>3, <1>4, <1>5, <1>6 DEF AllNext, SetupNext, SettledInv

LEMMA AgainStep ==
    ASSUME TypeOK, AloneInv, SettledInv, AgainInv, [AllNext]_allVars
    PROVE  AgainInv'
<1>1. CASE UNCHANGED allVars
  BY <1>1, AgreesStays DEF allVars, vars, site, proc, history, AgainInv, AgainOK
<1>2. ASSUME NEW p \in Procs, SetupNext(p) \/ CommandStep(p)  PROVE AgainInv'
  <2> SUFFICES ASSUME NEW q \in again' \cap alone', pc'[q] \in SetupPCs
               PROVE  AgainOK(q)'
    BY DEF AgainInv, AgainOK
  <2>1. q = p
    <3>1. ASSUME q # p  PROVE FALSE
      <4>1. q \in alone /\ pc[p] # "idle"
        BY <1>2, <3>1, StartsAlone
      <4> QED
        BY <3>1, <4>1, <1>2 DEF AloneInv, Undisturbed
    <3> QED
      BY <3>1
  <2>2. CASE Start(p)
    <3>1. /\ UNCHANGED site /\ settled /\ pc'[p] = "lookup"
          /\ Settled(config) => eff'[p] = config /\ admins'[p] = "none"
      BY <2>1, <2>2, StartOnSettled
    <3>2. Agrees /\ Agrees' /\ Settled(config)
      BY <3>1, AgreesStays DEF SettledInv, site, Agrees
    <3> QED
      BY <2>1, <3>1, <3>2 DEF AgainOK, RepairPCs, site
  <2>3. CASE SetupStep(p)
    <3>1. p \in again \cap alone
      <4>1. UNCHANGED <<again, alone>>
        BY <2>3
           DEF SetupStep, Lookup, UserAdd, MakeTree, OwnTree, MakeBin, OwnBin,
               WriteConfig, MakeLedger, OwnLedger, WriteProfile, AddGroup, WriteSudoers,
               RepairTree, RepairInTree, RepairBin, RepairInBin, MakeDir, OwnDir,
               RepairDir, Done, Running, history
      <4> QED
        BY <2>1, <4>1
    <3> QED
      BY <2>1, <2>3, <3>1, RepeatKeeps DEF AgainInv
  <2>4. CASE Refuse(p) \/ Stop(p)
    <3>1. pc'[p] = "idle"
      BY <2>4, TypeParts DEF Refuse, Stop, Finish, Goto, ProcOK, SetupProcOK
    <3> QED
      BY <2>1, <3>1 DEF SetupPCs
  <2>5. CASE CommandStep(p)
    BY <2>1, <2>5, CommandNotInSetup
  <2> QED
    BY <1>2, <2>2, <2>3, <2>4, <2>5 DEF SetupNext
<1> QED
  BY <1>1, <1>2 DEF AllNext

LEMMA SettledInvariant ==
    AllSpec => [](TypeOK /\ SettingsInv /\ UsableInv /\ AloneInv /\ SettledInv /\ AgainInv)
<1>1. AllInit => SettledInv /\ AgainInv
  BY DEF AllInit, Init, SettledInv, AgainInv
<1>2. TypeOK /\ SettingsInv /\ UsableInv /\ AloneInv /\ SettledInv /\ AgainInv
      /\ [AllNext]_allVars => SettledInv' /\ AgainInv'
  BY SettledStep, AgainStep
<1> QED
  BY <1>1, <1>2, AllInvariant, PTL DEF AllSpec

\* A setup without options on a settled site, that nobody runs beside, is a
\* series of steps that change nothing.
THEOREM RerunIsQuiet == AllSpec => RerunChangesNothing
<1>1. ASSUME TypeOK, AgainInv
      PROVE  \A p \in again \cap alone : SetupStep(p) => UNCHANGED site
  BY <1>1, RepeatKeeps, TypeParts DEF AgainInv, HistoryOK
<1>2. TypeOK /\ AgainInv
         => [\A p \in again \cap alone : SetupStep(p) => UNCHANGED site]_allVars
  BY <1>1
<1> QED
  BY <1>2, SettledInvariant, PTL DEF RerunChangesNothing

----------------------------------------------------------------------------
(* NoHalfWay                                                               *)

ModeFor(e) == IF IsSystemBin(e.bin_dir) THEN "system-bin" ELSE "rootless"

\* Where a command that was promised its end stands: it reads what the site says,
\* the same at each of its readings, and may write where that mode makes it write.
InsideCommand(p) ==
    /\ pc[p] \in CommandPCs =>
          /\ Agrees /\ cmd[p].env["bin_dir"] = Unset
          /\ state[p] = "complete" /\ uid[p] \in {"root", config.service_user}
    /\ pc[p] \in {"mode", "uv", "link", "ledger"} =>
          eff[p] = config /\ (IsSystemBin(config.bin_dir) => uid[p] = "root")
    /\ pc[p] \in {"link", "ledger"} \/ (pc[p] = "uv" /\ cmd[p].verb = "suffixed") =>
          mode[p] = ModeFor(config)

PromiseOK(p) ==
    exit[p] \notin {"partial", "tripwire", "denied"} /\ InsideCommand(p)

PromiseInv == \A p \in promised \cap alone : PromiseOK(p)

\* The mode that is read on a site that agrees with itself is that of its settings.
LEMMA ModeOfSite ==
    ASSUME Agrees
    PROVE  /\ DetectMode(config) = ModeFor(config)
           /\ SuffixMode(config) = ModeFor(config)
<1>1. /\ config.service_user \in accounts /\ config.service_user \in ServiceUsers
      /\ owner[config.bin_dir] = OwnerFor(config)
  BY DEF Agrees, Settled
<1>2. CASE IsSystemBin(config.bin_dir)
  BY <1>1, <1>2, ConfigurationAssumption, SetupAssumption
     DEF OwnerFor, DetectMode, SuffixMode, ModeFor
<1>3. CASE ~ IsSystemBin(config.bin_dir)
  BY <1>1, <1>3, ConfigurationAssumption, SetupAssumption
     DEF OwnerFor, DetectMode, SuffixMode, ModeFor
<1> QED
  BY <1>2, <1>3

LEMMA CommandPromise ==
    ASSUME TypeOK, NEW p \in Procs, CommandStep(p), ~ Invoke(p), PromiseOK(p)
    PROVE  PromiseOK(p)'
<1> USE TypeParts DEF Goto, ProcOK, SetupProcOK, command, Running
<1>1. pc[p] \in CommandPCs
  BY DEF CommandPCs, CommandStep, Startup, Gate, ReadMode, RunUv, RunUvFails, Link,
         WriteLedger
<1>2. /\ Agrees /\ cmd[p].env["bin_dir"] = Unset
      /\ state[p] = "complete" /\ uid[p] \in {"root", config.service_user}
  BY <1>1 DEF PromiseOK, InsideCommand
<1>3. UNCHANGED <<accounts, owner, config, profile>> /\ Agrees'
  BY <1>2, SiteStands, AgreesStays
<1>4. /\ ModeFor(config)' = ModeFor(config)
      /\ (IsSystemBin(config.bin_dir))' = IsSystemBin(config.bin_dir)
  BY <1>3 DEF ModeFor, IsSystemBin
<1>5. Settings(p) = config
  BY <1>2, ReadsTheFile, SetupAssumption DEF Settings, Agrees, SiteOK, Commands
<1>6. ASSUME NEW code, CommandEnds(p, code), code \notin {"partial", "tripwire", "denied"}
      PROVE  PromiseOK(p)'
  BY <1>6 DEF CommandEnds, Finish, PromiseOK, InsideCommand, CommandPCs
<1>7. CASE Startup(p)
  <2>1. uid'[p] \in {"root", config.service_user}
    BY <1>2, <1>5, <1>7 DEF Startup
  <2>2. pc'[p] = "gate" /\ UNCHANGED <<cmd, state, exit>>
    BY <1>7 DEF Startup
  <2> QED
    BY <1>2, <1>3, <2>1, <2>2 DEF PromiseOK, InsideCommand
<1>8. CASE Gate(p)
  <2>1. CASE CommandEnds(p, "error")
    BY <1>6, <2>1
  <2>2. CASE /\ ~ Refused(DetectMode(Settings(p)), uid[p])
             /\ eff' = [eff EXCEPT ![p] = Settings(p)]
             /\ Goto(p, IF cmd[p].verb = "suffixed" THEN "mode" ELSE "uv")
             /\ UNCHANGED <<admins, exit, command>>
    <3>1. IsSystemBin(config.bin_dir) => uid[p] = "root"
      BY <1>2, <1>5, <2>2, ModeOfSite DEF Refused, ModeFor
    <3>2. /\ eff'[p] = config
          /\ pc'[p] \in {"mode", "uv"} /\ (pc'[p] = "uv" => cmd[p].verb # "suffixed")
      BY <1>5, <2>2
    <3> QED
      BY <1>2, <1>3, <1>4, <2>2, <3>1, <3>2 DEF PromiseOK, InsideCommand
  <2> QED
    BY <1>8, <2>1, <2>2 DEF Gate
<1>9. CASE ReadMode(p)
  <2>1. eff[p] = config /\ (IsSystemBin(config.bin_dir) => uid[p] = "root")
    BY <1>9 DEF ReadMode, PromiseOK, InsideCommand
  <2>2. mode'[p] = ModeFor(config)
    BY <1>2, <1>9, <2>1, ModeOfSite DEF ReadMode, SuffixMode
  <2>3. pc'[p] = "uv" /\ UNCHANGED <<eff, exit, cmd, uid, state>>
    BY <1>9 DEF ReadMode
  <2> QED
    BY <1>2, <1>3, <1>4, <2>1, <2>2, <2>3 DEF PromiseOK, InsideCommand
<1>10. CASE RunUv(p)
  <2>1. CASE CommandEnds(p, "ok")
    BY <1>6, <2>1
  <2>2. CASE cmd[p].verb = "suffixed" /\ Goto(p, "link") /\ UNCHANGED <<eff, admins, exit, command>>
    BY <1>2, <1>3, <1>4, <1>10, <2>2 DEF RunUv, PromiseOK, InsideCommand
  <2> QED
    BY <1>10, <2>1, <2>2 DEF RunUv
<1>11. CASE RunUvFails(p)
  BY <1>6, <1>11 DEF RunUvFails
<1>12. ASSUME pc[p] \in {"link", "ledger"}
       PROVE  /\ eff[p] = config /\ mode[p] = ModeFor(config)
              /\ mode[p] = "system-bin" => uid[p] = "root"
              /\ CanWrite(uid[p], config.bin_dir) /\ CanWrite(uid[p], "ledger")
  <2>1. /\ eff[p] = config /\ mode[p] = ModeFor(config)
        /\ IsSystemBin(config.bin_dir) => uid[p] = "root"
    BY <1>12 DEF PromiseOK, InsideCommand
  <2>2. owner[config.bin_dir] = OwnerFor(config) /\ owner["ledger"] = OwnerFor(config)
        /\ config.service_user \in ServiceUsers
    BY <1>2 DEF Agrees, Settled
  <2>3. uid[p] \in {"root", OwnerFor(config)} /\ OwnerFor(config) # "missing"
    BY <1>2, <2>1, <2>2, SetupAssumption DEF OwnerFor
  <2> QED
    BY <2>1, <2>2, <2>3 DEF CanWrite, ModeFor
<1>13. CASE Link(p)
  <2>1. pc[p] = "link" /\ pc'[p] = "ledger" /\ UNCHANGED <<eff, exit, cmd, uid, mode>>
    BY <1>13 DEF Link
  <2>2. state'[p] = "complete"
    BY <1>2, <1>12, <1>13, <2>1 DEF Link
  <2> QED
    BY <1>2, <1>3, <1>4, <1>12, <2>1, <2>2 DEF PromiseOK, InsideCommand
<1>14. CASE WriteLedger(p)
  <2>1. ~ Trips(p) /\ CanWrite(uid[p], "ledger")
    BY <1>12, <1>14 DEF WriteLedger, Trips
  <2>2. CommandEnds(p, "ok")
    BY <1>2, <1>14, <2>1 DEF WriteLedger
  <2> QED
    BY <1>6, <2>2
<1> QED
  BY <1>7, <1>8, <1>9, <1>10, <1>11, <1>13, <1>14 DEF CommandStep

\* What a step of setup does to the process that takes it.
LEMMA SetupNotInCommand ==
    ASSUME TypeOK, NEW p \in Procs, SetupNext(p)
    PROVE  /\ pc[p] \notin CommandPCs /\ pc'[p] \notin CommandPCs
           /\ exit'[p] \in {"none", "ok", "error", "raised", "died"} \/ pc[p] # "idle"
           /\ exit'[p] \in {exit[p], "none", "ok", "error", "raised", "died"}
<1> USE TypeParts DEF Goto, ProcOK, SetupProcOK, CommandPCs
<1>1. CASE Start(p)
  <2>1. PICK request \in CommandLines, e \in Files, repeats \in BOOLEAN :
              StartWith(p, request, e, repeats)
    BY <1>1, StartEffective
  <2>2. pc[p] = "idle"
    BY <1>1 DEF Start
  <2> QED
    BY <2>1, <2>2 DEF StartWith, Finish
<1>2. CASE Refuse(p)
  BY <1>2 DEF Refuse, Finish
<1>3. CASE Stop(p)
  BY <1>3 DEF Stop, Finish, SetupPCs
<1>4. CASE SetupStep(p)
  BY <1>4
     DEF SetupStep, Lookup, UserAdd, MakeTree, OwnTree, MakeBin, OwnBin, WriteConfig,
         MakeLedger, OwnLedger, WriteProfile, AddGroup, WriteSudoers, RepairTree,
         RepairInTree, RepairBin, RepairInBin, MakeDir, OwnDir, RepairDir, Done,
         Finish, Running
<1> QED
  BY <1>1, <1>2, <1>3, <1>4 DEF SetupNext

\* A link that failed is remembered only until the ledger is written.
StateInv == \A p \in Procs : pc[p] # "ledger" => state[p] = "complete"

LEMMA StateStep ==
    ASSUME TypeOK, StateInv, [AllNext]_allVars
    PROVE  StateInv'
<1> USE TypeParts DEF StateInv, ProcOK, SetupProcOK, Goto
<1>1. CASE UNCHANGED allVars
  BY <1>1 DEF allVars, vars, proc, command
<1>2. ASSUME NEW p \in Procs, SetupNext(p), UNCHANGED <<command, promised>>  PROVE StateInv'
  <2>1. pc[p] # "ledger" /\ \A q \in Procs \ {p} : pc'[q] = pc[q]
    BY <1>2, SetupNotInCommand, OthersStand DEF CommandPCs
  <2> QED
    BY <1>2, <2>1 DEF command
<1>3. ASSUME NEW p \in Procs, CommandStep(p)  PROVE StateInv'
  <2>1. \A q \in Procs \ {p} : pc'[q] = pc[q]
    BY <1>3, OthersStand
  <2>2. ASSUME NEW code, CommandEnds(p, code)  PROVE StateInv'
    BY <2>1, <2>2 DEF CommandEnds
  <2>3. ASSUME UNCHANGED state, pc[p] # "ledger"  PROVE StateInv'
    BY <2>1, <2>3
  <2>4. CASE Link(p)
    BY <2>1, <2>4 DEF Link
  <2>5. CASE ~ Link(p)
    BY <1>3, <2>2, <2>3, <2>5
       DEF CommandStep, Invoke, Startup, Gate, ReadMode, RunUv, RunUvFails, WriteLedger,
           command
  <2> QED
    BY <2>4, <2>5
<1> QED
  BY <1>1, <1>2, <1>3 DEF AllNext

LEMMA InvokePromise ==
    ASSUME TypeOK, SettledInv, StateInv, NEW p \in Procs, Invoke(p), p \in promised'
    PROVE  PromiseOK(p)'
<1> USE TypeParts DEF Goto, ProcOK, SetupProcOK
<1>1. PICK who \in Callers, verb \in Verbs, asRoot \in BOOLEAN, env \in Envs :
        /\ uid' = [uid EXCEPT ![p] = who]
        /\ cmd' = [cmd EXCEPT ![p] = [verb |-> verb, asRoot |-> asRoot, env |-> env]]
        /\ promised' = IF /\ settled /\ p \in alone' /\ env["bin_dir"] = Unset
                          /\ who \in {"root", config.service_user}
                       THEN promised \cup {p} ELSE promised \ {p}
  BY DEF Invoke
<1>2. settled /\ env["bin_dir"] = Unset /\ who \in {"root", config.service_user}
  BY <1>1
<1>3. /\ pc'[p] = "startup" /\ exit'[p] = "none"
      /\ UNCHANGED <<accounts, owner, config, profile, state>>
      /\ state[p] = "complete"
  BY DEF Invoke, site, StateInv
<1>4. Agrees'
  BY <1>2, <1>3, AgreesStays DEF SettledInv
<1>5. cmd'[p].env["bin_dir"] = Unset /\ uid'[p] \in {"root", config.service_user}
  BY <1>1, <1>2
<1> QED
  BY <1>3, <1>4, <1>5 DEF PromiseOK, InsideCommand

LEMMA PromiseStep ==
    ASSUME TypeOK, AloneInv, SettledInv, StateInv, PromiseInv, [AllNext]_allVars
    PROVE  PromiseInv'
<1>1. CASE UNCHANGED allVars
  BY <1>1, AgreesStays
     DEF allVars, vars, site, proc, history, command, PromiseInv, PromiseOK,
         InsideCommand, ModeFor, IsSystemBin
<1>2. ASSUME NEW p \in Procs, SetupNext(p) \/ CommandStep(p),
             p \in promised' \cap alone' => PromiseOK(p)'
      PROVE  PromiseInv'
  <2>1. ASSUME NEW q \in alone', q # p  PROVE FALSE
    <3>1. q \in alone /\ pc[p] # "idle"
      BY <1>2, <2>1, StartsAlone
    <3> QED
      BY <1>2, <2>1, <3>1 DEF AloneInv, Undisturbed
  <2> QED
    BY <1>2, <2>1 DEF PromiseInv
<1>3. ASSUME NEW p \in Procs, pc[p] # "idle", SetupNext(p) \/ CommandStep(p),
             UNCHANGED promised, p \in promised' \cap alone'
      PROVE  PromiseOK(p)
  BY <1>3, StartsAlone DEF PromiseInv
<1>4. ASSUME NEW p \in Procs, SetupNext(p), UNCHANGED <<command, promised>>
      PROVE  PromiseInv'
  <2>1. /\ pc'[p] \notin CommandPCs
        /\ exit'[p] \in {"none", "ok", "error", "raised", "died"} \/ pc[p] # "idle"
        /\ exit'[p] \in {exit[p], "none", "ok", "error", "raised", "died"}
    BY <1>4, SetupNotInCommand
  <2>2. InsideCommand(p)'
    BY <2>1 DEF InsideCommand, CommandPCs
  <2>3. ASSUME p \in promised' \cap alone'
        PROVE  exit'[p] \notin {"partial", "tripwire", "denied"}
    BY <1>3, <1>4, <2>1, <2>3 DEF PromiseOK
  <2> QED
    BY <1>2, <1>4, <2>2, <2>3 DEF PromiseOK
<1>5. ASSUME NEW p \in Procs, Invoke(p)  PROVE PromiseInv'
  BY <1>2, <1>5, InvokePromise DEF CommandStep
<1>6. ASSUME NEW p \in Procs, CommandStep(p), ~ Invoke(p)  PROVE PromiseInv'
  <2>1. pc[p] # "idle" /\ UNCHANGED promised
    BY <1>6 DEF CommandStep, Startup, Gate, ReadMode, RunUv, RunUvFails, Link, WriteLedger
  <2> QED
    BY <1>2, <1>3, <1>6, <2>1, CommandPromise
<1> QED
  BY <1>1, <1>4, <1>5, <1>6 DEF AllNext

\* A command of root or of the service user, without overrides, that starts on a
\* settled site and that nobody runs beside does not fail for want of a privilege
\* once package code has run.
THEOREM NoHalfWayAlways == AllSpec => []NoHalfWay
<1>1. AllInit => StateInv /\ PromiseInv
  BY DEF AllInit, Init, StateInv, PromiseInv
<1>2. TypeOK /\ StateInv /\ [AllNext]_allVars => StateInv'
  BY StateStep
<1>3. TypeOK /\ AloneInv /\ SettledInv /\ StateInv /\ PromiseInv /\ [AllNext]_allVars
         => PromiseInv'
  BY PromiseStep
<1>4. PromiseInv => NoHalfWay
  BY DEF PromiseInv, PromiseOK, NoHalfWay
<1> QED
  BY <1>1, <1>2, <1>3, <1>4, SettledInvariant, PTL DEF AllSpec
=============================================================================
