-------------------------- MODULE UsableSite_proofs --------------------------
(***************************************************************************)
(* What config.toml names is there, and what a setup or a repair that says *)
(* it is done has done: for any number of setups and commands that run at  *)
(* once and stop anywhere.                                                 *)
(***************************************************************************)
EXTENDS Setup_proofs

\* Only the process that takes a step moves.
LEMMA OthersStand ==
    ASSUME TypeOK, NEW p \in Procs, SetupNext(p) \/ CommandStep(p),
           NEW q \in Procs, q # p
    PROVE  pc'[q] = pc[q] /\ eff'[q] = eff[q]
<1> USE TypeParts DEF Goto, ProcOK, SetupProcOK
<1>1. ASSUME NEW code, Finish(p, code)  PROVE pc'[q] = pc[q] /\ eff'[q] = eff[q]
  BY <1>1 DEF Finish
<1>2. ASSUME NEW label, Goto(p, label), UNCHANGED eff
      PROVE  pc'[q] = pc[q] /\ eff'[q] = eff[q]
  BY <1>2
<1>3. CASE SetupStep(p)
  BY <1>1, <1>2, <1>3
     DEF SetupStep, Lookup, UserAdd, MakeTree, OwnTree, MakeBin, OwnBin, WriteConfig,
         MakeLedger, OwnLedger, WriteProfile, AddGroup, WriteSudoers, RepairTree,
         RepairInTree, RepairBin, RepairInBin, MakeDir, OwnDir, RepairDir, Done, Running
<1>4. CASE Start(p)
  <2>1. PICK request \in CommandLines, e \in Files, repeats \in BOOLEAN :
              StartWith(p, request, e, repeats)
    BY <1>4, StartEffective
  <2> QED
    BY <2>1, <1>1 DEF StartWith
<1>5. CASE Refuse(p) \/ Stop(p)
  BY <1>1, <1>5 DEF Refuse, Stop
<1>6. CASE CommandStep(p)
  <2>1. CASE Gate(p)
    BY <1>1, <2>1 DEF Gate, CommandEnds
  <2> QED
    BY <1>1, <1>2, <1>6, <2>1
       DEF CommandStep, Invoke, Startup, ReadMode, RunUv, RunUvFails, Link,
           WriteLedger, CommandEnds, Running, command
<1> QED
  BY <1>3, <1>4, <1>5, <1>6 DEF SetupNext

\* The positions of a command and those of a setup are apart.
LEMMA CommandNotInSetup ==
    ASSUME TypeOK, NEW p \in Procs, CommandStep(p)
    PROVE  pc'[p] \notin SetupPCs /\ UNCHANGED <<accounts, owner, config, profile>>
<1> USE TypeParts DEF Goto, ProcOK, SetupProcOK, site
<1>1. ASSUME NEW label \in CommandPCs \cup {"idle"}, Goto(p, label)
      PROVE  pc'[p] \notin SetupPCs
  BY <1>1 DEF SetupPCs, CommandPCs
<1>2. CASE Gate(p)
  <2>1. \E label \in {"idle", "mode", "uv"} : Goto(p, label)
    BY <1>2 DEF Gate, CommandEnds, Finish
  <2> QED
    BY <1>1, <1>2, <2>1 DEF Gate, CommandPCs
<1>3. CASE Invoke(p) \/ Startup(p) \/ ReadMode(p) \/ Link(p)
  BY <1>1, <1>3 DEF Invoke, Startup, ReadMode, Link, CommandPCs
<1>4. CASE RunUv(p) \/ RunUvFails(p) \/ WriteLedger(p)
  BY <1>1, <1>4 DEF RunUv, RunUvFails, WriteLedger, CommandEnds, Finish, CommandPCs
<1> QED
  BY <1>2, <1>3, <1>4 DEF CommandStep

----------------------------------------------------------------------------
(* ConfigNamesOwnedSite                                                   *)

TreeReady   == owner["tree"] \in accounts
BinReady(d) == IF IsSystemBin(d) THEN owner[d] # "missing" ELSE owner[d] \in accounts

\* Once the config is written its bin_dir is ready, and on the way there each
\* directory is ready from the chown on.  Nothing that is ready is lost again:
\* accounts are not removed, and whoever chowns is an account or, in bin_dir, root.
ConfigUsable ==
    config # NoFile => /\ Settled(config) /\ config.service_user \in accounts
                       /\ TreeReady /\ BinReady(config.bin_dir)

OnTheWay(p) ==
    /\ pc[p] \in SetupPCs \ {"lookup", "useradd"} => eff[p].service_user \in accounts
    /\ pc[p] \in {"make bin", "own bin", "config"} => TreeReady
    /\ pc[p] = "config" => BinReady(eff[p].bin_dir)

UsableInv == ConfigUsable /\ \A p \in Procs : OnTheWay(p)

LEMMA ReadyStays ==
    ASSUME TypeOK, SettingsInv, UsableInv, NEW p \in Procs, SetupNext(p) \/ CommandStep(p)
    PROVE  /\ accounts \subseteq accounts'
           /\ TreeReady => TreeReady'
           /\ \A d \in BinDirs : BinReady(d) => BinReady(d)'
<1> USE TypeParts, SetupAssumption, ConfigurationAssumption
<1>1. ASSUME accounts \subseteq accounts', owner' = owner
      PROVE  /\ TreeReady => TreeReady'
             /\ \A d \in BinDirs : BinReady(d) => BinReady(d)'
  BY <1>1 DEF TreeReady, BinReady, IsSystemBin
<1>2. CASE CommandStep(p)
  BY <1>1, <1>2, CommandNotInSetup
<1>3. CASE Start(p) \/ Refuse(p) \/ Stop(p)
  BY <1>1, <1>3 DEF Start, Refuse, Stop, site
<1>4. CASE SetupStep(p)
  <2>1. CASE UserAdd(p)
    BY <1>1, <2>1 DEF UserAdd
  <2>2. CASE \/ Lookup(p) \/ WriteConfig(p) \/ WriteProfile(p) \/ AddGroup(p)
             \/ WriteSudoers(p) \/ RepairInTree(p) \/ RepairInBin(p)
    BY <1>1, <2>2 DEF Lookup, WriteConfig, WriteProfile, AddGroup, WriteSudoers,
                      RepairInTree, RepairInBin, site
  <2>3. CASE MakeTree(p) \/ MakeBin(p) \/ MakeLedger(p)
    <3>1. PICK dir \in Dirs : /\ owner' = [owner EXCEPT ![dir] =
                                             IF @ = "missing" THEN "root" ELSE @]
                              /\ UNCHANGED accounts
      <4>1. eff[p].bin_dir \in BinDirs \/ ~ MakeBin(p)
        BY DEF MakeBin, MakeDir, SettingsInv, Settled, SetupPCs
      <4> QED
        BY <2>3, <4>1 DEF MakeTree, MakeBin, MakeLedger, MakeDir, Dirs
    <3>2. "missing" \notin accounts
      BY DEF SiteOK
    <3> QED
      BY <3>1, <3>2 DEF TreeReady, BinReady, SiteOK, Dirs, IsSystemBin
  <2>4. ASSUME pc[p] \in SetupPCs \ {"lookup", "useradd"}
        PROVE  /\ eff[p].service_user \in accounts
               /\ eff[p].bin_dir \in BinDirs
    BY <2>4 DEF UsableInv, OnTheWay, SettingsInv, Settled
  <2>5. CASE OwnTree(p) \/ OwnLedger(p) \/ RepairTree(p)
    <3>1. /\ accounts' = accounts
          /\ owner'["tree"] \in {owner["tree"], eff[p].service_user}
          /\ \A d \in BinDirs : owner'[d] = owner[d]
      BY <2>5 DEF OwnTree, OwnLedger, RepairTree, RepairDir, OwnDir, Chowned, SiteOK, Dirs
    <3>2. eff[p].service_user \in accounts
      BY <2>5, <2>4 DEF OwnTree, OwnLedger, RepairTree, RepairDir, OwnDir, SetupPCs
    <3> QED
      BY <3>1, <3>2 DEF TreeReady, BinReady, IsSystemBin
  <2>6. CASE OwnBin(p) \/ RepairBin(p)
    <3>1. eff[p].service_user \in accounts /\ eff[p].bin_dir \in BinDirs
      BY <2>6, <2>4 DEF OwnBin, RepairBin, RepairDir, OwnDir, SetupPCs
    <3>2. "missing" \notin accounts
      BY DEF SiteOK
    <3>3. /\ accounts' = accounts
          /\ owner'["tree"] = owner["tree"]
          /\ \A d \in BinDirs :
                \/ owner'[d] = owner[d]
                \/ owner'[d] = eff[p].service_user
                \/ IsSystemBin(d) /\ owner'[d] = "root"
      <4>1. CASE OwnBin(p)
        BY <4>1, <3>1 DEF OwnBin, OwnDir, Chowned, OwnerFor, SiteOK, Dirs
      <4>2. CASE RepairBin(p)
        BY <4>2, <3>1 DEF RepairBin, RepairDir, SiteOK, Dirs
      <4> QED
        BY <2>6, <4>1, <4>2
    <3> QED
      BY <3>1, <3>2, <3>3 DEF TreeReady, BinReady, IsSystemBin
  <2> QED
    BY <1>4, <2>1, <2>2, <2>3, <2>5, <2>6 DEF SetupStep
<1> QED
  BY <1>2, <1>3, <1>4 DEF SetupNext

LEMMA ConfigUsableStep ==
    ASSUME TypeOK, SettingsInv, UsableInv, NEW p \in Procs, SetupNext(p) \/ CommandStep(p)
    PROVE  ConfigUsable'
<1>1. CASE UNCHANGED config
  <2>1. config # NoFile => config.bin_dir \in BinDirs
    BY DEF UsableInv, ConfigUsable, Settled
  <2>2. config # NoFile => BinReady(config.bin_dir)'
    BY <1>1, <2>1, ReadyStays DEF UsableInv, ConfigUsable, BinReady, IsSystemBin
  <2> QED
    BY <1>1, <2>1, <2>2, ReadyStays DEF UsableInv, ConfigUsable, BinReady, Settled, TreeReady
<1>2. CASE WriteConfig(p)
  <2>1. OnTheWay(p) /\ Settled(eff[p])
    BY <1>2 DEF UsableInv, SettingsInv, WriteConfig, SetupPCs
  <2>2. config' = eff[p] /\ UNCHANGED <<accounts, owner>> /\ pc[p] = "config"
    BY <1>2 DEF WriteConfig
  <2> QED
    BY <2>1, <2>2 DEF OnTheWay, ConfigUsable, BinReady, TreeReady, Settled, SetupPCs
<1>3. CASE CommandStep(p)
  BY <1>1, <1>3, CommandNotInSetup
<1> QED
  BY <1>1, <1>2, <1>3
     DEF SetupNext, SetupStep, Refuse, Start, Stop, site, Lookup, UserAdd, MakeTree,
         OwnTree, MakeBin, OwnBin, MakeLedger, OwnLedger, WriteProfile, AddGroup,
         WriteSudoers, RepairTree, RepairInTree, RepairBin, RepairInBin, MakeDir,
         OwnDir, RepairDir

\* The one that takes the step
LEMMA OnTheWayStep ==
    ASSUME TypeOK, SettingsInv, UsableInv, NEW p \in Procs, SetupNext(p) \/ CommandStep(p)
    PROVE  OnTheWay(p)'
<1> USE TypeParts, SetupAssumption, ConfigurationAssumption DEF Goto, ProcOK, SetupProcOK
<1>1. OnTheWay(p)
  BY DEF UsableInv
<1>2. CASE pc'[p] \notin SetupPCs \ {"lookup", "useradd"}
  BY <1>2 DEF OnTheWay, SetupPCs
<1>3. ASSUME NEW code, Finish(p, code)  PROVE OnTheWay(p)'
  BY <1>2, <1>3 DEF Finish, SetupPCs
<1>4. CASE Refuse(p) \/ Stop(p) \/ WriteSudoers(p) \/ RepairInBin(p)
  BY <1>3, <1>4 DEF Refuse, Stop, WriteSudoers, RepairInBin, Done
<1>5. CASE CommandStep(p)
  BY <1>2, <1>5, CommandNotInSetup
<1>6. CASE Start(p)
  <2>1. PICK request \in CommandLines, e \in Files, repeats \in BOOLEAN :
              StartWith(p, request, e, repeats)
    BY <1>6, StartEffective
  <2>2. CASE /\ Goto(p, "repair tree") /\ eff' = [eff EXCEPT ![p] = e]
             /\ e.service_user \in accounts
    BY <2>2, ReadyStays DEF OnTheWay
  <2>3. CASE Goto(p, "lookup")
    BY <2>3, <1>2
  <2> QED
    BY <2>1, <2>2, <2>3, <1>3 DEF StartWith
<1>7. CASE Lookup(p)
  BY <1>7 DEF Lookup, site, OnTheWay, Running
<1>8. CASE UserAdd(p)
  BY <1>3, <1>8 DEF UserAdd, OnTheWay
<1>9. ASSUME pc[p] \in SetupPCs \ {"lookup", "useradd"}, UNCHANGED eff
      PROVE  eff'[p].service_user \in accounts'
  BY <1>1, <1>9, ReadyStays DEF OnTheWay
<1>10. CASE \/ MakeTree(p) \/ WriteConfig(p) \/ MakeLedger(p) \/ OwnLedger(p)
            \/ AddGroup(p) \/ RepairTree(p) \/ RepairInTree(p) \/ RepairBin(p)
  BY <1>9, <1>10
     DEF OnTheWay, MakeTree, WriteConfig, MakeLedger, OwnLedger, AddGroup, RepairTree,
         RepairInTree, RepairBin, MakeDir, OwnDir, RepairDir, Running, SetupPCs
<1>11. CASE WriteProfile(p)
  BY <1>3, <1>9, <1>11 DEF OnTheWay, WriteProfile, Done, SetupPCs
<1>12. CASE OwnTree(p)
  <2>1. eff[p].service_user \in accounts
    BY <1>1, <1>12 DEF OnTheWay, OwnTree, OwnDir, SetupPCs
  <2>2. TreeReady'
    BY <1>12, <2>1 DEF OwnTree, OwnDir, Chowned, TreeReady, SiteOK, Dirs
  <2> QED
    BY <1>12, <2>1, <2>2 DEF OnTheWay, OwnTree, OwnDir, Running
<1>13. CASE MakeBin(p)
  <2>1. TreeReady'
    BY <1>1, <1>13, ReadyStays DEF OnTheWay, MakeBin, MakeDir
  <2> QED
    BY <1>9, <1>13, <2>1 DEF OnTheWay, MakeBin, MakeDir, Running, SetupPCs
<1>14. CASE OwnBin(p)
  <2>1. /\ TreeReady' /\ eff[p].service_user \in accounts
        /\ eff[p].bin_dir \in BinDirs
    BY <1>1, <1>14, ReadyStays DEF OnTheWay, OwnBin, OwnDir, SettingsInv, Settled, SetupPCs
  <2>2. owner'[eff[p].bin_dir] = OwnerFor(eff[p])
    BY <1>14, <2>1 DEF OwnBin, OwnDir, Chowned, SiteOK, Dirs
  <2>3. BinReady(eff[p].bin_dir)'
    <3>1. eff' = eff /\ accounts' = accounts
      BY <1>14 DEF OwnBin, OwnDir, Running
    <3> QED
      BY <2>1, <2>2, <3>1 DEF BinReady, OwnerFor, IsSystemBin
  <2> QED
    BY <1>14, <2>1, <2>3 DEF OnTheWay, OwnBin, OwnDir, Running, BinReady
<1> QED
  BY <1>4, <1>5, <1>6, <1>7, <1>8, <1>10, <1>11, <1>12, <1>13, <1>14
     DEF SetupNext, SetupStep

LEMMA UsableStep ==
    ASSUME TypeOK, SettingsInv, UsableInv, [AllNext]_allVars
    PROVE  UsableInv'
<1>1. CASE UNCHANGED allVars
  BY <1>1 DEF allVars, vars, site, proc, UsableInv, ConfigUsable, OnTheWay, TreeReady,
              BinReady, Settled
<1>2. ASSUME NEW p \in Procs, SetupNext(p) \/ CommandStep(p)  PROVE UsableInv'
  <2>1. ConfigUsable' /\ OnTheWay(p)'
    BY <1>2, ConfigUsableStep, OnTheWayStep
  <2>2. ASSUME NEW q \in Procs, q # p  PROVE OnTheWay(q)'
    <3>1. pc'[q] = pc[q] /\ eff'[q] = eff[q]
      BY <1>2, <2>2, OthersStand
    <3>2. pc[q] = "config" => eff[q].bin_dir \in BinDirs
      BY DEF SettingsInv, Settled, SetupPCs
    <3>3. OnTheWay(q)
      BY DEF UsableInv
    <3> QED
      BY <1>2, <3>1, <3>2, <3>3, ReadyStays DEF OnTheWay, BinReady
  <2> QED
    BY <2>1, <2>2 DEF UsableInv
<1> QED
  BY <1>1, <1>2 DEF AllNext

\* Whatever config.toml names is there at every moment, in the hands of a service
\* user that has an account, and not of root by accident: setups may run at once,
\* stop anywhere, change the service user or repair meanwhile.  Of which service
\* user it does not say: of two setups for different ones, the later chown wins.
THEOREM ConfigIsOwned == AllSpec => []ConfigNamesOwnedSite
<1>1. AllInit => UsableInv
  BY DEF AllInit, Init, UsableInv, ConfigUsable, OnTheWay, SetupPCs
<1>2. UsableInv => ConfigNamesOwnedSite
  BY DEF UsableInv, ConfigUsable, ConfigNamesOwnedSite, TreeReady, BinReady, Settled
<1>3. TypeOK /\ SettingsInv /\ UsableInv /\ [AllNext]_allVars => UsableInv'
  BY UsableStep
<1> QED
  BY <1>1, <1>2, <1>3, SetupTypeCorrect, PTL DEF AllSpec

\* Where only one service user is ever asked for, what config.toml names can be
\* used by the service user it names, at every moment, whatever setups and repairs
\* run at once or stop anywhere.
THEOREM ConfigIsUsableByItsUser ==
    ASSUME NEW user, ServiceUsers = {user}
    PROVE  AllSpec => [](config # NoFile =>
               /\ config.service_user = user /\ user \in accounts
               /\ CanWrite(user, "tree")
               /\ ~ IsSystemBin(config.bin_dir) => CanWrite(user, config.bin_dir))
<1>1. TypeOK /\ ConfigNamesOwnedSite =>
        (config # NoFile =>
            /\ config.service_user = user /\ user \in accounts
            /\ CanWrite(user, "tree")
            /\ ~ IsSystemBin(config.bin_dir) => CanWrite(user, config.bin_dir))
  <2> SUFFICES ASSUME TypeOK, ConfigNamesOwnedSite, config # NoFile
               PROVE  /\ config.service_user = user /\ user \in accounts
                      /\ CanWrite(user, "tree")
                      /\ ~ IsSystemBin(config.bin_dir) => CanWrite(user, config.bin_dir)
    OBVIOUS
  <2>1. accounts \subseteq {user}
    BY DEF TypeOK, SiteOK
  <2>2. user # "missing"
    BY SetupAssumption
  <2> QED
    BY <2>1, <2>2 DEF ConfigNamesOwnedSite, CanWrite
<1> QED
  BY <1>1, SetupTypeCorrect, ConfigIsOwned, PTL

----------------------------------------------------------------------------
(* SetupOkMeansReady and RepairOkMeansOwned                                *)

AfterConfig == {"make ledger", "own ledger", "profile", "group", "sudoers"}

\* How far a setup, or a repair, that nobody runs beside has come.
FarAlong(p) ==
    /\ pc[p] \in {"make bin", "own bin", "config"} \cup AfterConfig =>
          owner["tree"] = eff[p].service_user
    /\ pc[p] \in {"config"} \cup AfterConfig => owner[eff[p].bin_dir] = OwnerFor(eff[p])
    /\ pc[p] \in AfterConfig => config = eff[p]
    /\ pc[p] \in {"profile", "group", "sudoers"} => owner["ledger"] = OwnerFor(eff[p])
    /\ pc[p] \in {"group", "sudoers"} => profile = eff[p].bin_dir

FarRepaired(p) ==
    /\ pc[p] \in {"repair in tree", "repair bin", "repair in bin"} =>
          owner["tree"] \in {"missing", eff[p].service_user}
    /\ pc[p] \in {"repair bin", "repair in bin"} => inside["tree"] \subseteq {eff[p].service_user}
    /\ pc[p] = "repair in bin" => owner[eff[p].bin_dir] \in {"missing", eff[p].service_user}

Undisturbed(p) == \A q \in Procs \ {p} : pc[q] = "idle"
AloneInv == \A p \in alone : Undisturbed(p) /\ FarAlong(p) /\ FarRepaired(p)

\* A command or a setup that starts is the only candidate for being alone.
LEMMA StartsAlone ==
    ASSUME NEW p \in Procs, SetupNext(p) \/ CommandStep(p)
    PROVE  \/ alone' = alone /\ pc[p] # "idle"
           \/ pc[p] = "idle" /\ alone' = IF Undisturbed(p) THEN {p} ELSE {}
<1>1. CASE Refuse(p) \/ Start(p) \/ Invoke(p)
  BY <1>1 DEF Refuse, Start, Invoke, Count, Undisturbed
<1>2. CASE SetupStep(p) \/ Stop(p)
  BY <1>2
     DEF SetupStep, Stop, SetupPCs, Lookup, UserAdd, MakeTree, OwnTree, MakeBin, OwnBin,
         WriteConfig, MakeLedger, OwnLedger, WriteProfile, AddGroup, WriteSudoers,
         RepairTree, RepairInTree, RepairBin, RepairInBin, MakeDir, OwnDir, RepairDir,
         Done, Running, history
<1>3. CASE CommandStep(p) /\ ~ Invoke(p)
  BY <1>3
     DEF CommandStep, Startup, Gate, ReadMode, RunUv, RunUvFails, Link, WriteLedger,
         Running, history
<1> QED
  BY <1>1, <1>2, <1>3 DEF SetupNext

\* A start leaves the process where nothing is asked of it yet.
LEMMA StartsFresh ==
    ASSUME TypeOK, NEW p \in Procs, SetupNext(p) \/ CommandStep(p), pc[p] = "idle"
    PROVE  pc'[p] \in {"idle", "lookup", "repair tree", "startup"}
<1> USE TypeParts DEF Goto, ProcOK, SetupProcOK
<1>1. CASE Start(p)
  <2>1. PICK request \in CommandLines, e \in Files, repeats \in BOOLEAN :
              StartWith(p, request, e, repeats)
    BY <1>1, StartEffective
  <2> QED
    BY <2>1 DEF StartWith, Finish
<1>2. CASE Refuse(p) \/ Invoke(p)
  BY <1>2 DEF Refuse, Invoke, Finish
<1>3. ~ Stop(p) /\ ~ SetupStep(p)
  BY DEF Stop, SetupPCs, SetupStep, Lookup, UserAdd, MakeTree, OwnTree, MakeBin, OwnBin,
         WriteConfig, MakeLedger, OwnLedger, WriteProfile, AddGroup, WriteSudoers,
         RepairTree, RepairInTree, RepairBin, RepairInBin, MakeDir, OwnDir, RepairDir
<1>4. CommandStep(p) => Invoke(p)
  BY DEF CommandStep, Startup, Gate, ReadMode, RunUv, RunUvFails, Link, WriteLedger
<1> QED
  BY <1>1, <1>2, <1>3, <1>4 DEF SetupNext

LEMMA FarAlongStep ==
    ASSUME TypeOK, SettingsInv, NEW p \in Procs, FarAlong(p), SetupStep(p)
    PROVE  FarAlong(p)'
<1> USE TypeParts, SetupAssumption DEF Goto, ProcOK, SetupProcOK, Running
<1>1. eff[p].bin_dir \in BinDirs
  BY DEF SettingsInv, Settled, SetupStep, SetupPCs, Lookup, UserAdd, MakeTree, OwnTree,
         MakeBin, OwnBin, WriteConfig, MakeLedger, OwnLedger, WriteProfile, AddGroup,
         WriteSudoers, RepairTree, RepairInTree, RepairBin, RepairInBin, MakeDir,
         OwnDir, RepairDir
<1> USE DEF FarAlong, AfterConfig
<1>2. ASSUME pc'[p] \notin {"make bin", "own bin", "config"} \cup AfterConfig
      PROVE  FarAlong(p)'
  BY <1>2
<1>3. CASE Lookup(p) \/ UserAdd(p) \/ MakeTree(p)
  BY <1>2, <1>3 DEF Lookup, UserAdd, MakeTree, MakeDir, Finish
<1>4. CASE RepairTree(p) \/ RepairInTree(p) \/ RepairBin(p) \/ RepairInBin(p)
  BY <1>2, <1>4 DEF RepairTree, RepairInTree, RepairBin, RepairInBin, RepairDir, Finish
<1>5. CASE OwnTree(p) \/ MakeBin(p)
  <2>1. pc'[p] \in {"make bin", "own bin"} /\ eff' = eff
    BY <1>5 DEF OwnTree, MakeBin, OwnDir, MakeDir
  <2>2. owner'["tree"] = eff[p].service_user
    BY <1>1, <1>5 DEF OwnTree, MakeBin, OwnDir, MakeDir, Chowned, SiteOK, Dirs
  <2> QED
    BY <2>1, <2>2
<1>6. CASE OwnBin(p)
  BY <1>1, <1>6 DEF OwnBin, OwnDir, Chowned, SiteOK, Dirs, OwnerFor, IsSystemBin
<1>7. CASE WriteConfig(p)
  BY <1>7 DEF WriteConfig, OwnerFor, IsSystemBin
<1>8. CASE MakeLedger(p) \/ OwnLedger(p)
  <2>1. pc'[p] \in {"own ledger", "profile"} /\ UNCHANGED <<eff, config>>
    BY <1>8 DEF MakeLedger, OwnLedger, OwnDir, MakeDir
  <2>2. \A d \in {"tree", eff[p].bin_dir} : owner'[d] = owner[d]
    <3>1. eff[p].bin_dir # "ledger"
      BY <1>1
    <3>2. \A d \in Dirs \ {"ledger"} : owner'[d] = owner[d]
      BY <1>8 DEF MakeLedger, OwnLedger, OwnDir, MakeDir, SiteOK
    <3> QED
      BY <1>1, <3>1, <3>2 DEF Dirs
  <2>3. OwnLedger(p) => owner'["ledger"] = OwnerFor(eff[p])
    BY <1>8 DEF OwnLedger, OwnDir, Chowned, SiteOK, Dirs
  <2>4. OwnLedger(p) \/ pc'[p] = "own ledger"
    BY <1>8 DEF MakeLedger, MakeDir
  <2>5. pc[p] \in AfterConfig
    BY <1>8 DEF MakeLedger, OwnLedger, OwnDir, MakeDir
  <2>6. OwnerFor(eff[p])' = OwnerFor(eff[p])
    BY <2>1 DEF OwnerFor, IsSystemBin
  <2> HIDE DEF Goto, Running, ProcOK, SetupProcOK
  <2> QED
    BY <2>1, <2>2, <2>3, <2>4, <2>5, <2>6
<1>9. CASE WriteProfile(p)
  BY <1>2, <1>9 DEF WriteProfile, Done, Finish, OwnerFor, IsSystemBin
<1>10. CASE AddGroup(p) \/ WriteSudoers(p)
  BY <1>2, <1>10 DEF AddGroup, WriteSudoers, Done, Finish, OwnerFor, IsSystemBin
<1> QED
  BY <1>3, <1>4, <1>5, <1>6, <1>7, <1>8, <1>9, <1>10 DEF SetupStep

LEMMA FarRepairedStep ==
    ASSUME TypeOK, SettingsInv, NEW p \in Procs, FarRepaired(p), SetupStep(p)
    PROVE  FarRepaired(p)'
<1> USE TypeParts, SetupAssumption DEF Goto, ProcOK, SetupProcOK, Running, FarRepaired
<1>1. ASSUME pc'[p] \notin {"repair in tree", "repair bin", "repair in bin"}
      PROVE  FarRepaired(p)'
  BY <1>1
<1>2. CASE RepairTree(p)
  BY <1>2 DEF RepairTree, RepairDir, SiteOK, Dirs
<1>3. CASE RepairInTree(p)
  BY <1>3 DEF RepairInTree, RepairInside, SiteOK, Dirs
<1>4. CASE RepairBin(p)
  <2>1. eff[p].bin_dir \in BinDirs
    BY <1>4 DEF RepairBin, RepairDir, SettingsInv, Settled, SetupPCs
  <2> QED
    BY <1>4, <2>1 DEF RepairBin, RepairDir, SiteOK, Dirs
<1>5. CASE RepairInBin(p)
  BY <1>1, <1>5 DEF RepairInBin, Finish
<1>6. CASE ~ (RepairTree(p) \/ RepairInTree(p) \/ RepairBin(p) \/ RepairInBin(p))
  BY <1>1, <1>6
     DEF SetupStep, Lookup, UserAdd, MakeTree, OwnTree, MakeBin, OwnBin, WriteConfig,
         MakeLedger, OwnLedger, WriteProfile, AddGroup, WriteSudoers, MakeDir, OwnDir,
         Done, Finish
<1> QED
  BY <1>2, <1>3, <1>4, <1>5, <1>6

LEMMA AloneStep ==
    ASSUME TypeOK, SettingsInv, AloneInv, [AllNext]_allVars
    PROVE  AloneInv'
<1>1. CASE UNCHANGED allVars
  BY <1>1 DEF allVars, vars, site, proc, history, AloneInv, Undisturbed, FarAlong,
              FarRepaired, OwnerFor
<1>2. ASSUME NEW p \in Procs, SetupNext(p) \/ CommandStep(p)  PROVE AloneInv'
  <2>1. ASSUME NEW q \in alone', q # p  PROVE FALSE
    <3>1. q \in alone /\ pc[p] # "idle"
      BY <1>2, <2>1, StartsAlone
    <3> QED
      BY <2>1, <3>1 DEF AloneInv, Undisturbed
  <2>2. ASSUME p \in alone'  PROVE Undisturbed(p)' /\ FarAlong(p)' /\ FarRepaired(p)'
    <3>1. Undisturbed(p)
      BY <1>2, <2>2, StartsAlone DEF AloneInv
    <3>2. Undisturbed(p)'
      BY <1>2, <3>1, OthersStand DEF Undisturbed
    <3>3. CASE pc'[p] \in {"idle", "lookup", "repair tree", "startup"} \cup CommandPCs
      BY <3>2, <3>3 DEF FarAlong, FarRepaired, AfterConfig, CommandPCs
    <3>4. CASE pc[p] = "idle"
      BY <1>2, <3>3, <3>4, StartsFresh
    <3>5. CASE SetupStep(p) /\ pc[p] # "idle"
      BY <2>2, <3>2, <3>5, StartsAlone, FarAlongStep, FarRepairedStep DEF SetupNext, AloneInv
    <3>6. CASE CommandStep(p)
      <4>1. pc' \in [Procs -> SetupPCs \cup CommandPCs \cup {"idle"}]
        BY <3>6, CommandStepType DEF ProcOK, SetupProcOK
      <4>2. pc'[p] \notin SetupPCs
        BY <3>6, CommandNotInSetup
      <4> QED
        BY <3>3, <4>1, <4>2
    <3>7. CASE Stop(p)
      BY <3>3, <3>7, TypeParts DEF Stop, Finish, Goto, ProcOK, SetupProcOK
    <3>8. CASE Refuse(p) \/ Start(p)
      BY <3>4, <3>8 DEF Refuse, Start
    <3> QED
      BY <1>2, <3>4, <3>5, <3>6, <3>7, <3>8 DEF SetupNext
  <2> QED
    BY <2>1, <2>2 DEF AloneInv
<1> QED
  BY <1>1, <1>2 DEF AllNext

LEMMA AllInvariant == AllSpec => [](TypeOK /\ SettingsInv /\ UsableInv /\ AloneInv)
<1>1. AllInit => UsableInv /\ AloneInv
  BY DEF AllInit, Init, UsableInv, ConfigUsable, OnTheWay, SetupPCs, AloneInv
<1>2. TypeOK /\ SettingsInv /\ UsableInv /\ AloneInv /\ [AllNext]_allVars
         => UsableInv' /\ AloneInv'
  BY UsableStep, AloneStep
<1> QED
  BY <1>1, <1>2, SetupTypeCorrect, PTL DEF AllSpec

\* A setup that ends well, and that nobody ran beside, leaves one set of settings
\* in config.toml, in the profile snippet and in the owners of all directories,
\* whatever half-done setups it found.
THEOREM SetupLeavesOneSite == AllSpec => SetupOkMeansReady
<1> DEFINE Ready(p) ==
             (WriteProfile(p) \/ WriteSudoers(p)) /\ exit'[p] = "ok" /\ p \in alone =>
                LET who == IF IsSystemBin(config.bin_dir) THEN "root" ELSE config.service_user
                IN  /\ config = eff[p] /\ profile' = config.bin_dir
                    /\ config.service_user \in accounts
                    /\ owner["tree"] = config.service_user
                    /\ owner[config.bin_dir] = who /\ owner["ledger"] = who
<1>1. ASSUME TypeOK, SettingsInv, UsableInv, AloneInv  PROVE \A p \in Procs : Ready(p)
  <2> SUFFICES ASSUME NEW p \in Procs, WriteProfile(p) \/ WriteSudoers(p), p \in alone
               PROVE  Ready(p)
    OBVIOUS
  <2>1. FarAlong(p) /\ eff[p].service_user \in accounts
    BY <1>1 DEF AloneInv, UsableInv, OnTheWay, WriteProfile, WriteSudoers, SetupPCs
  <2>2. profile' = config.bin_dir
    BY <2>1 DEF FarAlong, AfterConfig, WriteProfile, WriteSudoers
  <2> QED
    BY <2>1, <2>2 DEF FarAlong, AfterConfig, WriteProfile, WriteSudoers, OwnerFor
<1>2. TypeOK /\ SettingsInv /\ UsableInv /\ AloneInv => [\A p \in Procs : Ready(p)]_allVars
  BY <1>1
<1> QED
  BY <1>2, AllInvariant, PTL DEF SetupOkMeansReady

\* A repair that ends well, and that nobody ran beside, leaves nothing of another
\* owner in the tree or in bin_dir.
THEOREM RepairOwnsAll == AllSpec => RepairOkMeansOwned
<1> DEFINE Owned(p) ==
             RepairInBin(p) =>
                \A d \in {"tree", eff[p].bin_dir} :
                    /\ owner'[d] \in {"missing", eff[p].service_user}
                    /\ inside'[d] \subseteq {eff[p].service_user}
<1>1. ASSUME TypeOK, SettingsInv, AloneInv  PROVE \A p \in alone : Owned(p)
  <2> SUFFICES ASSUME NEW p \in alone, RepairInBin(p), NEW d \in {"tree", eff[p].bin_dir}
               PROVE  /\ owner'[d] \in {"missing", eff[p].service_user}
                      /\ inside'[d] \subseteq {eff[p].service_user}
    OBVIOUS
  <2>1. p \in Procs /\ FarRepaired(p)
    BY <1>1, TypeParts DEF AloneInv, HistoryOK
  <2>2. eff[p].bin_dir \in BinDirs
    BY <1>1, <2>1 DEF RepairInBin, SettingsInv, Settled, SetupPCs
  <2> QED
    BY <1>1, <2>1, <2>2, TypeParts, SetupAssumption
       DEF RepairInBin, RepairInside, FarRepaired, SiteOK, Dirs
<1>2. TypeOK /\ SettingsInv /\ AloneInv => [\A p \in alone : Owned(p)]_allVars
  BY <1>1
<1> QED
  BY <1>2, AllInvariant, PTL DEF RepairOkMeansOwned
=============================================================================
