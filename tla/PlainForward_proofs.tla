------------------------ MODULE PlainForward_proofs ------------------------
(***************************************************************************)
(* Theorems about plain forwards, for any number of processes, packages,   *)
(* executables and foreign writes, and whatever package a command line is  *)
(* taken to be about.                                                      *)
(***************************************************************************)
EXTENDS PlainForward, TLAPS

----------------------------------------------------------------------------
(* Types                                                                   *)

ProcOK ==
    /\ pc \in [Procs -> {"idle", "uv", "inspect", "rollback"}]
    /\ cmd \in [Procs -> Commands]
    /\ pre \in [Procs -> [Exes -> Entries]]
    /\ code \in [Procs -> {"ok", "failed"}]
    /\ exit \in [Procs -> ExitCodes]

DiskOK == bin \in [Exes -> Entries] /\ env \in [Packages -> SUBSET Exes]

AuditOK ==
    audit \in [AuditFiles -> SUBSET ({"verify_skipped", "integrity_finding"} \X Nat)]

CountsOK == started \in Nat /\ oobs \in Nat

LEMMA TypeParts ==
    /\ TypeOK  <=> ProcOK  /\ DiskOK  /\ AuditOK  /\ CountsOK
    /\ TypeOK' <=> ProcOK' /\ DiskOK' /\ AuditOK' /\ CountsOK'
BY DEF TypeOK, ProcOK, DiskOK, AuditOK, CountsOK

LEMMA NoCommandType == NoCommand \in Commands
BY ForwardAssumption DEF NoCommand, Commands, Names

LEMMA EmptyBinType == EmptyBin \in [Exes -> Entries]
BY DEF EmptyBin, Entries

LEMMA FinishType ==
    ASSUME ProcOK, NEW p \in Procs, NEW result \in ExitCodes, Finish(p, result)
    PROVE  ProcOK'
BY NoCommandType, EmptyBinType DEF ProcOK, Finish, Goto

LEMMA AfterUvType ==
    ASSUME ProcOK, NEW p \in Procs, NEW result \in {"ok", "failed"}, AfterUv(p, result)
    PROVE  ProcOK'
<1>1. CASE cmd[p].monitor
  BY <1>1 DEF ProcOK, AfterUv, Goto
<1>2. CASE ~ cmd[p].monitor
  BY <1>2, FinishType DEF AfterUv, ExitCodes
<1> QED
  BY <1>1, <1>2

LEMMA UvRemovesType ==
    ASSUME DiskOK, NEW pkg \in Packages, UvRemoves(pkg)
    PROVE  DiskOK'
BY DEF DiskOK, UvRemoves, Entries

LEMMA EmitType ==
    ASSUME AuditOK, NEW event \in {"verify_skipped", "integrity_finding"},
           NEW c \in Commands, EmitAudit(event, c)
    PROVE  AuditOK'
<1>1. PlainPath(c.verb) \in AuditFiles /\ c.op \in Nat
  BY DEF PlainPath, AuditFiles, Commands
<1> QED
  BY <1>1 DEF AuditOK, EmitAudit

\* A command that starts is one of Commands.
LEMMA CommandForType ==
    ASSUME CountsOK, NEW verb \in {"install", "uninstall"}, NEW reading \in Readings,
           NEW skip
    PROVE  CommandFor(verb, reading, skip) \in Commands
<1> DEFINE known   == reading.name # Unknown
           skipped == known /\ skip /\ Mode = "rootless"
<1>1. (known /\ ~ skipped) \in BOOLEAN /\ skipped \in BOOLEAN
  OBVIOUS
<1> HIDE DEF skipped, known
<1>2. [ verb |-> verb, pkg |-> reading.pkg, name |-> reading.name,
        monitor |-> known /\ ~ skipped, skipped |-> skipped, op |-> started + 1 ]
          \in Commands
  BY <1>1, ForwardAssumption DEF Commands, Names, CountsOK
<1> QED
  BY <1>2 DEF CommandFor, known, skipped

LEMMA StartForwardType ==
    ASSUME TypeOK, NEW p \in Procs, StartForward(p)
    PROVE  ProcOK' /\ AuditOK'
<1> USE TypeParts
<1>1. PICK c \in Commands :
        /\ cmd' = [cmd EXCEPT ![p] = c]
        /\ IF c.skipped THEN EmitAudit("verify_skipped", c) ELSE UNCHANGED audit
        /\ IF c.monitor THEN pre' = [pre EXCEPT ![p] = bin] ELSE UNCHANGED pre
  BY CommandForType DEF StartForward
<1>2. AuditOK'
  BY <1>1, EmitType DEF AuditOK
<1>3. cmd' \in [Procs -> Commands] /\ pre' \in [Procs -> [Exes -> Entries]]
  BY <1>1 DEF ProcOK, DiskOK
<1>4. ProcOK'
  BY <1>3 DEF StartForward, ProcOK, Goto, ExitCodes
<1> QED
  BY <1>2, <1>4

LEMMA TypeStep ==
    ASSUME TypeOK, [Next]_vars
    PROVE  TypeOK'
<1> USE TypeParts
<1>1. ASSUME NEW p \in Procs, StartForward(p)  PROVE TypeOK'
  <2>1. UNCHANGED <<bin, env, oobs>> /\ started' = started + 1
    BY <1>1 DEF StartForward
  <2>2. DiskOK' /\ CountsOK'
    BY <2>1 DEF DiskOK, CountsOK
  <2> QED
    BY <1>1, <2>2, StartForwardType
<1>2. ASSUME NEW p \in Procs, UvInstalls(p)  PROVE TypeOK'
  <2>1. ProcOK'
    BY <1>2, AfterUvType DEF UvInstalls
  <2>2. DiskOK'
    <3>1. CASE UNCHANGED <<bin, env>>
      BY <3>1 DEF DiskOK
    <3>2. ASSUME NEW xs \in Provides[cmd[p].pkg],
                 env' = [env EXCEPT ![cmd[p].pkg] = xs],
                 bin' = [e \in Exes |->
                           CASE e \in xs -> [env |-> cmd[p].pkg, exe |-> e]
                             [] e \notin xs /\ Canonical(e, bin[e], cmd[p].pkg) -> Absent
                             [] OTHER -> bin[e]]
          PROVE  DiskOK'
      <4>1. cmd[p].pkg \in Packages
        BY DEF ProcOK, Commands
      <4>2. xs \subseteq Exes
        BY <4>1, <3>2, ForwardAssumption
      <4>3. env' \in [Packages -> SUBSET Exes]
        BY <3>2, <4>2 DEF DiskOK
      <4>4. bin' \in [Exes -> Entries]
        BY <3>2, <4>1 DEF DiskOK, Entries, Symlinks
      <4> QED
        BY <4>3, <4>4 DEF DiskOK
    <3> QED
      BY <1>2, <3>1, <3>2 DEF UvInstalls
  <2> QED
    BY <1>2, <2>1, <2>2 DEF UvInstalls, AuditOK, CountsOK
<1>3. ASSUME NEW p \in Procs, UvInstallFails(p)  PROVE TypeOK'
  BY <1>3, FinishType DEF UvInstallFails, ExitCodes, DiskOK, AuditOK, CountsOK
<1>4. ASSUME NEW p \in Procs, UvUninstalls(p)  PROVE TypeOK'
  <2>1. ProcOK'
    BY <1>4, AfterUvType DEF UvUninstalls
  <2>2. cmd[p].pkg \in Packages
    BY DEF ProcOK, Commands
  <2>3. DiskOK'
    BY <1>4, <2>2, UvRemovesType DEF UvUninstalls, DiskOK
  <2> QED
    BY <1>4, <2>1, <2>3 DEF UvUninstalls, AuditOK, CountsOK
<1>5. ASSUME NEW p \in Procs, Inspect(p)  PROVE TypeOK'
  <2>1. cmd[p] \in Commands /\ code[p] \in ExitCodes
    BY DEF ProcOK, ExitCodes
  <2>2. ProcOK'
    <3>1. ASSUME Goto(p, "rollback"), UNCHANGED <<cmd, pre, code, exit>>  PROVE ProcOK'
      BY <3>1 DEF ProcOK, Goto
    <3> QED
      BY <1>5, <2>1, <3>1, FinishType DEF Inspect, ExitCodes
  <2>3. AuditOK'
    BY <1>5, <2>1, EmitType DEF Inspect, AuditOK
  <2> QED
    BY <1>5, <2>2, <2>3 DEF Inspect, DiskOK, CountsOK
<1>6. ASSUME NEW p \in Procs, Rollback(p)  PROVE TypeOK'
  <2>1. cmd[p] \in Commands
    BY DEF ProcOK
  <2>2. ProcOK' /\ AuditOK'
    BY <1>6, <2>1, FinishType, EmitType DEF Rollback, ExitCodes
  <2>3. DiskOK'
    BY <1>6, UvRemovesType DEF Rollback, DiskOK
  <2> QED
    BY <1>6, <2>2, <2>3 DEF Rollback, CountsOK
<1>7. CASE OutOfBand
  BY <1>7 DEF OutOfBand, DiskOK, ProcOK, AuditOK, CountsOK, proc
<1>8. CASE UNCHANGED vars
  BY <1>8 DEF vars, proc, DiskOK, ProcOK, AuditOK, CountsOK
<1> QED
  BY <1>1, <1>2, <1>3, <1>4, <1>5, <1>6, <1>7, <1>8 DEF Next, Step

\* Every variable of PlainForward keeps its type.
THEOREM ForwardTypeCorrect == Spec => []TypeOK
<1>1. Init => TypeOK
  <2> SUFFICES ASSUME Init  PROVE TypeOK
    OBVIOUS
  <2>1. ProcOK
    BY NoCommandType, EmptyBinType DEF Init, ProcOK, ExitCodes
  <2>2. DiskOK /\ AuditOK
    BY DEF Init, DiskOK, AuditOK, Entries
  <2> QED
    BY <2>1, <2>2, TypeParts DEF Init, CountsOK
<1> QED
  BY <1>1, TypeStep, PTL DEF Spec

----------------------------------------------------------------------------
(* Attribution                                                             *)

\* Where no difference between two snapshots is a finding, each is a canonical
\* link of the package that came, or one that went.
LEMMA NoFindings ==
    ASSUME NEW before \in [Exes -> Entries], NEW after \in [Exes -> Entries],
           NEW pkg, Findings(Diff(before, after), pkg) = {},
           NEW e \in Exes, after[e] # before[e]
    PROVE  \/ after[e] = [env |-> pkg, exe |-> e]
           \/ after[e] = Absent /\ before[e] = [env |-> pkg, exe |-> e]
<1> DEFINE c == ChangeAt(before, after, e)
<1>1. c \in Diff(before, after)
  BY DEF Diff
<1>2. Attributable(c, pkg)
  BY <1>1 DEF Findings
<1>3. ASSUME NEW v, Canonical(e, v, pkg)  PROVE v = [env |-> pkg, exe |-> e]
  BY <1>3 DEF Canonical, Symlinks
<1>4. CASE after[e] = Absent
  <2>1. c.kind = "removed" /\ c.path = e /\ c.before = before[e]
    BY <1>4 DEF ChangeAt, ChangeKind
  <2> QED
    BY <1>2, <1>3, <1>4, <2>1 DEF Attributable
<1>5. CASE after[e] # Absent
  <2>1. c.kind # "removed" /\ c.path = e /\ c.after = after[e]
    BY <1>5 DEF ChangeAt, ChangeKind
  <2> QED
    BY <1>2, <1>3, <2>1 DEF Attributable
<1> QED
  BY <1>4, <1>5

\* A monitored command that reports no finding has left bin_dir as it was except
\* for canonical links of the tool it names.
THEOREM QuietMeansOwnChangesAlways == Spec => QuietMeansOwnChanges
<1> DEFINE Quiet(p) ==
             Inspect(p) /\ pc'[p] = "idle" /\ exit'[p] # "integrity" =>
                 \A e \in Exes : bin[e] # pre[p][e] =>
                     \/ bin[e] = [env |-> cmd[p].name, exe |-> e]
                     \/ /\ bin[e] = Absent
                        /\ pre[p][e] = [env |-> cmd[p].name, exe |-> e]
<1>1. ASSUME TypeOK  PROVE \A p \in Procs : Quiet(p)
  <2> SUFFICES ASSUME NEW p \in Procs, Inspect(p), pc'[p] = "idle",
                      exit'[p] # "integrity", NEW e \in Exes, bin[e] # pre[p][e]
               PROVE  \/ bin[e] = [env |-> cmd[p].name, exe |-> e]
                      \/ /\ bin[e] = Absent
                         /\ pre[p][e] = [env |-> cmd[p].name, exe |-> e]
    OBVIOUS
  <2>1. ~ Finish(p, "integrity") /\ ~ Goto(p, "rollback")
    BY <1>1 DEF TypeOK, Finish, Goto
  <2>2. Findings(Diff(pre[p], bin), cmd[p].name) = {}
    BY <2>1 DEF Inspect
  <2>3. pre[p] \in [Exes -> Entries] /\ bin \in [Exes -> Entries]
    BY <1>1 DEF TypeOK
  <2> QED
    BY <2>2, <2>3, NoFindings
<1>2. TypeOK => [\A p \in Procs : Quiet(p)]_vars
  BY <1>1
<1> QED
  BY <1>2, ForwardTypeCorrect, PTL DEF QuietMeansOwnChanges

----------------------------------------------------------------------------
(* One command at a time, and nobody else                                  *)

\* The other way round: what the package's own canonical links account for is
\* no finding.
LEMMA OwnLinksAreNoFindings ==
    ASSUME NEW before \in [Exes -> Entries], NEW after \in [Exes -> Entries],
           NEW pkg \in Packages,
           \A e \in Exes : after[e] # before[e] =>
               \/ after[e] = [env |-> pkg, exe |-> e]
               \/ after[e] = Absent /\ before[e] = [env |-> pkg, exe |-> e]
    PROVE  Findings(Diff(before, after), pkg) = {}
<1> SUFFICES ASSUME NEW e \in Exes, after[e] # before[e]
             PROVE  Attributable(ChangeAt(before, after, e), pkg)
  BY DEF Findings, Diff
<1> DEFINE own == [env |-> pkg, exe |-> e]
           c   == ChangeAt(before, after, e)
<1>1. own \in Symlinks /\ own # Absent
  BY ForwardAssumption DEF Symlinks
<1>2. Canonical(e, own, pkg)
  BY <1>1 DEF Canonical
<1>3. c.path = e /\ c.before = before[e] /\ c.after = after[e]
      /\ c.kind = ChangeKind(before[e], after[e])
  BY DEF ChangeAt
<1> HIDE DEF own, c
<1>4. CASE after[e] = own
  BY <1>1, <1>2, <1>3, <1>4 DEF Attributable, ChangeKind, c
<1>5. CASE after[e] = Absent /\ before[e] = own
  BY <1>1, <1>2, <1>3, <1>5 DEF Attributable, ChangeKind, c
<1> QED
  BY <1>4, <1>5 DEF own

\* What a command has changed of bin_dir since its snapshot.
OwnSince(p) ==
    \A e \in Exes : bin[e] # pre[p][e] =>
        \/ bin[e] = [env |-> cmd[p].pkg, exe |-> e]
        \/ bin[e] = Absent /\ pre[p][e] = [env |-> cmd[p].pkg, exe |-> e]

NamesAreRight == \A r \in Readings : r.name \in {r.pkg, Unknown}

QuietInv ==
    oobs = 0 /\ NamesAreRight =>
        \A p \in Procs :
            /\ exit[p] # "integrity" /\ pc[p] # "rollback"
            /\ cmd[p].monitor /\ pc[p] \in {"uv", "inspect"} =>
                  cmd[p].name = cmd[p].pkg /\ OwnSince(p)
            /\ cmd[p].monitor /\ pc[p] = "uv" => bin = pre[p]
            /\ pc[p] = "inspect" => cmd[p].monitor

LEMMA QuietStep ==
    ASSUME TypeOK, QuietInv, [Next]_vars, \A p, q \in Procs : p = q
    PROVE  QuietInv'
<1> SUFFICES ASSUME oobs' = 0, NamesAreRight, NEW q \in Procs
             PROVE  (/\ exit[q] # "integrity" /\ pc[q] # "rollback"
                     /\ cmd[q].monitor /\ pc[q] \in {"uv", "inspect"} =>
                           cmd[q].name = cmd[q].pkg /\ OwnSince(q)
                     /\ cmd[q].monitor /\ pc[q] = "uv" => bin = pre[q]
                     /\ pc[q] = "inspect" => cmd[q].monitor)'
  BY DEF QuietInv, NamesAreRight
<1> DEFINE Good ==
             /\ exit[q] # "integrity" /\ pc[q] # "rollback"
             /\ cmd[q].monitor /\ pc[q] \in {"uv", "inspect"} =>
                   cmd[q].name = cmd[q].pkg /\ OwnSince(q)
             /\ cmd[q].monitor /\ pc[q] = "uv" => bin = pre[q]
             /\ pc[q] = "inspect" => cmd[q].monitor
<1>1. CASE UNCHANGED vars
  BY <1>1 DEF vars, proc, QuietInv, OwnSince
<1>2. CASE OutOfBand
  BY <1>2 DEF OutOfBand, TypeOK
<1>3. ASSUME NEW p \in Procs, StartForward(p) \/ Step(p)  PROVE Good'
  <2>1. p = q /\ oobs = 0
    BY <1>3 DEF StartForward, Step, UvInstalls, UvInstallFails, UvUninstalls, Inspect, Rollback
  <2>2. Good
    BY <2>1 DEF QuietInv
  <2>3. ASSUME NEW result, result # "integrity", Finish(q, result)  PROVE Good'
    BY <2>3 DEF Finish, Goto, TypeOK
  <2>4. CASE StartForward(q)
    <3>1. PICK verb \in {"install", "uninstall"}, reading \in Readings, skip \in SkipVerify :
            LET c == CommandFor(verb, reading, skip) IN
            /\ cmd' = [cmd EXCEPT ![q] = c]
            /\ IF c.monitor THEN pre' = [pre EXCEPT ![q] = bin] ELSE UNCHANGED pre
      BY <2>4 DEF StartForward
    <3>2. cmd'[q] = CommandFor(verb, reading, skip)
      BY <3>1 DEF TypeOK
    <3> DEFINE known   == reading.name # Unknown
               skipped == known /\ skip /\ Mode = "rootless"
               monitor == known /\ ~ skipped
    <3>3. /\ cmd'[q].monitor = monitor
          /\ cmd'[q].name = reading.name /\ cmd'[q].pkg = reading.pkg
      <4> DEFINE c == [ verb |-> verb, pkg |-> reading.pkg, name |-> reading.name,
                        monitor |-> monitor, skipped |-> skipped, op |-> started + 1 ]
      <4>1. cmd'[q] = c
        BY <3>2 DEF CommandFor
      <4> HIDE DEF known, skipped, monitor
      <4>2. c.monitor = monitor /\ c.name = reading.name /\ c.pkg = reading.pkg
        OBVIOUS
      <4> QED
        BY <4>1, <4>2
    <3>4. cmd'[q].monitor => cmd'[q].name = cmd'[q].pkg /\ pre'[q] = bin
      BY <3>1, <3>2, <3>3 DEF NamesAreRight, TypeOK
    <3>5. bin' = bin /\ pc'[q] = "uv" /\ exit'[q] = "none"
      BY <2>4 DEF StartForward, Goto, TypeOK
    <3> QED
      BY <3>4, <3>5 DEF OwnSince
  <2>5. ASSUME NEW result \in {"ok", "failed"}, AfterUv(q, result), pc[q] = "uv",
               cmd[q].monitor => \A e \in Exes : bin'[e] # bin[e] =>
                   \/ bin'[e] = [env |-> cmd[q].pkg, exe |-> e]
                   \/ bin'[e] = Absent /\ bin[e] = [env |-> cmd[q].pkg, exe |-> e]
        PROVE  Good'
    <3>1. CASE cmd[q].monitor
      <4>1. UNCHANGED <<cmd, pre, exit>> /\ pc'[q] = "inspect"
        BY <2>5, <3>1 DEF AfterUv, Goto, TypeOK
      <4> QED
        BY <2>2, <2>5, <3>1, <4>1 DEF OwnSince
    <3>2. CASE ~ cmd[q].monitor
      BY <2>3, <2>5, <3>2 DEF AfterUv
    <3> QED
      BY <3>1, <3>2
  <2>6. ASSUME UvRemoves(cmd[q].pkg)
        PROVE  \A e \in Exes : bin'[e] # bin[e] =>
                   bin'[e] = Absent /\ bin[e] = [env |-> cmd[q].pkg, exe |-> e]
    BY <2>6 DEF UvRemoves, Canonical, Symlinks
  <2>7. CASE UvInstalls(q)
    <3>1. \A e \in Exes : bin'[e] # bin[e] =>
             \/ bin'[e] = [env |-> cmd[q].pkg, exe |-> e]
             \/ bin'[e] = Absent /\ bin[e] = [env |-> cmd[q].pkg, exe |-> e]
      <4>1. CASE bin' = bin
        BY <4>1
      <4>2. ASSUME NEW xs,
                   bin' = [e \in Exes |->
                             CASE e \in xs -> [env |-> cmd[q].pkg, exe |-> e]
                               [] e \notin xs /\ Canonical(e, bin[e], cmd[q].pkg) -> Absent
                               [] OTHER -> bin[e]]
            PROVE  \A e \in Exes : bin'[e] # bin[e] =>
                      \/ bin'[e] = [env |-> cmd[q].pkg, exe |-> e]
                      \/ bin'[e] = Absent /\ bin[e] = [env |-> cmd[q].pkg, exe |-> e]
        BY <4>2 DEF Canonical, Symlinks
      <4> QED
        BY <2>7, <4>1, <4>2 DEF UvInstalls
    <3>2. AfterUv(q, "ok") /\ pc[q] = "uv"
      BY <2>7 DEF UvInstalls
    <3> QED
      BY <2>5, <3>1, <3>2
  <2>8. CASE UvUninstalls(q)
    <3>1. CASE UvRemoves(cmd[q].pkg) /\ AfterUv(q, "ok")
      BY <2>5, <2>6, <2>8, <3>1 DEF UvUninstalls
    <3>2. CASE bin' = bin /\ AfterUv(q, "failed")
      BY <2>5, <2>8, <3>2 DEF UvUninstalls
    <3> QED
      BY <2>8, <3>1, <3>2 DEF UvUninstalls
  <2>9. CASE Inspect(q)
    <3>1. cmd[q].name = cmd[q].pkg /\ OwnSince(q) /\ cmd[q].pkg \in Packages
      BY <2>2, <2>9 DEF Inspect, TypeOK, Commands
    <3>2. Findings(Diff(pre[q], bin), cmd[q].name) = {}
      BY <3>1, OwnLinksAreNoFindings DEF OwnSince, TypeOK
    <3>3. Finish(q, code[q]) /\ code[q] # "integrity"
      BY <2>9, <3>2 DEF Inspect, TypeOK
    <3> QED
      BY <2>3, <3>3
  <2>10. CASE Rollback(q)
    BY <2>2, <2>10 DEF Rollback
  <2>11. CASE UvInstallFails(q)
    BY <2>3, <2>11 DEF UvInstallFails
  <2> QED
    BY <1>3, <2>1, <2>4, <2>7, <2>8, <2>9, <2>10, <2>11 DEF Step
<1> QED
  BY <1>1, <1>2, <1>3 DEF Next

\* While one command runs at a time, nobody else writes bin_dir and the package is
\* told right, no command reports a finding.
THEOREM NoFalseFindingForOne ==
    ASSUME \A p, q \in Procs : p = q
    PROVE  Spec => []NoFalseFinding
<1>1. Init => QuietInv
  BY DEF Init, QuietInv, NoCommand
<1>2. TypeOK /\ QuietInv /\ [Next]_vars => QuietInv'
  BY QuietStep
<1>3. QuietInv => NoFalseFinding
  BY DEF QuietInv, NoFalseFinding, NamesAreRight
<1> QED
  BY <1>1, <1>2, <1>3, ForwardTypeCorrect, PTL DEF Spec
=============================================================================
